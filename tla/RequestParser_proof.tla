------------------------ MODULE RequestParser_proof ------------------------
(***************************************************************************)
(* A content of announced length is read whole, in memory or to a file by   *)
(* its size, and what follows it stays on the stream, for all requests,     *)
(* limits and chunks.  The head ends with its first blank line because its  *)
(* parts are lines; nothing else of the head matters here.                  *)
(***************************************************************************)
EXTENDS RequestParser, SequenceTheorems, WellFoundedInduction, TLAPS

(* The constants, for the leaves that only need numbers.                    *)
LEMMA Sizes ==
  /\ HeadLimit \in Nat \ {0} /\ FormLimit \in Nat \ {0}
  /\ MemoryLimit \in Nat \ {0} /\ BufferSize \in Nat \ {0} /\ MaxUnread \in Nat \ {0}
  BY ParserConstants

LEMMA Chars == "\r" # "\n" /\ "\r" # ":" /\ "\r" # "HTTP/1.1"
  OBVIOUS

-----------------------------------------------------------------------------
(* Texts, and their concatenation where it is left unexpanded.              *)
Texts == Seq(Words)
Cat(s, t) == s \o t

LEMMA ConcatIs ==
  ASSUME NEW S
  PROVE  \A s, t \in Seq(S) :
           /\ s \o t \in Seq(S) /\ Len(s \o t) = Len(s) + Len(t)
           /\ \A i \in 1 .. Len(s) + Len(t) : (s \o t)[i] = IF i <= Len(s) THEN s[i] ELSE t[i - Len(s)]
  BY ConcatProperties

LEMMA CatIs ==
  \A s, t \in Texts :
    /\ Cat(s, t) \in Texts /\ Len(Cat(s, t)) = Len(s) + Len(t)
    /\ \A i \in 1 .. Len(s) + Len(t) :
         Cat(s, t)[i] = IF i <= Len(s) THEN s[i] ELSE t[i - Len(s)]
  BY ConcatIs, Zenon DEF Texts, Cat

LEMMA CatAssociative ==
  \A s, t, u \in Texts : Cat(s, t) \in Texts /\ Cat(Cat(s, t), u) = Cat(s, Cat(t, u))
  BY ConcatAssociative, ConcatProperties, SMTT(30) DEF Texts, Cat

LEMMA CatEmpty ==
  <<>> \in Texts /\ \A s \in Texts : Cat(s, <<>>) = s /\ Cat(<<>>, s) = s
  BY ConcatEmptySeq DEF Texts, Cat

LEMMA LenIs ==
  \A s \in Texts : Len(s) \in Nat /\ (Len(s) = 0 <=> s = <<>>) /\ \A i \in 1 .. Len(s) : s[i] \in Words
  BY DEF Texts

(* Texts with the same elements are equal.                                  *)
LEMMA SameTexts ==
  ASSUME NEW s \in Texts, NEW t \in Texts, Len(s) = Len(t),
         \A i \in 1 .. Len(s) : s[i] = t[i]
  PROVE  s = t
  BY SeqEqual DEF Texts

(* A text is its first n elements and the others.                           *)
LEMMA SplitText ==
  ASSUME NEW s \in Texts, NEW n \in 0 .. Len(s)
  PROVE  /\ SubSeq(s, 1, n) \in Texts /\ Len(SubSeq(s, 1, n)) = n
         /\ Drop(s, n) \in Texts /\ Len(Drop(s, n)) = Len(s) - n
         /\ Cat(SubSeq(s, 1, n), Drop(s, n)) = s
         /\ \A i \in 1 .. n : SubSeq(s, 1, n)[i] = s[i]
  <1>1. Len(s) \in Nat /\ \A i \in 1 .. Len(s) : s[i] \in Words
    BY LenIs
  <1>2. /\ SubSeq(s, 1, n) \in Texts /\ Len(SubSeq(s, 1, n)) = n
        /\ \A i \in 1 .. n : SubSeq(s, 1, n)[i] = s[i]
    BY <1>1, SubSeqProperties DEF Texts
  <1>3. Drop(s, n) \in Texts /\ Len(Drop(s, n)) = Len(s) - n
    BY <1>1, SubSeqProperties DEF Drop, Texts
  <1>4. SubSeq(s, 1, n) \o Drop(s, n) = SubSeq(s, 1, Len(s))
    <2>1. 1 \in 1 .. Len(s) + 1 /\ n \in (1 - 1) .. Len(s) /\ Len(s) \in n .. Len(s)
      BY <1>1
    <2>2. SubSeq(s, 1, n) \o SubSeq(s, n + 1, Len(s)) = SubSeq(s, 1, Len(s))
      BY <2>1, ConcatAdjacentSubSeq, Zenon DEF Texts
    <2> QED BY <2>2 DEF Drop
  <1>5. SubSeq(s, 1, Len(s)) = s
    BY SubSeqFull DEF Texts
  <1> QED BY <1>2, <1>3, <1>4, <1>5 DEF Cat

(* A part in the middle, and what is behind it.                             *)
SplitsTwice(s, m, n) ==
  /\ SubSeq(s, m + 1, m + n) \in Texts /\ Len(SubSeq(s, m + 1, m + n)) = n
  /\ Cat(SubSeq(s, m + 1, m + n), Drop(s, m + n)) = Drop(s, m)
  /\ Cat(SubSeq(s, 1, m), SubSeq(s, m + 1, m + n)) = SubSeq(s, 1, m + n)
  /\ SubSeq(Drop(s, m), 1, n) = SubSeq(s, m + 1, m + n)
  /\ Drop(Drop(s, m), n) = Drop(s, m + n)

LEMMA SplitTwice ==
  ASSUME NEW s \in Texts, NEW m \in Nat, NEW n \in Nat, m + n <= Len(s)
  PROVE  SplitsTwice(s, m, n)
  <1>1. Len(s) \in Nat /\ m + n \in Nat /\ \A i \in 1 .. Len(s) : s[i] \in Words
    BY LenIs
  <1>2. SubSeq(s, m + 1, m + n) \in Texts /\ Len(SubSeq(s, m + 1, m + n)) = n
    <2>1. \A i \in m + 1 .. m + n : s[i] \in Words
      BY <1>1
    <2> QED BY <1>1, <2>1, SubSeqProperties DEF Texts
  <1>3. Cat(SubSeq(s, m + 1, m + n), Drop(s, m + n)) = Drop(s, m)
    <2>1. m + 1 \in 1 .. Len(s) + 1 /\ m + n \in ((m + 1) - 1) .. Len(s) /\ Len(s) \in m + n .. Len(s)
      BY <1>1
    <2>2. SubSeq(s, m + 1, m + n) \o SubSeq(s, (m + n) + 1, Len(s)) = SubSeq(s, m + 1, Len(s))
      BY <2>1, ConcatAdjacentSubSeq, Zenon DEF Texts
    <2> QED BY <2>2 DEF Drop, Cat
  <1>4. Cat(SubSeq(s, 1, m), SubSeq(s, m + 1, m + n)) = SubSeq(s, 1, m + n)
    <2>1. 1 \in 1 .. Len(s) + 1 /\ m \in (1 - 1) .. Len(s) /\ m + n \in m .. Len(s)
      BY <1>1
    <2>2. SubSeq(s, 1, m) \o SubSeq(s, m + 1, m + n) = SubSeq(s, 1, m + n)
      BY <2>1, ConcatAdjacentSubSeq, Zenon DEF Texts
    <2> QED BY <2>2 DEF Cat
  <1>5. /\ Drop(s, m) \in Texts /\ Len(Drop(s, m)) = Len(s) - m
        /\ \A i \in 1 .. Len(s) - m : Drop(s, m)[i] = s[m + i]
    BY <1>1, SubSeqProperties DEF Drop, Texts
  <1>6. /\ Drop(s, m + n) \in Texts /\ Len(Drop(s, m + n)) = Len(s) - (m + n)
        /\ \A i \in 1 .. Len(s) - (m + n) : Drop(s, m + n)[i] = s[(m + n) + i]
    BY <1>1, SubSeqProperties DEF Drop, Texts
  <1>7. SubSeq(Drop(s, m), 1, n) = SubSeq(s, m + 1, m + n)
    <2>1. /\ SubSeq(Drop(s, m), 1, n) \in Texts /\ Len(SubSeq(Drop(s, m), 1, n)) = n
          /\ \A i \in 1 .. n : SubSeq(Drop(s, m), 1, n)[i] = Drop(s, m)[i]
      BY <1>1, <1>5, SplitText
    <2>2. \A i \in 1 .. n : SubSeq(s, m + 1, m + n)[i] = s[m + i]
      BY <1>1, <1>2, SubSeqProperties DEF Texts
    <2>3. \A i \in 1 .. n : SubSeq(Drop(s, m), 1, n)[i] = SubSeq(s, m + 1, m + n)[i]
      <3> TAKE i \in 1 .. n
      <3>1. i \in 1 .. Len(s) - m
        BY <1>1
      <3>2. Drop(s, m)[i] = s[m + i]
        BY <1>5, <3>1
      <3> QED BY <2>1, <2>2, <3>2
    <2> QED BY <1>2, <2>1, <2>3, SameTexts
  <1>8. Drop(Drop(s, m), n) = Drop(s, m + n)
    <2>1. n \in 0 .. Len(Drop(s, m))
      BY <1>1, <1>5
    <2>2. /\ Drop(Drop(s, m), n) \in Texts /\ Len(Drop(Drop(s, m), n)) = (Len(s) - m) - n
          /\ \A i \in 1 .. (Len(s) - m) - n : Drop(Drop(s, m), n)[i] = Drop(s, m)[n + i]
      BY <1>1, <1>5, <2>1, SubSeqProperties DEF Drop, Texts
    <2>3. \A i \in 1 .. (Len(s) - m) - n : Drop(Drop(s, m), n)[i] = Drop(s, m + n)[i]
      BY <1>1, <1>5, <1>6, <2>2
    <2>4. (Len(s) - m) - n = Len(s) - (m + n)
      BY <1>1
    <2> QED BY <1>6, <2>2, <2>3, <2>4, SameTexts
  <1> QED BY <1>2, <1>3, <1>4, <1>7, <1>8 DEF SplitsTwice

-----------------------------------------------------------------------------
(* A set of numbers has a least one.                                        *)
LEMMA MinIn ==
  ASSUME NEW S \in SUBSET Nat, S # {}
  PROVE  Min(S) \in S /\ \A y \in S : Min(S) <= y
  <1>1. \E x \in S : \A y \in S : ~ (<<y, x>> \in OpToRel(<, Nat))
    BY NatLessThanWellFounded, WFMin, Zenon
  <1>2. PICK x \in S : \A y \in S : ~ (<<y, x>> \in OpToRel(<, Nat))
    BY <1>1
  <1>3. \A y \in S : ~ (y < x)
    <2> TAKE y \in S
    <2>1. ~ (<<y, x>> \in OpToRel(<, Nat))
      BY <1>2
    <2> QED BY <2>1, Zenon DEF OpToRel
  <1>4. \A y \in S : x <= y
    BY <1>3
  <1> QED BY <1>4 DEF Min

(* Induction, for a set of numbers.                                         *)
LEMMA AllNumbers ==
  ASSUME NEW P \in SUBSET Nat, 0 \in P, \A n \in P : n + 1 \in P
  PROVE  P = Nat
  <1> DEFINE S == Nat \ P
  <1> SUFFICES ASSUME S # {} PROVE FALSE
    OBVIOUS
  <1>1. PICK n \in S : \A m \in S : n <= m
    <2> HIDE DEF S
    <2>1. S \in SUBSET Nat
      BY DEF S
    <2> QED BY <2>1, MinIn
  <1>2. n - 1 \in Nat /\ n - 1 \notin S
    BY <1>1
  <1>3. (n - 1) + 1 \in P
    BY <1>2
  <1> QED BY <1>1, <1>3

(* FlattenSeq adds one word after the other.                                *)
Flat(s) == CHOOSE f : f = [i \in 1 .. Len(s) |-> IF i = 1 THEN s[i] ELSE f[i - 1] \o s[i]]

LEMMA FlattenIs ==
  ASSUME NEW s
  PROVE  FlattenSeq(s) = IF Len(s) = 0 THEN s ELSE Flat(s)[Len(s)]
  BY DEF FlattenSeq, Flat

LEMMA FlatExists ==
  ASSUME NEW s, NEW m \in Nat
  PROVE  \E f : f = [i \in 1 .. m |-> IF i = 1 THEN s[i] ELSE f[i - 1] \o s[i]]
  <1> DEFINE Fits(f, n) == f = [i \in 1 .. n |-> IF i = 1 THEN s[i] ELSE f[i - 1] \o s[i]]
             P == {n \in Nat : \E f : Fits(f, n)}
  <1>1. 0 \in P
    <2> DEFINE f == [i \in 1 .. 0 |-> s[i]]
    <2>1. Fits(f, 0)
      OBVIOUS
    <2> QED BY <2>1
  <1>2. ASSUME NEW n \in P PROVE n + 1 \in P
    <2>1. PICK f : Fits(f, n)
      BY <1>2
    <2> DEFINE new(i) == IF i = 1 THEN s[i] ELSE f[i - 1] \o s[i]
               g == [i \in 1 .. n + 1 |-> new(i)]
    <2>2. \A i \in 1 .. n : f[i] = new(i)
      BY <2>1
    <2>3. \A i \in 1 .. n : g[i] = f[i]
      <3> HIDE DEF new
      <3> QED BY <2>2
    <2>4. \A i \in 1 .. n + 1 : i # 1 => g[i - 1] = f[i - 1]
      <3> HIDE DEF g
      <3> QED BY <2>3
    <2>5. g = [i \in 1 .. n + 1 |-> IF i = 1 THEN s[i] ELSE g[i - 1] \o s[i]]
      <3> DEFINE h == [i \in 1 .. n + 1 |-> IF i = 1 THEN s[i] ELSE g[i - 1] \o s[i]]
      <3>1. \A i \in 1 .. n + 1 : g[i] = h[i]
        <4> TAKE i \in 1 .. n + 1
        <4>1. g[i] = new(i) /\ h[i] = IF i = 1 THEN s[i] ELSE g[i - 1] \o s[i]
          OBVIOUS
        <4> HIDE DEF g, h
        <4> QED BY <2>4, <4>1
      <3>2. DOMAIN g = 1 .. n + 1 /\ DOMAIN h = 1 .. n + 1 /\ g = [i \in 1 .. n + 1 |-> g[i]] /\ h = [i \in 1 .. n + 1 |-> h[i]]
        OBVIOUS
      <3> HIDE DEF g, h
      <3>3. g = h
        BY <3>1, <3>2
      <3> QED BY <3>3 DEF h
    <2>6. Fits(g, n + 1)
      <3> HIDE DEF g
      <3> QED BY <2>5
    <2>7. n + 1 \in Nat
      OBVIOUS
    <2> HIDE DEF g, Fits
    <2> QED BY <2>6, <2>7
  <1> HIDE DEF P
  <1>3. P = Nat
    <2>1. P \in SUBSET Nat
      BY DEF P
    <2> QED BY <1>1, <1>2, <2>1, AllNumbers
  <1>4. m \in P
    BY <1>3
  <1> QED BY <1>4 DEF P

LEMMA FlatIs ==
  ASSUME NEW s, Len(s) \in Nat
  PROVE  \A i \in 1 .. Len(s) : Flat(s)[i] = IF i = 1 THEN s[i] ELSE Flat(s)[i - 1] \o s[i]
  <1>1. Flat(s) = [i \in 1 .. Len(s) |-> IF i = 1 THEN s[i] ELSE Flat(s)[i - 1] \o s[i]]
    BY FlatExists, Zenon DEF Flat
  <1> DEFINE F == Flat(s)
  <1> HIDE DEF F
  <1>2. F = [i \in 1 .. Len(s) |-> IF i = 1 THEN s[i] ELSE F[i - 1] \o s[i]]
    BY <1>1, Zenon DEF F
  <1> QED BY <1>2 DEF F

(* Texts over an alphabet, joined, are a text over it.                      *)
LEMMA FlatOver ==
  ASSUME NEW S, NEW s, Len(s) \in Nat, \A i \in 1 .. Len(s) : s[i] \in Seq(S)
  PROVE  \A i \in 1 .. Len(s) : Flat(s)[i] \in Seq(S)
  <1> DEFINE P == {i \in Nat : i + 1 \in 1 .. Len(s) => Flat(s)[i + 1] \in Seq(S)}
  <1>1. 0 \in P
    <2>1. 0 + 1 \in 1 .. Len(s) => Flat(s)[0 + 1] = s[0 + 1]
      BY FlatIs
    <2> QED BY <2>1
  <1>2. ASSUME NEW i \in P PROVE i + 1 \in P
    <2> SUFFICES ASSUME (i + 1) + 1 \in 1 .. Len(s) PROVE Flat(s)[(i + 1) + 1] \in Seq(S)
      OBVIOUS
    <2>1. i + 1 \in 1 .. Len(s) /\ (i + 1) + 1 # 1 /\ ((i + 1) + 1) - 1 = i + 1
      OBVIOUS
    <2>2. Flat(s)[i + 1] \in Seq(S) /\ s[(i + 1) + 1] \in Seq(S)
      BY <2>1
    <2>3. Flat(s)[(i + 1) + 1] = Flat(s)[((i + 1) + 1) - 1] \o s[(i + 1) + 1]
      BY <2>1, FlatIs
    <2> QED BY <2>1, <2>2, <2>3, ConcatIs
  <1> HIDE DEF P
  <1>3. P = Nat
    <2>1. P \in SUBSET Nat
      BY DEF P
    <2> QED BY <1>1, <1>2, <2>1, AllNumbers
  <1>4. \A i \in 1 .. Len(s) : i - 1 \in P /\ (i - 1) + 1 = i
    BY <1>3
  <1> QED BY <1>4 DEF P

LEMMA FlattenOver ==
  ASSUME NEW S, NEW s, s \in Seq(Seq(S))
  PROVE  FlattenSeq(s) \in Seq(S)
  <1>1. Len(s) \in Nat /\ \A i \in 1 .. Len(s) : s[i] \in Seq(S)
    OBVIOUS
  <1>2. CASE Len(s) = 0
    <2>1. s = <<>>
      BY <1>2
    <2>2. FlattenSeq(s) = <<>>
      BY <1>2, <2>1, FlattenIs
    <2> QED BY <2>2
  <1>3. CASE Len(s) # 0
    BY <1>1, <1>3, FlattenIs, FlatOver
  <1> QED BY <1>2, <1>3

-----------------------------------------------------------------------------
(* Two ends of lines in a row are nowhere in whole lines but at the end of  *)
(* the head.                                                                *)
Eol == <<"\r", "\n">>
NoBlank(s) == \A j \in 1 .. Len(s) - 2 : s[j] = "\r" => s[j + 2] # "\r"
AreLines(s) ==
  /\ s \in Texts /\ Len(s) >= 2 /\ s[Len(s) - 1] = "\r" /\ s[Len(s)] = "\n"
  /\ NoBlank(s)

LEMMA EolIs == Eol \in Texts /\ Len(Eol) = 2 /\ Eol[1] = "\r" /\ Eol[2] = "\n"
  <1>1. "\r" \in Words /\ "\n" \in Words
    BY ParserConstants
  <1> QED BY <1>1 DEF Eol, Texts

LEMMA InLineIs ==
  ASSUME NEW t \in InLine
  PROVE  t \in Texts /\ Len(t) \in Nat /\ \A i \in 1 .. Len(t) : t[i] # "\r"
  BY DEF InLine, Texts

(* The first line.                                                          *)
LEMMA FirstLine ==
  ASSUME NEW t \in InLine
  PROVE  AreLines(Cat(t, Eol))
  <1> DEFINE s == Cat(t, Eol)
             n == Len(t)
  <1>1. n \in Nat /\ t \in Texts /\ \A i \in 1 .. n : t[i] # "\r"
    BY InLineIs
  <1>2. /\ s \in Texts /\ Len(s) = n + 2
        /\ \A i \in 1 .. n + 2 : s[i] = IF i <= n THEN t[i] ELSE Eol[i - n]
    <2>1. Eol \in Texts /\ Len(Eol) = 2
      BY EolIs
    <2>2. /\ s \in Texts /\ Len(s) = n + Len(Eol)
          /\ \A i \in 1 .. n + Len(Eol) : s[i] = IF i <= n THEN t[i] ELSE Eol[i - n]
      BY <1>1, <2>1, CatIs, Zenon
    <2> QED BY <2>1, <2>2, Zenon
  <1> HIDE DEF s, n
  <1>3. s[n + 1] = "\r" /\ s[n + 2] = "\n"
    <2>1. n + 1 \in 1 .. n + 2 /\ n + 2 \in 1 .. n + 2 /\ (n + 1) - n = 1 /\ (n + 2) - n = 2
          /\ ~(n + 1 <= n) /\ ~(n + 2 <= n)
      BY <1>1
    <2> QED BY <1>2, <2>1, EolIs
  <1>4. \A j \in 1 .. n : s[j] # "\r"
    BY <1>1, <1>2 DEF n
  <1>5. NoBlank(s)
    <2>1. Len(s) - 2 = n
      BY <1>1, <1>2
    <2> QED BY <1>4, <2>1 DEF NoBlank
  <1>6. Len(s) >= 2 /\ Len(s) - 1 = n + 1
    BY <1>1, <1>2
  <1> QED BY <1>2, <1>3, <1>5, <1>6 DEF AreLines, s

(* Another line.                                                            *)
LEMMA NextLine ==
  ASSUME NEW s, AreLines(s), NEW t \in InLine, t # <<>>
  PROVE  AreLines(Cat(s, Cat(t, Eol)))
  <1> DEFINE u == Cat(t, Eol)
             w == Cat(s, u)
             m == Len(s)
             n == Len(t)
  <1>1. n \in Nat \ {0} /\ t \in Texts /\ \A i \in 1 .. n : t[i] # "\r"
    BY InLineIs, LenIs
  <1>2. m \in Nat /\ m >= 2 /\ s \in Texts /\ s[m] = "\n"
    BY LenIs DEF AreLines
  <1>3. /\ u \in Texts /\ Len(u) = n + 2
        /\ \A i \in 1 .. n + 2 : u[i] = IF i <= n THEN t[i] ELSE Eol[i - n]
    <2> HIDE DEF u, n
    <2>1. /\ u \in Texts /\ Len(u) = n + Len(Eol)
          /\ \A i \in 1 .. n + Len(Eol) : u[i] = IF i <= n THEN t[i] ELSE Eol[i - n]
      <3>1. Eol \in Texts
        BY EolIs
      <3> QED BY <1>1, <3>1, CatIs, Zenon DEF u, n
    <2> QED BY <1>1, <2>1, EolIs
  <1> HIDE DEF u, m, n
  <1>4. /\ w \in Texts /\ Len(w) = m + (n + 2)
        /\ \A i \in 1 .. m + (n + 2) : w[i] = IF i <= m THEN s[i] ELSE u[i - m]
    <2>1. /\ w \in Texts /\ Len(w) = Len(s) + Len(u)
          /\ \A i \in 1 .. Len(s) + Len(u) : w[i] = IF i <= Len(s) THEN s[i] ELSE u[i - Len(s)]
      BY <1>2, <1>3, CatIs, Zenon
    <2> QED BY <1>3, <2>1, Zenon DEF m
  <1> HIDE DEF w
  <1>5. u[n + 1] = "\r" /\ u[n + 2] = "\n"
    <2>1. n + 1 \in 1 .. n + 2 /\ n + 2 \in 1 .. n + 2 /\ (n + 1) - n = 1 /\ (n + 2) - n = 2
          /\ ~(n + 1 <= n) /\ ~(n + 2 <= n)
      BY <1>1
    <2> QED BY <1>3, <2>1, EolIs
  <1>6. \A i \in 1 .. n + 2 : w[m + i] = u[i]
    <2> TAKE i \in 1 .. n + 2
    <2>1. m + i \in 1 .. m + (n + 2) /\ ~(m + i <= m) /\ (m + i) - m = i
      BY <1>1, <1>2
    <2> QED BY <1>4, <2>1
  <1>7. \A i \in 1 .. m : w[i] = s[i]
    <2> TAKE i \in 1 .. m
    <2>1. i \in 1 .. m + (n + 2) /\ i <= m
      BY <1>1, <1>2
    <2> QED BY <1>4, <2>1
  <1>8. w[m + (n + 1)] = "\r" /\ w[m + (n + 2)] = "\n"
    <2>1. n + 1 \in 1 .. n + 2 /\ n + 2 \in 1 .. n + 2
      BY <1>1
    <2> QED BY <1>5, <1>6, <2>1
  <1>9. NoBlank(w)
    <2> SUFFICES ASSUME NEW j \in 1 .. Len(w) - 2, w[j] = "\r", w[j + 2] = "\r" PROVE FALSE
      BY DEF NoBlank
    <2>1. j \in Nat /\ j >= 1 /\ j <= m + n
      BY <1>1, <1>2, <1>4
    <2>2. CASE j + 2 <= m
      <3>1. j \in 1 .. m - 2 /\ j \in 1 .. m /\ j + 2 \in 1 .. m
        BY <1>2, <2>1, <2>2
      <3>2. s[j] = "\r" /\ s[j + 2] = "\r"
        BY <1>7, <3>1
      <3> QED BY <3>1, <3>2 DEF AreLines, NoBlank, m
    <2>3. CASE j > m
      <3>1. j - m \in 1 .. n + 2 /\ m + (j - m) = j /\ j - m <= n /\ j - m \in 1 .. n
        BY <1>1, <1>2, <2>1, <2>3
      <3>2. w[j] = u[j - m]
        BY <1>6, <3>1
      <3>3. u[j - m] = t[j - m]
        BY <1>3, <3>1
      <3> QED BY <1>1, <3>1, <3>2, <3>3
    <2>4. CASE j = m
      BY <1>2, <1>7, <2>1, <2>4
    <2>5. CASE j = m - 1
      <3>1. 1 \in 1 .. n + 2 /\ 1 <= n /\ 1 \in 1 .. n /\ j + 2 = m + 1
        BY <1>1, <1>2, <2>5
      <3>2. w[m + 1] = u[1]
        BY <1>6, <3>1
      <3>3. u[1] = t[1]
        BY <1>3, <3>1
      <3> QED BY <1>1, <3>1, <3>2, <3>3
    <2> QED BY <1>2, <2>1, <2>2, <2>3, <2>4, <2>5
  <1>10. Len(w) >= 2 /\ Len(w) = m + (n + 2) /\ Len(w) - 1 = m + (n + 1)
    BY <1>1, <1>2, <1>4
  <1> QED BY <1>4, <1>8, <1>9, <1>10 DEF AreLines, w, u

(* A blank line behind whole lines is the first one.                        *)
LEMMA BlankAtEnd ==
  ASSUME NEW s, AreLines(s)
  PROVE  LET h == Cat(s, Eol)
             n == Len(h)
         IN  /\ h \in Texts /\ n >= 4
             /\ h[n - 3] = "\r" /\ h[n - 2] = "\n" /\ h[n - 1] = "\r" /\ h[n] = "\n"
             /\ \A i \in 4 .. n : h[i - 3] = "\r" /\ h[i - 1] = "\r" => i = n
  <1> DEFINE h == Cat(s, Eol)
             m == Len(s)
  <1>1. m \in Nat /\ m >= 2 /\ s \in Texts /\ s[m - 1] = "\r" /\ s[m] = "\n"
    BY LenIs DEF AreLines
  <1>2. /\ h \in Texts /\ Len(h) = m + 2
        /\ \A i \in 1 .. m + 2 : h[i] = IF i <= m THEN s[i] ELSE Eol[i - m]
    <2>1. Eol \in Texts /\ Len(Eol) = 2
      BY EolIs
    <2>2. /\ h \in Texts /\ Len(h) = m + Len(Eol)
          /\ \A i \in 1 .. m + Len(Eol) : h[i] = IF i <= m THEN s[i] ELSE Eol[i - m]
      BY <1>1, <2>1, CatIs, Zenon
    <2> QED BY <2>1, <2>2, Zenon
  <1> HIDE DEF h, m
  <1>3. \A i \in 1 .. m : h[i] = s[i]
    <2> TAKE i \in 1 .. m
    <2>1. i \in 1 .. m + 2 /\ i <= m
      BY <1>1
    <2> QED BY <1>2, <2>1
  <1>4. h[m + 1] = "\r" /\ h[m + 2] = "\n"
    <2>1. m + 1 \in 1 .. m + 2 /\ m + 2 \in 1 .. m + 2 /\ (m + 1) - m = 1 /\ (m + 2) - m = 2
          /\ ~(m + 1 <= m) /\ ~(m + 2 <= m)
      BY <1>1
    <2> QED BY <1>2, <2>1, EolIs
  <1>5. h[m - 1] = "\r" /\ h[m] = "\n"
    <2>1. m - 1 \in 1 .. m /\ m \in 1 .. m
      BY <1>1
    <2> QED BY <1>1, <1>3, <2>1
  <1>6. ASSUME NEW i \in 4 .. m + 2, h[i - 3] = "\r", h[i - 1] = "\r" PROVE i = m + 2
    <2>1. CASE i - 1 <= m
      <3>1. i - 3 \in 1 .. m - 2 /\ i - 3 \in 1 .. m /\ i - 1 \in 1 .. m /\ (i - 3) + 2 = i - 1
        BY <1>1, <2>1
      <3>2. s[i - 3] = "\r" /\ s[(i - 3) + 2] = "\r"
        BY <1>3, <1>6, <3>1
      <3> QED BY <3>1, <3>2 DEF AreLines, NoBlank, m
    <2> QED BY <1>1, <2>1
  <1>7. m + 2 >= 4 /\ (m + 2) - 3 = m - 1 /\ (m + 2) - 2 = m /\ (m + 2) - 1 = m + 1
    BY <1>1
  <1> QED BY <1>2, <1>4, <1>5, <1>6, <1>7 DEF h
-----------------------------------------------------------------------------
(* The head of a request is whole lines and an empty one.                   *)
LEMMA TuplesAre ==
  ASSUME NEW S, NEW a \in S, NEW b \in S
  PROVE  <<a>> \in Seq(S) /\ <<a, b>> \in Seq(S)
  OBVIOUS

LEMMA TupleCat ==
  ASSUME NEW S, NEW a \in S, NEW b \in S, NEW c \in S, NEW d \in S
  PROVE  <<a, b>> \o <<c, d>> = <<a, b, c, d>>
  <1> DEFINE s == <<a, b>>
             t == <<c, d>>
             u == <<a, b, c, d>>
  <1>1. /\ s \in Seq(S) /\ Len(s) = 2 /\ s[1] = a /\ s[2] = b
        /\ t \in Seq(S) /\ Len(t) = 2 /\ t[1] = c /\ t[2] = d
    OBVIOUS
  <1>2. u \in Seq(S) /\ Len(u) = 4 /\ u[1] = a /\ u[2] = b /\ u[3] = c /\ u[4] = d
    OBVIOUS
  <1> HIDE DEF s, t, u
  <1>3. /\ s \o t \in Seq(S) /\ Len(s \o t) = 4
        /\ \A i \in 1 .. 4 : (s \o t)[i] = IF i <= 2 THEN s[i] ELSE t[i - 2]
    <2>1. /\ s \o t \in Seq(S) /\ Len(s \o t) = Len(s) + Len(t)
          /\ \A i \in 1 .. Len(s) + Len(t) : (s \o t)[i] = IF i <= Len(s) THEN s[i] ELSE t[i - Len(s)]
      BY <1>1, ConcatIs
    <2> QED BY <1>1, <2>1
  <1>4. \A i \in 1 .. 4 : (s \o t)[i] = u[i]
    <2> TAKE i \in 1 .. 4
    <2>1. i = 1 \/ i = 2 \/ i = 3 \/ i = 4
      OBVIOUS
    <2> QED BY <1>1, <1>2, <1>3, <2>1
  <1>5. s \o t = u
    BY <1>2, <1>3, <1>4, SeqEqual
  <1> QED BY <1>5 DEF s, t, u

LEMMA CharsInLine ==
  /\ <<"=">> \in InLine /\ <<"&">> \in InLine /\ <<"?">> \in InLine /\ <<":">> \in InLine
  /\ <<" ", "HTTP/1.1">> \in InLine /\ <<>> \in InLine
  <1>1. {"=", "&", "?", ":", " ", "HTTP/1.1"} \subseteq Words \ {"\r"}
    BY ParserConstants
  <1> DEFINE S == Words \ {"\r"}
  <1>2. "=" \in S /\ "&" \in S /\ "?" \in S /\ ":" \in S /\ " " \in S /\ "HTTP/1.1" \in S
    BY <1>1
  <1> HIDE DEF S
  <1>3. /\ <<"=">> \in Seq(S) /\ <<"&">> \in Seq(S) /\ <<"?">> \in Seq(S) /\ <<":">> \in Seq(S)
        /\ <<" ", "HTTP/1.1">> \in Seq(S) /\ <<>> \in Seq(S)
    <2>1. \A a \in S : <<a>> \in Seq(S)
      BY TuplesAre
    <2>2. \A a, b \in S : <<a, b>> \in Seq(S)
      BY TuplesAre
    <2>3. <<>> \in Seq(S)
      OBVIOUS
    <2> QED BY <1>2, <2>1, <2>2, <2>3, Zenon
  <1> QED BY <1>3 DEF InLine, S

LEMMA InLineCat == \A s, t \in InLine : s \o t \in InLine
  BY ConcatIs, Zenon DEF InLine

LEMMA PairsTextIs ==
  ASSUME NEW ps, AreTexts(ps)
  PROVE  PairsText(ps) \in InLine
  <1> DEFINE parts == [i \in DOMAIN ps |-> (IF i = 1 THEN <<>> ELSE <<"&">>) \o Pair(ps[i])]
  <1>1. Len(ps) \in Nat /\ DOMAIN ps = 1 .. Len(ps)
    BY DEF AreTexts
  <1>2. ASSUME NEW i \in DOMAIN ps
        PROVE  (IF i = 1 THEN <<>> ELSE <<"&">>) \o Pair(ps[i]) \in InLine
    <2>1. ps[i][1] \in InLine /\ (ps[i][2] = None \/ ps[i][2] \in InLine)
      BY DEF AreTexts
    <2>2. (IF ps[i][2] = None THEN <<>> ELSE <<"=">> \o ps[i][2]) \in InLine
      BY <2>1, InLineCat, CharsInLine
    <2>3. Pair(ps[i]) \in InLine
      BY <2>1, <2>2, InLineCat DEF Pair
    <2> QED BY <2>3, InLineCat, CharsInLine
  <1>3. parts \in [1 .. Len(ps) -> InLine]
    BY <1>1, <1>2
  <1> HIDE DEF parts
  <1>4. parts \in Seq(InLine)
    BY <1>1, <1>3
  <1>5. FlattenSeq(parts) \in InLine
    BY <1>4, FlattenOver DEF InLine
  <1> QED BY <1>5 DEF PairsText, parts

LEMMA ContentTextIs ==
  ASSUME NEW r \in Requests
  PROVE  ContentText(r) \in Texts
  <1>1. PairsText(r.form) \in Texts /\ r.content \in Texts
    BY RequestConstants, PairsTextIs, InLineIs DEF Texts
  <1> QED BY <1>1, ConcatIs DEF ContentText, Texts

Line(r) ==
  <<r.requestType, " ">> \o r.path
    \o (IF r.query = <<>> THEN <<>> ELSE <<"?">> \o PairsText(r.query)) \o <<" ", "HTTP/1.1">>
Field(h) == h[1] \o <<":">> \o h[2]
Fields(r) == [i \in DOMAIN r.headers |-> Cat(Field(r.headers[i]), Eol)]

LEMMA LineIs ==
  ASSUME NEW r \in Requests
  PROVE  /\ Line(r) \in InLine /\ Len(Fields(r)) \in Nat
         /\ Fields(r) \in Seq(Texts)
         /\ \A i \in 1 .. Len(Fields(r)) :
              \E t \in InLine : t # <<>> /\ Fields(r)[i] = Cat(t, Eol)
         /\ HeadText(r) = Cat(Cat(Cat(Line(r), Eol), FlattenSeq(Fields(r))), Eol)
  <1>1. /\ r.requestType \in Words \ {"\r"} /\ r.path \in InLine
        /\ AreTexts(r.query) /\ AreTexts(r.headers)
        /\ \A i \in DOMAIN r.headers : r.headers[i][2] # None
    BY RequestConstants
  <1> DEFINE q == IF r.query = <<>> THEN <<>> ELSE <<"?">> \o PairsText(r.query)
             front == <<r.requestType, " ">> \o r.path \o q
  <1>2. <<r.requestType, " ">> \in InLine
    <2>1. " " \in Words \ {"\r"}
      BY ParserConstants
    <2> QED BY <1>1, <2>1, TuplesAre DEF InLine
  <1>3. q \in InLine
    BY <1>1, PairsTextIs, InLineCat, CharsInLine
  <1> HIDE DEF q
  <1>4. front \in InLine
    BY <1>1, <1>2, <1>3, InLineCat
  <1>5. Line(r) = front \o <<" ", "HTTP/1.1">>
    BY DEF Line, q
  <1> HIDE DEF front
  <1>6. Line(r) \in InLine
    BY <1>4, <1>5, InLineCat, CharsInLine
  <1>7. ASSUME NEW i \in DOMAIN r.headers
        PROVE  /\ Field(r.headers[i]) \in InLine /\ Field(r.headers[i]) # <<>>
               /\ Cat(Field(r.headers[i]), Eol) \in Texts
    <2>1. r.headers[i][1] \in InLine /\ r.headers[i][2] \in InLine
      BY <1>1 DEF AreTexts
    <2>2. r.headers[i][1] \o <<":">> \in InLine /\ Field(r.headers[i]) \in InLine
      BY <2>1, InLineCat, CharsInLine DEF Field
    <2>3. Len(Field(r.headers[i])) = (Len(r.headers[i][1]) + 1) + Len(r.headers[i][2])
      <3>1. Len(<<":">>) = 1
        OBVIOUS
      <3>2. Len(r.headers[i][1] \o <<":">>) = Len(r.headers[i][1]) + Len(<<":">>)
        BY <2>1, CharsInLine, ConcatIs DEF InLine
      <3>3. Len(Field(r.headers[i])) = Len(r.headers[i][1] \o <<":">>) + Len(r.headers[i][2])
        BY <2>1, <2>2, ConcatIs, Zenon DEF InLine, Field
      <3> QED BY <3>1, <3>2, <3>3
    <2>4. Field(r.headers[i]) # <<>>
      <3>1. Len(Field(r.headers[i])) # 0
        <4>1. Len(r.headers[i][1]) \in Nat /\ Len(r.headers[i][2]) \in Nat
          BY <2>1, InLineIs
        <4> DEFINE a == Len(r.headers[i][1])
                   b == Len(r.headers[i][2])
                   c == Len(Field(r.headers[i]))
        <4>2. c = (a + 1) + b /\ a \in Nat /\ b \in Nat
          BY <2>3, <4>1
        <4> HIDE DEF a, b, c
        <4>3. c # 0
          BY <4>2
        <4> QED BY <4>3 DEF c
      <3> QED BY <3>1
    <2> QED BY <2>2, <2>4, InLineIs, EolIs, CatIs
  <1>8. /\ Len(r.headers) \in Nat /\ DOMAIN r.headers = 1 .. Len(r.headers)
    BY <1>1 DEF AreTexts
  <1>9. Fields(r) \in [1 .. Len(r.headers) -> Texts]
    BY <1>7, <1>8 DEF Fields
  <1>10. Fields(r) \in Seq(Texts) /\ Len(Fields(r)) = Len(r.headers)
    <2> DEFINE fields == Fields(r)
    <2> HIDE DEF fields
    <2>1. fields \in [1 .. Len(r.headers) -> Texts]
      BY <1>9 DEF fields
    <2>2. fields \in Seq(Texts) /\ Len(fields) = Len(r.headers)
      BY <1>8, <2>1
    <2> QED BY <2>2 DEF fields
  <1>11. \A i \in 1 .. Len(Fields(r)) : \E t \in InLine : t # <<>> /\ Fields(r)[i] = Cat(t, Eol)
    BY <1>7, <1>8, <1>10 DEF Fields
  <1>12. HeadText(r) = Cat(Cat(Cat(Line(r), Eol), FlattenSeq(Fields(r))), Eol)
    <2>1. HeadText(r) = ((front \o <<" ", "HTTP/1.1", "\r", "\n">>) \o FlattenSeq(Fields(r))) \o Eol
      BY Zenon DEF HeadText, front, q, Fields, Field, Cat, Eol
    <2>2. <<" ", "HTTP/1.1", "\r", "\n">> = <<" ", "HTTP/1.1">> \o Eol
      <3>1. " " \in Words /\ "HTTP/1.1" \in Words /\ "\r" \in Words /\ "\n" \in Words
        BY ParserConstants
      <3> QED BY <3>1, TupleCat, ZenonT(40) DEF Eol
    <2>3. front \o (<<" ", "HTTP/1.1">> \o Eol) = (front \o <<" ", "HTTP/1.1">>) \o Eol
      <3>1. front \in Texts /\ <<" ", "HTTP/1.1">> \in Texts /\ Eol \in Texts
        BY <1>4, InLineIs, CharsInLine, EolIs
      <3> QED BY <3>1, CatAssociative, ZenonT(40) DEF Cat
    <2> QED BY <1>5, <2>1, <2>2, <2>3 DEF Cat
  <1> QED BY <1>6, <1>10, <1>11, <1>12
LEMMA HeadIs ==
  ASSUME NEW r \in Requests
  PROVE  \E s : AreLines(s) /\ HeadText(r) = Cat(s, Eol)
  <1> DEFINE first == Cat(Line(r), Eol)
             parts == Fields(r)
             P == {i \in Nat : i + 1 \in 1 .. Len(parts) => AreLines(Cat(first, Flat(parts)[i + 1]))}
  <1>1. /\ Len(parts) \in Nat /\ parts \in Seq(Texts)
        /\ \A i \in 1 .. Len(parts) : \E t \in InLine : t # <<>> /\ parts[i] = Cat(t, Eol)
    BY LineIs
  <1>2. AreLines(first)
    BY LineIs, FirstLine
  <1>3. HeadText(r) = Cat(Cat(first, FlattenSeq(parts)), Eol)
    BY LineIs
  <1> HIDE DEF first, parts
  <1>4. first \in Texts
    BY <1>2 DEF AreLines
  <1>5. \A i \in 1 .. Len(parts) : parts[i] \in Texts /\ Flat(parts)[i] \in Texts
    <2>1. \A i \in 1 .. Len(parts) : parts[i] \in Texts
      BY <1>1
    <2>2. \A i \in 1 .. Len(parts) : Flat(parts)[i] \in Texts
      BY <1>1, <2>1, FlatOver DEF Texts
    <2> QED BY <2>1, <2>2
  <1>6. 0 \in P
    <2> SUFFICES ASSUME 1 \in 1 .. Len(parts) PROVE AreLines(Cat(first, Flat(parts)[1]))
      OBVIOUS
    <2>1. Flat(parts)[1] = parts[1]
      BY <1>1, FlatIs
    <2>2. PICK t \in InLine : t # <<>> /\ parts[1] = Cat(t, Eol)
      BY <1>1
    <2> QED BY <1>2, <2>1, <2>2, NextLine
  <1>7. ASSUME NEW i \in P PROVE i + 1 \in P
    <2> SUFFICES ASSUME (i + 1) + 1 \in 1 .. Len(parts)
                 PROVE  AreLines(Cat(first, Flat(parts)[(i + 1) + 1]))
      OBVIOUS
    <2> DEFINE k == i + 1
    <2>1. k \in 1 .. Len(parts) /\ AreLines(Cat(first, Flat(parts)[k]))
      OBVIOUS
    <2>2. k \in Nat /\ k + 1 \in 1 .. Len(parts) /\ k + 1 # 1 /\ (k + 1) - 1 = k
      BY <2>1
    <2> HIDE DEF k
    <2>3. Flat(parts)[k + 1] = Cat(Flat(parts)[k], parts[k + 1])
      <3>1. Flat(parts)[k + 1] = Flat(parts)[(k + 1) - 1] \o parts[k + 1]
        BY <1>1, <2>2, FlatIs
      <3> QED BY <2>2, <3>1 DEF Cat
    <2>4. PICK t \in InLine : t # <<>> /\ parts[k + 1] = Cat(t, Eol)
      BY <1>1, <2>2
    <2>5. AreLines(Cat(Cat(first, Flat(parts)[k]), parts[k + 1]))
      BY <2>1, <2>4, NextLine
    <2>6. Cat(Cat(first, Flat(parts)[k]), parts[k + 1]) = Cat(first, Cat(Flat(parts)[k], parts[k + 1]))
      BY <1>4, <1>5, <2>1, <2>2, CatAssociative
    <2>7. AreLines(Cat(first, Flat(parts)[k + 1]))
      BY <2>3, <2>5, <2>6
    <2> QED BY <2>7 DEF k
  <1>8. P = Nat
    <2> HIDE DEF P
    <2>1. P \in SUBSET Nat
      BY DEF P
    <2> QED BY <1>6, <1>7, <2>1, AllNumbers
  <1>9. AreLines(Cat(first, FlattenSeq(parts)))
    <2>1. CASE Len(parts) = 0
      <3>1. FlattenSeq(parts) = <<>>
        <4>1. parts = <<>>
          BY <1>1, <2>1
        <4> QED BY <2>1, <4>1, FlattenIs
      <3> QED BY <1>2, <1>4, <3>1, CatEmpty
    <2>2. CASE Len(parts) # 0
      <3>1. Len(parts) - 1 \in P /\ (Len(parts) - 1) + 1 = Len(parts) /\ Len(parts) \in 1 .. Len(parts)
        <4> HIDE DEF P
        <4> QED BY <1>1, <1>8, <2>2
      <3>2. FlattenSeq(parts) = Flat(parts)[Len(parts)]
        BY <2>2, FlattenIs
      <3>3. AreLines(Cat(first, Flat(parts)[Len(parts)]))
        BY <3>1
      <3> QED BY <3>2, <3>3
    <2> QED BY <2>1, <2>2
  <1> QED BY <1>3, <1>9

-----------------------------------------------------------------------------
(* A head that is sent whole and within the limit ends where readUntilMatch *)
(* finds the first blank line.                                              *)
Whole(r) == HeadText(r) \o ContentText(r)
HeadEnd == IF BlankLines = {} THEN Smaller(Len(wire), HeadLimit) ELSE Min(BlankLines)

LEMMA WholeIs ==
  ASSUME NEW r \in Requests
  PROVE  HeadText(r) \in Texts /\ Whole(r) \in Texts /\ Whole(r) = Cat(HeadText(r), ContentText(r))
  <1>1. HeadText(r) \in Texts
    BY HeadIs, BlankAtEnd
  <1> QED BY <1>1, ContentTextIs, CatIs DEF Whole, Cat

(* Four characters, as a sequence.                                          *)
LEMMA FourAre ==
  ASSUME NEW s \in Texts, NEW i \in 4 .. Len(s)
  PROVE  SubSeq(s, i - 3, i) = <<"\r", "\n", "\r", "\n">> <=>
           s[i - 3] = "\r" /\ s[i - 2] = "\n" /\ s[i - 1] = "\r" /\ s[i] = "\n"
  <1> DEFINE u == SubSeq(s, i - 3, i)
             b == <<"\r", "\n", "\r", "\n">>
  <1>1. Len(s) \in Nat /\ \A j \in i - 3 .. i : s[j] \in Words
    BY LenIs
  <1>2. u \in Texts /\ Len(u) = 4 /\ \A j \in 1 .. 4 : u[j] = s[(i - 3) + j - 1]
    <2>1. i - 3 <= i /\ i - (i - 3) + 1 = 4
      OBVIOUS
    <2> QED BY <1>1, <2>1, SubSeqProperties DEF Texts
  <1>3. u[1] = s[i - 3] /\ u[2] = s[i - 2] /\ u[3] = s[i - 1] /\ u[4] = s[i]
    <2>1. /\ (i - 3) + 1 - 1 = i - 3 /\ (i - 3) + 2 - 1 = i - 2
          /\ (i - 3) + 3 - 1 = i - 1 /\ (i - 3) + 4 - 1 = i
          /\ 1 \in 1 .. 4 /\ 2 \in 1 .. 4 /\ 3 \in 1 .. 4 /\ 4 \in 1 .. 4
      OBVIOUS
    <2> HIDE DEF u
    <2> QED BY <1>2, <2>1
  <1>4. b \in Texts /\ Len(b) = 4 /\ b[1] = "\r" /\ b[2] = "\n" /\ b[3] = "\r" /\ b[4] = "\n"
    <2>1. "\r" \in Words /\ "\n" \in Words
      BY ParserConstants
    <2> QED BY <2>1 DEF Texts
  <1> HIDE DEF u, b
  <1>5. ASSUME s[i - 3] = "\r", s[i - 2] = "\n", s[i - 1] = "\r", s[i] = "\n" PROVE u = b
    <2>1. \A j \in 1 .. 4 : u[j] = b[j]
      <3> TAKE j \in 1 .. 4
      <3>1. j = 1 \/ j = 2 \/ j = 3 \/ j = 4
        OBVIOUS
      <3> QED BY <1>3, <1>4, <1>5, <3>1
    <2> QED BY <1>2, <1>4, <2>1, SameTexts
  <1>6. (u = b) => (s[i - 3] = "\r" /\ s[i - 2] = "\n" /\ s[i - 1] = "\r" /\ s[i] = "\n")
    BY <1>3, <1>4
  <1>7. (u = b) <=> (s[i - 3] = "\r" /\ s[i - 2] = "\n" /\ s[i - 1] = "\r" /\ s[i] = "\n")
    BY <1>5, <1>6
  <1> QED BY <1>7 DEF u, b

LEMMA HeadEndIs ==
  ASSUME wire \in Texts
  PROVE  /\ HeadEnd \in Nat /\ HeadEnd <= Smaller(Len(wire), HeadLimit)
         /\ Smaller(Len(wire), HeadLimit) \in Nat /\ Smaller(Len(wire), HeadLimit) <= Len(wire)
  <1>1. Len(wire) \in Nat /\ HeadLimit \in Nat
    BY LenIs, Sizes
  <1> DEFINE most == Smaller(Len(wire), HeadLimit)
  <1>2. most \in Nat /\ most <= Len(wire)
    BY <1>1 DEF Smaller
  <1> HIDE DEF most
  <1>3. BlankLines \in SUBSET Nat /\ \A i \in BlankLines : i <= most
    BY <1>2 DEF BlankLines, most
  <1>4. BlankLines # {} => Min(BlankLines) \in BlankLines
    BY <1>3, MinIn
  <1>5. HeadEnd \in Nat /\ HeadEnd <= most
    <2>1. CASE BlankLines = {}
      BY <1>2, <2>1 DEF HeadEnd, most
    <2>2. CASE BlankLines # {}
      <3>1. HeadEnd = Min(BlankLines)
        BY <2>2 DEF HeadEnd
      <3> QED BY <1>3, <1>4, <2>2, <3>1
    <2> QED BY <2>1, <2>2
  <1> QED BY <1>2, <1>5 DEF most

LEMMA WholeHeadEnds ==
  ASSUME asked \in Requests, NEW n \in 0 .. Len(Whole(asked)), sent = SubSeq(Whole(asked), 1, n),
         wire = sent, HeadWhole
  PROVE  HeadEnd = HeadSent /\ HeadSent \in Nat /\ HeadSent <= Len(sent)
  <1> DEFINE h == HeadText(asked)
             k == Len(h)
  <1>1. PICK s : AreLines(s) /\ h = Cat(s, Eol)
    BY HeadIs
  <1>2. /\ h \in Texts /\ k >= 4 /\ k \in Nat
        /\ h[k - 3] = "\r" /\ h[k - 2] = "\n" /\ h[k - 1] = "\r" /\ h[k] = "\n"
        /\ \A i \in 4 .. k : h[i - 3] = "\r" /\ h[i - 1] = "\r" => i = k
    BY <1>1, BlankAtEnd, LenIs
  <1> HIDE DEF h, k
  <1>3. /\ Whole(asked) \in Texts /\ Len(Whole(asked)) \in Nat
        /\ Whole(asked) = Cat(h, ContentText(asked)) /\ ContentText(asked) \in Texts
    BY WholeIs, ContentTextIs, LenIs DEF h
  <1>4. sent \in Texts /\ Len(sent) = n /\ \A i \in 1 .. n : sent[i] = Whole(asked)[i]
    BY <1>3, SplitText
  <1>5. \A i \in 1 .. k : Whole(asked)[i] = h[i]
    <2> TAKE i \in 1 .. k
    <2>1. i \in 1 .. Len(h) + Len(ContentText(asked)) /\ i <= Len(h)
      BY <1>2, <1>3, LenIs DEF k
    <2> QED BY <1>2, <1>3, <2>1, CatIs
  <1>6. HeadSent = k /\ k <= n /\ k <= HeadLimit /\ n \in Nat /\ HeadLimit \in Nat
    <2>1. HeadSent = Smaller(k, Smaller(n, HeadLimit)) /\ HeadSent = k
      BY <1>4 DEF HeadWhole, HeadSent, h, k
    <2>2. n \in Nat /\ HeadLimit \in Nat
      BY <1>3, Sizes
    <2> QED BY <1>2, <2>1, <2>2 DEF Smaller
  <1>7. \A i \in 1 .. k : wire[i] = h[i]
    <2> TAKE i \in 1 .. k
    <2>1. i \in 1 .. n
      BY <1>2, <1>6
    <2> QED BY <1>4, <1>5, <2>1
  <1>8. \A i \in 4 .. k : i \in BlankLines <=> i = k
    <2> TAKE i \in 4 .. k
    <2>1. i \in 4 .. Len(wire) /\ i \in 4 .. Smaller(Len(wire), HeadLimit)
      BY <1>2, <1>4, <1>6 DEF Smaller
    <2>2. i - 3 \in 1 .. k /\ i - 2 \in 1 .. k /\ i - 1 \in 1 .. k /\ i \in 1 .. k
      BY <1>2
    <2>3. i \in BlankLines <=>
            wire[i - 3] = "\r" /\ wire[i - 2] = "\n" /\ wire[i - 1] = "\r" /\ wire[i] = "\n"
      <3>1. i \in BlankLines <=> SubSeq(wire, i - 3, i) = <<"\r", "\n", "\r", "\n">>
        BY <2>1 DEF BlankLines, BlankLine
      <3>2. wire \in Texts /\ i \in 4 .. Len(wire)
        BY <1>4, <2>1
      <3>3. SubSeq(wire, i - 3, i) = <<"\r", "\n", "\r", "\n">> <=>
              wire[i - 3] = "\r" /\ wire[i - 2] = "\n" /\ wire[i - 1] = "\r" /\ wire[i] = "\n"
        BY <3>2, FourAre
      <3> QED BY <3>1, <3>3, Zenon
    <2>4. /\ wire[i - 3] = h[i - 3] /\ wire[i - 2] = h[i - 2]
          /\ wire[i - 1] = h[i - 1] /\ wire[i] = h[i]
      BY <1>7, <2>2
    <2> QED BY <1>2, <2>3, <2>4
  <1>9. k \in 4 .. k /\ k \in BlankLines
    BY <1>2, <1>8
  <1>10. \A i \in BlankLines : i \in Nat /\ i >= 4
    BY <1>4, <1>6 DEF BlankLines, Smaller
  <1>11. Min(BlankLines) \in BlankLines /\ Min(BlankLines) <= k
    <2>1. BlankLines \in SUBSET Nat /\ BlankLines # {}
      BY <1>9, <1>10
    <2> QED BY <1>9, <2>1, MinIn
  <1>12. Min(BlankLines) = k
    <2>1. Min(BlankLines) \in 4 .. k
      BY <1>2, <1>10, <1>11
    <2> QED BY <1>8, <1>11, <2>1
  <1>13. HeadEnd = k
    BY <1>9, <1>12 DEF HeadEnd
  <1> QED BY <1>2, <1>4, <1>6, <1>13
-----------------------------------------------------------------------------
(* What is still to be read, what the client sent behind its head, and how  *)
(* much of that was read and kept.                                          *)
Ahead == Cat(unread, wire)
Behind == Drop(sent, HeadSent)
Took(n) == n \in Nat /\ n <= Len(Behind) /\ Ahead = Drop(Behind, n)
Keeps(n, isFile) ==
  isFile \/ ~Contains(SubSeq(Behind, 1, n), "NUL") => content = SubSeq(Behind, 1, n)

Held == Smaller(Length, Len(Behind))

Announced == Typed /\ Sized /\ ~Multipart
Large == Length >= MemoryLimit /\ ~Urlencoded
BeforeContent == {"line", "query", "headers", "content"}

Stored ==
  /\ asked \in Requests /\ \E n \in 0 .. Len(Whole(asked)) : sent = SubSeq(Whole(asked), 1, n)
  /\ {unread, wire, sent} \subseteq Texts /\ TypeOK /\ garbled = FALSE
  /\ request = [requestType |-> request.requestType, path |-> request.path, GET |-> request.GET,
                HEADERS |-> request.HEADERS, POST |-> request.POST, isFile |-> request.isFile]

Early ==
  /\ stage = "head" => unread = <<>> /\ wire = sent
  /\ stage \in BeforeContent \cup {"head"} => content = <<>> /\ request.isFile = FALSE
  /\ stage \in BeforeContent /\ HeadWhole => Ahead = Behind

Reading ==
  stage \in {"exact", "file"} =>
    /\ Announced /\ Length \in Nat /\ pending <= Length
    /\ stage = "file" <=> Large
    /\ HeadWhole => Took(Length - pending) /\ Keeps(Length - pending, stage = "file")

Read ==
  stage \in {"form", "done"} /\ Announced /\ HeadWhole =>
    /\ Length \in Nat /\ Took(Held)
    /\ request.isFile <=> Large
    /\ Keeps(Held, request.isFile)

Inv == Stored /\ Early /\ Reading /\ Read
-----------------------------------------------------------------------------
(* Every sent stream is a text, and what is behind the head a part of it.   *)
LEMMA SentIs ==
  ASSUME Stored
  PROVE  /\ HeadSent \in Nat /\ HeadSent <= Len(sent) /\ Len(sent) \in Nat
         /\ Behind \in Texts /\ Len(Behind) \in Nat /\ Ahead \in Texts
         /\ Drop(Behind, 0) = Behind /\ SubSeq(Behind, 1, 0) = <<>>
  <1>1. /\ sent \in Texts /\ Len(sent) \in Nat /\ Len(HeadText(asked)) \in Nat /\ HeadLimit \in Nat
        /\ unread \in Texts /\ wire \in Texts
    BY WholeIs, LenIs, Sizes DEF Stored
  <1>2. HeadSent \in Nat /\ HeadSent <= Len(sent)
    BY <1>1 DEF HeadSent, Smaller
  <1>3. Behind \in Texts /\ Len(Behind) \in Nat
    BY <1>1, <1>2, SplitText, LenIs DEF Behind
  <1>4. Drop(Behind, 0) = Behind /\ SubSeq(Behind, 1, 0) = <<>>
    <2>1. /\ SubSeq(Behind, 1, 0) \in Texts /\ Len(SubSeq(Behind, 1, 0)) = 0
          /\ Cat(SubSeq(Behind, 1, 0), Drop(Behind, 0)) = Behind /\ Drop(Behind, 0) \in Texts
      BY <1>3, SplitText
    <2>2. SubSeq(Behind, 1, 0) = <<>>
      BY <2>1, LenIs
    <2> QED BY <2>1, <2>2, CatEmpty
  <1>5. Ahead \in Texts
    BY <1>1, CatIs DEF Ahead
  <1> QED BY <1>1, <1>2, <1>3, <1>4, <1>5

(* Steps that leave the headers and the stream alone.                       *)
LEMMA SameHeaders ==
  ASSUME request'.HEADERS = request.HEADERS
  PROVE  /\ Announced' = Announced /\ Large' = Large /\ Length' = Length
         /\ Urlencoded' = Urlencoded /\ Typed' = Typed /\ Sized' = Sized /\ Multipart' = Multipart
  <1>1. /\ Typed' = Typed /\ Sized' = Sized /\ Type' = Type /\ Length' = Length
    BY DEF Typed, Sized, Type, Length, Values
  <1> QED BY <1>1 DEF Announced, Large, Urlencoded, Multipart

LEMMA SameStream ==
  ASSUME UNCHANGED <<asked, sent, unread, wire>>
  PROVE  /\ Behind' = Behind /\ Ahead' = Ahead /\ HeadWhole' = HeadWhole
         /\ \A n : Took(n)' = Took(n)
         /\ UNCHANGED content => \A n, isFile : Keeps(n, isFile)' = Keeps(n, isFile)
  <1>1. Behind' = Behind /\ Ahead' = Ahead /\ HeadWhole' = HeadWhole
    BY DEF Behind, Ahead, HeadWhole, HeadSent
  <1> QED BY <1>1 DEF Took, Keeps

LEMMA InitInv == Init => Inv
  <1> SUFFICES ASSUME Init PROVE Inv
    OBVIOUS
  <1>1. asked \in Requests /\ Whole(asked) \in Texts
    BY WholeIs DEF Init
  <1>2. \E n \in 0 .. Len(Whole(asked)) : sent = SubSeq(Whole(asked), 1, n)
    BY DEF Init, Whole
  <1>3. sent \in Texts /\ wire \in Texts /\ unread \in Texts
    BY <1>1, <1>2, SplitText, CatEmpty DEF Init
  <1>4. TypeOK
    BY Sizes DEF Init, TypeOK
  <1>5. Stored
    <2>1. request = [requestType |-> request.requestType, path |-> request.path, GET |-> request.GET,
                HEADERS |-> request.HEADERS, POST |-> request.POST, isFile |-> request.isFile]
      BY DEF Init
    <2>2. garbled = FALSE
      BY DEF Init
    <2> QED BY <1>1, <1>2, <1>3, <1>4, <2>1, <2>2 DEF Stored
  <1> QED BY <1>5 DEF Init, Inv, Early, Reading, Read, BeforeContent

(* ReadHead stops behind the blank line, and pushes back what is beyond.    *)
LEMMA ReadHeadStep ==
  ASSUME Inv, ReadHead, garbled' = FALSE
  PROVE  Inv'
  <1>1. Stored /\ unread = <<>> /\ wire = sent /\ content = <<>> /\ request.isFile = FALSE
    BY DEF Inv, Early, ReadHead
  <1>2. PICK upTo \in HeadEnd .. Smaller(Smaller(Len(wire), HeadLimit), HeadEnd + BufferSize - 1) :
          unread' = SubSeq(wire, HeadEnd + 1, upTo) /\ wire' = Drop(wire, upTo)
    BY DEF ReadHead, HeadFound, Overrun, HeadEnd, PushedBack
  <1>3. stage' = "line" /\ UNCHANGED <<pairs, request, content, pending, asked, sent>>
    BY DEF ReadHead, HeadFound, Overrun
  <1>4. wire \in Texts /\ Len(wire) \in Nat
    BY <1>1, LenIs DEF Stored
  <1>5. /\ HeadEnd \in Nat /\ HeadEnd <= upTo /\ upTo <= Len(wire) /\ upTo \in Nat
        /\ upTo - HeadEnd < BufferSize
    <2>1. /\ HeadEnd \in Nat /\ BufferSize \in Nat \ {0}
          /\ Smaller(Len(wire), HeadLimit) \in Nat /\ Smaller(Len(wire), HeadLimit) <= Len(wire)
      BY <1>4, HeadEndIs, Sizes
    <2> QED BY <1>2, <1>4, <2>1 DEF Smaller
  <1>6. /\ unread' \in Texts /\ Len(unread') = upTo - HeadEnd /\ wire' \in Texts
        /\ Ahead' = Drop(wire, HeadEnd)
    <2> DEFINE m == upTo - HeadEnd
    <2>1. m \in Nat /\ HeadEnd + m = upTo
      BY <1>5
    <2> HIDE DEF m
    <2>2. /\ SubSeq(wire, HeadEnd + 1, HeadEnd + m) \in Texts
          /\ Len(SubSeq(wire, HeadEnd + 1, HeadEnd + m)) = m
          /\ Cat(SubSeq(wire, HeadEnd + 1, HeadEnd + m), Drop(wire, HeadEnd + m)) = Drop(wire, HeadEnd)
      BY <1>4, <1>5, <2>1, SplitTwice DEF SplitsTwice
    <2>3. wire' \in Texts
      BY <1>2, <1>4, <1>5, SplitText
    <2> QED BY <1>2, <2>1, <2>2, <2>3 DEF Ahead, m
  <1>7. Stored'
    <2>1. TypeOK'
      BY <1>1, <1>3, <1>5, <1>6 DEF Stored, TypeOK
    <2> QED BY <1>1, <1>3, <1>6, <2>1 DEF Stored
  <1>8. HeadWhole' => Ahead' = Behind'
    <2>1. HeadWhole' = HeadWhole /\ Behind' = Behind
      BY <1>3 DEF HeadWhole, HeadSent, Behind
    <2>2. HeadWhole => HeadEnd = HeadSent
      BY <1>1, WholeHeadEnds DEF Stored
    <2> QED BY <1>1, <1>6, <2>1, <2>2 DEF Behind
  <1> QED BY <1>1, <1>3, <1>7, <1>8 DEF Inv, Early, Reading, Read, BeforeContent

(* The request line and the headers leave what is behind them alone.        *)
LEMMA HeadPartsStep ==
  ASSUME Inv, garbled' = FALSE, stage \in BeforeContent, stage' \in BeforeContent \cup {"failed"},
         UNCHANGED <<content, pending, unread, wire, asked, sent>>,
         request'.isFile = request.isFile,
         request' = [requestType |-> request'.requestType, path |-> request'.path,
                     GET |-> request'.GET, HEADERS |-> request'.HEADERS,
                     POST |-> request'.POST, isFile |-> request'.isFile]
  PROVE  Inv'
  <1>1. Stored'
    <2>1. TypeOK'
      BY DEF Inv, Stored, TypeOK, BeforeContent
    <2> QED BY <2>1 DEF Inv, Stored
  <1>2. HeadWhole' = HeadWhole /\ Ahead' = Ahead /\ Behind' = Behind
    BY SameStream
  <1> QED BY <1>1, <1>2 DEF Inv, Early, Reading, Read, BeforeContent

LEMMA RequestLineStep ==
  ASSUME Inv, RequestLine, garbled' = FALSE
  PROVE  Inv'
  <1>1. /\ stage \in BeforeContent /\ stage' \in BeforeContent \cup {"failed"}
        /\ UNCHANGED <<content, pending, unread, wire, asked, sent>>
    BY DEF RequestLine, Throw, BeforeContent, streamVars, history
  <1>2. \/ request' = request
        \/ \E type, path : request' = [request EXCEPT !.requestType = type, !.path = path]
    BY Zenon DEF RequestLine, Throw
  <1>3. /\ request'.isFile = request.isFile
        /\ request' = [requestType |-> request'.requestType, path |-> request'.path,
                       GET |-> request'.GET, HEADERS |-> request'.HEADERS,
                       POST |-> request'.POST, isFile |-> request'.isFile]
    BY <1>2 DEF Inv, Stored
  <1> QED BY <1>1, <1>3, HeadPartsStep

LEMMA TakeHeaderStep ==
  ASSUME Inv, TakeHeader, garbled' = FALSE
  PROVE  Inv'
  <1>1. /\ stage \in BeforeContent /\ stage' \in BeforeContent \cup {"failed"}
        /\ UNCHANGED <<content, pending, unread, wire, asked, sent>>
    BY DEF TakeHeader, BeforeContent, streamVars, history
  <1>2. \/ request' = request
        \/ \E headers : request' = [request EXCEPT !.HEADERS = headers]
    BY Zenon DEF TakeHeader
  <1>3. /\ request'.isFile = request.isFile
        /\ request' = [requestType |-> request'.requestType, path |-> request'.path,
                       GET |-> request'.GET, HEADERS |-> request'.HEADERS,
                       POST |-> request'.POST, isFile |-> request'.isFile]
    BY <1>2 DEF Inv, Stored
  <1> QED BY <1>1, <1>3, HeadPartsStep
(* A pair of the query, or of a form whose content is read.                 *)
LEMMA TakePairStep ==
  ASSUME Inv, TakePair, garbled' = FALSE
  PROVE  Inv'
  <1>1. UNCHANGED <<content, pending, unread, wire, asked, sent>>
    BY DEF TakePair, streamVars, history
  <1>2. \/ \E map : request' = [request EXCEPT !.GET = map]
        \/ \E map : request' = [request EXCEPT !.POST = map]
    BY Zenon DEF TakePair
  <1>3. /\ request'.isFile = request.isFile /\ request'.HEADERS = request.HEADERS
        /\ request' = [requestType |-> request'.requestType, path |-> request'.path,
                       GET |-> request'.GET, HEADERS |-> request'.HEADERS,
                       POST |-> request'.POST, isFile |-> request'.isFile]
    BY <1>2 DEF Inv, Stored
  <1>4. CASE stage = "query"
    <2>1. stage \in BeforeContent /\ stage' \in BeforeContent \cup {"failed"}
      BY <1>4 DEF TakePair, BeforeContent
    <2> QED BY <1>1, <1>3, <2>1, HeadPartsStep
  <1>5. CASE stage = "form"
    <2>1. stage' \in {"form", "done"}
      BY <1>5 DEF TakePair
    <2>2. Stored'
      <3>1. TypeOK'
        BY <1>1, <2>1 DEF Inv, Stored, TypeOK
      <3> QED BY <1>1, <1>3, <3>1 DEF Inv, Stored
    <2>3. Read'
      <3>1. /\ HeadWhole' = HeadWhole /\ \A n : Took(n)' = Took(n)
            /\ \A n, isFile : Keeps(n, isFile)' = Keeps(n, isFile)
        BY <1>1, SameStream
      <3>2. Announced' = Announced /\ Large' = Large /\ Length' = Length
        BY <1>3, SameHeaders
      <3> SUFFICES ASSUME Announced', HeadWhole'
                   PROVE  Length' \in Nat /\ Took(Held)' /\ (request'.isFile <=> Large')
                            /\ Keeps(Held, request.isFile)'
        BY DEF Read
      <3>3. Announced /\ HeadWhole
        BY <3>1, <3>2
      <3>4. /\ Length \in Nat /\ Took(Held) /\ (request.isFile <=> Large)
            /\ Keeps(Held, request.isFile)
        BY <1>5, <3>3 DEF Inv, Read
      <3>5. Took(Held)' = Took(Held) /\ Keeps(Held, request.isFile)' = Keeps(Held, request.isFile)
        <4>1. Held' = Held /\ Behind' = Behind /\ Ahead' = Ahead
          BY <1>1, <3>2, SameStream DEF Held
        <4> QED BY <1>1, <1>3, <4>1 DEF Took, Keeps
      <3> QED BY <1>3, <3>2, <3>4, <3>5
    <2> QED BY <2>1, <2>2, <2>3 DEF Inv, Early, Reading, BeforeContent
  <1> QED BY <1>4, <1>5 DEF TakePair

(* Nothing is read of an empty content.                                     *)
LEMMA NoContentStep ==
  ASSUME Inv, NoContent, garbled' = FALSE
  PROVE  Inv'
  <1>1. /\ stage = "content" /\ stage' = "done"
        /\ UNCHANGED <<request, content, pending, unread, wire, asked, sent>>
        /\ ~Typed \/ (~Multipart /\ (~Sized \/ Length = 0))
    BY DEF NoContent, textVars, streamVars, history
  <1>2. Stored'
    <2>1. TypeOK'
      BY <1>1 DEF Inv, Stored, TypeOK
    <2> QED BY <1>1, <2>1 DEF Inv, Stored
  <1>3. Read'
    <2>1. /\ Announced' = Announced /\ Large' = Large /\ Length' = Length /\ HeadWhole' = HeadWhole
          /\ Behind' = Behind /\ Ahead' = Ahead
      BY <1>1, SameHeaders, SameStream
    <2> SUFFICES ASSUME Announced, HeadWhole
                 PROVE  Length' \in Nat /\ Took(Held)' /\ (request'.isFile <=> Large')
                          /\ Keeps(Held, request.isFile)'
      BY <2>1 DEF Read
    <2>2. Length = 0 /\ request.isFile = FALSE /\ content = <<>> /\ Ahead = Behind
      BY <1>1 DEF Inv, Early, Announced, BeforeContent
    <2>3. Drop(Behind, 0) = Behind /\ SubSeq(Behind, 1, 0) = <<>> /\ Len(Behind) \in Nat
      BY SentIs DEF Inv
    <2>4. ~Large
      BY <2>2, Sizes DEF Large
    <2>5. Held' = 0
      BY <2>1, <2>2, <2>3 DEF Held, Smaller
    <2>6. Took(Held)'
      BY <2>1, <2>2, <2>3, <2>5 DEF Took
    <2>7. Keeps(Held, request.isFile)'
      BY <1>1, <2>1, <2>2, <2>3, <2>5 DEF Keeps
    <2> QED BY <1>1, <2>1, <2>2, <2>4, <2>6, <2>7
  <1> QED BY <1>1, <1>2, <1>3 DEF Inv, Early, Reading, BeforeContent

(* An exception, or a multipart content, which FormData reads.              *)
LEMMA OtherContentStep ==
  ASSUME Inv, BadContent \/ FormContent, garbled' = FALSE
  PROVE  Inv'
  <1>1. /\ stage' \in {"failed", "multipart"}
        /\ UNCHANGED <<request, pending, unread, wire, asked, sent>>
    BY DEF BadContent, FormContent, Throw, textVars, streamVars, history
  <1>2. Stored'
    <2>1. TypeOK'
      BY <1>1 DEF Inv, Stored, TypeOK
    <2> QED BY <1>1, <2>1 DEF Inv, Stored
  <1> QED BY <1>1, <1>2 DEF Inv, Early, Reading, Read, BeforeContent

(* The announced length is what is to be read.                              *)
LEMMA SizedContentStep ==
  ASSUME Inv, SizedContent, garbled' = FALSE
  PROVE  Inv'
  <1>1. /\ stage = "content" /\ pending' = Length
        /\ stage' = IF Urlencoded \/ Length < MemoryLimit THEN "exact" ELSE "file"
        /\ UNCHANGED <<request, content, unread, wire, asked, sent>>
        /\ Announced /\ Length # None
    BY DEF SizedContent, Announced, textVars, streamVars, history
  <1>2. Length \in Nat
    BY <1>1, ParserConstants DEF Length
  <1>3. stage' \in {"exact", "file"} /\ (stage' = "file" <=> Large)
    BY <1>1, <1>2, Sizes DEF Large
  <1>4. Stored'
    <2>1. TypeOK'
      BY <1>1, <1>2, <1>3 DEF Inv, Stored, TypeOK
    <2> QED BY <1>1, <2>1 DEF Inv, Stored
  <1>5. Reading'
    <2>1. /\ Announced' = Announced /\ Large' = Large /\ Length' = Length /\ HeadWhole' = HeadWhole
          /\ Behind' = Behind /\ Ahead' = Ahead
      BY <1>1, SameHeaders, SameStream
    <2>2. (Length - pending)' = 0
      BY <1>1, <1>2, <2>1
    <2>3. ASSUME HeadWhole PROVE Took(Length - pending)' /\ Keeps(Length - pending, stage = "file")'
      <3>1. content = <<>> /\ Ahead = Behind
        BY <1>1, <2>3 DEF Inv, Early, BeforeContent
      <3>2. Drop(Behind, 0) = Behind /\ SubSeq(Behind, 1, 0) = <<>> /\ Len(Behind) \in Nat
        BY SentIs DEF Inv
      <3>3. Took(Length - pending)'
        BY <2>1, <2>2, <3>1, <3>2 DEF Took
      <3>4. Keeps(Length - pending, stage = "file")'
        BY <1>1, <2>1, <2>2, <3>1, <3>2 DEF Keeps
      <3> QED BY <3>3, <3>4
    <2>4. Announced' /\ Length' \in Nat /\ pending' <= Length' /\ (stage' = "file" <=> Large')
      BY <1>1, <1>2, <1>3, <2>1
    <2> QED BY <2>1, <2>3, <2>4 DEF Reading
  <1> QED BY <1>3, <1>4, <1>5 DEF Inv, Early, Read, BeforeContent

(* A chunk is the front of what was pushed back, or of what comes.          *)
LEMMA ChunkIs ==
  ASSUME unread \in Texts, wire \in Texts, pending \in Nat, NEW chunk \in Chunks,
         unread' = IF unread # <<>> THEN Drop(unread, Len(chunk)) ELSE <<>>,
         wire' = IF unread # <<>> THEN wire ELSE Drop(wire, Len(chunk))
  PROVE  /\ chunk \in Texts /\ Len(chunk) \in Nat /\ Len(chunk) <= pending
         /\ unread' \in Texts /\ Len(unread') <= Len(unread) /\ wire' \in Texts
         /\ Ahead = Cat(chunk, Ahead')
  <1>1. Ask \in Nat /\ Ask <= pending
    BY Sizes DEF Ask, Smaller
  <1>2. CASE unread # <<>>
    <2>1. chunk = SubSeq(unread, 1, Smaller(Ask, Len(unread)))
      BY <1>2 DEF Chunks
    <2>2. PICK k \in 0 .. Len(unread) : k <= pending /\ chunk = SubSeq(unread, 1, k)
      <3>1. Len(unread) \in Nat
        BY LenIs
      <3>2. Smaller(Ask, Len(unread)) \in 0 .. Len(unread) /\ Smaller(Ask, Len(unread)) <= pending
        BY <1>1, <3>1 DEF Smaller
      <3> QED BY <2>1, <3>2
    <2>3. /\ chunk \in Texts /\ Len(chunk) = k /\ Drop(unread, k) \in Texts
          /\ Len(Drop(unread, k)) = Len(unread) - k /\ Cat(chunk, Drop(unread, k)) = unread
      BY <2>2, SplitText
    <2>4. unread' = Drop(unread, k) /\ wire' = wire
      BY <1>2, <2>3
    <2>5. Ahead = Cat(chunk, Ahead')
      <3>1. Ahead = Cat(Cat(chunk, Drop(unread, k)), wire)
        BY <2>3 DEF Ahead
      <3>2. Ahead' = Cat(Drop(unread, k), wire)
        BY <2>4 DEF Ahead
      <3>3. Cat(Cat(chunk, Drop(unread, k)), wire) = Cat(chunk, Cat(Drop(unread, k), wire))
        BY <2>3, CatAssociative
      <3> QED BY <3>1, <3>2, <3>3
    <2>6. Len(unread) \in Nat
      BY LenIs
    <2> QED BY <2>2, <2>3, <2>4, <2>5, <2>6
  <1>3. CASE unread = <<>>
    <2>1. PICK k \in 1 .. Smaller(Ask, Len(wire)) : chunk = SubSeq(wire, 1, k)
      BY <1>3 DEF Chunks
    <2>2. Len(wire) \in Nat
      BY LenIs
    <2>3. k \in 0 .. Len(wire) /\ k <= pending
      BY <1>1, <2>1, <2>2 DEF Smaller
    <2>4. /\ chunk \in Texts /\ Len(chunk) = k /\ Drop(wire, k) \in Texts
          /\ Cat(chunk, Drop(wire, k)) = wire
      BY <2>1, <2>3, SplitText
    <2>5. unread' = <<>> /\ wire' = Drop(wire, k)
      BY <1>3, <2>4
    <2>6. Ahead = wire /\ Ahead' = wire'
      BY <1>3, <2>4, <2>5, CatEmpty DEF Ahead
    <2> QED BY <1>3, <2>3, <2>4, <2>5, <2>6, CatEmpty
  <1> QED BY <1>2, <1>3

(* A text without a NUL is appended whole.                                  *)
LEMMA NoNul ==
  ASSUME NEW chunk, ~Contains(chunk, "NUL")
  PROVE  UpToNul(chunk) = chunk
  <1>1. {i \in 1 .. Len(chunk) : chunk[i] = "NUL"} = {}
    BY DEF Contains
  <1>2. First(chunk, "NUL", 1) = 0
    BY <1>1 DEF First, SelectInSubSeq
  <1> QED BY <1>2 DEF UpToNul

(* What is taken from the rest of a text continues what was taken before.   *)
LEMMA Continues ==
  ASSUME NEW s \in Texts, NEW m \in Nat, m <= Len(s), NEW c \in Texts, NEW rest \in Texts,
         Drop(s, m) = Cat(c, rest)
  PROVE  /\ m + Len(c) \in Nat /\ m + Len(c) <= Len(s) /\ rest = Drop(s, m + Len(c))
         /\ SubSeq(s, 1, m + Len(c)) = Cat(SubSeq(s, 1, m), c) /\ SubSeq(s, 1, m) \in Texts
         /\ Len(SubSeq(s, 1, m)) = m
  <1> DEFINE n == Len(c)
             d == SubSeq(s, m + 1, m + n)
  <1>1. n \in Nat /\ Len(s) \in Nat /\ Len(rest) \in Nat
    BY LenIs
  <1>2. Len(Drop(s, m)) = Len(s) - m /\ SubSeq(s, 1, m) \in Texts /\ Len(SubSeq(s, 1, m)) = m
    BY <1>1, SplitText
  <1>3. Len(Drop(s, m)) = n + Len(rest)
    BY CatIs
  <1> HIDE DEF n, d
  <1>4. m + n <= Len(s)
    BY <1>1, <1>2, <1>3
  <1>5. /\ d \in Texts /\ Len(d) = n /\ Cat(d, Drop(s, m + n)) = Drop(s, m)
        /\ Cat(SubSeq(s, 1, m), d) = SubSeq(s, 1, m + n)
    <2>1. SplitsTwice(s, m, n)
      BY <1>1, <1>4, SplitTwice, Zenon
    <2> QED BY <2>1, Zenon DEF SplitsTwice, d
  <1>6. Drop(s, m + n) \in Texts
    <2>1. m + n \in 0 .. Len(s)
      BY <1>1, <1>4
    <2> QED BY <2>1, SplitText
  <1>7. Cat(d, Drop(s, m + n)) = Cat(c, rest)
    BY <1>5
  <1>8. d = c
    <2>1. \A i \in 1 .. n : d[i] = c[i]
      <3> TAKE i \in 1 .. n
      <3>1. i \in 1 .. Len(d) + Len(Drop(s, m + n)) /\ i \in 1 .. Len(c) + Len(rest) /\ i <= Len(d) /\ i <= Len(c)
        BY <1>1, <1>5, <1>6, LenIs DEF n
      <3>2. Cat(d, Drop(s, m + n))[i] = d[i]
        BY <1>5, <1>6, <3>1, CatIs
      <3>3. Cat(c, rest)[i] = c[i]
        BY <3>1, CatIs
      <3> QED BY <1>7, <3>2, <3>3
    <2> QED BY <1>5, <2>1, SameTexts DEF n
  <1>9. Drop(s, m + n) = rest
    <2> DEFINE t == Drop(s, m + n)
    <2>1. t \in Texts /\ Cat(c, t) = Cat(c, rest)
      BY <1>6, <1>7, <1>8
    <2> HIDE DEF t
    <2>2. Len(t) = Len(rest)
      <3>1. Len(Cat(c, t)) = n + Len(t) /\ Len(Cat(c, rest)) = n + Len(rest) /\ Len(t) \in Nat
        BY <2>1, CatIs, LenIs DEF n
      <3> QED BY <1>1, <2>1, <3>1
    <2>3. \A i \in 1 .. Len(t) : t[i] = rest[i]
      <3> TAKE i \in 1 .. Len(t)
      <3>1. n + i \in 1 .. n + Len(t) /\ ~(n + i <= n) /\ (n + i) - n = i
        BY <1>1, <2>1, LenIs
      <3>2. Cat(c, t)[n + i] = t[(n + i) - n]
        BY <2>1, <3>1, CatIs DEF n
      <3>3. Cat(c, rest)[n + i] = rest[(n + i) - n]
        BY <2>2, <3>1, CatIs DEF n
      <3> QED BY <2>1, <3>1, <3>2, <3>3
    <2>4. t = rest
      BY <2>1, <2>2, <2>3, SameTexts
    <2> QED BY <2>4 DEF t
  <1> QED BY <1>1, <1>2, <1>4, <1>5, <1>8, <1>9 DEF n

(* A chunk with a NUL leaves nothing to say, and any other is appended.     *)
LEMMA ReadChunkStep ==
  ASSUME Inv, ReadChunk, garbled' = FALSE
  PROVE  Inv'
  <1>1. /\ stage \in {"exact", "file"} /\ stage' = stage
        /\ UNCHANGED <<request, asked, sent>>
    BY DEF ReadChunk, textVars, history
  <1>2. PICK chunk \in Chunks :
          /\ content' = content \o (IF stage = "exact" THEN UpToNul(chunk) ELSE chunk)
          /\ pending' = pending - Len(chunk)
          /\ unread' = IF unread # <<>> THEN Drop(unread, Len(chunk)) ELSE <<>>
          /\ wire' = IF unread # <<>> THEN wire ELSE Drop(wire, Len(chunk))
    BY DEF ReadChunk, Counted
  <1>3. unread \in Texts /\ wire \in Texts /\ pending \in Nat /\ Len(unread) < BufferSize
    BY DEF Inv, Stored, TypeOK
  <1>4. /\ chunk \in Texts /\ Len(chunk) \in Nat /\ Len(chunk) <= pending
        /\ unread' \in Texts /\ Len(unread') <= Len(unread) /\ wire' \in Texts
        /\ Ahead = Cat(chunk, Ahead')
    BY <1>2, <1>3, ChunkIs
  <1>5. pending' \in Nat /\ pending' <= pending /\ Len(unread') < BufferSize
    <2>1. Len(unread) \in Nat /\ Len(unread') \in Nat /\ BufferSize \in Nat
      BY <1>3, <1>4, LenIs, Sizes
    <2> QED BY <1>2, <1>3, <1>4, <2>1
  <1>6. Stored'
    <2>1. TypeOK'
      BY <1>1, <1>5 DEF Inv, Stored, TypeOK
    <2> QED BY <1>1, <1>4, <2>1 DEF Inv, Stored
  <1>7. Reading'
    <2>1. Announced' = Announced /\ Large' = Large /\ Length' = Length
      BY <1>1, SameHeaders
    <2>2. HeadWhole' = HeadWhole /\ Behind' = Behind
      BY <1>1 DEF HeadWhole, HeadSent, Behind
    <2>3. Announced /\ Length \in Nat /\ pending <= Length /\ (stage = "file" <=> Large)
      BY <1>1 DEF Inv, Reading
    <2> DEFINE m == Length - pending
    <2>4. m \in Nat /\ (Length - pending)' = m + Len(chunk)
      BY <1>2, <1>3, <1>4, <2>1, <2>3
    <2>5. ASSUME HeadWhole
          PROVE  Took(Length - pending)' /\ Keeps(Length - pending, stage = "file")'
      <3>1. Took(m) /\ Keeps(m, stage = "file")
        BY <1>1, <2>5 DEF Inv, Reading
      <3> HIDE DEF m
      <3>2. m \in Nat /\ m <= Len(Behind) /\ Behind \in Texts /\ Drop(Behind, m) = Cat(chunk, Ahead')
        BY <1>4, <2>4, <3>1, SentIs DEF Took, Inv
      <3>3. Ahead' \in Texts
        BY <1>4, CatIs DEF Ahead
      <3>4. /\ m + Len(chunk) \in Nat /\ m + Len(chunk) <= Len(Behind)
            /\ Ahead' = Drop(Behind, m + Len(chunk))
            /\ SubSeq(Behind, 1, m + Len(chunk)) = Cat(SubSeq(Behind, 1, m), chunk)
            /\ SubSeq(Behind, 1, m) \in Texts /\ Len(SubSeq(Behind, 1, m)) = m
        BY <1>4, <3>2, <3>3, Continues
      <3>5. Took(Length - pending)'
        BY <2>2, <2>4, <3>4 DEF Took
      <3> DEFINE u == SubSeq(Behind, 1, m)
      <3> HIDE DEF u
      <3>6. ASSUME stage = "file" \/ ~Contains(Cat(u, chunk), "NUL")
            PROVE  content' = Cat(u, chunk)
        <4>1. u \in Texts /\ chunk \in Texts /\ Len(u) = m
          BY <1>4, <3>4 DEF u
        <4>2. CASE stage = "file"
          <5>1. content = u
            BY <3>1, <4>2 DEF Keeps, u
          <5> QED BY <1>2, <4>2, <5>1 DEF Cat
        <4>3. CASE stage = "exact"
          <5>1. \A i \in 1 .. Len(u) + Len(chunk) : Cat(u, chunk)[i] # "NUL"
            BY <3>6, <4>1, <4>3, CatIs DEF Contains
          <5>2. ~Contains(u, "NUL")
            <6> SUFFICES ASSUME NEW i \in 1 .. Len(u) PROVE u[i] # "NUL"
              BY DEF Contains
            <6>1. i \in 1 .. Len(u) + Len(chunk) /\ i <= Len(u)
              BY <1>4, <4>1, LenIs
            <6>2. Cat(u, chunk)[i] = u[i]
              BY <4>1, <6>1, CatIs
            <6> QED BY <5>1, <6>1, <6>2
          <5>3. ~Contains(chunk, "NUL")
            <6> SUFFICES ASSUME NEW i \in 1 .. Len(chunk) PROVE chunk[i] # "NUL"
              BY DEF Contains
            <6>1. /\ Len(u) + i \in 1 .. Len(u) + Len(chunk) /\ ~(Len(u) + i <= Len(u))
                  /\ (Len(u) + i) - Len(u) = i
              BY <1>4, <4>1, LenIs
            <6>2. Cat(u, chunk)[Len(u) + i] = chunk[(Len(u) + i) - Len(u)]
              BY <4>1, <6>1, CatIs
            <6> QED BY <5>1, <6>1, <6>2
          <5>4. content = u
            BY <3>1, <5>2 DEF Keeps, u
          <5>5. UpToNul(chunk) = chunk
            BY <5>3, NoNul
          <5> QED BY <1>2, <4>3, <5>4, <5>5 DEF Cat
        <4> QED BY <1>1, <4>2, <4>3
      <3>7. Keeps(Length - pending, stage = "file")'
        BY <1>1, <2>2, <2>4, <3>4, <3>6 DEF Keeps, u
      <3> QED BY <3>5, <3>7
    <2>6. Announced' /\ Length' \in Nat /\ pending' <= Length' /\ (stage' = "file" <=> Large')
      BY <1>1, <1>3, <1>5, <2>1, <2>3
    <2> QED BY <2>2, <2>5, <2>6 DEF Reading
  <1> QED BY <1>1, <1>6, <1>7 DEF Inv, Early, Read, BeforeContent

(* All of it is read, or the stream is dry.                                 *)
LEMMA HandOnStep ==
  ASSUME Inv, ContentRead \/ Reset, garbled' = FALSE
  PROVE  Inv'
  <1>1. /\ stage \in {"exact", "file"} /\ stage' \in {"form", "done"}
        /\ request' = [request EXCEPT !.isFile = (stage = "file")]
        /\ UNCHANGED <<content, pending, unread, wire, asked, sent>>
        /\ pending <= 0 \/ (unread = <<>> /\ wire = <<>>)
    BY DEF ContentRead, Reset, Starved, HandOn, streamVars, history
  <1>2. /\ request'.isFile = (stage = "file") /\ request'.HEADERS = request.HEADERS
        /\ request' = [requestType |-> request'.requestType, path |-> request'.path,
                       GET |-> request'.GET, HEADERS |-> request'.HEADERS,
                       POST |-> request'.POST, isFile |-> request'.isFile]
    BY <1>1 DEF Inv, Stored
  <1>3. Stored'
    <2>1. TypeOK'
      BY <1>1 DEF Inv, Stored, TypeOK
    <2> QED BY <1>1, <1>2, <2>1 DEF Inv, Stored
  <1>4. Read'
    <2>1. /\ Announced' = Announced /\ Large' = Large /\ Length' = Length
          /\ HeadWhole' = HeadWhole /\ Behind' = Behind /\ Ahead' = Ahead
      BY <1>1, <1>2, SameHeaders, SameStream
    <2>2. pending \in Nat /\ Len(Behind) \in Nat /\ Behind \in Texts
      BY <1>1, SentIs DEF Inv, Stored, TypeOK
    <2>3. /\ Length \in Nat /\ pending <= Length /\ (stage = "file" <=> Large)
          /\ HeadWhole => Took(Length - pending) /\ Keeps(Length - pending, stage = "file")
      BY <1>1 DEF Inv, Reading
    <2>4. Took(Length - pending) => Length - pending = Held
      <3> DEFINE n == Length - pending
      <3>1. n \in Nat /\ n <= Length
        BY <2>2, <2>3
      <3> SUFFICES ASSUME Took(n) PROVE n = Held
        OBVIOUS
      <3>2. CASE pending <= 0
        <4>1. n = Length
          BY <2>2, <2>3, <3>2
        <4> QED BY <2>2, <2>3, <4>1 DEF Took, Held, Smaller
      <3>3. CASE unread = <<>> /\ wire = <<>>
        <4>1. Len(Ahead) = 0
          BY <3>3 DEF Ahead, Cat
        <4> HIDE DEF n
        <4>2. Len(Drop(Behind, n)) = Len(Behind) - n
          <5>1. n \in 0 .. Len(Behind)
            BY <2>2, <3>1 DEF Took
          <5> QED BY <2>2, <5>1, SplitText
        <4>3. n = Len(Behind)
          BY <2>2, <3>1, <4>1, <4>2 DEF Took
        <4> QED BY <2>2, <2>3, <3>1, <4>3 DEF Held, Smaller
      <3> QED BY <1>1, <3>2, <3>3
    <2>5. HeadWhole => Took(Held) /\ Keeps(Held, stage = "file")
      BY <2>3, <2>4
    <2>6. Held' = Held
      BY <2>1 DEF Held
    <2>7. Took(Held) => Took(Held)'
      BY <2>1, <2>6 DEF Took
    <2>8. Keeps(Held, stage = "file") => Keeps(Held, request.isFile)'
      BY <1>1, <1>2, <2>1, <2>6 DEF Keeps
    <2> QED BY <1>2, <2>1, <2>3, <2>5, <2>7, <2>8 DEF Read
  <1> QED BY <1>1, <1>3, <1>4 DEF Inv, Early, Reading, BeforeContent

LEMMA InvStep ==
  ASSUME Inv, [Next]_vars, garbled' = FALSE
  PROVE  Inv'
  <1>1. CASE UNCHANGED vars
    <2>1. UNCHANGED <<stage, request, content, pending, unread, wire, asked, sent, garbled>>
      BY <1>1 DEF vars, streamVars, history
    <2>2. /\ Announced' = Announced /\ Large' = Large /\ Length' = Length
          /\ HeadWhole' = HeadWhole /\ Behind' = Behind /\ Ahead' = Ahead
      BY <2>1, SameHeaders, SameStream
    <2>3. Stored' /\ Early'
      BY <2>1, <2>2 DEF Inv, Stored, TypeOK, Early
    <2>4. Reading'
      BY <2>1, <2>2 DEF Inv, Reading, Took, Keeps
    <2>5. Read'
      BY <2>1, <2>2 DEF Inv, Read, Held, Took, Keeps
    <2> QED BY <2>3, <2>4, <2>5 DEF Inv
  <1>2. CASE Starve \/ Rest
    BY <1>1, <1>2 DEF Starve, Rest
  <1> QED BY <1>1, <1>2, ReadHeadStep, RequestLineStep, TakePairStep, TakeHeaderStep,
             NoContentStep, OtherContentStep, SizedContentStep, ReadChunkStep, HandOnStep
          DEF Next, Parse
-----------------------------------------------------------------------------
(* What holds whatever the search for the blank line does.                  *)
Small ==
  /\ TypeOK /\ {unread, wire} \subseteq Texts /\ garbled \in BOOLEAN
  /\ stage = "head" => garbled = FALSE

LEMMA InitSmall == Init => Small
  BY InitInv DEF Inv, Stored, Small

LEMMA OverrunSmall ==
  ASSUME Small, Overrun, UNCHANGED pending
  PROVE  Small'
  <1>1. PICK n \in 1 .. Smaller(Len(wire), HeadLimit) : wire' = Drop(wire, n)
    BY DEF Overrun
  <1>2. n \in 0 .. Len(wire) /\ wire \in Texts
    <2>1. Len(wire) \in Nat /\ HeadLimit \in Nat
      BY LenIs, Sizes DEF Small
    <2> QED BY <2>1 DEF Smaller, Small
  <1>3. wire' \in Texts
    BY <1>1, <1>2, SplitText
  <1>4. unread' \in Texts /\ Len(unread') = MaxUnread
    <2>1. unread' = [i \in 1 .. MaxUnread |-> Junk] /\ Junk \in Words /\ MaxUnread \in Nat
      BY ParserConstants DEF Overrun
    <2>2. unread' \in [1 .. MaxUnread -> Words]
      BY <2>1
    <2>3. unread' \in Seq(Words)
      BY <2>1, <2>2, SeqDef
    <2> QED BY <2>1, <2>3, LenProperties DEF Texts
  <1>5. garbled' = TRUE /\ stage' \in {"line", "dead"}
    BY DEF Overrun
  <1>6. TypeOK'
    BY <1>4, <1>5, Sizes DEF Small, TypeOK
  <1> QED BY <1>3, <1>4, <1>5, <1>6 DEF Small

LEMMA HeadFoundSmall ==
  ASSUME Small, HeadFound, stage = "head", UNCHANGED pending
  PROVE  Small'
  <1>1. PICK upTo \in HeadEnd .. Smaller(Smaller(Len(wire), HeadLimit), HeadEnd + BufferSize - 1) :
          unread' = SubSeq(wire, HeadEnd + 1, upTo) /\ wire' = Drop(wire, upTo)
    BY DEF HeadFound, HeadEnd, PushedBack
  <1>2. wire \in Texts /\ Len(wire) \in Nat
    BY LenIs DEF Small
  <1> DEFINE m == upTo - HeadEnd
  <1>3. /\ HeadEnd \in Nat /\ HeadEnd + m = upTo /\ upTo <= Len(wire) /\ upTo \in 0 .. Len(wire)
        /\ m \in Nat /\ m < BufferSize
    <2>1. /\ HeadEnd \in Nat /\ BufferSize \in Nat \ {0}
          /\ Smaller(Len(wire), HeadLimit) \in Nat /\ Smaller(Len(wire), HeadLimit) <= Len(wire)
      BY <1>2, HeadEndIs, Sizes
    <2> QED BY <1>1, <1>2, <2>1 DEF Smaller
  <1> HIDE DEF m
  <1>4. unread' \in Texts /\ Len(unread') = m
    <2>1. SplitsTwice(wire, HeadEnd, m)
      BY <1>2, <1>3, SplitTwice, Zenon
    <2> QED BY <1>1, <1>3, <2>1 DEF SplitsTwice
  <1>5. wire' \in Texts
    BY <1>1, <1>2, <1>3, SplitText
  <1>6. garbled' = FALSE /\ stage' = "line"
    BY DEF HeadFound, Small
  <1>7. TypeOK'
    BY <1>3, <1>4, <1>6 DEF Small, TypeOK
  <1> QED BY <1>4, <1>5, <1>6, <1>7 DEF Small

LEMMA SmallStep ==
  ASSUME Small, [Next]_vars
  PROVE  Small' /\ (garbled => garbled')
  <1> DEFINE Stages == {"head", "line", "query", "headers", "content", "exact", "file", "form",
                        "done", "multipart", "failed", "dead"}
  <1>1. ASSUME UNCHANGED <<pending, unread, wire, garbled>>,
               stage' \in Stages, stage' = "head" => stage = "head"
        PROVE  Small' /\ (garbled => garbled')
    <2>1. TypeOK'
      BY <1>1 DEF Small, TypeOK
    <2> QED BY <1>1, <2>1 DEF Small
  <1>2. CASE ReadHead
    <2>1. stage = "head" /\ UNCHANGED pending /\ (HeadFound \/ Overrun)
      BY <1>2 DEF ReadHead
    <2>2. ~garbled
      BY <2>1 DEF Small
    <2> QED BY <2>1, <2>2, HeadFoundSmall, OverrunSmall
  <1>3. CASE RequestLine \/ TakePair \/ TakeHeader
    <2>1. UNCHANGED <<pending, unread, wire, garbled>>
      BY <1>3 DEF RequestLine, TakePair, TakeHeader, Throw, streamVars, history
    <2>2. stage' \in Stages /\ stage' # "head"
      BY <1>3 DEF RequestLine, TakePair, TakeHeader, Throw
    <2> QED BY <1>1, <2>1, <2>2
  <1>4. CASE NoContent \/ BadContent \/ FormContent
    <2>1. UNCHANGED <<pending, unread, wire, garbled>>
      BY <1>4 DEF NoContent, BadContent, FormContent, Throw, streamVars, history
    <2>2. stage' \in Stages /\ stage' # "head"
      BY <1>4 DEF NoContent, BadContent, FormContent, Throw
    <2> QED BY <1>1, <2>1, <2>2
  <1>5. CASE SizedContent
    <2>1. pending' = Length /\ Length # None /\ UNCHANGED <<unread, wire, garbled>>
      BY <1>5 DEF SizedContent, streamVars, history
    <2>2. pending' \in Nat
      BY <2>1, ParserConstants DEF Length
    <2>3. stage' \in {"exact", "file"}
      BY <1>5 DEF SizedContent
    <2>4. TypeOK'
      BY <2>1, <2>2, <2>3 DEF Small, TypeOK
    <2> QED BY <2>1, <2>3, <2>4 DEF Small
  <1>6. CASE ReadChunk
    <2>1. PICK chunk \in Chunks :
            /\ pending' = pending - Len(chunk)
            /\ unread' = IF unread # <<>> THEN Drop(unread, Len(chunk)) ELSE <<>>
            /\ wire' = IF unread # <<>> THEN wire ELSE Drop(wire, Len(chunk))
      BY <1>6 DEF ReadChunk, Counted
    <2>2. unread \in Texts /\ wire \in Texts /\ pending \in Nat
      BY DEF Small, TypeOK
    <2>3. /\ Len(chunk) \in Nat /\ Len(chunk) <= pending
          /\ unread' \in Texts /\ Len(unread') <= Len(unread) /\ wire' \in Texts
      BY <2>1, <2>2, ChunkIs
    <2>4. stage \in {"exact", "file"} /\ UNCHANGED <<stage, garbled>>
      BY <1>6 DEF ReadChunk, history
    <2>5. Len(unread) \in Nat /\ Len(unread') \in Nat
      BY <2>2, <2>3, LenIs
    <2>6. TypeOK'
      BY <2>1, <2>2, <2>3, <2>4, <2>5, Sizes DEF Small, TypeOK
    <2> QED BY <2>3, <2>4, <2>6 DEF Small
  <1>7. CASE ContentRead \/ Reset
    <2>1. UNCHANGED <<pending, unread, wire, garbled>> /\ stage' \in {"form", "done"}
      BY <1>7 DEF ContentRead, Reset, HandOn, streamVars, history
    <2> QED BY <1>1, <2>1
  <1>8. CASE Starve \/ Rest \/ UNCHANGED vars
    <2>1. UNCHANGED <<stage, pending, unread, wire, garbled>>
      BY <1>8 DEF Starve, Rest, vars, streamVars, history
    <2>2. stage' \in Stages
      BY <2>1 DEF Small, TypeOK
    <2> QED BY <1>1, <2>1, <2>2
  <1> QED BY <1>2, <1>3, <1>4, <1>5, <1>6, <1>7, <1>8 DEF Next, Parse

LEMMA SmallAlways == Spec => []Small
  <1>1. Small /\ [Next]_vars => Small'
    BY SmallStep
  <1> QED BY <1>1, InitSmall, PTL DEF Spec

LEMMA InvAlways == Spec => [](garbled \/ Inv)
  <1>1. Init => garbled \/ Inv
    BY InitInv
  <1>2. Small /\ (garbled \/ Inv) /\ [Next]_vars => (garbled \/ Inv)'
    <2> SUFFICES ASSUME Small, garbled \/ Inv, [Next]_vars PROVE (garbled \/ Inv)'
      OBVIOUS
    <2>1. Small' /\ (garbled => garbled')
      BY SmallStep
    <2>2. CASE garbled'
      BY <2>2
    <2>3. CASE ~garbled'
      <3>1. garbled' = FALSE
        BY <2>1, <2>3 DEF Small
      <3>2. Inv
        BY <2>1, <2>3
      <3> QED BY <3>1, <3>2, InvStep
    <2> QED BY <2>2, <2>3
  <1> QED BY <1>1, <1>2, SmallAlways, PTL DEF Spec

(* TypeOK: no more is pushed back than a buffer less one, or than the       *)
(* descriptor holds when the search ran over the end of its chunk, and no   *)
(* more is read than was announced, although the loops test for nBytes <= 0 *)
(* and not for 0 alone.                                                     *)
THEOREM ParserTypes == Spec => []TypeOK
  <1>1. Small => TypeOK
    BY DEF Small
  <1> QED BY <1>1, SmallAlways, PTL

(* ContentKept: the content of a request whose head is whole, and whose     *)
(* blank line is found as such, is what the client sent behind the head, as *)
(* long as announced or up to where its stream was reset, whatever was      *)
(* pushed back by the search and however the rest arrives; what follows it  *)
(* is left on the stream.                                                   *)
THEOREM ContentWhole == Spec => []ContentKept
  <1>1. garbled \/ Inv => ContentKept
    <2> SUFFICES ASSUME Inv, stage = "done", Announced, HeadWhole
                 PROVE  /\ Ahead = Drop(Behind, Held)
                        /\ request.isFile <=> Large
                        /\ request.isFile \/ ~Contains(SubSeq(Behind, 1, Held), "NUL") =>
                             content = SubSeq(Behind, 1, Held)
      BY DEF ContentKept, Behind, Held, Ahead, Announced, Large, Cat
    <2>1. Took(Held) /\ (request.isFile <=> Large) /\ Keeps(Held, request.isFile)
      BY DEF Inv, Read
    <2> QED BY <2>1 DEF Took, Keeps
  <1> QED BY <1>1, InvAlways, PTL
=============================================================================
