------------------------- MODULE RequestHead_proof -------------------------
(***************************************************************************)
(* The path, the pairs of the query and of a form, and the headers are what *)
(* the client wrote, for all requests whose parts hold no separators, all   *)
(* limits and chunks, and wherever the stream is cut off.  Where the parser *)
(* is, is told by the number of headers or pairs that it has taken: what is *)
(* left of the text is the head behind them, and the map is what the first  *)
(* of them mean.                                                            *)
(***************************************************************************)
EXTENDS RequestParser_proof

(* Where a word is found first.                                             *)
LEMMA FirstIs ==
  ASSUME NEW s \in Texts, NEW word, NEW from \in Nat \ {0}
  PROVE  LET k == First(s, word, from)
         IN  \/ k = 0 /\ \A i \in from .. Len(s) : s[i] # word
             \/ k \in from .. Len(s) /\ s[k] = word /\ \A i \in from .. k - 1 : s[i] # word
  <1> DEFINE I == {i \in from .. Len(s) : s[i] = word}
  <1>1. First(s, word, from) = IF I # {} THEN Min(I) ELSE 0
    BY DEF First, SelectInSubSeq
  <1>2. Len(s) \in Nat
    BY LenIs
  <1>3. CASE I = {}
    BY <1>1, <1>3
  <1>4. CASE I # {}
    <2>1. I \in SUBSET Nat
      BY <1>2
    <2>2. Min(I) \in I /\ \A y \in I : Min(I) <= y
      <3> HIDE DEF I
      <3> QED BY <1>4, <2>1, MinIn
    <2>3. First(s, word, from) = Min(I)
      BY <1>1, <1>4
    <2>4. Min(I) \in from .. Len(s) /\ s[Min(I)] = word
      BY <2>2
    <2>5. \A i \in from .. Min(I) - 1 : s[i] # word
      <3> SUFFICES ASSUME NEW i \in from .. Min(I) - 1, s[i] = word PROVE FALSE
        OBVIOUS
      <3> DEFINE m == Min(I)
      <3>1. m \in Nat /\ m <= Len(s)
        BY <1>2, <2>4
      <3>2. i \in from .. m - 1
        OBVIOUS
      <3> HIDE DEF m
      <3>3. i \in from .. Len(s) /\ ~(m <= i)
        BY <1>2, <3>1, <3>2
      <3>4. i \in I
        BY <3>3
      <3> QED BY <2>2, <3>3, <3>4 DEF m
    <2> QED BY <2>3, <2>4, <2>5
  <1> QED BY <1>3, <1>4

LEMMA FirstNat ==
  ASSUME NEW s \in Texts, NEW word, NEW from \in Nat \ {0}
  PROVE  First(s, word, from) \in Nat
  <1>1. Len(s) \in Nat
    BY LenIs
  <1>2. First(s, word, from) = 0 \/ First(s, word, from) \in from .. Len(s)
    BY FirstIs
  <1> QED BY <1>1, <1>2

LEMMA FirstAt ==
  ASSUME NEW s \in Texts, NEW word, NEW from \in Nat \ {0}, NEW k \in from .. Len(s),
         s[k] = word, \A i \in from .. k - 1 : s[i] # word
  PROVE  First(s, word, from) = k
  <1> DEFINE j == First(s, word, from)
  <1>1. \/ j = 0 /\ \A i \in from .. Len(s) : s[i] # word
        \/ j \in from .. Len(s) /\ s[j] = word /\ \A i \in from .. j - 1 : s[i] # word
    BY FirstIs
  <1>2. Len(s) \in Nat
    BY LenIs
  <1> HIDE DEF j
  <1>3. j \in from .. Len(s) /\ s[j] = word /\ \A i \in from .. j - 1 : s[i] # word
    BY <1>1
  <1>4. ~(j < k)
    <2> SUFFICES ASSUME j < k PROVE FALSE
      OBVIOUS
    <2>1. j \in from .. k - 1
      BY <1>2, <1>3
    <2> QED BY <1>3, <2>1
  <1>5. ~(k < j)
    <2> SUFFICES ASSUME k < j PROVE FALSE
      OBVIOUS
    <2>1. k \in from .. j - 1
      BY <1>2, <1>3
    <2> QED BY <1>3, <2>1
  <1>6. j = k
    BY <1>2, <1>3, <1>4, <1>5
  <1> QED BY <1>6 DEF j

LEMMA FirstNone ==
  ASSUME NEW s \in Texts, NEW word, NEW from \in Nat \ {0}, \A i \in from .. Len(s) : s[i] # word
  PROVE  First(s, word, from) = 0
  <1> DEFINE j == First(s, word, from)
  <1>1. \/ j = 0 /\ \A i \in from .. Len(s) : s[i] # word
        \/ j \in from .. Len(s) /\ s[j] = word /\ \A i \in from .. j - 1 : s[i] # word
    BY FirstIs
  <1> HIDE DEF j
  <1>2. j = 0
    BY <1>1
  <1> QED BY <1>2 DEF j

(* Positions of parts and of joined texts.                                  *)
LEMMA PartIs ==
  ASSUME NEW s \in Texts, NEW a \in Nat, NEW b \in Nat, a <= b, b <= Len(s)
  PROVE  /\ SubSeq(s, a + 1, b) \in Texts /\ Len(SubSeq(s, a + 1, b)) = b - a
         /\ \A i \in 1 .. b - a : SubSeq(s, a + 1, b)[i] = s[a + i]
  <1>1. Len(s) \in Nat /\ \A i \in 1 .. Len(s) : s[i] \in Words
    BY LenIs
  <1>2. \A i \in a + 1 .. b : s[i] \in Words
    BY <1>1
  <1> QED BY <1>1, <1>2, SubSeqProperties DEF Texts

LEMMA CatAt ==
  ASSUME NEW s \in Texts, NEW t \in Texts
  PROVE  /\ Cat(s, t) \in Texts /\ Len(s) \in Nat /\ Len(t) \in Nat /\ Len(Cat(s, t)) = Len(s) + Len(t)
         /\ \A i \in 1 .. Len(s) : Cat(s, t)[i] = s[i]
         /\ \A i \in 1 .. Len(t) : Cat(s, t)[Len(s) + i] = t[i]
  <1> DEFINE m == Len(s)
             n == Len(t)
             w == Cat(s, t)
  <1>1. m \in Nat /\ n \in Nat
    BY LenIs
  <1>2. w \in Texts /\ Len(w) = m + n /\ \A i \in 1 .. m + n : w[i] = IF i <= m THEN s[i] ELSE t[i - m]
    BY CatIs
  <1> HIDE DEF m, n, w
  <1>3. \A i \in 1 .. m : w[i] = s[i]
    BY <1>1, <1>2
  <1>4. \A i \in 1 .. n : w[m + i] = t[i]
    <2> TAKE i \in 1 .. n
    <2>1. m + i \in 1 .. m + n /\ ~(m + i <= m) /\ (m + i) - m = i
      BY <1>1
    <2> QED BY <1>2, <2>1
  <1> QED BY <1>1, <1>2, <1>3, <1>4 DEF m, n, w

LEMMA CatParts ==
  ASSUME NEW s \in Texts, NEW t \in Texts
  PROVE  SubSeq(Cat(s, t), 1, Len(s)) = s /\ Drop(Cat(s, t), Len(s)) = t
  <1> DEFINE w == Cat(s, t)
             m == Len(s)
             n == Len(t)
  <1>1. /\ w \in Texts /\ m \in Nat /\ n \in Nat /\ Len(w) = m + n
        /\ \A i \in 1 .. m : w[i] = s[i]
        /\ \A i \in 1 .. n : w[m + i] = t[i]
    BY CatAt
  <1> HIDE DEF w, m, n
  <1>2. SubSeq(w, 1, m) = s
    <2>1. SubSeq(w, 1, m) \in Texts /\ Len(SubSeq(w, 1, m)) = m /\ \A i \in 1 .. m : SubSeq(w, 1, m)[i] = w[i]
      BY <1>1, SplitText
    <2> QED BY <1>1, <2>1, SameTexts DEF m
  <1>3. Drop(w, m) = t
    <2>1. /\ SubSeq(w, m + 1, m + n) \in Texts /\ Len(SubSeq(w, m + 1, m + n)) = (m + n) - m
          /\ \A i \in 1 .. (m + n) - m : SubSeq(w, m + 1, m + n)[i] = w[m + i]
      BY <1>1, PartIs
    <2>2. (m + n) - m = n
      BY <1>1
    <2>3. SubSeq(w, m + 1, m + n) = t
      BY <1>1, <2>1, <2>2, SameTexts DEF n
    <2> QED BY <1>1, <2>3 DEF Drop
  <1> QED BY <1>2, <1>3 DEF w, m

(* A text cut off somewhere, and its rest behind a part that is whole.      *)
IsCut(t, s) == \E m \in 0 .. Len(s) : t = SubSeq(s, 1, m)

LEMMA CutIs ==
  ASSUME NEW s \in Texts, NEW t, IsCut(t, s)
  PROVE  /\ t \in Texts /\ Len(t) \in Nat /\ Len(t) <= Len(s) /\ t = SubSeq(s, 1, Len(t))
         /\ \A i \in 1 .. Len(t) : t[i] = s[i]
         /\ Len(t) = Len(s) => t = s
  <1>1. PICK m \in 0 .. Len(s) : t = SubSeq(s, 1, m)
    BY DEF IsCut
  <1>2. t \in Texts /\ Len(t) = m /\ \A i \in 1 .. m : t[i] = s[i]
    BY <1>1, SplitText
  <1>3. m \in Nat /\ Len(s) \in Nat /\ m <= Len(s)
    BY LenIs
  <1>4. m = Len(s) => t = s
    BY <1>2, SameTexts
  <1> QED BY <1>1, <1>2, <1>3, <1>4

LEMMA CutRest ==
  ASSUME NEW s \in Texts, NEW t \in Texts, NEW u, IsCut(u, Cat(s, t)), Len(u) >= Len(s)
  PROVE  IsCut(Drop(u, Len(s)), t) /\ (u = Cat(s, t) => Drop(u, Len(s)) = t)
  <1> DEFINE w == Cat(s, t)
             m == Len(s)
             n == Len(t)
             k == Len(u)
  <1>1. /\ w \in Texts /\ m \in Nat /\ n \in Nat /\ Len(w) = m + n
        /\ \A i \in 1 .. n : w[m + i] = t[i]
    BY CatAt
  <1>2. u \in Texts /\ k \in Nat /\ k <= m + n /\ k >= m /\ \A i \in 1 .. k : u[i] = w[i]
    <2>1. u \in Texts /\ Len(u) \in Nat /\ Len(u) <= Len(w) /\ \A i \in 1 .. Len(u) : u[i] = w[i]
      BY <1>1, CutIs
    <2> QED BY <1>1, <2>1
  <1> HIDE DEF w, m, n, k
  <1>3. /\ SubSeq(u, m + 1, k) \in Texts /\ Len(SubSeq(u, m + 1, k)) = k - m
        /\ \A i \in 1 .. k - m : SubSeq(u, m + 1, k)[i] = u[m + i]
    BY <1>1, <1>2, PartIs DEF k
  <1>4. k - m \in 0 .. n
    BY <1>1, <1>2
  <1>5. SubSeq(t, 1, k - m) \in Texts /\ Len(SubSeq(t, 1, k - m)) = k - m
        /\ \A i \in 1 .. k - m : SubSeq(t, 1, k - m)[i] = t[i]
    BY <1>4, SplitText DEF n
  <1>6. \A i \in 1 .. k - m : SubSeq(u, m + 1, k)[i] = SubSeq(t, 1, k - m)[i]
    <2> TAKE i \in 1 .. k - m
    <2>1. i \in 1 .. n /\ m + i \in 1 .. k
      BY <1>1, <1>2
    <2> QED BY <1>1, <1>2, <1>3, <1>5, <2>1
  <1>7. SubSeq(u, m + 1, k) = SubSeq(t, 1, k - m)
    BY <1>3, <1>5, <1>6, SameTexts
  <1>8. Drop(u, m) = SubSeq(t, 1, k - m)
    BY <1>7 DEF Drop, k
  <1>9. IsCut(Drop(u, m), t)
    BY <1>4, <1>8 DEF IsCut, n
  <1>10. u = w => Drop(u, m) = t
    BY CatParts DEF w, m
  <1> QED BY <1>9, <1>10 DEF w, m
-----------------------------------------------------------------------------
(* The first n texts, joined, and what FlattenSeq has behind them.          *)
Joined(s, n) == IF n = 0 THEN <<>> ELSE Flat(s)[n]
Remaining(s, n) == Drop(FlattenSeq(s), Len(Joined(s, n)))

LEMMA JoinedIs ==
  ASSUME NEW S, NEW s \in Seq(Seq(S))
  PROVE  /\ Joined(s, 0) = <<>> /\ FlattenSeq(s) = Joined(s, Len(s)) /\ Len(s) \in Nat
         /\ \A n \in 0 .. Len(s) : Joined(s, n) \in Seq(S)
         /\ \A n \in 0 .. Len(s) - 1 : s[n + 1] \in Seq(S) /\ Joined(s, n + 1) = Joined(s, n) \o s[n + 1]
  <1>1. Len(s) \in Nat /\ \A i \in 1 .. Len(s) : s[i] \in Seq(S)
    OBVIOUS
  <1>2. FlattenSeq(s) = Joined(s, Len(s))
    <2>1. Len(s) = 0 => s = <<>>
      OBVIOUS
    <2> QED BY <2>1, FlattenIs DEF Joined
  <1>3. ASSUME NEW n \in 0 .. Len(s) PROVE Joined(s, n) \in Seq(S)
    <2>1. CASE n = 0
      BY <2>1 DEF Joined
    <2>2. CASE n # 0
      <3>1. n \in 1 .. Len(s)
        BY <1>1, <2>2
      <3> QED BY <1>1, <2>2, <3>1, FlatOver DEF Joined
    <2> QED BY <2>1, <2>2
  <1>4. ASSUME NEW n \in 0 .. Len(s) - 1
        PROVE  s[n + 1] \in Seq(S) /\ Joined(s, n + 1) = Joined(s, n) \o s[n + 1]
    <2>1. n + 1 \in 1 .. Len(s) /\ n + 1 # 0 /\ (n + 1) - 1 = n /\ n \in 0 .. Len(s)
      BY <1>1
    <2>2. Joined(s, n + 1) = IF n + 1 = 1 THEN s[n + 1] ELSE Flat(s)[(n + 1) - 1] \o s[n + 1]
      BY <1>1, <2>1, FlatIs DEF Joined
    <2>3. CASE n = 0
      <3>1. Joined(s, n) = <<>> /\ Joined(s, n + 1) = s[n + 1]
        BY <2>2, <2>3 DEF Joined
      <3>2. s[n + 1] \in Seq(S)
        BY <1>1, <2>1
      <3>3. <<>> \o s[n + 1] = s[n + 1]
        BY <3>2, ConcatEmptySeq
      <3> QED BY <3>1, <3>2, <3>3
    <2>4. CASE n # 0
      <3>1. n + 1 # 1
        BY <2>1, <2>4
      <3> QED BY <1>1, <2>1, <2>2, <2>4, <3>1 DEF Joined
    <2> QED BY <2>3, <2>4
  <1> QED BY <1>1, <1>2, <1>3, <1>4 DEF Joined

LEMMA JoinedSame ==
  ASSUME NEW S, NEW s \in Seq(Seq(S)), NEW t \in Seq(Seq(S)), NEW m \in Nat,
         m <= Len(s), m <= Len(t), \A i \in 1 .. m : s[i] = t[i]
  PROVE  Joined(s, m) = Joined(t, m)
  <1> DEFINE P == {n \in Nat : n <= m => Joined(s, n) = Joined(t, n)}
  <1>1. 0 \in P
    BY JoinedIs
  <1>2. ASSUME NEW n \in P PROVE n + 1 \in P
    <2> SUFFICES ASSUME n + 1 <= m PROVE Joined(s, n + 1) = Joined(t, n + 1)
      OBVIOUS
    <2>1. Len(s) \in Nat /\ Len(t) \in Nat
      BY JoinedIs
    <2>2. n \in 0 .. Len(s) - 1 /\ n \in 0 .. Len(t) - 1 /\ n + 1 \in 1 .. m /\ n <= m
      BY <2>1
    <2>3. Joined(s, n + 1) = Joined(s, n) \o s[n + 1] /\ Joined(t, n + 1) = Joined(t, n) \o t[n + 1]
      BY <2>2, JoinedIs
    <2>4. Joined(s, n) = Joined(t, n) /\ s[n + 1] = t[n + 1]
      BY <2>2
    <2> QED BY <2>3, <2>4
  <1> HIDE DEF P
  <1>3. P = Nat
    <2>1. P \in SUBSET Nat
      BY DEF P
    <2> QED BY <1>1, <1>2, <2>1, AllNumbers
  <1>4. m \in P
    BY <1>3
  <1> QED BY <1>4 DEF P

(* One text more.                                                           *)
LEMMA FlattenMore ==
  ASSUME NEW S, NEW s \in Seq(Seq(S)), NEW t \in Seq(Seq(S)), Len(s) = Len(t) + 1,
         \A i \in 1 .. Len(t) : s[i] = t[i]
  PROVE  /\ FlattenSeq(t) \in Seq(S) /\ s[Len(t) + 1] \in Seq(S)
         /\ FlattenSeq(s) = FlattenSeq(t) \o s[Len(t) + 1]
  <1> DEFINE n == Len(t)
  <1>1. n \in Nat /\ FlattenSeq(s) = Joined(s, Len(s)) /\ FlattenSeq(t) = Joined(t, n)
    BY JoinedIs
  <1>2. n \in 0 .. Len(s) - 1 /\ n <= Len(s) /\ n <= Len(t) /\ n \in 0 .. n
    BY <1>1
  <1>3. Joined(s, n) = Joined(t, n)
    BY <1>1, <1>2, JoinedSame
  <1>4. Joined(s, n + 1) = Joined(s, n) \o s[n + 1] /\ s[n + 1] \in Seq(S) /\ Joined(t, n) \in Seq(S)
    BY <1>2, JoinedIs
  <1> QED BY <1>1, <1>3, <1>4

LEMMA RemainingIs ==
  ASSUME NEW s \in Seq(Texts)
  PROVE  /\ Len(s) \in Nat /\ FlattenSeq(s) \in Texts /\ Remaining(s, 0) = FlattenSeq(s)
         /\ Remaining(s, Len(s)) = <<>>
         /\ \A n \in 0 .. Len(s) :
              /\ Remaining(s, n) \in Texts /\ Joined(s, n) \in Texts
              /\ FlattenSeq(s) = Cat(Joined(s, n), Remaining(s, n))
         /\ \A n \in 0 .. Len(s) - 1 : s[n + 1] \in Texts /\ Remaining(s, n) = Cat(s[n + 1], Remaining(s, n + 1))
  <1> DEFINE w == FlattenSeq(s)
             N == Len(s)
             J(n) == Joined(s, n)
             Begins(n) == \E r \in Texts : w = Cat(J(n), r)
             P == {k \in Nat : k <= N => Begins(N - k)}
  <1>1. /\ N \in Nat /\ w = J(N) /\ J(0) = <<>>
        /\ \A n \in 0 .. N : J(n) \in Texts
        /\ \A n \in 0 .. N - 1 : s[n + 1] \in Texts /\ J(n + 1) = Cat(J(n), s[n + 1])
    BY JoinedIs DEF Texts, Cat
  <1>2. N \in 0 .. N /\ 0 \in 0 .. N
    BY <1>1
  <1>3. w \in Texts
    BY <1>1, <1>2
  <1> HIDE DEF w, N, J
  <1>4. 0 \in P
    <2>1. Begins(N)
      BY <1>1, <1>2, CatEmpty
    <2>2. N - 0 = N
      BY <1>1
    <2> QED BY <2>1, <2>2
  <1>5. ASSUME NEW k \in P PROVE k + 1 \in P
    <2> SUFFICES ASSUME k + 1 <= N PROVE Begins(N - (k + 1))
      OBVIOUS
    <2> DEFINE n == N - (k + 1)
    <2>1. n \in 0 .. N - 1 /\ n + 1 = N - k /\ k <= N
      BY <1>1
    <2> HIDE DEF n
    <2>2. Begins(n + 1)
      BY <2>1
    <2>3. PICK r \in Texts : w = Cat(J(n + 1), r)
      BY <2>2
    <2>4. n \in 0 .. N
      BY <1>1, <2>1
    <2>5. w = Cat(J(n), Cat(s[n + 1], r)) /\ Cat(s[n + 1], r) \in Texts
      <3>1. J(n + 1) = Cat(J(n), s[n + 1]) /\ s[n + 1] \in Texts /\ J(n) \in Texts
        BY <1>1, <2>1, <2>4
      <3>2. Cat(Cat(J(n), s[n + 1]), r) = Cat(J(n), Cat(s[n + 1], r)) /\ Cat(s[n + 1], r) \in Texts
        BY <3>1, CatAssociative
      <3> QED BY <2>3, <3>1, <3>2
    <2>6. Begins(n)
      BY <2>5
    <2> QED BY <2>6 DEF n
  <1>6. P = Nat
    <2> HIDE DEF P
    <2>1. P \in SUBSET Nat
      BY DEF P
    <2> QED BY <1>4, <1>5, <2>1, AllNumbers
  <1>7. ASSUME NEW n \in 0 .. N PROVE Begins(n)
    <2>1. N - n \in Nat /\ N - n <= N /\ N - (N - n) = n
      BY <1>1
    <2>2. N - n \in P
      BY <1>6, <2>1
    <2> QED BY <2>1, <2>2
  <1>8. ASSUME NEW n \in 0 .. N, NEW r \in Texts, w = Cat(J(n), r) PROVE Remaining(s, n) = r
    <2>1. Drop(w, Len(J(n))) = r
      BY <1>1, <1>8, CatParts
    <2> QED BY <2>1 DEF Remaining, w, J
  <1>9. \A n \in 0 .. N : Remaining(s, n) \in Texts /\ J(n) \in Texts /\ w = Cat(J(n), Remaining(s, n))
    <2> HIDE DEF P
    <2> QED BY <1>1, <1>7, <1>8
  <1>10. Remaining(s, 0) = w
    BY <1>1, <1>2, <1>3, <1>8, CatEmpty
  <1>11. Remaining(s, N) = <<>>
    BY <1>1, <1>2, <1>8, CatEmpty
  <1>12. ASSUME NEW n \in 0 .. N - 1
         PROVE  s[n + 1] \in Texts /\ Remaining(s, n) = Cat(s[n + 1], Remaining(s, n + 1))
    <2>1. n \in 0 .. N /\ n + 1 \in 0 .. N
      BY <1>1
    <2>2. w = Cat(J(n + 1), Remaining(s, n + 1)) /\ Remaining(s, n + 1) \in Texts
      BY <1>9, <2>1
    <2>3. J(n + 1) = Cat(J(n), s[n + 1]) /\ s[n + 1] \in Texts /\ J(n) \in Texts
      BY <1>1, <2>1
    <2>4. w = Cat(J(n), Cat(s[n + 1], Remaining(s, n + 1))) /\ Cat(s[n + 1], Remaining(s, n + 1)) \in Texts
      BY <2>2, <2>3, CatAssociative
    <2>5. Remaining(s, n) = Cat(s[n + 1], Remaining(s, n + 1))
      BY <1>8, <2>1, <2>4
    <2> QED BY <2>3, <2>5
  <1> QED BY <1>1, <1>3, <1>9, <1>10, <1>11, <1>12 DEF w, N, J

LEMMA OneMore ==
  ASSUME NEW s \in Texts, NEW n \in Nat, n + 1 <= Len(s)
  PROVE  SubSeq(s, 1, n + 1) = Cat(SubSeq(s, 1, n), <<s[n + 1]>>) /\ SubSeq(s, 1, 0) = <<>>
  <1> DEFINE a == SubSeq(s, n + 1, n + 1)
             b == <<s[n + 1]>>
  <1>1. /\ n <= n + 1 /\ n + 1 \in Nat /\ (n + 1) - n = 1 /\ Len(s) \in Nat
        /\ n + 1 \in 1 .. Len(s) /\ 0 \in 0 .. Len(s)
    BY LenIs
  <1>2. Cat(SubSeq(s, 1, n), a) = SubSeq(s, 1, n + 1)
    <2>1. SplitsTwice(s, n, 1)
      BY <1>1, SplitTwice
    <2> QED BY <2>1 DEF SplitsTwice
  <1>3. a \in Texts /\ Len(a) = 1 /\ a[1] = s[n + 1]
    <2>1. a \in Texts /\ Len(a) = (n + 1) - n /\ \A i \in 1 .. (n + 1) - n : a[i] = s[n + i]
      BY <1>1, PartIs
    <2> HIDE DEF a
    <2> QED BY <1>1, <2>1
  <1>4. b \in Texts /\ Len(b) = 1 /\ b[1] = s[n + 1]
    <2>1. s[n + 1] \in Words
      BY <1>1, LenIs
    <2> QED BY <2>1, TuplesAre DEF Texts
  <1> HIDE DEF a, b
  <1>5. \A i \in 1 .. 1 : a[i] = b[i]
    BY <1>3, <1>4
  <1>6. a = b
    BY <1>3, <1>4, <1>5, SameTexts
  <1>7. SubSeq(s, 1, 0) \in Texts /\ Len(SubSeq(s, 1, 0)) = 0
    BY <1>1, SplitText
  <1> QED BY <1>2, <1>6, <1>7, LenIs DEF b

(* Texts of one character each.                                             *)
LEMMA Singles ==
  ASSUME NEW s \in Texts, NEW f, f = [i \in 1 .. Len(s) |-> <<s[i]>>]
  PROVE  f \in Seq(Texts) /\ Len(f) = Len(s) /\ FlattenSeq(f) = s
  <1> DEFINE N == Len(s)
             P == {n \in Nat : n <= N => Joined(f, n) = SubSeq(s, 1, n)}
  <1>1. N \in Nat /\ \A i \in 1 .. N : s[i] \in Words /\ <<s[i]>> \in Texts
    BY LenIs, TuplesAre DEF Texts
  <1>2. f \in [1 .. N -> Texts]
    BY <1>1
  <1> HIDE DEF N
  <1>3. f \in Seq(Texts) /\ Len(f) = N
    BY <1>1, <1>2
  <1>4. \A i \in 1 .. N : f[i] = <<s[i]>>
    BY DEF N
  <1>5. /\ Joined(f, 0) = <<>> /\ FlattenSeq(f) = Joined(f, N)
        /\ \A n \in 0 .. N - 1 : Joined(f, n + 1) = Cat(Joined(f, n), f[n + 1])
    BY <1>3, JoinedIs DEF Texts, Cat
  <1>6. 0 \in P
    <2>1. SubSeq(s, 1, 0) \in Texts /\ Len(SubSeq(s, 1, 0)) = 0
      BY <1>1, SplitText DEF N
    <2> QED BY <1>5, <2>1, LenIs
  <1>7. ASSUME NEW n \in P PROVE n + 1 \in P
    <2> SUFFICES ASSUME n + 1 <= N PROVE Joined(f, n + 1) = SubSeq(s, 1, n + 1)
      OBVIOUS
    <2>1. n \in 0 .. N - 1 /\ n <= N /\ n + 1 \in 1 .. N /\ n <= n + 1 /\ (n + 1) - n = 1
      BY <1>1
    <2>2. Joined(f, n + 1) = Cat(SubSeq(s, 1, n), <<s[n + 1]>>)
      BY <1>4, <1>5, <2>1
    <2>3. SubSeq(s, 1, n + 1) = Cat(SubSeq(s, 1, n), <<s[n + 1]>>)
      BY <1>1, OneMore DEF N
    <2> QED BY <2>2, <2>3
  <1>8. P = Nat
    <2> HIDE DEF P
    <2>1. P \in SUBSET Nat
      BY DEF P
    <2> QED BY <1>6, <1>7, <2>1, AllNumbers
  <1>9. N \in P
    BY <1>1, <1>8
  <1>10. SubSeq(s, 1, N) = s
    BY SubSeqFull DEF Texts, N
  <1>11. FlattenSeq(f) = s
    BY <1>1, <1>5, <1>9, <1>10
  <1> QED BY <1>3, <1>11 DEF N
-----------------------------------------------------------------------------
(* Values by key: one more pair grows the map by its values.                *)
OfKey(ps, key) == [i \in DOMAIN ps |-> IF ps[i][1] = key THEN ps[i][2] ELSE <<>>]

JoinsOfKey(S, n, ps, key) ==
  /\ OfKey(ps, key) \in Seq(Seq(S)) /\ Len(OfKey(ps, key)) = n
  /\ \A i \in 1 .. n : OfKey(ps, key)[i] = IF ps[i][1] = key THEN ps[i][2] ELSE <<>>
  /\ FlattenSeq(OfKey(ps, key)) \in Seq(S)
  /\ (\A i \in 1 .. n : ps[i][1] # key) => FlattenSeq(OfKey(ps, key)) = <<>>

LEMMA OfKeyIs ==
  ASSUME NEW S, NEW n \in Nat, NEW ps, DOMAIN ps = 1 .. n, \A i \in 1 .. n : ps[i][2] \in Seq(S)
  PROVE  \A key : JoinsOfKey(S, n, ps, key)
  <1> SUFFICES ASSUME NEW key PROVE JoinsOfKey(S, n, ps, key)
    OBVIOUS
  <1> DEFINE f == OfKey(ps, key)
             P == {m \in Nat : m <= n => Joined(f, m) = <<>>}
  <1>1. \A i \in 1 .. n : f[i] = IF ps[i][1] = key THEN ps[i][2] ELSE <<>>
    BY DEF OfKey
  <1>2. f \in [1 .. n -> Seq(S)]
    <2>1. <<>> \in Seq(S)
      OBVIOUS
    <2>2. \A i \in 1 .. n : (IF ps[i][1] = key THEN ps[i][2] ELSE <<>>) \in Seq(S)
      BY <2>1
    <2> QED BY <2>2 DEF OfKey
  <1> HIDE DEF f
  <1>3. f \in Seq(Seq(S)) /\ Len(f) = n
    BY <1>2
  <1>4. FlattenSeq(f) \in Seq(S)
    BY <1>3, FlattenOver
  <1>5. ASSUME \A i \in 1 .. n : ps[i][1] # key PROVE FlattenSeq(f) = <<>>
    <2>1. 0 \in P
      BY <1>3, JoinedIs
    <2>2. ASSUME NEW m \in P PROVE m + 1 \in P
      <3> SUFFICES ASSUME m + 1 <= n PROVE Joined(f, m + 1) = <<>>
        OBVIOUS
      <3>1. m \in 0 .. Len(f) - 1 /\ m + 1 \in 1 .. n /\ m <= n
        BY <1>3
      <3>2. Joined(f, m + 1) = Joined(f, m) \o f[m + 1]
        BY <1>3, <3>1, JoinedIs
      <3>3. Joined(f, m) = <<>> /\ f[m + 1] = <<>>
        BY <1>1, <1>5, <3>1
      <3>4. <<>> \o <<>> = <<>>
        OBVIOUS
      <3> QED BY <3>2, <3>3, <3>4
    <2> HIDE DEF P
    <2>3. P = Nat
      <3>1. P \in SUBSET Nat
        BY DEF P
      <3> QED BY <2>1, <2>2, <3>1, AllNumbers
    <2>4. Joined(f, n) = <<>>
      BY <2>3 DEF P
    <2> QED BY <1>3, <2>4, JoinedIs
  <1> QED BY <1>1, <1>3, <1>4, <1>5 DEF f, JoinsOfKey

LEMMA GroupedNext ==
  ASSUME NEW S, NEW n \in Nat, NEW ps, NEW qs, DOMAIN ps = 1 .. n, DOMAIN qs = 1 .. n + 1,
         \A i \in 1 .. n : qs[i] = ps[i], \A i \in 1 .. n + 1 : qs[i][2] \in Seq(S)
  PROVE  Grouped(qs) = Grown(Grouped(ps), qs[n + 1][1], qs[n + 1][2])
  <1> DEFINE key == qs[n + 1][1]
             values == qs[n + 1][2]
             A(k) == FlattenSeq(OfKey(ps, k))
             B(k) == FlattenSeq(OfKey(qs, k))
             map == Grouped(ps)
             dom == {ps[i][1] : i \in 1 .. n}
             new == Grown(map, key, values)
  <1>1. map = [k \in dom |-> A(k)] /\ Grouped(qs) = [k \in {qs[i][1] : i \in 1 .. n + 1} |-> B(k)]
    BY DEF Grouped, OfKey
  <1>2. {qs[i][1] : i \in 1 .. n + 1} = dom \cup {key}
    <2>1. 1 .. n + 1 = (1 .. n) \cup {n + 1}
      OBVIOUS
    <2> QED BY <2>1
  <1>3. ASSUME NEW k
        PROVE  /\ A(k) \in Seq(S) /\ B(k) = A(k) \o (IF key = k THEN values ELSE <<>>)
               /\ k \notin dom => A(k) = <<>>
    <2>1. \A i \in 1 .. n : ps[i][2] \in Seq(S)
      OBVIOUS
    <2>2. /\ OfKey(ps, k) \in Seq(Seq(S)) /\ Len(OfKey(ps, k)) = n
          /\ \A i \in 1 .. n : OfKey(ps, k)[i] = IF ps[i][1] = k THEN ps[i][2] ELSE <<>>
          /\ A(k) \in Seq(S)
          /\ (\A i \in 1 .. n : ps[i][1] # k) => A(k) = <<>>
      <3>1. JoinsOfKey(S, n, ps, k)
        BY <2>1, OfKeyIs, Zenon
      <3> QED BY <3>1 DEF JoinsOfKey
    <2>3. /\ OfKey(qs, k) \in Seq(Seq(S)) /\ Len(OfKey(qs, k)) = n + 1
          /\ \A i \in 1 .. n + 1 : OfKey(qs, k)[i] = IF qs[i][1] = k THEN qs[i][2] ELSE <<>>
      <3>1. n + 1 \in Nat
        OBVIOUS
      <3>2. JoinsOfKey(S, n + 1, qs, k)
        BY <3>1, OfKeyIs, Zenon
      <3> QED BY <3>2 DEF JoinsOfKey
    <2> DEFINE s == OfKey(qs, k)
               t == OfKey(ps, k)
    <2>4. \A i \in 1 .. n : s[i] = t[i]
      <3> TAKE i \in 1 .. n
      <3>1. i \in 1 .. n + 1 /\ qs[i] = ps[i]
        OBVIOUS
      <3>2. s[i] = IF qs[i][1] = k THEN qs[i][2] ELSE <<>>
        BY <2>3, <3>1
      <3>3. t[i] = IF ps[i][1] = k THEN ps[i][2] ELSE <<>>
        BY <2>2
      <3> QED BY <3>1, <3>2, <3>3
    <2>5. s[n + 1] = IF key = k THEN values ELSE <<>>
      BY <2>3
    <2> HIDE DEF s, t
    <2>6. FlattenSeq(s) = FlattenSeq(t) \o s[Len(t) + 1]
      BY <2>2, <2>3, <2>4, FlattenMore DEF s, t
    <2>7. B(k) = A(k) \o s[n + 1]
      BY <2>2, <2>6 DEF s, t
    <2>8. k \notin dom => A(k) = <<>>
      BY <2>2
    <2> QED BY <2>2, <2>5, <2>7, <2>8
  <1>4. new = [k \in dom \cup {key} |-> IF k = key THEN Get(map, key) \o values ELSE map[k]]
    BY <1>1 DEF Grown
  <1>5. Get(map, key) = A(key)
    BY <1>1, <1>3 DEF Get
  <1>6. ASSUME NEW k \in dom \cup {key}
        PROVE  B(k) = IF k = key THEN Get(map, key) \o values ELSE map[k]
    <2>1. CASE k = key
      BY <1>3, <1>5, <2>1
    <2>2. CASE k # key
      <3>1. map[k] = A(k)
        BY <1>1, <2>2
      <3>2. B(k) = A(k) \o <<>> /\ A(k) \in Seq(S)
        BY <1>3, <2>2
      <3>3. A(k) \o <<>> = A(k)
        BY <3>2, ConcatEmptySeq
      <3> QED BY <2>2, <3>1, <3>2, <3>3
    <2> QED BY <2>1, <2>2
  <1>7. Grouped(qs) = [k \in dom \cup {key} |-> B(k)]
    BY <1>1, <1>2
  <1> HIDE DEF map, dom, key, values, A, B, new
  <1>8. Grouped(qs) = new
    BY <1>4, <1>6, <1>7
  <1> QED BY <1>8 DEF new, map, key, values

LEMMA GroupedNone ==
  ASSUME NEW ps, DOMAIN ps = {}
  PROVE  Grouped(ps) = <<>>
  <1>1. {ps[i][1] : i \in DOMAIN ps} = {}
    OBVIOUS
  <1>2. DOMAIN Grouped(ps) = {} /\ Grouped(ps) = [k \in {} |-> Grouped(ps)[k]]
    BY <1>1 DEF Grouped
  <1> DEFINE g == Grouped(ps)
  <1> HIDE DEF g
  <1>3. g = [k \in {} |-> g[k]]
    BY <1>2 DEF g
  <1>4. g \in [1 .. 0 -> {}]
    <2>1. 1 .. 0 = {}
      OBVIOUS
    <2> QED BY <1>3, <2>1
  <1>5. g \in Seq({}) /\ Len(g) = 0
    BY <1>4
  <1>6. g = <<>>
    BY <1>5
  <1> QED BY <1>6 DEF g
-----------------------------------------------------------------------------
(* What urlDecode makes of a text: '+' grows to an escape, which shrinks to *)
(* a blank.                                                                 *)
Escape == <<"%", "2", "0">>
Grows(s) == [i \in DOMAIN s |-> IF s[i] = "+" THEN Escape ELSE <<s[i]>>]
Shrinks(s) ==
  [i \in DOMAIN s |->
    IF EscapeAt(s, i) THEN <<" ">>
    ELSE IF EscapeAt(s, i - 1) \/ EscapeAt(s, i - 2) THEN <<>> ELSE <<s[i]>>]
Closed(s) == \A i \in 1 .. Len(s) : s[i] = "%" => EscapeAt(s, i)

LEMMA EscapeIs ==
  /\ Escape \in Texts /\ Len(Escape) = 3
  /\ Escape[1] = "%" /\ Escape[2] = "2" /\ Escape[3] = "0"
  /\ "%" # "2" /\ "%" # "0" /\ " " \in Words /\ <<" ">> \in Texts
  <1>1. "%" \in Words /\ "2" \in Words /\ "0" \in Words /\ " " \in Words
    BY ParserConstants
  <1>2. \A a, b, c \in Words : <<a, b, c>> \in Seq(Words) /\ Len(<<a, b, c>>) = 3
    OBVIOUS
  <1>3. Escape \in Texts /\ Len(Escape) = 3
    BY <1>1, <1>2 DEF Escape, Texts
  <1>4. Escape[1] = "%" /\ Escape[2] = "2" /\ Escape[3] = "0"
    BY DEF Escape
  <1>5. "%" # "2" /\ "%" # "0"
    OBVIOUS
  <1>6. <<" ">> \in Texts
    BY <1>1, TuplesAre DEF Texts
  <1> QED BY <1>1, <1>3, <1>4, <1>5, <1>6

LEMMA EscapeAtIs ==
  ASSUME NEW s \in Texts, NEW i \in Int
  PROVE  EscapeAt(s, i) <=> i \in 1 .. Len(s) - 2 /\ s[i] = "%" /\ s[i + 1] = "2" /\ s[i + 2] = "0"
  <1> SUFFICES ASSUME i \in 1 .. Len(s) - 2
               PROVE  SubSeq(s, i, i + 2) = Escape <=> s[i] = "%" /\ s[i + 1] = "2" /\ s[i + 2] = "0"
    BY DEF EscapeAt, Escape
  <1> DEFINE u == SubSeq(s, i, i + 2)
  <1>1. Len(s) \in Nat
    BY LenIs
  <1>2. u \in Texts /\ Len(u) = 3 /\ u[1] = s[i] /\ u[2] = s[i + 1] /\ u[3] = s[i + 2]
    <2> DEFINE a == i - 1
    <2>1. a \in Nat /\ a + 1 = i /\ a <= i + 2 /\ i + 2 \in Nat /\ i + 2 <= Len(s) /\ (i + 2) - a = 3
          /\ a + 2 = i + 1 /\ a + 3 = i + 2
      BY <1>1
    <2> HIDE DEF a
    <2>2. /\ SubSeq(s, a + 1, i + 2) \in Texts /\ Len(SubSeq(s, a + 1, i + 2)) = (i + 2) - a
          /\ \A j \in 1 .. (i + 2) - a : SubSeq(s, a + 1, i + 2)[j] = s[a + j]
      BY <2>1, PartIs
    <2> HIDE DEF u
    <2>3. u \in Texts /\ Len(u) = 3 /\ \A j \in 1 .. 3 : u[j] = s[a + j]
      BY <2>1, <2>2 DEF u
    <2> QED BY <2>1, <2>3
  <1> HIDE DEF u
  <1>3. ASSUME s[i] = "%", s[i + 1] = "2", s[i + 2] = "0" PROVE u = Escape
    <2>1. \A j \in 1 .. 3 : u[j] = Escape[j]
      <3> TAKE j \in 1 .. 3
      <3>1. j = 1 \/ j = 2 \/ j = 3
        OBVIOUS
      <3> QED BY <1>2, <1>3, <3>1, EscapeIs
    <2> QED BY <1>2, <2>1, EscapeIs, SameTexts
  <1>4. u = Escape => s[i] = "%" /\ s[i + 1] = "2" /\ s[i + 2] = "0"
    BY <1>2, EscapeIs
  <1> QED BY <1>3, <1>4 DEF u

LEMMA ShrinksIs ==
  ASSUME NEW s \in Texts
  PROVE  /\ Shrinks(s) \in Seq(Texts) /\ Len(Shrinks(s)) = Len(s)
         /\ \A i \in 1 .. Len(s) :
              Shrinks(s)[i] = IF EscapeAt(s, i) THEN <<" ">>
                              ELSE IF EscapeAt(s, i - 1) \/ EscapeAt(s, i - 2) THEN <<>> ELSE <<s[i]>>
         /\ Unescaped(s) = FlattenSeq(Shrinks(s))
  <1> DEFINE f == Shrinks(s)
             e(i) == IF EscapeAt(s, i) THEN <<" ">>
                     ELSE IF EscapeAt(s, i - 1) \/ EscapeAt(s, i - 2) THEN <<>> ELSE <<s[i]>>
             N == Len(s)
  <1>1. N \in Nat /\ DOMAIN s = 1 .. N /\ \A i \in 1 .. N : s[i] \in Words
    BY LenIs DEF Texts
  <1>2. f = [i \in 1 .. N |-> e(i)]
    BY <1>1 DEF Shrinks
  <1>3. ASSUME NEW i \in 1 .. N PROVE e(i) \in Texts
    <2>1. <<s[i]>> \in Texts
      BY <1>1, TuplesAre DEF Texts
    <2> QED BY <2>1, EscapeIs, CatEmpty
  <1> HIDE DEF e, N, f
  <1>4. f \in Seq(Texts) /\ Len(f) = N /\ \A i \in 1 .. N : f[i] = e(i)
    <2>1. f \in [1 .. N -> Texts]
      BY <1>2, <1>3
    <2>2. f \in Seq(Texts) /\ Len(f) = N
      BY <1>1, <2>1
    <2>3. \A i \in 1 .. N : f[i] = e(i)
      BY <1>2
    <2> QED BY <2>2, <2>3
  <1> QED BY <1>4 DEF e, N, f, Unescaped, Shrinks

(* A text without a beginning of an escape at its end.                      *)
LEMMA ClosedFront ==
  ASSUME NEW s \in Texts, Closed(s), NEW t \in Texts
  PROVE  /\ \A i \in 1 .. Len(s) : EscapeAt(Cat(s, t), i) <=> EscapeAt(s, i)
         /\ \A i \in 1 .. Len(s) : Shrinks(Cat(s, t))[i] = Shrinks(s)[i]
         /\ ~EscapeAt(Cat(s, t), Len(s)) /\ ~EscapeAt(Cat(s, t), Len(s) - 1)
         /\ Joined(Shrinks(Cat(s, t)), Len(s)) = Unescaped(s) /\ Unescaped(s) \in Texts
  <1> DEFINE w == Cat(s, t)
             m == Len(s)
             n == Len(t)
  <1>1. /\ w \in Texts /\ m \in Nat /\ n \in Nat /\ Len(w) = m + n
        /\ \A i \in 1 .. m : w[i] = s[i]
    BY CatAt
  <1> HIDE DEF w, m, n
  <1>2. ASSUME NEW i \in Int, i <= m PROVE EscapeAt(w, i) <=> EscapeAt(s, i)
    <2>1. EscapeAt(s, i) <=> i \in 1 .. m - 2 /\ s[i] = "%" /\ s[i + 1] = "2" /\ s[i + 2] = "0"
      BY EscapeAtIs DEF m
    <2>2. EscapeAt(w, i) <=> i \in 1 .. (m + n) - 2 /\ w[i] = "%" /\ w[i + 1] = "2" /\ w[i + 2] = "0"
      BY <1>1, EscapeAtIs
    <2>3. ASSUME i \in 1 .. m - 2 PROVE w[i] = s[i] /\ w[i + 1] = s[i + 1] /\ w[i + 2] = s[i + 2]
      <3>1. i \in 1 .. m /\ i + 1 \in 1 .. m /\ i + 2 \in 1 .. m
        BY <1>1, <2>3
      <3> QED BY <1>1, <3>1
    <2>4. ASSUME EscapeAt(s, i) PROVE EscapeAt(w, i)
      <3>1. i \in 1 .. m - 2
        BY <2>1, <2>4
      <3>2. i \in 1 .. (m + n) - 2
        BY <1>1, <3>1
      <3> QED BY <2>1, <2>2, <2>3, <2>4, <3>1, <3>2
    <2>5. ASSUME EscapeAt(w, i) PROVE EscapeAt(s, i)
      <3>1. i \in 1 .. m /\ w[i] = "%"
        BY <1>1, <1>2, <2>2, <2>5
      <3>2. s[i] = "%"
        BY <1>1, <3>1
      <3> QED BY <3>1, <3>2 DEF Closed, m
    <2> QED BY <2>4, <2>5
  <1>3. ASSUME NEW i \in {m - 1, m} PROVE ~EscapeAt(w, i)
    <2>1. i \in Int /\ i <= m /\ i \notin 1 .. m - 2
      BY <1>1
    <2>2. ~EscapeAt(s, i)
      BY <2>1, EscapeAtIs DEF m
    <2> QED BY <1>2, <2>1, <2>2
  <1>4. \A i \in 1 .. m : Shrinks(w)[i] = Shrinks(s)[i]
    <2> TAKE i \in 1 .. m
    <2>1. /\ i \in Int /\ i <= m /\ i - 1 \in Int /\ i - 1 <= m /\ i - 2 \in Int /\ i - 2 <= m
          /\ i \in 1 .. Len(w) /\ i \in 1 .. Len(s)
      BY <1>1 DEF m
    <2>2. /\ EscapeAt(w, i) <=> EscapeAt(s, i)
          /\ EscapeAt(w, i - 1) <=> EscapeAt(s, i - 1)
          /\ EscapeAt(w, i - 2) <=> EscapeAt(s, i - 2)
      BY <1>2, <2>1
    <2>3. Shrinks(w)[i] = IF EscapeAt(w, i) THEN <<" ">>
                          ELSE IF EscapeAt(w, i - 1) \/ EscapeAt(w, i - 2) THEN <<>> ELSE <<w[i]>>
      BY <1>1, <2>1, ShrinksIs, Zenon
    <2>4. Shrinks(s)[i] = IF EscapeAt(s, i) THEN <<" ">>
                          ELSE IF EscapeAt(s, i - 1) \/ EscapeAt(s, i - 2) THEN <<>> ELSE <<s[i]>>
      BY <2>1, ShrinksIs, Zenon
    <2> QED BY <1>1, <2>2, <2>3, <2>4
  <1>5. Joined(Shrinks(w), m) = Unescaped(s) /\ Unescaped(s) \in Texts
    <2>1. Shrinks(w) \in Seq(Texts) /\ Len(Shrinks(w)) = m + n
      BY <1>1, ShrinksIs
    <2>2. Shrinks(s) \in Seq(Texts) /\ Len(Shrinks(s)) = m /\ Unescaped(s) = FlattenSeq(Shrinks(s))
      BY ShrinksIs DEF m
    <2>3. m <= m + n
      BY <1>1
    <2>4. Joined(Shrinks(w), m) = Joined(Shrinks(s), m)
      <3> DEFINE f == Shrinks(w)
                 g == Shrinks(s)
      <3>1. /\ f \in Seq(Seq(Words)) /\ g \in Seq(Seq(Words)) /\ m <= Len(f) /\ m <= Len(g)
            /\ \A i \in 1 .. m : f[i] = g[i]
        BY <1>1, <1>4, <2>1, <2>2, <2>3 DEF Texts
      <3> HIDE DEF f, g
      <3>2. Joined(f, m) = Joined(g, m)
        BY <1>1, <3>1, JoinedSame, Zenon
      <3> QED BY <3>2 DEF f, g
    <2>5. FlattenSeq(Shrinks(s)) = Joined(Shrinks(s), m) /\ FlattenSeq(Shrinks(s)) \in Texts
      BY <2>2, JoinedIs, FlattenOver DEF Texts
    <2> QED BY <2>2, <2>4, <2>5
  <1>6. (\A i \in 1 .. m : EscapeAt(w, i) <=> EscapeAt(s, i)) /\ ~EscapeAt(w, m) /\ ~EscapeAt(w, m - 1)
    BY <1>1, <1>2, <1>3
  <1> QED BY <1>4, <1>5, <1>6 DEF w, m

LEMMA PlainNext ==
  ASSUME NEW s \in Texts, Closed(s), NEW a \in Words, a # "%"
  PROVE  Closed(Cat(s, <<a>>)) /\ Unescaped(Cat(s, <<a>>)) = Cat(Unescaped(s), <<a>>)
  <1> DEFINE t == <<a>>
             w == Cat(s, t)
             m == Len(s)
  <1>1. t \in Texts /\ Len(t) = 1 /\ t[1] = a
    BY TuplesAre DEF Texts
  <1> HIDE DEF t
  <1>2. /\ w \in Texts /\ m \in Nat /\ Len(w) = m + 1
        /\ \A i \in 1 .. m : w[i] = s[i]
        /\ w[m + 1] = a
    <2>1. /\ w \in Texts /\ m \in Nat /\ Len(w) = m + Len(t)
          /\ \A i \in 1 .. m : w[i] = s[i]
          /\ \A i \in 1 .. Len(t) : w[m + i] = t[i]
      BY <1>1, CatAt
    <2> HIDE DEF w, m
    <2> QED BY <1>1, <2>1
  <1>3. /\ \A i \in 1 .. m : EscapeAt(w, i) <=> EscapeAt(s, i)
        /\ ~EscapeAt(w, m) /\ ~EscapeAt(w, m - 1)
        /\ Joined(Shrinks(w), m) = Unescaped(s) /\ Unescaped(s) \in Texts
    BY <1>1, ClosedFront
  <1>4. Closed(w)
    <2> SUFFICES ASSUME NEW i \in 1 .. Len(w), w[i] = "%" PROVE EscapeAt(w, i)
      BY DEF Closed
    <2> HIDE DEF w, m
    <2>1. i \in 1 .. m
      BY <1>2
    <2> QED BY <1>2, <1>3, <2>1 DEF Closed, m
  <1> HIDE DEF w, m
  <1>5. Shrinks(w) \in Seq(Texts) /\ Len(Shrinks(w)) = m + 1 /\ Shrinks(w)[m + 1] = <<a>>
    <2>1. ~EscapeAt(w, m + 1) /\ (m + 1) - 1 = m /\ (m + 1) - 2 = m - 1 /\ m + 1 \in 1 .. Len(w)
      BY <1>2, EscapeAtIs
    <2>2. Shrinks(w)[m + 1] = IF EscapeAt(w, m + 1) THEN <<" ">>
            ELSE IF EscapeAt(w, (m + 1) - 1) \/ EscapeAt(w, (m + 1) - 2) THEN <<>> ELSE <<w[m + 1]>>
      BY <1>2, <2>1, ShrinksIs, Zenon
    <2> QED BY <1>2, <1>3, <2>1, <2>2, ShrinksIs
  <1>6. Unescaped(w) = Cat(Joined(Shrinks(w), m), <<a>>)
    <2>1. m \in 0 .. (m + 1) - 1
      BY <1>2
    <2>2. FlattenSeq(Shrinks(w)) = Joined(Shrinks(w), m + 1) /\ Joined(Shrinks(w), m + 1) = Joined(Shrinks(w), m) \o <<a>>
      BY <1>5, <2>1, JoinedIs DEF Texts
    <2> QED BY <1>2, <2>2, ShrinksIs DEF Cat
  <1> QED BY <1>3, <1>4, <1>6 DEF w, t

LEMMA EscapeNext ==
  ASSUME NEW s \in Texts, Closed(s)
  PROVE  Closed(Cat(s, Escape)) /\ Unescaped(Cat(s, Escape)) = Cat(Unescaped(s), <<" ">>)
  <1> DEFINE w == Cat(s, Escape)
             m == Len(s)
             f == Shrinks(w)
  <1>1. /\ w \in Texts /\ m \in Nat /\ Len(w) = m + 3
        /\ \A i \in 1 .. m : w[i] = s[i]
        /\ w[m + 1] = "%" /\ w[m + 2] = "2" /\ w[m + 3] = "0"
    <2>1. /\ w \in Texts /\ m \in Nat /\ Len(w) = m + Len(Escape)
          /\ \A i \in 1 .. m : w[i] = s[i]
          /\ \A i \in 1 .. Len(Escape) : w[m + i] = Escape[i]
      BY EscapeIs, CatAt
    <2> HIDE DEF w, m
    <2>2. Len(w) = m + 3 /\ \A i \in 1 .. 3 : w[m + i] = Escape[i]
      BY <2>1, EscapeIs
    <2>3. w[m + 1] = Escape[1] /\ w[m + 2] = Escape[2] /\ w[m + 3] = Escape[3]
      BY <2>2
    <2> QED BY <2>1, <2>2, <2>3, EscapeIs
  <1>2. /\ \A i \in 1 .. m : EscapeAt(w, i) <=> EscapeAt(s, i)
        /\ ~EscapeAt(w, m) /\ ~EscapeAt(w, m - 1)
        /\ Joined(f, m) = Unescaped(s) /\ Unescaped(s) \in Texts
    BY EscapeIs, ClosedFront
  <1> HIDE DEF w, m
  <1>3. EscapeAt(w, m + 1) /\ ~EscapeAt(w, m + 2) /\ ~EscapeAt(w, m + 3)
    <2>1. m + 1 \in 1 .. Len(w) - 2 /\ m + 2 \notin 1 .. Len(w) - 2 /\ m + 3 \notin 1 .. Len(w) - 2
          /\ (m + 1) + 1 = m + 2 /\ (m + 1) + 2 = m + 3 /\ m + 1 \in Int /\ m + 2 \in Int /\ m + 3 \in Int
      BY <1>1
    <2> QED BY <1>1, <2>1, EscapeAtIs
  <1>4. Closed(w)
    <2> SUFFICES ASSUME NEW i \in 1 .. Len(w), w[i] = "%" PROVE EscapeAt(w, i)
      BY DEF Closed
    <2>1. i \in 1 .. m \/ i = m + 1 \/ i = m + 2 \/ i = m + 3
      BY <1>1
    <2>2. CASE i \in 1 .. m
      BY <1>1, <1>2, <2>2 DEF Closed, m
    <2> QED BY <1>1, <1>3, <2>1, <2>2, EscapeIs
  <1>5. /\ f \in Seq(Texts) /\ Len(f) = m + 3 /\ Unescaped(w) = FlattenSeq(f)
        /\ \A i \in 1 .. m + 3 :
             f[i] = IF EscapeAt(w, i) THEN <<" ">>
                    ELSE IF EscapeAt(w, i - 1) \/ EscapeAt(w, i - 2) THEN <<>> ELSE <<w[i]>>
    <2>1. /\ f \in Seq(Texts) /\ Len(f) = Len(w) /\ Unescaped(w) = FlattenSeq(f)
          /\ \A i \in 1 .. Len(w) :
               f[i] = IF EscapeAt(w, i) THEN <<" ">>
                      ELSE IF EscapeAt(w, i - 1) \/ EscapeAt(w, i - 2) THEN <<>> ELSE <<w[i]>>
      BY <1>1, ShrinksIs, Zenon
    <2> QED BY <1>1, <2>1, Zenon
  <1> HIDE DEF f
  <1>6. f[m + 1] = <<" ">> /\ f[m + 2] = <<>> /\ f[m + 3] = <<>>
    <2>1. m + 1 \in 1 .. m + 3 /\ m + 2 \in 1 .. m + 3 /\ m + 3 \in 1 .. m + 3
          /\ (m + 2) - 1 = m + 1 /\ (m + 3) - 2 = m + 1
      BY <1>1
    <2>2. f[m + 2] = IF EscapeAt(w, m + 2) THEN <<" ">>
                     ELSE IF EscapeAt(w, m + 1) \/ EscapeAt(w, (m + 2) - 2) THEN <<>> ELSE <<w[m + 2]>>
      BY <1>5, <2>1
    <2>3. f[m + 3] = IF EscapeAt(w, m + 3) THEN <<" ">>
                     ELSE IF EscapeAt(w, (m + 3) - 1) \/ EscapeAt(w, m + 1) THEN <<>> ELSE <<w[m + 3]>>
      BY <1>5, <2>1
    <2>4. f[m + 1] = <<" ">>
      BY <1>3, <1>5, <2>1
    <2> QED BY <1>3, <2>2, <2>3, <2>4
  <1>7. FlattenSeq(f) = Cat(Cat(Cat(Joined(f, m), <<" ">>), <<>>), <<>>)
    <2>1. /\ m \in 0 .. (m + 3) - 1 /\ m + 1 \in 0 .. (m + 3) - 1 /\ m + 2 \in 0 .. (m + 3) - 1
          /\ (m + 1) + 1 = m + 2 /\ (m + 2) + 1 = m + 3
      BY <1>1
    <2>2. \A i \in 0 .. (m + 3) - 1 : Joined(f, i + 1) = Cat(Joined(f, i), f[i + 1])
      BY <1>5, JoinedIs DEF Texts, Cat
    <2>3. FlattenSeq(f) = Joined(f, m + 3)
      BY <1>5, JoinedIs DEF Texts
    <2>4. /\ Joined(f, m + 1) = Cat(Joined(f, m), <<" ">>)
          /\ Joined(f, m + 2) = Cat(Joined(f, m + 1), <<>>)
          /\ Joined(f, m + 3) = Cat(Joined(f, m + 2), <<>>)
      BY <1>6, <2>1, <2>2
    <2> QED BY <2>3, <2>4
  <1>8. Cat(Unescaped(s), <<" ">>) \in Texts
    BY <1>2, EscapeIs, CatIs
  <1>9. Unescaped(w) = Cat(Unescaped(s), <<" ">>)
    BY <1>2, <1>5, <1>7, <1>8, CatEmpty DEF f
  <1> QED BY <1>4, <1>9 DEF w

LEMMA GrowsIs ==
  ASSUME NEW s \in Texts
  PROVE  /\ Grows(s) \in Seq(Texts) /\ Len(Grows(s)) = Len(s)
         /\ \A i \in 1 .. Len(s) : Grows(s)[i] = IF s[i] = "+" THEN Escape ELSE <<s[i]>>
         /\ Expanded(s) = FlattenSeq(Grows(s))
  <1> DEFINE f == Grows(s)
             e(i) == IF s[i] = "+" THEN Escape ELSE <<s[i]>>
             N == Len(s)
  <1>1. N \in Nat /\ DOMAIN s = 1 .. N /\ \A i \in 1 .. N : s[i] \in Words
    BY LenIs DEF Texts
  <1>2. f = [i \in 1 .. N |-> e(i)]
    BY <1>1 DEF Grows
  <1>3. ASSUME NEW i \in 1 .. N PROVE e(i) \in Texts
    <2>1. <<s[i]>> \in Texts
      BY <1>1, TuplesAre DEF Texts
    <2> QED BY <2>1, EscapeIs
  <1> HIDE DEF e, N, f
  <1>4. f \in Seq(Texts) /\ Len(f) = N /\ \A i \in 1 .. N : f[i] = e(i)
    <2>1. f \in [1 .. N -> Texts]
      BY <1>2, <1>3
    <2>2. f \in Seq(Texts) /\ Len(f) = N
      BY <1>1, <2>1
    <2>3. \A i \in 1 .. N : f[i] = e(i)
      BY <1>2
    <2> QED BY <2>2, <2>3
  <1> QED BY <1>4 DEF e, N, f, Expanded, Grows, Escape

LEMMA PlainlyIs ==
  ASSUME NEW s \in Texts
  PROVE  /\ Plainly(s) \in Texts /\ Len(Plainly(s)) = Len(s)
         /\ \A i \in 1 .. Len(s) : Plainly(s)[i] = IF s[i] = "+" THEN " " ELSE s[i]
         /\ ~Contains(s, "+") => Plainly(s) = s
  <1> DEFINE p == Plainly(s)
             N == Len(s)
  <1>1. N \in Nat /\ DOMAIN s = 1 .. N /\ \A i \in 1 .. N : s[i] \in Words
    BY LenIs DEF Texts
  <1>2. p = [i \in 1 .. N |-> IF s[i] = "+" THEN " " ELSE s[i]]
    BY <1>1 DEF Plainly
  <1> HIDE DEF N, p
  <1>3. p \in [1 .. N -> Words]
    BY <1>1, <1>2, EscapeIs
  <1>4. p \in Texts /\ Len(p) = N /\ \A i \in 1 .. N : p[i] = IF s[i] = "+" THEN " " ELSE s[i]
    <2>1. p \in Seq(Words) /\ Len(p) = N
      BY <1>1, <1>3
    <2>2. \A i \in 1 .. N : p[i] = IF s[i] = "+" THEN " " ELSE s[i]
      BY <1>2
    <2> QED BY <2>1, <2>2 DEF Texts
  <1>5. ASSUME ~Contains(s, "+") PROVE p = s
    <2>1. \A i \in 1 .. N : p[i] = s[i]
      BY <1>4, <1>5 DEF Contains, N
    <2> QED BY <1>4, <2>1, SameTexts DEF N
  <1> QED BY <1>4, <1>5 DEF p, N

(* urlDecode of a whole text without escapes of its own.                    *)
LEMMA ClosedEmpty == Closed(<<>>) /\ Unescaped(<<>>) = <<>>
  <1>1. <<>> \in Texts /\ Len(<<>>) = 0
    BY CatEmpty
  <1>2. Closed(<<>>)
    BY DEF Closed
  <1>3. Shrinks(<<>>) \in Seq(Texts) /\ Len(Shrinks(<<>>)) = 0 /\ Unescaped(<<>>) = FlattenSeq(Shrinks(<<>>))
    BY <1>1, ShrinksIs
  <1>4. FlattenSeq(Shrinks(<<>>)) = <<>>
    BY <1>3, JoinedIs DEF Texts
  <1> QED BY <1>2, <1>3, <1>4

LEMMA UnescapedExpanded ==
  ASSUME NEW s \in Texts, ~Contains(s, "%")
  PROVE  Unescaped(Expanded(s)) = Plainly(s) /\ Expanded(s) \in Texts
  <1> DEFINE N == Len(s)
             f == Grows(s)
             p == Plainly(s)
             P == {n \in Nat : n <= N => Closed(Joined(f, n)) /\ Unescaped(Joined(f, n)) = SubSeq(p, 1, n)}
  <1>1. N \in Nat /\ \A i \in 1 .. N : s[i] \in Words /\ s[i] # "%"
    BY LenIs DEF Contains
  <1>2. p \in Texts /\ Len(p) = N /\ \A i \in 1 .. N : p[i] = IF s[i] = "+" THEN " " ELSE s[i]
    BY PlainlyIs
  <1>3. /\ f \in Seq(Texts) /\ Len(f) = N /\ Expanded(s) = FlattenSeq(f)
        /\ \A i \in 1 .. N : f[i] = IF s[i] = "+" THEN Escape ELSE <<s[i]>>
    BY GrowsIs
  <1> HIDE DEF N, f, p
  <1>4. /\ Joined(f, 0) = <<>> /\ FlattenSeq(f) = Joined(f, N)
        /\ \A n \in 0 .. N : Joined(f, n) \in Texts
        /\ \A n \in 0 .. N - 1 : Joined(f, n + 1) = Cat(Joined(f, n), f[n + 1])
    BY <1>3, JoinedIs DEF Texts, Cat
  <1>5. 0 \in P
    <2>1. SubSeq(p, 1, 0) \in Texts /\ Len(SubSeq(p, 1, 0)) = 0
      <3>1. Len(p) \in Nat
        BY <1>2, LenIs
      <3>2. 0 \in 0 .. Len(p)
        BY <3>1
      <3> QED BY <1>2, <3>2, SplitText
    <2>2. SubSeq(p, 1, 0) = <<>>
      BY <2>1, LenIs
    <2> QED BY <1>4, <2>2, ClosedEmpty
  <1>6. ASSUME NEW n \in P PROVE n + 1 \in P
    <2> SUFFICES ASSUME n + 1 <= N
                 PROVE  Closed(Joined(f, n + 1)) /\ Unescaped(Joined(f, n + 1)) = SubSeq(p, 1, n + 1)
      OBVIOUS
    <2> DEFINE J == Joined(f, n)
    <2>1. n \in 0 .. N - 1 /\ n \in 0 .. N /\ n <= N /\ n + 1 \in 1 .. N /\ n <= n + 1 /\ (n + 1) - n = 1
      BY <1>1
    <2>2. J \in Texts /\ Closed(J) /\ Unescaped(J) = SubSeq(p, 1, n) /\ Joined(f, n + 1) = Cat(J, f[n + 1])
      BY <1>4, <2>1
    <2>3. SubSeq(p, 1, n + 1) = Cat(SubSeq(p, 1, n), <<p[n + 1]>>)
      BY <1>2, OneMore
    <2> HIDE DEF J
    <2>4. CASE s[n + 1] = "+"
      <3>1. f[n + 1] = Escape /\ p[n + 1] = " "
        BY <1>2, <1>3, <2>1, <2>4
      <3> QED BY <2>2, <2>3, <3>1, EscapeNext
    <2>5. CASE s[n + 1] # "+"
      <3>1. f[n + 1] = <<s[n + 1]>> /\ p[n + 1] = s[n + 1] /\ s[n + 1] \in Words /\ s[n + 1] # "%"
        BY <1>1, <1>2, <1>3, <2>1, <2>5
      <3> QED BY <2>2, <2>3, <3>1, PlainNext
    <2> QED BY <2>4, <2>5
  <1>7. P = Nat
    <2> HIDE DEF P
    <2>1. P \in SUBSET Nat
      BY DEF P
    <2> QED BY <1>5, <1>6, <2>1, AllNumbers
  <1>8. Unescaped(Joined(f, N)) = SubSeq(p, 1, N)
    BY <1>1, <1>7
  <1>9. SubSeq(p, 1, N) = p
    BY <1>2, SubSeqFull DEF Texts
  <1>10. Joined(f, N) \in Texts
    BY <1>1, <1>4
  <1> QED BY <1>3, <1>4, <1>8, <1>9, <1>10 DEF p

LEMMA DecodedWhole ==
  ASSUME NEW s \in Texts, ~Contains(s, "%")
  PROVE  Decoded(s, 0) = Plainly(s)
  BY UnescapedExpanded DEF Decoded, Cut

(* The front of a text, which urlDecode cuts off after '+' has grown.       *)
LEMMA DecodedFront ==
  ASSUME NEW s \in Texts, ~Contains(s, "%"), ~Contains(s, "+"), s # <<>>, NEW t \in Texts
  PROVE  Decoded(Cat(s, t), Len(s)) = Plainly(s)
  <1> DEFINE w == Cat(s, t)
             m == Len(s)
             f == Grows(w)
             g == Grows(s)
  <1>1. /\ w \in Texts /\ m \in Nat /\ Len(t) \in Nat /\ Len(w) = m + Len(t)
        /\ \A i \in 1 .. m : w[i] = s[i]
    BY CatAt
  <1>2. /\ f \in Seq(Texts) /\ Len(f) = Len(w) /\ Expanded(w) = FlattenSeq(f)
        /\ \A i \in 1 .. Len(w) : f[i] = IF w[i] = "+" THEN Escape ELSE <<w[i]>>
    BY <1>1, GrowsIs
  <1>3. /\ g \in Seq(Texts) /\ Len(g) = m /\ Expanded(s) = FlattenSeq(g)
        /\ \A i \in 1 .. m : g[i] = IF s[i] = "+" THEN Escape ELSE <<s[i]>>
    BY GrowsIs
  <1>4. \A i \in 1 .. m : s[i] # "+"
    BY DEF Contains
  <1>5. m # 0 /\ m <= m + Len(t)
    BY <1>1, LenIs
  <1> HIDE DEF w, f, g
  <1>6. Expanded(s) = s
    <2>1. \A i \in 1 .. m : g[i] = <<s[i]>>
      BY <1>3, <1>4
    <2> DEFINE h == [i \in 1 .. m |-> <<s[i]>>]
    <2>2. h \in Seq(Texts) /\ Len(h) = m /\ FlattenSeq(h) = s
      BY Singles
    <2>3. \A i \in 1 .. m : g[i] = h[i]
      BY <2>1
    <2> HIDE DEF h
    <2>4. g = h
      BY <1>3, <2>2, <2>3, SeqEqual
    <2> QED BY <1>3, <2>2, <2>4
  <1>7. Joined(f, m) = s
    <2>1. \A i \in 1 .. m : f[i] = g[i]
      <3> TAKE i \in 1 .. m
      <3>1. i \in 1 .. Len(w) /\ w[i] = s[i]
        BY <1>1, <1>5
      <3> QED BY <1>2, <1>3, <3>1
    <2>2. f \in Seq(Seq(Words)) /\ g \in Seq(Seq(Words)) /\ m <= Len(f) /\ m <= Len(g)
      BY <1>1, <1>2, <1>3, <1>5 DEF Texts
    <2>3. Joined(f, m) = Joined(g, m)
      BY <1>1, <2>1, <2>2, JoinedSame, Zenon
    <2>4. FlattenSeq(g) = Joined(g, Len(g))
      BY <2>2, JoinedIs
    <2> QED BY <1>3, <1>6, <2>3, <2>4
  <1>8. Expanded(w) = Cat(s, Remaining(f, m)) /\ Remaining(f, m) \in Texts
    <2>1. m \in 0 .. Len(f)
      BY <1>1, <1>2, <1>5
    <2> QED BY <1>2, <1>7, <2>1, RemainingIs
  <1>9. Cut(Expanded(w), m) = s
    <2> DEFINE r == Remaining(f, m)
    <2>1. Len(Cat(s, r)) = m + Len(r) /\ Len(r) \in Nat
      BY <1>8, CatAt
    <2>2. SubSeq(Cat(s, r), 1, m) = s
      BY <1>8, CatParts
    <2> HIDE DEF r, m
    <2>3. Smaller(m, Len(Cat(s, r))) = m
      BY <1>1, <2>1 DEF Smaller
    <2> QED BY <1>5, <1>8, <2>2, <2>3 DEF Cut, r
  <1>10. Unescaped(s) = Plainly(s)
    BY <1>6, UnescapedExpanded
  <1> QED BY <1>9, <1>10 DEF Decoded, w
-----------------------------------------------------------------------------
(* trim of a text does not see a blank at its beginning.                    *)
LEMMA MaxIn ==
  ASSUME NEW S \in SUBSET Nat, S # {}, NEW n \in Nat, \A y \in S : y <= n
  PROVE  Max(S) \in S /\ \A y \in S : y <= Max(S)
  <1> DEFINE T == {n - y : y \in S}
  <1>1. T \in SUBSET Nat /\ T # {}
    <2>1. \A y \in S : n - y \in Nat
      OBVIOUS
    <2> QED BY <2>1
  <1>2. PICK y \in S : \A z \in S : n - y <= n - z
    <2>1. Min(T) \in T /\ \A x \in T : Min(T) <= x
      <3> HIDE DEF T
      <3> QED BY <1>1, MinIn
    <2> QED BY <2>1
  <1>3. \A z \in S : y >= z
    BY <1>2
  <1>4. Max(S) \in S /\ \A z \in S : Max(S) >= z
    BY <1>2, <1>3 DEF Max
  <1> QED BY <1>4

Solid(s) == {i \in DOMAIN s : s[i] \notin White}

LEMMA TrimIs ==
  ASSUME NEW s \in Texts
  PROVE  /\ Solid(s) \in SUBSET (1 .. Len(s))
         /\ Solid(s) = {} => Trim(s) = <<>>
         /\ Solid(s) # {} =>
              /\ Trim(s) = SubSeq(s, Min(Solid(s)), Max(Solid(s)))
              /\ Min(Solid(s)) \in Solid(s) /\ Max(Solid(s)) \in Solid(s)
              /\ \A y \in Solid(s) : Min(Solid(s)) <= y /\ y <= Max(Solid(s))
  <1>1. Len(s) \in Nat /\ DOMAIN s = 1 .. Len(s)
    BY LenIs DEF Texts
  <1>2. Solid(s) \in SUBSET (1 .. Len(s))
    BY <1>1 DEF Solid
  <1>3. Trim(s) = IF Solid(s) = {} THEN <<>> ELSE SubSeq(s, Min(Solid(s)), Max(Solid(s)))
    BY DEF Trim, Solid
  <1>4. ASSUME Solid(s) # {}
        PROVE  /\ Min(Solid(s)) \in Solid(s) /\ Max(Solid(s)) \in Solid(s)
               /\ \A y \in Solid(s) : Min(Solid(s)) <= y /\ y <= Max(Solid(s))
    <2>1. Solid(s) \in SUBSET Nat /\ \A y \in Solid(s) : y <= Len(s)
      BY <1>1, <1>2
    <2>2. Min(Solid(s)) \in Solid(s) /\ \A y \in Solid(s) : Min(Solid(s)) <= y
      BY <1>4, <2>1, MinIn
    <2>3. Max(Solid(s)) \in Solid(s) /\ \A y \in Solid(s) : y <= Max(Solid(s))
      BY <1>1, <1>4, <2>1, MaxIn
    <2> QED BY <2>2, <2>3
  <1> QED BY <1>2, <1>3, <1>4

LEMMA TrimInTexts ==
  ASSUME NEW s \in Texts
  PROVE  Trim(s) \in Texts
  <1>1. CASE Solid(s) = {}
    BY <1>1, TrimIs, CatEmpty
  <1>2. CASE Solid(s) # {}
    <2> DEFINE lo == Min(Solid(s))
               hi == Max(Solid(s))
    <2>1. Trim(s) = SubSeq(s, lo, hi) /\ lo \in 1 .. Len(s) /\ hi \in 1 .. Len(s) /\ lo <= hi
      BY <1>2, TrimIs
    <2> HIDE DEF lo, hi
    <2>2. lo - 1 \in Nat /\ (lo - 1) + 1 = lo /\ hi \in Nat /\ lo - 1 <= hi /\ hi <= Len(s)
      BY <2>1, LenIs
    <2>3. SubSeq(s, (lo - 1) + 1, hi) \in Texts
      BY <2>2, PartIs
    <2> QED BY <2>1, <2>2, <2>3
  <1> QED BY <1>1, <1>2

LEMMA TrimRest ==
  ASSUME NEW s \in Texts, s # <<>>, s[1] \in White
  PROVE  Trim(Drop(s, 1)) = Trim(s)
  <1> DEFINE d == Drop(s, 1)
             n == Len(s)
             A == Solid(s)
             B == Solid(d)
  <1> HIDE DEF n
  <1>1. n \in Nat /\ n >= 1
    <2>1. n \in Nat /\ n # 0
      BY LenIs DEF n
    <2> QED BY <2>1
  <1>2. d \in Texts /\ Len(d) = n - 1 /\ \A i \in 1 .. n - 1 : d[i] = s[1 + i]
    <2>1. 1 \in Nat /\ 1 <= n /\ n \in Nat /\ n <= n
      BY <1>1
    <2> QED BY <2>1, PartIs DEF Drop, n
  <1>3. DOMAIN s = 1 .. n /\ DOMAIN d = 1 .. n - 1
    <2> HIDE DEF d
    <2>1. \A t \in Texts : DOMAIN t = 1 .. Len(t)
      BY DEF Texts
    <2> QED BY <1>2, <2>1 DEF n
  <1> HIDE DEF d
  <1>4. A \in SUBSET (1 .. n) /\ B \in SUBSET (1 .. n - 1)
    BY <1>2, TrimIs DEF n
  <1>5. \A i \in Nat : i + 1 \in A <=> i \in B
    <2> TAKE i \in Nat
    <2>1. i + 1 \in A <=> i + 1 \in 1 .. n /\ s[i + 1] \notin White
      BY <1>3 DEF Solid
    <2>2. i \in B <=> i \in 1 .. n - 1 /\ d[i] \notin White
      BY <1>3 DEF Solid
    <2>3. CASE i = 0
      <3>1. i + 1 = 1 /\ s[1] \in White /\ i \notin 1 .. n - 1
        BY <1>1, <2>3
      <3> QED BY <2>1, <2>2, <3>1
    <2>4. CASE i # 0
      <3>1. i + 1 \in 1 .. n <=> i \in 1 .. n - 1
        BY <1>1, <2>4
      <3>2. i \in 1 .. n - 1 => d[i] = s[i + 1]
        BY <1>1, <1>2, <3>1
      <3> QED BY <2>1, <2>2, <3>1, <3>2
    <2> QED BY <2>3, <2>4
  <1>6. /\ A = {} => Trim(s) = <<>>
        /\ A # {} => /\ Trim(s) = SubSeq(s, Min(A), Max(A)) /\ Min(A) \in A /\ Max(A) \in A
                     /\ \A y \in A : Min(A) <= y /\ y <= Max(A)
    BY TrimIs
  <1>7. /\ B = {} => Trim(d) = <<>>
        /\ B # {} => /\ Trim(d) = SubSeq(d, Min(B), Max(B)) /\ Min(B) \in B /\ Max(B) \in B
                     /\ \A y \in B : Min(B) <= y /\ y <= Max(B)
    BY <1>2, TrimIs
  <1> HIDE DEF A, B, d, n
  <1>8. \A i \in A : i - 1 \in B
    <2> TAKE i \in A
    <2>1. i - 1 \in Nat /\ (i - 1) + 1 = i
      BY <1>1, <1>4
    <2> QED BY <1>5, <2>1
  <1>9. \A i \in B : i + 1 \in A
    BY <1>1, <1>4, <1>5
  <1>10. CASE B = {}
    BY <1>6, <1>7, <1>8, <1>10 DEF d
  <1>11. CASE B # {}
    <2> DEFINE lo == Min(B)
               hi == Max(B)
               lo2 == Min(A)
               hi2 == Max(A)
    <2>1. A # {}
      BY <1>9, <1>11
    <2>2. /\ lo \in B /\ hi \in B /\ \A y \in B : lo <= y /\ y <= hi
          /\ lo2 \in A /\ hi2 \in A /\ \A y \in A : lo2 <= y /\ y <= hi2
          /\ Trim(s) = SubSeq(s, lo2, hi2) /\ Trim(d) = SubSeq(d, lo, hi)
      BY <1>6, <1>7, <1>11, <2>1
    <2> HIDE DEF lo, hi, lo2, hi2
    <2>3. lo \in 1 .. n - 1 /\ hi \in 1 .. n - 1 /\ lo2 \in 1 .. n /\ hi2 \in 1 .. n /\ lo <= hi
      BY <1>4, <2>2
    <2>4. lo2 <= lo + 1 /\ hi + 1 <= hi2 /\ lo <= lo2 - 1 /\ hi2 - 1 <= hi
      BY <1>8, <1>9, <2>2
    <2>5. lo2 = lo + 1 /\ hi2 = hi + 1
      BY <1>1, <2>3, <2>4
    <2> DEFINE a == lo - 1
    <2>6. /\ a \in Nat /\ a + 1 = lo /\ a <= hi /\ hi \in Nat /\ hi <= n - 1 /\ lo \in Nat
          /\ lo <= hi + 1 /\ hi + 1 \in Nat /\ hi + 1 <= n /\ (hi + 1) - lo = hi - a
      BY <1>1, <2>3
    <2> HIDE DEF a
    <2>7. /\ SubSeq(d, a + 1, hi) \in Texts /\ Len(SubSeq(d, a + 1, hi)) = hi - a
          /\ \A i \in 1 .. hi - a : SubSeq(d, a + 1, hi)[i] = d[a + i]
      BY <1>2, <2>6, PartIs
    <2>8. /\ SubSeq(s, lo + 1, hi + 1) \in Texts /\ Len(SubSeq(s, lo + 1, hi + 1)) = (hi + 1) - lo
          /\ \A i \in 1 .. (hi + 1) - lo : SubSeq(s, lo + 1, hi + 1)[i] = s[lo + i]
      BY <2>6, PartIs DEF n
    <2>9. \A i \in 1 .. hi - a : SubSeq(d, a + 1, hi)[i] = SubSeq(s, lo + 1, hi + 1)[i]
      <3> TAKE i \in 1 .. hi - a
      <3>1. a + i \in 1 .. n - 1 /\ 1 + (a + i) = lo + i
        BY <1>1, <2>6
      <3>2. d[a + i] = s[lo + i]
        BY <1>2, <3>1
      <3> QED BY <2>6, <2>7, <2>8, <3>2
    <2>10. SubSeq(d, a + 1, hi) = SubSeq(s, lo + 1, hi + 1)
      BY <2>6, <2>7, <2>8, <2>9, SameTexts
    <2> QED BY <2>2, <2>5, <2>6, <2>10 DEF d
  <1> QED BY <1>10, <1>11
-----------------------------------------------------------------------------
(* A header line, and what parseHttpHeader finds when it is at the front.   *)
LEMMA ColonIs == <<":">> \in Texts /\ Len(<<":">>) = 1 /\ <<":">>[1] = ":" /\ ":" # "\r"
  <1>1. ":" \in Words /\ ":" # "\r"
    BY ParserConstants, Chars
  <1>2. <<":">> \in Texts
    BY <1>1, TuplesAre DEF Texts
  <1>3. Len(<<":">>) = 1 /\ <<":">>[1] = ":"
    OBVIOUS
  <1> QED BY <1>1, <1>2, <1>3

LEMMA LineAt ==
  ASSUME NEW key \in Texts, NEW value \in Texts, NEW h, h[1] = key, h[2] = value
  PROVE  LET line == Cat(Field(h), Eol)
             k == Len(key)
             n == Len(value)
         IN  /\ line \in Texts /\ Len(line) = k + n + 3 /\ k \in Nat /\ n \in Nat
             /\ \A i \in 1 .. k : line[i] = key[i]
             /\ line[k + 1] = ":"
             /\ \A i \in 1 .. n : line[(k + 1) + i] = value[i]
             /\ line[k + n + 2] = "\r"
  <1> DEFINE a == Cat(key, <<":">>)
             b == Cat(a, value)
             line == Cat(b, Eol)
             k == Len(key)
             n == Len(value)
  <1>1. Cat(Field(h), Eol) = line
    BY DEF Field, Cat
  <1>2. /\ a \in Texts /\ k \in Nat /\ Len(a) = k + 1
        /\ \A i \in 1 .. k : a[i] = key[i]
        /\ a[k + 1] = ":"
    <2>1. /\ a \in Texts /\ k \in Nat /\ Len(a) = k + Len(<<":">>)
          /\ \A i \in 1 .. k : a[i] = key[i]
          /\ \A i \in 1 .. Len(<<":">>) : a[k + i] = <<":">>[i]
      BY ColonIs, CatAt
    <2> HIDE DEF a, k
    <2>2. Len(a) = k + 1 /\ \A i \in 1 .. 1 : a[k + i] = <<":">>[i]
      BY <2>1, ColonIs
    <2>3. a[k + 1] = <<":">>[1]
      BY <2>2
    <2> QED BY <2>1, <2>2, <2>3, ColonIs
  <1> HIDE DEF a, k
  <1>3. /\ b \in Texts /\ n \in Nat /\ Len(b) = (k + 1) + n
        /\ \A i \in 1 .. k + 1 : b[i] = a[i]
        /\ \A i \in 1 .. n : b[(k + 1) + i] = value[i]
    <2>1. /\ b \in Texts /\ n \in Nat /\ Len(b) = Len(a) + n
          /\ \A i \in 1 .. Len(a) : b[i] = a[i]
          /\ \A i \in 1 .. n : b[Len(a) + i] = value[i]
      BY <1>2, CatAt
    <2> HIDE DEF b, n
    <2> QED BY <1>2, <2>1
  <1> HIDE DEF b, n
  <1> DEFINE m == (k + 1) + n
  <1>4. /\ line \in Texts /\ Len(line) = m + 2
        /\ \A i \in 1 .. m : line[i] = b[i]
        /\ line[m + 1] = "\r"
    <2>1. /\ line \in Texts /\ Len(line) = Len(b) + Len(Eol)
          /\ \A i \in 1 .. Len(b) : line[i] = b[i]
          /\ \A i \in 1 .. Len(Eol) : line[Len(b) + i] = Eol[i]
      <3>1. b \in Texts /\ Eol \in Texts
        BY <1>3, EolIs
      <3> QED BY <3>1, CatAt, Zenon
    <2> HIDE DEF line, m
    <2>2. Len(b) = m
      BY <1>3 DEF m
    <2>3. Len(line) = m + 2 /\ \A i \in 1 .. 2 : line[m + i] = Eol[i]
      BY <2>1, <2>2, EolIs
    <2>4. line[m + 1] = Eol[1]
      BY <2>3
    <2> QED BY <2>1, <2>2, <2>3, <2>4, EolIs
  <1> HIDE DEF line
  <1>5. m + 2 = k + n + 3 /\ m + 1 = k + n + 2 /\ m \in Nat
    BY <1>2, <1>3
  <1>6. \A i \in 1 .. k : line[i] = key[i]
    <2> TAKE i \in 1 .. k
    <2>1. i \in 1 .. k + 1 /\ i \in 1 .. m
      BY <1>2, <1>3
    <2> HIDE DEF m
    <2> QED BY <1>2, <1>3, <1>4, <2>1
  <1>7. line[k + 1] = ":"
    <2>1. k + 1 \in 1 .. k + 1 /\ k + 1 \in 1 .. m
      BY <1>2, <1>3
    <2> HIDE DEF m
    <2> QED BY <1>2, <1>3, <1>4, <2>1
  <1>8. \A i \in 1 .. n : line[(k + 1) + i] = value[i]
    <2> TAKE i \in 1 .. n
    <2>1. (k + 1) + i \in 1 .. m
      BY <1>2, <1>3
    <2> HIDE DEF m
    <2> QED BY <1>3, <1>4, <2>1
  <1> HIDE DEF m
  <1> QED BY <1>1, <1>2, <1>3, <1>4, <1>5, <1>6, <1>7, <1>8 DEF k, n

(* parseHttpHeader takes the key and the value, and goes on behind the line *)
(* if that is there as a whole; if not, it fails or finds no ':'.           *)
HeaderSplits(t, h, rest) ==
  LET whole == Cat(Cat(Field(h), Eol), rest)
      colon == First(t, ":", 1)
      eol == First(t, "\r", colon)
  IN  /\ t = whole => colon # 0 /\ eol # 0
      /\ colon # 0 /\ eol # 0 =>
           /\ SubSeq(t, 1, colon - 1) = h[1]
           /\ eol > colon + 1 /\ SubSeq(t, colon + 2, eol - 1) = Drop(h[2], 1)
           /\ IsCut(Drop(t, eol + 1), rest)
           /\ t = whole => Drop(t, eol + 1) = rest

LEMMA HeaderTaken ==
  ASSUME NEW key \in Texts, ~Contains(key, ":"), NEW value \in InLine, value # <<>>,
         NEW h, h[1] = key, h[2] = value, NEW rest \in Texts,
         NEW t, IsCut(t, Cat(Cat(Field(h), Eol), rest))
  PROVE  HeaderSplits(t, h, rest)
  <1> DEFINE line == Cat(Field(h), Eol)
             whole == Cat(line, rest)
             k == Len(key)
             n == Len(value)
             m == Len(t)
             L == k + n + 3
             colon == First(t, ":", 1)
             eol == First(t, "\r", colon)
  <1>1. /\ value \in Texts /\ \A i \in 1 .. n : value[i] # "\r"
        /\ \A i \in 1 .. k : key[i] # ":"
    BY InLineIs DEF Contains
  <1>2. /\ line \in Texts /\ Len(line) = L /\ k \in Nat /\ n \in Nat
        /\ \A i \in 1 .. k : line[i] = key[i]
        /\ line[k + 1] = ":"
        /\ \A i \in 1 .. n : line[(k + 1) + i] = value[i]
        /\ line[k + n + 2] = "\r"
    BY <1>1, LineAt
  <1>3. n # 0
    BY <1>1, LenIs
  <1> HIDE DEF line, k, n
  <1>4. /\ whole \in Texts /\ Len(rest) \in Nat /\ Len(whole) = L + Len(rest)
        /\ \A i \in 1 .. L : whole[i] = line[i]
    <2>1. /\ whole \in Texts /\ Len(rest) \in Nat /\ Len(whole) = Len(line) + Len(rest)
          /\ \A i \in 1 .. Len(line) : whole[i] = line[i]
      BY <1>2, CatAt
    <2> HIDE DEF whole, L
    <2> QED BY <1>2, <2>1
  <1>5. t \in Texts /\ m \in Nat /\ m <= L + Len(rest) /\ \A i \in 1 .. m : t[i] = whole[i]
    <2>1. t \in Texts /\ Len(t) \in Nat /\ Len(t) <= Len(whole) /\ \A i \in 1 .. Len(t) : t[i] = whole[i]
      BY <1>4, CutIs DEF line
    <2> QED BY <1>4, <2>1
  <1>6. t = whole => m = L + Len(rest)
    BY <1>4
  <1>7. ASSUME NEW i \in Nat, 1 <= i, i <= m, i <= L PROVE t[i] = line[i]
    <2>1. i \in 1 .. m /\ i \in 1 .. L
      BY <1>2, <1>5, <1>7
    <2> QED BY <1>4, <1>5, <2>1
  <1> HIDE DEF whole, m
  <1>8. ASSUME NEW i \in 1 .. k, i <= m PROVE t[i] = key[i] /\ t[i] # ":"
    <2>1. i \in Nat /\ 1 <= i /\ i <= L
      BY <1>2
    <2>2. t[i] = line[i]
      BY <1>7, <1>8, <2>1
    <2> QED BY <1>1, <1>2, <2>2
  <1>9. colon # 0 => m >= k + 1
    <2> SUFFICES ASSUME ~(m >= k + 1) PROVE colon = 0
      OBVIOUS
    <2>1. \A i \in 1 .. m : t[i] # ":"
      BY <1>2, <1>5, <1>8
    <2> QED BY <1>5, <2>1, FirstNone DEF m
  <1>10. ASSUME m >= k + 1 PROVE colon = k + 1
    <2>1. \A i \in 1 .. (k + 1) - 1 : t[i] # ":"
      BY <1>2, <1>5, <1>8, <1>10
    <2>2. k + 1 \in Nat /\ 1 <= k + 1 /\ k + 1 <= m /\ k + 1 <= L /\ k + 1 \in 1 .. m
      BY <1>2, <1>5, <1>10
    <2>3. t[k + 1] = ":"
      BY <1>2, <1>7, <2>2
    <2> QED BY <1>5, <2>1, <2>2, <2>3, FirstAt DEF m
  <1>11. ASSUME m >= k + 1, NEW i \in (k + 1) .. (k + n + 1), i <= m PROVE t[i] # "\r"
    <2>1. CASE i = k + 1
      <3>1. i \in Nat /\ 1 <= i /\ i <= L
        BY <1>2, <2>1
      <3>2. t[i] = ":"
        BY <1>2, <1>7, <1>11, <2>1, <3>1
      <3> QED BY <3>2, ColonIs
    <2>2. CASE i # k + 1
      <3> DEFINE j == i - (k + 1)
      <3>1. i \in Nat /\ 1 <= i /\ i <= L /\ j \in 1 .. n /\ (k + 1) + j = i
        BY <1>2, <1>11, <2>2
      <3> HIDE DEF j
      <3>2. t[i] = line[i]
        BY <1>7, <1>11, <3>1
      <3>3. line[(k + 1) + j] = value[j] /\ value[j] # "\r"
        BY <1>1, <1>2, <3>1
      <3> QED BY <3>1, <3>2, <3>3
    <2> QED BY <2>1, <2>2
  <1>12. ASSUME m >= k + 1, eol # 0 PROVE m >= k + n + 2
    <2> SUFFICES ASSUME ~(m >= k + n + 2) PROVE FALSE
      OBVIOUS
    <2>1. colon = k + 1 /\ k + 1 \in Nat \ {0}
      BY <1>2, <1>10, <1>12
    <2>2. \A i \in (k + 1) .. m : t[i] # "\r"
      <3> TAKE i \in (k + 1) .. m
      <3>1. i \in (k + 1) .. (k + n + 1) /\ i <= m
        BY <1>2, <1>5
      <3> QED BY <1>11, <1>12, <3>1
    <2>3. First(t, "\r", k + 1) = 0
      BY <1>5, <2>1, <2>2, FirstNone DEF m
    <2> QED BY <1>12, <2>1, <2>3
  <1>13. ASSUME m >= k + n + 2 PROVE colon = k + 1 /\ eol = k + n + 2
    <2>1. colon = k + 1 /\ k + 1 \in Nat \ {0} /\ m >= k + 1
      BY <1>2, <1>5, <1>10, <1>13
    <2>2. \A i \in (k + 1) .. (k + n + 2) - 1 : t[i] # "\r"
      <3> TAKE i \in (k + 1) .. (k + n + 2) - 1
      <3>1. i \in (k + 1) .. (k + n + 1) /\ i <= m
        BY <1>2, <1>5, <1>13
      <3> QED BY <1>11, <2>1, <3>1
    <2>3. k + n + 2 \in Nat /\ 1 <= k + n + 2 /\ k + n + 2 <= m /\ k + n + 2 <= L /\ k + n + 2 \in (k + 1) .. m
      BY <1>2, <1>5, <1>13
    <2>4. t[k + n + 2] = "\r"
      BY <1>2, <1>7, <2>3
    <2>5. First(t, "\r", k + 1) = k + n + 2
      BY <1>5, <2>1, <2>2, <2>3, <2>4, FirstAt DEF m
    <2> QED BY <2>1, <2>5
  <1>14. t = whole => colon # 0 /\ eol # 0
    <2> SUFFICES ASSUME t = whole PROVE colon # 0 /\ eol # 0
      OBVIOUS
    <2> HIDE DEF colon, eol
    <2>1. m >= k + n + 2
      BY <1>2, <1>4, <1>6
    <2>2. colon = k + 1 /\ eol = k + n + 2
      BY <1>13, <2>1
    <2> QED BY <1>2, <2>2
  <1>15. ASSUME colon # 0, eol # 0
         PROVE  /\ SubSeq(t, 1, colon - 1) = key
                /\ eol > colon + 1 /\ SubSeq(t, colon + 2, eol - 1) = Drop(value, 1)
                /\ IsCut(Drop(t, eol + 1), rest)
                /\ t = whole => Drop(t, eol + 1) = rest
    <2>1. m >= k + n + 2
      BY <1>9, <1>12, <1>15
    <2>2. colon = k + 1 /\ eol = k + n + 2
      BY <1>13, <2>1
    <2> HIDE DEF colon, eol
    <2>3. /\ colon - 1 = k /\ colon + 2 = (k + 2) + 1 /\ eol - 1 = k + n + 1 /\ eol + 1 = L /\ eol > colon + 1
          /\ k \in 0 .. m /\ k + 2 \in Nat /\ k + n + 1 \in Nat /\ k + 2 <= k + n + 1 /\ k + n + 1 <= m
          /\ (k + n + 1) - (k + 2) = n - 1 /\ 1 <= n /\ L \in Nat
      BY <1>2, <1>3, <1>5, <2>1, <2>2
    <2>4. SubSeq(t, 1, k) = key
      <3>1. SubSeq(t, 1, k) \in Texts /\ Len(SubSeq(t, 1, k)) = k /\ \A i \in 1 .. k : SubSeq(t, 1, k)[i] = t[i]
        BY <1>5, <2>3, SplitText DEF m
      <3>2. \A i \in 1 .. k : SubSeq(t, 1, k)[i] = key[i]
        BY <1>2, <1>5, <1>8, <2>3, <3>1
      <3> QED BY <3>1, <3>2, SameTexts DEF k
    <2>5. SubSeq(t, (k + 2) + 1, k + n + 1) = Drop(value, 1)
      <3> DEFINE u == SubSeq(t, (k + 2) + 1, k + n + 1)
                 v == SubSeq(value, 1 + 1, n)
      <3>1. u \in Texts /\ Len(u) = n - 1 /\ \A i \in 1 .. n - 1 : u[i] = t[(k + 2) + i]
        <4>1. /\ u \in Texts /\ Len(u) = (k + n + 1) - (k + 2)
              /\ \A i \in 1 .. (k + n + 1) - (k + 2) : u[i] = t[(k + 2) + i]
          <5> DEFINE a == k + 2
                     b == k + n + 1
          <5>1. a \in Nat /\ b \in Nat /\ a <= b /\ b <= Len(t)
            BY <2>3 DEF m
          <5> HIDE DEF a, b
          <5>2. /\ SubSeq(t, a + 1, b) \in Texts /\ Len(SubSeq(t, a + 1, b)) = b - a
                /\ \A i \in 1 .. b - a : SubSeq(t, a + 1, b)[i] = t[a + i]
            BY <1>5, <5>1, PartIs
          <5> QED BY <5>2 DEF a, b
        <4> HIDE DEF u
        <4> QED BY <2>3, <4>1
      <3>2. v \in Texts /\ Len(v) = n - 1 /\ \A i \in 1 .. n - 1 : v[i] = value[1 + i]
        <4>1. 1 \in Nat /\ n \in Nat /\ 1 <= n /\ n <= n
          BY <1>2, <2>3
        <4> QED BY <1>1, <4>1, PartIs DEF n
      <3> HIDE DEF u, v
      <3>3. \A i \in 1 .. n - 1 : u[i] = v[i]
        <4> TAKE i \in 1 .. n - 1
        <4> DEFINE p == (k + 2) + i
        <4>1. p \in Nat /\ 1 <= p /\ p <= m /\ p <= L /\ 1 + i \in 1 .. n /\ (k + 1) + (1 + i) = p
          BY <1>2, <1>5, <2>1
        <4>2. t[p] = line[p]
          BY <1>7, <4>1
        <4>3. line[(k + 1) + (1 + i)] = value[1 + i]
          BY <1>2, <4>1
        <4> HIDE DEF p
        <4>4. t[p] = value[1 + i]
          BY <4>1, <4>2, <4>3
        <4> QED BY <3>1, <3>2, <4>4 DEF p
      <3>4. u = v
        BY <3>1, <3>2, <3>3, SameTexts
      <3> QED BY <3>4 DEF u, v, n, Drop
    <2>6. IsCut(Drop(t, L), rest) /\ (t = whole => Drop(t, L) = rest)
      <3>1. CASE m >= L
        <4>1. Len(t) >= Len(line)
          BY <1>2, <3>1 DEF m
        <4>2. IsCut(t, Cat(line, rest))
          BY DEF line
        <4> HIDE DEF L
        <4> QED BY <1>2, <4>1, <4>2, CutRest DEF whole
      <3>2. CASE ~(m >= L)
        <4>1. m < L /\ m + 1 = L
          BY <1>2, <1>5, <2>1, <3>2
        <4>2. Drop(t, L) = <<>>
          <5>1. SubSeq(t, L + 1, m) = <<>>
            <6>1. L + 1 \in Int /\ m \in Int /\ m < L + 1
              BY <1>2, <1>5, <4>1
            <6> QED BY <6>1, SubSeqEmpty
          <5> QED BY <5>1 DEF Drop, m
        <4>3. SubSeq(rest, 1, 0) = <<>> /\ 0 \in 0 .. Len(rest)
          <5>1. 0 \in 0 .. Len(rest)
            BY <1>4
          <5>2. SubSeq(rest, 1, 0) \in Texts /\ Len(SubSeq(rest, 1, 0)) = 0
            BY <5>1, SplitText
          <5> QED BY <5>1, <5>2, LenIs
        <4>4. IsCut(Drop(t, L), rest)
          BY <4>2, <4>3 DEF IsCut
        <4>5. t # whole
          BY <1>2, <1>4, <1>6, <4>1
        <4> QED BY <4>4, <4>5
      <3> QED BY <3>1, <3>2
    <2> QED BY <2>3, <2>4, <2>5, <2>6
  <1> QED BY <1>14, <1>15 DEF whole, line, HeaderSplits
-----------------------------------------------------------------------------
(* The head of a request, from its n-th header on.                          *)
HeadAfter(r, n) == Cat(Remaining(Fields(r), n), Eol)

LEMMA HeadAfterIs ==
  ASSUME NEW r \in Requests
  PROVE  /\ Len(r.headers) \in Nat /\ DOMAIN r.headers = 1 .. Len(r.headers)
         /\ HeadText(r) = Cat(Cat(Line(r), Eol), HeadAfter(r, 0))
         /\ \A n \in 0 .. Len(r.headers) : HeadAfter(r, n) \in Texts
         /\ \A n \in 0 .. Len(r.headers) - 1 :
              HeadAfter(r, n) = Cat(Cat(Field(r.headers[n + 1]), Eol), HeadAfter(r, n + 1))
         /\ HeadAfter(r, Len(r.headers)) = Eol
  <1> DEFINE N == Len(r.headers)
             f == Fields(r)
  <1>1. N \in Nat /\ DOMAIN r.headers = 1 .. N
    BY RequestConstants DEF AreTexts
  <1>2. f \in Seq(Texts) /\ HeadText(r) = Cat(Cat(Cat(Line(r), Eol), FlattenSeq(f)), Eol)
    BY LineIs
  <1>3. Len(f) = N /\ \A i \in 1 .. N : f[i] = Cat(Field(r.headers[i]), Eol)
    <2>1. DOMAIN f = 1 .. N /\ \A i \in 1 .. N : f[i] = Cat(Field(r.headers[i]), Eol)
      BY <1>1 DEF Fields
    <2> HIDE DEF f
    <2>2. Len(f) \in Nat /\ DOMAIN f = 1 .. Len(f)
      BY <1>2
    <2>3. Len(f) = N
      <3> DEFINE a == Len(f)
      <3>1. a \in Nat /\ 1 .. a = 1 .. N
        BY <2>1, <2>2
      <3> HIDE DEF a, N
      <3>2. a = N
        <4>1. a = 0 \/ a \in 1 .. a
          BY <3>1
        <4>2. N = 0 \/ N \in 1 .. N
          BY <1>1
        <4> QED BY <1>1, <3>1, <4>1, <4>2
      <3> QED BY <3>2 DEF a
    <2> QED BY <2>1, <2>3
  <1> HIDE DEF f, N
  <1>4. /\ FlattenSeq(f) \in Texts /\ Remaining(f, 0) = FlattenSeq(f) /\ Remaining(f, N) = <<>>
        /\ \A n \in 0 .. N : Remaining(f, n) \in Texts
        /\ \A n \in 0 .. N - 1 : f[n + 1] \in Texts /\ Remaining(f, n) = Cat(f[n + 1], Remaining(f, n + 1))
    BY <1>2, <1>3, RemainingIs
  <1>5. \A n \in 0 .. N : HeadAfter(r, n) \in Texts
    BY <1>4, EolIs, CatIs DEF HeadAfter, f
  <1>6. HeadText(r) = Cat(Cat(Line(r), Eol), HeadAfter(r, 0))
    <2>1. Line(r) \in Texts
      BY LineIs, InLineIs
    <2>2. Cat(Line(r), Eol) \in Texts
      BY <2>1, EolIs, CatIs
    <2>3. Cat(Cat(Cat(Line(r), Eol), FlattenSeq(f)), Eol) = Cat(Cat(Line(r), Eol), Cat(FlattenSeq(f), Eol))
      BY <1>4, <2>2, EolIs, CatAssociative
    <2> QED BY <1>2, <1>4, <2>3 DEF HeadAfter, f
  <1>7. ASSUME NEW n \in 0 .. N - 1
        PROVE  HeadAfter(r, n) = Cat(Cat(Field(r.headers[n + 1]), Eol), HeadAfter(r, n + 1))
    <2>1. n \in 0 .. N /\ n + 1 \in 0 .. N /\ n + 1 \in 1 .. N
      BY <1>1
    <2>2. f[n + 1] \in Texts /\ Remaining(f, n + 1) \in Texts /\ Remaining(f, n) = Cat(f[n + 1], Remaining(f, n + 1))
      BY <1>4, <2>1
    <2>3. Cat(Cat(f[n + 1], Remaining(f, n + 1)), Eol) = Cat(f[n + 1], Cat(Remaining(f, n + 1), Eol))
      BY <2>2, EolIs, CatAssociative
    <2>4. f[n + 1] = Cat(Field(r.headers[n + 1]), Eol)
      BY <1>3, <2>1
    <2> QED BY <2>2, <2>3, <2>4 DEF HeadAfter, f
  <1>8. HeadAfter(r, N) = Eol
    BY <1>4, EolIs, CatEmpty DEF HeadAfter, f
  <1> QED BY <1>1, <1>5, <1>6, <1>7, <1>8 DEF N

(* What ReadHead takes is the head, or a beginning of it.                   *)
LEMMA HeadIsCut ==
  ASSUME asked \in Requests, NEW n \in 0 .. Len(Whole(asked)), sent = SubSeq(Whole(asked), 1, n),
         wire = sent
  PROVE  /\ IsCut(SubSeq(wire, 1, HeadEnd), HeadText(asked))
         /\ HeadWhole => SubSeq(wire, 1, HeadEnd) = HeadText(asked)
  <1> DEFINE h == HeadText(asked)
             k == Len(h)
             e == HeadEnd
             whole == Whole(asked)
  <1>1. h \in Texts /\ whole \in Texts /\ whole = Cat(h, ContentText(asked)) /\ ContentText(asked) \in Texts
    BY WholeIs, ContentTextIs
  <1>2. /\ sent \in Texts /\ Len(sent) = n /\ n \in Nat /\ Len(whole) \in Nat
        /\ \A i \in 1 .. n : sent[i] = whole[i]
    BY <1>1, SplitText, LenIs
  <1>3. /\ e \in Nat /\ e <= Smaller(Len(wire), HeadLimit)
        /\ Smaller(Len(wire), HeadLimit) \in Nat /\ Smaller(Len(wire), HeadLimit) <= Len(wire)
    BY <1>2, HeadEndIs
  <1>4. HeadWhole => e = k
    BY WholeHeadEnds DEF HeadWhole
  <1>5. k \in Nat /\ (\A i \in 1 .. k : whole[i] = h[i]) /\ SubSeq(h, 1, k) = h
    <2> HIDE DEF h, whole
    <2>1. Len(h) \in Nat /\ \A i \in 1 .. Len(h) : whole[i] = h[i]
      BY <1>1, CatAt, Zenon
    <2>2. SubSeq(h, 1, Len(h)) = h
      BY <1>1, SubSeqFull DEF Texts
    <2> QED BY <2>1, <2>2
  <1>15. HeadWhole <=> Smaller(k, Smaller(Len(wire), HeadLimit)) = k
    BY DEF HeadWhole, HeadSent
  <1>12. \A m \in 0 .. k : IsCut(SubSeq(h, 1, m), h)
    BY DEF IsCut
  <1>13. \A m \in 0 .. k : SubSeq(h, 1, m) \in Texts /\ Len(SubSeq(h, 1, m)) = m
                            /\ \A i \in 1 .. m : SubSeq(h, 1, m)[i] = h[i]
    BY <1>1, SplitText
  <1> HIDE DEF h, k, e, whole
  <1>6. e <= k
    <2>1. CASE HeadWhole
      BY <1>3, <1>4, <2>1
    <2>2. CASE ~HeadWhole
      <3> DEFINE most == Smaller(Len(wire), HeadLimit)
      <3>1. Smaller(k, most) # k
        BY <1>15, <2>2
      <3> HIDE DEF most, k
      <3>2. most <= k
        <4>1. most \in Nat
          BY <1>3 DEF most
        <4> QED BY <1>5, <3>1, <4>1 DEF Smaller
      <3>3. e <= most /\ most \in Nat
        BY <1>3 DEF most
      <3> QED BY <1>3, <1>5, <3>2, <3>3
    <2> QED BY <2>1, <2>2
  <1>7. e \in 0 .. Len(sent) /\ e \in 0 .. k
    BY <1>2, <1>3, <1>5, <1>6
  <1>8. SubSeq(sent, 1, e) = SubSeq(h, 1, e)
    <2>1. SubSeq(sent, 1, e) \in Texts /\ Len(SubSeq(sent, 1, e)) = e /\ \A i \in 1 .. e : SubSeq(sent, 1, e)[i] = sent[i]
      BY <1>2, <1>7, SplitText
    <2>2. SubSeq(h, 1, e) \in Texts /\ Len(SubSeq(h, 1, e)) = e /\ \A i \in 1 .. e : SubSeq(h, 1, e)[i] = h[i]
      BY <1>7, <1>13
    <2>3. \A i \in 1 .. e : SubSeq(sent, 1, e)[i] = SubSeq(h, 1, e)[i]
      <3> TAKE i \in 1 .. e
      <3>1. i \in 1 .. n /\ i \in 1 .. k
        BY <1>2, <1>3, <1>5, <1>7
      <3> QED BY <1>2, <1>5, <2>1, <2>2, <3>1
    <2> QED BY <2>1, <2>2, <2>3, SameTexts
  <1>9. IsCut(SubSeq(wire, 1, e), h)
    BY <1>2, <1>7, <1>8, <1>12
  <1>10. HeadWhole => SubSeq(wire, 1, e) = h
    BY <1>4, <1>5, <1>8
  <1> QED BY <1>9, <1>10 DEF h, e

-----------------------------------------------------------------------------
(* The target of a request, and what the parser makes of the request line.  *)
QueryText(r) == IF r.query = <<>> THEN <<>> ELSE <<"?">> \o PairsText(r.query)
Target(r) == Cat(r.path, QueryText(r))

LEMMA PairsOver ==
  ASSUME NEW ps, AreTexts(ps), NEW S, "=" \in S, "&" \in S,
         \A i \in DOMAIN ps : ps[i][1] \in Seq(S) /\ (ps[i][2] = None \/ ps[i][2] \in Seq(S))
  PROVE  PairsText(ps) \in Seq(S)
  <1> DEFINE parts == [i \in DOMAIN ps |-> (IF i = 1 THEN <<>> ELSE <<"&">>) \o Pair(ps[i])]
  <1>1. Len(ps) \in Nat /\ DOMAIN ps = 1 .. Len(ps)
    BY DEF AreTexts
  <1>2. <<"=">> \in Seq(S) /\ <<"&">> \in Seq(S) /\ <<>> \in Seq(S)
    BY TuplesAre
  <1>3. \A s, t \in Seq(S) : s \o t \in Seq(S)
    BY ConcatIs, Zenon
  <1>4. ASSUME NEW i \in DOMAIN ps
        PROVE  (IF i = 1 THEN <<>> ELSE <<"&">>) \o Pair(ps[i]) \in Seq(S)
    <2>1. (IF ps[i][2] = None THEN <<>> ELSE <<"=">> \o ps[i][2]) \in Seq(S)
      BY <1>2, <1>3
    <2>2. Pair(ps[i]) \in Seq(S)
      BY <1>3, <2>1 DEF Pair
    <2> QED BY <1>2, <1>3, <2>2
  <1>5. parts \in [1 .. Len(ps) -> Seq(S)]
    BY <1>1, <1>4
  <1> HIDE DEF parts
  <1>6. parts \in Seq(Seq(S))
    BY <1>1, <1>5
  <1>7. FlattenSeq(parts) \in Seq(S)
    BY <1>6, FlattenOver
  <1> QED BY <1>7 DEF PairsText, parts

LineOf(method, b, target, version) == Cat(Cat(Cat(<<method, b>>, target), <<b, version>>), Eol)

LEMMA RequestLineAt ==
  ASSUME NEW method \in Words, NEW b \in Words, NEW version \in Words, NEW target \in Texts
  PROVE  LET line == LineOf(method, b, target, version)
             n == Len(target)
         IN  /\ line \in Texts /\ n \in Nat /\ Len(line) = n + 6
             /\ line[1] = method
             /\ \A i \in 1 .. n : line[2 + i] = target[i]
             /\ line[n + 3] = b /\ line[n + 4] = version /\ line[n + 5] = "\r"
  <1> DEFINE line == LineOf(method, b, target, version)
             f == <<method, b>>
             g == <<b, version>>
             p == Cat(f, target)
             q == Cat(p, g)
             n == Len(target)
  <1>1. /\ f \in Texts /\ Len(f) = 2 /\ f[1] = method
        /\ g \in Texts /\ Len(g) = 2 /\ g[1] = b /\ g[2] = version
    BY TuplesAre DEF Texts
  <1> HIDE DEF f, g
  <1>2. /\ p \in Texts /\ n \in Nat /\ Len(p) = n + 2 /\ p[1] = method
        /\ \A i \in 1 .. n : p[2 + i] = target[i]
    <2>1. /\ p \in Texts /\ n \in Nat /\ Len(p) = Len(f) + n
          /\ \A i \in 1 .. Len(f) : p[i] = f[i]
          /\ \A i \in 1 .. n : p[Len(f) + i] = target[i]
      BY <1>1, CatAt
    <2> HIDE DEF p, n
    <2> QED BY <1>1, <2>1
  <1> HIDE DEF p, n
  <1>3. /\ q \in Texts /\ Len(q) = n + 4
        /\ \A i \in 1 .. n + 2 : q[i] = p[i]
        /\ q[n + 3] = b /\ q[n + 4] = version
    <2>1. /\ q \in Texts /\ Len(q) = Len(p) + Len(g)
          /\ \A i \in 1 .. Len(p) : q[i] = p[i]
          /\ \A i \in 1 .. Len(g) : q[Len(p) + i] = g[i]
      BY <1>1, <1>2, CatAt
    <2> HIDE DEF q
    <2>2. Len(q) = n + 4 /\ \A i \in 1 .. 2 : q[(n + 2) + i] = g[i]
      BY <1>1, <1>2, <2>1
    <2>3. (n + 2) + 1 = n + 3 /\ (n + 2) + 2 = n + 4
      BY <1>2
    <2>4. q[n + 3] = g[1] /\ q[n + 4] = g[2]
      BY <2>2, <2>3
    <2> QED BY <1>1, <1>2, <2>1, <2>2, <2>4
  <1> HIDE DEF q, line
  <1>4. /\ line \in Texts /\ Len(line) = n + 6
        /\ \A i \in 1 .. n + 4 : line[i] = q[i]
        /\ line[n + 5] = "\r"
    <2> DEFINE w == Cat(q, Eol)
    <2>1. line = w
      BY DEF line, f, g, p, q, LineOf
    <2>2. /\ w \in Texts /\ Len(w) = Len(q) + Len(Eol)
          /\ \A i \in 1 .. Len(q) : w[i] = q[i]
          /\ \A i \in 1 .. Len(Eol) : w[Len(q) + i] = Eol[i]
      BY <1>3, EolIs, CatAt
    <2> HIDE DEF w
    <2>3. Len(w) = (n + 4) + 2 /\ \A i \in 1 .. 2 : w[(n + 4) + i] = Eol[i]
      BY <1>3, <2>2, EolIs
    <2>4. (n + 4) + 1 = n + 5 /\ (n + 4) + 2 = n + 6
      BY <1>2
    <2>5. w[n + 5] = Eol[1]
      BY <2>3, <2>4
    <2> QED BY <1>3, <2>1, <2>2, <2>3, <2>4, <2>5, EolIs
  <1>5. \A i \in 1 .. n : line[2 + i] = target[i]
    <2> TAKE i \in 1 .. n
    <2>1. 2 + i \in 1 .. n + 2 /\ 2 + i \in 1 .. n + 4
      BY <1>2
    <2> QED BY <1>2, <1>3, <1>4, <2>1
  <1>6. line[1] = method /\ line[n + 3] = b /\ line[n + 4] = version
    <2>1. 1 \in 1 .. n + 2 /\ 1 \in 1 .. n + 4 /\ n + 3 \in 1 .. n + 4 /\ n + 4 \in 1 .. n + 4
      BY <1>2
    <2> QED BY <1>2, <1>3, <1>4, <2>1
  <1> QED BY <1>2, <1>4, <1>5, <1>6 DEF n, line

(* The target lies between two blanks, the second of which is the first one *)
(* behind it, and the line ends with the next '\r'.                         *)
LEMMA LineTaken ==
  ASSUME NEW method \in Words, NEW b \in Words, NEW version \in Words \ {"\r"}, NEW target \in Texts,
         \A i \in 1 .. Len(target) : target[i] # b,
         NEW rest \in Texts, NEW t, IsCut(t, Cat(LineOf(method, b, target, version), rest)),
         NEW gap, gap = First(t, b, 3), gap # 0,
         NEW eol, eol = First(t, "\r", gap + 1), eol # 0, eol + 1 < Len(t)
  PROVE  /\ SubSeq(t, 3, gap - 1) = target
         /\ IsCut(Drop(t, eol + 1), rest)
         /\ t = Cat(LineOf(method, b, target, version), rest) => Drop(t, eol + 1) = rest
  <1> DEFINE line == LineOf(method, b, target, version)
             n == Len(target)
             m == Len(t)
             whole == Cat(line, rest)
  <1>1. /\ line \in Texts /\ n \in Nat /\ Len(line) = n + 6
        /\ \A i \in 1 .. n : line[2 + i] = target[i]
        /\ line[n + 3] = b /\ line[n + 4] = version /\ line[n + 5] = "\r"
    <2>1. version \in Words
      OBVIOUS
    <2> QED BY <2>1, RequestLineAt
  <1> HIDE DEF n, line
  <1>2. /\ whole \in Texts /\ Len(rest) \in Nat /\ Len(whole) = (n + 6) + Len(rest)
        /\ \A i \in 1 .. n + 6 : whole[i] = line[i]
    <2>1. /\ whole \in Texts /\ Len(rest) \in Nat /\ Len(whole) = Len(line) + Len(rest)
          /\ \A i \in 1 .. Len(line) : whole[i] = line[i]
      BY <1>1, CatAt
    <2> HIDE DEF whole
    <2> QED BY <1>1, <2>1
  <1>3. t \in Texts /\ m \in Nat /\ \A i \in 1 .. m : t[i] = whole[i]
    BY <1>2, CutIs DEF line
  <1> HIDE DEF whole, m
  <1>4. \A i \in 1 .. m : i <= n + 6 => t[i] = line[i]
    <2> SUFFICES ASSUME NEW i \in 1 .. m, i <= n + 6 PROVE t[i] = line[i]
      OBVIOUS
    <2>1. i \in 1 .. n + 6
      BY <1>1, <1>3
    <2> QED BY <1>2, <1>3, <2>1
  <1>5. \A i \in 3 .. m : i <= n + 2 => t[i] # b
    <2> SUFFICES ASSUME NEW i \in 3 .. m, i <= n + 2 PROVE t[i] # b
      OBVIOUS
    <2>1. i - 2 \in 1 .. n /\ 2 + (i - 2) = i /\ i \in 1 .. m /\ i <= n + 6
      BY <1>1, <1>3
    <2> DEFINE j == i - 2
    <2>2. j \in 1 .. n /\ 2 + j = i
      BY <2>1
    <2> HIDE DEF j
    <2>3. line[2 + j] = target[j] /\ target[j] # b
      BY <1>1, <2>2 DEF n
    <2> QED BY <1>4, <2>1, <2>2, <2>3
  <1>6. gap \in 3 .. m /\ t[gap] = b /\ \A i \in 3 .. gap - 1 : t[i] # b
    BY <1>3, FirstIs DEF m
  <1>7. gap = n + 3
    <2>1. ~(gap <= n + 2)
      BY <1>5, <1>6
    <2>2. ~(n + 3 < gap)
      <3> SUFFICES ASSUME n + 3 < gap PROVE FALSE
        OBVIOUS
      <3>1. n + 3 \in 3 .. gap - 1 /\ n + 3 \in 1 .. m /\ n + 3 <= n + 6
        BY <1>1, <1>3, <1>6
      <3> QED BY <1>1, <1>4, <1>6, <3>1
    <2> QED BY <1>1, <1>6, <2>1, <2>2
  <1>8. gap + 1 = n + 4 /\ gap + 1 \in Nat \ {0}
    BY <1>1, <1>7
  <1>9. eol \in n + 4 .. m /\ t[eol] = "\r" /\ \A i \in n + 4 .. eol - 1 : t[i] # "\r"
    BY <1>3, <1>8, FirstIs DEF m
  <1>10. eol = n + 5
    <2>1. eol # n + 4
      <3> SUFFICES ASSUME eol = n + 4 PROVE FALSE
        OBVIOUS
      <3>1. n + 4 \in 1 .. m /\ n + 4 <= n + 6
        BY <1>1, <1>3, <1>9
      <3>2. t[n + 4] = version
        BY <1>1, <1>4, <3>1
      <3> QED BY <1>9, <3>2
    <2>2. ~(n + 5 < eol)
      <3> SUFFICES ASSUME n + 5 < eol PROVE FALSE
        OBVIOUS
      <3>1. n + 5 \in n + 4 .. eol - 1 /\ n + 5 \in 1 .. m /\ n + 5 <= n + 6
        BY <1>1, <1>3, <1>9
      <3> QED BY <1>1, <1>4, <1>9, <3>1
    <2> QED BY <1>1, <1>9, <2>1, <2>2
  <1>11. m > n + 6 /\ eol + 1 = n + 6
    BY <1>1, <1>3, <1>10 DEF m
  <1>12. SubSeq(t, 3, gap - 1) = target
    <2> DEFINE u == SubSeq(t, 2 + 1, n + 2)
    <2>1. u \in Texts /\ Len(u) = n /\ \A i \in 1 .. n : u[i] = t[2 + i]
      <3>1. 2 \in Nat /\ n + 2 \in Nat /\ 2 <= n + 2 /\ n + 2 <= Len(t) /\ (n + 2) - 2 = n
        BY <1>1, <1>3, <1>11 DEF m
      <3>2. u \in Texts /\ Len(u) = (n + 2) - 2 /\ \A i \in 1 .. (n + 2) - 2 : u[i] = t[2 + i]
        BY <1>3, <3>1, PartIs
      <3> QED BY <3>1, <3>2
    <2>2. gap - 1 = n + 2 /\ 3 = 2 + 1
      BY <1>1, <1>7
    <2> HIDE DEF u
    <2>3. \A i \in 1 .. n : u[i] = target[i]
      <3> TAKE i \in 1 .. n
      <3>1. 2 + i \in 1 .. m /\ 2 + i <= n + 6
        BY <1>1, <1>3, <1>11
      <3> QED BY <1>1, <1>4, <2>1, <3>1
    <2>4. u = target
      BY <2>1, <2>3, SameTexts DEF n
    <2> QED BY <2>2, <2>4 DEF u
  <1>13. IsCut(Drop(t, eol + 1), rest) /\ (t = whole => Drop(t, eol + 1) = rest)
    <2>1. Len(t) >= Len(line) /\ Len(line) = eol + 1
      <3>1. m \in Nat /\ n \in Nat /\ m > n + 6
        BY <1>1, <1>3, <1>11
      <3>2. m >= n + 6
        BY <3>1
      <3> QED BY <1>1, <1>11, <3>2 DEF m
    <2>2. IsCut(t, whole)
      BY DEF whole, line
    <2>3. IsCut(Drop(t, Len(line)), rest) /\ (t = whole => Drop(t, Len(line)) = rest)
      BY <1>1, <2>1, <2>2, CutRest DEF whole
    <2> QED BY <2>1, <2>3
  <1> QED BY <1>12, <1>13 DEF whole, line

(* LineTaken, for all texts and blanks alike.                               *)
LineSplits(t, method, b, target, version, rest) ==
  LET gap == First(t, b, 3)
      eol == First(t, "\r", gap + 1)
  IN  gap # 0 /\ eol # 0 /\ eol + 1 < Len(t) =>
        /\ SubSeq(t, 3, gap - 1) = target
        /\ IsCut(Drop(t, eol + 1), rest)
        /\ t = Cat(LineOf(method, b, target, version), rest) => Drop(t, eol + 1) = rest

LEMMA LineSplit ==
  ASSUME NEW method \in Words, NEW b \in Words, NEW version \in Words \ {"\r"}, NEW target \in Texts,
         \A i \in 1 .. Len(target) : target[i] # b,
         NEW rest \in Texts, NEW t, IsCut(t, Cat(LineOf(method, b, target, version), rest))
  PROVE  LineSplits(t, method, b, target, version, rest)
  <1> DEFINE gap == First(t, b, 3)
             eol == First(t, "\r", gap + 1)
  <1> SUFFICES ASSUME gap # 0, eol # 0, eol + 1 < Len(t)
               PROVE  /\ SubSeq(t, 3, gap - 1) = target
                      /\ IsCut(Drop(t, eol + 1), rest)
                      /\ t = Cat(LineOf(method, b, target, version), rest) => Drop(t, eol + 1) = rest
    BY DEF LineSplits
  <1>1. gap = First(t, b, 3) /\ eol = First(t, "\r", gap + 1)
    OBVIOUS
  <1> HIDE DEF gap, eol
  <1> QED BY <1>1, LineTaken

LEMMA NoneOf ==
  ASSUME NEW chars, NEW s \in Without(chars)
  PROVE  s \in Texts /\ \A i \in 1 .. Len(s) : s[i] \notin chars
  BY DEF Without, Texts

LEMMA WiderSeq ==
  ASSUME NEW S, NEW T \in SUBSET S
  PROVE  \A s \in Seq(T) : s \in Seq(S)
  OBVIOUS

LEMMA CatWithout ==
  ASSUME NEW s \in Texts, NEW t \in Texts, NEW word,
         \A i \in 1 .. Len(s) : s[i] # word, \A i \in 1 .. Len(t) : t[i] # word
  PROVE  Cat(s, t) \in Texts /\ \A i \in 1 .. Len(Cat(s, t)) : Cat(s, t)[i] # word
  <1> DEFINE c == Cat(s, t)
             m == Len(s)
             n == Len(t)
  <1>1. /\ c \in Texts /\ m \in Nat /\ n \in Nat /\ Len(c) = m + n
        /\ \A i \in 1 .. m + n : c[i] = IF i <= m THEN s[i] ELSE t[i - m]
    BY CatIs, LenIs
  <1> HIDE DEF c
  <1>2. ASSUME NEW i \in 1 .. Len(c) PROVE c[i] # word
    <2>1. i \in 1 .. m + n
      BY <1>1
    <2>2. CASE i <= m
      <3>1. i \in 1 .. m
        BY <1>1, <2>1, <2>2
      <3> QED BY <1>1, <2>1, <2>2, <3>1
    <2>3. CASE ~(i <= m)
      <3>1. i - m \in 1 .. n
        BY <1>1, <2>1, <2>3
      <3> QED BY <1>1, <2>1, <2>3, <3>1
    <2> QED BY <2>2, <2>3
  <1> QED BY <1>1, <1>2 DEF c

LEMMA TargetIs ==
  ASSUME NEW r \in Requests
  PROVE  /\ Target(r) \in Texts /\ r.path \in Texts /\ PairsText(r.query) \in Texts
         /\ \A i \in 1 .. Len(Target(r)) : Target(r)[i] # " "
         /\ Cat(Line(r), Eol) = LineOf(r.requestType, " ", Target(r), "HTTP/1.1")
         /\ r.query = <<>> => Target(r) = r.path /\ First(Target(r), "?", 1) = 0
         /\ r.query # <<>> =>
              /\ First(Target(r), "?", 1) = Len(r.path) + 1
              /\ Drop(Target(r), Len(r.path) + 1) = PairsText(r.query)
  <1> DEFINE p == r.path
             pt == PairsText(r.query)
             q == QueryText(r)
             w == Target(r)
  <1>1. /\ r.requestType \in Words /\ p \in Without({" ", "?", "%"})
        /\ AreTexts(r.query) /\ ArePairs(r.query)
    BY RequestConstants, RequestSyntax
  <1>2. p \in Texts /\ (\A i \in 1 .. Len(p) : p[i] # " ") /\ (\A i \in 1 .. Len(p) : p[i] # "?")
    <2>1. p \in Texts /\ \A i \in 1 .. Len(p) : p[i] \notin {" ", "?", "%"}
      BY <1>1, NoneOf
    <2> QED BY <2>1
  <1>3. pt \in Without({" "})
    <2> DEFINE S == Words \ {" "}
    <2>1. "=" \in S /\ "&" \in S
      BY ParserConstants
    <2>2. ASSUME NEW i \in DOMAIN r.query
          PROVE  r.query[i][1] \in Seq(S) /\ (r.query[i][2] = None \/ r.query[i][2] \in Seq(S))
      <3>1. /\ r.query[i][1] \in Without({" ", "&", "=", "%"})
            /\ r.query[i][2] = None \/ r.query[i][2] \in Without({" ", "&", "%"})
        BY <1>1 DEF ArePairs
      <3>2. \A s \in Without({" ", "&", "=", "%"}) : s \in Seq(S)
        BY WiderSeq DEF Without
      <3>3. \A s \in Without({" ", "&", "%"}) : s \in Seq(S)
        BY WiderSeq DEF Without
      <3> QED BY <3>1, <3>2, <3>3, Zenon
    <2> HIDE DEF S
    <2>3. pt \in Seq(S)
      BY <1>1, <2>1, <2>2, PairsOver
    <2> QED BY <2>3 DEF S, Without
  <1>4. pt \in Texts /\ \A i \in 1 .. Len(pt) : pt[i] # " "
    <2>1. pt \in Texts /\ \A i \in 1 .. Len(pt) : pt[i] \notin {" "}
      BY <1>3, NoneOf
    <2> QED BY <2>1
  <1> DEFINE mark == <<"?">>
  <1>5. mark \in Texts /\ Len(mark) = 1 /\ mark[1] = "?" /\ "?" # " "
    <2>1. "?" \in Words
      BY ParserConstants
    <2> QED BY <2>1, TuplesAre DEF Texts
  <1> HIDE DEF p, pt, mark
  <1>6. q = IF r.query = <<>> THEN <<>> ELSE Cat(mark, pt)
    BY DEF QueryText, mark, pt, Cat
  <1>7. q \in Texts /\ (\A i \in 1 .. Len(q) : q[i] # " ")
    <2>1. CASE r.query = <<>>
      BY <1>6, <2>1, CatEmpty
    <2>2. CASE r.query # <<>>
      <3>1. \A i \in 1 .. Len(mark) : mark[i] # " "
        <4> TAKE i \in 1 .. Len(mark)
        <4>1. i = 1
          BY <1>5
        <4> QED BY <1>5, <4>1, Zenon
      <3> QED BY <1>4, <1>5, <1>6, <2>2, <3>1, CatWithout
    <2> QED BY <2>1, <2>2
  <1> HIDE DEF q
  <1>8. w = Cat(p, q)
    BY DEF Target, p, q
  <1>9. w \in Texts /\ \A i \in 1 .. Len(w) : w[i] # " "
    BY <1>2, <1>7, <1>8, CatWithout
  <1>10. Cat(Line(r), Eol) = LineOf(r.requestType, " ", w, "HTTP/1.1")
    <2> DEFINE a == <<r.requestType, " ">>
               b == <<" ", "HTTP/1.1">>
    <2>1. a \in Texts
      <3>1. " " \in Words
        BY ParserConstants
      <3> QED BY <1>1, <3>1, TuplesAre DEF Texts
    <2>2. Line(r) = Cat(Cat(Cat(a, p), q), b)
      BY DEF Line, QueryText, Cat, p, q
    <2>3. LineOf(r.requestType, " ", w, "HTTP/1.1") = Cat(Cat(Cat(a, w), b), Eol)
      BY DEF LineOf
    <2> HIDE DEF a, b, w
    <2>4. Cat(Cat(a, p), q) = Cat(a, Cat(p, q))
      BY <1>2, <1>7, <2>1, CatAssociative
    <2> QED BY <1>8, <2>2, <2>3, <2>4
  <1>11. ASSUME r.query = <<>> PROVE w = p /\ First(w, "?", 1) = 0
    <2>1. w = p
      BY <1>2, <1>6, <1>8, <1>11, CatEmpty
    <2> HIDE DEF w
    <2>2. First(p, "?", 1) = 0
      <3>1. 1 \in Nat \ {0}
        OBVIOUS
      <3> QED BY <1>2, <3>1, FirstNone, Zenon
    <2> QED BY <2>1, <2>2
  <1>12. ASSUME r.query # <<>> PROVE First(w, "?", 1) = Len(p) + 1 /\ Drop(w, Len(p) + 1) = pt
    <2> DEFINE c == Cat(p, mark)
               v == Cat(c, pt)
               k == Len(p)
    <2>1. w = v
      BY <1>2, <1>4, <1>5, <1>6, <1>8, <1>12, CatAssociative
    <2>2. /\ c \in Texts /\ k \in Nat /\ Len(c) = k + 1
          /\ \A i \in 1 .. k : c[i] = p[i]
          /\ c[k + 1] = "?"
      <3>1. /\ c \in Texts /\ k \in Nat /\ Len(c) = k + Len(mark)
            /\ \A i \in 1 .. k : c[i] = p[i]
            /\ \A i \in 1 .. Len(mark) : c[k + i] = mark[i]
        BY <1>2, <1>5, CatAt
      <3> HIDE DEF c, k
      <3> QED BY <1>5, <3>1
    <2> HIDE DEF c
    <2>3. /\ v \in Texts /\ Len(pt) \in Nat /\ Len(v) = Len(c) + Len(pt)
          /\ \A i \in 1 .. Len(c) : v[i] = c[i]
      BY <1>4, <2>2, CatAt
    <2>4. Drop(v, Len(c)) = pt
      BY <1>4, <2>2, CatParts
    <2> HIDE DEF v, k
    <2>5. First(v, "?", 1) = k + 1
      <3>1. k + 1 \in 1 .. Len(v) /\ v[k + 1] = "?"
        <4>1. k + 1 \in 1 .. Len(c) /\ k + 1 \in 1 .. Len(v)
          BY <2>2, <2>3
        <4> QED BY <2>2, <2>3, <4>1
      <3>2. \A i \in 1 .. (k + 1) - 1 : v[i] # "?"
        <4> TAKE i \in 1 .. (k + 1) - 1
        <4>1. i \in 1 .. k /\ i \in 1 .. Len(c)
          BY <2>2
        <4> QED BY <1>2, <2>2, <2>3, <4>1 DEF k
      <3> QED BY <2>3, <3>1, <3>2, FirstAt
    <2> QED BY <2>1, <2>2, <2>4, <2>5 DEF k
  <1> QED BY <1>2, <1>4, <1>9, <1>10, <1>11, <1>12 DEF p, pt

(* The path, which is decoded as a part of the target that has a query.     *)
LEMMA PathTaken ==
  ASSUME NEW r \in Requests
  PROVE  /\ r.query = <<>> => Decoded(Target(r), 0) = Plainly(r.path)
         /\ r.query # <<>> /\ r.path # <<>> /\ ~Contains(r.path, "+") =>
              Decoded(Target(r), Len(r.path)) = Plainly(r.path)
  <1>1. r.path \in Texts /\ PairsText(r.query) \in Texts /\ (r.query = <<>> => Target(r) = r.path)
    BY TargetIs
  <1>2. ~Contains(r.path, "%")
    <2>1. r.path \in Without({" ", "?", "%"})
      BY RequestSyntax
    <2>2. \A i \in 1 .. Len(r.path) : r.path[i] \notin {" ", "?", "%"}
      BY <2>1, NoneOf
    <2> QED BY <2>2 DEF Contains
  <1>3. r.query = <<>> => Decoded(Target(r), 0) = Plainly(r.path)
    BY <1>1, <1>2, DecodedWhole
  <1>4. ASSUME r.query # <<>>, r.path # <<>>, ~Contains(r.path, "+")
        PROVE  Decoded(Target(r), Len(r.path)) = Plainly(r.path)
    <2> DEFINE q == Cat(<<"?">>, PairsText(r.query))
    <2>1. Target(r) = Cat(r.path, q)
      BY <1>4 DEF Target, QueryText, Cat
    <2>2. q \in Texts
      <3>1. <<"?">> \in Texts
        BY CharsInLine, InLineIs
      <3> QED BY <1>1, <3>1, CatIs
    <2> HIDE DEF q
    <2> QED BY <1>1, <1>2, <1>4, <2>1, <2>2, DecodedFront
  <1> QED BY <1>3, <1>4

-----------------------------------------------------------------------------
(* The urlencoded pairs from the n-th on.                                   *)
Parts(ps) == [i \in DOMAIN ps |-> (IF i = 1 THEN <<>> ELSE <<"&">>) \o Pair(ps[i])]
PairsAfter(ps, n) == Cat(Pair(ps[n + 1]), Remaining(Parts(ps), n + 1))

LEMMA PairIs ==
  ASSUME NEW p, p[1] \in Texts, p[2] = None \/ p[2] \in Texts
  PROVE  /\ Pair(p) \in Texts
         /\ p[2] = None => Pair(p) = p[1]
         /\ p[2] # None => Pair(p) = Cat(Cat(p[1], <<"=">>), p[2])
  <1>1. <<"=">> \in Texts
    BY CharsInLine, InLineIs
  <1>2. p[2] = None => Pair(p) = p[1]
    <2>1. p[1] \o <<>> = p[1]
      BY ConcatEmptySeq DEF Texts
    <2> QED BY <2>1 DEF Pair
  <1>3. p[2] # None => Pair(p) = Cat(Cat(p[1], <<"=">>), p[2])
    <2> SUFFICES ASSUME p[2] # None PROVE Pair(p) = Cat(Cat(p[1], <<"=">>), p[2])
      OBVIOUS
    <2>1. Pair(p) = Cat(p[1], Cat(<<"=">>, p[2]))
      BY DEF Pair, Cat
    <2> QED BY <1>1, <2>1, CatAssociative
  <1>4. p[2] # None => Cat(Cat(p[1], <<"=">>), p[2]) \in Texts
    BY <1>1, CatIs
  <1> QED BY <1>2, <1>3, <1>4

LEMMA PairsAfterIs ==
  ASSUME NEW ps, AreTexts(ps), ps # <<>>
  PROVE  /\ Len(ps) \in Nat \ {0} /\ PairsText(ps) = PairsAfter(ps, 0)
         /\ \A n \in 0 .. Len(ps) - 1 : PairsAfter(ps, n) \in Texts
         /\ \A n \in 0 .. Len(ps) - 2 :
              PairsAfter(ps, n) = Cat(Cat(Pair(ps[n + 1]), <<"&">>), PairsAfter(ps, n + 1))
         /\ PairsAfter(ps, Len(ps) - 1) = Pair(ps[Len(ps)])
  <1> DEFINE N == Len(ps)
             f == Parts(ps)
             amp == <<"&">>
  <1>1. N \in Nat /\ DOMAIN ps = 1 .. N
    BY DEF AreTexts
  <1>2. ASSUME NEW i \in 1 .. N PROVE Pair(ps[i]) \in Texts
    <2>1. ps[i][1] \in Texts /\ (ps[i][2] = None \/ ps[i][2] \in Texts)
      BY <1>1, InLineIs DEF AreTexts
    <2> QED BY <2>1, PairIs
  <1>3. amp \in Texts
    BY CharsInLine, InLineIs
  <1>4. f = [i \in 1 .. N |-> Cat(IF i = 1 THEN <<>> ELSE amp, Pair(ps[i]))] /\ PairsText(ps) = FlattenSeq(f)
    BY <1>1 DEF Parts, PairsText, Cat
  <1> HIDE DEF N, f, amp
  <1>5. f \in Seq(Texts) /\ Len(f) = N
        /\ \A i \in 1 .. N : f[i] = Cat(IF i = 1 THEN <<>> ELSE amp, Pair(ps[i]))
    <2>1. \A i \in 1 .. N : Cat(IF i = 1 THEN <<>> ELSE amp, Pair(ps[i])) \in Texts
      BY <1>2, <1>3, CatEmpty, CatIs
    <2>2. f \in [1 .. N -> Texts]
      BY <1>4, <2>1
    <2>3. f \in Seq(Texts) /\ Len(f) = N
      BY <1>1, <2>2
    <2> QED BY <1>4, <2>3
  <1>6. /\ Remaining(f, 0) = FlattenSeq(f) /\ Remaining(f, N) = <<>>
        /\ \A n \in 0 .. N : Remaining(f, n) \in Texts
        /\ \A n \in 0 .. N - 1 : Remaining(f, n) = Cat(f[n + 1], Remaining(f, n + 1))
    BY <1>5, RemainingIs
  <1>7. N # 0
    <2> SUFFICES ASSUME N = 0 PROVE FALSE
      OBVIOUS
    <2>1. ps = <<>>
      <3>1. DOMAIN ps = {}
        BY <1>1
      <3> QED BY <3>1
    <2> QED BY <2>1
  <1>8. \A n \in 0 .. N - 1 : PairsAfter(ps, n) \in Texts
    BY <1>1, <1>2, <1>6, CatIs DEF PairsAfter, f
  <1>9. PairsText(ps) = PairsAfter(ps, 0)
    <2>1. 0 \in 0 .. N - 1 /\ 1 \in 1 .. N /\ 0 + 1 = 1
      BY <1>1, <1>7
    <2>2. f[1] = Cat(<<>>, Pair(ps[1])) /\ Pair(ps[1]) \in Texts
      BY <1>2, <1>5, <2>1
    <2>3. f[1] = Pair(ps[1])
      BY <2>2, CatEmpty
    <2>4. Remaining(f, 0) = Cat(f[1], Remaining(f, 1))
      BY <1>6, <2>1
    <2> QED BY <1>4, <1>6, <2>3, <2>4 DEF PairsAfter, f
  <1>10. ASSUME NEW n \in 0 .. N - 2
         PROVE  PairsAfter(ps, n) = Cat(Cat(Pair(ps[n + 1]), amp), PairsAfter(ps, n + 1))
    <2>1. /\ n + 1 \in 0 .. N - 1 /\ n + 1 \in 1 .. N /\ n + 2 \in 1 .. N /\ n + 2 \in 0 .. N
          /\ (n + 1) + 1 = n + 2 /\ n + 2 # 1
      BY <1>1
    <2> DEFINE a == Pair(ps[n + 1])
               b == Pair(ps[n + 2])
               r == Remaining(f, n + 2)
    <2>2. a \in Texts /\ b \in Texts /\ r \in Texts
      BY <1>2, <1>6, <2>1
    <2>3. f[n + 2] = Cat(amp, b)
      BY <1>5, <2>1
    <2>4. Remaining(f, n + 1) = Cat(f[n + 2], r)
      BY <1>6, <2>1
    <2>5. PairsAfter(ps, n) = Cat(a, Remaining(f, n + 1)) /\ PairsAfter(ps, n + 1) = Cat(b, r)
      BY <2>1 DEF PairsAfter, f
    <2> HIDE DEF a, b, r
    <2>6. Cat(Cat(amp, b), r) = Cat(amp, Cat(b, r)) /\ Cat(b, r) \in Texts
      BY <1>3, <2>2, CatAssociative, CatIs
    <2>7. Cat(a, Cat(amp, Cat(b, r))) = Cat(Cat(a, amp), Cat(b, r))
      BY <1>3, <2>2, <2>6, CatAssociative
    <2> QED BY <2>3, <2>4, <2>5, <2>6, <2>7 DEF a
  <1>11. PairsAfter(ps, N - 1) = Pair(ps[N])
    <2>1. N \in 1 .. N /\ (N - 1) + 1 = N
      BY <1>1, <1>7
    <2>2. PairsAfter(ps, N - 1) = Cat(Pair(ps[N]), <<>>)
      BY <1>6, <2>1 DEF PairsAfter, f
    <2> QED BY <1>2, <2>1, <2>2, CatEmpty
  <1> QED BY <1>1, <1>7, <1>8, <1>9, <1>10, <1>11 DEF N, amp

LEMMA EqualsIs == <<"=">> \in Texts /\ Len(<<"=">>) = 1 /\ <<"=">>[1] = "=" /\ "=" # "&"
  <1>1. <<"=">> \in Texts
    BY CharsInLine, InLineIs
  <1>2. Len(<<"=">>) = 1 /\ <<"=">>[1] = "=" /\ "=" # "&"
    OBVIOUS
  <1> QED BY <1>1, <1>2

LEMMA AmpersandIs == <<"&">> \in Texts /\ Len(<<"&">>) = 1 /\ <<"&">>[1] = "&"
  <1>1. <<"&">> \in Texts
    BY CharsInLine, InLineIs
  <1>2. Len(<<"&">>) = 1 /\ <<"&">>[1] = "&"
    OBVIOUS
  <1> QED BY <1>1, <1>2

LEMMA PairAt ==
  ASSUME NEW key \in Texts, NEW value \in Texts
  PROVE  LET w == Cat(Cat(key, <<"=">>), value)
             k == Len(key)
             n == Len(value)
         IN  /\ w \in Texts /\ k \in Nat /\ n \in Nat /\ Len(w) = (k + 1) + n
             /\ \A i \in 1 .. k : w[i] = key[i]
             /\ w[k + 1] = "="
             /\ \A i \in 1 .. n : w[(k + 1) + i] = value[i]
  <1> DEFINE a == Cat(key, <<"=">>)
             w == Cat(a, value)
             k == Len(key)
             n == Len(value)
  <1>1. /\ a \in Texts /\ k \in Nat /\ Len(a) = k + 1
        /\ \A i \in 1 .. k : a[i] = key[i]
        /\ a[k + 1] = "="
    <2>1. /\ a \in Texts /\ k \in Nat /\ Len(a) = k + Len(<<"=">>)
          /\ \A i \in 1 .. k : a[i] = key[i]
          /\ \A i \in 1 .. Len(<<"=">>) : a[k + i] = <<"=">>[i]
      BY EqualsIs, CatAt
    <2> HIDE DEF a, k
    <2>2. Len(a) = k + 1 /\ \A i \in 1 .. 1 : a[k + i] = <<"=">>[i]
      BY <2>1, EqualsIs
    <2>3. a[k + 1] = <<"=">>[1]
      BY <2>2
    <2> QED BY <2>1, <2>2, <2>3, EqualsIs
  <1> HIDE DEF a, k
  <1>2. /\ w \in Texts /\ n \in Nat /\ Len(w) = (k + 1) + n
        /\ \A i \in 1 .. k + 1 : w[i] = a[i]
        /\ \A i \in 1 .. n : w[(k + 1) + i] = value[i]
    <2>1. /\ w \in Texts /\ n \in Nat /\ Len(w) = Len(a) + n
          /\ \A i \in 1 .. Len(a) : w[i] = a[i]
          /\ \A i \in 1 .. n : w[Len(a) + i] = value[i]
      BY <1>1, CatAt
    <2> HIDE DEF w, n
    <2> QED BY <1>1, <2>1
  <1> HIDE DEF w, n
  <1>3. \A i \in 1 .. k : w[i] = key[i]
    <2> TAKE i \in 1 .. k
    <2>1. i \in 1 .. k + 1
      BY <1>1
    <2> QED BY <1>1, <1>2, <2>1
  <1>4. w[k + 1] = "="
    <2>1. k + 1 \in 1 .. k + 1
      BY <1>1
    <2> QED BY <1>1, <1>2, <2>1
  <1> QED BY <1>1, <1>2, <1>3, <1>4 DEF w, a, k, n

PlainValue(s) == s \in Texts /\ (\A i \in 1 .. Len(s) : s[i] # "&") /\ ~Contains(s, "%")
PlainKey(s) == PlainValue(s) /\ \A i \in 1 .. Len(s) : s[i] # "="

LEMMA PlainPairs ==
  ASSUME NEW ps, ArePairs(ps), NEW i \in DOMAIN ps
  PROVE  PlainKey(ps[i][1]) /\ (ps[i][2] = None \/ PlainValue(ps[i][2]))
  <1>1. /\ ps[i][1] \in Without({" ", "&", "=", "%"})
        /\ ps[i][2] = None \/ ps[i][2] \in Without({" ", "&", "%"})
    BY DEF ArePairs
  <1>2. ASSUME NEW s \in Without({" ", "&", "=", "%"}) PROVE PlainKey(s)
    <2>1. s \in Texts /\ \A j \in 1 .. Len(s) : s[j] \notin {" ", "&", "=", "%"}
      BY NoneOf
    <2> QED BY <2>1 DEF PlainKey, PlainValue, Contains
  <1>3. ASSUME NEW s \in Without({" ", "&", "%"}) PROVE PlainValue(s)
    <2>1. s \in Texts /\ \A j \in 1 .. Len(s) : s[j] \notin {" ", "&", "%"}
      BY NoneOf
    <2> QED BY <2>1 DEF PlainValue, Contains
  <1> QED BY <1>1, <1>2, <1>3, Zenon

(* One turn of the loop of parseUrlEncodedPairs, with a pair in front.      *)
ValuesOf(p) == IF p[2] = None THEN <<>> ELSE << Plainly(p[2]) >>

LEMMA PairTaken ==
  ASSUME NEW p, PlainKey(p[1]), p[2] = None \/ PlainValue(p[2]),
         NEW last \in BOOLEAN, p[2] = None => last, NEW rest \in Texts,
         pairs = IF last THEN Pair(p) ELSE Cat(Cat(Pair(p), <<"&">>), rest)
  PROVE  /\ Ampersand = 0 <=> last
         /\ ~last => Drop(pairs, Ampersand) = rest
         /\ \A map : PairInto(map) = Grown(map, Plainly(p[1]), ValuesOf(p))
  <1> DEFINE key == p[1]
             value == p[2]
             w == Pair(p)
             L == Len(w)
             k == Len(key)
             n == Len(value)
  <1>1. key \in Texts /\ (\A i \in 1 .. k : key[i] # "&") /\ (\A i \in 1 .. k : key[i] # "=") /\ ~Contains(key, "%")
    BY DEF PlainKey, PlainValue
  <1>2. value # None => value \in Texts /\ (\A i \in 1 .. n : value[i] # "&") /\ ~Contains(value, "%")
    BY DEF PlainValue
  <1>3. w \in Texts /\ (value = None => w = key) /\ (value # None => w = Cat(Cat(key, <<"=">>), value))
    BY <1>1, <1>2, PairIs
  <1>4. /\ value = None => last
        /\ last => pairs = w
        /\ ~last => pairs = Cat(Cat(w, <<"&">>), rest)
        /\ \A map : PairInto(map) = IF Equals # 0 THEN Grown(map, PairKey, <<PairValue>>) ELSE Grown(map, PairKey, <<>>)
        /\ ValuesOf(p) = IF value = None THEN <<>> ELSE << Plainly(value) >>
    BY DEF PairInto, Put, Touch, ValuesOf
  <1> HIDE DEF key, value, w, L, k, n
  <1>5. L \in Nat /\ \A i \in 1 .. L : w[i] # "&"
    <2>1. L \in Nat
      BY <1>3, LenIs DEF L
    <2>2. CASE value = None
      BY <1>1, <1>3, <2>1, <2>2 DEF L, k
    <2>3. CASE value # None
      <3>1. \A i \in 1 .. Len(<<"=">>) : <<"=">>[i] # "&"
        BY EqualsIs
      <3>2. /\ Cat(key, <<"=">>) \in Texts
            /\ \A i \in 1 .. Len(Cat(key, <<"=">>)) : Cat(key, <<"=">>)[i] # "&"
        BY <1>1, <3>1, EqualsIs, CatWithout DEF k
      <3>3. \A i \in 1 .. Len(w) : w[i] # "&"
        BY <1>2, <1>3, <2>3, <3>2, CatWithout DEF n
      <3> QED BY <2>1, <3>3 DEF L
    <2> QED BY <2>2, <2>3
  <1>6. /\ pairs \in Texts /\ Len(pairs) \in Nat /\ L <= Len(pairs) /\ (last => Len(pairs) = L)
        /\ \A i \in 1 .. L : pairs[i] = w[i]
        /\ Ampersand = IF last THEN 0 ELSE L + 1
        /\ ~last => Drop(pairs, L + 1) = rest
    <2>1. CASE last
      <3>1. pairs = w
        BY <1>4, <2>1
      <3>2. First(w, "&", 1) = 0
        BY <1>3, <1>5, FirstNone DEF L
      <3> QED BY <1>3, <1>5, <2>1, <3>1, <3>2 DEF Ampersand, L
    <2>2. CASE ~last
      <3> DEFINE a == Cat(w, <<"&">>)
                 u == Cat(a, rest)
      <3>1. /\ a \in Texts /\ Len(a) = L + 1
            /\ \A i \in 1 .. L : a[i] = w[i]
            /\ a[L + 1] = "&"
        <4>1. /\ a \in Texts /\ Len(a) = Len(w) + Len(<<"&">>)
              /\ \A i \in 1 .. Len(w) : a[i] = w[i]
              /\ \A i \in 1 .. Len(<<"&">>) : a[Len(w) + i] = <<"&">>[i]
          BY <1>3, AmpersandIs, CatAt
        <4> HIDE DEF a
        <4>2. Len(a) = L + 1 /\ \A i \in 1 .. 1 : a[L + i] = <<"&">>[i]
          BY <4>1, AmpersandIs DEF L
        <4>3. a[L + 1] = <<"&">>[1]
          BY <4>2
        <4> QED BY <4>1, <4>2, <4>3, AmpersandIs DEF L
      <3> HIDE DEF a
      <3>2. /\ u \in Texts /\ Len(rest) \in Nat /\ Len(u) = (L + 1) + Len(rest)
            /\ \A i \in 1 .. L + 1 : u[i] = a[i]
        <4>1. /\ u \in Texts /\ Len(rest) \in Nat /\ Len(u) = Len(a) + Len(rest)
              /\ \A i \in 1 .. Len(a) : u[i] = a[i]
          BY <3>1, CatAt
        <4> HIDE DEF u
        <4> QED BY <3>1, <4>1
      <3>3. Drop(u, L + 1) = rest
        <4>1. Drop(u, Len(a)) = rest
          BY <3>1, CatParts
        <4> QED BY <3>1, <4>1
      <3> HIDE DEF u
      <3>4. \A i \in 1 .. L : u[i] = w[i]
        <4> TAKE i \in 1 .. L
        <4>1. i \in 1 .. L + 1
          BY <1>5
        <4> QED BY <3>1, <3>2, <4>1
      <3>5. u[L + 1] = "&" /\ L + 1 \in 1 .. Len(u) /\ L <= Len(u) /\ Len(u) \in Nat
        <4>1. L + 1 \in 1 .. L + 1 /\ L + 1 \in 1 .. Len(u) /\ L <= Len(u) /\ Len(u) \in Nat
          BY <1>5, <3>2
        <4> QED BY <3>1, <3>2, <4>1
      <3>6. First(u, "&", 1) = L + 1
        <4>1. \A i \in 1 .. (L + 1) - 1 : u[i] # "&"
          <5>1. (L + 1) - 1 = L
            BY <1>5
          <5> QED BY <1>5, <3>4, <5>1
        <4> DEFINE j == L + 1
        <4>2. j \in 1 .. Len(u) /\ u[j] = "&" /\ 1 \in Nat \ {0} /\ \A i \in 1 .. j - 1 : u[i] # "&"
          BY <3>5, <4>1
        <4> HIDE DEF j
        <4>3. First(u, "&", 1) = j
          BY <3>2, <4>2, FirstAt
        <4> QED BY <4>3 DEF j
      <3>7. pairs = u
        BY <1>4, <2>2 DEF u, a
      <3> QED BY <2>2, <3>2, <3>3, <3>4, <3>5, <3>6, <3>7 DEF Ampersand
    <2> QED BY <2>1, <2>2
  <1>7. Ampersand = 0 <=> last
    BY <1>5, <1>6
  <1>8. CASE value = None
    <2>1. last /\ pairs = key
      BY <1>3, <1>4, <1>8
    <2>2. First(key, "=", 1) = 0
      BY <1>1, FirstNone DEF k
    <2>3. Equals = 0
      BY <2>1, <2>2 DEF Equals
    <2>4. PairKey = Plainly(key)
      <3>1. PairKey = Decoded(key, 0)
        BY <1>7, <2>1, <2>3 DEF PairKey
      <3> QED BY <1>1, <3>1, DecodedWhole
    <2>5. \A map : PairInto(map) = Grown(map, Plainly(key), ValuesOf(p))
      BY <1>4, <1>8, <2>3, <2>4
    <2> QED BY <1>6, <1>7, <2>1, <2>5 DEF key
  <1>9. CASE value # None
    <2>1. /\ k \in Nat /\ n \in Nat /\ L = (k + 1) + n
          /\ \A i \in 1 .. k : w[i] = key[i]
          /\ w[k + 1] = "="
          /\ \A i \in 1 .. n : w[(k + 1) + i] = value[i]
      <3> DEFINE c == Cat(Cat(key, <<"=">>), value)
      <3>1. /\ c \in Texts /\ Len(key) \in Nat /\ Len(value) \in Nat /\ Len(c) = (Len(key) + 1) + Len(value)
            /\ \A i \in 1 .. Len(key) : c[i] = key[i]
            /\ c[Len(key) + 1] = "="
            /\ \A i \in 1 .. Len(value) : c[(Len(key) + 1) + i] = value[i]
        BY <1>1, <1>2, <1>9, PairAt
      <3>2. w = c
        BY <1>3, <1>9
      <3> HIDE DEF c
      <3> QED BY <3>1, <3>2 DEF k, n, L
    <2>2. /\ \A i \in 1 .. k : pairs[i] = key[i]
          /\ pairs[k + 1] = "="
          /\ \A i \in 1 .. n : pairs[(k + 1) + i] = value[i]
      <3>1. \A i \in 1 .. k : i \in 1 .. L
        BY <2>1
      <3>2. k + 1 \in 1 .. L
        BY <2>1
      <3>3. \A i \in 1 .. n : (k + 1) + i \in 1 .. L
        BY <2>1
      <3> QED BY <1>6, <2>1, <3>1, <3>2, <3>3
    <2>3. Equals = k + 1
      <3>1. k + 1 \in 1 .. Len(pairs)
        BY <1>6, <2>1
      <3>2. \A i \in 1 .. (k + 1) - 1 : pairs[i] # "="
        <4>1. (k + 1) - 1 = k
          BY <2>1
        <4> QED BY <1>1, <2>2, <4>1
      <3> QED BY <1>6, <2>2, <3>1, <3>2, FirstAt DEF Equals
    <2>4. PairKey = Plainly(key)
      <3>1. Equals # 0 /\ Equals - 1 = k /\ k \in 0 .. Len(pairs)
        BY <1>6, <2>1, <2>3
      <3>2. /\ SubSeq(pairs, 1, k) \in Texts /\ Len(SubSeq(pairs, 1, k)) = k
            /\ \A i \in 1 .. k : SubSeq(pairs, 1, k)[i] = pairs[i]
        BY <1>6, <3>1, SplitText
      <3>3. \A i \in 1 .. k : SubSeq(pairs, 1, k)[i] = key[i]
        BY <2>2, <3>2
      <3>4. SubSeq(pairs, 1, k) = key
        BY <1>1, <3>2, <3>3, SameTexts DEF k
      <3>5. PairKey = Decoded(key, 0)
        BY <3>1, <3>4 DEF PairKey
      <3> QED BY <1>1, <3>5, DecodedWhole
    <2>5. PairValue = Plainly(value)
      <3> DEFINE end == IF Ampersand > Equals THEN Ampersand - 1 ELSE Len(pairs)
                 a == k + 1
                 u == SubSeq(pairs, a + 1, L)
      <3>1. end = L
        <4>1. CASE last
          <5>1. Ampersand = 0 /\ ~(Ampersand > Equals) /\ Len(pairs) = L
            BY <1>6, <2>1, <2>3, <4>1
          <5> QED BY <5>1
        <4>2. CASE ~last
          <5>1. Ampersand = L + 1
            BY <1>6, <4>2
          <5>2. Ampersand > Equals /\ Ampersand - 1 = L
            BY <2>1, <2>3, <5>1
          <5> QED BY <5>2
        <4> QED BY <4>1, <4>2
      <3>2. a \in Nat /\ L \in Nat /\ a <= L /\ L <= Len(pairs) /\ L - a = n /\ Equals + 1 = a + 1
        BY <1>6, <2>1, <2>3
      <3> HIDE DEF end, a
      <3>3. u \in Texts /\ Len(u) = n /\ \A i \in 1 .. n : u[i] = pairs[a + i]
        <4>1. u \in Texts /\ Len(u) = L - a /\ \A i \in 1 .. L - a : u[i] = pairs[a + i]
          BY <1>6, <3>2, PartIs
        <4> HIDE DEF u
        <4> QED BY <3>2, <4>1
      <3>4. \A i \in 1 .. n : u[i] = value[i]
        BY <2>2, <3>3 DEF a
      <3> HIDE DEF u
      <3>5. u = value
        BY <1>2, <1>9, <3>3, <3>4, SameTexts DEF n
      <3>6. PairValue = Decoded(value, 0)
        BY <3>1, <3>2, <3>5 DEF PairValue, end, u
      <3> QED BY <1>2, <1>9, <3>6, DecodedWhole
    <2>6. Equals # 0
      BY <2>1, <2>3
    <2>7. \A map : PairInto(map) = Grown(map, Plainly(key), ValuesOf(p))
      BY <1>4, <1>9, <2>4, <2>5, <2>6
    <2> QED BY <1>6, <1>7, <2>7 DEF key
  <1> QED BY <1>8, <1>9
-----------------------------------------------------------------------------
(* What the first n pairs, or headers, mean.                                *)
PairEntry(p) == << Plainly(p[1]), ValuesOf(p) >>
MeantTo(ps, n) == Grouped([i \in 1 .. n |-> PairEntry(ps[i])])
HeaderEntry(h) == << h[1], << Trim(h[2]) >> >>
HeadersTo(hs, n) == Grouped([i \in 1 .. n |-> HeaderEntry(hs[i])])

LEMMA SingleIs == \A s \in Texts : <<s>> \in Seq(Texts)
  BY TuplesAre

LEMMA MeantNext ==
  ASSUME NEW ps, AreTexts(ps)
  PROVE  /\ Len(ps) \in Nat /\ MeantTo(ps, 0) = <<>> /\ MeantTo(ps, Len(ps)) = Meant(ps)
         /\ \A n \in 0 .. Len(ps) - 1 :
              MeantTo(ps, n + 1) = Grown(MeantTo(ps, n), Plainly(ps[n + 1][1]), ValuesOf(ps[n + 1]))
  <1> DEFINE N == Len(ps)
             e(n) == [i \in 1 .. n |-> PairEntry(ps[i])]
  <1>1. N \in Nat /\ DOMAIN ps = 1 .. N
    BY DEF AreTexts
  <1>2. MeantTo(ps, 0) = <<>>
    <2>1. DOMAIN e(0) = {}
      OBVIOUS
    <2>2. Grouped(e(0)) = <<>>
      <3> HIDE DEF e
      <3> QED BY <2>1, GroupedNone
    <2> QED BY <2>2 DEF MeantTo
  <1>3. MeantTo(ps, N) = Meant(ps)
    BY <1>1 DEF MeantTo, Meant, PairEntry, ValuesOf
  <1>4. ASSUME NEW n \in 0 .. N - 1
        PROVE  MeantTo(ps, n + 1) = Grown(MeantTo(ps, n), Plainly(ps[n + 1][1]), ValuesOf(ps[n + 1]))
    <2>1. n \in Nat /\ n + 1 \in 1 .. N /\ n + 1 \in 1 .. n + 1
      BY <1>1
    <2>2. ASSUME NEW i \in 1 .. n + 1 PROVE ValuesOf(ps[i]) \in Seq(Texts)
      <3>1. i \in DOMAIN ps
        BY <1>1, <2>1
      <3>2. ps[i][2] = None \/ ps[i][2] \in Texts
        BY <3>1, InLineIs DEF AreTexts
      <3>3. ps[i][2] # None => << Plainly(ps[i][2]) >> \in Seq(Texts)
        BY <3>2, PlainlyIs, SingleIs
      <3>4. <<>> \in Seq(Texts)
        OBVIOUS
      <3> QED BY <3>3, <3>4 DEF ValuesOf
    <2>3. /\ DOMAIN e(n) = 1 .. n /\ DOMAIN e(n + 1) = 1 .. n + 1
          /\ \A i \in 1 .. n : e(n + 1)[i] = e(n)[i]
      BY <2>1
    <2>4. \A i \in 1 .. n + 1 : e(n + 1)[i][1] = Plainly(ps[i][1]) /\ e(n + 1)[i][2] = ValuesOf(ps[i])
      BY DEF PairEntry
    <2> HIDE DEF e
    <2>5. \A i \in 1 .. n + 1 : e(n + 1)[i][2] \in Seq(Texts)
      BY <2>2, <2>4
    <2>6. Grouped(e(n + 1)) = Grown(Grouped(e(n)), e(n + 1)[n + 1][1], e(n + 1)[n + 1][2])
      BY <2>1, <2>3, <2>5, GroupedNext
    <2>7. Grouped(e(n + 1)) = Grown(Grouped(e(n)), Plainly(ps[n + 1][1]), ValuesOf(ps[n + 1]))
      BY <2>1, <2>4, <2>6
    <2> QED BY <2>7 DEF e, MeantTo
  <1> QED BY <1>1, <1>2, <1>3, <1>4

LEMMA HeadersNext ==
  ASSUME NEW hs, AreTexts(hs), \A i \in DOMAIN hs : hs[i][2] # None
  PROVE  /\ HeadersTo(hs, 0) = <<>>
         /\ \A n \in 0 .. Len(hs) - 1 :
              HeadersTo(hs, n + 1) = Put(HeadersTo(hs, n), hs[n + 1][1], Trim(hs[n + 1][2]))
  <1> DEFINE N == Len(hs)
             e(n) == [i \in 1 .. n |-> HeaderEntry(hs[i])]
  <1>1. N \in Nat /\ DOMAIN hs = 1 .. N
    BY DEF AreTexts
  <1>2. HeadersTo(hs, 0) = <<>>
    <2>1. DOMAIN e(0) = {}
      OBVIOUS
    <2>2. Grouped(e(0)) = <<>>
      <3> HIDE DEF e
      <3> QED BY <2>1, GroupedNone
    <2> QED BY <2>2 DEF HeadersTo
  <1>3. ASSUME NEW n \in 0 .. N - 1
        PROVE  HeadersTo(hs, n + 1) = Put(HeadersTo(hs, n), hs[n + 1][1], Trim(hs[n + 1][2]))
    <2>1. n \in Nat /\ n + 1 \in 1 .. N /\ n + 1 \in 1 .. n + 1
      BY <1>1
    <2>2. ASSUME NEW i \in 1 .. n + 1 PROVE << Trim(hs[i][2]) >> \in Seq(Texts)
      <3>1. i \in DOMAIN hs
        BY <1>1, <2>1
      <3>2. hs[i][2] \in Texts
        BY <3>1, InLineIs DEF AreTexts
      <3> QED BY <3>2, TrimInTexts, SingleIs
    <2>3. /\ DOMAIN e(n) = 1 .. n /\ DOMAIN e(n + 1) = 1 .. n + 1
          /\ \A i \in 1 .. n : e(n + 1)[i] = e(n)[i]
      BY <2>1
    <2>4. \A i \in 1 .. n + 1 : e(n + 1)[i][1] = hs[i][1] /\ e(n + 1)[i][2] = << Trim(hs[i][2]) >>
      BY DEF HeaderEntry
    <2> HIDE DEF e
    <2>5. \A i \in 1 .. n + 1 : e(n + 1)[i][2] \in Seq(Texts)
      BY <2>2, <2>4
    <2>6. Grouped(e(n + 1)) = Grown(Grouped(e(n)), e(n + 1)[n + 1][1], e(n + 1)[n + 1][2])
      BY <2>1, <2>3, <2>5, GroupedNext
    <2>7. Grouped(e(n + 1)) = Grown(Grouped(e(n)), hs[n + 1][1], << Trim(hs[n + 1][2]) >>)
      BY <2>1, <2>4, <2>6
    <2> QED BY <2>7 DEF e, HeadersTo, Put
  <1> QED BY <1>2, <1>3

(* One turn of the loop, with the n-th pair in front.                       *)
LEMMA PairOfTaken ==
  ASSUME NEW ps, AreTexts(ps), ArePairs(ps), Paired(ps), NEW n \in 0 .. Len(ps) - 1,
         pairs = PairsAfter(ps, n)
  PROVE  /\ PairInto(MeantTo(ps, n)) = MeantTo(ps, n + 1)
         /\ Ampersand = 0 => n + 1 = Len(ps)
         /\ Ampersand # 0 => n + 1 \in 0 .. Len(ps) - 1 /\ Drop(pairs, Ampersand) = PairsAfter(ps, n + 1)
  <1> DEFINE N == Len(ps)
             p == ps[n + 1]
             last == n + 1 = N
             rest == IF last THEN <<>> ELSE PairsAfter(ps, n + 1)
  <1>1. N \in Nat /\ DOMAIN ps = 1 .. N
    BY DEF AreTexts
  <1>2. n + 1 \in 1 .. N /\ ps # <<>>
    <2>1. n + 1 \in 1 .. N
      BY <1>1
    <2>2. ps = <<>> => N = 0
      OBVIOUS
    <2> HIDE DEF N
    <2>3. N # 0
      BY <1>1, <2>1
    <2> QED BY <2>1, <2>2, <2>3
  <1>3. PlainKey(p[1]) /\ (p[2] = None \/ PlainValue(p[2])) /\ (p[2] = None => last)
    BY <1>1, <1>2, PlainPairs DEF Paired
  <1>4. (last => n = N - 1) /\ (~last => n \in 0 .. N - 2 /\ n + 1 \in 0 .. N - 1)
    <2>1. n \in 0 .. N - 1
      OBVIOUS
    <2> HIDE DEF N
    <2> QED BY <1>1, <2>1
  <1>6. /\ \A m \in 0 .. N - 1 : PairsAfter(ps, m) \in Texts
        /\ \A m \in 0 .. N - 2 : PairsAfter(ps, m) = Cat(Cat(Pair(ps[m + 1]), <<"&">>), PairsAfter(ps, m + 1))
        /\ PairsAfter(ps, N - 1) = Pair(ps[N])
    BY <1>2, PairsAfterIs
  <1>7. rest \in Texts
    BY <1>4, <1>6, CatEmpty
  <1>8. pairs = IF last THEN Pair(p) ELSE Cat(Cat(Pair(p), <<"&">>), rest)
    <2>1. CASE last
      BY <1>4, <1>6, <2>1
    <2>2. CASE ~last
      BY <1>4, <1>6, <2>2
    <2> QED BY <2>1, <2>2
  <1>9. PairInto(MeantTo(ps, n)) = MeantTo(ps, n + 1) <=>
          PairInto(MeantTo(ps, n)) = Grown(MeantTo(ps, n), Plainly(p[1]), ValuesOf(p))
    BY MeantNext
  <1>10. last \in BOOLEAN /\ (~last => rest = PairsAfter(ps, n + 1))
    OBVIOUS
  <1> HIDE DEF p, rest, last
  <1>11. /\ Ampersand = 0 <=> last
         /\ ~last => Drop(pairs, Ampersand) = rest
         /\ \A map : PairInto(map) = Grown(map, Plainly(p[1]), ValuesOf(p))
    BY <1>3, <1>7, <1>8, <1>10, PairTaken
  <1> QED BY <1>4, <1>9, <1>10, <1>11 DEF last
-----------------------------------------------------------------------------
(* What is parsed of the head, at each stage: the text is what is behind    *)
(* the n-th header, and the map has the first n.                            *)
HeadAt(n) == IsCut(text, HeadAfter(asked, n)) /\ (HeadWhole => text = HeadAfter(asked, n))
HasHeaders(n) == n \in 0 .. Len(asked.headers) /\ request.HEADERS = HeadersTo(asked.headers, n)
PathRight ==
  asked.query = <<>> \/ (asked.path # <<>> /\ ~Contains(asked.path, "+")) =>
    request.path = Plainly(asked.path)
BehindHead == {"content", "exact", "file", "form", "done", "multipart"}

HeadParsed ==
  /\ stage = "line" =>
       IsCut(text, HeadText(asked)) /\ (HeadWhole => text = HeadText(asked))
  /\ stage \in {"head", "line", "query"} => request.HEADERS = <<>>
  /\ stage = "query" => HeadAt(0)
  /\ stage = "headers" /\ Blanked => \E n \in Nat : HasHeaders(n) /\ HeadAt(n)
  /\ stage \in BehindHead /\ Blanked =>
       \E n \in Nat : HasHeaders(n) /\ (HeadWhole => n = Len(asked.headers))
  /\ stage \in {"query", "headers"} \cup BehindHead => PathRight

(* The pairs behind the n-th, and the map of the first n.                   *)
PairsAt(ps, map) ==
  \E n \in 0 .. Len(ps) - 1 : pairs = PairsAfter(ps, n) /\ map = MeantTo(ps, n)
QueryParsed ==
  /\ stage \in {"head", "line"} => request.GET = <<>>
  /\ stage = "query" /\ Paired(asked.query) => PairsAt(asked.query, request.GET)
  /\ stage \in {"headers"} \cup BehindHead /\ Paired(asked.query) => request.GET = Meant(asked.query)

FormMeant ==
  /\ Urlencoded /\ Sized /\ HeadWhole /\ Paired(asked.form) /\ Length # 0
  /\ asked.content = <<>> /\ Length = Len(ContentText(asked))
  /\ Length <= Len(sent) - HeadSent
BeforeForm == BeforeContent \cup {"head", "exact", "file"}
FormParsed ==
  /\ stage \in BeforeForm => request.POST = <<>>
  /\ stage = "form" /\ FormMeant => PairsAt(asked.form, request.POST)
  /\ stage = "done" /\ FormMeant => request.POST = Meant(asked.form)

HeadInv == HeadParsed /\ QueryParsed /\ FormParsed

LEMMA InitHead == Init => HeadInv
  BY DEF Init, HeadInv, HeadParsed, QueryParsed, FormParsed, BehindHead, BeforeForm, BeforeContent

LEMMA SameAsked ==
  ASSUME UNCHANGED <<asked, sent>>
  PROVE  /\ HeadWhole' = HeadWhole /\ Blanked' = Blanked
         /\ UNCHANGED request => PathRight' = PathRight /\ \A n : HasHeaders(n)' = HasHeaders(n)
         /\ request'.HEADERS = request.HEADERS => \A n : HasHeaders(n)' = HasHeaders(n)
         /\ request'.path = request.path => PathRight' = PathRight
         /\ UNCHANGED text => \A n : HeadAt(n)' = HeadAt(n)
  BY DEF HeadWhole, HeadSent, Blanked, PathRight, HasHeaders, HeadAt

(* Once the head is parsed nothing of it changes any more.                  *)
LEMMA HeadStays ==
  ASSUME HeadParsed, QueryParsed, stage \in BehindHead, stage' \in BehindHead \cup {"failed"},
         request'.HEADERS = request.HEADERS, request'.path = request.path,
         request'.GET = request.GET, UNCHANGED <<asked, sent>>
  PROVE  HeadParsed' /\ QueryParsed'
  <1>1. /\ HeadWhole' = HeadWhole /\ Blanked' = Blanked /\ PathRight' = PathRight
        /\ \A n : HasHeaders(n)' = HasHeaders(n)
    BY SameAsked
  <1>2. stage' \notin {"head", "line", "query", "headers"}
    BY DEF BehindHead
  <1>3. HeadParsed'
    BY <1>1, <1>2 DEF HeadParsed
  <1>4. QueryParsed'
    BY <1>2 DEF QueryParsed
  <1> QED BY <1>3, <1>4

(* Nor does a step before the form put anything into its map.               *)
LEMMA FormStays ==
  ASSUME FormParsed, stage \in BeforeForm, stage' \notin {"form", "done"},
         request'.POST = request.POST
  PROVE  FormParsed'
  BY DEF FormParsed

LEMMA ThrowHead ==
  ASSUME stage' = "failed"
  PROVE  HeadInv'
  BY DEF HeadInv, HeadParsed, QueryParsed, FormParsed, BehindHead, BeforeForm, BeforeContent

LEMMA ReadHeadHead ==
  ASSUME Inv, HeadInv, ReadHead, garbled' = FALSE
  PROVE  HeadInv'
  <1>1. /\ stage = "head" /\ stage' = "line" /\ text' = SubSeq(wire, 1, HeadEnd)
        /\ UNCHANGED <<request, asked, sent>>
    <2>1. stage = "head" /\ stage' = "line" /\ UNCHANGED <<request, asked, sent>>
      BY DEF ReadHead, HeadFound, Overrun
    <2>2. HeadFound
      BY DEF ReadHead, Overrun
    <2>3. text' = SubSeq(wire, 1, HeadEnd)
      BY <2>2, Zenon DEF HeadFound, HeadEnd
    <2> QED BY <2>1, <2>3
  <1>2. asked \in Requests /\ (\E n \in 0 .. Len(Whole(asked)) : sent = SubSeq(Whole(asked), 1, n)) /\ wire = sent
    BY <1>1 DEF Inv, Stored, Early
  <1>3. /\ IsCut(text', HeadText(asked))
        /\ HeadWhole => text' = HeadText(asked)
    BY <1>1, <1>2, HeadIsCut
  <1>4. HeadWhole' = HeadWhole
    BY <1>1, SameAsked
  <1>5. HeadParsed'
    BY <1>1, <1>3, <1>4 DEF HeadInv, HeadParsed, BehindHead
  <1>6. QueryParsed'
    BY <1>1 DEF HeadInv, QueryParsed, BehindHead
  <1>7. FormParsed'
    BY <1>1, FormStays DEF HeadInv, BeforeForm
  <1> QED BY <1>5, <1>6, <1>7 DEF HeadInv

LEMMA RequestLineHead ==
  ASSUME Inv, HeadInv, RequestLine
  PROVE  HeadInv'
  <1> DEFINE target == Target(asked)
             rest == HeadAfter(asked, 0)
             gap2 == First(text, " ", 2 + 1)
             eol == First(text, "\r", gap2 + 1)
             part == SubSeq(text, 2 + 1, gap2 - 1)
             mark == First(part, "?", 1)
  <1>1. CASE stage' = "failed"
    BY <1>1, ThrowHead
  <1>2. CASE stage' # "failed"
    <2>1. /\ stage = "line" /\ gap2 # 0 /\ eol # 0 /\ ~(eol + 1 >= Len(text))
          /\ stage' = IF mark = 0 THEN "headers" ELSE "query"
          /\ pairs' = IF mark = 0 THEN <<>> ELSE Drop(part, mark)
          /\ text' = Drop(text, eol + 1)
          /\ request' = [request EXCEPT !.requestType = text[1],
                !.path = Decoded(part, IF mark = 0 THEN 0 ELSE mark - 1)]
          /\ UNCHANGED <<asked, sent>>
      BY <1>2 DEF RequestLine, Throw, history
    <2>2. /\ asked \in Requests /\ IsCut(text, HeadText(asked)) /\ (HeadWhole => text = HeadText(asked))
          /\ request.HEADERS = <<>> /\ request.GET = <<>> /\ request.POST = <<>>
          /\ request = [requestType |-> request.requestType, path |-> request.path, GET |-> request.GET,
                        HEADERS |-> request.HEADERS, POST |-> request.POST, isFile |-> request.isFile]
      BY <2>1 DEF Inv, Stored, HeadInv, HeadParsed, QueryParsed, FormParsed, BeforeForm, BeforeContent
    <2> DEFINE line == LineOf(asked.requestType, " ", target, "HTTP/1.1")
    <2>3. /\ asked.requestType \in Words /\ " " \in Words /\ "HTTP/1.1" \in Words \ {"\r"}
          /\ target \in Texts /\ rest \in Texts /\ \A i \in 1 .. Len(target) : target[i] # " "
      <3>1. asked.requestType \in Words
        BY <2>2, RequestConstants
      <3>2. " " \in Words /\ "HTTP/1.1" \in Words \ {"\r"}
        BY ParserConstants
      <3>3. target \in Texts /\ \A i \in 1 .. Len(target) : target[i] # " "
        BY <2>2, TargetIs
      <3>4. rest \in Texts
        <4>1. Len(asked.headers) \in Nat /\ \A n \in 0 .. Len(asked.headers) : HeadAfter(asked, n) \in Texts
          BY <2>2, HeadAfterIs
        <4> QED BY <4>1
      <3> QED BY <3>1, <3>2, <3>3, <3>4, Zenon
    <2>4. HeadText(asked) = Cat(line, rest)
      BY <2>2, TargetIs, HeadAfterIs
    <2>5. /\ part = target /\ IsCut(text', rest)
          /\ HeadWhole => text' = rest
      <3>1. text \in Texts /\ Len(text) \in Nat
        <4>1. HeadText(asked) \in Texts
          BY <2>2, WholeIs
        <4> QED BY <2>2, <4>1, CutIs
      <3>2. gap2 = First(text, " ", 3)
        OBVIOUS
      <3>3. gap2 \in Nat
        <4>1. 2 + 1 \in Nat \ {0}
          OBVIOUS
        <4> QED BY <3>1, <4>1, FirstNat, Zenon
      <3> HIDE DEF gap2
      <3>4. eol \in Nat
        <4>1. gap2 + 1 \in Nat \ {0}
          BY <3>3
        <4> QED BY <3>1, <4>1, FirstNat, Zenon
      <3>5. eol + 1 < Len(text)
        <4> HIDE DEF eol
        <4> QED BY <2>1, <3>1, <3>4
      <3>6. eol = First(text, "\r", gap2 + 1)
        OBVIOUS
      <3>7. part = SubSeq(text, 3, gap2 - 1)
        OBVIOUS
      <3>8. IsCut(text, Cat(line, rest))
        BY <2>2, <2>4
      <3> HIDE DEF target, rest, line, eol, part
      <3>9. /\ SubSeq(text, 3, gap2 - 1) = target
            /\ IsCut(Drop(text, eol + 1), rest)
            /\ text = Cat(line, rest) => Drop(text, eol + 1) = rest
        <4>1. LineSplits(text, asked.requestType, " ", target, "HTTP/1.1", rest)
          BY <2>3, <3>8, LineSplit, Zenon DEF line
        <4> QED BY <2>1, <3>2, <3>5, <3>6, <4>1, Zenon DEF LineSplits, line
      <3> QED BY <2>1, <2>2, <2>4, <3>7, <3>9
    <2>6. /\ request'.HEADERS = <<>> /\ request'.GET = <<>> /\ request'.POST = <<>>
          /\ request'.path = Decoded(part, IF mark = 0 THEN 0 ELSE mark - 1)
      <3>1. \A a, b : LET new == [request EXCEPT !.requestType = a, !.path = b]
                     IN  /\ new.HEADERS = request.HEADERS /\ new.GET = request.GET
                         /\ new.POST = request.POST /\ new.path = b
        BY <2>2
      <3> QED BY <2>1, <2>2, <3>1, Zenon
    <2>7. HeadWhole' = HeadWhole /\ stage' \in {"headers", "query"} /\ stage' \notin BehindHead \cup {"head", "line"}
      BY <2>1, SameAsked DEF BehindHead
    <2> HIDE DEF target, rest, gap2, eol, part, mark
    <2>8. HeadAt(0)'
      BY <2>1, <2>5, <2>7 DEF HeadAt, rest
    <2>9. PathRight' /\ (asked.query = <<>> => stage' = "headers")
          /\ (asked.query # <<>> => stage' = "query" /\ pairs' = PairsText(asked.query))
      <3>1. /\ asked.query = <<>> => mark = 0
            /\ asked.query # <<>> => mark = Len(asked.path) + 1 /\ Drop(target, mark) = PairsText(asked.query)
        BY <2>2, <2>5, TargetIs DEF mark, target
      <3>2. Len(asked.path) \in Nat
        BY <2>2, TargetIs, LenIs
      <3>3. CASE asked.query = <<>>
        <4>1. request'.path = Decoded(target, 0) /\ stage' = "headers"
          BY <2>1, <2>5, <2>6, <3>1, <3>3
        <4>2. request'.path = Plainly(asked.path)
          BY <2>2, <3>3, <4>1, PathTaken DEF target
        <4>3. PathRight'
          BY <2>1, <4>2 DEF PathRight
        <4> QED BY <3>3, <4>1, <4>3
      <3>4. CASE asked.query # <<>>
        <4>1. mark # 0 /\ mark - 1 = Len(asked.path)
          BY <3>1, <3>2, <3>4
        <4>2. /\ request'.path = Decoded(target, Len(asked.path)) /\ stage' = "query"
              /\ pairs' = PairsText(asked.query)
          BY <2>1, <2>5, <2>6, <3>1, <3>4, <4>1
        <4>3. asked.path # <<>> /\ ~Contains(asked.path, "+") => request'.path = Plainly(asked.path)
          BY <2>2, <3>4, <4>2, PathTaken DEF target
        <4>4. PathRight'
          BY <2>1, <3>4, <4>3 DEF PathRight
        <4> QED BY <3>4, <4>2, <4>4
      <3> QED BY <3>3, <3>4
    <2>10. HasHeaders(0)'
      <3>1. HeadersTo(asked.headers, 0) = <<>>
        BY <2>2, RequestConstants, HeadersNext
      <3>2. 0 \in 0 .. Len(asked.headers)
        BY <2>2, HeadAfterIs
      <3> QED BY <2>1, <2>6, <3>1, <3>2 DEF HasHeaders
    <2>11. HeadParsed'
      <3>1. 0 \in Nat
        OBVIOUS
      <3> QED BY <2>6, <2>7, <2>8, <2>9, <2>10, <3>1 DEF HeadParsed
    <2>12. AreTexts(asked.query)
      BY <2>2, RequestConstants
    <2>13. asked.query # <<>> => PairsAt(asked.query, request.GET)'
      <3> SUFFICES ASSUME asked.query # <<>> PROVE PairsAt(asked.query, request.GET)'
        OBVIOUS
      <3>1. pairs' = PairsAfter(asked.query, 0) /\ 0 \in 0 .. Len(asked.query) - 1
        <4>1. Len(asked.query) \in Nat \ {0} /\ PairsText(asked.query) = PairsAfter(asked.query, 0)
          BY <2>12, PairsAfterIs
        <4> QED BY <2>9, <4>1
      <3>2. request'.GET = MeantTo(asked.query, 0)
        BY <2>6, <2>12, MeantNext
      <3> QED BY <2>1, <3>1, <3>2 DEF PairsAt
    <2>14. asked.query = <<>> => request'.GET = Meant(asked.query)
      <3> SUFFICES ASSUME asked.query = <<>> PROVE request'.GET = Meant(asked.query)
        OBVIOUS
      <3>1. Len(asked.query) = 0
        OBVIOUS
      <3> QED BY <2>6, <2>12, <3>1, MeantNext
    <2>15. QueryParsed'
      BY <2>1, <2>7, <2>9, <2>13, <2>14 DEF QueryParsed
    <2>16. FormParsed'
      BY <2>1, <2>2, <2>6, <2>7, FormStays DEF HeadInv, BeforeForm, BeforeContent
    <2> QED BY <2>11, <2>15, <2>16 DEF HeadInv
  <1> QED BY <1>1, <1>2

LEMMA PrefixOne ==
  ASSUME NEW s \in Texts, NEW word, IsPrefix(<<word>>, s)
  PROVE  s # <<>> /\ s[1] = word
  <1> DEFINE a == <<word>>
             b == SubSeq(s, 1, 1)
  <1>1. Len(a) = 1 /\ a[1] = word
    OBVIOUS
  <1>2. Len(a) <= Len(s) /\ SubSeq(a, 1, Len(a)) = SubSeq(s, 1, Len(a))
    BY DEF IsPrefix
  <1>3. Len(s) \in Nat
    BY LenIs
  <1>4. 1 \in 0 .. Len(s) /\ s # <<>>
    <2> HIDE DEF a
    <2>1. 1 \in 0 .. Len(s)
      BY <1>1, <1>2, <1>3
    <2> QED BY <2>1, LenIs
  <1>5. \A i \in 1 .. 1 : b[i] = s[i]
    BY <1>4, SplitText
  <1>6. b[1] = s[1]
    <2> HIDE DEF b
    <2> QED BY <1>5
  <1>7. SubSeq(a, 1, 1) = a
    <2>1. a \in Seq({word})
      OBVIOUS
    <2> HIDE DEF a
    <2> QED BY <1>1, <2>1, SubSeqFull
  <1> HIDE DEF a
  <1>8. b = a
    BY <1>1, <1>2, <1>7
  <1> HIDE DEF b
  <1> QED BY <1>1, <1>4, <1>6, <1>8

LEMMA NoHeaderLeft ==
  ASSUME NEW t, IsCut(t, Eol)
  PROVE  First(t, ":", 1) = 0
  <1>1. t \in Texts /\ Len(t) \in Nat /\ Len(t) <= 2 /\ \A i \in 1 .. Len(t) : t[i] = Eol[i]
    BY EolIs, CutIs
  <1>2. \A i \in 1 .. Len(t) : t[i] # ":"
    <2> TAKE i \in 1 .. Len(t)
    <2>1. i = 1 \/ i = 2
      BY <1>1
    <2> QED BY <1>1, <2>1, EolIs, ColonIs
  <1> QED BY <1>1, <1>2, FirstNone

(* The n-th header is in front.                                             *)
LEMMA HeaderInFront ==
  ASSUME asked \in Requests, Blanked, NEW n \in 0 .. Len(asked.headers) - 1, HeadAt(n)
  PROVE  LET h == asked.headers[n + 1]
             colon == First(text, ":", 1)
             eol == First(text, "\r", colon)
         IN  /\ HeadWhole => colon # 0 /\ eol # 0
             /\ colon # 0 /\ eol # 0 =>
                  /\ SubSeq(text, 1, colon - 1) = h[1]
                  /\ HeaderValue(colon, eol) = Trim(h[2])
                  /\ IsCut(Drop(text, eol + 1), HeadAfter(asked, n + 1))
                  /\ HeadWhole => Drop(text, eol + 1) = HeadAfter(asked, n + 1)
  <1> DEFINE h == asked.headers[n + 1]
             key == h[1]
             value == h[2]
             rest == HeadAfter(asked, n + 1)
             colon == First(text, ":", 1)
             eol == First(text, "\r", colon)
             whole == Cat(Cat(Field(h), Eol), rest)
  <1>1. /\ Len(asked.headers) \in Nat /\ DOMAIN asked.headers = 1 .. Len(asked.headers)
        /\ \A i \in 0 .. Len(asked.headers) : HeadAfter(asked, i) \in Texts
        /\ HeadAfter(asked, n) = whole
    BY HeadAfterIs
  <1>2. n + 1 \in DOMAIN asked.headers /\ n + 1 \in 0 .. Len(asked.headers) /\ rest \in Texts
    <2>1. n + 1 \in 1 .. Len(asked.headers) /\ n + 1 \in 0 .. Len(asked.headers)
      BY <1>1
    <2> QED BY <1>1, <2>1
  <1>3. value \in InLine /\ key \in Without({":"}) /\ IsPrefix(<<" ">>, value)
    <2>1. value \in InLine
      BY <1>2, RequestConstants DEF AreTexts
    <2>2. key \in Without({":"})
      BY <1>2, RequestSyntax
    <2>3. IsPrefix(<<" ">>, value)
      BY <1>2, Zenon DEF Blanked
    <2> QED BY <2>1, <2>2, <2>3, Zenon
  <1> HIDE DEF h, key, value, rest
  <1>4. key \in Texts /\ ~Contains(key, ":")
    <2>1. key \in Texts /\ \A i \in 1 .. Len(key) : key[i] \notin {":"}
      BY <1>3, NoneOf, Zenon
    <2> QED BY <2>1 DEF Contains
  <1>5. value \in Texts /\ value # <<>> /\ value[1] \in White
    <2>1. value \in Texts
      BY <1>3, InLineIs
    <2>2. \A b : IsPrefix(<<b>>, value) => value # <<>> /\ value[1] = b
      BY <2>1, PrefixOne, Zenon
    <2>3. \A b \in White : IsPrefix(<<b>>, value) => value # <<>> /\ value[1] \in White
      BY <2>2
    <2>4. " " \in White
      BY Zenon DEF White
    <2> QED BY <1>3, <2>1, <2>3, <2>4, Zenon
  <1>6. IsCut(text, whole) /\ (HeadWhole => text = whole)
    BY <1>1 DEF HeadAt
  <1>7. /\ text = whole => colon # 0 /\ eol # 0
        /\ colon # 0 /\ eol # 0 =>
             /\ SubSeq(text, 1, colon - 1) = key
             /\ eol > colon + 1 /\ SubSeq(text, colon + 2, eol - 1) = Drop(value, 1)
             /\ IsCut(Drop(text, eol + 1), rest)
             /\ text = whole => Drop(text, eol + 1) = rest
    <2>1. h[1] = key /\ h[2] = value
      BY DEF key, value
    <2>2. key \in Texts /\ ~Contains(key, ":") /\ value \in InLine /\ value # <<>> /\ rest \in Texts
      BY <1>2, <1>3, <1>4, <1>5, Zenon
    <2>3. IsCut(text, Cat(Cat(Field(h), Eol), rest))
      BY <1>6
    <2>4. HeaderSplits(text, h, rest)
      BY <2>1, <2>2, <2>3, HeaderTaken, Zenon
    <2> QED BY <2>1, <2>4, Zenon DEF HeaderSplits
  <1>8. ASSUME eol > colon + 1, SubSeq(text, colon + 2, eol - 1) = Drop(value, 1)
        PROVE  HeaderValue(colon, eol) = Trim(value)
    <2>1. HeaderValue(colon, eol) = Trim(SubSeq(text, colon + 2, eol - 1))
      BY <1>8, Zenon DEF HeaderValue
    <2>2. Trim(Drop(value, 1)) = Trim(value)
      BY <1>5, TrimRest
    <2> QED BY <1>8, <2>1, <2>2
  <1> HIDE DEF colon, eol, whole
  <1> QED BY <1>6, <1>7, <1>8, Zenon DEF h, key, value, rest, colon, eol, whole

LEMMA TakeHeaderHead ==
  ASSUME Inv, HeadInv, TakeHeader
  PROVE  HeadInv'
  <1> DEFINE hs == asked.headers
             N == Len(asked.headers)
             colon == First(text, ":", 1)
             eol == First(text, "\r", colon)
  <1>1. /\ asked \in Requests /\ PathRight /\ stage = "headers" /\ UNCHANGED <<asked, sent>>
        /\ Paired(asked.query) => request.GET = Meant(asked.query)
        /\ request.POST = <<>>
        /\ request = [requestType |-> request.requestType, path |-> request.path, GET |-> request.GET,
                      HEADERS |-> request.HEADERS, POST |-> request.POST, isFile |-> request.isFile]
    BY DEF TakeHeader, history, Inv, Stored, HeadInv, HeadParsed, QueryParsed, FormParsed, BeforeForm, BeforeContent
  <1>2. /\ N \in Nat /\ DOMAIN hs = 1 .. N
        /\ \A n \in 0 .. N : HeadAfter(asked, n) \in Texts
        /\ \A n \in 0 .. N - 1 : HeadAfter(asked, n) = Cat(Cat(Field(hs[n + 1]), Eol), HeadAfter(asked, n + 1))
        /\ HeadAfter(asked, N) = Eol
    BY <1>1, HeadAfterIs
  <1>3. AreTexts(hs) /\ \A i \in DOMAIN hs : hs[i][2] # None
    BY <1>1, RequestConstants
  <1>4. CASE stage' = "failed"
    BY <1>4, ThrowHead
  <1>5. CASE colon = 0
    <2>1. stage' = "content" /\ UNCHANGED <<text, request>>
      BY <1>5 DEF TakeHeader
    <2>2. /\ HeadWhole' = HeadWhole /\ Blanked' = Blanked /\ PathRight' = PathRight
          /\ \A n : HasHeaders(n)' = HasHeaders(n)
      BY <1>1, <2>1, SameAsked
    <2>3. ASSUME Blanked PROVE \E n \in Nat : HasHeaders(n) /\ (HeadWhole => n = N)
      <3>1. PICK n \in Nat : HasHeaders(n) /\ HeadAt(n)
        BY <1>1, <2>3 DEF HeadInv, HeadParsed
      <3>2. ASSUME HeadWhole, n # N PROVE FALSE
        <4>1. n \in 0 .. N - 1
          BY <1>2, <3>1, <3>2 DEF HasHeaders
        <4> QED BY <1>1, <1>5, <2>3, <3>1, <3>2, <4>1, HeaderInFront
      <3> QED BY <3>1, <3>2
    <2>4. HeadParsed'
      BY <1>1, <2>1, <2>2, <2>3 DEF HeadParsed, BehindHead
    <2>5. QueryParsed'
      BY <1>1, <2>1 DEF QueryParsed
    <2>6. FormParsed'
      BY <1>1, <2>1 DEF FormParsed
    <2> QED BY <2>4, <2>5, <2>6 DEF HeadInv
  <1>6. CASE colon # 0 /\ eol # 0
    <2>1. /\ request' = [request EXCEPT !.HEADERS =
                 Put(@, SubSeq(text, 1, colon - 1), HeaderValue(colon, eol))]
          /\ text' = Drop(text, eol + 1) /\ stage' = "headers"
      BY <1>1, <1>6 DEF TakeHeader, AfterLine
    <2>2. /\ request'.path = request.path /\ request'.GET = request.GET /\ request'.POST = request.POST
          /\ request'.HEADERS = Put(request.HEADERS, SubSeq(text, 1, colon - 1), HeaderValue(colon, eol))
      <3>1. \A map : LET new == [request EXCEPT !.HEADERS = map]
                    IN  /\ new.path = request.path /\ new.GET = request.GET
                        /\ new.POST = request.POST /\ new.HEADERS = map
        BY <1>1
      <3> QED BY <2>1, <3>1, Zenon
    <2>3. HeadWhole' = HeadWhole /\ Blanked' = Blanked /\ PathRight' = PathRight
      BY <1>1, <2>2, SameAsked
    <2>4. ASSUME Blanked PROVE \E n \in Nat : HasHeaders(n)' /\ HeadAt(n)'
      <3>1. PICK n \in Nat : HasHeaders(n) /\ HeadAt(n)
        BY <1>1, <2>4 DEF HeadInv, HeadParsed
      <3>2. n # N
        <4> SUFFICES ASSUME n = N PROVE FALSE
          OBVIOUS
        <4>1. IsCut(text, Eol)
          BY <1>2, <3>1 DEF HeadAt
        <4> QED BY <1>6, <4>1, NoHeaderLeft
      <3>3. n \in 0 .. N - 1 /\ n + 1 \in 0 .. N /\ n + 1 \in Nat
        BY <1>2, <3>1, <3>2 DEF HasHeaders
      <3> DEFINE h == hs[n + 1]
      <3>4. /\ SubSeq(text, 1, colon - 1) = h[1]
            /\ HeaderValue(colon, eol) = Trim(h[2])
            /\ IsCut(Drop(text, eol + 1), HeadAfter(asked, n + 1))
            /\ HeadWhole => Drop(text, eol + 1) = HeadAfter(asked, n + 1)
        BY <1>1, <1>6, <2>4, <3>1, <3>3, HeaderInFront
      <3>5. HeadAt(n + 1)'
        BY <1>1, <2>1, <2>3, <3>4 DEF HeadAt
      <3>6. HeadersTo(hs, n + 1) = Put(HeadersTo(hs, n), h[1], Trim(h[2]))
        BY <1>3, <3>3, HeadersNext
      <3>7. request'.HEADERS = HeadersTo(hs, n + 1)
        BY <2>2, <3>1, <3>4, <3>6 DEF HasHeaders
      <3>8. HasHeaders(n + 1)'
        BY <1>1, <3>3, <3>7 DEF HasHeaders
      <3> QED BY <3>3, <3>5, <3>8
    <2>5. HeadParsed'
      BY <1>1, <2>1, <2>3, <2>4 DEF HeadParsed, BehindHead
    <2>6. QueryParsed'
      BY <1>1, <2>1, <2>2 DEF QueryParsed, BehindHead
    <2>7. FormParsed'
      BY <1>1, <2>1, <2>2 DEF FormParsed
    <2> QED BY <2>5, <2>6, <2>7 DEF HeadInv
  <1>7. colon # 0 /\ eol = 0 => stage' = "failed"
    BY DEF TakeHeader
  <1> QED BY <1>4, <1>5, <1>6, <1>7

LEMMA SameForm ==
  ASSUME UNCHANGED <<asked, sent>>, request'.HEADERS = request.HEADERS
  PROVE  FormMeant' = FormMeant
  <1>1. Urlencoded' = Urlencoded /\ Sized' = Sized /\ Length' = Length
    BY SameHeaders
  <1>2. HeadWhole' = HeadWhole /\ HeadSent' = HeadSent
    BY SameAsked DEF HeadSent
  <1> QED BY <1>1, <1>2 DEF FormMeant

LEMMA TakePairHead ==
  ASSUME Inv, HeadInv, TakePair
  PROVE  HeadInv'
  <1>1. /\ asked \in Requests /\ UNCHANGED <<text, asked, sent>>
        /\ request = [requestType |-> request.requestType, path |-> request.path, GET |-> request.GET,
                      HEADERS |-> request.HEADERS, POST |-> request.POST, isFile |-> request.isFile]
    BY DEF TakePair, history, Inv, Stored
  <1>2. /\ AreTexts(asked.query) /\ ArePairs(asked.query)
        /\ AreTexts(asked.form) /\ ArePairs(asked.form)
    BY <1>1, RequestConstants, RequestSyntax
  <1>3. CASE stage = "query"
    <2>1. /\ request' = [request EXCEPT !.GET = PairInto(request.GET)]
          /\ stage' = IF Ampersand # 0 THEN "query" ELSE "headers"
          /\ Ampersand # 0 => pairs' = Drop(pairs, Ampersand)
      BY <1>3 DEF TakePair
    <2>2. /\ request'.path = request.path /\ request'.POST = request.POST
          /\ request'.HEADERS = request.HEADERS /\ request'.GET = PairInto(request.GET)
      BY <1>1, <2>1
    <2>3. HeadParsed'
      <3>1. /\ request.HEADERS = <<>> /\ HeadAt(0) /\ PathRight
        BY <1>3 DEF HeadInv, HeadParsed
      <3>2. request'.HEADERS = <<>> /\ HeadAt(0)' /\ PathRight'
        BY <1>1, <2>2, <3>1, SameAsked
      <3>3. HasHeaders(0)'
        <4>1. HeadersTo(asked.headers, 0) = <<>>
          BY <1>1, RequestConstants, HeadersNext
        <4>2. 0 \in 0 .. Len(asked.headers)
          BY <1>1, HeadAfterIs
        <4> QED BY <1>1, <3>2, <4>1, <4>2 DEF HasHeaders
      <3>4. 0 \in Nat /\ stage' \in {"query", "headers"} /\ stage' \notin BehindHead \cup {"line"}
        BY <2>1 DEF BehindHead
      <3> QED BY <3>2, <3>3, <3>4 DEF HeadParsed
    <2>4. ASSUME Paired(asked.query)
          PROVE  /\ stage' = "query" => PairsAt(asked.query, request.GET)'
                 /\ stage' = "headers" => request'.GET = Meant(asked.query)
      <3> DEFINE ps == asked.query
      <3>1. PICK n \in 0 .. Len(ps) - 1 : pairs = PairsAfter(ps, n) /\ request.GET = MeantTo(ps, n)
        BY <1>3, <2>4 DEF HeadInv, QueryParsed, PairsAt
      <3>2. /\ request'.GET = MeantTo(ps, n + 1)
            /\ Ampersand = 0 => n + 1 = Len(ps)
            /\ Ampersand # 0 => n + 1 \in 0 .. Len(ps) - 1 /\ Drop(pairs, Ampersand) = PairsAfter(ps, n + 1)
        BY <1>2, <2>2, <2>4, <3>1, PairOfTaken
      <3>3. CASE Ampersand = 0
        <4>1. MeantTo(ps, Len(ps)) = Meant(ps)
          BY <1>2, MeantNext
        <4> QED BY <2>1, <3>2, <3>3, <4>1
      <3>4. CASE Ampersand # 0
        <4>1. PairsAt(ps, request.GET)'
          BY <1>1, <2>1, <3>2, <3>4 DEF PairsAt
        <4> QED BY <2>1, <3>4, <4>1
      <3> QED BY <3>3, <3>4
    <2>5. QueryParsed'
      BY <1>1, <2>1, <2>4 DEF QueryParsed, BehindHead
    <2>6. FormParsed'
      BY <1>3, <2>1, <2>2, FormStays DEF HeadInv, BeforeForm, BeforeContent
    <2> QED BY <2>3, <2>5, <2>6 DEF HeadInv
  <1>4. CASE stage = "form"
    <2>1. /\ request' = [request EXCEPT !.POST = PairInto(request.POST)]
          /\ stage' = IF Ampersand # 0 THEN "form" ELSE "done"
          /\ Ampersand # 0 => pairs' = Drop(pairs, Ampersand)
      BY <1>4 DEF TakePair
    <2>2. /\ request'.path = request.path /\ request'.GET = request.GET
          /\ request'.HEADERS = request.HEADERS /\ request'.POST = PairInto(request.POST)
      BY <1>1, <2>1
    <2>3. HeadParsed' /\ QueryParsed'
      <3>1. stage \in BehindHead /\ stage' \in BehindHead
        BY <1>4, <2>1 DEF BehindHead
      <3> QED BY <1>1, <2>2, <3>1, HeadStays DEF HeadInv
    <2>4. FormMeant' = FormMeant
      BY <1>1, <2>2, SameForm
    <2>5. ASSUME FormMeant
          PROVE  /\ stage' = "form" => PairsAt(asked.form, request.POST)'
                 /\ stage' = "done" => request'.POST = Meant(asked.form)
      <3> DEFINE ps == asked.form
      <3>1. Paired(ps)
        BY <2>5 DEF FormMeant
      <3>2. PICK n \in 0 .. Len(ps) - 1 : pairs = PairsAfter(ps, n) /\ request.POST = MeantTo(ps, n)
        BY <1>4, <2>5 DEF HeadInv, FormParsed, PairsAt
      <3>3. /\ request'.POST = MeantTo(ps, n + 1)
            /\ Ampersand = 0 => n + 1 = Len(ps)
            /\ Ampersand # 0 => n + 1 \in 0 .. Len(ps) - 1 /\ Drop(pairs, Ampersand) = PairsAfter(ps, n + 1)
        BY <1>2, <2>2, <3>1, <3>2, PairOfTaken
      <3>4. CASE Ampersand = 0
        <4>1. MeantTo(ps, Len(ps)) = Meant(ps)
          BY <1>2, MeantNext
        <4> QED BY <2>1, <3>3, <3>4, <4>1
      <3>5. CASE Ampersand # 0
        <4>1. PairsAt(ps, request.POST)'
          BY <1>1, <2>1, <3>3, <3>5 DEF PairsAt
        <4> QED BY <2>1, <3>5, <4>1
      <3> QED BY <3>4, <3>5
    <2>6. FormParsed'
      BY <1>1, <2>1, <2>4, <2>5 DEF FormParsed, BeforeForm, BeforeContent
    <2> QED BY <2>3, <2>6 DEF HeadInv
  <1> QED BY <1>3, <1>4 DEF TakePair

LEMMA OtherWord ==
  ASSUME NEW a, NEW b, a # b
  PROVE  First(<<a>>, b, 1) = 0
  <1> DEFINE s == <<a>>
  <1>1. Len(s) = 1 /\ s[1] = a
    OBVIOUS
  <1> HIDE DEF s
  <1>2. \A i \in 1 .. Len(s) : s[i] # b
    BY <1>1
  <1>3. First(s, b, 1) = 0
    BY <1>2 DEF First, SelectInSubSeq
  <1> QED BY <1>3 DEF s

(* A form has a content.                                                    *)
LEMMA FormHasContent ==
  ASSUME FormMeant
  PROVE  Typed /\ Sized /\ Length # 0 /\ ~Multipart
  <1>1. Typed
    BY DEF FormMeant, Urlencoded, Type
  <1>2. First(<<"application/x-www-form-urlencoded">>, "multipart/form-data;", 1) = 0
    <2>1. "application/x-www-form-urlencoded" # "multipart/form-data;"
      OBVIOUS
    <2> QED BY <2>1, OtherWord, Zenon
  <1>3. ~Multipart
    BY <1>2, Zenon DEF FormMeant, Urlencoded, Multipart
  <1> QED BY <1>1, <1>3 DEF FormMeant

LEMMA NoContentHead ==
  ASSUME Inv, HeadInv, NoContent
  PROVE  HeadInv'
  <1>1. /\ stage = "content" /\ stage' = "done"
        /\ UNCHANGED <<request, asked, sent>>
        /\ ~Typed \/ (~Multipart /\ (~Sized \/ Length = 0))
    BY DEF NoContent, history
  <1>2. HeadParsed' /\ QueryParsed'
    <2>1. stage \in BehindHead /\ stage' \in BehindHead
      BY <1>1 DEF BehindHead
    <2> QED BY <1>1, <2>1, HeadStays DEF HeadInv
  <1>3. ~FormMeant'
    BY <1>1, SameForm, FormHasContent
  <1>4. FormParsed'
    BY <1>1, <1>3 DEF FormParsed, BeforeForm, BeforeContent
  <1> QED BY <1>2, <1>4 DEF HeadInv

LEMMA NoPairs == PairsText(<<>>) = <<>>
  <1> DEFINE f == Parts(<<>>)
  <1>1. f \in [1 .. 0 -> {}]
    BY DEF Parts
  <1>2. PairsText(<<>>) = FlattenSeq(f)
    BY DEF PairsText, Parts
  <1> HIDE DEF f
  <1>3. f \in Seq({}) /\ Len(f) = 0
    BY <1>1
  <1>4. f = <<>>
    BY <1>3
  <1> QED BY <1>2, <1>3, <1>4, FlattenIs

(* A form that is announced as long as it is, is read as it is.             *)
LEMMA FormRead ==
  ASSUME Inv, FormMeant, stage \in {"exact", "file"},
         pending <= 0 \/ (unread = <<>> /\ wire = <<>>)
  PROVE  content = PairsText(asked.form) /\ asked.form # <<>>
  <1> DEFINE c == ContentText(asked)
             h == HeadText(asked)
  <1>1. /\ asked \in Requests /\ sent \in Texts /\ pending \in Nat
        /\ \E n \in 0 .. Len(Whole(asked)) : sent = SubSeq(Whole(asked), 1, n)
    BY DEF Inv, Stored, TypeOK
  <1>2. Urlencoded /\ HeadWhole /\ Length # 0 /\ asked.content = <<>> /\ Length = Len(c)
    BY DEF FormMeant
  <1>3. h \in Texts /\ c \in Texts /\ Whole(asked) = Cat(h, c) /\ Len(c) \in Nat
    BY <1>1, WholeIs, ContentTextIs, LenIs
  <1>4. stage # "file" /\ Length - pending = Length
    <2>1. Length \in Nat /\ pending <= Length /\ (stage = "file" <=> Large) /\ Took(Length - pending)
      BY <1>2 DEF Inv, Reading
    <2>2. pending = 0
      <3>1. CASE pending <= 0
        BY <1>1, <3>1
      <3>2. CASE unread = <<>> /\ wire = <<>>
        <4> DEFINE n == Length - pending
        <4>1. n \in Nat /\ n <= Len(Behind) /\ Ahead = Drop(Behind, n)
          BY <2>1 DEF Took
        <4>2. Len(Ahead) = 0
          BY <3>2 DEF Ahead, Cat
        <4>3. Len(Behind) = Len(sent) - HeadSent /\ Behind \in Texts /\ Len(Behind) \in Nat
          <5>1. HeadSent \in 0 .. Len(sent) /\ Len(sent) \in Nat
            BY SentIs DEF Inv
          <5> QED BY <1>1, <5>1, SentIs, SplitText DEF Behind, Inv
        <4> HIDE DEF n
        <4>4. Len(Drop(Behind, n)) = Len(Behind) - n
          <5>1. n \in 0 .. Len(Behind)
            BY <4>1, <4>3
          <5> QED BY <4>3, <5>1, SplitText
        <4>5. n = Len(Behind)
          BY <4>1, <4>2, <4>3, <4>4
        <4>6. Length <= n
          BY <4>3, <4>5 DEF FormMeant
        <4> QED BY <1>1, <2>1, <4>6 DEF n
      <3> QED BY <3>1, <3>2
    <2> QED BY <1>2, <2>1, <2>2 DEF Large
  <1>5. Took(Length) /\ Keeps(Length, FALSE)
    BY <1>2, <1>4 DEF Inv, Reading
  <1> HIDE DEF c, h
  <1>6. Len(h) = HeadSent /\ Len(h) \in Nat /\ Len(sent) >= Len(h)
    <2>1. HeadSent \in Nat /\ HeadSent <= Len(sent) /\ Len(sent) \in Nat
      BY SentIs DEF Inv
    <2>2. HeadSent = Len(h)
      BY <1>2 DEF HeadWhole, h
    <2> QED BY <2>1, <2>2
  <1>7. IsCut(Behind, c)
    <2>1. IsCut(sent, Cat(h, c))
      BY <1>1, <1>3 DEF IsCut
    <2>2. IsCut(Drop(sent, Len(h)), c)
      BY <1>3, <1>6, <2>1, CutRest
    <2> QED BY <1>6, <2>2 DEF Behind
  <1>8. Behind = c
    <2>1. Len(c) <= Len(Behind) /\ Len(Behind) \in Nat /\ Len(Behind) <= Len(c)
      BY <1>2, <1>3, <1>5, <1>7, CutIs DEF Took
    <2>2. Len(Behind) = Len(c)
      BY <1>3, <2>1
    <2> QED BY <1>3, <1>7, <2>2, CutIs
  <1>9. SubSeq(Behind, 1, Length) = c
    BY <1>2, <1>3, <1>8, SubSeqFull DEF Texts
  <1>10. c = PairsText(asked.form)
    <2>1. PairsText(asked.form) \in Seq(Words)
      BY <1>1, RequestConstants, PairsTextIs, InLineIs DEF Texts
    <2> QED BY <1>2, <2>1, ConcatEmptySeq DEF ContentText, c
  <1>11. ~Contains(c, "NUL")
    BY <1>1, <1>10, RequestSyntax
  <1>12. asked.form # <<>>
    <2>1. c # <<>>
      BY <1>2
    <2> QED BY <1>10, <2>1, NoPairs
  <1> QED BY <1>5, <1>9, <1>10, <1>11, <1>12 DEF Keeps

LEMMA HandOnHead ==
  ASSUME Inv, HeadInv, ContentRead \/ Reset
  PROVE  HeadInv'
  <1>1. /\ stage \in {"exact", "file"} /\ (pending <= 0 \/ (unread = <<>> /\ wire = <<>>))
        /\ stage' = IF Urlencoded THEN "form" ELSE "done"
        /\ Urlencoded => pairs' = content
        /\ request' = [request EXCEPT !.isFile = (stage = "file")]
        /\ UNCHANGED <<asked, sent>>
    BY DEF ContentRead, Reset, Starved, HandOn, history
  <1>2. /\ asked \in Requests
        /\ request = [requestType |-> request.requestType, path |-> request.path, GET |-> request.GET,
                      HEADERS |-> request.HEADERS, POST |-> request.POST, isFile |-> request.isFile]
    BY DEF Inv, Stored
  <1>3. /\ request'.path = request.path /\ request'.GET = request.GET
        /\ request'.HEADERS = request.HEADERS /\ request'.POST = request.POST
    BY <1>1, <1>2
  <1>4. HeadParsed' /\ QueryParsed'
    <2>1. stage \in BehindHead /\ stage' \in BehindHead
      BY <1>1 DEF BehindHead
    <2> QED BY <1>1, <1>3, <2>1, HeadStays DEF HeadInv
  <1>5. FormMeant' = FormMeant
    BY <1>1, <1>3, SameForm
  <1>6. ASSUME FormMeant
        PROVE  stage' = "form" /\ PairsAt(asked.form, request.POST)'
    <2> DEFINE ps == asked.form
    <2>1. stage' = "form" /\ pairs' = PairsText(ps) /\ ps # <<>>
      <3>1. Urlencoded
        BY <1>6 DEF FormMeant
      <3> QED BY <1>1, <1>6, <3>1, FormRead
    <2>2. AreTexts(ps)
      BY <1>2, RequestConstants
    <2>3. Len(ps) \in Nat \ {0} /\ PairsText(ps) = PairsAfter(ps, 0)
      BY <2>1, <2>2, PairsAfterIs
    <2>4. MeantTo(ps, 0) = <<>>
      BY <2>2, MeantNext
    <2>5. request.POST = <<>>
      BY <1>1 DEF HeadInv, FormParsed, BeforeForm
    <2>6. 0 \in 0 .. Len(ps) - 1
      BY <2>3
    <2>7. PairsAt(ps, request.POST)'
      BY <1>1, <1>3, <2>1, <2>3, <2>4, <2>5, <2>6 DEF PairsAt
    <2> QED BY <2>1, <2>7
  <1>7. FormParsed'
    <2>1. stage' \notin BeforeForm
      BY <1>1 DEF BeforeForm, BeforeContent
    <2>2. stage' # "form" \/ stage' # "done"
      OBVIOUS
    <2> QED BY <1>5, <1>6, <2>1, <2>2 DEF FormParsed
  <1> QED BY <1>4, <1>7 DEF HeadInv

(* The other steps leave the request alone, and stop before the form.       *)
LEMMA OtherHead ==
  ASSUME Inv, HeadInv, FormContent \/ SizedContent \/ ReadChunk
  PROVE  HeadInv'
  <1>1. /\ stage \in {"content", "exact", "file"} /\ stage' \in {"exact", "file", "multipart"}
        /\ UNCHANGED <<request, asked, sent>>
    BY DEF FormContent, SizedContent, ReadChunk, history
  <1>2. HeadParsed' /\ QueryParsed'
    <2>1. stage \in BehindHead /\ stage' \in BehindHead
      BY <1>1 DEF BehindHead
    <2> QED BY <1>1, <2>1, HeadStays DEF HeadInv
  <1>3. FormParsed'
    <2>1. stage \in BeforeForm /\ stage' \notin {"form", "done"}
      BY <1>1 DEF BeforeForm, BeforeContent
    <2> QED BY <1>1, <2>1, FormStays DEF HeadInv
  <1> QED BY <1>2, <1>3 DEF HeadInv

LEMMA BadContentHead ==
  ASSUME BadContent
  PROVE  HeadInv'
  <1>1. stage' = "failed"
    BY DEF BadContent, Throw
  <1> QED BY <1>1, ThrowHead

LEMMA HeadInvStep ==
  ASSUME Inv, HeadInv, [Next]_vars, garbled' = FALSE
  PROVE  HeadInv'
  <1>1. CASE UNCHANGED vars
    <2>1. UNCHANGED <<stage, text, pairs, request, content, asked, sent>>
      BY <1>1 DEF vars, textVars, history
    <2>2. /\ HeadWhole' = HeadWhole /\ Blanked' = Blanked /\ PathRight' = PathRight
          /\ \A n : HasHeaders(n)' = HasHeaders(n)
          /\ \A n : HeadAt(n)' = HeadAt(n)
      BY <2>1, SameAsked
    <2>3. FormMeant' = FormMeant
      BY <2>1, SameForm
    <2>4. HeadParsed'
      BY <2>1, <2>2 DEF HeadInv, HeadParsed
    <2>5. QueryParsed'
      BY <2>1 DEF HeadInv, QueryParsed, PairsAt
    <2>6. FormParsed'
      BY <2>1, <2>3 DEF HeadInv, FormParsed, PairsAt
    <2> QED BY <2>4, <2>5, <2>6 DEF HeadInv
  <1>2. CASE Starve \/ Rest
    BY <1>1, <1>2 DEF Starve, Rest
  <1> QED BY <1>1, <1>2, ReadHeadHead, RequestLineHead, TakePairHead, TakeHeaderHead,
             NoContentHead, BadContentHead, OtherHead, HandOnHead
          DEF Next, Parse

LEMMA HeadInvAlways == Spec => [](garbled \/ HeadInv)
  <1>1. Small /\ (garbled \/ Inv) /\ (garbled \/ HeadInv) /\ [Next]_vars => (garbled \/ HeadInv)'
    <2> SUFFICES ASSUME Small, garbled \/ Inv, garbled \/ HeadInv, [Next]_vars
                 PROVE  (garbled \/ HeadInv)'
      OBVIOUS
    <2>1. Small' /\ (garbled => garbled')
      BY SmallStep
    <2>2. CASE ~garbled'
      <3>1. garbled' = FALSE
        BY <2>1, <2>2 DEF Small
      <3>2. Inv /\ HeadInv
        BY <2>1, <2>2
      <3> QED BY <3>1, <3>2, HeadInvStep
    <2> QED BY <2>2
  <1>2. Init => garbled \/ HeadInv
    BY InitHead
  <1> QED BY <1>1, <1>2, SmallAlways, InvAlways, PTL DEF Spec

(* PathKept: the path is the part of the target that the query leaves, and  *)
(* urlDecode with its length gives it back, although that length is counted *)
(* after every '+' has grown: hence the exception.  This and the next two   *)
(* speak of the requests whose blank line is found as such.                 *)
THEOREM PathDecoded == Spec => [](garbled \/ PathKept)
  <1>1. garbled \/ HeadInv => garbled \/ PathKept
    BY DEF HeadInv, HeadParsed, BehindHead, PathRight, PathKept, Parsed
  <1> QED BY <1>1, HeadInvAlways, PTL

(* HeadersKept: turn by turn the loop of parseHttpHeader takes the header   *)
(* that is in front, and stops at the blank line or where the head is cut   *)
(* off, so that none is made up.                                            *)
THEOREM HeadersParsed == Spec => [](garbled \/ HeadersKept)
  <1>1. ASSUME Inv, HeadInv PROVE HeadersKept
    <2> SUFFICES ASSUME Parsed, Blanked
                 PROVE  \E n \in DOMAIN asked.headers \cup {0} :
                          /\ HeadWhole => n = Len(asked.headers)
                          /\ request.HEADERS = HeadersTo(asked.headers, n)
      BY DEF HeadersKept, FirstHeaders, HeadersTo, HeaderEntry
    <2>1. PICK n \in Nat : HasHeaders(n) /\ (HeadWhole => n = Len(asked.headers))
      BY <1>1 DEF HeadInv, HeadParsed, BehindHead, Parsed
    <2>2. Len(asked.headers) \in Nat /\ DOMAIN asked.headers = 1 .. Len(asked.headers)
      BY <1>1, HeadAfterIs DEF Inv, Stored
    <2>3. n \in DOMAIN asked.headers \cup {0} /\ request.HEADERS = HeadersTo(asked.headers, n)
      BY <2>1, <2>2 DEF HasHeaders
    <2> QED BY <2>1, <2>3
  <1>2. (garbled \/ Inv) /\ (garbled \/ HeadInv) => garbled \/ HeadersKept
    BY <1>1
  <1> QED BY <1>2, InvAlways, HeadInvAlways, PTL

(* PairsKept: turn by turn the loop of parseUrlEncodedPairs takes the pair  *)
(* in front, of the query and of a form that was read whole.                *)
THEOREM PairsParsed == Spec => [](garbled \/ PairsKept)
  <1>1. garbled \/ HeadInv => garbled \/ PairsKept
    BY DEF HeadInv, QueryParsed, FormParsed, BehindHead, FormMeant, PairsKept, Parsed
  <1> QED BY <1>1, HeadInvAlways, PTL
=============================================================================
