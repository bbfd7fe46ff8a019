------------------------- MODULE FormDelivery_proof -------------------------
(***************************************************************************)
(* The parser of multipart forms delivers the items of a form one after    *)
(* the other and whole, for every boundary, all contents that do not       *)
(* contain it, every size of the buffers and every way in which the bytes  *)
(* arrive, until the two bytes behind a boundary come short or a search    *)
(* runs over the end of its chunk.  What the searches find are the lemmas  *)
(* of StreamScan_proof.  The inductive invariant has two parts: sizes and  *)
(* what the running search has seen, which hold always; and, until then,   *)
(* where in the body of the form the parser is: on track, at a place its   *)
(* stage tells, or dry, with nothing more to come of a form that was cut.  *)
(***************************************************************************)
EXTENDS FormData, SequenceTheorems, WellFoundedInduction, TLAPS

(* The NULs of short reads are among the bytes a search meets.              *)
Cells == Bytes \cup {0}
Keys == {FirstBoundary, CrLf, BlankLine, RealBoundary}
CallLimits == {IgnoreLimit, HeaderLimit, MemoryLimit}

ScanP == INSTANCE StreamScan_proof WITH
           Bytes <- Cells, Streams <- {}, Matches <- Keys, Limits <- CallLimits

Words == Seq(Cells)

LEMMA Premises ==
  /\ BufferSize \in Nat \ {0} /\ MaxUnread \in Nat
  /\ MaxUnread >= BufferSize /\ MaxUnread >= 2
  /\ IgnoreLimit \in Nat /\ HeaderLimit \in Nat /\ MemoryLimit \in Nat \ {0}
  /\ Cells \subseteq Nat /\ {Dash, Lf, Cr, Mark} \subseteq Bytes
  /\ Bytes \subseteq Nat \ {0} /\ Bytes \subseteq Cells /\ 0 \in Cells
  /\ Dash \notin {Lf, Cr, Mark} /\ Lf \notin {Cr, Cr + 1, Mark} /\ Cr # Mark
  /\ Lf # Field /\ Cr # Field
  /\ Len(Boundary) \in Nat \ {0}
  /\ \A i \in 1 .. Len(Boundary) : Boundary[i] \in Bytes \ {Cr}
  /\ Boundary[Len(Boundary)] \notin {Dash + 1, Cr + 1} /\ Boundary[Len(Boundary)] \in Nat
  <1>1. Len(Dashes) = 2
    BY DEF Dashes
  <1>2. Boundary \in Seq(Bytes \ {Cr}) \ {<<>>} /\ Last(Boundary) \notin {Dash + 1, Cr + 1}
    BY FormConstants
  <1>3. /\ Len(Boundary) \in Nat \ {0}
        /\ \A i \in 1 .. Len(Boundary) : Boundary[i] \in Bytes \ {Cr}
    BY <1>2
  <1>4. Boundary[Len(Boundary)] \in Bytes
    BY <1>3
  <1>5. Boundary[Len(Boundary)] \notin {Dash + 1, Cr + 1} /\ Boundary[Len(Boundary)] \in Nat
    BY <1>2, <1>4, FormConstants DEF Last
  <1>6. /\ Cells \subseteq Nat /\ {Dash, Lf, Cr, Mark} \subseteq Bytes
        /\ Bytes \subseteq Nat \ {0} /\ Bytes \subseteq Cells /\ 0 \in Cells
    BY FormConstants DEF Cells
  <1>7. /\ BufferSize \in Nat \ {0} /\ MaxUnread \in Nat
        /\ MaxUnread >= BufferSize /\ MaxUnread >= 2
        /\ IgnoreLimit \in Nat /\ HeaderLimit \in Nat /\ MemoryLimit \in Nat \ {0}
        /\ Dash \notin {Lf, Cr, Mark} /\ Lf \notin {Cr, Cr + 1, Mark} /\ Cr # Mark
        /\ Lf # Field /\ Cr # Field
    BY <1>1, FormConstants
  <1> QED BY <1>3, <1>5, <1>6, <1>7

(* The keys, byte by byte.                                                  *)
LEMMA ConcatIs ==
  ASSUME NEW S
  PROVE  \A s, t \in Seq(S) :
           /\ s \o t \in Seq(S) /\ Len(s \o t) = Len(s) + Len(t)
           /\ \A i \in 1 .. Len(s) + Len(t) : (s \o t)[i] = IF i <= Len(s) THEN s[i] ELSE t[i - Len(s)]
  BY ConcatProperties

LEMMA AreWords ==
  ASSUME NEW s \in Seq(Bytes)
  PROVE  s \in Words
  <1>1. Len(s) \in Nat /\ s = [i \in 1 .. Len(s) |-> s[i]] /\ \A i \in 1 .. Len(s) : s[i] \in Cells
    BY Premises
  <1> QED BY <1>1 DEF Words

LEMMA CrLfIs ==
  CrLf \in Words /\ CrLf \in Seq(Bytes) /\ Len(CrLf) = 2 /\ CrLf[1] = Cr /\ CrLf[2] = Lf
  <1>1. Cr \in Bytes /\ Lf \in Bytes
    BY Premises
  <1>2. CrLf \in Seq(Bytes) /\ Len(CrLf) = 2 /\ CrLf[1] = Cr /\ CrLf[2] = Lf
    BY <1>1 DEF CrLf
  <1> QED BY <1>2, AreWords

LEMMA BlankLineIs ==
  /\ BlankLine \in Words /\ BlankLine \in Seq(Bytes) /\ Len(BlankLine) = 4
  /\ BlankLine[1] = Cr /\ BlankLine[2] = Lf /\ BlankLine[3] = Cr /\ BlankLine[4] = Lf
  <1>1. BlankLine \in Seq(Bytes) /\ Len(BlankLine) = 2 + 2
        /\ \A i \in 1 .. 2 + 2 : BlankLine[i] = IF i <= 2 THEN CrLf[i] ELSE CrLf[i - 2]
    <2>1. /\ BlankLine \in Seq(Bytes) /\ Len(BlankLine) = Len(CrLf) + Len(CrLf)
          /\ \A i \in 1 .. Len(CrLf) + Len(CrLf) :
               BlankLine[i] = IF i <= Len(CrLf) THEN CrLf[i] ELSE CrLf[i - Len(CrLf)]
      BY CrLfIs, ConcatIs, Zenon DEF BlankLine
    <2> QED BY <2>1, CrLfIs
  <1>2. 2 + 2 = 4 /\ 3 - 2 = 1 /\ 4 - 2 = 2 /\ ~(3 <= 2) /\ ~(4 <= 2) /\ {1, 2, 3, 4} \subseteq 1 .. 4
    OBVIOUS
  <1> QED BY <1>1, <1>2, CrLfIs, AreWords

LEMMA FirstBoundaryIs ==
  LET n == Len(Boundary)
  IN  /\ FirstBoundary \in Words /\ FirstBoundary \in Seq(Bytes) /\ Len(FirstBoundary) = n + 2
      /\ FirstBoundary[1] = Dash /\ FirstBoundary[2] = Dash
      /\ \A i \in 1 .. n : FirstBoundary[i + 2] = Boundary[i]
      /\ \A i \in 1 .. n + 2 : FirstBoundary[i] # Cr
  <1> DEFINE n == Len(Boundary)
  <1>1. Dashes \in Seq(Bytes) /\ Len(Dashes) = 2 /\ Dashes[1] = Dash /\ Dashes[2] = Dash
    BY Premises DEF Dashes
  <1>2. Boundary \in Seq(Bytes) /\ n \in Nat
    <2>1. Boundary \in Seq(Bytes \ {Cr})
      BY FormConstants
    <2> QED BY <2>1
  <1>3. /\ FirstBoundary \in Seq(Bytes) /\ Len(FirstBoundary) = 2 + n
        /\ \A i \in 1 .. 2 + n : FirstBoundary[i] = IF i <= 2 THEN Dashes[i] ELSE Boundary[i - 2]
    <2>1. /\ FirstBoundary \in Seq(Bytes) /\ Len(FirstBoundary) = Len(Dashes) + Len(Boundary)
          /\ \A i \in 1 .. Len(Dashes) + Len(Boundary) :
               FirstBoundary[i] = IF i <= Len(Dashes) THEN Dashes[i] ELSE Boundary[i - Len(Dashes)]
      BY <1>1, <1>2, ConcatIs, Zenon DEF FirstBoundary
    <2> QED BY <1>1, <2>1
  <1> HIDE DEF n
  <1>4. FirstBoundary[1] = Dash /\ FirstBoundary[2] = Dash
    BY <1>1, <1>2, <1>3
  <1>5. \A i \in 1 .. n : FirstBoundary[i + 2] = Boundary[i]
    BY <1>2, <1>3
  <1>6. \A i \in 1 .. n + 2 : FirstBoundary[i] # Cr
    <2> TAKE i \in 1 .. n + 2
    <2>1. CASE i <= 2
      <3>1. i = 1 \/ i = 2
        BY <1>2, <2>1
      <3>2. Dash # Cr
        BY Premises
      <3> QED BY <1>4, <3>1, <3>2
    <2>2. CASE ~(i <= 2)
      <3>1. i - 2 \in 1 .. n /\ FirstBoundary[i] = Boundary[i - 2]
        BY <1>2, <1>3, <2>2
      <3> QED BY <3>1, Premises DEF n
    <2> QED BY <2>1, <2>2
  <1>7. FirstBoundary \in Words /\ Len(FirstBoundary) = n + 2
    BY <1>2, <1>3, AreWords
  <1> QED BY <1>3, <1>4, <1>5, <1>6, <1>7 DEF n

LEMMA RealBoundaryIs ==
  LET n == Len(Boundary)
  IN  /\ RealBoundary \in Words /\ RealBoundary \in Seq(Bytes) /\ Len(RealBoundary) = n + 4
      /\ RealBoundary[1] = Cr /\ RealBoundary[2] = Lf
      /\ \A i \in 2 .. n + 4 : RealBoundary[i] # Cr
      /\ RealBoundary[n + 4] = Boundary[n]
  <1> DEFINE n == Len(Boundary)
  <1>1. n \in Nat \ {0}
    BY Premises
  <1>2. /\ RealBoundary \in Seq(Bytes) /\ Len(RealBoundary) = 2 + (n + 2)
        /\ \A i \in 1 .. 2 + (n + 2) : RealBoundary[i] = IF i <= 2 THEN CrLf[i] ELSE FirstBoundary[i - 2]
    <2>1. FirstBoundary \in Seq(Bytes) /\ Len(FirstBoundary) = n + 2
      BY FirstBoundaryIs
    <2>2. /\ RealBoundary \in Seq(Bytes) /\ Len(RealBoundary) = Len(CrLf) + Len(FirstBoundary)
          /\ \A i \in 1 .. Len(CrLf) + Len(FirstBoundary) :
               RealBoundary[i] = IF i <= Len(CrLf) THEN CrLf[i] ELSE FirstBoundary[i - Len(CrLf)]
      BY <2>1, CrLfIs, ConcatIs, Zenon DEF RealBoundary
    <2> QED BY <2>1, <2>2, CrLfIs
  <1> HIDE DEF n
  <1>3. RealBoundary[1] = Cr /\ RealBoundary[2] = Lf
    BY <1>1, <1>2, CrLfIs
  <1>4. \A i \in 2 .. n + 4 : RealBoundary[i] # Cr
    <2> TAKE i \in 2 .. n + 4
    <2>1. CASE i = 2
      BY <1>3, <2>1, Premises
    <2>2. CASE i # 2
      <3>1. i - 2 \in 1 .. n + 2 /\ RealBoundary[i] = FirstBoundary[i - 2]
        BY <1>1, <1>2, <2>2
      <3> QED BY <3>1, FirstBoundaryIs DEF n
    <2> QED BY <2>1, <2>2
  <1>5. RealBoundary[n + 4] = Boundary[n]
    <2>1. n + 4 \in 1 .. 2 + (n + 2) /\ ~(n + 4 <= 2) /\ (n + 4) - 2 = n + 2 /\ n \in 1 .. n
      BY <1>1
    <2>2. RealBoundary[n + 4] = FirstBoundary[n + 2]
      BY <1>2, <2>1
    <2> QED BY <2>1, <2>2, FirstBoundaryIs DEF n
  <1>6. RealBoundary \in Words
    BY <1>2, AreWords
  <1>7. Len(RealBoundary) = n + 4
    BY <1>1, <1>2
  <1> QED BY <1>2, <1>3, <1>4, <1>5, <1>6, <1>7 DEF n

(* What StreamScan_proof assumes of the constants holds of the form's.      *)
LEMMA KeysAreKeys ==
  ASSUME NEW key \in Keys
  PROVE  /\ key \in Words /\ key \in Seq(Cells \ {0}) /\ Len(key) \in Nat \ {0, 1}
         /\ key[1] \in Nat /\ Last(key) \in Nat /\ Last(key) # key[1] + 1
  <1>1. /\ key \in Words /\ key \in Seq(Bytes) /\ Len(key) \in Nat \ {0, 1}
        /\ key[1] \in Nat /\ key[Len(key)] \in Nat /\ key[Len(key)] # key[1] + 1
    <2>0. {Dash, Lf, Cr} \subseteq Nat
      BY Premises
    <2>1. CASE key = FirstBoundary
      <3> DEFINE n == Len(Boundary)
      <3>1. n \in Nat \ {0} /\ Boundary[n] \notin {Dash + 1, Cr + 1} /\ Boundary[n] \in Nat
        BY Premises
      <3>2. n \in 1 .. n
        BY <3>1
      <3>3. /\ key \in Words /\ key \in Seq(Bytes) /\ Len(key) = n + 2
            /\ key[1] = Dash /\ key[n + 2] = Boundary[n]
        BY <2>1, <3>2, FirstBoundaryIs
      <3> QED BY <2>0, <3>1, <3>3
    <2>2. CASE key = CrLf
      <3>1. Lf # Cr + 1
        BY Premises
      <3> QED BY <2>0, <2>2, <3>1, CrLfIs
    <2>3. CASE key = BlankLine
      <3>1. Lf # Cr + 1
        BY Premises
      <3> QED BY <2>0, <2>3, <3>1, BlankLineIs
    <2>4. CASE key = RealBoundary
      <3> DEFINE n == Len(Boundary)
      <3>1. n \in Nat \ {0} /\ Boundary[n] \notin {Dash + 1, Cr + 1} /\ Boundary[n] \in Nat
        BY Premises
      <3>2. /\ key \in Words /\ key \in Seq(Bytes) /\ Len(key) = n + 4
            /\ key[1] = Cr /\ key[n + 4] = Boundary[n]
        BY <2>4, RealBoundaryIs
      <3> QED BY <2>0, <3>1, <3>2
    <2> QED BY <2>1, <2>2, <2>3, <2>4 DEF Keys
  <1>2. key \in Seq(Cells \ {0})
    <2>1. Bytes \subseteq Cells \ {0}
      BY Premises
    <2>2. \A i \in 1 .. Len(key) : key[i] \in Cells \ {0}
      BY <1>1, <2>1
    <2> QED BY <1>1, <2>2
  <1> QED BY <1>1, <1>2 DEF Last

LEMMA ScanPremises ==
  /\ Cells \subseteq Nat /\ {} \subseteq Seq(Cells)
  /\ Keys \subseteq Seq(Cells \ {0}) \ {<<>>}
  /\ CallLimits \subseteq Nat \ {0}
  /\ BufferSize \in Nat \ {0} /\ MaxUnread \in Nat /\ MaxUnread >= BufferSize
  <1>1. \A key \in Keys : key \in Seq(Cells \ {0}) /\ key # <<>>
    BY KeysAreKeys
  <1>2. CallLimits \subseteq Nat \ {0}
    <2>1. Len(FirstBoundary) \in Nat \ {0} /\ Len(CrLf \o BlankLine) \in Nat \ {0}
      <3>1. Len(CrLf \o BlankLine) = Len(CrLf) + Len(BlankLine)
        BY CrLfIs, BlankLineIs, ConcatIs
      <3> QED BY <3>1, CrLfIs, BlankLineIs, FirstBoundaryIs, Premises
    <2>2. IgnoreLimit >= Len(FirstBoundary) /\ HeaderLimit >= Len(CrLf \o BlankLine)
      BY FormConstants
    <2> QED BY <2>1, <2>2, Premises DEF CallLimits
  <1> QED BY <1>1, <1>2, Premises

LEMMA KeysForeign == ScanP!Foreign
  <1>1. ASSUME NEW key \in Keys
        PROVE  key[1] # Last(key) - 1
    <2>1. key[1] \in Nat /\ Last(key) \in Nat /\ Last(key) # key[1] + 1
      BY KeysAreKeys
    <2> HIDE DEF Keys
    <2> QED BY <2>1
  <1> QED BY <1>1 DEF ScanP!Foreign, ScanP!Filling, ScanP!Last, Last, Keys
-----------------------------------------------------------------------------
(* Concatenation of words, left unexpanded where only regrouping is asked.  *)
Cat(s, t) == s \o t

LEMMA CatIs ==
  \A s, t \in Words :
    /\ Cat(s, t) \in Words /\ Len(Cat(s, t)) = Len(s) + Len(t)
    /\ \A i \in 1 .. Len(s) + Len(t) :
         Cat(s, t)[i] = IF i <= Len(s) THEN s[i] ELSE t[i - Len(s)]
  BY ConcatIs, Zenon DEF Words, Cat

LEMMA CatAssociative ==
  \A s, t, u \in Words : Cat(s, t) \in Words /\ Cat(Cat(s, t), u) = Cat(s, Cat(t, u))
  BY ConcatAssociative, ConcatProperties, SMTT(30) DEF Words, Cat

LEMMA CatEmpty ==
  <<>> \in Words /\ \A s \in Words : Cat(s, <<>>) = s /\ Cat(<<>>, s) = s
  BY ConcatEmptySeq DEF Words, Cat

LEMMA LenIs ==
  \A s \in Words : Len(s) \in Nat /\ (Len(s) = 0 <=> s = <<>>) /\ \A i \in 1 .. Len(s) : s[i] \in Cells
  BY DEF Words

(* Words with the same elements are equal.                                  *)
LEMMA SameWords ==
  ASSUME NEW s \in Words, NEW t \in Words, Len(s) = Len(t),
         \A i \in 1 .. Len(s) : s[i] = t[i]
  PROVE  s = t
  BY SeqEqual DEF Words

(* A common front can be taken off.                                         *)
LEMMA Cancel ==
  ASSUME NEW a \in Words, NEW b \in Words, NEW c \in Words, Cat(a, b) = Cat(a, c)
  PROVE  b = c
  <1>1. /\ Len(Cat(a, b)) = Len(a) + Len(b) /\ Len(Cat(a, c)) = Len(a) + Len(c)
        /\ Len(a) \in Nat /\ Len(b) \in Nat /\ Len(c) \in Nat
    BY CatIs, LenIs
  <1>2. Len(b) = Len(c)
    BY <1>1
  <1>3. \A i \in 1 .. Len(b) : b[i] = c[i]
    <2> TAKE i \in 1 .. Len(b)
    <2>1. Len(a) + i \in 1 .. Len(a) + Len(b) /\ ~(Len(a) + i <= Len(a)) /\ (Len(a) + i) - Len(a) = i
      BY <1>1
    <2>2. Cat(a, b)[Len(a) + i] = b[(Len(a) + i) - Len(a)]
      BY <2>1, CatIs
    <2>3. Cat(a, c)[Len(a) + i] = c[(Len(a) + i) - Len(a)]
      <3>1. Len(a) + i \in 1 .. Len(a) + Len(c)
        BY <1>2, <2>1
      <3> QED BY <2>1, <3>1, CatIs
    <2> QED BY <2>1, <2>2, <2>3
  <1> QED BY <1>2, <1>3, SameWords

LEMMA SplitWord ==
  ASSUME NEW s \in Words, NEW n \in 0 .. Len(s)
  PROVE  /\ SubSeq(s, 1, n) \in Words /\ Len(SubSeq(s, 1, n)) = n
         /\ Scan!Drop(s, n) \in Words /\ Len(Scan!Drop(s, n)) = Len(s) - n
         /\ Cat(SubSeq(s, 1, n), Scan!Drop(s, n)) = s
         /\ \A i \in 1 .. n : SubSeq(s, 1, n)[i] = s[i]
         /\ \A i \in 1 .. Len(s) - n : Scan!Drop(s, n)[i] = s[n + i]
  <1>1. Scan!Drop(s, n) = ScanP!Drop(s, n)
    BY DEF Scan!Drop, ScanP!Drop
  <1>2. /\ SubSeq(s, 1, n) \in Words /\ Len(SubSeq(s, 1, n)) = n
        /\ Scan!Drop(s, n) \in Words /\ Len(Scan!Drop(s, n)) = Len(s) - n
        /\ Cat(SubSeq(s, 1, n), Scan!Drop(s, n)) = s
    <2>1. /\ SubSeq(s, 1, n) \in Seq(Cells) /\ Len(SubSeq(s, 1, n)) = n
          /\ ScanP!Drop(s, n) \in Seq(Cells) /\ Len(ScanP!Drop(s, n)) = Len(s) - n
          /\ SubSeq(s, 1, n) \o ScanP!Drop(s, n) = s
      BY ScanPremises, ScanP!Split DEF Words
    <2> QED BY <1>1, <2>1, Zenon DEF Words, Cat
  <1> DEFINE f == SubSeq(s, 1, n)
             d == Scan!Drop(s, n)
  <1> HIDE DEF f, d
  <1>3. f \in Words /\ Len(f) = n /\ d \in Words /\ Len(d) = Len(s) - n /\ Cat(f, d) = s
        /\ n \in Nat /\ Len(s) \in Nat /\ n <= Len(s)
    BY <1>2, LenIs DEF f, d
  <1>4. \A i \in 1 .. n + (Len(s) - n) : s[i] = IF i <= n THEN f[i] ELSE d[i - n]
    <2>1. \A i \in 1 .. Len(f) + Len(d) : Cat(f, d)[i] = IF i <= Len(f) THEN f[i] ELSE d[i - Len(f)]
      BY <1>3, CatIs
    <2> QED BY <1>3, <2>1
  <1>5. \A i \in 1 .. n : f[i] = s[i]
    BY <1>3, <1>4
  <1>6. \A i \in 1 .. Len(s) - n : d[i] = s[n + i]
    <2> TAKE i \in 1 .. Len(s) - n
    <2>1. n + i \in 1 .. n + (Len(s) - n) /\ ~(n + i <= n) /\ (n + i) - n = i
      BY <1>3
    <2> QED BY <1>4, <2>1
  <1> QED BY <1>3, <1>5, <1>6 DEF f, d

(* Of two ways to cut a word, one front continues the other.                *)
LEMMA Shorter ==
  ASSUME NEW a \in Words, NEW b \in Words, NEW c \in Words, NEW d \in Words,
         Cat(a, b) = Cat(c, d), Len(a) <= Len(c)
  PROVE  \E e \in Words : c = Cat(a, e) /\ b = Cat(e, d)
  <1>1. Len(a) \in 0 .. Len(c) /\ Len(c) \in Nat /\ Len(b) \in Nat /\ Len(d) \in Nat
    BY LenIs
  <1> DEFINE f == SubSeq(c, 1, Len(a))
             e == Scan!Drop(c, Len(a))
  <1>2. f \in Words /\ e \in Words /\ Len(f) = Len(a) /\ Cat(f, e) = c
        /\ \A i \in 1 .. Len(a) : f[i] = c[i]
    BY <1>1, SplitWord
  <1> HIDE DEF f, e
  <1>3. f = a
    <2>1. \A i \in 1 .. Len(a) : f[i] = a[i]
      <3> TAKE i \in 1 .. Len(a)
      <3>1. i \in 1 .. Len(a) + Len(b) /\ i \in 1 .. Len(c) + Len(d) /\ i <= Len(a) /\ i <= Len(c)
        BY <1>1
      <3>2. Cat(a, b)[i] = a[i] /\ Cat(c, d)[i] = c[i]
        BY <3>1, CatIs
      <3> QED BY <1>2, <3>2
    <2> QED BY <1>2, <2>1, SameWords
  <1>4. Cat(a, b) = Cat(a, Cat(e, d))
    BY <1>2, <1>3, CatAssociative
  <1>5. b = Cat(e, d)
    <2>1. Cat(e, d) \in Words
      BY <1>2, CatAssociative
    <2> QED BY <1>4, <2>1, Cancel
  <1> QED BY <1>2, <1>3, <1>5

LEMMA Levi ==
  ASSUME NEW a \in Words, NEW b \in Words, NEW c \in Words, NEW d \in Words,
         Cat(a, b) = Cat(c, d)
  PROVE  \E e \in Words : \/ c = Cat(a, e) /\ b = Cat(e, d)
                          \/ a = Cat(c, e) /\ d = Cat(e, b)
  <1>1. Len(a) <= Len(c) \/ Len(c) <= Len(a)
    BY LenIs
  <1>2. CASE Len(a) <= Len(c)
    BY <1>2, Shorter
  <1>3. CASE Len(c) <= Len(a)
    BY <1>3, Shorter
  <1> QED BY <1>1, <1>2, <1>3

(* The last byte of a word, taken off.                                      *)
AllButLast(s) == SubSeq(s, 1, Len(s) - 1)

LEMMA LastOff ==
  ASSUME NEW s \in Words, NEW e \in Words, e # <<>>
  PROVE  /\ AllButLast(e) \in Words /\ Cat(s, AllButLast(e)) \in Words
         /\ AllButLast(Cat(s, e)) = Cat(s, AllButLast(e))
  <1>1. Len(s) \in Nat /\ Len(e) \in Nat \ {0}
    BY LenIs
  <1> DEFINE w == Cat(s, e)
             f == AllButLast(w)
             g == AllButLast(e)
  <1>2. w \in Words /\ Len(w) = Len(s) + Len(e)
        /\ \A i \in 1 .. Len(s) + Len(e) : w[i] = IF i <= Len(s) THEN s[i] ELSE e[i - Len(s)]
    BY CatIs
  <1> HIDE DEF w
  <1>3. /\ f \in Words /\ Len(f) = Len(s) + Len(e) - 1
        /\ \A i \in 1 .. Len(s) + Len(e) - 1 : f[i] = w[i]
    <2>1. Len(w) - 1 \in 0 .. Len(w) /\ Len(w) - 1 = Len(s) + Len(e) - 1
      BY <1>1, <1>2
    <2> QED BY <1>2, <2>1, SplitWord DEF AllButLast
  <1>4. /\ g \in Words /\ Len(g) = Len(e) - 1 /\ \A i \in 1 .. Len(e) - 1 : g[i] = e[i]
    <2>1. Len(e) - 1 \in 0 .. Len(e)
      BY <1>1
    <2> QED BY <2>1, SplitWord DEF AllButLast
  <1> HIDE DEF f, g
  <1>5. /\ Cat(s, g) \in Words /\ Len(Cat(s, g)) = Len(s) + Len(g)
        /\ \A i \in 1 .. Len(s) + Len(g) : Cat(s, g)[i] = IF i <= Len(s) THEN s[i] ELSE g[i - Len(s)]
    BY <1>4, CatIs
  <1>6. Len(f) = Len(Cat(s, g))
    BY <1>1, <1>3, <1>4, <1>5
  <1>7. \A i \in 1 .. Len(f) : f[i] = Cat(s, g)[i]
    <2> TAKE i \in 1 .. Len(f)
    <2>1. /\ i \in 1 .. Len(s) + Len(e) - 1 /\ i \in 1 .. Len(s) + Len(e) /\ i \in 1 .. Len(s) + Len(g)
          /\ ~(i <= Len(s)) => i - Len(s) \in 1 .. Len(e) - 1
      BY <1>1, <1>3, <1>4
    <2> QED BY <1>2, <1>3, <1>4, <1>5, <2>1
  <1>8. f = Cat(s, g)
    BY <1>3, <1>5, <1>6, <1>7, SameWords
  <1> QED BY <1>4, <1>5, <1>8 DEF f, g, w

(* Where a key occurs.                                                      *)
LEMMA OccursIs ==
  ASSUME NEW key \in Keys, NEW s \in Words
  PROVE  /\ Scan!Occurs(key, s) = ScanP!Occurs(key, s)
         /\ Scan!Occurs(key, s) <=>
              \E i \in 0 .. Len(s) - Len(key) : \A p \in 1 .. Len(key) : s[i + p] = key[p]
  <1>1. Scan!Occurs(key, s) = ScanP!Occurs(key, s)
    BY DEF Scan!Occurs, ScanP!Occurs
  <1>2. ScanP!Occurs(key, s) <=> \E i \in 0 .. Len(s) - Len(key) : ScanP!OccursAt(key, s, i)
    <2> HIDE DEF Keys, CallLimits
    <2> QED BY ScanPremises, ScanP!OccursIs DEF Words
  <1> QED BY <1>1, <1>2 DEF ScanP!OccursAt

LEMMA OccursFurther ==
  ASSUME NEW key \in Keys, NEW s \in Words, NEW t \in Words, Scan!Occurs(key, s)
  PROVE  Scan!Occurs(key, Cat(s, t))
  <1>1. Len(key) \in Nat \ {0} /\ Len(s) \in Nat /\ Len(t) \in Nat
    BY KeysAreKeys, LenIs
  <1>2. PICK i \in 0 .. Len(s) - Len(key) : \A p \in 1 .. Len(key) : s[i + p] = key[p]
    BY OccursIs
  <1>3. /\ Cat(s, t) \in Words /\ Len(Cat(s, t)) = Len(s) + Len(t)
        /\ \A x \in 1 .. Len(s) + Len(t) : Cat(s, t)[x] = IF x <= Len(s) THEN s[x] ELSE t[x - Len(s)]
    BY CatIs
  <1>4. i \in 0 .. Len(Cat(s, t)) - Len(key)
    BY <1>1, <1>3
  <1>5. \A p \in 1 .. Len(key) : Cat(s, t)[i + p] = key[p]
    <2> TAKE p \in 1 .. Len(key)
    <2>1. i + p \in 1 .. Len(s) + Len(t) /\ i + p <= Len(s)
      BY <1>1
    <2> QED BY <1>2, <1>3, <2>1
  <1> QED BY <1>3, <1>4, <1>5, OccursIs

(* A word that ends in a key has it, and is the key behind something.       *)
LEMMA EndsInKey ==
  ASSUME NEW key \in Keys, NEW s \in Words
  PROVE  Scan!Occurs(key, Cat(s, key))
  <1>1. key \in Words /\ Len(key) \in Nat \ {0} /\ Len(s) \in Nat
    BY KeysAreKeys, LenIs
  <1>3. /\ Cat(s, key) \in Words /\ Len(Cat(s, key)) = Len(s) + Len(key)
        /\ \A x \in 1 .. Len(s) + Len(key) : Cat(s, key)[x] = IF x <= Len(s) THEN s[x] ELSE key[x - Len(s)]
    BY <1>1, CatIs
  <1>4. Len(s) \in 0 .. Len(Cat(s, key)) - Len(key)
    BY <1>1, <1>3
  <1>5. \A p \in 1 .. Len(key) : Cat(s, key)[Len(s) + p] = key[p]
    <2> TAKE p \in 1 .. Len(key)
    <2>1. Len(s) + p \in 1 .. Len(s) + Len(key) /\ ~(Len(s) + p <= Len(s)) /\ (Len(s) + p) - Len(s) = p
      BY <1>1
    <2> QED BY <1>3, <2>1
  <1> QED BY <1>3, <1>4, <1>5, OccursIs

(* A word in which a key occurs for the first time at its end.              *)
FirstAtEnd(key, s) ==
  /\ \E t \in Words : s = Cat(t, key)
  /\ ~Scan!Occurs(key, AllButLast(s))

LEMMA AtEnd ==
  ASSUME NEW key \in Keys, NEW s \in Words, FirstAtEnd(key, s)
  PROVE  Scan!Occurs(key, s) /\ s # <<>> /\ Len(s) >= Len(key)
  <1>1. PICK t \in Words : s = Cat(t, key)
    BY DEF FirstAtEnd
  <1>2. key \in Words /\ Len(key) \in Nat \ {0} /\ Len(t) \in Nat
    BY KeysAreKeys, LenIs
  <1>3. Len(s) = Len(t) + Len(key)
    BY <1>1, <1>2, CatIs
  <1>4. Len(s) # 0 /\ Len(s) >= Len(key)
    BY <1>2, <1>3
  <1> QED BY <1>1, <1>4, EndsInKey, LenIs

(* What a search reads of a word in which its key is first found at the end *)
(* of front: all of front when it finds its key, and otherwise less.        *)
LEMMA Reached ==
  ASSUME NEW key \in Keys, NEW front \in Words, FirstAtEnd(key, front), NEW back \in Words,
         NEW read \in Words, NEW rest \in Words, Cat(read, rest) = Cat(front, back)
  PROVE  /\ FirstAtEnd(key, read) => read = front /\ rest = back
         /\ ~Scan!Occurs(key, read) =>
              \E more \in Words : more # <<>> /\ front = Cat(read, more) /\ rest = Cat(more, back)
  <1>1. PICK e \in Words : \/ front = Cat(read, e) /\ rest = Cat(e, back)
                           \/ read = Cat(front, e) /\ back = Cat(e, rest)
    BY Levi
  <1>2. CASE e = <<>>
    <2>1. read = front /\ rest = back
      BY <1>1, <1>2, CatEmpty
    <2> QED BY <2>1, AtEnd
  <1>3. CASE e # <<>> /\ front = Cat(read, e) /\ rest = Cat(e, back)
    <2>1. ASSUME FirstAtEnd(key, read) PROVE FALSE
      <3>1. Scan!Occurs(key, read)
        BY <2>1, AtEnd
      <3>2. AllButLast(front) = Cat(read, AllButLast(e)) /\ AllButLast(e) \in Words
        BY <1>3, LastOff
      <3>3. Scan!Occurs(key, AllButLast(front))
        BY <3>1, <3>2, OccursFurther
      <3> QED BY <3>3 DEF FirstAtEnd
    <2> QED BY <1>3, <2>1
  <1>4. CASE e # <<>> /\ read = Cat(front, e) /\ back = Cat(e, rest)
    <2>1. Scan!Occurs(key, front)
      BY AtEnd
    <2>2. Scan!Occurs(key, read)
      BY <1>4, <2>1, OccursFurther
    <2>3. ASSUME FirstAtEnd(key, read) PROVE FALSE
      <3>1. AllButLast(read) = Cat(front, AllButLast(e)) /\ AllButLast(e) \in Words
        BY <1>4, LastOff
      <3>2. Scan!Occurs(key, AllButLast(read))
        BY <2>1, <3>1, OccursFurther
      <3> QED BY <2>3, <3>2 DEF FirstAtEnd
    <2> QED BY <2>2, <2>3
  <1> QED BY <1>1, <1>2, <1>3, <1>4

-----------------------------------------------------------------------------
(* Induction, for a set of numbers.                                         *)
LEMMA AllNumbers ==
  ASSUME NEW P \in SUBSET Nat, 0 \in P, \A n \in P : n + 1 \in P
  PROVE  P = Nat
  <1> DEFINE S == Nat \ P
  <1> SUFFICES ASSUME S # {} PROVE FALSE
    OBVIOUS
  <1>1. PICK n \in S : \A m \in S : n <= m
    <2> HIDE DEF S
    <2>1. S \in SUBSET Nat
      BY DEF S
    <2> QED BY <2>1, ScanPremises, ScanP!MinIn
  <1>2. n - 1 \in Nat /\ n - 1 \notin S
    BY <1>1
  <1>3. (n - 1) + 1 \in P
    BY <1>2
  <1> QED BY <1>1, <1>3

(* FlattenSeq adds one word after the other.                                *)
Flat(s) == CHOOSE f : f = [i \in 1 .. Len(s) |-> IF i = 1 THEN s[i] ELSE f[i - 1] \o s[i]]

LEMMA FlattenIs ==
  ASSUME NEW s
  PROVE  FlattenSeq(s) = IF Len(s) = 0 THEN s ELSE Flat(s)[Len(s)]
  BY DEF FlattenSeq, Flat

LEMMA FlatExists ==
  ASSUME NEW s, NEW m \in Nat
  PROVE  \E f : f = [i \in 1 .. m |-> IF i = 1 THEN s[i] ELSE f[i - 1] \o s[i]]
  <1> DEFINE Fits(f, n) == f = [i \in 1 .. n |-> IF i = 1 THEN s[i] ELSE f[i - 1] \o s[i]]
             P == {n \in Nat : \E f : Fits(f, n)}
  <1>1. 0 \in P
    <2> DEFINE f == [i \in 1 .. 0 |-> s[i]]
    <2>1. Fits(f, 0)
      OBVIOUS
    <2> QED BY <2>1
  <1>2. ASSUME NEW n \in P PROVE n + 1 \in P
    <2>1. PICK f : Fits(f, n)
      BY <1>2
    <2> DEFINE new(i) == IF i = 1 THEN s[i] ELSE f[i - 1] \o s[i]
               g == [i \in 1 .. n + 1 |-> new(i)]
    <2>2. \A i \in 1 .. n : f[i] = new(i)
      BY <2>1
    <2>3. \A i \in 1 .. n : g[i] = f[i]
      <3> HIDE DEF new
      <3> QED BY <2>2
    <2>4. \A i \in 1 .. n + 1 : i # 1 => g[i - 1] = f[i - 1]
      <3> HIDE DEF g
      <3> QED BY <2>3
    <2>5. g = [i \in 1 .. n + 1 |-> IF i = 1 THEN s[i] ELSE g[i - 1] \o s[i]]
      <3> DEFINE h == [i \in 1 .. n + 1 |-> IF i = 1 THEN s[i] ELSE g[i - 1] \o s[i]]
      <3>1. \A i \in 1 .. n + 1 : g[i] = h[i]
        <4> TAKE i \in 1 .. n + 1
        <4>1. g[i] = new(i) /\ h[i] = IF i = 1 THEN s[i] ELSE g[i - 1] \o s[i]
          OBVIOUS
        <4> HIDE DEF g, h
        <4> QED BY <2>4, <4>1
      <3>2. DOMAIN g = 1 .. n + 1 /\ DOMAIN h = 1 .. n + 1 /\ g = [i \in 1 .. n + 1 |-> g[i]] /\ h = [i \in 1 .. n + 1 |-> h[i]]
        OBVIOUS
      <3> HIDE DEF g, h
      <3>3. g = h
        BY <3>1, <3>2
      <3> QED BY <3>3 DEF h
    <2>6. Fits(g, n + 1)
      <3> HIDE DEF g
      <3> QED BY <2>5
    <2>7. n + 1 \in Nat
      OBVIOUS
    <2> HIDE DEF g, Fits
    <2> QED BY <2>6, <2>7
  <1> HIDE DEF P
  <1>3. P = Nat
    <2>1. P \in SUBSET Nat
      BY DEF P
    <2> QED BY <1>1, <1>2, <2>1, AllNumbers
  <1>4. m \in P
    BY <1>3
  <1> QED BY <1>4 DEF P

LEMMA FlatIs ==
  ASSUME NEW s \in Seq(Words)
  PROVE  \A i \in 1 .. Len(s) :
           Flat(s)[i] = IF i = 1 THEN s[i] ELSE Cat(Flat(s)[i - 1], s[i])
  <1>1. Len(s) \in Nat
    OBVIOUS
  <1>2. Flat(s) = [i \in 1 .. Len(s) |-> IF i = 1 THEN s[i] ELSE Flat(s)[i - 1] \o s[i]]
    BY <1>1, FlatExists, Zenon DEF Flat
  <1> DEFINE F == Flat(s)
  <1> HIDE DEF F
  <1>3. F = [i \in 1 .. Len(s) |-> IF i = 1 THEN s[i] ELSE Cat(F[i - 1], s[i])]
    BY <1>2, Zenon DEF F, Cat
  <1> QED BY <1>3 DEF F

LEMMA FlatWords ==
  ASSUME NEW s \in Seq(Words)
  PROVE  \A i \in 1 .. Len(s) : Flat(s)[i] \in Words
  <1> DEFINE P == {i \in Nat : i + 1 \in 1 .. Len(s) => Flat(s)[i + 1] \in Words}
  <1>1. Len(s) \in Nat /\ \A i \in 1 .. Len(s) : s[i] \in Words
    OBVIOUS
  <1>2. 0 \in P
    <2>1. 0 + 1 \in 1 .. Len(s) => Flat(s)[0 + 1] = s[0 + 1]
      BY FlatIs
    <2> QED BY <1>1, <2>1
  <1>3. ASSUME NEW i \in P PROVE i + 1 \in P
    <2> SUFFICES ASSUME (i + 1) + 1 \in 1 .. Len(s) PROVE Flat(s)[(i + 1) + 1] \in Words
      OBVIOUS
    <2>1. i + 1 \in 1 .. Len(s) /\ (i + 1) + 1 # 1 /\ ((i + 1) + 1) - 1 = i + 1
      BY <1>1
    <2>2. Flat(s)[i + 1] \in Words
      BY <2>1
    <2>3. Flat(s)[(i + 1) + 1] = Cat(Flat(s)[((i + 1) + 1) - 1], s[(i + 1) + 1])
      BY <2>1, FlatIs
    <2> QED BY <1>1, <2>1, <2>2, <2>3, CatIs
  <1> HIDE DEF P
  <1>4. P = Nat
    <2>1. P \in SUBSET Nat
      BY DEF P
    <2> QED BY <1>2, <1>3, <2>1, AllNumbers
  <1>5. \A i \in 1 .. Len(s) : i - 1 \in P /\ (i - 1) + 1 = i
    BY <1>1, <1>4
  <1> QED BY <1>5 DEF P

(* The first word can be taken off.                                         *)
LEMMA FlattenCons ==
  ASSUME NEW s \in Seq(Words), NEW t \in Seq(Words), Len(s) = Len(t) + 1,
         \A i \in 1 .. Len(t) : t[i] = s[i + 1]
  PROVE  /\ FlattenSeq(t) \in Words /\ FlattenSeq(s) \in Words
         /\ FlattenSeq(s) = Cat(s[1], FlattenSeq(t))
  <1>1. Len(t) \in Nat /\ Len(s) \in Nat /\ 1 \in 1 .. Len(s) /\ Len(s) \in 1 .. Len(s) /\ Len(s) # 0
    OBVIOUS
  <1>a. (\A i \in 1 .. Len(s) : s[i] \in Words) /\ (\A i \in 1 .. Len(t) : t[i] \in Words)
    OBVIOUS
  <1> DEFINE P == {i \in Nat : i + 1 \in 1 .. Len(t) =>
                                  Flat(s)[(i + 1) + 1] = Cat(s[1], Flat(t)[i + 1])}
  <1>2. 0 \in P
    <2> SUFFICES ASSUME 1 \in 1 .. Len(t) PROVE Flat(s)[2] = Cat(s[1], Flat(t)[1])
      OBVIOUS
    <2>1. 2 \in 1 .. Len(s) /\ 2 - 1 = 1
      BY <1>1
    <2>2. Flat(s)[2] = Cat(Flat(s)[2 - 1], s[2]) /\ Flat(s)[1] = s[1] /\ Flat(t)[1] = t[1]
      BY <1>1, <2>1, FlatIs
    <2> QED BY <2>1, <2>2
  <1>3. ASSUME NEW i \in P PROVE i + 1 \in P
    <2> SUFFICES ASSUME (i + 1) + 1 \in 1 .. Len(t)
                 PROVE  Flat(s)[((i + 1) + 1) + 1] = Cat(s[1], Flat(t)[(i + 1) + 1])
      OBVIOUS
    <2> DEFINE j == i + 1
    <2>1. j \in 1 .. Len(t) /\ j \in Nat /\ j + 1 \in 1 .. Len(t) /\ j + 2 \in 1 .. Len(s)
      BY <1>1
    <2>2. Flat(s)[j + 1] = Cat(s[1], Flat(t)[j])
      BY <2>1
    <2> HIDE DEF j
    <2>3. Flat(s)[j + 2] = Cat(Flat(s)[(j + 2) - 1], s[j + 2])
      <3>1. j + 2 # 1
        BY <2>1
      <3> QED BY <2>1, <3>1, FlatIs, Zenon
    <2>4. Flat(t)[j + 1] = Cat(Flat(t)[(j + 1) - 1], t[j + 1])
      BY <2>1, FlatIs
    <2>5. (j + 2) - 1 = j + 1 /\ (j + 1) - 1 = j /\ (j + 1) + 1 = j + 2
      BY <2>1
    <2>6. t[j + 1] = s[j + 2]
      BY <2>1, <2>5
    <2>7. Flat(t)[j] \in Words /\ s[1] \in Words /\ t[j + 1] \in Words
      BY <1>1, <1>a, <2>1, FlatWords
    <2>8. Flat(s)[j + 2] = Cat(s[1], Flat(t)[j + 1])
      <3>1. Flat(s)[j + 2] = Cat(Cat(s[1], Flat(t)[j]), s[j + 2])
        BY <2>2, <2>3, <2>5
      <3>2. Flat(t)[j + 1] = Cat(Flat(t)[j], s[j + 2])
        BY <2>4, <2>5, <2>6
      <3>3. s[j + 2] \in Words
        BY <2>6, <2>7
      <3> HIDE DEF Flat
      <3>4. Cat(Cat(s[1], Flat(t)[j]), s[j + 2]) = Cat(s[1], Cat(Flat(t)[j], s[j + 2]))
        BY <2>7, <3>3, CatAssociative
      <3> QED BY <3>1, <3>2, <3>4
    <2> QED BY <2>5, <2>8 DEF j
  <1>4. P = Nat
    <2> HIDE DEF P
    <2>1. P \in SUBSET Nat
      BY DEF P
    <2> QED BY <1>2, <1>3, <2>1, AllNumbers
  <1>5. CASE Len(t) = 0
    <2>1. FlattenSeq(t) = t /\ t = <<>>
      BY <1>5, FlattenIs
    <2>2. FlattenSeq(s) = Flat(s)[1] /\ Flat(s)[1] = s[1]
      <3>1. Len(s) = 1
        BY <1>5
      <3> QED BY <1>1, <3>1, FlattenIs, FlatIs
    <2>3. s[1] \in Words
      BY <1>1, <1>a
    <2> QED BY <2>1, <2>2, <2>3, CatEmpty
  <1>6. CASE Len(t) # 0
    <2>1. Len(t) - 1 \in P /\ (Len(t) - 1) + 1 = Len(t) /\ Len(t) \in 1 .. Len(t)
      <3> HIDE DEF P
      <3> QED BY <1>1, <1>4, <1>6
    <2>2. Flat(s)[Len(t) + 1] = Cat(s[1], Flat(t)[Len(t)])
      BY <2>1
    <2>3. FlattenSeq(t) = Flat(t)[Len(t)] /\ FlattenSeq(s) = Flat(s)[Len(s)]
      BY <1>1, <1>6, FlattenIs
    <2>4. Flat(t)[Len(t)] \in Words /\ Flat(s)[Len(s)] \in Words
      BY <1>1, <2>1, FlatWords
    <2> HIDE DEF P
    <2> QED BY <2>2, <2>3, <2>4
  <1> QED BY <1>5, <1>6

-----------------------------------------------------------------------------
(* The fronts a search of the parser looks for end in their only key.       *)
Header == Cat(<<Mark>>, BlankLine)

LEMMA DashesIs == Dashes \in Words /\ Len(Dashes) = 2 /\ Dashes[1] = Dash /\ Dashes[2] = Dash
  <1>1. Dash \in Bytes
    BY Premises
  <1>2. Dashes \in Seq(Bytes) /\ Len(Dashes) = 2 /\ Dashes[1] = Dash /\ Dashes[2] = Dash
    BY <1>1 DEF Dashes
  <1> QED BY <1>2, AreWords

LEMMA HeaderIs ==
  /\ <<Mark>> \in Words /\ Header \in Words /\ Len(Header) = 5 /\ Header[1] = Mark
  /\ Header[2] = Cr /\ Header[3] = Lf /\ Header[4] = Cr /\ Header[5] = Lf
  <1>1. <<Mark>> \in Words /\ Len(<<Mark>>) = 1 /\ <<Mark>>[1] = Mark
    <2>1. Mark \in Bytes
      BY Premises
    <2>2. <<Mark>> \in Seq(Bytes)
      BY <2>1
    <2> QED BY <2>2, AreWords
  <1>2. /\ Header \in Words /\ Len(Header) = Len(<<Mark>>) + Len(BlankLine)
        /\ \A i \in 1 .. Len(<<Mark>>) + Len(BlankLine) :
             Header[i] = IF i <= Len(<<Mark>>) THEN <<Mark>>[i] ELSE BlankLine[i - Len(<<Mark>>)]
    BY <1>1, BlankLineIs, CatIs, Zenon DEF Header
  <1>3. /\ Header \in Words /\ Len(Header) = 5
        /\ \A i \in 1 .. 5 : Header[i] = IF i <= 1 THEN Mark ELSE BlankLine[i - 1]
    <2> DEFINE m == <<Mark>>
    <2>1. Len(m) = 1 /\ m[1] = Mark /\ \A i \in 1 .. 5 : i <= 1 => i = 1
      BY <1>1
    <2>2. /\ Header \in Words /\ Len(Header) = Len(m) + 4
          /\ \A i \in 1 .. Len(m) + 4 : Header[i] = IF i <= Len(m) THEN m[i] ELSE BlankLine[i - Len(m)]
      BY <1>2, BlankLineIs
    <2> HIDE DEF m
    <2> QED BY <2>1, <2>2
  <1>4. 2 - 1 = 1 /\ 3 - 1 = 2 /\ 4 - 1 = 3 /\ 5 - 1 = 4 /\ {1, 2, 3, 4, 5} \subseteq 1 .. 5
    OBVIOUS
  <1> QED BY <1>1, <1>3, <1>4, BlankLineIs

(* No key occurs in less than itself.                                       *)
LEMMA TooShort ==
  ASSUME NEW key \in Keys, NEW s \in Words, Len(s) < Len(key)
  PROVE  ~Scan!Occurs(key, s)
  <1>1. Len(key) \in Nat /\ Len(s) \in Nat
    BY KeysAreKeys, LenIs
  <1>2. 0 .. Len(s) - Len(key) = {}
    BY <1>1
  <1> QED BY <1>2, OccursIs

LEMMA KeyAlone ==
  ASSUME NEW key \in Keys
  PROVE  FirstAtEnd(key, key)
  <1>1. key \in Words /\ Len(key) \in Nat \ {0}
    BY KeysAreKeys
  <1>2. key = Cat(<<>>, key) /\ <<>> \in Words
    BY <1>1, CatEmpty
  <1>3. AllButLast(key) \in Words /\ Len(AllButLast(key)) < Len(key)
    <2>1. Len(key) - 1 \in 0 .. Len(key) /\ Len(key) - 1 < Len(key)
      BY <1>1
    <2> QED BY <1>1, <2>1, SplitWord DEF AllButLast
  <1> QED BY <1>2, <1>3, TooShort DEF FirstAtEnd

LEMMA HeaderAtEnd == FirstAtEnd(BlankLine, Header)
  <1>1. BlankLine \in Keys /\ BlankLine \in Words /\ <<Mark>> \in Words /\ Header \in Words
    BY BlankLineIs, HeaderIs DEF Keys
  <1> DEFINE f == AllButLast(Header)
  <1>2. f \in Words /\ Len(f) = 4 /\ f[1] = Mark
    <2>1. 4 \in 0 .. Len(Header) /\ Len(Header) - 1 = 4 /\ 1 \in 1 .. 4
      BY HeaderIs
    <2>2. f = SubSeq(Header, 1, 4)
      BY <2>1 DEF AllButLast
    <2>3. /\ SubSeq(Header, 1, 4) \in Words /\ Len(SubSeq(Header, 1, 4)) = 4
          /\ SubSeq(Header, 1, 4)[1] = Header[1]
      BY <1>1, <2>1, SplitWord
    <2> HIDE DEF f
    <2> QED BY <2>2, <2>3, HeaderIs
  <1> HIDE DEF f
  <1>3. ~Scan!Occurs(BlankLine, f)
    <2> SUFFICES ASSUME Scan!Occurs(BlankLine, f) PROVE FALSE
      OBVIOUS
    <2>1. PICK i \in 0 .. Len(f) - Len(BlankLine) : \A p \in 1 .. Len(BlankLine) : f[i + p] = BlankLine[p]
      BY <1>1, <1>2, OccursIs
    <2>2. i = 0 /\ 1 \in 1 .. Len(BlankLine)
      BY <1>2, <2>1, BlankLineIs
    <2>3. f[0 + 1] = BlankLine[1]
      BY <2>1, <2>2
    <2> QED BY <1>2, <2>3, BlankLineIs, Premises
  <1> QED BY <1>1, <1>3 DEF FirstAtEnd, Header, f

(* A content does not contain the boundary, nor does it begin one that      *)
(* would end in the boundary behind it, whose carriage return is its only.  *)
LEMMA ContentAtEnd ==
  ASSUME NEW content \in Contents
  PROVE  /\ content \in Words /\ Cat(content, RealBoundary) \in Words
         /\ FirstAtEnd(RealBoundary, Cat(content, RealBoundary))
  <1> DEFINE b == Len(RealBoundary)
             c == Len(content)
             w == Cat(content, RealBoundary)
             f == AllButLast(w)
  <1>1. content \in Words /\ ~Scan!Occurs(RealBoundary, content)
    <2>1. content \in Seq(Bytes) /\ ~Scan!Occurs(RealBoundary, content)
      BY FormConstants
    <2> QED BY <2>1, AreWords
  <1>2. /\ RealBoundary \in Keys /\ RealBoundary \in Words /\ b \in Nat \ {0, 1} /\ c \in Nat
        /\ RealBoundary[1] = Cr /\ \A p \in 2 .. b : RealBoundary[p] # Cr
    <2>1. RealBoundary \in Keys
      BY DEF Keys
    <2>2. b = Len(Boundary) + 4 /\ Len(Boundary) \in Nat
      BY RealBoundaryIs, Premises
    <2> QED BY <1>1, <2>1, <2>2, RealBoundaryIs, LenIs
  <1>3. /\ w \in Words /\ Len(w) = c + b
        /\ \A i \in 1 .. c + b : w[i] = IF i <= c THEN content[i] ELSE RealBoundary[i - c]
    BY <1>1, <1>2, CatIs
  <1> HIDE DEF w
  <1>4. f \in Words /\ Len(f) = c + b - 1 /\ \A i \in 1 .. c + b - 1 : f[i] = w[i]
    <2>1. Len(w) - 1 \in 0 .. Len(w) /\ Len(w) - 1 = c + b - 1
      BY <1>2, <1>3
    <2> QED BY <1>3, <2>1, SplitWord DEF AllButLast
  <1> HIDE DEF f, b, c
  <1>5. ASSUME Scan!Occurs(RealBoundary, f) PROVE FALSE
    <2>0. PICK i \in 0 .. Len(f) - b : \A p \in 1 .. b : f[i + p] = RealBoundary[p]
      BY <1>2, <1>4, <1>5, OccursIs DEF b
    <2>1. i \in 0 .. (c + b - 1) - b /\ \A p \in 1 .. b : f[i + p] = RealBoundary[p]
      BY <1>4, <2>0
    <2>2. i \in Nat /\ i < c
      BY <1>2, <2>1
    <2>3. CASE i + b <= c
      <3>1. \A p \in 1 .. b : content[i + p] = RealBoundary[p]
        <4> TAKE p \in 1 .. b
        <4>1. i + p \in 1 .. c + b /\ i + p \in 1 .. c + b - 1 /\ i + p <= c
          BY <1>2, <2>2, <2>3
        <4> QED BY <1>3, <1>4, <2>1, <4>1
      <3>2. i \in 0 .. c - b
        BY <1>2, <2>2, <2>3
      <3> QED BY <1>1, <1>2, <3>1, <3>2, OccursIs DEF b, c
    <2>4. CASE ~(i + b <= c)
      <3> DEFINE p == (c + 1) - i
      <3>1. p \in 2 .. b /\ i + p = c + 1 /\ p \in 1 .. b
        BY <1>2, <2>2, <2>4
      <3>2. /\ c + 1 \in 1 .. c + b /\ c + 1 \in 1 .. c + b - 1 /\ ~(c + 1 <= c) /\ (c + 1) - c = 1
        BY <1>2
      <3> HIDE DEF p
      <3>3. f[c + 1] = RealBoundary[1] /\ f[i + p] = RealBoundary[p]
        BY <1>3, <1>4, <2>1, <3>1, <3>2
      <3> QED BY <1>2, <3>1, <3>3
    <2> QED BY <2>3, <2>4
  <1>6. w = Cat(content, RealBoundary)
    BY DEF w
  <1> QED BY <1>1, <1>3, <1>5, <1>6 DEF FirstAtEnd, f

-----------------------------------------------------------------------------
(* The body of a form, from the item behind the first k ones on.            *)
Following(k) ==
  FlattenSeq([i \in 1 .. Len(form) - k |-> Item(form[k + i], k + i = Len(form))])
After(k) == IF k = Len(form) THEN Cat(Dashes, CrLf) ELSE Cat(CrLf, Following(k))
Content(k) == Cat(Cat(form[k + 1], RealBoundary), After(k + 1))

FormOK == form \in Seq(Contents) /\ Len(form) \in Nat \ {0}

LEMMA ItemIs ==
  ASSUME NEW content \in Contents, NEW last \in BOOLEAN
  PROVE  /\ Item(content, last) \in Words
         /\ Item(content, last) =
              Cat(Header, Cat(Cat(content, RealBoundary), IF last THEN Cat(Dashes, CrLf) ELSE CrLf))
  <1> DEFINE d == IF last THEN Dashes ELSE <<>>
  <1>1. /\ <<Mark>> \in Words /\ BlankLine \in Words /\ content \in Words
        /\ RealBoundary \in Words /\ d \in Words /\ CrLf \in Words
    BY HeaderIs, BlankLineIs, ContentAtEnd, RealBoundaryIs, DashesIs, CrLfIs, CatEmpty
  <1>2. Item(content, last) = Cat(Cat(Cat(Header, Cat(content, RealBoundary)), d), CrLf)
    <2>1. Item(content, last) = Cat(Cat(Cat(Cat(Cat(<<Mark>>, BlankLine), content), RealBoundary), d), CrLf)
      BY Zenon DEF Item, Cat
    <2>2. Cat(Cat(Header, content), RealBoundary) = Cat(Header, Cat(content, RealBoundary))
      BY <1>1, HeaderIs, CatAssociative
    <2> QED BY <2>1, <2>2 DEF Header
  <1>3. Cat(d, CrLf) = IF last THEN Cat(Dashes, CrLf) ELSE CrLf
    BY <1>1, CatEmpty
  <1> HIDE DEF d
  <1>4. /\ Cat(content, RealBoundary) \in Words /\ Header \in Words /\ Cat(d, CrLf) \in Words
    BY <1>1, HeaderIs, CatAssociative
  <1>5. Cat(Cat(Cat(Header, Cat(content, RealBoundary)), d), CrLf)
          = Cat(Header, Cat(Cat(content, RealBoundary), Cat(d, CrLf)))
    <2> DEFINE m == Cat(content, RealBoundary)
    <2>1. m \in Words
      BY <1>4
    <2> HIDE DEF m
    <2>2. Cat(Cat(Cat(Header, m), d), CrLf) = Cat(Cat(Header, m), Cat(d, CrLf))
      <3>1. Cat(Header, m) \in Words
        BY <1>4, <2>1, CatAssociative
      <3> QED BY <1>1, <3>1, CatAssociative
    <2>3. Cat(Cat(Header, m), Cat(d, CrLf)) = Cat(Header, Cat(m, Cat(d, CrLf)))
      BY <1>4, <2>1, CatAssociative
    <2> QED BY <2>2, <2>3 DEF m
  <1>6. Cat(Header, Cat(Cat(content, RealBoundary), Cat(d, CrLf))) \in Words
    BY <1>4, CatAssociative
  <1> QED BY <1>2, <1>3, <1>5, <1>6

LEMMA FollowingIs ==
  ASSUME FormOK, NEW k \in 0 .. Len(form) - 1
  PROVE  /\ form[k + 1] \in Contents
         /\ After(k + 1) \in Words /\ Content(k) \in Words
         /\ Following(k) \in Words /\ Following(k) = Cat(Header, Content(k))
  <1> DEFINE it(i) == Item(form[i], i = Len(form))
             s == [i \in 1 .. Len(form) - k |-> it(k + i)]
             t == [i \in 1 .. Len(form) - (k + 1) |-> it((k + 1) + i)]
  <1>0. Len(form) \in Nat /\ k \in Nat /\ \A i \in 1 .. Len(form) : form[i] \in Contents
    BY DEF FormOK
  <1>1. \A i \in 1 .. Len(form) : it(i) \in Words
    <2> TAKE i \in 1 .. Len(form)
    <2>1. form[i] \in Contents /\ (i = Len(form)) \in BOOLEAN
      BY <1>0
    <2> QED BY <2>1, ItemIs
  <1>2. Following(k) = FlattenSeq(s) /\ Following(k + 1) = FlattenSeq(t)
    BY DEF Following
  <1>3. s[1] = it(k + 1)
    BY <1>0
  <1> HIDE DEF it
  <1>4. s \in Seq(Words) /\ t \in Seq(Words) /\ Len(s) = Len(t) + 1 /\ Len(t) = Len(form) - (k + 1)
    <2>1. /\ \A i \in 1 .. Len(form) - k : k + i \in 1 .. Len(form)
          /\ \A i \in 1 .. Len(form) - (k + 1) : (k + 1) + i \in 1 .. Len(form)
      BY <1>0
    <2>2. Len(form) - k \in Nat /\ Len(form) - (k + 1) \in Nat
      BY <1>0
    <2> QED BY <1>1, <2>1, <2>2
  <1>5. \A i \in 1 .. Len(t) : t[i] = s[i + 1]
    <2> TAKE i \in 1 .. Len(t)
    <2>1. i \in 1 .. Len(form) - (k + 1) /\ i + 1 \in 1 .. Len(form) - k /\ k + (i + 1) = (k + 1) + i
      BY <1>0, <1>4
    <2> QED BY <2>1
  <1>6. FlattenSeq(t) \in Words /\ FlattenSeq(s) \in Words /\ FlattenSeq(s) = Cat(s[1], FlattenSeq(t))
    BY <1>4, <1>5, FlattenCons
  <1>7. form[k + 1] \in Contents /\ k + 1 \in 1 .. Len(form)
    BY <1>0
  <1> DEFINE m == Cat(form[k + 1], RealBoundary)
             e == IF k + 1 = Len(form) THEN Cat(Dashes, CrLf) ELSE CrLf
             f == FlattenSeq(t)
  <1>8. m \in Words /\ Cat(Dashes, CrLf) \in Words /\ CrLf \in Words /\ Header \in Words
    BY <1>7, ContentAtEnd, CrLfIs, DashesIs, HeaderIs, CatAssociative
  <1>9. s[1] = Cat(Header, Cat(m, e))
    BY <1>3, <1>7, ItemIs DEF it
  <1>10. e \in Words /\ f \in Words
    BY <1>6, <1>8
  <1>11. After(k + 1) = Cat(e, f)
    <2>1. CASE k + 1 = Len(form)
      <3>1. Len(t) = 0
        BY <1>0, <1>4, <2>1
      <3>2. f = <<>>
        <4>1. FlattenSeq(t) = t /\ t = <<>>
          <5> HIDE DEF t
          <5> QED BY <1>4, <3>1, FlattenIs
        <4> QED BY <4>1
      <3>3. After(k + 1) = Cat(Dashes, CrLf) /\ e = Cat(Dashes, CrLf)
        BY <2>1 DEF After
      <3> HIDE DEF e, f
      <3> QED BY <1>10, <3>2, <3>3, CatEmpty
    <2>2. CASE k + 1 # Len(form)
      BY <1>2, <2>2 DEF After
    <2> QED BY <2>1, <2>2
  <1>12. Content(k) = Cat(m, After(k + 1))
    BY DEF Content
  <1> HIDE DEF m, e, f, s, t
  <1>13. After(k + 1) \in Words /\ Cat(m, e) \in Words
    BY <1>8, <1>10, <1>11, CatAssociative
  <1>14. Content(k) \in Words
    BY <1>8, <1>12, <1>13, CatAssociative
  <1>15. Cat(Cat(Header, Cat(m, e)), f) = Cat(Header, Cat(m, Cat(e, f)))
    <2>1. Cat(Cat(Header, Cat(m, e)), f) = Cat(Header, Cat(Cat(m, e), f))
      BY <1>8, <1>10, <1>13, CatAssociative
    <2>2. Cat(Cat(m, e), f) = Cat(m, Cat(e, f))
      BY <1>8, <1>10, CatAssociative
    <2> QED BY <2>1, <2>2
  <1>16. Following(k) = Cat(Header, Content(k))
    BY <1>2, <1>6, <1>9, <1>11, <1>12, <1>15 DEF f
  <1> QED BY <1>2, <1>6, <1>7, <1>13, <1>14, <1>16

LEMMA BodyIs ==
  ASSUME FormOK
  PROVE  /\ Body(form) \in Words /\ Cat(CrLf, Following(0)) \in Words
         /\ Body(form) = Cat(FirstBoundary, Cat(CrLf, Following(0)))
  <1>1. 0 \in 0 .. Len(form) - 1 /\ Len(form) - 0 = Len(form) /\ DOMAIN form = 1 .. Len(form)
    BY DEF FormOK
  <1>2. Following(0) \in Words
    BY <1>1, FollowingIs
  <1>3. Following(0) = FlattenSeq([i \in DOMAIN form |-> Item(form[i], i = Len(form))])
    <2>1. \A i \in 1 .. Len(form) : 0 + i = i
      BY <1>1
    <2>2. [i \in 1 .. Len(form) - 0 |-> Item(form[0 + i], 0 + i = Len(form))]
            = [i \in DOMAIN form |-> Item(form[i], i = Len(form))]
      BY <1>1, <2>1
    <2> QED BY <2>2 DEF Following
  <1>4. Body(form) = Cat(Cat(FirstBoundary, CrLf), Following(0))
    BY <1>3, Zenon DEF Body, Cat
  <1>5. FirstBoundary \in Words /\ CrLf \in Words
    BY FirstBoundaryIs, CrLfIs
  <1>6. Cat(CrLf, Following(0)) \in Words
    BY <1>2, <1>5, CatAssociative
  <1> QED BY <1>2, <1>4, <1>5, <1>6, CatAssociative
-----------------------------------------------------------------------------
(* What the parser has not used yet, and what the peer left away.           *)
Ahead == Cat(unread, wire)
Lost == Scan!Drop(Body(form), Len(sent))
Coming == Cat(Ahead, Lost)

Searches == {"preamble", "preambleEol", "header", "content", "eol"}
Stages == Searches \cup {"start", "file", "tail", "boundaryEol", "done", "failed", "corrupt"}

Typed ==
  /\ FormOK
  /\ {wire, unread, given, file, sent, Lost, buffer} \subseteq Words
  /\ Len(unread) <= MaxUnread /\ maxLen \in Nat
  /\ pc # "corrupt" => data \in Words
  /\ Body(form) = Cat(sent, Lost)
  /\ items \in Seq([content : Words, isFile : BOOLEAN]) /\ short \in BOOLEAN
  /\ stage \in Stages /\ pc \in {"idle", "scan", "corrupt"}

(* What a call that runs or has returned has seen.                          *)
InCall ==
  /\ match \in Keys /\ (pc # "corrupt" => Len(data) <= maxLen)
  /\ stage = "content" => match = RealBoundary
  /\ pc = "scan" => ScanP!Seeking
  /\ pc = "idle" =>
       \/ FirstAtEnd(match, data)
       \/ ~Scan!Occurs(match, data) /\ (Len(data) >= maxLen \/ Ahead = <<>>)

(* What the loop over the chunks of a large item has seen.                  *)
InFile ==
  /\ match = RealBoundary /\ ~Scan!Occurs(match, Cat(file, data))
  /\ ScanP!Recent(lastFew, match, Cat(file, data))
  /\ file # <<>> => Len(data) = Len(match)

Searched ==
  /\ stage \in Searches => InCall
  /\ stage = "file" => InFile
  /\ stage = "corrupt" => pc = "corrupt"
  /\ stage \notin Searches \cup {"corrupt"} => pc = "idle"

Reads(key, limit, left) == match = key /\ maxLen = limit /\ Cat(data, Coming) = left

OnTrack ==
  LET k == Len(items)
  IN  /\ k <= Len(form) /\ \A i \in 1 .. k : items[i].content = form[i]
      /\ \/ /\ stage = "start" /\ k = 0 /\ data = <<>>
            /\ Coming = Cat(FirstBoundary, Cat(CrLf, Following(0)))
         \/ /\ stage = "preamble" /\ k = 0
            /\ Reads(FirstBoundary, IgnoreLimit, Cat(FirstBoundary, Cat(CrLf, Following(0))))
         \/ /\ stage = "preambleEol" /\ k = 0
            /\ Reads(CrLf, IgnoreLimit, Cat(CrLf, Following(0)))
         \/ /\ stage = "header" /\ k < Len(form)
            /\ Reads(BlankLine, HeaderLimit, Cat(Header, Content(k)))
         \/ /\ stage = "content" /\ k < Len(form)
            /\ Reads(RealBoundary, MemoryLimit, Content(k))
         \/ /\ stage = "file" /\ k < Len(form)
            /\ Cat(Cat(file, data), Coming) = Content(k)
            /\ cut \/ Len(Cat(form[k + 1], RealBoundary)) > MemoryLimit
         \/ stage = "tail" /\ k >= 1 /\ Coming = After(k)
         \/ /\ stage = "boundaryEol" /\ k \in 1 .. Len(form) - 1
            /\ Coming = Cat(CrLf, Following(k))
         \/ /\ stage = "eol" /\ k \in 1 .. Len(form) - 1
            /\ Reads(CrLf, HeaderLimit, Cat(CrLf, Following(k)))
         \/ stage = "done" /\ k = Len(form)

Dry ==
  /\ cut /\ Ahead = <<>>
  /\ \/ stage \in {"preamble", "preambleEol"} /\ data = <<>> /\ match \in {FirstBoundary, CrLf}
     \/ stage \in {"header", "content"} /\ data = <<>>
     \/ stage = "tail"

Refused == cut /\ stage = "failed"

(* All bytes the parser has used, written, kept and pushed back, and those  *)
(* to come.                                                                 *)
Held == IF stage = "file" THEN file ELSE <<>>
Used == Cat(given, Cat(Held, Cat(data, Ahead)))

Astray == short \/ pc = "corrupt"
InPlace ==
  \/ Astray
  \/ (OnTrack \/ Dry \/ Refused) /\ Used = sent

(* Which items are in a file; the boundary counts as well.                  *)
PlacedExactly ==
  \A i \in DOMAIN items :
    ~cut /\ ~short => (items[i].isFile <=>
                         Len(items[i].content) + Len(RealBoundary) > MemoryLimit)

Sound == Typed /\ Searched
IInv == Sound /\ PlacedExactly /\ InPlace
-----------------------------------------------------------------------------
(* The body that was sent and what was left away of it stay the same.       *)
LEMMA FormKept ==
  ASSUME form' = form, sent' = sent
  PROVE  /\ Lost' = Lost /\ cut' = cut /\ FormOK' = FormOK /\ Body(form)' = Body(form)
         /\ \A k : Following(k)' = Following(k) /\ After(k)' = After(k) /\ Content(k)' = Content(k)
  <1>1. FormOK' = FormOK
    BY DEF FormOK
  <1>2. Body(form)' = Body(form)
    BY DEF Body, Item
  <1>3. Lost' = Lost /\ cut' = cut
    BY <1>2 DEF Lost, cut, Scan!Drop
  <1>4. \A k : Following(k)' = Following(k)
    BY DEF Following, Item
  <1>5. \A k : After(k)' = After(k)
    BY <1>4 DEF After
  <1>6. \A k : Content(k)' = Content(k)
    BY <1>5 DEF Content
  <1> QED BY <1>1, <1>2, <1>3, <1>4, <1>5, <1>6

(* A form is cut exactly when something was left away of it.                *)
LEMMA CutIs ==
  ASSUME Typed
  PROVE  cut <=> Lost # <<>>
  <1>1. sent \in Words /\ Lost \in Words /\ Body(form) = Cat(sent, Lost)
    BY DEF Typed
  <1>2. Lost = <<>> => Body(form) = sent
    BY <1>1, CatEmpty
  <1>3. Body(form) = sent => Lost = <<>>
    <2> SUFFICES ASSUME Body(form) = sent PROVE Lost = <<>>
      OBVIOUS
    <2>1. Cat(sent, Lost) = Cat(sent, <<>>)
      BY <1>1, CatEmpty
    <2> QED BY <1>1, <2>1, Cancel, CatEmpty
  <1> QED BY <1>2, <1>3 DEF cut

LEMMA Arriving ==
  ASSUME Typed
  PROVE  /\ Ahead \in Words /\ Lost \in Words /\ Coming \in Words
         /\ Ahead = <<>> => Coming = Lost
         /\ Ahead = <<>> /\ Coming # <<>> => cut
         /\ ~cut => Coming = Ahead
  <1>1. unread \in Words /\ wire \in Words /\ Lost \in Words
    BY DEF Typed
  <1>2. Ahead \in Words
    BY <1>1, CatAssociative DEF Ahead
  <1>3. Coming \in Words
    BY <1>1, <1>2, CatAssociative DEF Coming
  <1>4. Ahead = <<>> => Coming = Lost
    BY <1>1, <1>2, CatEmpty DEF Coming
  <1>5. ~cut => Coming = Ahead
    BY <1>1, <1>2, CatEmpty, CutIs DEF Coming
  <1> QED BY <1>1, <1>2, <1>3, <1>4, <1>5, CutIs

(* How a call ends that searches a key where it is first found at the end   *)
(* of front: with all of front, or with less at its limit or at the end of  *)
(* a form that was cut.                                                     *)
LEMMA SearchEnds ==
  ASSUME Typed, Searched, stage \in Searches, pc = "idle",
         NEW front \in Words, FirstAtEnd(match, front), NEW back \in Words,
         Cat(data, Coming) = Cat(front, back)
  PROVE  \/ Found /\ data = front /\ Coming = back
         \/ /\ ~Found /\ Len(data) < Len(front)
            /\ \E more \in Words : more # <<>> /\ front = Cat(data, more) /\ Coming = Cat(more, back)
            /\ Len(data) >= maxLen \/ (Ahead = <<>> /\ cut)
  <1>1. /\ match \in Keys /\ data \in Words /\ Coming \in Words
        /\ \/ FirstAtEnd(match, data)
           \/ ~Scan!Occurs(match, data) /\ (Len(data) >= maxLen \/ Ahead = <<>>)
    BY Arriving DEF Typed, Searched, InCall
  <1>2. CASE FirstAtEnd(match, data)
    BY <1>1, <1>2, Reached, AtEnd DEF Found
  <1>3. CASE ~Scan!Occurs(match, data) /\ (Len(data) >= maxLen \/ Ahead = <<>>)
    <2>1. PICK more \in Words : more # <<>> /\ front = Cat(data, more) /\ Coming = Cat(more, back)
      BY <1>1, <1>3, Reached
    <2>2. Len(more) \in Nat \ {0} /\ Len(data) \in Nat
      BY <1>1, <2>1, LenIs
    <2>3. Len(front) = Len(data) + Len(more) /\ Len(Coming) = Len(more) + Len(back) /\ Len(back) \in Nat
      BY <1>1, <2>1, CatIs, LenIs
    <2>4. Len(data) < Len(front) /\ Len(Coming) # 0
      BY <2>2, <2>3
    <2>5. Coming # <<>>
      BY <1>1, <2>4, LenIs
    <2> QED BY <1>3, <2>1, <2>4, <2>5, Arriving DEF Found
  <1> QED BY <1>1, <1>2, <1>3

-----------------------------------------------------------------------------
(* The searches of the parser are those of StreamScan_proof.                *)
LEMMA SameCells == ScanP!Cells = Cells /\ Seq(ScanP!Cells) = Words
  <1>1. ScanP!Cells = Cells
    BY Premises DEF ScanP!Cells
  <1> QED BY <1>1 DEF Words

LEMMA SameIterate == Scan!Iterate => ScanP!Iterate
  <1>1. /\ \A n : Scan!Chunks(n) = ScanP!Chunks(n)
        /\ \A chunk : Scan!Filled(chunk) = ScanP!Filled(chunk)
        /\ \A chunk : Scan!WireAfter(chunk) = ScanP!WireAfter(chunk)
        /\ \A chunk : Scan!Keep(chunk) = ScanP!Keep(chunk)
        /\ \A chunk, n : Scan!Cut(chunk, n) = ScanP!Cut(chunk, n)
        /\ \A chunk, memory, n : Scan!Overrun(chunk, memory, n) = ScanP!Overrun(chunk, memory, n)
    BY DEF Scan!Chunks, Scan!Filled, Scan!WireAfter, Scan!Keep, Scan!Cut, Scan!Overrun,
           Scan!Least, Scan!Drop, Scan!PushedAfter, Scan!PushBack, Scan!Fill,
           ScanP!Chunks, ScanP!Filled, ScanP!WireAfter, ScanP!Keep, ScanP!Cut, ScanP!Overrun,
           ScanP!Least, ScanP!Drop, ScanP!PushedAfter, ScanP!PushBack, ScanP!Fill
  <1>2. \A chunk, key : Scan!Memories(chunk, key) = ScanP!Memories(chunk, key)
    BY <1>1, Zenon DEF Scan!Memories, ScanP!Memories
  <1>3. \A memory, key, n, few : Scan!Find(memory, key, n, few) = ScanP!Find(memory, key, n, few)
    BY DEF Scan!Find, ScanP!Find, Scan!Starts, ScanP!Starts, Scan!MatchesAt, ScanP!MatchesAt,
           Scan!Joined, ScanP!Joined, Scan!Min, ScanP!Min
  <1>4. \A a, b : Scan!Least(a, b) = ScanP!Least(a, b)
    BY DEF Scan!Least, ScanP!Least
  <1>5. \A n : Scan!Search(n) => ScanP!Search(n)
    BY <1>1, <1>2, <1>3, Zenon DEF Scan!Search, ScanP!Search
  <1> QED BY <1>4, <1>5 DEF Scan!Iterate, ScanP!Iterate

(* A word whose end is a key is the key behind something.                   *)
LEMMA SuffixIs ==
  ASSUME NEW key \in Keys, NEW s \in Words, ScanP!IsSuffix(key, s)
  PROVE  \E t \in Words : s = Cat(t, key)
  <1> DEFINE a == Len(key)
             b == Len(s)
             rk == [i \in 1 .. a |-> key[(a - i) + 1]]
             rs == [i \in 1 .. b |-> s[(b - i) + 1]]
  <1>1. key \in Words /\ a \in Nat \ {0} /\ b \in Nat
    BY KeysAreKeys, LenIs
  <1>2. rk \in Words /\ Len(rk) = a /\ \A i \in 1 .. a : rk[i] = key[(a - i) + 1]
    <2>1. \A i \in 1 .. a : key[(a - i) + 1] \in Cells
      <3> TAKE i \in 1 .. a
      <3>1. (a - i) + 1 \in 1 .. a
        BY <1>1
      <3> QED BY <1>1, <3>1, LenIs
    <2> QED BY <1>1, <2>1 DEF Words
  <1>3. rs \in Words /\ Len(rs) = b /\ \A i \in 1 .. b : rs[i] = s[(b - i) + 1]
    <2>1. \A i \in 1 .. b : s[(b - i) + 1] \in Cells
      <3> TAKE i \in 1 .. b
      <3>1. (b - i) + 1 \in 1 .. b
        BY <1>1
      <3> QED BY <1>1, <3>1, LenIs
    <2> QED BY <1>1, <2>1 DEF Words
  <1>4. Len(rk) <= Len(rs) /\ SubSeq(rk, 1, Len(rk)) = SubSeq(rs, 1, Len(rk))
    BY DEF ScanP!IsSuffix, ScanP!IsPrefix, ScanP!Reverse
  <1> HIDE DEF rk, rs, a, b
  <1>5. a <= b /\ \A i \in 1 .. a : rk[i] = rs[i]
    <2>1. a \in 0 .. Len(rk) /\ a \in 0 .. Len(rs) /\ Len(rk) = a
      BY <1>1, <1>2, <1>3, <1>4
    <2>2. \A i \in 1 .. a : SubSeq(rk, 1, a)[i] = rk[i] /\ SubSeq(rs, 1, a)[i] = rs[i]
      BY <1>2, <1>3, <2>1, SplitWord
    <2> QED BY <1>2, <1>3, <1>4, <2>1, <2>2
  <1>6. b - a \in 0 .. Len(s)
    BY <1>1, <1>5 DEF b
  <1> DEFINE t == SubSeq(s, 1, b - a)
             d == Scan!Drop(s, b - a)
  <1>7. t \in Words /\ d \in Words /\ Len(d) = Len(s) - (b - a) /\ Cat(t, d) = s
        /\ \A i \in 1 .. Len(s) - (b - a) : d[i] = s[(b - a) + i]
    BY <1>6, SplitWord
  <1> HIDE DEF t, d
  <1>8. Len(d) = a /\ \A i \in 1 .. a : d[i] = s[(b - a) + i]
    <2>1. Len(s) - (b - a) = a
      BY <1>1 DEF b
    <2> QED BY <1>7, <2>1
  <1>9. \A i \in 1 .. a : d[i] = key[i]
    <2> TAKE i \in 1 .. a
    <2>1. (a - i) + 1 \in 1 .. a /\ (a - i) + 1 \in 1 .. b
      BY <1>1, <1>5
    <2>2. rk[(a - i) + 1] = key[(a - ((a - i) + 1)) + 1] /\ rs[(a - i) + 1] = s[(b - ((a - i) + 1)) + 1]
      BY <1>2, <1>3, <2>1
    <2>3. (a - ((a - i) + 1)) + 1 = i /\ (b - ((a - i) + 1)) + 1 = (b - a) + i
      BY <1>1
    <2> QED BY <1>5, <1>8, <2>1, <2>2, <2>3
  <1>10. d = key
    BY <1>1, <1>7, <1>8, <1>9, SameWords DEF a
  <1> QED BY <1>7, <1>10

(* What a search finds, it finds for the first time at the end.             *)
LEMMA FoundAtEnd ==
  ASSUME NEW key \in Keys, NEW s \in Words, ScanP!IsSuffix(key, s),
         ~ScanP!Occurs(key, SubSeq(s, 1, Len(s) - 1))
  PROVE  FirstAtEnd(key, s)
  <1>1. PICK t \in Words : s = Cat(t, key)
    BY SuffixIs
  <1>2. Len(s) \in Nat \ {0}
    <2>1. key \in Words /\ Len(key) \in Nat \ {0} /\ Len(t) \in Nat
      BY KeysAreKeys, LenIs
    <2>2. Len(s) = Len(t) + Len(key)
      BY <1>1, <2>1, CatIs
    <2> QED BY <2>1, <2>2
  <1>3. AllButLast(s) \in Words
    <2>1. Len(s) - 1 \in 0 .. Len(s)
      BY <1>2
    <2> QED BY <2>1, SplitWord DEF AllButLast
  <1>4. ~Scan!Occurs(key, AllButLast(s))
    BY <1>3, OccursIs DEF AllButLast
  <1> QED BY <1>1, <1>4 DEF FirstAtEnd

LEMMA IsStored == Typed /\ pc # "corrupt" => ScanP!Stored
  BY DEF Typed, ScanP!Stored, Words

(* The word a call holds and what is ahead of it stay the same together     *)
(* while it goes on.                                                        *)
LEMMA Iterates ==
  ASSUME Typed, Searched, Scan!Iterate, UNCHANGED formVars
  PROVE  /\ Typed' /\ Searched' /\ pc = "scan" /\ stage \in Searches /\ match \in Keys
         /\ UNCHANGED <<match, maxLen, sent, given, formVars>>
         /\ pc' # "corrupt" => Cat(data', Ahead') = Cat(data, Ahead)
  <1>1. ScanP!Iterate /\ pc = "scan"
    BY SameIterate DEF Scan!Iterate
  <1>2. stage \in Searches /\ match \in Keys /\ ScanP!Seeking
    <2>1. stage # "corrupt" /\ stage \in Searches
      BY <1>1 DEF Searched
    <2> QED BY <1>1, <2>1 DEF Searched, InCall
  <1>3. ScanP!Stored
    BY <1>1, IsStored
  <1>4. /\ ScanP!Stored' /\ UNCHANGED <<match, maxLen, sent, given>>
        /\ pc' # "corrupt" =>
             /\ data' \o (unread' \o wire') = data \o (unread \o wire)
             /\ Len(data') <= maxLen
    BY <1>1, <1>3, ScanPremises, ScanP!IterateMoves
  <1>5. /\ data' \in Words /\ ScanP!Buffered' /\ pc' \in {"idle", "scan", "corrupt"}
        /\ pc' = "scan" => ScanP!Seeking'
    BY <1>1, <1>2, <1>3, ScanPremises, ScanP!IterateSeeks, SameCells
  <1>6. pc' # "corrupt" => Cat(data', Ahead') = Cat(data, Ahead)
    BY <1>4, Zenon DEF Cat, Ahead
  <1>7. UNCHANGED <<stage, items, file, form, short>>
    BY DEF formVars
  <1>8. Lost' = Lost /\ cut' = cut /\ FormOK' = FormOK /\ Body(form)' = Body(form)
    BY <1>4, <1>7, FormKept
  <1>9. Typed'
    <2>1. buffer' \in Words
      BY <1>5, SameCells DEF ScanP!Buffered
    <2>2. wire' \in Words /\ unread' \in Words /\ Len(unread') <= MaxUnread
      BY <1>4 DEF ScanP!Stored, Words
    <2> QED BY <1>4, <1>5, <1>7, <1>8, <2>1, <2>2 DEF Typed
  <1>10. ASSUME pc' = "idle" PROVE FirstAtEnd(match, data')
    <2>1. ScanP!IsSuffix(match, data') /\ ~ScanP!Occurs(match, SubSeq(data', 1, Len(data') - 1))
      BY <1>1, <1>2, <1>3, <1>10, ScanPremises, KeysForeign, ScanP!IterateFinds
    <2> QED BY <1>2, <1>5, <2>1, FoundAtEnd
  <1>11. InCall'
    <2>1. match' = match /\ maxLen' = maxLen /\ stage' = stage
      BY <1>4, <1>7
    <2>2. stage = "content" => match = RealBoundary
      BY <1>2 DEF Searched, InCall
    <2> QED BY <1>2, <1>4, <1>5, <1>10, <2>1, <2>2 DEF InCall
  <1>12. Searched'
    BY <1>2, <1>7, <1>11 DEF Searched, Searches
  <1> QED BY <1>1, <1>2, <1>4, <1>6, <1>7, <1>9, <1>12 DEF formVars

(* A call searches from the place where the one before it has stopped.      *)
LEMMA Calls ==
  ASSUME Typed, Searched, stage # "file", NEW key \in Keys, NEW limit \in CallLimits,
         NEW s \in Searches, CallIn(s, key, limit), UNCHANGED <<items, file>>,
         s = "content" => key = RealBoundary
  PROVE  /\ Typed' /\ Searched' /\ pc = "idle" /\ pc' = "scan" /\ stage' = s
         /\ match' = key /\ maxLen' = limit /\ data' = <<>> /\ given' = Cat(given, data)
         /\ Ahead' = Ahead /\ Coming' = Coming /\ Used' = Used
         /\ UNCHANGED <<items, file, form, sent, short>>
  <1>1. /\ pc = "idle" /\ pc' = "scan" /\ stage' = s
        /\ match' = key /\ maxLen' = limit /\ data' = <<>> /\ given' = Cat(given, data)
        /\ buffer' = [i \in 1 .. BufferSize |-> 0] /\ lastFew' = Scan!Filler(key)
        /\ UNCHANGED <<wire, unread, sent, form, items, file, short>>
    BY Zenon DEF CallIn, Scan!Call, Cat
  <1>2. Ahead' = Ahead
    BY <1>1 DEF Ahead
  <1>3. Lost' = Lost /\ cut' = cut /\ FormOK' = FormOK /\ Body(form)' = Body(form)
    BY <1>1, FormKept
  <1>4. Coming' = Coming
    BY <1>2, <1>3 DEF Coming
  <1>5. given \in Words /\ data \in Words /\ Ahead \in Words /\ <<>> \in Words
    BY <1>1, Arriving, CatEmpty DEF Typed
  <1>6. Used' = Used
    <2>1. Held' = <<>> /\ Held = <<>>
      <3>1. s # "file"
        BY DEF Searches
      <3> QED BY <1>1, <3>1 DEF Held
    <2>2. Used' = Cat(Cat(given, data), Cat(<<>>, Cat(<<>>, Ahead)))
      BY <1>1, <1>2, <2>1 DEF Used
    <2>3. Used = Cat(given, Cat(<<>>, Cat(data, Ahead)))
      BY <2>1 DEF Used
    <2>4. Cat(<<>>, Ahead) = Ahead /\ Cat(<<>>, Cat(data, Ahead)) = Cat(data, Ahead)
      BY <1>5, CatEmpty, CatAssociative
    <2>5. Cat(Cat(given, data), Ahead) = Cat(given, Cat(data, Ahead))
      BY <1>5, CatAssociative
    <2> QED BY <2>2, <2>3, <2>4, <2>5
  <1>7. ScanP!Buffered'
    <2>1. /\ [i \in 1 .. BufferSize |-> 0] \in Seq(ScanP!Cells)
          /\ Len([i \in 1 .. BufferSize |-> 0]) = BufferSize
      BY ScanPremises, ScanP!NewBuffer
    <2> QED BY <1>1, <2>1 DEF ScanP!Buffered
  <1>8. ScanP!Seeking'
    <2>1. ScanP!Recent(ScanP!Filler(key), key, <<>>)
      BY ScanPremises, ScanP!FillerRecent
    <2>2. Scan!Filler(key) = ScanP!Filler(key)
      BY DEF Scan!Filler, ScanP!Filler, Scan!Last, ScanP!Last
    <2>3. ~ScanP!Occurs(key, <<>>)
      <3>1. Len(<<>>) < Len(key)
        BY KeysAreKeys, LenIs, <1>5
      <3> QED BY <1>5, <3>1, TooShort, OccursIs
    <2> QED BY <1>1, <1>7, <2>1, <2>2, <2>3 DEF ScanP!Seeking
  <1>9. limit \in Nat /\ buffer' \in Words
    BY <1>7, ScanPremises, SameCells DEF ScanP!Buffered
  <1>10. Typed'
    <2>1. given' \in Words /\ data' \in Words
      BY <1>1, <1>5, CatAssociative
    <2> QED BY <1>1, <1>3, <1>9, <2>1 DEF Typed, Stages
  <1>11. Searched'
    <2>1. Len(data') <= maxLen'
      BY <1>1, <1>9
    <2>2. InCall'
      BY <1>1, <1>8, <2>1 DEF InCall
    <2> QED BY <1>1, <2>2 DEF Searched, Searches
  <1> QED BY <1>1, <1>2, <1>4, <1>6, <1>10, <1>11

-----------------------------------------------------------------------------
(* What any step does, and what a step of a parser that is not astray does  *)
(* to the delivery of the items.                                            *)
Out ==
  IF Astray THEN "astray" ELSE IF stage = "done" THEN "complete"
  ELSE IF Ended THEN "givenUp" ELSE "open"

Adds(content, isFile) == items' = Append(items, [content |-> content, isFile |-> isFile])

Lasting ==
  /\ UNCHANGED <<form, sent>> /\ (short => short')
  /\ (Astray => Astray') /\ (Astray' => Astray \/ Out = "open")
  /\ \/ items' = items
     \/ (Astray' => Astray) /\ pc' = "idle" /\ \E content \in Words, isFile \in BOOLEAN : Adds(content, isFile)

Arrives(content, isFile) ==
  LET k == Len(items)
  IN  /\ k < Len(form) /\ Adds(content, isFile)
      /\ \E n \in 0 .. Len(form[k + 1]) :
           (n = Len(form[k + 1]) \/ cut) /\ content = SubSeq(form[k + 1], 1, n)

Step ==
  \/ UNCHANGED <<items, Out>>
  \/ items' = items /\ Out = "open" /\ Out' = "givenUp"
  \/ items' = items /\ Out = "open" /\ Out' = "complete"
     /\ Len(items) = Len(form) /\ \A i \in 1 .. Len(items) : items[i].content = form[i]
  \/ /\ Out = "open" /\ Out' = "open"
     /\ \E content \in Words, isFile \in BOOLEAN : Arrives(content, isFile)

(* A step that does not lead astray, and what is to be shown of it.         *)
Forward == IInv /\ Sound' /\ Lasting /\ ~Astray'
Onward == PlacedExactly' /\ InPlace' /\ Step

LEMMA Places ==
  ASSUME Forward
  PROVE  /\ Typed /\ Searched /\ PlacedExactly /\ FormOK /\ data \in Words /\ sent \in Words
         /\ (OnTrack \/ Dry \/ Refused) /\ Used = sent
         /\ ~Astray /\ ~short /\ pc # "corrupt" /\ ~short' /\ pc' # "corrupt"
         /\ UNCHANGED <<form, sent, cut, Lost, short>>
  <1>1. Typed /\ Searched /\ PlacedExactly /\ FormOK /\ UNCHANGED <<form, sent>>
    BY DEF Forward, IInv, Sound, Typed, Lasting
  <1>2. ~Astray /\ ~short /\ pc # "corrupt" /\ ~short' /\ pc' # "corrupt"
    BY DEF Forward, Lasting, Astray
  <1>3. data \in Words /\ sent \in Words
    BY <1>1, <1>2 DEF Typed
  <1>4. (OnTrack \/ Dry \/ Refused) /\ Used = sent
    BY <1>2 DEF Forward, IInv, InPlace
  <1>5. UNCHANGED <<cut, Lost>>
    BY <1>1, FormKept
  <1>6. UNCHANGED short
    <2>1. short \in BOOLEAN /\ short' \in BOOLEAN
      BY DEF Forward, IInv, Sound, Typed
    <2> QED BY <1>2, <2>1
  <1> QED BY <1>1, <1>2, <1>3, <1>4, <1>5, <1>6

LEMMA Goes ==
  ASSUME Forward, PlacedExactly', (OnTrack \/ Dry \/ Refused)', Used' = sent, Step
  PROVE  Onward
  BY Places DEF Onward, InPlace

(* Items that stay where they are.                                          *)
LEMMA PlacedStays == Forward /\ items' = items => PlacedExactly'
  BY Places DEF PlacedExactly

(* A call delivers nothing, and reads on from where the parser is.          *)
LEMMA CallSound ==
  ASSUME Sound, stage # "file", NEW key \in Keys, NEW limit \in CallLimits, NEW s \in Searches,
         CallIn(s, key, limit), UNCHANGED <<items, file>>, s = "content" => key = RealBoundary
  PROVE  Sound' /\ Lasting
  <1>1. /\ Typed' /\ Searched' /\ pc = "idle" /\ pc' = "scan"
        /\ UNCHANGED <<items, form, sent, short>>
    BY Calls DEF Sound
  <1> QED BY <1>1 DEF Sound, Lasting, Astray

LEMMA CallSteps ==
  ASSUME Forward, stage \notin {"file", "done", "failed"},
         NEW key \in Keys, NEW limit \in CallLimits, NEW s \in Searches,
         CallIn(s, key, limit), UNCHANGED <<items, file>>, s = "content" => key = RealBoundary
  PROVE  /\ PlacedExactly' /\ Step
         /\ stage' = s /\ match' = key /\ maxLen' = limit /\ data' = <<>>
         /\ Cat(data', Coming') = Coming /\ Ahead' = Ahead /\ Used' = sent
         /\ UNCHANGED <<items, form, sent, cut>>
  <1>1. Typed /\ Searched /\ Used = sent /\ ~Astray /\ ~Astray' /\ UNCHANGED cut
    BY Places DEF Forward
  <1>2. /\ pc = "idle" /\ pc' = "scan" /\ stage' = s
        /\ match' = key /\ maxLen' = limit /\ data' = <<>>
        /\ Ahead' = Ahead /\ Coming' = Coming /\ Used' = Used
        /\ UNCHANGED <<items, file, form, sent>>
    BY <1>1, Calls
  <1>3. PlacedExactly'
    BY <1>2, PlacedStays
  <1>4. Cat(data', Coming') = Coming
    BY <1>1, <1>2, Arriving, CatEmpty
  <1>5. Out = "open" /\ Out' = "open"
    BY <1>1, <1>2 DEF Out, Ended, Searched, Searches
  <1> QED BY <1>1, <1>2, <1>3, <1>4, <1>5 DEF Step

LEMMA StartSound == Sound /\ Start => Sound' /\ Lasting
  BY CallSound DEF Start, Returned, Keys, CallLimits, Searches

LEMMA StartStep ==
  ASSUME Forward, Start
  PROVE  Onward
  <1>1. stage = "start" /\ CallIn("preamble", FirstBoundary, IgnoreLimit) /\ UNCHANGED <<items, file>>
    BY DEF Start, Returned
  <1>2. /\ PlacedExactly' /\ Step /\ stage' = "preamble" /\ match' = FirstBoundary /\ maxLen' = IgnoreLimit
        /\ Cat(data', Coming') = Coming /\ Used' = sent
        /\ UNCHANGED <<items, form, sent>>
    BY <1>1, CallSteps DEF Keys, CallLimits, Searches
  <1>3. OnTrack
    BY <1>1, Places DEF Dry, Refused
  <1>4. OnTrack'
    BY <1>1, <1>2, <1>3, FormKept DEF OnTrack, Reads
  <1> QED BY <1>2, <1>4, Goes

(* Keys and limits.                                                         *)
LEMMA Fixed ==
  /\ {FirstBoundary, CrLf, BlankLine, RealBoundary, Header, Dashes} \subseteq Words
  /\ {FirstBoundary, CrLf, BlankLine, RealBoundary} \subseteq Keys
  /\ {IgnoreLimit, HeaderLimit, MemoryLimit} \subseteq CallLimits
  /\ {IgnoreLimit, HeaderLimit, MemoryLimit} \subseteq Nat
  /\ Len(FirstBoundary) \in Nat \ {0} /\ Len(CrLf) = 2 /\ Len(RealBoundary) \in Nat \ {0}
  /\ Len(Header) = 5
  /\ Len(FirstBoundary) <= IgnoreLimit /\ 2 <= IgnoreLimit /\ HeaderLimit >= 6
  /\ MemoryLimit >= Len(RealBoundary) - 1
  <1>1. IgnoreLimit \in Nat /\ HeaderLimit \in Nat /\ MemoryLimit \in Nat /\ Len(Boundary) \in Nat \ {0}
    BY Premises
  <1>2. Len(FirstBoundary) = Len(Boundary) + 2 /\ Len(RealBoundary) = Len(Boundary) + 4
    BY FirstBoundaryIs, RealBoundaryIs
  <1>3. /\ IgnoreLimit >= Len(FirstBoundary) /\ HeaderLimit >= Len(CrLf \o BlankLine)
        /\ MemoryLimit >= Len(RealBoundary) - 1
    BY FormConstants
  <1>4. Len(CrLf \o BlankLine) = Len(CrLf) + Len(BlankLine)
    BY CrLfIs, BlankLineIs, ConcatIs
  <1>5. HeaderLimit >= 6
    BY <1>1, <1>3, <1>4, CrLfIs, BlankLineIs
  <1> QED BY <1>1, <1>2, <1>3, <1>5, FirstBoundaryIs, CrLfIs, BlankLineIs, RealBoundaryIs,
             HeaderIs, DashesIs DEF Keys, CallLimits

LEMMA NothingFound ==
  ASSUME NEW key \in Keys
  PROVE  <<>> \in Words /\ Len(<<>>) = 0 /\ ~Scan!Occurs(key, <<>>)
  <1>1. <<>> \in Words /\ Len(<<>>) = 0 /\ Len(key) \in Nat \ {0}
    BY KeysAreKeys, CatEmpty
  <1>2. Len(<<>>) < Len(key)
    BY <1>1
  <1> QED BY <1>1, <1>2, TooShort

LEMMA StartIs == FormOK => Following(0) \in Words /\ Cat(CrLf, Following(0)) \in Words
  <1> SUFFICES ASSUME FormOK PROVE Following(0) \in Words /\ Cat(CrLf, Following(0)) \in Words
    OBVIOUS
  <1>1. 0 \in 0 .. Len(form) - 1
    BY DEF FormOK
  <1> QED BY <1>1, FollowingIs, BodyIs

(* ignoreStreamUntil ends at its key, or goes on for ever at the end of a   *)
(* form that was cut.                                                       *)
LEMMA IgnoreEnds ==
  ASSUME Forward, pc = "idle", stage \in {"preamble", "preambleEol"}
  PROVE  /\ Found => OnTrack /\ data = match /\ match = (IF stage = "preamble" THEN FirstBoundary ELSE CrLf)
                     /\ Coming = IF stage = "preamble" THEN Cat(CrLf, Following(0)) ELSE Following(0)
         /\ ~Found => cut /\ Ahead = <<>> /\ match \in {FirstBoundary, CrLf}
  <1>1. /\ Typed /\ Searched /\ data \in Words /\ (OnTrack \/ Dry)
        /\ Following(0) \in Words /\ Cat(CrLf, Following(0)) \in Words /\ stage \in Searches
    BY Places, StartIs DEF Refused, Searches
  <1>2. CASE OnTrack
    <2> DEFINE front == IF stage = "preamble" THEN FirstBoundary ELSE CrLf
               back == IF stage = "preamble" THEN Cat(CrLf, Following(0)) ELSE Following(0)
    <2>1. match = front /\ maxLen = IgnoreLimit /\ Cat(data, Coming) = Cat(front, back)
      BY <1>2 DEF OnTrack, Reads
    <2>2. front \in Keys /\ front \in Words /\ back \in Words /\ Len(front) <= IgnoreLimit
      BY <1>1, Fixed
    <2> HIDE DEF front, back
    <2>3. FirstAtEnd(match, front)
      BY <2>1, <2>2, KeyAlone
    <2>4. \/ Found /\ data = front /\ Coming = back
          \/ ~Found /\ Len(data) < Len(front) /\ (Len(data) >= maxLen \/ (Ahead = <<>> /\ cut))
      BY <1>1, <2>1, <2>2, <2>3, SearchEnds
    <2>5. Len(data) < Len(front) => ~(Len(data) >= maxLen)
      BY <1>1, <2>1, <2>2, LenIs, Fixed
    <2>6. match \in {FirstBoundary, CrLf}
      BY <2>1 DEF front
    <2> QED BY <1>1, <1>2, <2>1, <2>4, <2>5, <2>6 DEF front, back
  <1>3. CASE Dry
    <2>1. match \in {FirstBoundary, CrLf} /\ data = <<>> /\ cut /\ Ahead = <<>>
      BY <1>3 DEF Dry
    <2>2. ~Found
      <3>1. match \in Keys
        BY <2>1, Fixed
      <3> QED BY <2>1, <3>1, NothingFound DEF Found
    <2> QED BY <1>1, <2>1, <2>2
  <1> QED BY <1>1, <1>2, <1>3

LEMMA IgnoreMoreSound == Sound /\ IgnoreMore => Sound' /\ Lasting
  <1> SUFFICES ASSUME Sound, IgnoreMore PROVE Sound' /\ Lasting
    OBVIOUS
  <1>1. /\ stage \in {"preamble", "preambleEol"}
        /\ CallIn(stage, match, IgnoreLimit) /\ UNCHANGED <<items, file>>
    BY DEF IgnoreMore, Returned
  <1>2. match \in Keys /\ IgnoreLimit \in CallLimits /\ stage \in Searches
    BY <1>1, Fixed DEF Sound, Searched, InCall, Searches
  <1> QED BY <1>1, <1>2, CallSound

LEMMA IgnoreMoreStep ==
  ASSUME Forward, IgnoreMore
  PROVE  Onward
  <1>1. /\ stage \in {"preamble", "preambleEol"} /\ pc = "idle" /\ ~Found
        /\ CallIn(stage, match, IgnoreLimit) /\ UNCHANGED <<items, file>>
    BY DEF IgnoreMore, Returned
  <1>2. cut /\ Ahead = <<>> /\ match \in {FirstBoundary, CrLf}
    BY <1>1, IgnoreEnds
  <1>3. match \in Keys /\ IgnoreLimit \in CallLimits /\ stage \in Searches
    BY <1>1, <1>2, Fixed DEF Searches
  <1>4. /\ PlacedExactly' /\ Step
        /\ stage' = stage /\ match' = match /\ data' = <<>> /\ Ahead' = Ahead /\ Used' = sent
        /\ UNCHANGED <<form, sent, cut>>
    BY <1>1, <1>3, CallSteps
  <1>5. Dry'
    BY <1>1, <1>2, <1>4 DEF Dry
  <1> QED BY <1>4, <1>5, Goes

LEMMA IgnoreEolSound == Sound /\ IgnoreEol => Sound' /\ Lasting
  BY CallSound, Fixed DEF IgnoreEol, Returned, Searches

LEMMA IgnoreEolStep ==
  ASSUME Forward, IgnoreEol
  PROVE  Onward
  <1>1. /\ stage = "preamble" /\ pc = "idle" /\ Found
        /\ CallIn("preambleEol", CrLf, IgnoreLimit) /\ UNCHANGED <<items, file>>
    BY DEF IgnoreEol, Returned
  <1>2. OnTrack /\ Coming = Cat(CrLf, Following(0))
    BY <1>1, IgnoreEnds
  <1>3. /\ PlacedExactly' /\ Step
        /\ stage' = "preambleEol" /\ match' = CrLf /\ maxLen' = IgnoreLimit
        /\ Cat(data', Coming') = Coming /\ Used' = sent
        /\ UNCHANGED <<items, form, sent>>
    BY <1>1, CallSteps, Fixed DEF Searches
  <1>4. OnTrack'
    BY <1>1, <1>2, <1>3, FormKept DEF OnTrack, Reads
  <1> QED BY <1>3, <1>4, Goes

-----------------------------------------------------------------------------
LEMMA ElementsOf ==
  ASSUME NEW s \in Words, NEW t \in Words
  PROVE  /\ \A i \in 1 .. Len(s) : Cat(s, t)[i] = s[i]
         /\ Len(t) > 0 => Cat(s, t)[Len(s) + 1] = t[1] /\ Len(s) + 1 \in 1 .. Len(Cat(s, t))
  <1>1. /\ Len(s) \in Nat /\ Len(t) \in Nat /\ Len(Cat(s, t)) = Len(s) + Len(t)
        /\ \A i \in 1 .. Len(s) + Len(t) : Cat(s, t)[i] = IF i <= Len(s) THEN s[i] ELSE t[i - Len(s)]
    BY CatIs, LenIs
  <1>2. \A i \in 1 .. Len(s) : i \in 1 .. Len(s) + Len(t) /\ i <= Len(s)
    BY <1>1
  <1>3. Len(t) > 0 => /\ Len(s) + 1 \in 1 .. Len(s) + Len(t) /\ ~(Len(s) + 1 <= Len(s))
                      /\ (Len(s) + 1) - Len(s) = 1
    BY <1>1
  <1> QED BY <1>1, <1>2, <1>3

LEMMA CatFront ==
  ASSUME NEW s \in Words, NEW t \in Words
  PROVE  SubSeq(Cat(s, t), 1, Len(s)) = s
  <1>1. Len(s) \in 0 .. Len(Cat(s, t)) /\ Cat(s, t) \in Words
    BY CatIs, LenIs
  <1>2. /\ SubSeq(Cat(s, t), 1, Len(s)) \in Words /\ Len(SubSeq(Cat(s, t), 1, Len(s))) = Len(s)
        /\ \A i \in 1 .. Len(s) : SubSeq(Cat(s, t), 1, Len(s))[i] = Cat(s, t)[i]
    BY <1>1, SplitWord
  <1> DEFINE f == SubSeq(Cat(s, t), 1, Len(s))
  <1>3. \A i \in 1 .. Len(s) : Cat(s, t)[i] = s[i]
    BY ElementsOf
  <1>4. f \in Words /\ Len(f) = Len(s) /\ \A i \in 1 .. Len(f) : f[i] = s[i]
    BY <1>2, <1>3
  <1> HIDE DEF f
  <1>5. f = s
    BY <1>4, SameWords
  <1> QED BY <1>5 DEF f

(* The header of an item describes it.                                      *)
LEMMA HeaderDescribed == Described(Header)
  <1>1. DOMAIN Header = 1 .. 5 /\ 1 .. 5 = {1, 2, 3, 4, 5}
    BY HeaderIs DEF Words
  <1>2. LinesIn(Header) = {1}
    <2>1. Header[1] \in {Mark, Field} /\ \A i \in {2, 3, 4, 5} : Header[i] \notin {Mark, Field}
      BY HeaderIs, Premises
    <2> QED BY <1>1, <2>1 DEF LinesIn
  <1>3. 2 \in EndsIn(Header)
    <2>1. Header[2] = Cr /\ 1 .. 2 - 1 = {1} /\ Header[1] # Cr
      BY HeaderIs, Premises
    <2>2. \E line \in LinesIn(Header) : line < 2 /\ \A j \in line .. 2 - 1 : Header[j] # Cr
      BY <1>2, <2>1
    <2> QED BY <1>1, <2>1, <2>2 DEF EndsIn
  <1>4. 1 \in {1} \cup {i + 2 : i \in EndsIn(Header)} /\ Header[1] = Mark
    BY HeaderIs
  <1> QED BY <1>1, <1>2, <1>3, <1>4 DEF Described

(* The end of line behind a boundary, whole or at the end of a form that    *)
(* was cut.                                                                 *)
LEMMA EolEnds ==
  ASSUME Forward, pc = "idle", stage = "eol"
  PROVE  \/ /\ OnTrack /\ Len(items) \in 1 .. Len(form) - 1
            /\ Coming = Following(Len(items))
         \/ cut /\ Ahead = <<>>
  <1> DEFINE k == Len(items)
  <1>1. Typed /\ Searched /\ data \in Words /\ FormOK /\ stage \in Searches /\ OnTrack
    BY Places DEF Dry, Refused, Searches
  <1>2. Len(form) \in Nat /\ Len(data) \in Nat
    BY <1>1, LenIs DEF FormOK
  <1>3. match = CrLf /\ maxLen = HeaderLimit /\ k \in 1 .. Len(form) - 1
        /\ Cat(data, Coming) = Cat(CrLf, Following(k))
    BY <1>1 DEF OnTrack, Reads
  <1>4. Following(k) \in Words
    <2>1. k \in 0 .. Len(form) - 1
      BY <1>2, <1>3
    <2> QED BY <1>1, <2>1, FollowingIs
  <1> HIDE DEF k
  <1>5. \/ Found /\ data = CrLf /\ Coming = Following(k)
        \/ ~Found /\ Len(data) < Len(CrLf) /\ (Len(data) >= maxLen \/ (Ahead = <<>> /\ cut))
    BY <1>1, <1>3, <1>4, Fixed, KeyAlone, SearchEnds
  <1>6. Len(data) < Len(CrLf) => ~(Len(data) >= maxLen)
    BY <1>2, <1>3, Fixed
  <1> QED BY <1>1, <1>3, <1>5, <1>6 DEF k

LEMMA ReadHeaderSound == Sound /\ ReadHeader => Sound' /\ Lasting
  BY CallSound, Fixed DEF ReadHeader, Returned, Searches

LEMMA ReadHeaderStep ==
  ASSUME Forward, ReadHeader
  PROVE  Onward
  <1>1. /\ pc = "idle" /\ ((stage = "preambleEol" /\ Found) \/ stage = "eol")
        /\ CallIn("header", BlankLine, HeaderLimit) /\ UNCHANGED <<items, file>>
    BY DEF ReadHeader, Returned
  <1>2. /\ PlacedExactly' /\ Step
        /\ stage' = "header" /\ match' = BlankLine /\ maxLen' = HeaderLimit
        /\ Cat(data', Coming') = Coming /\ Ahead' = Ahead /\ data' = <<>> /\ Used' = sent
        /\ UNCHANGED <<items, form, sent, cut>>
    BY <1>1, CallSteps, Fixed DEF Searches
  <1>3. Typed /\ FormOK /\ Len(form) \in Nat
    BY Places DEF FormOK
  <1>4. ASSUME OnTrack, Len(items) \in 0 .. Len(form) - 1, Coming = Following(Len(items))
        PROVE  Onward
    <2>1. Coming = Cat(Header, Content(Len(items))) /\ Len(items) < Len(form)
      BY <1>3, <1>4, FollowingIs
    <2>2. OnTrack'
      BY <1>2, <1>4, <2>1, FormKept DEF OnTrack, Reads
    <2> QED BY <1>2, <2>2, Goes
  <1>5. CASE stage = "preambleEol" /\ Found
    <2>1. OnTrack /\ Coming = Following(0)
      BY <1>1, <1>5, IgnoreEnds
    <2>2. Len(items) = 0 /\ 0 \in 0 .. Len(form) - 1
      BY <1>3, <1>5, <2>1 DEF OnTrack, FormOK
    <2> QED BY <1>4, <2>1, <2>2
  <1>6. CASE stage = "eol"
    <2>1. CASE /\ OnTrack /\ Len(items) \in 1 .. Len(form) - 1
               /\ Coming = Following(Len(items))
      BY <1>3, <1>4, <2>1
    <2>2. CASE cut /\ Ahead = <<>>
      <3>1. Dry'
        BY <1>2, <2>2 DEF Dry
      <3> QED BY <1>2, <3>1, Goes
    <2> QED BY <1>1, <1>6, <2>1, <2>2, EolEnds
  <1> QED BY <1>1, <1>5, <1>6

(* The header of an item, whole or at the end of a form that was cut.       *)
LEMMA HeaderEnds ==
  ASSUME Forward, pc = "idle", stage = "header"
  PROVE  \/ /\ Described(data) /\ OnTrack /\ Len(items) < Len(form)
            /\ Coming = Content(Len(items))
         \/ cut /\ Ahead = <<>>
  <1> DEFINE k == Len(items)
  <1>1. /\ Typed /\ Searched /\ data \in Words /\ FormOK /\ stage \in Searches
        /\ OnTrack \/ (cut /\ Ahead = <<>>)
    BY Places DEF Dry, Refused, Searches
  <1>2. CASE OnTrack
    <2>1. match = BlankLine /\ maxLen = HeaderLimit /\ k < Len(form)
          /\ Cat(data, Coming) = Cat(Header, Content(k))
      BY <1>2 DEF OnTrack, Reads
    <2>2. Content(k) \in Words
      <3>1. k \in Nat
        BY <1>1 DEF Typed
      <3>2. k \in 0 .. Len(form) - 1
        BY <1>1, <2>1, <3>1 DEF FormOK
      <3> QED BY <1>1, <3>2, FollowingIs
    <2> HIDE DEF k
    <2>3. \/ Found /\ data = Header /\ Coming = Content(k)
          \/ ~Found /\ Len(data) < Len(Header) /\ (Len(data) >= maxLen \/ (Ahead = <<>> /\ cut))
      BY <1>1, <2>1, <2>2, Fixed, HeaderAtEnd, SearchEnds
    <2>4. Len(data) < Len(Header) => ~(Len(data) >= maxLen)
      BY <1>1, <2>1, LenIs, Fixed
    <2> QED BY <1>2, <2>1, <2>3, <2>4, HeaderDescribed DEF k
  <1> QED BY <1>1, <1>2

(* The parser throws only where the form was cut.                           *)
LEMMA ThrowSound ==
  ASSUME Sound, pc = "idle", stage # "file", Throw
  PROVE  Sound' /\ Lasting
  <1>1. /\ stage' = "failed" /\ UNCHANGED <<items, file, form, short>> /\ UNCHANGED scanVars
    BY DEF Throw
  <1>2. UNCHANGED <<pc, wire, unread, buffer, lastFew, data, match, maxLen, sent, given>>
    BY <1>1, Zenon DEF scanVars
  <1>3. /\ Lost' = Lost /\ cut' = cut /\ FormOK' = FormOK /\ Body(form)' = Body(form)
    BY <1>1, <1>2, FormKept
  <1>4. Typed'
    BY <1>1, <1>2, <1>3 DEF Sound, Typed, Stages
  <1>5. Searched'
    BY <1>1, <1>2 DEF Searched, Searches
  <1> QED BY <1>1, <1>2, <1>4, <1>5 DEF Sound, Lasting, Astray

LEMMA ThrowStep ==
  ASSUME Forward, pc = "idle", stage \notin {"file", "done", "failed"}, Throw, cut
  PROVE  Onward
  <1>1. /\ stage' = "failed" /\ UNCHANGED <<items, file>> /\ UNCHANGED scanVars
    BY DEF Throw
  <1>2. UNCHANGED <<pc, wire, unread, buffer, lastFew, data, match, maxLen, given>>
    BY <1>1, Zenon DEF scanVars
  <1>3. Used' = Used
    <2>1. Ahead' = Ahead
      BY <1>2 DEF Ahead
    <2> QED BY <1>1, <1>2, <2>1 DEF Used, Held
  <1>4. Refused'
    BY <1>1, Places DEF Refused
  <1>5. Step
    <2>1. ~Astray /\ ~Astray' /\ stage # "corrupt"
      BY Places DEF Forward, Searched
    <2>2. Out = "open" /\ Out' = "givenUp"
      BY <1>1, <2>1, Places DEF Out, Ended
    <2> QED BY <1>1, <2>2 DEF Step
  <1> QED BY <1>1, <1>3, <1>4, <1>5, Places, PlacedStays, Goes

LEMMA ReadContentSound == Sound /\ ReadContent => Sound' /\ Lasting
  <1> SUFFICES ASSUME Sound, ReadContent PROVE Sound' /\ Lasting
    OBVIOUS
  <1>1. CASE Described(data)
    BY <1>1, CallSound, Fixed DEF ReadContent, Returned, Searches
  <1>2. CASE ~Described(data)
    BY <1>2, ThrowSound DEF ReadContent, Returned
  <1> QED BY <1>1, <1>2

LEMMA ReadContentStep ==
  ASSUME Forward, ReadContent
  PROVE  Onward
  <1>1. pc = "idle" /\ stage = "header"
    BY DEF ReadContent, Returned
  <1>2. CASE Described(data)
    <2>1. CallIn("content", RealBoundary, MemoryLimit) /\ UNCHANGED <<items, file>>
      BY <1>2 DEF ReadContent
    <2>2. /\ PlacedExactly' /\ Step
          /\ stage' = "content" /\ match' = RealBoundary /\ maxLen' = MemoryLimit
          /\ Cat(data', Coming') = Coming /\ Ahead' = Ahead /\ data' = <<>>
          /\ Used' = sent /\ UNCHANGED <<items, form, sent, cut>>
      BY <1>1, <2>1, CallSteps, Fixed DEF Searches
    <2>3. CASE OnTrack /\ Len(items) < Len(form) /\ Coming = Content(Len(items))
      <3>1. OnTrack'
        BY <2>2, <2>3, FormKept DEF OnTrack, Reads
      <3> QED BY <2>2, <3>1, Goes
    <2>4. CASE cut /\ Ahead = <<>>
      <3>1. Dry'
        BY <2>2, <2>4 DEF Dry
      <3> QED BY <2>2, <3>1, Goes
    <2> QED BY <1>1, <2>3, <2>4, HeaderEnds
  <1>3. CASE ~Described(data)
    <2>1. Throw
      BY <1>3 DEF ReadContent
    <2>2. cut
      BY <1>1, <1>3, HeaderEnds
    <2> QED BY <1>1, <2>1, <2>2, ThrowStep
  <1> QED BY <1>2, <1>3

-----------------------------------------------------------------------------
(* The content of an item with the boundary behind it: all of it, more of   *)
(* it than the limit, or what there is of it at the end of a form that was  *)
(* cut.                                                                     *)
LEMMA ContentEnds ==
  ASSUME Forward, pc = "idle", stage = "content"
  PROVE  LET k == Len(items)
             whole == Cat(form[k + 1], RealBoundary)
         IN  /\ match = RealBoundary
             /\ \/ /\ Found /\ OnTrack /\ k < Len(form)
                   /\ data = whole /\ Coming = After(k + 1) /\ Len(data) <= MemoryLimit
                \/ /\ ~Found /\ OnTrack /\ k < Len(form) /\ Cat(data, Coming) = Content(k)
                   /\ Len(data) < Len(whole)
                   /\ Len(data) >= MemoryLimit \/ (Ahead = <<>> /\ cut)
                \/ ~Found /\ data = <<>> /\ cut
  <1>1. /\ Typed /\ Searched /\ data \in Words /\ FormOK /\ stage \in Searches
        /\ OnTrack \/ Dry
    BY Places DEF Refused, Searches
  <1>2. CASE OnTrack
    <2> DEFINE k == Len(items)
               whole == Cat(form[k + 1], RealBoundary)
    <2>1. match = RealBoundary /\ maxLen = MemoryLimit /\ k < Len(form)
          /\ Cat(data, Coming) = Content(k)
      BY <1>2 DEF OnTrack, Reads
    <2>2. After(k + 1) \in Words /\ whole \in Words /\ FirstAtEnd(RealBoundary, whole)
      <3>1. k \in Nat
        BY <1>1 DEF Typed
      <3>2. k \in 0 .. Len(form) - 1
        BY <1>1, <2>1, <3>1 DEF FormOK
      <3> QED BY <1>1, <3>2, FollowingIs, ContentAtEnd
    <2>3. Cat(data, Coming) = Cat(whole, After(k + 1))
      BY <2>1 DEF Content
    <2>4. Len(data) <= MemoryLimit
      BY <1>1, <2>1 DEF Searched, InCall
    <2> HIDE DEF k, whole
    <2>5. \/ Found /\ data = whole /\ Coming = After(k + 1)
          \/ ~Found /\ Len(data) < Len(whole) /\ (Len(data) >= maxLen \/ (Ahead = <<>> /\ cut))
      BY <1>1, <2>1, <2>2, <2>3, SearchEnds
    <2> QED BY <1>1, <1>2, <2>1, <2>4, <2>5 DEF k, whole
  <1>3. CASE Dry
    <2>1. match = RealBoundary /\ data = <<>> /\ cut
      BY <1>1, <1>3 DEF Dry, Searched, InCall
    <2>2. ~Found
      BY <2>1, Fixed, NothingFound DEF Found
    <2> QED BY <1>1, <2>1, <2>2
  <1> QED BY <1>1, <1>2, <1>3

(* One more item.                                                           *)
LEMMA Delivers1 ==
  ASSUME Typed, PlacedExactly, NEW content \in Words, NEW isFile \in BOOLEAN, Adds(content, isFile),
         cut' = cut, short' = short,
         ~cut => (isFile <=> Len(content) + Len(RealBoundary) > MemoryLimit)
  PROVE  /\ PlacedExactly' /\ Len(items) \in Nat /\ Len(items') = Len(items) + 1
         /\ \A i \in 1 .. Len(items) : items'[i] = items[i]
         /\ items'[Len(items) + 1].content = content
  <1> DEFINE new == [content |-> content, isFile |-> isFile]
             Item1 == [content : Words, isFile : BOOLEAN]
  <1>1. items \in Seq(Item1) /\ new \in Item1 /\ new.content = content /\ new.isFile = isFile
    BY DEF Typed
  <1>2. items' = Append(items, new)
    BY DEF Adds
  <1> HIDE DEF new, Item1
  <1>3. /\ items' \in Seq(Item1) /\ Len(items) \in Nat /\ Len(items') = Len(items) + 1
        /\ \A i \in 1 .. Len(items) : items'[i] = items[i]
        /\ items'[Len(items) + 1] = new
    BY <1>1, <1>2
  <1>4. DOMAIN items = 1 .. Len(items) /\ DOMAIN items' = 1 .. Len(items')
    BY <1>1, <1>3
  <1>5. PlacedExactly'
    <2> SUFFICES ASSUME NEW i \in DOMAIN items', ~cut, ~short
                 PROVE  items'[i].isFile <=> Len(items'[i].content) + Len(RealBoundary) > MemoryLimit
      BY DEF PlacedExactly
    <2>1. i \in 1 .. Len(items) \/ i = Len(items) + 1
      BY <1>3, <1>4
    <2>2. CASE i \in 1 .. Len(items)
      BY <1>3, <1>4, <2>2 DEF PlacedExactly
    <2>3. CASE i = Len(items) + 1
      BY <1>1, <1>3, <2>3
    <2> QED BY <2>1, <2>2, <2>3
  <1> QED BY <1>1, <1>3, <1>5

LEMMA AddsTyped ==
  ASSUME Typed, NEW content \in Words, NEW isFile \in BOOLEAN, Adds(content, isFile)
  PROVE  items' \in Seq([content : Words, isFile : BOOLEAN])
  <1> DEFINE new == [content |-> content, isFile |-> isFile]
             Item1 == [content : Words, isFile : BOOLEAN]
  <1>1. items \in Seq(Item1) /\ new \in Item1 /\ items' = Append(items, new)
    BY DEF Typed, Adds
  <1> HIDE DEF new, Item1
  <1>2. items' \in Seq(Item1)
    BY <1>1
  <1> QED BY <1>2 DEF Item1

LEMMA KeepInMemorySound == Sound /\ KeepInMemory => Sound' /\ Lasting
  <1> SUFFICES ASSUME Sound, KeepInMemory PROVE Sound' /\ Lasting
    OBVIOUS
  <1> DEFINE content == SubSeq(data, 1, Len(data) - Len(match))
  <1>1. /\ pc = "idle" /\ stage = "content" /\ Found /\ Typed /\ Searched /\ data \in Words
        /\ match \in Keys
    BY DEF KeepInMemory, Returned, Sound, Typed, Searched, Searches, InCall
  <1>2. /\ Adds(content, FALSE) /\ stage' = "tail" /\ UNCHANGED <<file, form, short>> /\ UNCHANGED scanVars
    BY DEF KeepInMemory, Deliver, Adds
  <1>3. UNCHANGED <<pc, wire, unread, buffer, lastFew, data, match, maxLen, sent, given>>
    BY <1>2, Zenon DEF scanVars
  <1>4. content \in Words
    <2>1. Len(match) \in Nat \ {0} /\ Len(data) \in Nat
      BY <1>1, KeysAreKeys, LenIs
    <2>2. ASSUME Len(data) < Len(match) PROVE FALSE
      BY <1>1, <2>2, TooShort DEF Found
    <2>3. Len(data) - Len(match) \in 0 .. Len(data)
      BY <2>1, <2>2
    <2> QED BY <1>1, <2>3, SplitWord
  <1> HIDE DEF content
  <1>5. items' \in Seq([content : Words, isFile : BOOLEAN])
    BY <1>1, <1>2, <1>4, AddsTyped
  <1>6. Lost' = Lost /\ FormOK' = FormOK /\ Body(form)' = Body(form)
    BY <1>2, <1>3, FormKept
  <1>7. Typed'
    BY <1>1, <1>2, <1>3, <1>5, <1>6 DEF Typed, Stages
  <1>8. Searched'
    BY <1>1, <1>2, <1>3 DEF Searched, Searches
  <1>9. FALSE \in BOOLEAN
    OBVIOUS
  <1>10. Astray' <=> Astray
    BY <1>2, <1>3 DEF Astray
  <1> QED BY <1>1, <1>2, <1>3, <1>4, <1>7, <1>8, <1>9, <1>10 DEF Sound, Lasting

LEMMA KeepInMemoryStep ==
  ASSUME Forward, KeepInMemory
  PROVE  Onward
  <1> DEFINE k == Len(items)
             content == SubSeq(data, 1, Len(data) - Len(match))
  <1>1. /\ pc = "idle" /\ stage = "content" /\ Found /\ Typed /\ PlacedExactly /\ FormOK
        /\ Len(form) \in Nat /\ k \in Nat /\ Used = sent
        /\ UNCHANGED <<form, sent, cut, Lost, short>> /\ ~Astray /\ ~Astray'
    BY Places DEF KeepInMemory, Returned, Typed, FormOK, Forward
  <1>2. Adds(content, FALSE) /\ stage' = "tail" /\ UNCHANGED file /\ UNCHANGED scanVars
    BY DEF KeepInMemory, Deliver, Adds
  <1>3. UNCHANGED <<pc, wire, unread, buffer, lastFew, data, match, maxLen, given>>
    BY <1>2, Zenon DEF scanVars
  <1>4. /\ match = RealBoundary /\ OnTrack /\ k < Len(form)
        /\ data = Cat(form[k + 1], RealBoundary) /\ Coming = After(k + 1) /\ Len(data) <= MemoryLimit
    BY <1>1, ContentEnds
  <1>5. form[k + 1] \in Words /\ RealBoundary \in Words
        /\ Len(form[k + 1]) \in Nat /\ Len(RealBoundary) \in Nat
        /\ Len(data) = Len(form[k + 1]) + Len(RealBoundary)
    <2>1. k \in 0 .. Len(form) - 1
      BY <1>1, <1>4
    <2> HIDE DEF k
    <2>2. form[k + 1] \in Words /\ RealBoundary \in Words
      BY <1>1, <2>1, FollowingIs, ContentAtEnd, Fixed
    <2> QED BY <1>4, <2>2, CatIs, LenIs
  <1>6. content = form[k + 1]
    <2>1. Len(data) - Len(match) = Len(form[k + 1])
      BY <1>4, <1>5
    <2> QED BY <1>4, <1>5, <2>1, CatFront
  <1> HIDE DEF content, k
  <1>7. /\ PlacedExactly' /\ Len(items') = k + 1 /\ \A i \in 1 .. k : items'[i] = items[i]
        /\ items'[k + 1].content = form[k + 1]
    <2>1. ~(Len(form[k + 1]) + Len(RealBoundary) > MemoryLimit)
      BY <1>4, <1>5, Fixed
    <2> QED BY <1>1, <1>2, <1>5, <1>6, <2>1, Delivers1 DEF k
  <1>8. Ahead' = Ahead /\ Coming' = Coming
    <2>1. Ahead' = Ahead
      BY <1>3 DEF Ahead
    <2> QED BY <1>1, <2>1 DEF Coming
  <1>9. Used' = Used
    BY <1>1, <1>2, <1>3, <1>8 DEF Used, Held
  <1>10. OnTrack'
    <2>1. k + 1 <= Len(form) /\ k + 1 >= 1
      BY <1>1, <1>4
    <2>2. \A i \in 1 .. k + 1 : items'[i].content = form[i]
      <3> TAKE i \in 1 .. k + 1
      <3>1. i \in 1 .. k \/ i = k + 1
        BY <1>1
      <3>2. \A j \in 1 .. k : items[j].content = form[j]
        BY <1>4 DEF OnTrack, k
      <3> QED BY <1>7, <3>1, <3>2
    <2>3. Coming' = After(k + 1)
      BY <1>4, <1>8
    <2> QED BY <1>1, <1>2, <1>7, <2>1, <2>2, <2>3, FormKept DEF OnTrack
  <1>11. Step
    <2>1. Out = "open" /\ Out' = "open"
      BY <1>1, <1>2, <1>3 DEF Out, Ended, Astray
    <2>2. Arrives(form[k + 1], FALSE)
      <3>1. Len(form[k + 1]) \in 0 .. Len(form[k + 1])
        BY <1>5
      <3>2. SubSeq(form[k + 1], 1, Len(form[k + 1])) = form[k + 1]
        BY <1>5, SubSeqFull DEF Words
      <3> QED BY <1>2, <1>4, <1>6, <3>1, <3>2 DEF Arrives, k
    <2> QED BY <1>5, <2>1, <2>2 DEF Step
  <1> QED BY <1>1, <1>7, <1>9, <1>10, <1>11, Goes

-----------------------------------------------------------------------------
(* FileOrString, beyond the limit: the last few bytes read are those the    *)
(* search goes on from.                                                     *)
LEMMA LastFewRecent ==
  ASSUME NEW key \in Keys, NEW s \in Words, Len(s) >= Len(key) - 1
  PROVE  ScanP!Recent(Scan!Drop(s, Len(s) - (Len(key) - 1)), key, s)
  <1> DEFINE m == Len(key) - 1
             n == Len(s) - m
             few == Scan!Drop(s, n)
  <1>1. m \in Nat /\ Len(s) \in Nat /\ Len(key) \in Nat /\ n \in 0 .. Len(s) /\ Len(s) - n = m
    BY KeysAreKeys, LenIs
  <1>2. few \in Words /\ Len(few) = Len(s) - n /\ \A i \in 1 .. Len(s) - n : few[i] = s[n + i]
    BY <1>1, SplitWord
  <1>3. \A i \in 1 .. m : Len(s) - Len(key) + 1 + i = n + i /\ n + i >= 1
    BY <1>1
  <1>4. few \in Words /\ Len(few) = m /\ \A i \in 1 .. m : few[i] = s[n + i]
    BY <1>1, <1>2
  <1> HIDE DEF few, n
  <1>5. few \in Seq(Nat)
    <2>1. \A i \in 1 .. m : few[i] \in Nat
      <3>1. \A i \in 1 .. m : few[i] \in Cells
        BY <1>4, LenIs
      <3> QED BY <3>1, Premises
    <2>2. Len(few) \in Nat /\ few = [i \in 1 .. Len(few) |-> few[i]]
      BY <1>1, <1>4 DEF Words
    <2> QED BY <1>4, <2>1, <2>2
  <1>6. \A i \in 1 .. Len(key) - 1 :
           few[i] = IF Len(s) - Len(key) + 1 + i >= 1
                    THEN s[Len(s) - Len(key) + 1 + i] ELSE ScanP!Filling(key)
    BY <1>3, <1>4
  <1>7. ScanP!Recent(few, key, s)
    BY <1>4, <1>5, <1>6 DEF ScanP!Recent
  <1> QED BY <1>7 DEF few, n

LEMMA SpillSound == Sound /\ Spill => Sound' /\ Lasting
  <1> SUFFICES ASSUME Sound, Spill PROVE Sound' /\ Lasting
    OBVIOUS
  <1>1. /\ pc = "idle" /\ stage = "content" /\ ~Found /\ Typed /\ Searched
        /\ data \in Words /\ match = RealBoundary /\ match \in Keys
    BY DEF Spill, Returned, Sound, Typed, Searched, Searches, InCall
  <1>2. CASE Len(data) < Len(match) - 1
    BY <1>1, <1>2, ThrowSound DEF Spill
  <1>3. CASE ~(Len(data) < Len(match) - 1)
    <2>1. /\ stage' = "file" /\ file' = <<>> /\ lastFew' = LastFew(data) /\ buffer' = <<>>
          /\ UNCHANGED <<items, form, short, pc, wire, unread, data, match, maxLen, sent, given>>
      BY <1>3 DEF Spill
    <2>2. Lost' = Lost /\ FormOK' = FormOK /\ Body(form)' = Body(form)
      BY <2>1, FormKept
    <2>3. Typed'
      BY <1>1, <2>1, <2>2, CatEmpty DEF Typed, Stages
    <2>4. InFile'
      <3>1. Cat(file', data') = data
        BY <1>1, <2>1, CatEmpty
      <3>2. ScanP!Recent(lastFew', match, data)
        <4>1. Len(data) \in Nat /\ Len(match) \in Nat
          BY <1>1, LenIs, KeysAreKeys
        <4>2. Len(data) >= Len(match) - 1
          BY <1>3, <4>1
        <4> QED BY <1>1, <2>1, <4>2, LastFewRecent DEF LastFew
      <3> QED BY <1>1, <2>1, <3>1, <3>2 DEF InFile, Found
    <2>5. Searched'
      BY <1>1, <2>1, <2>4 DEF Searched, Searches
    <2> QED BY <2>1, <2>3, <2>5 DEF Sound, Lasting, Astray
  <1> QED BY <1>2, <1>3

LEMMA SpillStep ==
  ASSUME Forward, Spill
  PROVE  Onward
  <1> DEFINE k == Len(items)
             whole == Cat(form[k + 1], RealBoundary)
  <1>1. /\ pc = "idle" /\ stage = "content" /\ ~Found /\ Typed /\ FormOK
        /\ data \in Words /\ Len(data) \in Nat /\ Used = sent
        /\ UNCHANGED <<form, sent, cut, Lost, short>> /\ ~Astray /\ ~Astray'
    BY Places, LenIs DEF Spill, Returned, Forward
  <1>2. /\ match = RealBoundary
        /\ \/ /\ OnTrack /\ k < Len(form) /\ Cat(data, Coming) = Content(k)
              /\ Len(data) < Len(whole)
              /\ Len(data) >= MemoryLimit \/ (Ahead = <<>> /\ cut)
           \/ data = <<>> /\ cut
    BY <1>1, ContentEnds
  <1>3. RealBoundary \in Words /\ Len(RealBoundary) \in Nat \ {0, 1}
    BY Fixed, KeysAreKeys
  <1>4. CASE Len(data) < Len(match) - 1
    <2>1. Throw
      BY <1>4 DEF Spill
    <2>2. cut
      <3>1. ~(Len(data) >= MemoryLimit)
        BY <1>1, <1>2, <1>3, <1>4, Fixed
      <3> QED BY <1>2, <3>1
    <2> QED BY <1>1, <2>1, <2>2, ThrowStep
  <1>5. CASE ~(Len(data) < Len(match) - 1)
    <2>1. /\ stage' = "file" /\ file' = <<>>
          /\ UNCHANGED <<items, pc, wire, unread, data, match, given>>
      BY <1>5 DEF Spill
    <2>2. /\ OnTrack /\ k < Len(form) /\ Cat(data, Coming) = Content(k) /\ Len(data) < Len(whole)
          /\ Len(data) >= MemoryLimit \/ (Ahead = <<>> /\ cut)
      <3>1. match = RealBoundary
        BY <1>2
      <3>2. Len(data) # 0
        <4>1. ~(Len(data) < Len(RealBoundary) - 1)
          BY <1>5, <3>1
        <4>2. Len(data) \in Nat /\ Len(RealBoundary) \in Nat \ {0, 1}
          BY <1>1, <1>3
        <4> HIDE DEF k, whole
        <4> QED BY <4>1, <4>2
      <3> QED BY <1>1, <1>2, <3>2, LenIs
    <2>3. Ahead' = Ahead /\ Coming' = Coming
      <3>1. Ahead' = Ahead
        BY <2>1 DEF Ahead
      <3> QED BY <1>1, <3>1 DEF Coming
    <2>4. Used' = Used
      BY <1>1, <2>1, <2>3 DEF Used, Held
    <2>5. Cat(file', data') = data
      BY <1>1, <2>1, CatEmpty
    <2>6. cut \/ Len(whole) > MemoryLimit
      <3> HIDE DEF k, whole
      <3>1. ASSUME Len(data) >= MemoryLimit PROVE Len(whole) > MemoryLimit
        <4>1. whole \in Words
          <5>1. k \in Nat
            BY <1>1 DEF Typed, k
          <5>2. k \in 0 .. Len(form) - 1
            BY <1>1, <2>2, <5>1 DEF FormOK
          <5> QED BY <1>1, <5>2, FollowingIs, ContentAtEnd DEF whole
        <4>2. Len(whole) \in Nat /\ MemoryLimit \in Nat
          BY <4>1, LenIs, Fixed
        <4> QED BY <1>1, <2>2, <3>1, <4>2
      <3> QED BY <2>2, <3>1
    <2>7. OnTrack'
      BY <1>1, <2>1, <2>2, <2>3, <2>5, <2>6, FormKept DEF OnTrack
    <2>8. Step
      <3>1. Out = "open" /\ Out' = "open"
        BY <1>1, <2>1 DEF Out, Ended, Astray
      <3> QED BY <2>1, <3>1 DEF Step
    <2> QED BY <1>1, <2>1, <2>4, <2>7, <2>8, PlacedStays, Goes
  <1> QED BY <1>4, <1>5

(* What is kept is as long as the boundary once something was written.      *)
LEMMA WrittenIs ==
  ASSUME match \in Keys, file \in Words, NEW old \in Words, NEW new \in Words, NEW whole,
         whole = Cat(old, new), file # <<>> => Len(old) = Len(match)
  PROVE  /\ Written(whole) \in Words /\ Kept(whole) \in Words /\ whole \in Words
         /\ Cat(Written(whole), Kept(whole)) = Cat(Cat(file, old), new)
         /\ Written(whole) # <<>> => Len(Kept(whole)) = Len(match)
         /\ Len(whole) >= Len(match) => Len(Kept(whole)) = Len(match)
  <1> DEFINE n == Beyond(whole)
             f == SubSeq(whole, 1, n)
             d == Scan!Drop(whole, n)
  <1>1. /\ whole \in Words /\ Len(whole) = Len(old) + Len(new)
        /\ Len(old) \in Nat /\ Len(new) \in Nat /\ Len(match) \in Nat \ {0} /\ Len(whole) \in Nat
    BY CatIs, LenIs, KeysAreKeys
  <1>2. n \in 0 .. Len(whole) /\ (Len(whole) >= Len(match) => Len(whole) - n = Len(match))
        /\ (n # 0 => Len(whole) >= Len(match))
    BY <1>1 DEF Beyond
  <1> HIDE DEF n
  <1>3. /\ f \in Words /\ Len(f) = n /\ d \in Words /\ Len(d) = Len(whole) - n /\ Cat(f, d) = whole
    BY <1>1, <1>2, SplitWord
  <1>4. Written(whole) = Cat(file, f) /\ Kept(whole) = d
    BY DEF Written, Kept, Cat, n
  <1> HIDE DEF f, d
  <1>5. Cat(file, f) \in Words
    BY <1>3, CatAssociative
  <1>6. Cat(Cat(file, f), d) = Cat(Cat(file, old), new)
    BY <1>3, CatAssociative
  <1>7. ASSUME Cat(file, f) # <<>> PROVE Len(whole) >= Len(match)
    <2>1. CASE file # <<>>
      BY <1>1, <2>1
    <2>2. CASE file = <<>>
      <3>1. Cat(file, f) = f
        BY <1>3, <2>2, CatEmpty
      <3>2. n # 0
        BY <1>3, <1>7, <3>1, LenIs
      <3> QED BY <1>2, <3>2
    <2> QED BY <2>1, <2>2
  <1> QED BY <1>1, <1>2, <1>3, <1>4, <1>5, <1>6, <1>7

-----------------------------------------------------------------------------
(* A chunk of the loop of FileOrString, and the memory its search looks at. *)
LEMMA DropAny ==
  ASSUME NEW s \in Words, NEW n \in Nat
  PROVE  Scan!Drop(s, n) \in Words
  <1>1. CASE n <= Len(s)
    BY <1>1, SplitWord, LenIs
  <1>2. CASE ~(n <= Len(s))
    <2>1. Len(s) \in Nat
      BY LenIs
    <2>2. Scan!Drop(s, n) = <<>>
      BY <1>2, <2>1 DEF Scan!Drop
    <2> QED BY <2>2, CatEmpty
  <1> QED BY <1>1, <1>2

LEMMA SpillChunk ==
  ASSUME Typed, pc = "idle", match \in Keys, NEW chunk \in Scan!Chunks(BufferSize),
         NEW memory \in Scan!Memories(chunk, match)
  PROVE  LET pushed == Scan!PushedAfter(chunk)
             ahead == Scan!WireAfter(chunk)
         IN  /\ chunk \in Words /\ pushed \in Words /\ ahead \in Words
             /\ Len(pushed) + Len(chunk) <= MaxUnread
             /\ Ahead = Cat(chunk, Cat(pushed, ahead))
             /\ ScanP!Begins(memory, chunk)
             /\ Scan!Filled(chunk) \in Words
  <1>0. ScanP!Stored /\ BufferSize \in Nat /\ buffer \in Words
    BY IsStored, Premises DEF Typed
  <1>1. /\ chunk \in ScanP!Chunks(BufferSize)
        /\ Scan!PushedAfter(chunk) = ScanP!PushedAfter(chunk)
        /\ Scan!WireAfter(chunk) = ScanP!WireAfter(chunk)
    BY DEF Scan!Chunks, ScanP!Chunks, Scan!Least, ScanP!Least, Scan!PushedAfter, ScanP!PushedAfter,
           Scan!WireAfter, ScanP!WireAfter, Scan!Drop, ScanP!Drop
  <1> DEFINE pushed == Scan!PushedAfter(chunk)
             ahead == Scan!WireAfter(chunk)
  <1>2. /\ chunk \in Seq(Cells) /\ pushed \in Seq(Cells) /\ ahead \in Seq(Cells)
        /\ Len(pushed) + Len(chunk) <= MaxUnread
        /\ chunk \o (pushed \o ahead) = unread \o wire
    <2>1. BufferSize <= BufferSize
      BY <1>0
    <2>2. /\ chunk \in Seq(Cells) /\ ScanP!PushedAfter(chunk) \in Seq(Cells)
          /\ ScanP!WireAfter(chunk) \in Seq(Cells)
          /\ Len(ScanP!PushedAfter(chunk)) + Len(chunk) <= MaxUnread
          /\ chunk \o (ScanP!PushedAfter(chunk) \o ScanP!WireAfter(chunk)) = unread \o wire
      BY <1>0, <1>1, <2>1, ScanPremises, ScanP!ChunkSplits
    <2> QED BY <1>1, <2>2
  <1> HIDE DEF pushed, ahead
  <1>3. chunk \in Words /\ pushed \in Words /\ ahead \in Words /\ Ahead = Cat(chunk, Cat(pushed, ahead))
    BY <1>2, Zenon DEF Words, Cat, Ahead
  <1> DEFINE old == Scan!Drop(buffer, Len(chunk))
             filled == Scan!Filled(chunk)
             behind == Len(match) - 1
             Ending(t) == [i \in 1 .. behind |-> IF i <= t THEN match[Len(match) - t + i] ELSE 0]
             known == Len(filled) - Len(chunk)
  <1>4. old \in Words
    BY <1>0, <1>3, DropAny, LenIs
  <1>5. filled = Cat(chunk, old)
    BY DEF Scan!Filled, Cat
  <1> HIDE DEF old
  <1>6. filled \in Words
    BY <1>3, <1>4, <1>5, CatAssociative
  <1>7. PICK t \in 0 .. (IF known < behind THEN behind ELSE 0) : memory = filled \o Ending(t)
    BY Zenon DEF Scan!Memories
  <1> HIDE DEF filled
  <1>8. Ending(t) \in Words
    <2>1. match \in Words /\ Len(match) \in Nat \ {0} /\ behind \in Nat /\ t \in Nat /\ t <= behind
      BY <1>7, KeysAreKeys
    <2>2. \A i \in 1 .. behind : (IF i <= t THEN match[Len(match) - t + i] ELSE 0) \in Cells
      <3> TAKE i \in 1 .. behind
      <3>1. i <= t => Len(match) - t + i \in 1 .. Len(match)
        BY <2>1
      <3>2. \A j \in 1 .. Len(match) : match[j] \in Cells
        BY <2>1, LenIs
      <3> QED BY <3>1, <3>2, Premises
    <2> HIDE DEF behind
    <2> QED BY <2>1, <2>2 DEF Words
  <1> DEFINE e == Ending(t)
  <1>9. memory = Cat(chunk, Cat(old, e)) /\ Cat(old, e) \in Words
    <2>1. memory = Cat(filled, e) /\ e \in Words
      BY <1>7, <1>8 DEF Cat
    <2> HIDE DEF e
    <2> QED BY <1>3, <1>4, <1>5, <2>1, CatAssociative
  <1>10. ScanP!Begins(memory, chunk)
    <2> HIDE DEF e
    <2>1. \A i \in 1 .. Len(chunk) : Cat(chunk, Cat(old, e))[i] = chunk[i]
      BY <1>3, <1>9, ElementsOf
    <2> QED BY <1>9, <2>1 DEF ScanP!Begins
  <1> QED BY <1>2, <1>3, <1>6, <1>10 DEF pushed, ahead, filled

(* Where the parser is in the loop.                                         *)
LEMMA SpillContext ==
  ASSUME Forward, stage = "file"
  PROVE  LET k == Len(items)
             whole == Cat(form[k + 1], RealBoundary)
             read == Cat(file, data)
         IN  /\ Typed /\ Searched /\ PlacedExactly /\ pc = "idle" /\ OnTrack /\ Used = sent
             /\ cut \/ Len(whole) > MemoryLimit
             /\ {file, data, given, form[k + 1], whole, read, After(k + 1)} \subseteq Words
             /\ match = RealBoundary /\ match \in Keys /\ InFile
             /\ k \in Nat /\ k < Len(form) /\ Len(form) \in Nat /\ FirstAtEnd(match, whole)
             /\ Cat(read, Coming) = Cat(whole, After(k + 1))
  <1> DEFINE k == Len(items)
             whole == Cat(form[k + 1], RealBoundary)
             read == Cat(file, data)
  <1>1. /\ Typed /\ Searched /\ PlacedExactly /\ FormOK /\ pc = "idle" /\ InFile /\ match = RealBoundary
        /\ {file, data, given} \subseteq Words /\ k \in Nat /\ Len(form) \in Nat
    BY Places DEF Searched, Searches, InFile, Typed, FormOK
  <1>2. OnTrack /\ Used = sent
    BY <1>1, Places DEF Dry, Refused
  <1>3. k < Len(form) /\ Cat(read, Coming) = Content(k) /\ (cut \/ Len(whole) > MemoryLimit)
    BY <1>2 DEF OnTrack
  <1>4. k \in 0 .. Len(form) - 1
    BY <1>1, <1>3
  <1>5. Content(k) = Cat(whole, After(k + 1))
    BY DEF Content
  <1> HIDE DEF k
  <1>6. form[k + 1] \in Words /\ whole \in Words /\ After(k + 1) \in Words
        /\ FirstAtEnd(RealBoundary, whole)
    BY <1>1, <1>4, FollowingIs, ContentAtEnd
  <1>7. read \in Words
    BY <1>1, CatAssociative
  <1> QED BY <1>1, <1>2, <1>3, <1>5, <1>6, <1>7, Fixed DEF k

(* What the search of a chunk finds behind what was read before.            *)
LEMMA SpillSearch ==
  ASSUME match \in Keys, NEW read \in Words, NEW chunk \in Words, NEW memory,
         ScanP!Begins(memory, chunk), ScanP!Recent(lastFew, match, read), ~Scan!Occurs(match, read)
  PROVE  LET end == Scan!Find(memory, match, Len(chunk), lastFew)
         IN  /\ end = -1 =>
                  /\ ~Scan!Occurs(match, Cat(read, chunk))
                  /\ ScanP!Recent(Scan!Fill(lastFew, chunk), match, Cat(read, chunk))
             /\ end \in 1 .. Len(chunk) => FirstAtEnd(match, Cat(read, SubSeq(chunk, 1, end)))
  <1> DEFINE end == Scan!Find(memory, match, Len(chunk), lastFew)
             hits == ScanP!Hits(lastFew, memory, Len(chunk), match)
  <1>1. /\ end = ScanP!Find(memory, match, Len(chunk), lastFew)
        /\ Scan!Fill(lastFew, chunk) = ScanP!Fill(lastFew, chunk)
    BY DEF Scan!Find, ScanP!Find, Scan!Starts, ScanP!Starts, Scan!MatchesAt, ScanP!MatchesAt,
           Scan!Joined, ScanP!Joined, Scan!Min, ScanP!Min, Scan!Fill, ScanP!Fill, Scan!Drop, ScanP!Drop
  <1>2. /\ Len(lastFew) = Len(match) - 1 /\ Len(chunk) \in Nat /\ Len(match) \in Nat \ {0, 1}
        /\ read \in Seq(Cells) /\ chunk \in Seq(Cells) /\ ~ScanP!Occurs(match, read)
    BY LenIs, KeysAreKeys, OccursIs DEF ScanP!Recent, Words
  <1>3. \/ hits = {} /\ end = -1
        \/ \E j \in hits : end = j + Len(match) /\ \A y \in hits : j <= y
    BY <1>1, <1>2, ScanPremises, ScanP!FindIs
  <1>4. hits \subseteq -(Len(match) - 1) .. Len(chunk)
    BY <1>2 DEF ScanP!Hits, ScanP!Starts
  <1>5. Cat(read, chunk) \in Words /\ Cat(read, chunk) = read \o chunk
    BY CatAssociative DEF Cat
  <1>6. ASSUME end = -1
        PROVE  /\ ~Scan!Occurs(match, Cat(read, chunk))
               /\ ScanP!Recent(Scan!Fill(lastFew, chunk), match, Cat(read, chunk))
    <2>1. hits = {}
      <3>1. ASSUME NEW j \in hits, end = j + Len(match) PROVE FALSE
        <4>1. j \in -(Len(match) - 1) .. Len(chunk)
          BY <1>4
        <4> HIDE DEF hits, end
        <4> QED BY <1>2, <1>6, <3>1, <4>1
      <3> QED BY <1>3, <3>1
    <2>2. ~ScanP!Occurs(match, read \o chunk)
      BY <1>2, <2>1, ScanPremises, ScanP!KeepSearch
    <2>3. ScanP!Recent(ScanP!Fill(lastFew, chunk), match, read \o chunk)
      BY <1>2, ScanPremises, ScanP!FillRecent
    <2> QED BY <1>1, <1>5, <2>2, <2>3, OccursIs
  <1>7. ASSUME end \in 1 .. Len(chunk)
        PROVE  FirstAtEnd(match, Cat(read, SubSeq(chunk, 1, end)))
    <2>1. PICK j \in hits : end = j + Len(match) /\ \A y \in hits : j <= y
      <3>1. end # -1
        <4> HIDE DEF end
        <4> QED BY <1>2, <1>7
      <3> QED BY <1>3, <3>1
    <2> DEFINE r == Cat(read, SubSeq(chunk, 1, end))
    <2>2. r = read \o SubSeq(chunk, 1, end)
      BY DEF Cat
    <2>3. ScanP!IsSuffix(match, r) /\ ~ScanP!Occurs(match, SubSeq(r, 1, Len(r) - 1))
      BY <1>2, <1>7, <2>1, <2>2, ScanPremises, KeysForeign, ScanP!CutSearch
    <2>4. r \in Words
      <3>1. end \in 0 .. Len(chunk)
        <4> HIDE DEF end
        <4> QED BY <1>2, <1>7
      <3> QED BY <3>1, SplitWord, CatAssociative
    <2> HIDE DEF r
    <2> QED BY <2>3, <2>4, FoundAtEnd DEF r
  <1> QED BY <1>6, <1>7

(* What is pushed back has room.                                            *)
LEMMA PushedBack ==
  ASSUME NEW pushed \in Words, NEW bytes \in Words, Len(pushed) + Len(bytes) <= MaxUnread
  PROVE  /\ Scan!PushBack(pushed, bytes) = Cat(bytes, pushed)
         /\ Cat(bytes, pushed) \in Words /\ Len(Cat(bytes, pushed)) <= MaxUnread
  <1>1. pushed \in Seq(Cells) /\ bytes \in Seq(Cells)
    BY DEF Words
  <1>2. Scan!PushBack(pushed, bytes) = ScanP!PushBack(pushed, bytes)
    BY DEF Scan!PushBack, ScanP!PushBack, Scan!Least, ScanP!Least
  <1>3. ScanP!PushBack(pushed, bytes) = bytes \o pushed
    BY <1>1, ScanPremises, ScanP!PushBackFits
  <1>4. Len(Cat(bytes, pushed)) = Len(bytes) + Len(pushed) /\ Len(bytes) \in Nat /\ Len(pushed) \in Nat
    BY CatIs, LenIs
  <1>5. Len(Cat(bytes, pushed)) <= MaxUnread
    BY <1>4, Premises
  <1> QED BY <1>2, <1>3, <1>5, CatAssociative DEF Cat

(* The item in the file arrives.                                            *)
LEMMA SpillDelivers ==
  ASSUME Forward, stage = "file", Deliver(file', TRUE), given' = Cat(given, file'),
         UNCHANGED pc, file' \in Words, data' \in Words, Ahead' \in Words,
         Cat(file', Cat(data', Ahead')) = Cat(file, Cat(data, Ahead)),
         \/ file' = form[Len(items) + 1] /\ Coming' = After(Len(items) + 1)
         \/ /\ cut /\ Ahead' = <<>>
            /\ \E n \in 0 .. Len(form[Len(items) + 1]) : file' = SubSeq(form[Len(items) + 1], 1, n)
  PROVE  Onward
  <1> DEFINE k == Len(items)
             whole == Cat(form[k + 1], RealBoundary)
  <1>1. /\ Typed /\ Searched /\ PlacedExactly /\ pc = "idle" /\ OnTrack /\ Used = sent
        /\ {file, data, given, form[k + 1]} \subseteq Words
        /\ k \in Nat /\ k < Len(form) /\ Len(form) \in Nat
        /\ cut \/ Len(whole) > MemoryLimit
    BY SpillContext
  <1>2. stage' = "tail" /\ Adds(file', TRUE)
    BY DEF Deliver, Adds
  <1>3. UNCHANGED <<form, sent, cut, Lost, short>> /\ ~Astray /\ ~Astray'
    BY Places DEF Forward
  <1>4. cut \/ file' = form[k + 1]
    OBVIOUS
  <1>5. ~cut => Len(file') + Len(RealBoundary) > MemoryLimit
    <2>1. Len(whole) = Len(form[k + 1]) + Len(RealBoundary)
      BY <1>1, CatIs, Fixed
    <2> HIDE DEF k, whole
    <2> QED BY <1>1, <1>4, <2>1
  <1> HIDE DEF k
  <1>6. /\ PlacedExactly' /\ Len(items') = k + 1 /\ \A i \in 1 .. k : items'[i] = items[i]
        /\ items'[k + 1].content = file'
    BY <1>1, <1>2, <1>3, <1>5, Delivers1 DEF k
  <1>7. Used' = Used
    <2>1. Used' = Cat(Cat(given, file'), Cat(<<>>, Cat(data', Ahead')))
      BY <1>2 DEF Used, Held
    <2>2. Used = Cat(given, Cat(file, Cat(data, Ahead)))
      BY DEF Used, Held
    <2>3. Cat(data', Ahead') \in Words
      BY CatAssociative
    <2>4. Cat(<<>>, Cat(data', Ahead')) = Cat(data', Ahead')
      BY <2>3, CatEmpty
    <2>5. Cat(Cat(given, file'), Cat(data', Ahead')) = Cat(given, Cat(file', Cat(data', Ahead')))
      BY <1>1, <2>3, CatAssociative
    <2> QED BY <2>1, <2>2, <2>4, <2>5
  <1>8. OnTrack' \/ Dry'
    <2>1. CASE file' = form[k + 1] /\ Coming' = After(k + 1)
      <3>1. k + 1 <= Len(form) /\ k + 1 >= 1
        BY <1>1 DEF k
      <3>2. \A i \in 1 .. k + 1 : items'[i].content = form[i]
        <4> TAKE i \in 1 .. k + 1
        <4>1. i \in 1 .. k \/ i = k + 1
          BY <1>1 DEF k
        <4>2. \A j \in 1 .. k : items[j].content = form[j]
          BY <1>1 DEF OnTrack, k
        <4> QED BY <1>6, <2>1, <4>1, <4>2
      <3> QED BY <1>2, <1>3, <1>6, <2>1, <3>1, <3>2, FormKept DEF OnTrack
    <2>2. CASE cut /\ Ahead' = <<>>
      BY <1>2, <1>3, <2>2 DEF Dry
    <2> QED BY <2>1, <2>2 DEF k
  <1>9. Step
    <2>1. Out = "open" /\ Out' = "open"
      BY <1>1, <1>2, <1>3 DEF Out, Ended, Astray
    <2>2. Arrives(file', TRUE)
      <3>1. Len(form[k + 1]) \in 0 .. Len(form[k + 1])
        BY <1>1, LenIs DEF k
      <3>2. SubSeq(form[k + 1], 1, Len(form[k + 1])) = form[k + 1]
        BY <1>1, SubSeqFull DEF Words, k
      <3>3. \E n \in 0 .. Len(form[k + 1]) :
              (n = Len(form[k + 1]) \/ cut) /\ file' = SubSeq(form[k + 1], 1, n)
        <4>1. CASE file' = form[k + 1]
          BY <3>1, <3>2, <4>1
        <4>2. CASE cut /\ \E n \in 0 .. Len(form[k + 1]) : file' = SubSeq(form[k + 1], 1, n)
          BY <4>2
        <4> QED BY <4>1, <4>2 DEF k
      <3> QED BY <1>1, <1>2, <3>3 DEF Arrives, k
    <2> QED BY <2>1, <2>2 DEF Step
  <1> QED BY <1>1, <1>6, <1>7, <1>8, <1>9, Goes

LEMMA SpillEndsSound == Sound /\ SpillEnds => Sound' /\ Lasting
  <1> SUFFICES ASSUME Sound, SpillEnds PROVE Sound' /\ Lasting
    OBVIOUS
  <1>1. /\ stage = "file" /\ file' = Written(data) /\ data' = Kept(data)
        /\ stage' = "tail" /\ Adds(file', TRUE) /\ given' = Cat(given, file')
        /\ UNCHANGED <<form, short, pc, wire, unread, buffer, lastFew, match, maxLen, sent>>
    BY DEF SpillEnds, Deliver, Adds, Cat
  <1>2. /\ Typed /\ pc = "idle" /\ match \in Keys /\ file \in Words /\ data \in Words
        /\ given \in Words /\ (file # <<>> => Len(data) = Len(match))
    BY <1>1, Fixed DEF Sound, Searched, Searches, InFile, Typed
  <1>3. file' \in Words /\ data' \in Words
    <2>1. data = Cat(data, <<>>) /\ <<>> \in Words
      BY <1>2, CatEmpty
    <2> QED BY <1>1, <1>2, <2>1, WrittenIs
  <1>4. TRUE \in BOOLEAN
    OBVIOUS
  <1>5. items' \in Seq([content : Words, isFile : BOOLEAN])
    BY <1>1, <1>2, <1>3, <1>4, AddsTyped
  <1>6. Lost' = Lost /\ FormOK' = FormOK /\ Body(form)' = Body(form)
    BY <1>1, FormKept
  <1>7. given' \in Words
    BY <1>1, <1>2, <1>3, CatAssociative
  <1>8. Typed'
    BY <1>1, <1>2, <1>3, <1>5, <1>6, <1>7 DEF Typed, Stages
  <1>9. Searched'
    BY <1>1, <1>2 DEF Searched, Searches
  <1>10. Astray' <=> Astray
    BY <1>1 DEF Astray
  <1> QED BY <1>1, <1>2, <1>3, <1>4, <1>8, <1>9, <1>10 DEF Sound, Lasting

(* Nothing of the item is left when the stream has ended: what is written   *)
(* is the beginning of it.                                                  *)
LEMMA SpillEndsStep ==
  ASSUME Forward, SpillEnds
  PROVE  Onward
  <1> DEFINE k == Len(items)
             content == form[k + 1]
             whole == Cat(content, RealBoundary)
             read == Cat(file, data)
  <1>1. /\ stage = "file" /\ unread = <<>> /\ wire = <<>>
        /\ file' = Written(data) /\ data' = Kept(data) /\ Deliver(file', TRUE)
        /\ given' = Cat(given, file')
        /\ UNCHANGED <<form, pc, wire, unread, buffer, lastFew, match, maxLen, sent>>
    BY DEF SpillEnds, Scan!StreamEnded, Cat
  <1>2. /\ Typed /\ InFile /\ match = RealBoundary /\ match \in Keys
        /\ {file, data, content, whole, read, After(k + 1)} \subseteq Words
        /\ FirstAtEnd(match, whole) /\ Cat(read, Coming) = Cat(whole, After(k + 1))
    BY <1>1, SpillContext
  <1>3. Ahead = <<>> /\ Ahead' = <<>> /\ Coming \in Words
    BY <1>1, <1>2, Arriving, CatEmpty DEF Ahead
  <1> HIDE DEF k
  <1>4. PICK more \in Words : more # <<>> /\ whole = Cat(read, more) /\ Coming = Cat(more, After(k + 1))
    <2>1. ~Scan!Occurs(match, read)
      BY <1>2 DEF InFile
    <2> HIDE DEF read, whole
    <2> QED BY <1>2, <1>3, <2>1, Reached
  <1>5. cut
    <2>1. Len(Coming) = Len(more) + Len(After(k + 1)) /\ Len(more) \in Nat \ {0} /\ Len(After(k + 1)) \in Nat
      BY <1>2, <1>4, CatIs, LenIs
    <2>2. Len(Coming) # 0
      BY <2>1
    <2> QED BY <1>2, <1>3, <2>2, Arriving, LenIs
  <1>6. /\ Written(data) \in Words /\ Kept(data) \in Words
        /\ Cat(Written(data), Kept(data)) = read
        /\ Written(data) # <<>> => Len(Kept(data)) = Len(match)
    <2>1. Cat(data, <<>>) = data /\ Cat(read, <<>>) = read /\ <<>> \in Words
      BY <1>2, CatEmpty
    <2>2. file # <<>> => Len(data) = Len(match)
      BY <1>2 DEF InFile
    <2> QED BY <1>2, <2>1, <2>2, WrittenIs
  <1>7. Len(file') <= Len(content)
    <2>1. /\ Len(read) = Len(file') + Len(data') /\ Len(whole) = Len(content) + Len(match)
          /\ Len(whole) = Len(read) + Len(more)
      <3>1. file' \in Words /\ data' \in Words /\ read = Cat(file', data')
        BY <1>1, <1>6
      <3>2. Len(read) = Len(file') + Len(data')
        <4> HIDE DEF read
        <4> QED BY <3>1, CatIs
      <3>3. RealBoundary \in Words /\ Len(whole) = Len(content) + Len(RealBoundary)
        <4> HIDE DEF content
        <4> QED BY <1>2, CatIs, Fixed
      <3>4. Len(whole) = Len(read) + Len(more)
        <4> HIDE DEF read, whole
        <4> QED BY <1>2, <1>4, CatIs
      <3> QED BY <1>2, <3>2, <3>3, <3>4
    <2>2. {Len(file'), Len(data'), Len(content), Len(match), Len(more)} \subseteq Nat
      BY <1>1, <1>2, <1>4, <1>6, LenIs, KeysAreKeys
    <2>3. CASE file' = <<>>
      <3>1. Len(file') = 0
        BY <1>1, <1>6, <2>3, LenIs
      <3> QED BY <2>2, <3>1
    <2>4. CASE file' # <<>>
      <3>1. Len(data') = Len(match)
        BY <1>1, <1>6, <2>4
      <3> HIDE DEF read, whole, content
      <3> QED BY <2>1, <2>2, <3>1
    <2> QED BY <2>3, <2>4
  <1>8. PICK rest \in Words : content = Cat(file', rest)
    <2>1. Cat(file', Cat(data', more)) = Cat(content, RealBoundary) /\ Cat(data', more) \in Words
      <3> HIDE DEF read
      <3> QED BY <1>1, <1>4, <1>6, CatAssociative
    <2> HIDE DEF read, content
    <2> QED BY <1>1, <1>2, <1>6, <1>7, <2>1, Shorter, Fixed
  <1>9. Len(file') \in 0 .. Len(content) /\ file' = SubSeq(content, 1, Len(file'))
    <2>1. SubSeq(Cat(file', rest), 1, Len(file')) = file'
      BY <1>1, <1>6, <1>8, CatFront
    <2>2. Len(file') \in Nat /\ Len(content) \in Nat
      BY <1>1, <1>2, <1>6, LenIs
    <2> HIDE DEF content
    <2> QED BY <1>7, <1>8, <2>1, <2>2
  <1>10. Cat(file', Cat(data', Ahead')) = Cat(file, Cat(data, Ahead))
    BY <1>1, <1>2, <1>3, <1>6, CatEmpty
  <1>11. Ahead' \in Words /\ file' \in Words /\ data' \in Words
    BY <1>1, <1>3, <1>6, CatEmpty
  <1> QED BY <1>1, <1>3, <1>5, <1>9, <1>10, <1>11, SpillDelivers DEF k

(* A chunk without the boundary is written but for its end; with it the     *)
(* item ends there; a match behind the chunk is read from the heap.         *)
Keeps(chunk, pushed) ==
  /\ file' = Written(Cat(data, chunk)) /\ data' = Kept(Cat(data, chunk)) /\ unread' = pushed
  /\ UNCHANGED <<stage, items, pc, given>>
  /\ ~Scan!Occurs(match, Cat(Cat(file, data), chunk))
  /\ ScanP!Recent(lastFew', match, Cat(Cat(file, data), chunk))

Cuts(chunk, pushed, first, second) ==
  /\ chunk = Cat(first, second) /\ FirstAtEnd(match, Cat(Cat(file, data), first))
  /\ file' = Written(Cat(data, first)) /\ data' = Kept(Cat(data, first))
  /\ unread' = Cat(second, pushed) /\ unread' \in Words /\ Len(unread') <= MaxUnread
  /\ Deliver(file', TRUE) /\ given' = Cat(given, file') /\ UNCHANGED pc

Overruns(pushed) ==
  /\ pc' = "corrupt" /\ stage' = "corrupt" /\ unread' = pushed
  /\ UNCHANGED <<items, file, given>>

Spilled(chunk, pushed, ahead) ==
  /\ Ahead = Cat(chunk, Cat(pushed, ahead)) /\ Len(pushed) <= MaxUnread
  /\ wire' = ahead /\ buffer' \in Words
  /\ UNCHANGED <<form, short, match, maxLen, sent>>
  /\ \/ Keeps(chunk, pushed)
     \/ \E first \in Words, second \in Words : Cuts(chunk, pushed, first, second)
     \/ Overruns(pushed)

InLoop ==
  /\ Typed /\ Searched /\ pc = "idle" /\ InFile /\ match \in Keys
  /\ file \in Words /\ data \in Words /\ given \in Words /\ Cat(file, data) \in Words
  /\ file # <<>> => Len(data) = Len(match)

LEMMA LoopIs == Sound /\ stage = "file" => InLoop
  <1> SUFFICES ASSUME Sound, stage = "file" PROVE InLoop
    OBVIOUS
  <1>1. Typed /\ Searched /\ pc = "idle" /\ InFile /\ match \in Keys
    BY Fixed DEF Sound, Searched, Searches, InFile
  <1>2. file \in Words /\ data \in Words /\ given \in Words /\ (file # <<>> => Len(data) = Len(match))
    BY <1>1 DEF Typed, InFile
  <1> QED BY <1>1, <1>2, CatAssociative DEF InLoop

LEMMA SpillMoreIs ==
  ASSUME Sound, SpillMore
  PROVE  \E chunk \in Words, pushed \in Words, ahead \in Words : Spilled(chunk, pushed, ahead)
  <1> DEFINE read == Cat(file, data)
  <1>1. InLoop /\ read \in Words /\ Typed /\ match \in Keys /\ pc = "idle" /\ InFile
    BY LoopIs DEF SpillMore, InLoop
  <1> DEFINE Finds(chunk, memory) ==
       LET end == Scan!Find(memory, match, Len(chunk), lastFew)
           all == data \o chunk
           upTo == data \o SubSeq(chunk, 1, end)
       IN  /\ buffer' = Scan!Filled(chunk)
           /\ wire' = Scan!WireAfter(chunk)
           /\ \/ /\ end = -1
                 /\ file' = Written(all) /\ data' = Kept(all)
                 /\ lastFew' = Scan!Fill(lastFew, chunk)
                 /\ unread' = Scan!PushedAfter(chunk)
                 /\ UNCHANGED <<stage, items, pc, given>>
              \/ /\ end \in 1 .. Len(chunk)
                 /\ file' = Written(upTo) /\ data' = Kept(upTo)
                 /\ unread' = Scan!PushBack(Scan!PushedAfter(chunk), Scan!Drop(chunk, end))
                 /\ Deliver(file', TRUE)
                 /\ given' = given \o file'
                 /\ UNCHANGED <<lastFew, pc>>
              \/ /\ end > Len(chunk)
                 /\ pc' = "corrupt" /\ stage' = "corrupt"
                 /\ data' = data \o SubSeq(memory, 1, end)
                 /\ unread' = Scan!PushedAfter(chunk)
                 /\ UNCHANGED <<items, file, lastFew, given>>
  <1>2. \E c \in Scan!Chunks(BufferSize) : \E m \in Scan!Memories(c, match) : Finds(c, m)
    BY Zenon DEF SpillMore
  <1>3. PICK chunk \in Scan!Chunks(BufferSize) : \E m \in Scan!Memories(chunk, match) : Finds(chunk, m)
    BY <1>2
  <1>4. PICK memory \in Scan!Memories(chunk, match) : Finds(chunk, memory)
    BY <1>3
  <1>5. UNCHANGED <<form, short, match, maxLen, sent>>
    BY DEF SpillMore
  <1> DEFINE pushed == Scan!PushedAfter(chunk)
             ahead == Scan!WireAfter(chunk)
             end == Scan!Find(memory, match, Len(chunk), lastFew)
             first == SubSeq(chunk, 1, end)
             second == Scan!Drop(chunk, end)
  <1>6. /\ chunk \in Words /\ pushed \in Words /\ ahead \in Words
        /\ Len(pushed) + Len(chunk) <= MaxUnread
        /\ Ahead = Cat(chunk, Cat(pushed, ahead))
        /\ ScanP!Begins(memory, chunk)
        /\ buffer' \in Words /\ wire' = ahead
    BY <1>1, <1>4, SpillChunk
  <1>7. /\ end = -1 => ~Scan!Occurs(match, Cat(read, chunk))
                    /\ ScanP!Recent(Scan!Fill(lastFew, chunk), match, Cat(read, chunk))
        /\ end \in 1 .. Len(chunk) => FirstAtEnd(match, Cat(read, first))
    BY <1>1, <1>6, SpillSearch DEF InFile
  <1>8. \/ /\ end = -1
           /\ file' = Written(Cat(data, chunk)) /\ data' = Kept(Cat(data, chunk))
           /\ lastFew' = Scan!Fill(lastFew, chunk)
           /\ unread' = pushed
           /\ UNCHANGED <<stage, items, pc, given>>
        \/ /\ end \in 1 .. Len(chunk)
           /\ file' = Written(Cat(data, first)) /\ data' = Kept(Cat(data, first))
           /\ unread' = Scan!PushBack(pushed, second)
           /\ Deliver(file', TRUE)
           /\ given' = Cat(given, file')
           /\ UNCHANGED pc
        \/ Overruns(pushed)
    BY <1>4, Zenon DEF Cat, Overruns
  <1> HIDE DEF pushed, ahead, end
  <1>9. Len(chunk) \in Nat /\ Len(pushed) \in Nat /\ MaxUnread \in Nat
    BY <1>6, LenIs, Premises
  <1>10. Len(pushed) <= MaxUnread
    BY <1>6, <1>9
  <1>11. CASE /\ end = -1
              /\ file' = Written(Cat(data, chunk)) /\ data' = Kept(Cat(data, chunk))
              /\ lastFew' = Scan!Fill(lastFew, chunk)
              /\ unread' = pushed
              /\ UNCHANGED <<stage, items, pc, given>>
    <2>1. Keeps(chunk, pushed)
      BY <1>7, <1>11 DEF Keeps
    <2> QED BY <1>5, <1>6, <1>10, <2>1 DEF Spilled
  <1>12. CASE /\ end \in 1 .. Len(chunk)
              /\ file' = Written(Cat(data, first)) /\ data' = Kept(Cat(data, first))
              /\ unread' = Scan!PushBack(pushed, second)
              /\ Deliver(file', TRUE)
              /\ given' = Cat(given, file')
              /\ UNCHANGED pc
    <2>1. /\ first \in Words /\ second \in Words /\ Len(second) = Len(chunk) - end
          /\ chunk = Cat(first, second)
      <3>1. end \in 0 .. Len(chunk)
        BY <1>9, <1>12
      <3> QED BY <1>6, <3>1, SplitWord
    <2>2. Len(pushed) + Len(second) <= MaxUnread
      BY <1>6, <1>9, <1>12, <2>1
    <2>3. FirstAtEnd(match, Cat(read, first))
      BY <1>7, <1>12
    <2> HIDE DEF first, second
    <2>4. unread' = Cat(second, pushed) /\ unread' \in Words /\ Len(unread') <= MaxUnread
      BY <1>6, <1>12, <2>1, <2>2, PushedBack
    <2>5. Cuts(chunk, pushed, first, second)
      BY <1>12, <2>1, <2>3, <2>4 DEF Cuts
    <2> QED BY <1>5, <1>6, <1>10, <2>1, <2>5 DEF Spilled
  <1>13. CASE Overruns(pushed)
    BY <1>5, <1>6, <1>10, <1>13 DEF Spilled
  <1> QED BY <1>8, <1>11, <1>12, <1>13

LEMMA SpillMoreSound == Sound /\ SpillMore => Sound' /\ Lasting
  <1> SUFFICES ASSUME Sound, SpillMore PROVE Sound' /\ Lasting
    OBVIOUS
  <1>1. InLoop /\ stage = "file"
    BY LoopIs DEF SpillMore
  <1>2. PICK chunk \in Words, pushed \in Words, ahead \in Words : Spilled(chunk, pushed, ahead)
    BY SpillMoreIs
  <1>3. /\ wire' \in Words /\ buffer' \in Words /\ Len(pushed) <= MaxUnread
        /\ UNCHANGED <<form, short, match, maxLen, sent>>
    BY <1>2 DEF Spilled
  <1>4. Lost' = Lost /\ FormOK' = FormOK /\ Body(form)' = Body(form)
    BY <1>3, FormKept
  <1>5. CASE Keeps(chunk, pushed)
    <2>1. /\ file' \in Words /\ data' \in Words /\ Cat(file', data') = Cat(Cat(file, data), chunk)
          /\ file' # <<>> => Len(data') = Len(match)
      BY <1>1, <1>5, WrittenIs DEF InLoop, Keeps
    <2>2. Typed'
      BY <1>1, <1>3, <1>4, <1>5, <2>1 DEF Typed, InLoop, Keeps
    <2>3. InFile'
      BY <1>1, <1>3, <1>5, <2>1 DEF InFile, InLoop, Keeps
    <2>4. Searched'
      BY <1>1, <1>5, <2>3 DEF Searched, Searches, InLoop, Keeps
    <2>5. Astray' <=> Astray
      BY <1>3, <1>5 DEF Astray, Keeps
    <2> QED BY <1>3, <1>5, <2>2, <2>4, <2>5 DEF Sound, Lasting, Keeps
  <1>6. ASSUME NEW first \in Words, NEW second \in Words, Cuts(chunk, pushed, first, second)
        PROVE  Sound' /\ Lasting
    <2>1. file' \in Words /\ data' \in Words
      BY <1>1, <1>6, WrittenIs DEF InLoop, Cuts
    <2>2. stage' = "tail" /\ Adds(file', TRUE) /\ TRUE \in BOOLEAN
      BY <1>6 DEF Cuts, Deliver, Adds
    <2>3. items' \in Seq([content : Words, isFile : BOOLEAN])
      BY <1>1, <2>1, <2>2, AddsTyped DEF InLoop
    <2>4. given' \in Words
      BY <1>1, <1>6, <2>1, CatAssociative DEF InLoop, Cuts
    <2>5. Typed'
      BY <1>1, <1>3, <1>4, <1>6, <2>1, <2>2, <2>3, <2>4 DEF Typed, Stages, InLoop, Cuts
    <2>6. Searched'
      BY <1>1, <1>6, <2>2 DEF Searched, Searches, InLoop, Cuts
    <2>7. Astray' <=> Astray
      BY <1>3, <1>6 DEF Astray, Cuts
    <2>8. pc' = "idle"
      BY <1>1, <1>6 DEF Cuts, InLoop
    <2> QED BY <1>3, <2>1, <2>2, <2>5, <2>6, <2>7, <2>8 DEF Sound, Lasting
  <1>7. CASE Overruns(pushed)
    <2>1. Typed'
      BY <1>1, <1>3, <1>4, <1>7 DEF Typed, Stages, InLoop, Overruns
    <2>2. Searched'
      BY <1>7 DEF Searched, Searches, Overruns
    <2>3. Astray' /\ (Astray \/ Out = "open")
      BY <1>1, <1>7 DEF Astray, Out, Ended, InLoop, Overruns
    <2> QED BY <1>3, <1>7, <2>1, <2>2, <2>3 DEF Sound, Lasting, Overruns
  <1> QED BY <1>2, <1>5, <1>6, <1>7 DEF Spilled

LEMMA SpillMoreStep ==
  ASSUME Forward, SpillMore
  PROVE  Onward
  <1> DEFINE k == Len(items)
             content == form[k + 1]
             whole == Cat(content, RealBoundary)
             read == Cat(file, data)
  <1>1. /\ Typed /\ pc = "idle" /\ OnTrack /\ Used = sent /\ stage = "file"
        /\ {file, data, given, content, whole, read, After(k + 1)} \subseteq Words
        /\ match = RealBoundary /\ match \in Keys
        /\ k \in Nat /\ k < Len(form) /\ Len(form) \in Nat /\ FirstAtEnd(match, whole)
        /\ Cat(read, Coming) = Cat(whole, After(k + 1))
        /\ cut \/ Len(whole) > MemoryLimit
    BY SpillContext DEF SpillMore
  <1>2. PICK chunk \in Words, pushed \in Words, ahead \in Words : Spilled(chunk, pushed, ahead)
    BY SpillMoreIs DEF Forward, IInv
  <1>3. Ahead = Cat(chunk, Cat(pushed, ahead)) /\ wire' = ahead /\ match' = match
    BY <1>2 DEF Spilled
  <1>4. UNCHANGED <<form, sent, cut, Lost, short>> /\ ~Astray /\ ~Astray' /\ Lost \in Words
    BY <1>1, Places, Arriving DEF Forward
  <1>5. file # <<>> => Len(data) = Len(match)
    BY <1>1, LoopIs DEF Forward, IInv, InLoop
  <1>6. CASE Keeps(chunk, pushed)
    <2>1. file' \in Words /\ data' \in Words /\ Cat(file', data') = Cat(read, chunk)
      BY <1>1, <1>5, <1>6, WrittenIs DEF Keeps
    <2>2. Ahead' = Cat(pushed, ahead) /\ Ahead' \in Words
      BY <1>3, <1>6, CatAssociative DEF Ahead, Keeps
    <2>3. UNCHANGED <<stage, items, pc, given>>
      BY <1>6 DEF Keeps
    <2>4. Used' = Used
      <3>1. Cat(file', Cat(data', Ahead')) = Cat(file, Cat(data, Cat(chunk, Ahead')))
        <4>1. /\ file \in Words /\ data \in Words /\ Ahead' \in Words
              /\ file' \in Words /\ data' \in Words
              /\ Cat(file', data') = Cat(Cat(file, data), chunk)
          BY <1>1, <2>1, <2>2
        <4> DEFINE a == Ahead'
                   f2 == file'
                   d2 == data'
        <4>2. /\ a \in Words /\ f2 \in Words /\ d2 \in Words
              /\ file \in Words /\ data \in Words /\ Cat(f2, d2) = Cat(Cat(file, data), chunk)
          BY <4>1
        <4> HIDE DEF a, f2, d2
        <4>3. Cat(f2, Cat(d2, a)) = Cat(file, Cat(data, Cat(chunk, a)))
          <5>1. Cat(f2, Cat(d2, a)) = Cat(Cat(Cat(file, data), chunk), a)
            BY <4>2, CatAssociative
          <5>2. Cat(file, data) \in Words /\ Cat(chunk, a) \in Words
            BY <4>2, CatAssociative
          <5>3. Cat(Cat(Cat(file, data), chunk), a) = Cat(Cat(file, data), Cat(chunk, a))
            BY <4>2, <5>2, CatAssociative
          <5>4. Cat(Cat(file, data), Cat(chunk, a)) = Cat(file, Cat(data, Cat(chunk, a)))
            BY <4>2, <5>2, CatAssociative
          <5> QED BY <5>1, <5>3, <5>4
        <4> QED BY <4>3 DEF a, f2, d2
      <3> QED BY <1>1, <1>3, <2>2, <2>3, <3>1 DEF Used, Held
    <2>5. OnTrack'
      <3>1. Coming = Cat(chunk, Coming')
        BY <1>3, <1>4, <2>2, CatAssociative DEF Coming
      <3>2. Coming' \in Words
        BY <1>4, <2>2, CatAssociative DEF Coming
      <3>3. Cat(Cat(file', data'), Coming') = Cat(read, Coming)
        <4> HIDE DEF read
        <4> QED BY <1>1, <2>1, <3>1, <3>2, CatAssociative
      <3>4. Cat(Cat(file', data'), Coming') = Content(k)
        BY <1>1, <3>3 DEF Content
      <3> QED BY <1>1, <1>4, <2>3, <3>4, FormKept DEF OnTrack
    <2>6. Step
      BY <1>4, <2>3 DEF Step, Out, Ended
    <2> QED BY <1>1, <2>3, <2>4, <2>5, <2>6, PlacedStays, Goes
  <1>7. ASSUME NEW first \in Words, NEW second \in Words, Cuts(chunk, pushed, first, second)
        PROVE  Onward
    <2> DEFINE upTo == Cat(data, first)
    <2>1. /\ chunk = Cat(first, second) /\ FirstAtEnd(match, Cat(read, first))
          /\ file' = Written(upTo) /\ data' = Kept(upTo) /\ unread' = Cat(second, pushed)
          /\ Deliver(file', TRUE) /\ given' = Cat(given, file') /\ UNCHANGED pc
      BY <1>7 DEF Cuts
    <2>4. /\ file' \in Words /\ data' \in Words /\ Cat(file', data') = Cat(read, first)
          /\ upTo \in Words /\ (Len(upTo) >= Len(match) => Len(data') = Len(match))
          /\ Written(upTo) # <<>> => Len(data') = Len(match)
      BY <1>1, <1>5, <2>1, WrittenIs
    <2>5. /\ Ahead' \in Words /\ Ahead = Cat(first, Ahead')
      <3>1. Ahead' = Cat(second, Cat(pushed, ahead))
        BY <1>3, <2>1, CatAssociative DEF Ahead
      <3>2. Cat(pushed, ahead) \in Words /\ Ahead' \in Words
        BY <3>1, CatAssociative
      <3> QED BY <1>3, <2>1, <3>1, <3>2, CatAssociative
    <2>6. Coming' \in Words /\ Coming = Cat(first, Coming')
      BY <1>4, <2>5, CatAssociative DEF Coming
    <2>7. Cat(read, first) = whole /\ Coming' = After(k + 1)
      <3>1. Cat(Cat(read, first), Coming') = Cat(whole, After(k + 1)) /\ Cat(read, first) \in Words
        <4> HIDE DEF read, whole
        <4> QED BY <1>1, <2>1, <2>6, CatAssociative
      <3>2. FirstAtEnd(match, Cat(read, first))
        BY <2>1
      <3> HIDE DEF read, whole
      <3> QED BY <1>1, <2>6, <3>1, <3>2, Reached
    <2>8. file' = content
      <3>1. Len(data') = Len(match)
        <4>1. CASE file' # <<>>
          BY <2>1, <2>4, <4>1
        <4>2. CASE file' = <<>>
          <5>1. data' = whole
            BY <2>4, <2>7, <4>2, CatEmpty
          <5>2. Len(data') >= Len(match)
            BY <1>1, <5>1, AtEnd
          <5>3. file = <<>>
            <6>1. Written(upTo) = Cat(file, SubSeq(upTo, 1, Beyond(upTo)))
              BY DEF Written, Cat
            <6> HIDE DEF upTo
            <6>2. SubSeq(upTo, 1, Beyond(upTo)) \in Words
              <7>1. Len(upTo) \in Nat /\ Len(match) \in Nat
                BY <1>1, <2>4, LenIs, KeysAreKeys
              <7>2. Beyond(upTo) \in 0 .. Len(upTo)
                BY <7>1 DEF Beyond
              <7> QED BY <2>4, <7>2, SplitWord
            <6>3. Len(file') = Len(file) + Len(SubSeq(upTo, 1, Beyond(upTo)))
              BY <1>1, <2>1, <6>1, <6>2, CatIs
            <6>4. Len(file') = 0 /\ Len(file) \in Nat /\ Len(SubSeq(upTo, 1, Beyond(upTo))) \in Nat
              BY <1>1, <2>4, <4>2, <6>2, LenIs
            <6> DEFINE more == Len(SubSeq(upTo, 1, Beyond(upTo)))
            <6>5. Len(file) + more = 0 /\ Len(file) \in Nat /\ more \in Nat
              BY <6>3, <6>4
            <6> HIDE DEF more
            <6>6. Len(file) = 0
              BY <6>5
            <6> QED BY <1>1, <6>6, LenIs
          <5>4. upTo = whole
            <6>1. Cat(read, first) = Cat(data, first)
              BY <1>1, <5>3, CatEmpty
            <6> QED BY <2>7, <6>1
          <5> QED BY <2>4, <5>1, <5>2, <5>4
        <4> QED BY <4>1, <4>2
      <3>2. Cat(file', data') = Cat(content, RealBoundary)
        BY <2>4, <2>7
      <3>3. Len(file') = Len(content)
        <4>1. Len(file') + Len(data') = Len(content) + Len(RealBoundary)
          <5>1. Len(Cat(file', data')) = Len(file') + Len(data')
            BY <2>4, CatIs
          <5>2. Len(Cat(content, RealBoundary)) = Len(content) + Len(RealBoundary)
            <6> HIDE DEF content
            <6> QED BY <1>1, CatIs, Fixed
          <5> QED BY <3>2, <5>1, <5>2
        <4>2. Len(file') \in Nat /\ Len(content) \in Nat /\ Len(RealBoundary) \in Nat /\ Len(data') = Len(RealBoundary)
          BY <1>1, <2>4, <3>1, LenIs, Fixed
        <4> HIDE DEF content
        <4> QED BY <4>1, <4>2
      <3>4. SubSeq(Cat(file', data'), 1, Len(file')) = file'
        BY <2>4, CatFront
      <3>5. SubSeq(Cat(content, RealBoundary), 1, Len(content)) = content
        <4> HIDE DEF content
        <4> QED BY <1>1, CatFront, Fixed
      <3> HIDE DEF content
      <3> QED BY <3>2, <3>3, <3>4, <3>5
    <2>9. Cat(file', Cat(data', Ahead')) = Cat(file, Cat(data, Ahead))
      <3>1. /\ file \in Words /\ data \in Words /\ Ahead' \in Words
            /\ file' \in Words /\ data' \in Words
            /\ Cat(file', data') = Cat(Cat(file, data), first)
        BY <1>1, <2>4, <2>5
      <3>2. Cat(file', Cat(data', Ahead')) = Cat(file, Cat(data, Cat(first, Ahead')))
        <4> DEFINE a == Ahead'
                   f2 == file'
                   d2 == data'
        <4>1. /\ a \in Words /\ f2 \in Words /\ d2 \in Words
              /\ file \in Words /\ data \in Words /\ Cat(f2, d2) = Cat(Cat(file, data), first)
          BY <3>1
        <4> HIDE DEF a, f2, d2
        <4>2. Cat(f2, Cat(d2, a)) = Cat(file, Cat(data, Cat(first, a)))
          <5>1. Cat(f2, Cat(d2, a)) = Cat(Cat(Cat(file, data), first), a)
            BY <4>1, CatAssociative
          <5>2. Cat(file, data) \in Words /\ Cat(first, a) \in Words
            BY <4>1, CatAssociative
          <5>3. Cat(Cat(Cat(file, data), first), a) = Cat(Cat(file, data), Cat(first, a))
            BY <4>1, <5>2, CatAssociative
          <5>4. Cat(Cat(file, data), Cat(first, a)) = Cat(file, Cat(data, Cat(first, a)))
            BY <4>1, <5>2, CatAssociative
          <5> QED BY <5>1, <5>3, <5>4
        <4> QED BY <4>2 DEF a, f2, d2
      <3> QED BY <2>5, <3>2
    <2> QED BY <1>1, <2>1, <2>4, <2>5, <2>7, <2>8, <2>9, SpillDelivers
  <1>8. ~Overruns(pushed)
    BY <1>4 DEF Overruns, Astray
  <1> QED BY <1>2, <1>6, <1>7, <1>8 DEF Spilled

-----------------------------------------------------------------------------
(* The two bytes behind a boundary: what one read() gives.                  *)
LEMMA TailChunk ==
  ASSUME Typed, NEW chunk \in Tails
  PROVE  LET pushed == Scan!PushedAfter(chunk)
             ahead == Scan!WireAfter(chunk)
         IN  /\ chunk \in Words /\ pushed \in Words /\ ahead \in Words
             /\ Len(pushed) + Len(chunk) <= MaxUnread
             /\ Ahead = Cat(chunk, Cat(pushed, ahead))
             /\ \/ chunk = <<>> /\ Ahead = <<>> /\ pushed = <<>> /\ ahead = <<>>
                \/ Len(chunk) = 1 /\ pushed = <<>>
                \/ Len(chunk) = 2
  <1> DEFINE pushed == Scan!PushedAfter(chunk)
             ahead == Scan!WireAfter(chunk)
  <1>1. /\ unread \in Words /\ wire \in Words /\ Len(unread) <= MaxUnread /\ MaxUnread \in Nat
        /\ Len(unread) \in Nat /\ Len(wire) \in Nat /\ <<>> \in Words /\ Len(<<>>) = 0
    BY LenIs, CatEmpty, Premises DEF Typed
  <1>2. CASE Scan!StreamEnded
    <2>1. chunk = <<>> /\ unread = <<>> /\ wire = <<>>
      BY <1>2 DEF Tails, Scan!StreamEnded
    <2>2. pushed = <<>> /\ ahead = <<>>
      BY <2>1 DEF Scan!PushedAfter, Scan!WireAfter, Scan!Drop
    <2>3. Ahead = <<>> /\ Cat(<<>>, Cat(<<>>, <<>>)) = <<>>
      BY <1>1, <2>1, CatEmpty DEF Ahead
    <2> HIDE DEF pushed, ahead
    <2>4. Len(pushed) + Len(chunk) <= MaxUnread
      BY <1>1, <2>1, <2>2
    <2> QED BY <1>1, <2>1, <2>2, <2>3, <2>4 DEF pushed, ahead
  <1>3. CASE ~Scan!StreamEnded /\ unread # <<>>
    <2>1. chunk = SubSeq(unread, 1, Scan!Least(2, Len(unread)))
      BY <1>3 DEF Tails, Scan!Chunks
    <2>2. PICK n \in 1 .. Len(unread) : chunk = SubSeq(unread, 1, n) /\ (n = 2 \/ (n = 1 /\ Len(unread) = 1))
      <3>1. Len(unread) # 0
        BY <1>1, <1>3, LenIs
      <3> DEFINE u == Len(unread)
      <3>2. u \in Nat /\ u # 0
        BY <1>1, <3>1
      <3> HIDE DEF u
      <3>3. Scan!Least(2, u) \in 1 .. u /\ (Scan!Least(2, u) = 2 \/ (Scan!Least(2, u) = 1 /\ u = 1))
        BY <3>2 DEF Scan!Least
      <3> QED BY <2>1, <3>3 DEF u
    <2>3. n \in 0 .. Len(unread) /\ n \in Nat
      BY <1>1
    <2>4. /\ chunk \in Words /\ Len(chunk) = n
          /\ Scan!Drop(unread, n) \in Words /\ Len(Scan!Drop(unread, n)) = Len(unread) - n
          /\ Cat(chunk, Scan!Drop(unread, n)) = unread
      BY <1>1, <2>2, <2>3, SplitWord
    <2>5. pushed = Scan!Drop(unread, n) /\ ahead = wire
      BY <1>3, <2>4 DEF Scan!PushedAfter, Scan!WireAfter
    <2> HIDE DEF pushed, ahead
    <2>6. Len(pushed) + Len(chunk) <= MaxUnread
      BY <1>1, <2>3, <2>4, <2>5
    <2>7. Ahead = Cat(chunk, Cat(pushed, ahead))
      BY <1>1, <2>4, <2>5, CatAssociative DEF Ahead
    <2>8. n = 1 /\ Len(unread) = 1 => pushed = <<>>
      <3>1. n = 1 /\ Len(unread) = 1 => Len(pushed) = 0
        BY <2>4, <2>5
      <3> QED BY <2>4, <2>5, <3>1, LenIs
    <2> QED BY <1>1, <2>2, <2>4, <2>5, <2>6, <2>7, <2>8 DEF pushed, ahead
  <1>4. CASE ~Scan!StreamEnded /\ unread = <<>>
    <2>1. chunk \in {SubSeq(wire, 1, n) : n \in 1 .. Scan!Least(2, Len(wire))}
      BY <1>4 DEF Tails, Scan!Chunks
    <2>2. PICK n \in 1 .. Scan!Least(2, Len(wire)) : chunk = SubSeq(wire, 1, n)
      BY <2>1
    <2>3. n \in 0 .. Len(wire) /\ n \in {1, 2}
      BY <1>1 DEF Scan!Least
    <2>4. /\ chunk \in Words /\ Len(chunk) = n
          /\ Scan!Drop(wire, n) \in Words /\ Cat(chunk, Scan!Drop(wire, n)) = wire
      BY <1>1, <2>2, <2>3, SplitWord
    <2>5. pushed = <<>> /\ ahead = Scan!Drop(wire, n)
      BY <1>4, <2>4 DEF Scan!PushedAfter, Scan!WireAfter
    <2> HIDE DEF pushed, ahead
    <2>6. Len(pushed) + Len(chunk) <= MaxUnread
      BY <1>1, <2>3, <2>4, <2>5, Premises
    <2>7. Ahead = Cat(chunk, Cat(pushed, ahead))
      BY <1>1, <1>4, <2>4, <2>5, CatEmpty DEF Ahead
    <2> QED BY <1>1, <2>3, <2>4, <2>5, <2>6, <2>7 DEF pushed, ahead
  <1> QED BY <1>2, <1>3, <1>4

LEMMA TwoBytesIs ==
  ASSUME NEW chunk \in Words
  PROVE  /\ Len(chunk) = 2 => TwoBytes(chunk) = chunk
         /\ Len(chunk) = 1 => TwoBytes(chunk) = Cat(chunk, <<0>>)
         /\ chunk = <<>> => TwoBytes(chunk) = <<0, 0>>
         /\ <<0>> \in Words /\ Len(<<0>>) = 1 /\ <<0, 0>> \in Words
  <1>1. 0 \in Cells
    BY Premises
  <1>2. <<0>> \in Words /\ Len(<<0>>) = 1 /\ <<0, 0>> \in Words /\ Len(<<0, 0>>) = 2
    BY <1>1 DEF Words
  <1>3. ASSUME Len(chunk) = 2 PROVE TwoBytes(chunk) = chunk
    <2>1. [i \in 1 .. 2 - Len(chunk) |-> 0] = <<>>
      BY <1>3
    <2>2. TwoBytes(chunk) = Cat(chunk, <<>>)
      BY <2>1, Zenon DEF TwoBytes, Cat
    <2> QED BY <2>2, CatEmpty
  <1>4. ASSUME Len(chunk) = 1 PROVE TwoBytes(chunk) = Cat(chunk, <<0>>)
    <2>1. [i \in 1 .. 2 - Len(chunk) |-> 0] = <<0>>
      BY <1>4
    <2> QED BY <2>1, Zenon DEF TwoBytes, Cat
  <1>5. ASSUME chunk = <<>> PROVE TwoBytes(chunk) = <<0, 0>>
    <2> DEFINE z == [i \in 1 .. 2 - Len(chunk) |-> 0]
    <2>1. z = <<0, 0>>
      BY <1>5
    <2>2. TwoBytes(chunk) = Cat(<<>>, z)
      BY <1>5, Zenon DEF TwoBytes, Cat
    <2> HIDE DEF z
    <2> QED BY <1>2, <2>1, <2>2, CatEmpty
  <1> QED BY <1>2, <1>3, <1>4, <1>5

LEMMA SameFront ==
  ASSUME NEW a \in Words, NEW b \in Words, NEW c \in Words, NEW d \in Words,
         Cat(a, b) = Cat(c, d), Len(a) = Len(c)
  PROVE  a = c /\ b = d
  <1>1. SubSeq(Cat(a, b), 1, Len(a)) = a /\ SubSeq(Cat(c, d), 1, Len(c)) = c
    BY CatFront
  <1>2. a = c
    BY <1>1
  <1> QED BY <1>2, Cancel

LEMMA TailContext ==
  ASSUME Forward, stage = "tail"
  PROVE  /\ Typed /\ Searched /\ FormOK /\ pc = "idle" /\ Used = sent
         /\ \/ /\ OnTrack /\ Len(items) \in 1 .. Len(form) /\ Coming = After(Len(items))
            \/ Dry /\ Ahead = <<>>
         /\ {given, data, sent, Ahead, Coming, Lost} \subseteq Words
  <1>1. /\ Typed /\ Searched /\ FormOK /\ pc = "idle" /\ Used = sent
        /\ {given, data, sent, Ahead, Coming, Lost} \subseteq Words
    BY Places, Arriving DEF Searched, Searches, Typed
  <1>2. OnTrack \/ Dry
    BY Places DEF Refused
  <1>3. ASSUME OnTrack PROVE Len(items) \in 1 .. Len(form) /\ Coming = After(Len(items))
    <2>1. Len(items) \in Nat /\ Len(form) \in Nat
      BY <1>1 DEF Typed, FormOK
    <2> QED BY <1>3, <2>1 DEF OnTrack
  <1> QED BY <1>1, <1>2, <1>3 DEF Dry

(* The last item of a form ends with "--", and the bytes behind another are *)
(* pushed back.                                                             *)
TailRead(chunk) ==
  /\ wire' = Scan!WireAfter(chunk)
  /\ short' = (short \/ Len(chunk) < 2)
  /\ \/ /\ TwoBytes(chunk) = Dashes /\ stage' = "done"
        /\ unread' = Scan!PushedAfter(chunk) /\ data' = Cat(data, chunk)
     \/ /\ TwoBytes(chunk) # Dashes /\ stage' = "boundaryEol"
        /\ unread' = Scan!PushBack(Scan!PushedAfter(chunk), TwoBytes(chunk))
        /\ UNCHANGED data

LEMMA ReadTailIs ==
  ASSUME ReadTail
  PROVE  /\ stage = "tail"
         /\ UNCHANGED <<items, file, form, pc, buffer, lastFew, match, maxLen, sent, given>>
         /\ \E chunk \in Tails : TailRead(chunk)
  <1>1. PICK chunk \in Tails :
             /\ wire' = Scan!WireAfter(chunk)
             /\ short' = (short \/ Len(chunk) < 2)
             /\ IF TwoBytes(chunk) = Dashes
                THEN /\ stage' = "done"
                     /\ unread' = Scan!PushedAfter(chunk)
                     /\ data' = data \o chunk
                ELSE /\ stage' = "boundaryEol"
                     /\ unread' = Scan!PushBack(Scan!PushedAfter(chunk), TwoBytes(chunk))
                     /\ UNCHANGED data
    BY Zenon DEF ReadTail
  <1>2. TailRead(chunk)
    BY <1>1, Zenon DEF TailRead, Cat
  <1>3. /\ stage = "tail"
        /\ UNCHANGED <<items, file, form, pc, buffer, lastFew, match, maxLen, sent, given>>
    BY Zenon DEF ReadTail
  <1> QED BY <1>2, <1>3

(* The two bytes, NULs for those that did not come, have room where they    *)
(* are pushed back.                                                         *)
LEMMA TailFits ==
  ASSUME Typed, NEW chunk \in Tails
  PROVE  LET pushed == Scan!PushedAfter(chunk)
             two == TwoBytes(chunk)
         IN  /\ Len(chunk) \in Nat /\ two \in Words /\ pushed \in Words
             /\ Len(pushed) <= MaxUnread
             /\ Scan!PushBack(pushed, two) = Cat(two, pushed)
             /\ Cat(two, pushed) \in Words /\ Len(Cat(two, pushed)) <= MaxUnread
  <1> DEFINE pushed == Scan!PushedAfter(chunk)
             two == TwoBytes(chunk)
             zero == <<0>>
             zeros == <<0, 0>>
  <1>1. /\ chunk \in Words /\ pushed \in Words /\ Len(pushed) + Len(chunk) <= MaxUnread
        /\ \/ chunk = <<>> /\ pushed = <<>>
           \/ Len(chunk) = 1 /\ pushed = <<>>
           \/ Len(chunk) = 2
    BY TailChunk
  <1>2. /\ Len(chunk) = 2 => two = chunk
        /\ Len(chunk) = 1 => two = Cat(chunk, zero)
        /\ chunk = <<>> => two = zeros
        /\ zero \in Words /\ Len(zero) = 1 /\ zeros \in Words /\ Len(zeros) = 2
    BY <1>1, TwoBytesIs
  <1> HIDE DEF pushed, two, zero, zeros
  <1>3. /\ Len(chunk) \in Nat /\ Len(pushed) \in Nat /\ Len(<<>>) = 0
        /\ MaxUnread \in Nat /\ MaxUnread >= 2
    BY <1>1, LenIs, CatEmpty, Premises
  <1>4. two \in Words /\ Len(two) = 2
    <2>1. CASE chunk = <<>>
      BY <1>2, <2>1
    <2>2. CASE Len(chunk) = 1
      <3>1. Cat(chunk, zero) \in Words /\ Len(Cat(chunk, zero)) = Len(chunk) + Len(zero)
        BY <1>1, <1>2, CatIs
      <3> QED BY <1>2, <2>2, <3>1
    <2>3. CASE Len(chunk) = 2
      BY <1>1, <1>2, <2>3
    <2> QED BY <1>1, <2>1, <2>2, <2>3
  <1>5. Len(pushed) + Len(two) <= MaxUnread /\ Len(pushed) <= MaxUnread
    <2>1. CASE pushed = <<>>
      <3>1. Len(pushed) = 0
        BY <1>3, <2>1
      <3> QED BY <1>3, <1>4, <3>1
    <2>2. CASE Len(chunk) = 2
      BY <1>1, <1>3, <1>4, <2>2
    <2> QED BY <1>1, <2>1, <2>2
  <1> QED BY <1>1, <1>3, <1>4, <1>5, PushedBack DEF pushed, two

LEMMA ReadTailSound == Sound /\ ReadTail => Sound' /\ Lasting
  <1> SUFFICES ASSUME Sound, ReadTail PROVE Sound' /\ Lasting
    OBVIOUS
  <1>1. /\ stage = "tail" /\ Typed /\ Searched /\ pc = "idle" /\ data \in Words
        /\ UNCHANGED <<items, file, form, pc, buffer, lastFew, match, maxLen, sent, given>>
    BY ReadTailIs DEF Sound, Typed, Searched, Searches
  <1>2. PICK chunk \in Tails : TailRead(chunk)
    BY ReadTailIs
  <1> DEFINE pushed == Scan!PushedAfter(chunk)
             two == TwoBytes(chunk)
  <1>3. chunk \in Words /\ wire' \in Words /\ Cat(data, chunk) \in Words
    <2>1. chunk \in Words /\ wire' \in Words
      BY <1>1, <1>2, TailChunk DEF TailRead
    <2> QED BY <1>1, <2>1, CatAssociative
  <1>4. /\ pushed \in Words /\ Len(pushed) <= MaxUnread
        /\ Scan!PushBack(pushed, two) = Cat(two, pushed)
        /\ Cat(two, pushed) \in Words /\ Len(Cat(two, pushed)) <= MaxUnread
    BY <1>1, TailFits
  <1>5. /\ unread' \in Words /\ Len(unread') <= MaxUnread /\ data' \in Words
        /\ stage' \in {"done", "boundaryEol"}
    <2>1. \/ stage' = "done" /\ unread' = pushed /\ data' = Cat(data, chunk)
          \/ stage' = "boundaryEol" /\ unread' = Scan!PushBack(pushed, two) /\ data' = data
      BY <1>2 DEF TailRead
    <2> HIDE DEF pushed, two
    <2> QED BY <1>1, <1>3, <1>4, <2>1
  <1>6. short' \in BOOLEAN /\ (short => short')
    BY <1>1, <1>2 DEF TailRead, Typed
  <1>7. Lost' = Lost /\ FormOK' = FormOK /\ Body(form)' = Body(form)
    BY <1>1, FormKept
  <1>8. Typed'
    BY <1>1, <1>3, <1>5, <1>6, <1>7 DEF Typed, Stages
  <1>9. Searched'
    BY <1>1, <1>5 DEF Searched, Searches
  <1>10. (Astray => Astray') /\ (Astray \/ Out = "open")
    BY <1>1, <1>6 DEF Astray, Out, Ended
  <1> QED BY <1>1, <1>6, <1>8, <1>9, <1>10 DEF Sound, Lasting

LEMMA ReadTailStep ==
  ASSUME Forward, ReadTail
  PROVE  Onward
  <1> DEFINE k == Len(items)
  <1>1. /\ Typed /\ FormOK /\ pc = "idle" /\ Used = sent /\ stage = "tail"
        /\ \/ OnTrack /\ k \in 1 .. Len(form) /\ Coming = After(k)
           \/ Dry /\ Ahead = <<>>
        /\ {given, data, sent, Ahead, Coming, Lost} \subseteq Words
        /\ Len(form) \in Nat
    BY ReadTailIs, TailContext DEF FormOK
  <1>2. /\ UNCHANGED <<items, file, form, pc, sent, given, cut, Lost>>
        /\ ~Astray /\ ~Astray' /\ ~short'
    BY ReadTailIs, Places DEF Forward
  <1>3. PICK chunk \in Tails : TailRead(chunk)
    BY ReadTailIs
  <1> DEFINE pushed == Scan!PushedAfter(chunk)
             ahead == Scan!WireAfter(chunk)
             rest == Cat(pushed, ahead)
  <1>4. /\ chunk \in Words /\ pushed \in Words /\ ahead \in Words /\ Ahead = Cat(chunk, rest)
        /\ \/ chunk = <<>>
           \/ Len(chunk) = 1
           \/ Len(chunk) = 2
    BY <1>1, TailChunk
  <1>5. /\ wire' = ahead /\ ~(Len(chunk) < 2)
        /\ \/ /\ TwoBytes(chunk) = Dashes /\ stage' = "done" /\ unread' = pushed
              /\ data' = Cat(data, chunk)
           \/ /\ TwoBytes(chunk) # Dashes /\ stage' = "boundaryEol"
              /\ unread' = Cat(TwoBytes(chunk), pushed) /\ data' = data
    <2>1. Scan!PushBack(pushed, TwoBytes(chunk)) = Cat(TwoBytes(chunk), pushed)
      BY <1>1, TailFits
    <2> HIDE DEF pushed
    <2> QED BY <1>2, <1>3, <2>1 DEF TailRead, pushed
  <1> HIDE DEF pushed, ahead, k
  <1>6. Len(chunk) = 2 /\ TwoBytes(chunk) = chunk /\ rest \in Words
    <2>1. Len(<<>>) = 0
      OBVIOUS
    <2>2. Len(chunk) = 2
      BY <1>4, <1>5, <2>1
    <2> QED BY <1>4, <2>2, TwoBytesIs, CatAssociative
  <1> HIDE DEF rest
  <1>7. OnTrack /\ k \in 1 .. Len(form) /\ Coming = After(k)
    <2>1. Len(Ahead) = Len(chunk) + Len(rest) /\ Len(rest) \in Nat
      BY <1>4, <1>6, CatIs, LenIs
    <2>2. Len(Ahead) # 0
      BY <1>6, <2>1
    <2>3. Ahead # <<>>
      BY <1>1, <2>2, LenIs
    <2> QED BY <1>1, <2>3
  <1>8. Cat(chunk, Cat(rest, Lost)) = After(k) /\ Cat(rest, Lost) \in Words
    BY <1>1, <1>4, <1>6, <1>7, CatAssociative DEF Coming
  <1>9. k = Len(form) => chunk = Dashes
    <2> SUFFICES ASSUME k = Len(form) PROVE chunk = Dashes
      OBVIOUS
    <2>1. Cat(chunk, Cat(rest, Lost)) = Cat(Dashes, CrLf)
      BY <1>8 DEF After
    <2> QED BY <1>4, <1>6, <1>8, <2>1, SameFront, DashesIs, CrLfIs
  <1>10. k # Len(form) => chunk = CrLf /\ CrLf # Dashes
    <2> SUFFICES ASSUME k # Len(form) PROVE chunk = CrLf /\ CrLf # Dashes
      OBVIOUS
    <2>1. Cat(chunk, Cat(rest, Lost)) = Cat(CrLf, Following(k))
      BY <1>8 DEF After
    <2>2. Following(k) \in Words
      <3>1. k \in 0 .. Len(form) - 1
        BY <1>1, <1>7
      <3> QED BY <1>1, <3>1, FollowingIs
    <2>3. Dash # Cr
      BY Premises
    <2> QED BY <1>4, <1>6, <1>8, <2>1, <2>2, <2>3, SameFront, DashesIs, CrLfIs
  <1>11. stage \notin {"done", "failed"} /\ Out = "open"
    BY <1>1, <1>2 DEF Out, Ended, Astray
  <1>12. PlacedExactly'
    BY <1>2, PlacedStays
  <1>13. CASE chunk = Dashes
    <2>1. k = Len(form) /\ stage' = "done" /\ unread' = pushed /\ data' = Cat(data, chunk)
      BY <1>5, <1>6, <1>10, <1>13
    <2>2. Ahead' = rest
      BY <1>5, <2>1 DEF Ahead, rest
    <2>3. Used' = sent
      <3>1. Used' = Cat(given, Cat(<<>>, Cat(Cat(data, chunk), rest)))
        BY <1>2, <2>1, <2>2 DEF Used, Held
      <3>2. Used = Cat(given, Cat(<<>>, Cat(data, Cat(chunk, rest))))
        BY <1>1, <1>4 DEF Used, Held
      <3> QED BY <1>1, <1>4, <1>6, <3>1, <3>2, CatAssociative
    <2>4. \A i \in 1 .. k : items[i].content = form[i]
      BY <1>7 DEF OnTrack, k
    <2>5. OnTrack'
      <3>1. /\ items' = items /\ form' = form /\ Len(items) = Len(form) /\ Len(items) <= Len(form)
            /\ \A i \in 1 .. Len(items) : items[i].content = form[i]
        BY <1>1, <1>2, <2>1, <2>4 DEF k
      <3> QED BY <2>1, <3>1 DEF OnTrack
    <2>6. Step
      <3>1. Out' = "complete"
        BY <1>2, <2>1 DEF Out
      <3> QED BY <1>2, <1>11, <2>1, <2>4, <3>1 DEF Step, k
    <2> QED BY <1>12, <2>3, <2>5, <2>6, Goes
  <1>14. CASE chunk # Dashes
    <2>1. k \in 1 .. Len(form) - 1 /\ chunk = CrLf /\ k # Len(form)
      BY <1>1, <1>7, <1>9, <1>10, <1>14
    <2>2. /\ unread' = Cat(chunk, pushed) /\ data' = data /\ stage' = "boundaryEol"
      BY <1>5, <1>6, <1>14
    <2>3. Ahead' = Ahead
      BY <1>4, <1>5, <2>2, CatAssociative DEF Ahead, rest
    <2>4. Used' = sent
      BY <1>1, <1>2, <2>2, <2>3 DEF Used, Held
    <2>5. Coming' = Cat(CrLf, Following(k))
      BY <1>2, <1>7, <2>1, <2>3 DEF After, Coming
    <2>6. OnTrack'
      <3>1. /\ items' = items /\ form' = form /\ Len(items) \in 1 .. Len(form) - 1
            /\ Len(items) <= Len(form) /\ \A i \in 1 .. Len(items) : items[i].content = form[i]
            /\ Following(Len(items))' = Following(Len(items))
        BY <1>1, <1>2, <1>7, <2>1, FormKept DEF OnTrack, k
      <3> QED BY <2>2, <2>5, <3>1 DEF OnTrack, k
    <2>7. Step
      <3>1. Out' = "open"
        BY <1>1, <1>2, <2>2 DEF Out, Ended, Astray
      <3> QED BY <1>2, <1>11, <3>1 DEF Step
    <2> QED BY <1>12, <2>4, <2>6, <2>7, Goes
  <1> QED BY <1>13, <1>14

-----------------------------------------------------------------------------
(* The remaining steps.                                                     *)
LEMMA SkipEolSound == Sound /\ SkipEol => Sound' /\ Lasting
  BY CallSound, Fixed DEF SkipEol, Searches

LEMMA SkipEolStep ==
  ASSUME Forward, SkipEol
  PROVE  Onward
  <1>1. stage = "boundaryEol" /\ CallIn("eol", CrLf, HeaderLimit) /\ UNCHANGED <<items, file>>
    BY DEF SkipEol
  <1>2. /\ PlacedExactly' /\ Step
        /\ stage' = "eol" /\ match' = CrLf /\ maxLen' = HeaderLimit
        /\ Cat(data', Coming') = Coming /\ Used' = sent
        /\ UNCHANGED <<items, form, sent>>
    BY <1>1, CallSteps, Fixed DEF Searches
  <1>3. OnTrack
    BY <1>1, Places DEF Dry, Refused
  <1>4. OnTrack'
    BY <1>1, <1>2, <1>3, FormKept DEF OnTrack, Reads
  <1> QED BY <1>2, <1>4, Goes

LEMMA IterateSound ==
  ASSUME Sound, Scan!Iterate, UNCHANGED formVars
  PROVE  Sound' /\ Lasting
  <1>1. /\ Typed' /\ Searched' /\ pc = "scan" /\ stage \in Searches
        /\ UNCHANGED <<match, maxLen, sent, given, formVars>>
    BY Iterates DEF Sound
  <1>2. UNCHANGED <<stage, items, file, form, short, sent>>
    BY <1>1 DEF formVars
  <1>3. (Astray => Astray') /\ (Astray \/ Out = "open")
    BY <1>1, <1>2 DEF Astray, Out, Ended, Searches
  <1> QED BY <1>1, <1>2, <1>3 DEF Sound, Lasting

LEMMA IterateStep ==
  ASSUME Forward, Scan!Iterate, UNCHANGED formVars
  PROVE  Onward
  <1>1. /\ Typed /\ Searched /\ pc = "scan" /\ (OnTrack \/ Dry \/ Refused) /\ Used = sent
        /\ ~Astray /\ ~Astray' /\ UNCHANGED <<form, sent, cut, Lost>> /\ pc' # "corrupt"
    BY Places DEF Forward, Scan!Iterate
  <1>2. /\ Typed' /\ stage \in Searches /\ match \in Keys
        /\ UNCHANGED <<match, maxLen, given>> /\ UNCHANGED formVars
        /\ Cat(data', Ahead') = Cat(data, Ahead)
    BY <1>1, Iterates
  <1>3. UNCHANGED <<stage, items, file>>
    BY <1>2 DEF formVars
  <1>4. {data, data', Ahead, Ahead', Lost} \subseteq Words
    <2>1. data' \in Words /\ unread' \in Words /\ wire' \in Words
      BY <1>1, <1>2 DEF Typed
    <2>2. Ahead' \in Words
      BY <2>1, CatAssociative DEF Ahead
    <2> QED BY <1>1, <2>1, <2>2, Arriving DEF Typed
  <1>5. Cat(data', Coming') = Cat(data, Coming)
    <2>1. Cat(data, Coming) = Cat(Cat(data, Ahead), Lost)
      BY <1>4, CatAssociative DEF Coming
    <2>2. Cat(data', Coming') = Cat(Cat(data', Ahead'), Lost)
      BY <1>1, <1>4, CatAssociative DEF Coming
    <2> QED BY <1>2, <2>1, <2>2
  <1>6. Used' = sent
    <2>1. Held' = Held
      BY <1>3 DEF Held
    <2> QED BY <1>1, <1>2, <2>1 DEF Used
  <1>7. Step
    <2>1. Out = "open" /\ Out' = "open"
      BY <1>1, <1>2, <1>3 DEF Out, Ended, Searches, Astray
    <2> QED BY <1>3, <2>1 DEF Step
  <1>8. ASSUME OnTrack PROVE OnTrack'
    BY <1>1, <1>2, <1>3, <1>5, <1>8, FormKept DEF OnTrack, Reads, Searches
  <1>9. ASSUME Dry PROVE Dry'
    <2>1. data = <<>> /\ Ahead = <<>>
      BY <1>2, <1>9 DEF Dry, Searches
    <2>2. Len(data') + Len(Ahead') = 0 /\ Len(data') \in Nat /\ Len(Ahead') \in Nat
      <3>1. Cat(data', Ahead') = <<>>
        BY <1>2, <1>4, <2>1, CatEmpty
      <3>2. Len(Cat(data', Ahead')) = Len(data') + Len(Ahead')
        BY <1>4, CatIs
      <3> QED BY <1>4, <3>1, <3>2, LenIs, CatEmpty
    <2>3. data' = <<>> /\ Ahead' = <<>>
      <3>1. Len(data') = 0 /\ Len(Ahead') = 0
        BY <2>2
      <3> QED BY <1>4, <3>1, LenIs
    <2> QED BY <1>1, <1>2, <1>3, <1>9, <2>3 DEF Dry, Searches
  <1>10. ~Refused
    BY <1>2 DEF Refused, Searches
  <1> QED BY <1>1, <1>3, <1>6, <1>7, <1>8, <1>9, <1>10, PlacedStays, Goes

(* A stutter, and the end of a call that found nothing.                     *)
Idles ==
  /\ UNCHANGED <<stage, items, file, form, short, wire, unread, buffer, lastFew, data,
                 match, maxLen, sent, given>>
  /\ \/ pc' = pc
     \/ pc = "scan" /\ pc' = "idle" /\ (Len(data) >= maxLen \/ Scan!StreamEnded)

LEMMA IdleSound == Sound /\ Idles => Sound' /\ Lasting
  <1> SUFFICES ASSUME Sound, Idles PROVE Sound' /\ Lasting
    OBVIOUS
  <1>1. /\ Typed /\ Searched
        /\ UNCHANGED <<stage, items, file, form, short, wire, unread, buffer, lastFew, data,
                       match, maxLen, sent, given>>
        /\ \/ pc' = pc
           \/ pc = "scan" /\ pc' = "idle" /\ (Len(data) >= maxLen \/ Scan!StreamEnded)
    BY DEF Sound, Idles
  <1>2. Lost' = Lost /\ FormOK' = FormOK /\ Body(form)' = Body(form) /\ Ahead' = Ahead
    BY <1>1, FormKept DEF Ahead
  <1>3. Typed'
    BY <1>1, <1>2 DEF Typed
  <1>4. Searched'
    <2>1. CASE pc' = pc
      <3>1. InCall' = InCall
        BY <1>1, <1>2, <2>1 DEF InCall, FirstAtEnd, ScanP!Seeking, ScanP!Buffered, AllButLast
      <3>2. InFile' = InFile
        BY <1>1, <2>1 DEF InFile
      <3> QED BY <1>1, <2>1, <3>1, <3>2 DEF Searched
    <2>2. CASE pc = "scan" /\ pc' = "idle" /\ (Len(data) >= maxLen \/ Scan!StreamEnded)
      <3>1. stage \in Searches /\ InCall
        BY <1>1, <2>2 DEF Searched
      <3>2. ~Scan!Occurs(match, data) /\ match \in Keys /\ data \in Words
        <4>1. match \in Keys /\ data \in Words /\ ScanP!Seeking
          BY <1>1, <2>2, <3>1 DEF InCall, Typed
        <4> QED BY <4>1, OccursIs DEF ScanP!Seeking
      <3>3. Scan!StreamEnded => Ahead = <<>>
        BY CatEmpty DEF Scan!StreamEnded, Ahead
      <3>4. InCall'
        BY <1>1, <1>2, <2>2, <3>1, <3>2, <3>3 DEF InCall
      <3> QED BY <1>1, <2>2, <3>1, <3>4 DEF Searched, Searches
    <2> QED BY <1>1, <2>1, <2>2
  <1>5. Astray' <=> Astray
    BY <1>1 DEF Astray
  <1> QED BY <1>1, <1>3, <1>4, <1>5 DEF Sound, Lasting

LEMMA IdleStep ==
  ASSUME Forward, Idles
  PROVE  Onward
  <1>1. /\ UNCHANGED <<stage, items, file, form, short, wire, unread, data, match, maxLen, sent, given>>
        /\ (pc' = pc \/ (pc = "scan" /\ pc' = "idle"))
    BY DEF Idles
  <1>2. /\ ~Astray /\ ~Astray' /\ UNCHANGED <<cut, Lost>> /\ Used = sent
        /\ (OnTrack \/ Dry \/ Refused)
    BY Places DEF Forward
  <1>3. Ahead' = Ahead /\ Coming' = Coming
    <2>1. Ahead' = Ahead
      BY <1>1 DEF Ahead
    <2> QED BY <1>2, <2>1 DEF Coming
  <1>4. Used' = sent
    BY <1>1, <1>2, <1>3 DEF Used, Held
  <1>5. OnTrack' <=> OnTrack
    BY <1>1, <1>2, <1>3, FormKept DEF OnTrack, Reads
  <1>6. (Dry' <=> Dry) /\ (Refused' <=> Refused)
    BY <1>1, <1>2, <1>3 DEF Dry, Refused
  <1>7. Step
    <2>1. Out' = Out
      BY <1>1, <1>2 DEF Out, Ended, Astray
    <2> QED BY <1>1, <2>1 DEF Step
  <1> QED BY <1>1, <1>2, <1>4, <1>5, <1>6, <1>7, PlacedStays, Goes

LEMMA ScanningIs ==
  ASSUME Scanning
  PROVE  UNCHANGED formVars /\ (Scan!Iterate \/ Idles)
  <1>1. UNCHANGED formVars /\ (Scan!Iterate \/ Scan!GiveUp)
    BY DEF Scanning
  <1>2. ASSUME Scan!GiveUp PROVE Idles
    <2>1. /\ pc = "scan" /\ pc' = "idle" /\ (Len(data) >= maxLen \/ Scan!StreamEnded)
          /\ UNCHANGED <<wire, unread, buffer, lastFew, data, match, maxLen, sent, given>>
      BY <1>2, Zenon DEF Scan!GiveUp
    <2>2. UNCHANGED <<stage, items, file, form, short>>
      BY <1>1 DEF formVars
    <2> QED BY <2>1, <2>2 DEF Idles
  <1> QED BY <1>1, <1>2

LEMMA StutterIs == UNCHANGED vars => Idles
  <1> SUFFICES ASSUME UNCHANGED vars PROVE Idles
    OBVIOUS
  <1>1. UNCHANGED formVars /\ UNCHANGED scanVars
    BY DEF vars
  <1>2. UNCHANGED <<pc, wire, unread, buffer, lastFew, data, match, maxLen, sent, given>>
    BY <1>1, Zenon DEF scanVars
  <1>3. UNCHANGED <<stage, items, file, form, short>>
    BY <1>1 DEF formVars
  <1> QED BY <1>2, <1>3 DEF Idles

LEMMA SoundStep == Sound /\ [Next]_vars => Sound' /\ Lasting
  <1> SUFFICES ASSUME Sound, [Next]_vars PROVE Sound' /\ Lasting
    OBVIOUS
  <1>1. CASE Scanning
    BY <1>1, ScanningIs, IterateSound, IdleSound
  <1>2. CASE Start
    BY <1>2, StartSound
  <1>3. CASE IgnoreMore
    BY <1>3, IgnoreMoreSound
  <1>4. CASE IgnoreEol
    BY <1>4, IgnoreEolSound
  <1>5. CASE ReadHeader
    BY <1>5, ReadHeaderSound
  <1>6. CASE ReadContent
    BY <1>6, ReadContentSound
  <1>7. CASE KeepInMemory
    BY <1>7, KeepInMemorySound
  <1>8. CASE Spill
    BY <1>8, SpillSound
  <1>9. CASE SpillMore
    BY <1>9, SpillMoreSound
  <1>10. CASE SpillEnds
    BY <1>10, SpillEndsSound
  <1>11. CASE ReadTail
    BY <1>11, ReadTailSound
  <1>12. CASE SkipEol
    BY <1>12, SkipEolSound
  <1>13. CASE UNCHANGED vars
    BY <1>13, StutterIs, IdleSound
  <1> QED BY <1>1, <1>2, <1>3, <1>4, <1>5, <1>6, <1>7, <1>8, <1>9, <1>10, <1>11, <1>12, <1>13
      DEF Next, Rest

LEMMA OnwardStep ==
  ASSUME Forward, [Next]_vars
  PROVE  Onward
  <1>1. CASE Scanning
    BY <1>1, ScanningIs, IterateStep, IdleStep
  <1>2. CASE Start
    BY <1>2, StartStep
  <1>3. CASE IgnoreMore
    BY <1>3, IgnoreMoreStep
  <1>4. CASE IgnoreEol
    BY <1>4, IgnoreEolStep
  <1>5. CASE ReadHeader
    BY <1>5, ReadHeaderStep
  <1>6. CASE ReadContent
    BY <1>6, ReadContentStep
  <1>7. CASE KeepInMemory
    BY <1>7, KeepInMemoryStep
  <1>8. CASE Spill
    BY <1>8, SpillStep
  <1>9. CASE SpillMore
    BY <1>9, SpillMoreStep
  <1>10. CASE SpillEnds
    BY <1>10, SpillEndsStep
  <1>11. CASE ReadTail
    BY <1>11, ReadTailStep
  <1>12. CASE SkipEol
    BY <1>12, SkipEolStep
  <1>13. CASE UNCHANGED vars
    BY <1>13, StutterIs, IdleStep
  <1> QED BY <1>1, <1>2, <1>3, <1>4, <1>5, <1>6, <1>7, <1>8, <1>9, <1>10, <1>11, <1>12, <1>13
      DEF Next, Rest

(* The parser begins in front of the whole body.                            *)
LEMMA InitPlaced == Init => IInv
  <1> SUFFICES ASSUME Init PROVE IInv
    OBVIOUS
  <1>1. /\ stage = "start" /\ items = <<>> /\ file = <<>> /\ pc = "idle" /\ wire = sent
        /\ unread = <<>> /\ data = <<>> /\ given = <<>> /\ short = FALSE
        /\ buffer = <<>> /\ lastFew = <<>> /\ match = <<>> /\ maxLen = 0
    BY DEF Init
  <1>2. FormOK
    <2>1. PICK n \in 1 .. MaxItems : form \in [1 .. n -> Contents]
      BY DEF Init
    <2>2. n \in Nat \ {0}
      BY FormConstants
    <2> QED BY <2>1, <2>2 DEF FormOK
  <1>3. PICK n \in 0 .. Len(Body(form)) : sent = SubSeq(Body(form), 1, n)
    BY DEF Init
  <1>4. Body(form) \in Words
    BY <1>2, BodyIs
  <1>5. sent \in Words /\ Lost \in Words /\ Body(form) = Cat(sent, Lost)
    BY <1>3, <1>4, SplitWord DEF Lost
  <1>6. <<>> \in Words /\ Len(<<>>) = 0 /\ MaxUnread \in Nat
    BY Premises, CatEmpty
  <1>7. Typed
    <2>1. Len(unread) <= MaxUnread /\ maxLen \in Nat
      BY <1>1, <1>6
    <2>2. items \in Seq([content : Words, isFile : BOOLEAN])
      BY <1>1
    <2> QED BY <1>1, <1>2, <1>5, <1>6, <2>1, <2>2 DEF Typed, Stages
  <1>8. Searched
    BY <1>1 DEF Searched, Searches
  <1>9. PlacedExactly
    <2>1. DOMAIN items = {}
      BY <1>1
    <2> QED BY <2>1 DEF PlacedExactly
  <1>10. Ahead = sent
    BY <1>1, <1>5, CatEmpty DEF Ahead
  <1>11. Used = sent
    BY <1>1, <1>5, <1>10, CatEmpty DEF Used, Held
  <1>12. OnTrack
    <2>1. Coming = Cat(FirstBoundary, Cat(CrLf, Following(0)))
      BY <1>2, <1>5, <1>10, BodyIs DEF Coming
    <2>2. Len(items) = 0 /\ Len(form) \in Nat /\ 1 .. 0 = {}
      BY <1>1, <1>2 DEF FormOK
    <2>3. Len(items) <= Len(form)
      BY <2>2
    <2> QED BY <1>1, <2>1, <2>2, <2>3 DEF OnTrack
  <1> QED BY <1>7, <1>8, <1>9, <1>11, <1>12 DEF IInv, Sound, InPlace

LEMMA IInvStep == IInv /\ [Next]_vars => IInv' /\ Lasting /\ (Astray' \/ Step)
  <1> SUFFICES ASSUME IInv, [Next]_vars PROVE IInv' /\ Lasting /\ (Astray' \/ Step)
    OBVIOUS
  <1>1. Sound /\ Sound' /\ Lasting /\ PlacedExactly
    BY SoundStep DEF IInv
  <1>2. CASE ~Astray'
    <2>1. Onward
      BY <1>1, <1>2, OnwardStep DEF Forward
    <2> QED BY <1>1, <2>1 DEF IInv, Onward
  <1>3. CASE Astray'
    <2>1. PlacedExactly'
      <3>1. CASE short'
        BY <3>1 DEF PlacedExactly
      <3>2. CASE ~short'
        <4>1. pc' = "corrupt" /\ UNCHANGED <<items, form, sent>>
          BY <1>1, <1>3, <3>2 DEF Lasting, Astray
        <4>2. ~short
          BY <1>1, <3>2 DEF Lasting
        <4>3. UNCHANGED cut
          BY <4>1, FormKept
        <4> QED BY <1>1, <4>1, <4>2, <4>3 DEF PlacedExactly
      <3> QED BY <3>1, <3>2
    <2> QED BY <1>1, <1>3, <2>1 DEF IInv, InPlace
  <1> QED BY <1>2, <1>3

LEMMA AlwaysPlaced == Spec => []IInv
  <1>1. Init => IInv
    BY InitPlaced
  <1>2. IInv /\ [Next]_vars => IInv'
    BY IInvStep
  <1> QED BY <1>1, <1>2, PTL DEF Spec

-----------------------------------------------------------------------------
(* TypeOK: what is pushed back always has room in the descriptor's array,   *)
(* and what waits for a boundary in the loop of FileOrString is no longer   *)
(* than one.                                                                *)
THEOREM FormTypes == Spec => []TypeOK
  <1>1. IInv => TypeOK
    <2> SUFFICES ASSUME IInv PROVE TypeOK
      OBVIOUS
    <2>1. Typed /\ Searched
      BY DEF IInv, Sound
    <2>2. stage = "file" => Len(lastFew) = Len(match) - 1 /\ (file # <<>> => Len(data) = Len(match))
      BY <2>1 DEF Searched, InFile, ScanP!Recent
    <2>3. ASSUME NEW i \in DOMAIN items PROVE items[i].isFile \in BOOLEAN
      <3> DEFINE Item1 == [content : Words, isFile : BOOLEAN]
      <3>1. items \in Seq(Item1)
        BY <2>1 DEF Typed
      <3> HIDE DEF Item1
      <3>2. items[i] \in Item1
        BY <3>1
      <3> QED BY <3>2 DEF Item1
    <2> QED BY <2>1, <2>2, <2>3 DEF TypeOK, Typed, Stages, Searches
  <1> QED BY <1>1, AlwaysPlaced, PTL

(* Placed: an item of a whole form is in memory if it and the boundary      *)
(* behind it fit within BYTES_TO_STORE_IN_MEMORY, and in a file if it alone *)
(* does not, whatever pieces read() returns, as long as the two bytes       *)
(* behind the boundaries come together.                                     *)
THEOREM PlacedBySize == Spec => []Placed
  <1>1. IInv => Placed
    <2> SUFFICES ASSUME IInv, NEW i \in DOMAIN items, ~cut, ~short
                 PROVE  LET size == Len(items[i].content)
                        IN  /\ size + Len(RealBoundary) <= MemoryLimit => ~items[i].isFile
                            /\ size >= MemoryLimit => items[i].isFile
      BY DEF Placed
    <2>1. items[i].isFile <=> Len(items[i].content) + Len(RealBoundary) > MemoryLimit
      BY DEF IInv, PlacedExactly
    <2>2. Len(RealBoundary) \in Nat \ {0} /\ MemoryLimit \in Nat
      BY Premises, RealBoundaryIs
    <2>3. Len(items[i].content) \in Nat
      <3> DEFINE Item1 == [content : Words, isFile : BOOLEAN]
      <3>1. items \in Seq(Item1)
        BY DEF IInv, Sound, Typed
      <3> HIDE DEF Item1
      <3>2. items[i] \in Item1
        BY <3>1
      <3>3. items[i].content \in Seq(Cells)
        BY <3>2 DEF Item1, Words
      <3> QED BY <3>3
    <2> QED BY <2>1, <2>2, <2>3
  <1> QED BY <1>1, AlwaysPlaced, PTL

(* Conserved: however the calls of readUntilMatch, the loop of FileOrString *)
(* and the bytes pushed back follow each other, no byte of the stream is    *)
(* lost, doubled, moved or added, as long as the two bytes behind the       *)
(* boundaries come together.                                                *)
THEOREM NothingLost == Spec => [](short \/ Conserved)
  <1>1. IInv => short \/ Conserved
    <2> SUFFICES ASSUME IInv, pc # "corrupt", ~short PROVE All = sent
      BY DEF Conserved
    <2>1. {given, Held, data, unread, wire, sent} \subseteq Words
      BY CatEmpty DEF IInv, Sound, Typed, Held
    <2>2. Used = sent
      BY DEF IInv, InPlace, Astray
    <2>3. Used = Cat(Cat(Cat(Cat(given, Held), data), unread), wire)
      <3>1. Used = Cat(given, Cat(Held, Cat(data, Cat(unread, wire))))
        BY DEF Used, Ahead
      <3>2. /\ Cat(unread, wire) \in Words /\ Cat(data, Cat(unread, wire)) \in Words
            /\ Cat(given, Held) \in Words /\ Cat(Cat(given, Held), data) \in Words
        BY <2>1, CatAssociative
      <3>3. Used = Cat(Cat(given, Held), Cat(data, Cat(unread, wire)))
        BY <2>1, <3>1, <3>2, CatAssociative
      <3>4. Used = Cat(Cat(Cat(given, Held), data), Cat(unread, wire))
        BY <2>1, <3>2, <3>3, CatAssociative
      <3> QED BY <2>1, <3>2, <3>4, CatAssociative
    <2> QED BY <2>2, <2>3, Zenon DEF Cat, All, Held
  <1> QED BY <1>1, AlwaysPlaced, PTL

(* Recognised: parseMultiPartFormData throws on a whole form only when two  *)
(* bytes behind a boundary came short.                                      *)
THEOREM WholeRecognised == Spec => []Recognised
  <1>1. IInv => Recognised
    <2> SUFFICES ASSUME IInv, stage = "failed", ~cut PROVE short
      BY DEF Recognised
    <2>1. pc # "corrupt"
      BY DEF IInv, Sound, Searched, Searches
    <2> QED BY <2>1 DEF IInv, InPlace, Astray, OnTrack, Dry, Refused
  <1> QED BY <1>1, AlwaysPlaced, PTL

-----------------------------------------------------------------------------
(* The delivery the items of the parser stand for.                          *)
Arrived == [i \in DOMAIN items |-> items[i].content]

ArrivedOK ==
  /\ Arrived \in Seq(Words) /\ Len(Arrived) = Len(items) /\ Len(items) \in Nat
  /\ \A i \in 1 .. Len(items) : Arrived[i] = items[i].content

LEMMA ArrivedIs == Typed => ArrivedOK
  <1> SUFFICES ASSUME Typed PROVE ArrivedOK
    OBVIOUS
  <1> DEFINE Item1 == [content : Words, isFile : BOOLEAN]
  <1>1. items \in Seq(Item1)
    BY DEF Typed
  <1> HIDE DEF Item1
  <1>2. DOMAIN items = 1 .. Len(items) /\ Len(items) \in Nat /\ \A i \in 1 .. Len(items) : items[i] \in Item1
    BY <1>1
  <1>3. \A i \in 1 .. Len(items) : items[i].content \in Words
    BY <1>2 DEF Item1
  <1>4. Arrived = [i \in 1 .. Len(items) |-> items[i].content]
    BY <1>2 DEF Arrived
  <1>5. Arrived \in Seq(Words) /\ Len(Arrived) = Len(items)
    BY <1>2, <1>3, <1>4
  <1> QED BY <1>2, <1>4, <1>5 DEF ArrivedOK

(* An item that is added to those delivered.                                *)
LEMMA Added ==
  ASSUME Typed, Typed', NEW content \in Words, NEW isFile \in BOOLEAN, Adds(content, isFile)
  PROVE  /\ Arrived \in Seq(Words) /\ Arrived' = Append(Arrived, content)
         /\ Len(Arrived) = Len(items)
  <1> DEFINE new == [content |-> content, isFile |-> isFile]
             k == Len(items)
  <1>1. items' = Append(items, new) /\ new.content = content
    BY DEF Adds
  <1>2. items \in Seq([content : Words, isFile : BOOLEAN])
    BY DEF Typed
  <1> HIDE DEF new
  <1>3. /\ k \in Nat /\ Len(items') = k + 1 /\ \A i \in 1 .. k : items'[i] = items[i]
        /\ items'[k + 1] = new
    BY <1>1, <1>2
  <1>4. /\ Len(Arrived) = k /\ \A i \in 1 .. k : Arrived[i] = items[i].content
        /\ Arrived \in Seq(Words)
    BY ArrivedIs DEF ArrivedOK
  <1>5. /\ Len(Arrived') = k + 1 /\ \A i \in 1 .. k + 1 : Arrived'[i] = items'[i].content
        /\ Arrived' \in Seq(Words)
    <2>1. Typed' => ArrivedOK'
      BY ArrivedIs, PTL
    <2> QED BY <1>3, <2>1 DEF ArrivedOK
  <1> HIDE DEF k
  <1>6. /\ Append(Arrived, content) \in Seq(Words) /\ Len(Append(Arrived, content)) = k + 1
        /\ \A i \in 1 .. k : Append(Arrived, content)[i] = Arrived[i]
        /\ Append(Arrived, content)[k + 1] = content
    BY <1>3, <1>4
  <1>7. \A i \in 1 .. k + 1 : Arrived'[i] = Append(Arrived, content)[i]
    <2> TAKE i \in 1 .. k + 1
    <2>1. i \in 1 .. k \/ i = k + 1
      BY <1>3
    <2> QED BY <1>1, <1>3, <1>4, <1>5, <1>6, <2>1
  <1> QED BY <1>3, <1>4, <1>5, <1>6, <1>7, SeqEqual DEF k

LEMMA DeliveryNext ==
  ASSUME IInv, IInv', Lasting, Astray' \/ Step
  PROVE  [Delivery!Next]_(Delivery!vars)
  <1>1. Typed /\ Typed' /\ UNCHANGED <<form, sent>>
    BY DEF IInv, Sound, Lasting
  <1>2. UNCHANGED cut
    BY <1>1, FormKept
  <1>3. ASSUME UNCHANGED <<items, Out>> PROVE UNCHANGED Delivery!vars
    <2>1. UNCHANGED Arrived
      BY <1>3 DEF Arrived
    <2> QED BY <1>1, <1>2, <1>3, <2>1 DEF Delivery!vars, Arrived, Out, Astray
  <1>4. ASSUME items' = items, Out = "open", Out' = "givenUp" PROVE Delivery!GiveUp
    <2>1. UNCHANGED Arrived
      BY <1>4 DEF Arrived
    <2> QED BY <1>1, <1>2, <1>4, <2>1 DEF Delivery!GiveUp, Arrived, Out, Astray
  <1>5. ASSUME items' = items, Out = "open", Out' = "complete", Len(items) = Len(form),
               \A i \in 1 .. Len(items) : items[i].content = form[i]
        PROVE  Delivery!Complete
    <2>1. UNCHANGED Arrived
      BY <1>5 DEF Arrived
    <2>2. Arrived = form
      <3>1. form \in Seq(Contents)
        BY <1>1 DEF Typed, FormOK
      <3>2. form = [i \in 1 .. Len(form) |-> form[i]]
        BY <3>1
      <3>3. DOMAIN items = 1 .. Len(items)
        BY <1>1 DEF Typed
      <3> QED BY <1>5, <3>2, <3>3 DEF Arrived
    <2> QED BY <1>1, <1>2, <1>5, <2>1, <2>2 DEF Delivery!Complete, Arrived, Out, Astray
  <1>6. ASSUME Out = "open", Out' = "open",
               NEW content \in Words, NEW isFile \in BOOLEAN, Arrives(content, isFile)
        PROVE  Delivery!Arrive
    <2>1. /\ Len(items) < Len(form) /\ Adds(content, isFile)
          /\ \E n \in 0 .. Len(form[Len(items) + 1]) :
               (n = Len(form[Len(items) + 1]) \/ cut) /\ content = SubSeq(form[Len(items) + 1], 1, n)
      BY <1>6 DEF Arrives
    <2>2. Arrived' = Append(Arrived, content) /\ Len(Arrived) = Len(items)
      BY <1>1, <2>1, Added
    <2>3. \E n \in 0 .. Len(form[Len(Arrived) + 1]) :
            /\ n = Len(form[Len(Arrived) + 1]) \/ cut
            /\ Arrived' = Append(Arrived, SubSeq(form[Len(Arrived) + 1], 1, n))
      BY <2>1, <2>2
    <2>4. Out' = Out
      BY <1>6
    <2> QED BY <1>1, <1>2, <1>6, <2>1, <2>2, <2>3, <2>4 DEF Delivery!Arrive, Arrived, Out, Astray
  <1>7. ASSUME Astray', ~Astray PROVE Delivery!Stray
    <2>1. items' = items /\ Out = "open" /\ Out' = "astray"
      BY <1>7 DEF Lasting, Out
    <2>2. UNCHANGED Arrived
      BY <2>1 DEF Arrived
    <2> QED BY <1>1, <1>2, <2>1, <2>2 DEF Delivery!Stray, Arrived, Out, Astray
  <1>8. ASSUME Astray, items' # items PROVE Delivery!Wander
    <2>1. Astray' /\ Out = "astray" /\ Out' = "astray"
      BY <1>8 DEF Lasting, Out
    <2>2. PICK content \in Words, isFile \in BOOLEAN : Adds(content, isFile)
      BY <1>8 DEF Lasting
    <2>3. Arrived \in Seq(Words) /\ Arrived' = Append(Arrived, content)
      BY <1>1, <2>2, Added
    <2>4. IsPrefix(Arrived, Arrived')
      <3> DEFINE a == Arrived
                 b == Append(a, content)
                 n == Len(a)
      <3>1. a \in Seq(Words)
        BY <2>3
      <3> HIDE DEF a
      <3>2. /\ n \in Nat /\ b \in Seq(Words) /\ Len(b) = n + 1 /\ n <= Len(b)
            /\ \A i \in 1 .. n : b[i] = a[i]
        BY <3>1
      <3> HIDE DEF b
      <3>3. SubSeq(a, 1, n) = SubSeq(b, 1, n)
        BY <3>1, <3>2
      <3>4. IsPrefix(a, b)
        BY <3>2, <3>3 DEF IsPrefix
      <3> QED BY <2>3, <3>4 DEF a, b
    <2>5. Delivery!IsPrefix(Arrived, Arrived')
      BY <2>4 DEF IsPrefix, Delivery!IsPrefix
    <2> QED BY <1>1, <1>2, <2>1, <2>5 DEF Delivery!Wander, Arrived, Out, Astray
  <1>9. ASSUME Astray, items' = items PROVE UNCHANGED Delivery!vars
    <2>1. Out' = Out
      BY <1>9 DEF Lasting, Out
    <2> QED BY <1>3, <1>9, <2>1
  <1>10. CASE Astray
    BY <1>8, <1>9, <1>10 DEF Delivery!Next
  <1>11. CASE ~Astray /\ Astray'
    BY <1>7, <1>11 DEF Delivery!Next
  <1>12. CASE ~Astray'
    BY <1>3, <1>4, <1>5, <1>6, <1>12 DEF Step, Delivery!Next
  <1> QED BY <1>10, <1>11, <1>12

(* Delivers: the items of parseMultiPartFormData arrive in the order of the *)
(* form, each with its own content and whole unless the stream ends within  *)
(* the form, and the parser comes to the end of the form only with all of   *)
(* them, until it goes astray.                                              *)
THEOREM FormDelivered == Spec => Delivers
  <1>1. Init => Delivery!Init
    <2> SUFFICES ASSUME Init PROVE Delivery!Init
      OBVIOUS
    <2>1. IInv /\ stage = "start" /\ pc = "idle" /\ items = <<>> /\ short = FALSE
      BY InitPlaced DEF Init
    <2>2. form \in Seq(Contents)
      BY <2>1 DEF IInv, Sound, Typed, FormOK
    <2>3. Arrived = <<>>
      BY <2>1 DEF Arrived
    <2>4. Out = "open"
      BY <2>1 DEF Out, Ended, Astray
    <2>5. cut \in BOOLEAN
      BY DEF cut
    <2> QED BY <2>2, <2>3, <2>4, <2>5 DEF Delivery!Init, Arrived, Out, Astray
  <1>2. IInv /\ IInv' /\ [Next]_vars => [Delivery!Next]_(Delivery!vars)
    BY IInvStep, DeliveryNext
  <1> QED BY <1>1, <1>2, AlwaysPlaced, PTL DEF Spec, Delivers, Delivery!Spec
=============================================================================
