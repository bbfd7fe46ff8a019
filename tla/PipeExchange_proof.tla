------------------------- MODULE PipeExchange_proof -------------------------
(***************************************************************************)
(* No byte of a module's output is lost, doubled or moved, for every size   *)
(* of the pipe and of the buffers, every output and every way in which it   *)
(* arrives.                                                                 *)
(***************************************************************************)
EXTENDS PipeExchange, SequenceTheorems, WellFoundedInduction, TLAPS

(* What the variables hold.                                                 *)
Stored ==
  /\ exchange \in Exchanges
  /\ toWrite \in Nat /\ inPipe \in Nat
  /\ {outPipe, rest, data, unread, received} \subseteq Seq(Bytes)
  /\ {length, begin} \subseteq Nat \cup {None}
  /\ pc \in {"write", "metadata", "parse", "relay", "done", "broken", "dead"}

(* Until the metadata is parsed nothing is decided and nothing sent, and    *)
(* there is room for all that was read; as long as nothing is garbled.      *)
Early ==
  /\ garbled = FALSE
  /\ pc \in {"write", "dead"} => data = <<>> /\ unread = <<>>
  /\ pc = "metadata" => unread = <<>>
  /\ pc = "parse" => Len(data) + Len(unread) <= MetaLimit
  /\ pc \in {"write", "metadata", "parse", "dead"} =>
       length = None /\ begin = None /\ received = <<>>

Inv == Stored /\ TypeOK /\ Early /\ Kept

(* The constants, for the leaves that only need numbers.                    *)
LEMMA Sizes ==
  /\ None \notin Nat /\ Bytes \subseteq Nat /\ Lf \in Bytes /\ Junk \in Bytes
  /\ Capacity \in Nat \ {0} /\ BufferSize \in Nat \ {0} /\ MetaLimit \in Nat \ {0}
  /\ UintMod \in Nat \ {0} /\ MaxUnread \in Nat /\ MetaLimit <= MaxUnread
  BY ExchangeConstants DEF Bytes

-----------------------------------------------------------------------------
(* Least and greatest elements.                                             *)

LEMMA MinIn ==
  ASSUME NEW S \in SUBSET Nat, S # {}
  PROVE  Min(S) \in S /\ \A y \in S : Min(S) <= y
  <1>1. \E x \in S : \A y \in S : ~ (<<y, x>> \in OpToRel(<, Nat))
    BY NatLessThanWellFounded, WFMin, Zenon
  <1>2. PICK x \in S : \A y \in S : ~ (<<y, x>> \in OpToRel(<, Nat))
    BY <1>1
  <1>3. \A y \in S : ~ (y < x)
    <2> TAKE y \in S
    <2>1. ~ (<<y, x>> \in OpToRel(<, Nat))
      BY <1>2
    <2> QED BY <2>1, Zenon DEF OpToRel
  <1>4. \A y \in S : x <= y
    BY <1>3
  <1> QED BY <1>4 DEF Min

LEMMA MaxIn ==
  ASSUME NEW n \in Nat, NEW S \in SUBSET (0 .. n), S # {}
  PROVE  Max(S) \in S /\ \A y \in S : Max(S) >= y
  <1> DEFINE T == {n - i : i \in S}
  <1>1. T \in SUBSET Nat /\ T # {}
    <2>1. \A i \in S : n - i \in Nat
      OBVIOUS
    <2>2. \E i \in S : TRUE
      OBVIOUS
    <2> QED BY <2>1, <2>2
  <1>2. Min(T) \in T /\ \A y \in T : Min(T) <= y
    BY <1>1, MinIn
  <1>3. PICK x \in S : Min(T) = n - x
    BY <1>2
  <1>4. \A y \in S : x >= y
    <2> TAKE y \in S
    <2>1. n - y \in T
      OBVIOUS
    <2>2. n - x <= n - y
      BY <1>2, <1>3, <2>1
    <2> QED BY <2>2
  <1> QED BY <1>4 DEF Max

-----------------------------------------------------------------------------
(* Sequences of bytes.                                                      *)

(* A sequence is its first n elements and the others.                       *)
LEMMA Split ==
  ASSUME NEW s \in Seq(Bytes), NEW n \in 0 .. Len(s)
  PROVE  /\ SubSeq(s, 1, n) \in Seq(Bytes) /\ Len(SubSeq(s, 1, n)) = n
         /\ Drop(s, n) \in Seq(Bytes) /\ Len(Drop(s, n)) = Len(s) - n
         /\ SubSeq(s, 1, n) \o Drop(s, n) = s
  <1>1. Len(s) \in Nat /\ \A i \in 1 .. Len(s) : s[i] \in Bytes
    OBVIOUS
  <1>2. SubSeq(s, 1, n) \in Seq(Bytes) /\ Len(SubSeq(s, 1, n)) = n
    BY <1>1, SubSeqProperties
  <1>3. Drop(s, n) \in Seq(Bytes) /\ Len(Drop(s, n)) = Len(s) - n
    BY <1>1, SubSeqProperties DEF Drop
  <1>4. SubSeq(s, 1, n) \o Drop(s, n) = SubSeq(s, 1, Len(s))
    <2>1. /\ 1 \in 1 .. Len(s) + 1 /\ n \in (1 - 1) .. Len(s)
          /\ Len(s) \in n .. Len(s)
      BY <1>1
    <2>2. SubSeq(s, 1, n) \o SubSeq(s, n + 1, Len(s)) = SubSeq(s, 1, Len(s))
      BY <2>1, ConcatAdjacentSubSeq, Zenon
    <2> QED BY <2>2 DEF Drop
  <1>5. SubSeq(s, 1, Len(s)) = s
    BY SubSeqFull
  <1> QED BY <1>2, <1>3, <1>4, <1>5

LEMMA Associative ==
  \A s, t, u \in Seq(Bytes) :
    /\ s \o t \in Seq(Bytes)
    /\ (s \o t) \o u = s \o (t \o u)
  BY ConcatAssociative, ConcatProperties

(* What is behind the front of a concatenation.                             *)
LEMMA DropFront ==
  ASSUME NEW s \in Seq(Bytes), NEW t \in Seq(Bytes)
  PROVE  SubSeq(s \o t, 1, Len(s)) = s /\ Drop(s \o t, Len(s)) = t
  <1>1. s \o t \in Seq(Bytes) /\ Len(s \o t) = Len(s) + Len(t)
    BY ConcatProperties
  <1>2. Len(s) \in 0 .. Len(s \o t)
    BY <1>1
  <1> DEFINE a == SubSeq(s \o t, 1, Len(s))
             b == Drop(s \o t, Len(s))
  <1>3. a \in Seq(Bytes) /\ b \in Seq(Bytes) /\ a \o b = s \o t /\ Len(a) = Len(s)
    BY <1>1, <1>2, Split
  <1>4. \A i \in 1 .. Len(s) : a[i] = s[i]
    <2> TAKE i \in 1 .. Len(s)
    <2>1. a[i] = (s \o t)[i]
      BY <1>1, <1>2, SubSeqProperties
    <2> QED BY <2>1
  <1>5. a = s
    BY <1>3, <1>4, SeqEqual
  <1>6. s \o b = s \o t
    BY <1>3, <1>5
  <1> HIDE DEF b
  <1>7. b = t
    BY <1>3, <1>6, ConcatSimplifications
  <1> QED BY <1>5, <1>7 DEF b

LEMMA TrimFits ==
  ASSUME NEW s \in Seq(Bytes)
  PROVE  Trim(s) \in Seq(Bytes) /\ Len(Trim(s)) <= Len(s)
  <1> DEFINE solid == {i \in DOMAIN s : s[i] # Lf}
  <1>1. CASE solid = {}
    BY <1>1 DEF Trim
  <1>2. CASE solid # {}
    <2>1. solid \in SUBSET (0 .. Len(s)) /\ solid \in SUBSET Nat /\ Len(s) \in Nat
      OBVIOUS
    <2>2. Min(solid) \in solid /\ Max(solid) \in solid
      BY <1>2, <2>1, MinIn, MaxIn
    <2>3. Min(solid) \in 1 .. Len(s) /\ Max(solid) \in 1 .. Len(s)
      BY <2>2
    <2>4. Trim(s) = SubSeq(s, Min(solid), Max(solid))
      BY <1>2 DEF Trim
    <2> HIDE DEF solid
    <2>5. \A i \in Min(solid) .. Max(solid) : s[i] \in Bytes
      BY <2>3
    <2>6. /\ Trim(s) \in Seq(Bytes)
          /\ Len(Trim(s)) = IF Min(solid) <= Max(solid) THEN Max(solid) - Min(solid) + 1 ELSE 0
      BY <2>3, <2>4, <2>5, SubSeqProperties
    <2> QED BY <2>1, <2>3, <2>6
  <1> QED BY <1>1, <1>2

LEMMA BlankLineEndIn ==
  ASSUME NEW s \in Seq(Bytes)
  PROVE  BlankLineEnd(s) \in 0 .. Len(s)
  <1> DEFINE ends == {i \in 2 .. Len(s) : s[i] = Lf /\ s[i - 1] = Lf}
  <1>1. CASE ends = {}
    BY <1>1 DEF BlankLineEnd
  <1>2. CASE ends # {}
    <2>1. ends \in SUBSET Nat /\ \A i \in ends : i \in 2 .. Len(s)
      OBVIOUS
    <2>2. Min(ends) \in ends
      BY <1>2, <2>1, MinIn
    <2>3. BlankLineEnd(s) = Min(ends)
      BY <1>2 DEF BlankLineEnd
    <2> QED BY <2>1, <2>2, <2>3
  <1> QED BY <1>1, <1>2

(* What fits is pushed back whole.                                          *)
LEMMA PushBackFits ==
  ASSUME NEW pushed \in Seq(Bytes), NEW bytes \in Seq(Bytes),
         Len(pushed) + Len(bytes) <= MaxUnread
  PROVE  PushBack(pushed, bytes) = bytes \o pushed
  <1>1. Smaller(Len(bytes), MaxUnread - Len(pushed)) = Len(bytes)
    BY Sizes DEF Smaller
  <1>2. SubSeq(bytes, 1, Len(bytes)) = bytes
    BY SubSeqFull
  <1> QED BY <1>1, <1>2 DEF PushBack

(* Regrouping needs nothing but associativity: sequences and their          *)
(* concatenation are left unexpanded.                                       *)
Strings == Seq(Bytes)
Cat(s, t) == s \o t

LEMMA CatAssociative ==
  \A s, t, u \in Strings :
    /\ Cat(s, t) \in Strings
    /\ Cat(Cat(s, t), u) = Cat(s, Cat(t, u))
  BY Associative DEF Strings, Cat

(* A chunk moves from what is left to what was read.                        *)
LEMMA ChunkMoves ==
  \A d, c, p, o, r \in Strings :
    Cat(Cat(d, c), Cat(Cat(p, o), r)) = Cat(d, Cat(Cat(c, Cat(p, o)), r))
<1> TAKE d, c, p, o, r \in Strings
<1>1. Cat(p, o) \in Strings /\ Cat(Cat(p, o), r) \in Strings
  BY CatAssociative
<1>2. Cat(Cat(d, c), Cat(Cat(p, o), r)) = Cat(d, Cat(c, Cat(Cat(p, o), r)))
  BY <1>1, CatAssociative
<1>3. Cat(c, Cat(Cat(p, o), r)) = Cat(Cat(c, Cat(p, o)), r)
  BY <1>1, CatAssociative
<1> QED BY <1>2, <1>3

(* What is pushed back is in front of what is left.                         *)
LEMMA BackMoves ==
  \A b, p, o, r \in Strings : Cat(Cat(Cat(b, p), o), r) = Cat(b, Cat(Cat(p, o), r))
<1> TAKE b, p, o, r \in Strings
<1>1. Cat(p, o) \in Strings
  BY CatAssociative
<1>2. Cat(Cat(b, p), o) = Cat(b, Cat(p, o))
  BY CatAssociative
<1>3. Cat(Cat(b, Cat(p, o)), r) = Cat(b, Cat(Cat(p, o), r))
  BY <1>1, CatAssociative
<1> QED BY <1>2, <1>3

(* The back of a chunk goes to the front of what is left.                   *)
LEMMA CatRegroup ==
  \A f, b, o, r \in Strings : Cat(f, Cat(Cat(b, o), r)) = Cat(Cat(f, b), Cat(o, r))
<1> TAKE f, b, o, r \in Strings
<1>1. Cat(Cat(b, o), r) = Cat(b, Cat(o, r)) /\ Cat(o, r) \in Strings
  BY CatAssociative
<1>2. Cat(f, Cat(b, Cat(o, r))) = Cat(Cat(f, b), Cat(o, r))
  BY <1>1, CatAssociative
<1> QED BY <1>1, <1>2

(* What is printed moves into the pipe.                                     *)
LEMMA PrintMoves ==
  \A u, o, x, y \in Strings : Cat(Cat(u, Cat(o, x)), y) = Cat(Cat(u, o), Cat(x, y))
<1> TAKE u, o, x, y \in Strings
<1>1. Cat(u, o) \in Strings
  BY CatAssociative
<1>2. Cat(u, Cat(o, x)) = Cat(Cat(u, o), x)
  BY CatAssociative
<1>3. Cat(Cat(Cat(u, o), x), y) = Cat(Cat(u, o), Cat(x, y))
  BY <1>1, CatAssociative
<1> QED BY <1>2, <1>3

-----------------------------------------------------------------------------
(* A chunk comes off the front of what was pushed back, and then of what is *)
(* in the pipe.                                                             *)
LEMMA ChunkSplits ==
  ASSUME Stored, NEW n \in Nat, NEW chunk \in Chunks(n), Take(chunk)
  PROVE  /\ chunk \in Seq(Bytes) /\ Len(chunk) <= n
         /\ PushedAfter(chunk) \in Seq(Bytes)
         /\ Len(PushedAfter(chunk)) <= Len(unread)
         /\ outPipe' \in Seq(Bytes) /\ Len(outPipe') <= Len(outPipe)
         /\ chunk \o (PushedAfter(chunk) \o outPipe') = unread \o outPipe
         /\ unread = <<>> => PushedAfter(chunk) = <<>>
  <1>0. unread \in Seq(Bytes) /\ outPipe \in Seq(Bytes)
    BY DEF Stored
  <1>1. CASE unread # <<>>
    <2>1. PICK k \in 0 .. Len(unread) : k <= n /\ chunk = SubSeq(unread, 1, k)
      <3>1. chunk = SubSeq(unread, 1, Smaller(n, Len(unread)))
        BY <1>1 DEF Chunks
      <3> QED BY <1>0, <3>1 DEF Smaller
    <2> DEFINE left == Drop(unread, k)
    <2>2. /\ chunk \in Seq(Bytes) /\ Len(chunk) = k
          /\ left \in Seq(Bytes) /\ Len(left) = Len(unread) - k
          /\ chunk \o left = unread
      BY <1>0, <2>1, Split
    <2>3. PushedAfter(chunk) = left /\ outPipe' = outPipe
      BY <1>1, <2>2 DEF PushedAfter, Take
    <2> HIDE DEF left
    <2>4. (chunk \o left) \o outPipe = chunk \o (left \o outPipe)
      <3>1. chunk \in Seq(Bytes) /\ left \in Seq(Bytes) /\ outPipe \in Seq(Bytes)
        BY <1>0, <2>2
      <3> QED BY <3>1, Associative, SMTT(30)
    <2>5. Len(left) <= Len(unread) /\ Len(chunk) <= n /\ Len(outPipe) <= Len(outPipe)
      BY <1>0, <2>1, <2>2
    <2>6. chunk \o (left \o outPipe) = unread \o outPipe
      BY <2>2, <2>4
    <2> QED BY <1>0, <1>1, <2>2, <2>3, <2>5, <2>6
  <1>2. CASE unread = <<>>
    <2>1. PICK k \in 1 .. Smaller(n, Len(outPipe)) : chunk = SubSeq(outPipe, 1, k)
      BY <1>2 DEF Chunks
    <2>2. k \in 0 .. Len(outPipe) /\ k <= n
      BY <1>0, <2>1 DEF Smaller
    <2>3. /\ chunk \in Seq(Bytes) /\ Len(chunk) = k
          /\ Drop(outPipe, k) \in Seq(Bytes) /\ Len(Drop(outPipe, k)) = Len(outPipe) - k
          /\ chunk \o Drop(outPipe, k) = outPipe
      BY <1>0, <2>1, <2>2, Split
    <2>4. PushedAfter(chunk) = <<>> /\ outPipe' = Drop(outPipe, k)
      BY <1>2, <2>3 DEF PushedAfter, Take
    <2>5. <<>> \o Drop(outPipe, k) = Drop(outPipe, k) /\ <<>> \o outPipe = outPipe
      BY <1>0, <2>3, ConcatEmptySeq
    <2>6. Len(<<>>) <= Len(unread) /\ Len(Drop(outPipe, k)) <= Len(outPipe)
      BY <1>0, <1>2, <2>2, <2>3
    <2>7. <<>> \in Seq(Bytes)
      OBVIOUS
    <2>8. chunk \o (<<>> \o Drop(outPipe, k)) = unread \o outPipe
      BY <1>2, <2>3, <2>5
    <2> QED BY <2>2, <2>3, <2>4, <2>6, <2>7, <2>8
  <1> QED BY <1>1, <1>2

(* A chunk that is read moves from what is left to what was read.           *)
LEMMA ReadMoves ==
  ASSUME Stored, NEW n \in Nat, NEW chunk \in Chunks(n), Take(chunk),
         rest' = rest, NEW d \in Seq(Bytes)
  PROVE  (d \o chunk) \o ((PushedAfter(chunk) \o outPipe') \o rest) = d \o Left
  <1> DEFINE p == PushedAfter(chunk)
             o == outPipe'
  <1>1. chunk \o (p \o o) = unread \o outPipe
    BY ChunkSplits
  <1>2. {chunk, p, o, rest, d} \subseteq Strings
    BY ChunkSplits DEF Stored, Strings
  <1> HIDE DEF p, o
  <1>3. (d \o chunk) \o ((p \o o) \o rest) = d \o ((chunk \o (p \o o)) \o rest)
    <2>1. Cat(Cat(d, chunk), Cat(Cat(p, o), rest)) = Cat(d, Cat(Cat(chunk, Cat(p, o)), rest))
      BY <1>2, ChunkMoves
    <2> QED BY <2>1, Zenon DEF Cat
  <1> QED BY <1>1, <1>3 DEF Left, p, o

-----------------------------------------------------------------------------
(* The steps.                                                               *)

LEMMA NotYet == Inv => garbled = FALSE
  BY DEF Inv, Early

LEMMA InitInv == Init => Inv
  <1> SUFFICES ASSUME Init PROVE Inv
    OBVIOUS
  <1>1. exchange.input \in Nat /\ exchange.output \in Seq(Bytes)
    BY ExchangeConstants DEF Init
  <1>2. Stored
    BY <1>1, Sizes DEF Init, Stored
  <1>3. TypeOK /\ Early
    BY Sizes DEF Init, TypeOK, Early
  <1>4. data \o Left = exchange.output
    <2>1. <<>> \o rest = rest /\ <<>> \o <<>> = <<>>
      BY <1>1, ConcatEmptySeq DEF Init
    <2> QED BY <2>1 DEF Init, Left
  <1> QED BY <1>2, <1>3, <1>4 DEF Inv, Kept, Init

(* A chunk of the metadata is kept, or cut behind the blank line.           *)
LEMMA ReadMetadataStep ==
  ASSUME Inv, ReadMetadata, UNCHANGED <<exchange, toWrite, inPipe, moduleVars>>,
         garbled' = FALSE
  PROVE  Inv'
  <1>0. /\ Stored /\ TypeOK /\ Early
        /\ pc = "metadata" /\ unread = <<>> /\ Len(data) < MetaLimit
        /\ data \in Seq(Bytes) /\ Len(data) \in Nat
        /\ data \o Left = exchange.output
        /\ rest' = rest
    BY DEF Inv, ReadMetadata, Kept, Early, Stored, moduleVars
  <1>1. MetaAsk \in Nat /\ Len(data) + MetaAsk <= MetaLimit
    BY <1>0, Sizes DEF MetaAsk, Smaller
  <1>2. PICK chunk \in Chunks(MetaAsk) :
          /\ Take(chunk)
          /\ \/ /\ BlankLineEnd(data \o chunk) = 0
                /\ data' = data \o chunk /\ unread' = PushedAfter(chunk)
                /\ UNCHANGED pc
             \/ /\ BlankLineEnd(data \o chunk) > 0
                /\ data' = SubSeq(data \o chunk, 1, BlankLineEnd(data \o chunk))
                /\ unread' = PushBack(PushedAfter(chunk),
                                      Drop(data \o chunk, BlankLineEnd(data \o chunk)))
                /\ pc' = "parse"
    BY DEF ReadMetadata, Keep, Cut, Overrun
  <1> DEFINE whole == data \o chunk
             end == BlankLineEnd(whole)
  <1>3. /\ chunk \in Seq(Bytes) /\ Len(chunk) <= MetaAsk
        /\ PushedAfter(chunk) = <<>>
        /\ outPipe' \in Seq(Bytes) /\ Len(outPipe') <= Len(outPipe)
    BY <1>0, <1>1, <1>2, ChunkSplits
  <1>4. whole \o ((<<>> \o outPipe') \o rest) = exchange.output
    BY <1>0, <1>1, <1>2, <1>3, ReadMoves
  <1>5. /\ whole \in Seq(Bytes) /\ Len(whole) \in Nat
        /\ Len(whole) = Len(data) + Len(chunk) /\ Len(whole) <= MetaLimit
    <2>1. Len(chunk) \in Nat
      BY <1>3
    <2>2. whole \in Seq(Bytes) /\ Len(whole) = Len(data) + Len(chunk)
      BY <1>0, <1>3, ConcatProperties
    <2> QED BY <1>0, <1>1, <1>3, <2>1, <2>2, Sizes
  <1>6. end \in 0 .. Len(whole)
    BY <1>5, BlankLineEndIn
  <1>7. outPipe' \in Seq(Bytes) /\ Len(outPipe') <= Capacity
    BY <1>0, <1>3, Sizes DEF TypeOK, Stored
  <1>8. /\ UNCHANGED <<exchange, toWrite, inPipe, rest, alive, length, begin, received>>
        /\ length = None /\ begin = None /\ received = <<>>
    BY <1>0 DEF ReadMetadata, moduleVars, Early
  <1> HIDE DEF whole, end
  <1>9. CASE end = 0
    <2>1. data' = whole /\ unread' = <<>> /\ pc' = "metadata"
      BY <1>0, <1>2, <1>3, <1>9 DEF whole, end
    <2>2. (data \o Left)' = exchange.output'
      BY <1>4, <1>8, <2>1 DEF Left
    <2> QED BY <1>0, <1>5, <1>7, <1>8, <2>1, <2>2, Sizes
            DEF Inv, Stored, TypeOK, Early, Kept
  <1>10. CASE end > 0
    <2> DEFINE front == SubSeq(whole, 1, end)
               back == Drop(whole, end)
    <2>1. /\ front \in Seq(Bytes) /\ back \in Seq(Bytes) /\ front \o back = whole
          /\ Len(front) = end /\ Len(back) = Len(whole) - end
      BY <1>5, <1>6, Split
    <2>2. data' = front /\ unread' = PushBack(<<>>, back) /\ pc' = "parse"
      BY <1>2, <1>3, <1>6, <1>10 DEF whole, end
    <2> HIDE DEF front, back
    <2>3. Len(<<>>) + Len(back) <= MaxUnread /\ Len(front) + Len(back) <= MetaLimit
      BY <1>5, <1>6, <2>1, Sizes
    <2>4. unread' = back
      <3>0. <<>> \in Seq(Bytes) /\ back \in Seq(Bytes)
        BY <2>1
      <3>1. PushBack(<<>>, back) = back \o <<>>
        BY <2>3, <3>0, PushBackFits
      <3> QED BY <2>1, <2>2, <3>1, ConcatEmptySeq
    <2>5. (data \o Left)' = exchange.output'
      <3> DEFINE o == outPipe'
      <3>1. {front, back, o, rest} \subseteq Strings
        BY <1>0, <1>7, <2>1 DEF Stored, Strings
      <3>2. <<>> \o o = o
        BY <1>7, ConcatEmptySeq
      <3> HIDE DEF o
      <3>3. Cat(front, Cat(Cat(back, o), rest)) = Cat(Cat(front, back), Cat(o, rest))
        BY <3>1, CatRegroup
      <3>4. front \o ((back \o o) \o rest) = (front \o back) \o (o \o rest)
        BY <3>3, Zenon DEF Cat
      <3> QED BY <1>4, <1>8, <2>1, <2>2, <2>4, <3>2, <3>4 DEF Left, o
    <2>6. Len(unread') <= MaxUnread /\ Len(data') + Len(unread') <= MetaLimit
          /\ Len(data') <= MetaLimit
      BY <1>5, <1>6, <2>1, <2>2, <2>4, Sizes
    <2> QED BY <1>0, <1>7, <1>8, <2>1, <2>2, <2>4, <2>5, <2>6, Sizes
            DEF Inv, Stored, TypeOK, Early, Kept
  <1> QED BY <1>6, <1>9, <1>10

(* Metadata is dropped; what is none goes back to the front.                *)
LEMMA ParseStep ==
  ASSUME Inv, garbled' = FALSE, Parse, UNCHANGED <<exchange, toWrite, inPipe, outPipe, moduleVars>>
  PROVE  Inv'
  <1>0. /\ Stored /\ TypeOK /\ Early
        /\ pc = "parse" /\ pc' = "relay"
        /\ length = None /\ begin = None /\ received = <<>>
        /\ data \in Seq(Bytes) /\ unread \in Seq(Bytes)
        /\ Len(data) + Len(unread) <= MetaLimit
        /\ data \o Left = exchange.output
        /\ UNCHANGED <<exchange, toWrite, inPipe, outPipe, rest, alive, data, received>>
    BY DEF Inv, Parse, Kept, Early, Stored, moduleVars
  <1>1. Left \in Seq(Bytes) /\ Drop(exchange.output, Len(data)) = Left
    <2>1. Left \in Seq(Bytes)
      BY <1>0, Associative DEF Left, Stored
    <2>2. Drop(data \o Left, Len(data)) = Left
      BY <1>0, <2>1, DropFront
    <2> QED BY <1>0, <2>1, <2>2
  <1> DEFINE text == Trim(data)
  <1>2. text \in Seq(Bytes) /\ Len(text) <= Len(data)
    BY <1>0, TrimFits
  <1>3. \/ /\ Kind(text) = "inline"
           /\ length' = IF Inline[text[1]] = 0 THEN None ELSE Inline[text[1]]
           /\ UNCHANGED <<begin, unread>>
        \/ /\ Kind(text) = "file"
           /\ begin' = Ranges[text[1]].offset /\ length' = FileLength(Ranges[text[1]])
           /\ UNCHANGED unread
        \/ /\ Kind(text) = "raw"
           /\ unread' = PushBack(unread, text)
           /\ UNCHANGED <<length, begin>>
    BY DEF Parse
  <1>4. Left \in Seq(Bytes) /\ <<>> \o Left = Left /\ Len(<<>>) = 0
    BY <1>1, ConcatEmptySeq
  <1>5. Trim(data') = text /\ Drop(exchange', 0) = Drop(exchange, 0)
    BY <1>0
  <1> HIDE DEF text
  <1>6. CASE Kind(text) = "inline"
    <2>1. text[1] \in DOMAIN Inline
      BY <1>6 DEF Kind
    <2>2. length' \in Nat \cup {None} /\ begin' = None /\ unread' = unread
      BY <1>0, <1>3, <1>6, <2>1, ExchangeConstants
    <2>3. (received \o Left)' = (Restored \o Drop(exchange.output, Len(data)))'
      BY <1>0, <1>1, <1>4, <1>5, <1>6, <2>2 DEF Left, Restored
    <2>4. Len(received') <= length' \/ length' = None
      BY <1>0, <1>4, <2>2
    <2> QED BY <1>0, <2>2, <2>3, <2>4 DEF Inv, Stored, TypeOK, Early, Kept
  <1>7. CASE Kind(text) = "file"
    <2>1. text[1] \in DOMAIN Ranges
      BY <1>7 DEF Kind
    <2>2. begin' \in Nat /\ unread' = unread
      BY <1>3, <1>7, <2>1, ExchangeConstants
    <2>3. length' \in Nat
      <3>1. Ranges[text[1]].offset \in Nat /\ Ranges[text[1]].limit \in Nat
        BY <2>1, ExchangeConstants
      <3>2. FileSize \in Nat
        BY <1>0, ExchangeConstants, Sizes DEF FileSize, Stored
      <3>3. LastByte(Ranges[text[1]]) \in Nat
        BY <3>1, <3>2, Sizes DEF LastByte
      <3>4. FileLength(Ranges[text[1]]) \in Nat
        BY <3>1, <3>3, Sizes DEF FileLength
      <3> QED BY <1>3, <1>7, <3>4
    <2>4. begin' # None /\ length' # None
      BY <2>2, <2>3, Sizes
    <2> QED BY <1>0, <1>4, <2>2, <2>3, <2>4 DEF Inv, Stored, TypeOK, Early, Kept
  <1>8. CASE Kind(text) = "raw"
    <2>1. unread' = PushBack(unread, text) /\ length' = None /\ begin' = None
      BY <1>0, <1>3, <1>8
    <2>2. Len(unread) + Len(text) <= MaxUnread
      BY <1>0, <1>2, Sizes
    <2>3. unread' = text \o unread
      BY <1>0, <1>2, <2>1, <2>2, PushBackFits
    <2>4. unread' \in Seq(Bytes) /\ Len(unread') <= MaxUnread
      <3>1. text \o unread \in Seq(Bytes) /\ Len(text \o unread) = Len(text) + Len(unread)
        BY <1>0, <1>2, ConcatProperties
      <3> QED BY <1>0, <1>2, <2>2, <2>3, <3>1
    <2>5. ((text \o unread) \o outPipe) \o rest = text \o ((unread \o outPipe) \o rest)
      <3>1. {text, unread, outPipe, rest} \subseteq Strings
        BY <1>0, <1>2 DEF Stored, Strings
      <3>2. Cat(Cat(Cat(text, unread), outPipe), rest)
              = Cat(text, Cat(Cat(unread, outPipe), rest))
        BY <3>1, BackMoves
      <3> QED BY <3>2, Zenon DEF Cat
    <2>6. text \o Left \in Seq(Bytes) /\ <<>> \o (text \o Left) = text \o Left
      BY <1>1, <1>2, Associative, ConcatEmptySeq
    <2>7. (received \o Left)' = (Restored \o Drop(exchange.output, Len(data)))'
      BY <1>0, <1>1, <1>5, <1>8, <2>3, <2>5, <2>6 DEF Left, Restored
    <2> QED BY <1>0, <1>4, <2>1, <2>4, <2>7 DEF Inv, Stored, TypeOK, Early, Kept
  <1> QED BY <1>3, <1>6, <1>7, <1>8

(* A chunk is relayed.                                                      *)
LEMMA RelayStep ==
  ASSUME Inv, garbled' = FALSE, Relay, UNCHANGED <<exchange, toWrite, inPipe, moduleVars>>
  PROVE  Inv'
  <1>0. /\ Stored /\ TypeOK /\ pc = "relay" /\ begin = None /\ ~Satisfied
        /\ received \in Seq(Bytes) /\ Len(received) \in Nat /\ length \in Nat \cup {None}
        /\ received \o Left = Restored \o Drop(exchange.output, Len(data))
        /\ UNCHANGED <<exchange, toWrite, inPipe, rest, alive, pc, data, length, begin>>
    <2>1. /\ Stored /\ TypeOK /\ pc = "relay" /\ begin = None /\ ~Satisfied
          /\ UNCHANGED <<exchange, toWrite, inPipe, rest, alive, pc, data, length, begin>>
      BY DEF Inv, Relay, moduleVars
    <2>2. received \in Seq(Bytes) /\ Len(received) \in Nat /\ length \in Nat \cup {None}
      BY <2>1 DEF Stored
    <2>3. received \o Left = Restored \o Drop(exchange.output, Len(data))
      BY <2>1 DEF Inv, Kept
    <2> QED BY <2>1, <2>2, <2>3
  <1>1. Wanted \in Nat /\ (length # None => Len(received) + Wanted <= length)
    BY <1>0, Sizes DEF Wanted, Smaller, Satisfied
  <1>2. PICK chunk \in Chunks(Wanted) :
          received' = received \o chunk /\ unread' = PushedAfter(chunk) /\ Take(chunk)
    BY DEF Relay
  <1>3. /\ chunk \in Seq(Bytes) /\ Len(chunk) <= Wanted
        /\ unread' \in Seq(Bytes) /\ Len(unread') <= Len(unread)
        /\ outPipe' \in Seq(Bytes) /\ Len(outPipe') <= Len(outPipe)
    BY <1>0, <1>1, <1>2, ChunkSplits
  <1>4. received' \in Seq(Bytes) /\ (length # None => Len(received') <= length)
    <2>1. received \o chunk \in Seq(Bytes) /\ Len(received \o chunk) = Len(received) + Len(chunk)
      BY <1>0, <1>3, ConcatProperties
    <2>2. Len(chunk) \in Nat
      BY <1>3
    <2> QED BY <1>0, <1>1, <1>2, <1>3, <2>1, <2>2
  <1>5. (received \o Left)' = (Restored \o Drop(exchange.output, Len(data)))'
    <2>1. (received \o chunk) \o ((PushedAfter(chunk) \o outPipe') \o rest) = received \o Left
      BY <1>0, <1>1, <1>2, ReadMoves
    <2> QED BY <1>0, <1>2, <2>1 DEF Left, Restored
  <1>6. /\ Len(unread') <= MaxUnread /\ Len(outPipe') <= Capacity
    BY <1>0, <1>3, Sizes DEF Stored, TypeOK
  <1>7. Stored' /\ TypeOK' /\ Early'
    BY <1>0, <1>3, <1>4, <1>6, NotYet DEF Stored, TypeOK, Early
  <1>8. pc' = "relay" /\ begin' = None
    BY <1>0
  <1> QED BY <1>5, <1>7, <1>8 DEF Inv, Kept

(* The next part of a file follows the part that was sent.                  *)
LEMMA NextPart ==
  ASSUME NEW s \in Seq(Bytes), NEW b \in Nat, NEW r \in Nat, NEW n \in Nat,
         b + r + n <= Len(s)
  PROVE  /\ SubSeq(Drop(s, b + r), 1, n) = SubSeq(s, b + r + 1, b + r + n)
         /\ SubSeq(s, b + r + 1, b + r + n) \in Seq(Bytes)
         /\ Len(SubSeq(s, b + r + 1, b + r + n)) = n
         /\ SubSeq(s, b + 1, b + r) \o SubSeq(s, b + r + 1, b + r + n)
              = SubSeq(s, b + 1, b + r + n)
  <1>1. Len(s) \in Nat /\ \A i \in 1 .. Len(s) : s[i] \in Bytes
    OBVIOUS
  <1>2. /\ SubSeq(s, b + r + 1, b + r + n) \in Seq(Bytes)
        /\ Len(SubSeq(s, b + r + 1, b + r + n)) = n
        /\ \A i \in 1 .. n : SubSeq(s, b + r + 1, b + r + n)[i] = s[b + r + i]
    <2>1. \A i \in b + r + 1 .. b + r + n : s[i] \in Bytes
      BY <1>1
    <2> QED BY <2>1, SubSeqProperties, SMTT(30)
  <1> DEFINE d == Drop(s, b + r)
  <1>3. d \in Seq(Bytes) /\ Len(d) = Len(s) - (b + r)
    BY <1>1, Split
  <1>4. \A i \in 1 .. Len(d) : d[i] = s[b + r + i]
    <2>1. \A i \in b + r + 1 .. Len(s) : s[i] \in Bytes
      BY <1>1
    <2> QED BY <1>1, <1>3, <2>1, SubSeqProperties, SMTT(30) DEF Drop
  <1>5. n \in 0 .. Len(d)
    BY <1>1, <1>3
  <1> HIDE DEF d
  <1>6. /\ SubSeq(d, 1, n) \in Seq(Bytes) /\ Len(SubSeq(d, 1, n)) = n
        /\ \A i \in 1 .. n : SubSeq(d, 1, n)[i] = s[b + r + i]
    <2>1. \A i \in 1 .. n : d[i] \in Bytes
      BY <1>3, <1>5
    <2>2. /\ SubSeq(d, 1, n) \in Seq(Bytes) /\ Len(SubSeq(d, 1, n)) = n
          /\ \A i \in 1 .. n : SubSeq(d, 1, n)[i] = d[i]
      BY <2>1, SubSeqProperties
    <2> QED BY <1>3, <1>4, <1>5, <2>2
  <1>7. SubSeq(d, 1, n) = SubSeq(s, b + r + 1, b + r + n)
    BY <1>2, <1>6, SeqEqual
  <1>8. SubSeq(s, b + 1, b + r) \o SubSeq(s, b + r + 1, b + r + n)
          = SubSeq(s, b + 1, b + r + n)
    <2>1. /\ b + 1 \in 1 .. Len(s) + 1 /\ b + r \in (b + 1) - 1 .. Len(s)
          /\ b + r + n \in b + r .. Len(s)
      BY <1>1
    <2> QED BY <2>1, ConcatAdjacentSubSeq, Zenon
  <1> QED BY <1>2, <1>7, <1>8 DEF d

(* The next part of the file is sent, or there is none.                     *)
LEMMA SendFileStep ==
  ASSUME Inv, garbled' = FALSE, SendFile, UNCHANGED <<exchange, toWrite, inPipe, outPipe, moduleVars>>
  PROVE  Inv'
  <1>0. /\ Stored /\ TypeOK /\ pc = "relay" /\ begin # None /\ ~Satisfied
        /\ UNCHANGED <<exchange, toWrite, inPipe, outPipe, rest, alive, data, unread,
                       length, begin>>
    BY DEF Inv, SendFile, moduleVars
  <1>1. /\ begin \in Nat /\ length \in Nat
        /\ received \in Seq(Bytes) /\ Len(received) \in Nat
        /\ exchange.file \in Seq(Bytes) \cup {None}
    BY <1>0, ExchangeConstants DEF Stored, TypeOK
  <1>2. received = <<>> \/ received = SubSeq(exchange.file, begin + 1, begin + Len(received))
    BY <1>0 DEF Inv, Kept
  <1>3. CASE pc' = "done" /\ UNCHANGED received
    <2>1. Stored' /\ TypeOK' /\ Early'
      BY <1>0, <1>3, NotYet DEF Stored, TypeOK, Early
    <2>2. Kept'
      BY <1>0, <1>2, <1>3 DEF Kept
    <2> QED BY <2>1, <2>2 DEF Inv
  <1>4. CASE FileHas(Wanted)
    <2> DEFINE r == Len(received)
               n == Wanted
               part == SubSeq(exchange.file, begin + r + 1, begin + r + n)
    <2>1. n \in Nat /\ r + n <= length
      BY <1>0, <1>1, Sizes DEF Wanted, Smaller, Satisfied
    <2>2. exchange.file \in Seq(Bytes) /\ begin + r + n <= Len(exchange.file)
      BY <1>1, <1>4 DEF FileHas
    <2>3. received' = received \o SubSeq(Drop(exchange.file, begin + r), 1, n) /\ pc' = "relay"
      BY <1>0, <1>4 DEF SendFile
    <2> HIDE DEF n
    <2>4. /\ SubSeq(Drop(exchange.file, begin + r), 1, n) = part
          /\ part \in Seq(Bytes) /\ Len(part) = n
          /\ SubSeq(exchange.file, begin + 1, begin + r) \o part
               = SubSeq(exchange.file, begin + 1, begin + r + n)
      <3>1. /\ exchange.file \in Seq(Bytes) /\ begin \in Nat /\ r \in Nat /\ n \in Nat
            /\ begin + r + n <= Len(exchange.file)
        BY <1>1, <2>1, <2>2
      <3> HIDE DEF r
      <3> QED BY ONLY <3>1, NextPart, ZenonT(60)
    <2>5. received' = received \o part
      BY <2>3, <2>4
    <2>6. received' \in Seq(Bytes) /\ Len(received') = r + n
      BY <1>1, <2>1, <2>4, <2>5, ConcatProperties
    <2>7. received = SubSeq(exchange.file, begin + 1, begin + r)
      <3>1. CASE received = <<>>
        <4>1. r = 0
          BY <3>1
        <4>2. SubSeq(exchange.file, begin + 1, begin + r) = <<>>
          BY <1>1, <4>1, SubSeqEmpty
        <4> QED BY <3>1, <4>2
      <3> QED BY <1>2, <3>1
    <2> HIDE DEF part
    <2>8. received' = SubSeq(exchange.file, begin + 1, begin + (r + n))
      <3>1. begin + r + n = begin + (r + n)
        BY <1>1, <2>1
      <3> QED BY <2>4, <2>5, <2>7, <3>1
    <2>9. received' = SubSeq(exchange.file', begin' + 1, begin' + Len(received'))
      BY <1>0, <2>6, <2>8
    <2>10. Stored' /\ TypeOK' /\ Early'
      BY <1>0, <1>1, <2>1, <2>3, <2>6, NotYet DEF Stored, TypeOK, Early
    <2>11. pc' = "relay" /\ begin' # None
      BY <1>0, <2>3
    <2>12. Kept'
      BY <2>9, <2>11, Zenon DEF Kept
    <2> QED BY <2>10, <2>12 DEF Inv
  <1> QED BY <1>0, <1>3, <1>4 DEF SendFile

(* What is printed moves into the pipe.                                     *)
LEMMA ModulePrintsStep ==
  ASSUME Inv, garbled' = FALSE, ModulePrints
  PROVE  Inv'
  <1>0. /\ Stored /\ TypeOK /\ Early /\ Kept
        /\ outPipe \in Seq(Bytes) /\ rest \in Seq(Bytes) /\ unread \in Seq(Bytes)
        /\ UNCHANGED <<exchange, toWrite, inPipe, alive, pc, data, unread, length, begin, received>>
    BY DEF Inv, ModulePrints, handlerVars, Stored
  <1>1. PICK n \in 1 .. Smaller(Len(rest), Capacity - Len(outPipe)) :
          outPipe' = outPipe \o SubSeq(rest, 1, n) /\ rest' = Drop(rest, n)
    BY DEF ModulePrints
  <1> DEFINE x == SubSeq(rest, 1, n)
             y == Drop(rest, n)
  <1>2. n \in 0 .. Len(rest) /\ Len(outPipe) + n <= Capacity
    <2>1. Len(rest) \in Nat /\ Len(outPipe) \in Nat
      BY <1>0
    <2> QED BY <2>1, Sizes DEF Smaller
  <1>3. x \in Seq(Bytes) /\ y \in Seq(Bytes) /\ Len(x) = n /\ x \o y = rest
    BY <1>0, <1>2, Split
  <1>4. outPipe' = outPipe \o x /\ rest' = y
    BY <1>1
  <1> HIDE DEF x, y
  <1>5. outPipe' \in Seq(Bytes) /\ rest' \in Seq(Bytes) /\ Len(outPipe') <= Capacity
    <2>1. outPipe \o x \in Seq(Bytes) /\ Len(outPipe \o x) = Len(outPipe) + Len(x)
      BY <1>0, <1>3, ConcatProperties
    <2> QED BY <1>2, <1>3, <1>4, <2>1
  <1>6. Left' = Left
    <2>1. {unread, outPipe, x, y} \subseteq Strings
      BY <1>0, <1>3 DEF Strings
    <2>2. Cat(Cat(unread, Cat(outPipe, x)), y) = Cat(Cat(unread, outPipe), Cat(x, y))
      BY <2>1, PrintMoves
    <2>3. (unread \o (outPipe \o x)) \o y = (unread \o outPipe) \o (x \o y)
      BY <2>2, Zenon DEF Cat
    <2> QED BY <1>0, <1>3, <1>4, <2>3 DEF Left
  <1>7. Stored' /\ TypeOK' /\ Early'
    BY <1>0, <1>5 DEF Stored, TypeOK, Early
  <1>8. Kept'
    BY <1>0, <1>6 DEF Kept, Restored
  <1> QED BY <1>7, <1>8 DEF Inv

(* The steps that move no byte of the output.                               *)
LEMMA OtherStep ==
  ASSUME Inv, garbled' = FALSE, UNCHANGED <<exchange, outPipe, rest, data, unread, length, begin, received>>,
         toWrite' \in Nat /\ inPipe' \in Nat /\ inPipe' <= Capacity,
         \/ pc' = pc
         \/ pc = "write" /\ pc' \in {"metadata", "dead"}
         \/ pc = "metadata" /\ pc' = "parse"
         \/ pc = "relay" /\ pc' \in {"done", "broken"}
  PROVE  Inv'
  <1>1. Stored /\ TypeOK /\ Early /\ Kept
    BY DEF Inv
  <1>2. Stored' /\ TypeOK'
    BY <1>1, NotYet DEF Stored, TypeOK
  <1>3. Early'
    <2>1. Len(<<>>) = 0 /\ Len(data) \in Nat
      BY <1>1, EmptySeq DEF Stored
    <2> QED BY <1>1, <2>1, Sizes DEF Early, TypeOK
  <1>4. Left' = Left /\ Restored' = Restored
    BY DEF Left, Restored
  <1>5. Kept'
    BY <1>1, <1>4 DEF Kept
  <1> QED BY <1>2, <1>3, <1>5 DEF Inv

LEMMA StepInv == Inv /\ garbled' = FALSE /\ [Next]_vars => Inv'
  <1> SUFFICES ASSUME Inv, garbled' = FALSE, [Next]_vars PROVE Inv'
    OBVIOUS
  <1>0. toWrite \in Nat /\ inPipe \in Nat /\ inPipe <= Capacity
    BY DEF Inv, Stored, TypeOK
  <1>1. CASE WriteInput
    <2>1. PICK n \in 1 .. Smaller(toWrite, Capacity - inPipe) :
            toWrite' = toWrite - n /\ inPipe' = inPipe + n
      BY <1>1 DEF WriteInput
    <2>2. n <= toWrite /\ inPipe + n <= Capacity
      BY <1>0, <2>1, Sizes DEF Smaller
    <2>3. toWrite' \in Nat /\ inPipe' \in Nat /\ inPipe' <= Capacity
      BY <1>0, <2>1, <2>2, Sizes
    <2> QED BY <1>1, <2>3, OtherStep DEF WriteInput, moduleVars, handlerVars
  <1>2. CASE ReadMetadata /\ UNCHANGED <<exchange, toWrite, inPipe, moduleVars>>
    BY <1>2, ReadMetadataStep
  <1>3. CASE Relay /\ UNCHANGED <<exchange, toWrite, inPipe, moduleVars>>
    BY <1>3, RelayStep
  <1>4. CASE /\ SigPipe \/ InputWritten \/ MetadataEnds \/ RelayEnds \/ Break
             /\ UNCHANGED <<exchange, toWrite, inPipe, outPipe, moduleVars>>
    BY <1>0, <1>4, OtherStep
       DEF SigPipe, InputWritten, MetadataEnds, RelayEnds, Break, moduleVars
  <1>5. CASE Parse /\ UNCHANGED <<exchange, toWrite, inPipe, outPipe, moduleVars>>
    BY <1>5, ParseStep
  <1>6. CASE SendFile /\ UNCHANGED <<exchange, toWrite, inPipe, outPipe, moduleVars>>
    BY <1>6, SendFileStep
  <1>7. CASE ModuleReads
    <2>1. inPipe' \in Nat /\ inPipe' <= Capacity
      BY <1>0, <1>7, Sizes DEF ModuleReads
    <2> QED BY <1>0, <1>7, <2>1, OtherStep DEF ModuleReads, moduleVars, handlerVars
  <1>8. CASE ModulePrints
    BY <1>8, ModulePrintsStep
  <1>9. CASE ModuleEnds
    BY <1>0, <1>9, OtherStep DEF ModuleEnds, handlerVars
  <1>10. CASE UNCHANGED vars
    BY <1>0, <1>10, OtherStep DEF vars, moduleVars, handlerVars
  <1> QED BY <1>1, <1>2, <1>3, <1>4, <1>5, <1>6, <1>7, <1>8, <1>9, <1>10
          DEF Next, Handler, Module

(* What was garbled stays so.                                               *)
LEMMA GarbledStays == garbled /\ [Next]_vars => garbled'
  BY DEF Next, Handler, Module, WriteInput, ReadMetadata, Keep, Cut, Overrun, Relay, SigPipe,
         InputWritten, MetadataEnds, Parse, RelayEnds, SendFile, Break, ModuleReads,
         ModulePrints, ModuleEnds, handlerVars, vars

-----------------------------------------------------------------------------
(***************************************************************************)
(* Sizes, whether anything was garbled or not.                              *)
(***************************************************************************)

Undecided ==
  /\ garbled \in BOOLEAN
  /\ pc \in {"write", "metadata", "parse", "dead"} =>
       length = None /\ begin = None /\ received = <<>>

Small == Stored /\ TypeOK /\ Undecided

LEMMA InitSmall == Init => Small
  BY InitInv DEF Inv, Early, Small, Undecided

(* What is pushed back never takes more room than there is.                 *)
LEMMA PushBackSmall ==
  ASSUME NEW pushed \in Seq(Bytes), NEW bytes \in Seq(Bytes), Len(pushed) <= MaxUnread
  PROVE  /\ PushBack(pushed, bytes) \in Seq(Bytes)
         /\ Len(PushBack(pushed, bytes)) <= MaxUnread
  <1> DEFINE n == Smaller(Len(bytes), MaxUnread - Len(pushed))
  <1>1. n \in 0 .. Len(bytes) /\ n + Len(pushed) <= MaxUnread
    <2>1. Len(pushed) \in Nat /\ Len(bytes) \in Nat
      OBVIOUS
    <2> QED BY <2>1, Sizes DEF Smaller
  <1>2. SubSeq(bytes, 1, n) \in Seq(Bytes) /\ Len(SubSeq(bytes, 1, n)) = n
    BY <1>1, Split
  <1>3. PushBack(pushed, bytes) = SubSeq(bytes, 1, n) \o pushed
    BY DEF PushBack
  <1> HIDE DEF n
  <1> QED BY <1>1, <1>2, <1>3, ConcatProperties

LEMMA FillSmall ==
  ASSUME NEW pushed \in Seq(Bytes), Len(pushed) <= MaxUnread
  PROVE  Fill(pushed) \in Seq(Bytes) /\ Len(Fill(pushed)) <= MaxUnread
  <1> DEFINE n == MaxUnread - Len(pushed)
             junk == [i \in 1 .. n |-> Junk]
  <1>1. n \in Nat /\ n + Len(pushed) = MaxUnread
    BY Sizes
  <1> HIDE DEF n
  <1>2. junk \in Seq(Bytes) /\ Len(junk) = n
    BY <1>1, Sizes
  <1>3. Fill(pushed) = junk \o pushed
    BY DEF Fill, n
  <1> HIDE DEF junk
  <1> QED BY <1>1, <1>2, <1>3, ConcatProperties

LEMMA ReadMetadataSmall ==
  ASSUME Small, ReadMetadata, UNCHANGED <<exchange, toWrite, inPipe, moduleVars>>
  PROVE  Small'
  <1>1. /\ Stored /\ TypeOK /\ Undecided /\ pc = "metadata" /\ Len(data) < MetaLimit
        /\ length = None /\ begin = None /\ received = <<>>
        /\ data \in Seq(Bytes) /\ Len(data) \in Nat
        /\ unread \in Seq(Bytes) /\ Len(unread) <= MaxUnread
        /\ UNCHANGED <<exchange, toWrite, inPipe, rest, alive, length, begin, received>>
    BY DEF Small, Stored, TypeOK, Undecided, ReadMetadata, moduleVars
  <1>2. MetaAsk \in Nat /\ Len(data) + MetaAsk <= MetaLimit
    BY <1>1, Sizes DEF MetaAsk, Smaller
  <1>3. PICK chunk \in Chunks(MetaAsk) :
          /\ Take(chunk)
          /\ \/ \E behind \in Behind(chunk) : Keep(chunk, behind) \/ Overrun(chunk, behind)
             \/ Cut(chunk)
    BY DEF ReadMetadata
  <1> DEFINE whole == data \o chunk
             end == BlankLineEnd(whole)
  <1>4. /\ chunk \in Seq(Bytes) /\ Len(chunk) <= MetaAsk /\ Len(chunk) \in Nat
        /\ PushedAfter(chunk) \in Seq(Bytes) /\ Len(PushedAfter(chunk)) <= Len(unread)
        /\ outPipe' \in Seq(Bytes) /\ Len(outPipe') <= Len(outPipe)
    BY <1>1, <1>2, <1>3, ChunkSplits
  <1>5. whole \in Seq(Bytes) /\ Len(whole) \in Nat /\ Len(whole) <= MetaLimit
    <2>1. whole \in Seq(Bytes) /\ Len(whole) = Len(data) + Len(chunk)
      BY <1>1, <1>4, ConcatProperties
    <2> QED BY <1>1, <1>2, <1>4, <2>1, Sizes
  <1>6. Len(PushedAfter(chunk)) <= MaxUnread /\ Len(outPipe') <= Capacity
    <2>1. Len(outPipe) <= Capacity /\ outPipe \in Seq(Bytes)
      BY <1>1 DEF Stored, TypeOK
    <2> QED BY <1>1, <1>4, <2>1, Sizes
  <1>7. SUFFICES /\ data' \in Seq(Bytes) /\ Len(data') <= MetaLimit + (IF garbled' THEN 1 ELSE 0)
                 /\ unread' \in Seq(Bytes) /\ Len(unread') <= MaxUnread
                 /\ garbled' \in BOOLEAN /\ pc' \in {"metadata", "parse", "dead"}
    BY <1>1, <1>4, <1>6, Sizes DEF Small, Stored, TypeOK, Undecided
  <1>8. Len(whole) <= MetaLimit + (IF garbled THEN 1 ELSE 0) /\ garbled \in BOOLEAN
    BY <1>1, <1>5, Sizes DEF Undecided
  <1>9. ASSUME NEW behind, Keep(chunk, behind)
        PROVE  /\ data' = whole /\ unread' = PushedAfter(chunk)
               /\ garbled' = garbled /\ pc' = pc
    BY <1>9 DEF Keep
  <1>10. ASSUME NEW behind, Overrun(chunk, behind)
         PROVE  /\ data' = Append(whole, Lf) /\ unread' = Fill(PushedAfter(chunk))
                /\ garbled' = TRUE /\ pc' \in {"parse", "dead"}
    BY <1>10 DEF Overrun
  <1>11. ASSUME Cut(chunk)
         PROVE  /\ data' = SubSeq(whole, 1, end)
                /\ unread' = PushBack(PushedAfter(chunk), Drop(whole, end))
                /\ garbled' = garbled /\ pc' = "parse"
    BY <1>11 DEF Cut
  <1>12. end \in 0 .. Len(whole)
    BY <1>5, BlankLineEndIn
  <1> HIDE DEF whole, end
  <1>13. ASSUME NEW behind, Keep(chunk, behind)
         PROVE  /\ data' \in Seq(Bytes) /\ Len(data') <= MetaLimit + (IF garbled' THEN 1 ELSE 0)
                /\ unread' \in Seq(Bytes) /\ Len(unread') <= MaxUnread
                /\ garbled' \in BOOLEAN /\ pc' \in {"metadata", "parse", "dead"}
    <2>1. /\ data' = whole /\ unread' = PushedAfter(chunk)
          /\ garbled' = garbled /\ pc' = pc
      BY <1>9, <1>13
    <2> QED BY <1>1, <1>4, <1>5, <1>6, <1>8, <2>1
  <1>14. ASSUME NEW behind, Overrun(chunk, behind)
         PROVE  /\ data' \in Seq(Bytes) /\ Len(data') <= MetaLimit + (IF garbled' THEN 1 ELSE 0)
                /\ unread' \in Seq(Bytes) /\ Len(unread') <= MaxUnread
                /\ garbled' \in BOOLEAN /\ pc' \in {"metadata", "parse", "dead"}
    <2>1. /\ data' = Append(whole, Lf) /\ unread' = Fill(PushedAfter(chunk))
          /\ garbled' = TRUE /\ pc' \in {"parse", "dead"}
      BY <1>10, <1>14
    <2>2. Append(whole, Lf) \in Seq(Bytes) /\ Len(Append(whole, Lf)) = Len(whole) + 1
      BY <1>5, Sizes
    <2>3. Fill(PushedAfter(chunk)) \in Seq(Bytes) /\ Len(Fill(PushedAfter(chunk))) <= MaxUnread
      BY <1>4, <1>6, FillSmall
    <2> QED BY <1>5, <2>1, <2>2, <2>3, Sizes
  <1>15. ASSUME Cut(chunk)
         PROVE  /\ data' \in Seq(Bytes) /\ Len(data') <= MetaLimit + (IF garbled' THEN 1 ELSE 0)
                /\ unread' \in Seq(Bytes) /\ Len(unread') <= MaxUnread
                /\ garbled' \in BOOLEAN /\ pc' \in {"metadata", "parse", "dead"}
    <2>1. /\ data' = SubSeq(whole, 1, end)
          /\ unread' = PushBack(PushedAfter(chunk), Drop(whole, end))
          /\ garbled' = garbled /\ pc' = "parse"
      BY <1>11, <1>15
    <2>2. /\ SubSeq(whole, 1, end) \in Seq(Bytes) /\ Len(SubSeq(whole, 1, end)) = end
          /\ Drop(whole, end) \in Seq(Bytes)
      BY <1>5, <1>12, Split
    <2>3. unread' \in Seq(Bytes) /\ Len(unread') <= MaxUnread
      BY <1>4, <1>6, <2>1, <2>2, PushBackSmall
    <2>4. end <= MetaLimit + (IF garbled THEN 1 ELSE 0)
      BY <1>5, <1>8, <1>12, Sizes
    <2> QED BY <1>8, <2>1, <2>2, <2>3, <2>4
  <1> QED BY <1>3, <1>13, <1>14, <1>15, Zenon

LEMMA ParseSmall ==
  ASSUME Small, Parse, UNCHANGED <<exchange, toWrite, inPipe, outPipe, moduleVars>>
  PROVE  Small'
  <1> DEFINE text == Trim(data)
  <1>1. /\ Stored /\ TypeOK /\ Undecided /\ pc' = "relay"
        /\ length = None /\ begin = None /\ received = <<>>
        /\ data \in Seq(Bytes) /\ unread \in Seq(Bytes) /\ Len(unread) <= MaxUnread
        /\ UNCHANGED <<exchange, toWrite, inPipe, outPipe, rest, alive, data, received, garbled>>
        /\ text \in Seq(Bytes)
    BY TrimFits DEF Small, Stored, TypeOK, Undecided, Parse, moduleVars
  <1>2. \/ /\ Kind(text) = "inline"
           /\ length' = IF Inline[text[1]] = 0 THEN None ELSE Inline[text[1]]
           /\ UNCHANGED <<begin, unread>>
        \/ /\ Kind(text) = "file"
           /\ begin' = Ranges[text[1]].offset /\ length' = FileLength(Ranges[text[1]])
           /\ UNCHANGED unread
        \/ /\ Kind(text) = "raw"
           /\ unread' = PushBack(unread, text)
           /\ UNCHANGED <<length, begin>>
    BY DEF Parse
  <1> HIDE DEF text
  <1>3. Len(received) = 0 /\ received \in Seq(Bytes)
    BY <1>1, EmptySeq DEF Stored
  <1>4. SUFFICES /\ length' \in Nat \cup {None} /\ begin' \in Nat \cup {None}
                 /\ begin' # None => length' # None
                 /\ unread' \in Seq(Bytes) /\ Len(unread') <= MaxUnread
    BY <1>1, <1>3 DEF Small, Stored, TypeOK, Undecided
  <1>5. CASE Kind(text) = "inline"
    <2>1. text[1] \in DOMAIN Inline
      BY <1>5 DEF Kind
    <2> QED BY <1>1, <1>2, <1>5, <2>1, ExchangeConstants
  <1>6. CASE Kind(text) = "file"
    <2>1. text[1] \in DOMAIN Ranges
      BY <1>6 DEF Kind
    <2>2. begin' \in Nat /\ unread' = unread
      BY <1>2, <1>6, <2>1, ExchangeConstants
    <2>3. length' \in Nat
      <3>1. Ranges[text[1]].offset \in Nat /\ Ranges[text[1]].limit \in Nat
        BY <2>1, ExchangeConstants
      <3>2. FileSize \in Nat
        BY <1>1, ExchangeConstants, Sizes DEF FileSize, Stored
      <3>3. LastByte(Ranges[text[1]]) \in Nat
        BY <3>1, <3>2, Sizes DEF LastByte
      <3>4. FileLength(Ranges[text[1]]) \in Nat
        BY <3>1, <3>3, Sizes DEF FileLength
      <3> QED BY <1>2, <1>6, <3>4
    <2> QED BY <1>1, <2>2, <2>3, Sizes
  <1>7. CASE Kind(text) = "raw"
    <2>1. PushBack(unread, text) \in Seq(Bytes) /\ Len(PushBack(unread, text)) <= MaxUnread
      BY <1>1, PushBackSmall
    <2> QED BY <1>1, <1>2, <1>7, <2>1
  <1> QED BY <1>2, <1>5, <1>6, <1>7

LEMMA RelaySmall ==
  ASSUME Small, Relay, UNCHANGED <<exchange, toWrite, inPipe, moduleVars>>
  PROVE  Small'
  <1>1. /\ Stored /\ TypeOK /\ Undecided /\ pc = "relay" /\ begin = None /\ ~Satisfied
        /\ received \in Seq(Bytes) /\ Len(received) \in Nat /\ length \in Nat \cup {None}
        /\ UNCHANGED <<exchange, toWrite, inPipe, rest, alive, pc, data, length, begin, garbled>>
    BY DEF Small, Stored, Relay, moduleVars
  <1>2. Wanted \in Nat /\ (length # None => Len(received) + Wanted <= length)
    BY <1>1, Sizes DEF Wanted, Smaller, Satisfied
  <1>3. PICK chunk \in Chunks(Wanted) :
          received' = received \o chunk /\ unread' = PushedAfter(chunk) /\ Take(chunk)
    BY DEF Relay
  <1>4. /\ chunk \in Seq(Bytes) /\ Len(chunk) <= Wanted /\ Len(chunk) \in Nat
        /\ unread' \in Seq(Bytes) /\ Len(unread') <= Len(unread)
        /\ outPipe' \in Seq(Bytes) /\ Len(outPipe') <= Len(outPipe)
    BY <1>1, <1>2, <1>3, ChunkSplits
  <1>5. received' \in Seq(Bytes) /\ Len(received') = Len(received) + Len(chunk)
    BY <1>1, <1>3, <1>4, ConcatProperties
  <1>6. length # None => Len(received') <= length
    BY <1>1, <1>2, <1>4, <1>5
  <1>7. Len(unread') <= MaxUnread /\ Len(outPipe') <= Capacity
    BY <1>1, <1>4, Sizes DEF Stored, TypeOK
  <1> QED BY <1>1, <1>4, <1>5, <1>6, <1>7 DEF Small, Stored, TypeOK, Undecided

LEMMA SendFileSmall ==
  ASSUME Small, SendFile, UNCHANGED <<exchange, toWrite, inPipe, outPipe, moduleVars>>
  PROVE  Small'
  <1>1. /\ Stored /\ TypeOK /\ Undecided /\ pc = "relay" /\ begin # None /\ ~Satisfied
        /\ UNCHANGED <<exchange, toWrite, inPipe, outPipe, rest, alive, data, unread,
                       length, begin, garbled>>
        /\ begin \in Nat /\ length \in Nat
        /\ received \in Seq(Bytes) /\ Len(received) \in Nat
    BY DEF Small, SendFile, Stored, TypeOK, moduleVars
  <1>2. CASE pc' = "done" /\ UNCHANGED received
    BY <1>1, <1>2 DEF Small, Stored, TypeOK, Undecided
  <1>3. CASE FileHas(Wanted)
    <2> DEFINE r == Len(received)
               n == Wanted
               next == SubSeq(Drop(exchange.file, begin + r), 1, n)
    <2>1. n \in Nat /\ r + n <= length
      BY <1>1, Sizes DEF Wanted, Smaller, Satisfied
    <2>2. exchange.file \in Seq(Bytes) /\ begin + r + n <= Len(exchange.file)
      BY <1>1, <1>3, ExchangeConstants DEF FileHas, Stored
    <2>3. received' = received \o next /\ pc' = "relay"
      BY <1>1, <1>3 DEF SendFile
    <2> HIDE DEF n
    <2>4. next \in Seq(Bytes) /\ Len(next) = n
      <3>1. /\ exchange.file \in Seq(Bytes) /\ begin \in Nat /\ r \in Nat /\ n \in Nat
            /\ begin + r + n <= Len(exchange.file)
        BY <1>1, <2>1, <2>2
      <3>2. next = SubSeq(Drop(exchange.file, begin + r), 1, n)
        OBVIOUS
      <3> HIDE DEF r, next
      <3>3. /\ SubSeq(Drop(exchange.file, begin + r), 1, n)
                 = SubSeq(exchange.file, begin + r + 1, begin + r + n)
            /\ SubSeq(exchange.file, begin + r + 1, begin + r + n) \in Seq(Bytes)
            /\ Len(SubSeq(exchange.file, begin + r + 1, begin + r + n)) = n
        BY ONLY <3>1, NextPart, ZenonT(60)
      <3> QED BY <3>2, <3>3
    <2> HIDE DEF next
    <2>5. received' \in Seq(Bytes) /\ Len(received') = r + n
      BY <1>1, <2>3, <2>4, ConcatProperties
    <2> QED BY <1>1, <2>1, <2>3, <2>5 DEF Small, Stored, TypeOK, Undecided
  <1> QED BY <1>1, <1>2, <1>3 DEF SendFile

LEMMA OtherSmall ==
  ASSUME Small,
         UNCHANGED <<exchange, data, unread, length, begin, received, garbled>>,
         toWrite' \in Nat /\ inPipe' \in Nat /\ inPipe' <= Capacity,
         outPipe' \in Seq(Bytes) /\ Len(outPipe') <= Capacity /\ rest' \in Seq(Bytes),
         \/ pc' = pc
         \/ pc = "write" /\ pc' \in {"metadata", "dead"}
         \/ pc = "metadata" /\ pc' = "parse"
         \/ pc = "relay" /\ pc' \in {"done", "broken"}
  PROVE  Small'
  BY DEF Small, Stored, TypeOK, Undecided

LEMMA StepSmall == Small /\ [Next]_vars => Small'
  <1> SUFFICES ASSUME Small, [Next]_vars PROVE Small'
    OBVIOUS
  <1>0. /\ toWrite \in Nat /\ inPipe \in Nat /\ inPipe <= Capacity
        /\ outPipe \in Seq(Bytes) /\ Len(outPipe) <= Capacity /\ rest \in Seq(Bytes)
    BY DEF Small, Stored, TypeOK
  <1>1. CASE WriteInput
    <2>1. PICK n \in 1 .. Smaller(toWrite, Capacity - inPipe) :
            toWrite' = toWrite - n /\ inPipe' = inPipe + n
      BY <1>1 DEF WriteInput
    <2>2. n <= toWrite /\ inPipe + n <= Capacity
      BY <1>0, <2>1, Sizes DEF Smaller
    <2>3. toWrite' \in Nat /\ inPipe' \in Nat /\ inPipe' <= Capacity
      BY <1>0, <2>1, <2>2, Sizes
    <2> QED BY <1>0, <1>1, <2>3, OtherSmall DEF WriteInput, moduleVars, handlerVars
  <1>2. CASE ReadMetadata /\ UNCHANGED <<exchange, toWrite, inPipe, moduleVars>>
    BY <1>2, ReadMetadataSmall
  <1>3. CASE Relay /\ UNCHANGED <<exchange, toWrite, inPipe, moduleVars>>
    BY <1>3, RelaySmall
  <1>4. CASE /\ SigPipe \/ InputWritten \/ MetadataEnds \/ RelayEnds \/ Break
             /\ UNCHANGED <<exchange, toWrite, inPipe, outPipe, moduleVars>>
    BY <1>0, <1>4, OtherSmall
       DEF SigPipe, InputWritten, MetadataEnds, RelayEnds, Break, moduleVars
  <1>5. CASE Parse /\ UNCHANGED <<exchange, toWrite, inPipe, outPipe, moduleVars>>
    BY <1>5, ParseSmall
  <1>6. CASE SendFile /\ UNCHANGED <<exchange, toWrite, inPipe, outPipe, moduleVars>>
    BY <1>6, SendFileSmall
  <1>7. CASE ModuleReads
    <2>1. inPipe' \in Nat /\ inPipe' <= Capacity
      BY <1>0, <1>7, Sizes DEF ModuleReads
    <2> QED BY <1>0, <1>7, <2>1, OtherSmall DEF ModuleReads, moduleVars, handlerVars
  <1>8. CASE ModulePrints
    <2>1. PICK n \in 1 .. Smaller(Len(rest), Capacity - Len(outPipe)) :
            outPipe' = outPipe \o SubSeq(rest, 1, n) /\ rest' = Drop(rest, n)
      BY <1>8 DEF ModulePrints
    <2>2. n \in 0 .. Len(rest) /\ Len(outPipe) + n <= Capacity
      <3>1. Len(rest) \in Nat /\ Len(outPipe) \in Nat
        BY <1>0
      <3> QED BY <2>1, <3>1, Sizes DEF Smaller
    <2>3. /\ SubSeq(rest, 1, n) \in Seq(Bytes) /\ Len(SubSeq(rest, 1, n)) = n
          /\ Drop(rest, n) \in Seq(Bytes)
      BY <1>0, <2>2, Split
    <2>4. outPipe' \in Seq(Bytes) /\ Len(outPipe') = Len(outPipe) + n
      BY <1>0, <2>1, <2>3, ConcatProperties
    <2> QED BY <1>0, <1>8, <2>1, <2>2, <2>3, <2>4, OtherSmall DEF ModulePrints, handlerVars
  <1>9. CASE ModuleEnds
    BY <1>0, <1>9, OtherSmall DEF ModuleEnds, handlerVars
  <1>10. CASE UNCHANGED vars
    BY <1>0, <1>10, OtherSmall DEF vars, moduleVars, handlerVars
  <1> QED BY <1>1, <1>2, <1>3, <1>4, <1>5, <1>6, <1>7, <1>8, <1>9, <1>10
          DEF Next, Handler, Module

(* TypeOK: neither the pipe nor what is pushed back nor the metadata        *)
(* outgrows its size, and no more is sent than announced, for every size of *)
(* the pipe and the buffers and every output, garbled or not.               *)
THEOREM SizesKept == Spec => []TypeOK
  <1>1. Small => TypeOK
    BY DEF Small
  <1> QED BY InitSmall, StepSmall, <1>1, PTL DEF Spec

(* Conserved: no byte of the output of a module is lost or moved, whatever  *)
(* pieces it arrives in, and what is sent of a file is the part it names,   *)
(* until the search runs over the end of its chunk.                         *)
THEOREM OutputConserved == Spec => []Conserved
  <1>1. Init => Small /\ (garbled \/ Inv)
    BY InitInv, InitSmall
  <1>2. Small /\ (garbled \/ Inv) /\ [Next]_vars => Small' /\ (garbled \/ Inv)'
    <2> SUFFICES ASSUME Small, garbled \/ Inv, [Next]_vars PROVE Small' /\ (garbled' \/ Inv')
      OBVIOUS
    <2>1. Small'
      BY StepSmall
    <2>2. CASE garbled'
      BY <2>1, <2>2
    <2>3. CASE ~garbled'
      <3>1. Inv /\ garbled' = FALSE
        BY <2>1, <2>3, GarbledStays DEF Small, Undecided
      <3> QED BY <2>1, <3>1, StepInv
    <2> QED BY <2>2, <2>3
  <1>3. garbled \/ Inv => Conserved
    BY DEF Inv, Conserved
  <1> QED BY <1>1, <1>2, <1>3, PTL DEF Spec
-----------------------------------------------------------------------------
(***************************************************************************)
(* The exchange with a module implements ModuleAnswer: whatever sizes the   *)
(* pipe and the buffers have and in whatever pieces the output arrives, the *)
(* client receives what the output stands for, byte for byte, and an answer *)
(* that is as long as announced is whole.                                   *)
(***************************************************************************)

(* What is decided about the answer is what the whole output says.          *)
Chosen(b, l) ==
  \/ /\ Kind(Text) = "inline" /\ b = None
     /\ l = IF Inline[Text[1]] = 0 THEN None ELSE Inline[Text[1]]
  \/ /\ Kind(Text) = "file"
     /\ b = Ranges[Text[1]].offset /\ l = FileLength(Ranges[Text[1]])
  \/ Kind(Text) = "raw" /\ b = None /\ l = None

Decided ==
  /\ pc = "metadata" => BlankLineEnd(data) = 0
  /\ pc \in {"parse", "relay", "done", "broken"} => data = Metadata
  /\ pc \in {"relay", "done", "broken"} => Chosen(begin, length)
  /\ ~alive /\ ~Ended => rest = <<>>
  /\ begin # None /\ received # <<>> =>
       exchange.file # None /\ begin + Len(received) <= Len(exchange.file)

Full == Inv /\ Decided

LEMMA OutputTyped ==
  ASSUME Stored
  PROVE  /\ exchange.output \in Seq(Bytes)
         /\ exchange.file # None =>
              exchange.file \in Seq(Bytes) /\ Len(exchange.file) < UintMod
  BY ExchangeConstants DEF Stored
-----------------------------------------------------------------------------
(* Where the metadata ends.                                                 *)

(* More bytes do not move the first blank line.                             *)
LEMMA BlankLineStays ==
  ASSUME NEW s \in Seq(Bytes), NEW t \in Seq(Bytes), BlankLineEnd(s) > 0
  PROVE  BlankLineEnd(s \o t) = BlankLineEnd(s)
  <1> DEFINE Ends(q) == {i \in 2 .. Len(q) : q[i] = Lf /\ q[i - 1] = Lf}
  <1>1. /\ s \o t \in Seq(Bytes) /\ Len(s \o t) = Len(s) + Len(t)
        /\ Len(s) \in Nat /\ Len(t) \in Nat
        /\ \A i \in 1 .. Len(s) : (s \o t)[i] = s[i]
    BY ConcatProperties
  <1>2. Ends(s) # {} /\ BlankLineEnd(s) = Min(Ends(s))
    BY DEF BlankLineEnd
  <1>3. \A i \in 2 .. Len(s) : i \in Ends(s) <=> i \in Ends(s \o t)
    BY <1>1
  <1>4. /\ Ends(s) \in SUBSET Nat /\ Ends(s \o t) \in SUBSET Nat
        /\ \A i \in Ends(s) : i \in 2 .. Len(s)
        /\ \A i \in Ends(s \o t) : i <= Len(s) => i \in 2 .. Len(s)
    BY <1>1
  <1>5. BlankLineEnd(s \o t) = IF Ends(s \o t) = {} THEN 0 ELSE Min(Ends(s \o t))
    BY DEF BlankLineEnd
  <1> HIDE DEF Ends
  <1>6. Min(Ends(s)) \in Ends(s) /\ \A y \in Ends(s) : Min(Ends(s)) <= y
    BY <1>2, <1>4, MinIn
  <1>7. Ends(s \o t) # {}
    BY <1>3, <1>4, <1>6
  <1>8. Min(Ends(s \o t)) \in Ends(s \o t) /\ \A y \in Ends(s \o t) : Min(Ends(s \o t)) <= y
    BY <1>4, <1>7, MinIn
  <1> DEFINE a == Min(Ends(s))
             b == Min(Ends(s \o t))
  <1>9. a \in Ends(s \o t) /\ a \in 2 .. Len(s)
    BY <1>3, <1>4, <1>6
  <1>10. b <= a /\ b \in Nat
    BY <1>4, <1>8, <1>9
  <1>11. b \in Ends(s)
    BY <1>1, <1>3, <1>4, <1>8, <1>9, <1>10
  <1>12. a <= b
    BY <1>6, <1>11
  <1> QED BY <1>2, <1>5, <1>7, <1>9, <1>10, <1>12

(* The metadata of an output is known from what is before its blank line,   *)
(* and from the first MetaLimit bytes when there is none.                   *)
LEMMA MetadataKnown ==
  ASSUME Stored, NEW d \in Seq(Bytes), NEW l \in Seq(Bytes),
         exchange.output = d \o l, Len(d) <= MetaLimit
  PROVE  /\ BlankLineEnd(d) > 0 => Metadata = SubSeq(d, 1, BlankLineEnd(d))
         /\ BlankLineEnd(d) = 0 /\ (Len(d) >= MetaLimit \/ l = <<>>) => Metadata = d
  <1> DEFINE out == exchange.output
             m == Smaller(MetaLimit, Len(out))
             t == SubSeq(out, Len(d) + 1, m)
  <1>1. /\ out \in Seq(Bytes) /\ Len(out) = Len(d) + Len(l)
        /\ Len(d) \in Nat /\ Len(l) \in Nat
    BY ConcatProperties
  <1>2. m \in Len(d) .. Len(out) /\ m \in Nat
    BY <1>1, Sizes DEF Smaller
  <1>3. t \in Seq(Bytes)
    <2>1. \A i \in Len(d) + 1 .. m : out[i] \in Bytes
      BY <1>1, <1>2
    <2> QED BY <1>1, <1>2, <2>1, SubSeqProperties
  <1>4. SubSeq(out, 1, m) = d \o t
    <2>1. /\ 1 \in 1 .. Len(out) + 1 /\ Len(d) \in (1 - 1) .. Len(out)
          /\ m \in Len(d) .. Len(out)
      BY <1>1, <1>2
    <2>2. SubSeq(out, 1, Len(d)) \o SubSeq(out, Len(d) + 1, m) = SubSeq(out, 1, m)
      BY <1>1, <2>1, ConcatAdjacentSubSeq, Zenon
    <2>3. SubSeq(out, 1, Len(d)) = d
      BY DropFront
    <2> QED BY <2>2, <2>3
  <1>5. Metadata = IF BlankLineEnd(d \o t) = 0 THEN d \o t
                   ELSE SubSeq(d \o t, 1, BlankLineEnd(d \o t))
    BY <1>4 DEF Metadata
  <1> HIDE DEF t
  <1>6. ASSUME BlankLineEnd(d) > 0 PROVE Metadata = SubSeq(d, 1, BlankLineEnd(d))
    <2>1. BlankLineEnd(d \o t) = BlankLineEnd(d)
      BY <1>3, <1>6, BlankLineStays
    <2>2. BlankLineEnd(d) \in 1 .. Len(d)
      BY <1>1, <1>6, BlankLineEndIn
    <2>3. 1 \in 1 .. Len(d)
      BY <1>1, <2>2
    <2>4. SubSeq(d \o t, 1, BlankLineEnd(d)) = SubSeq(d, 1, BlankLineEnd(d))
      BY <1>3, <2>2, <2>3, SubSeqOfConcat1
    <2> QED BY <1>5, <2>1, <2>2, <2>4
  <1>7. ASSUME BlankLineEnd(d) = 0, Len(d) >= MetaLimit \/ l = <<>>
        PROVE  Metadata = d
    <2>1. m = Len(d)
      <3>1. CASE Len(d) >= MetaLimit
        BY <1>1, <3>1, Sizes DEF Smaller
      <3>2. CASE l = <<>>
        <4>1. Len(out) = Len(d)
          BY <1>1, <3>2, EmptySeq
        <4> QED BY <1>1, <4>1, Sizes DEF Smaller
      <3> QED BY <1>7, <3>1, <3>2
    <2>2. t = <<>>
      BY <1>1, <2>1, SubSeqEmpty DEF t
    <2>3. d \o t = d
      BY <2>2, ConcatEmptySeq
    <2> QED BY <1>5, <1>7, <2>3
  <1> QED BY <1>6, <1>7
-----------------------------------------------------------------------------
(* The invariant.                                                           *)

LEMMA InitFull == Init => Full
  <1> SUFFICES ASSUME Init PROVE Full
    OBVIOUS
  <1>1. Inv
    BY InitInv
  <1>2. Decided
    BY DEF Init, Decided, Ended
  <1> QED BY <1>1, <1>2 DEF Full

(* The first bytes of an output, up to its blank line, are its metadata.    *)
LEMMA MetadataStep ==
  ASSUME Full, ReadMetadata, UNCHANGED <<exchange, toWrite, inPipe, moduleVars>>, Inv',
         garbled' = FALSE
  PROVE  Decided'
  <1>1. /\ Stored /\ TypeOK /\ pc = "metadata" /\ unread = <<>> /\ Len(data) < MetaLimit
        /\ data \in Seq(Bytes) /\ data \o Left = exchange.output
        /\ UNCHANGED <<exchange, alive, rest, length, begin, received>>
    BY DEF Full, Inv, ReadMetadata, Kept, Early, Stored, moduleVars
  <1>2. MetaAsk \in Nat /\ Len(data) + MetaAsk <= MetaLimit
    <2>1. Len(data) \in Nat
      BY <1>1
    <2> QED BY <1>1, <2>1, Sizes DEF MetaAsk, Smaller
  <1>3. PICK chunk \in Chunks(MetaAsk) :
          /\ Take(chunk)
          /\ \/ /\ BlankLineEnd(data \o chunk) = 0
                /\ data' = data \o chunk
                /\ UNCHANGED pc
             \/ /\ BlankLineEnd(data \o chunk) > 0
                /\ data' = SubSeq(data \o chunk, 1, BlankLineEnd(data \o chunk))
                /\ pc' = "parse"
    BY DEF ReadMetadata, Keep, Cut, Overrun
  <1> DEFINE whole == data \o chunk
             left == (PushedAfter(chunk) \o outPipe') \o rest
  <1>4. /\ chunk \in Seq(Bytes) /\ Len(chunk) <= MetaAsk
        /\ PushedAfter(chunk) \in Seq(Bytes) /\ outPipe' \in Seq(Bytes)
    BY <1>1, <1>2, <1>3, ChunkSplits
  <1>5. whole \o left = exchange.output
    BY <1>1, <1>2, <1>3, ReadMoves
  <1>6. left \in Seq(Bytes)
    <2>1. PushedAfter(chunk) \o outPipe' \in Seq(Bytes) /\ rest \in Seq(Bytes)
      BY <1>1, <1>4, ConcatProperties DEF Stored
    <2> QED BY <2>1, ConcatProperties
  <1>7. whole \in Seq(Bytes) /\ Len(whole) <= MetaLimit
    <2>1. whole \in Seq(Bytes) /\ Len(whole) = Len(data) + Len(chunk)
      BY <1>1, <1>4, ConcatProperties
    <2>2. Len(data) \in Nat /\ Len(chunk) \in Nat
      BY <1>1, <1>4
    <2> QED BY <1>2, <1>4, <2>1, <2>2, Sizes
  <1> HIDE DEF whole, left
  <1>8. BlankLineEnd(whole) > 0 => Metadata = SubSeq(whole, 1, BlankLineEnd(whole))
    BY <1>1, <1>5, <1>6, <1>7, MetadataKnown
  <1>9. Metadata' = Metadata
    BY <1>1 DEF Metadata
  <1>10. \/ pc' = "metadata" /\ BlankLineEnd(data') = 0
         \/ pc' = "parse" /\ data' = Metadata
    BY <1>1, <1>3, <1>8 DEF whole
  <1>11. Decided
    BY DEF Full
  <1> QED BY <1>1, <1>9, <1>10, <1>11 DEF Decided, Ended

(* So are the first MetaLimit bytes, and the whole of a short output,       *)
(* without a blank line.                                                    *)
LEMMA MetadataEndsStep ==
  ASSUME Full, MetadataEnds, UNCHANGED <<exchange, toWrite, inPipe, outPipe, moduleVars>>
  PROVE  Decided'
  <1>1. /\ Stored /\ Decided /\ pc = "metadata" /\ pc' = "parse"
        /\ data \in Seq(Bytes) /\ Len(data) <= MetaLimit
        /\ data \o Left = exchange.output
        /\ Len(data) >= MetaLimit \/ AtEnd
        /\ UNCHANGED <<exchange, alive, rest, data, length, begin, received>>
    BY NotYet, Sizes DEF Full, Inv, MetadataEnds, Kept, TypeOK, Stored, moduleVars
  <1>2. Left \in Seq(Bytes)
    BY <1>1, Associative DEF Left, Stored
  <1>3. AtEnd => Left = <<>>
    <2> SUFFICES ASSUME AtEnd PROVE Left = <<>>
      OBVIOUS
    <2>1. unread = <<>> /\ outPipe = <<>> /\ rest = <<>>
      BY <1>1 DEF AtEnd, Decided, Ended
    <2>2. <<>> \in Seq(Bytes)
      OBVIOUS
    <2>3. <<>> \o <<>> = <<>>
      BY <2>2, ConcatEmptySeq
    <2> QED BY <2>1, <2>3 DEF Left
  <1>4. BlankLineEnd(data) = 0
    BY <1>1 DEF Decided
  <1>5. Metadata = data
    BY <1>1, <1>2, <1>3, <1>4, MetadataKnown
  <1>6. Metadata' = Metadata
    BY <1>1 DEF Metadata
  <1> QED BY <1>1, <1>5, <1>6 DEF Decided, Ended

LEMMA ChosenStays ==
  ASSUME exchange' = exchange
  PROVE  Metadata' = Metadata /\ Text' = Text /\ Promise' = Promise
         /\ \A b, l : Chosen(b, l) => Chosen(b, l)'
  <1>1. Metadata' = Metadata
    BY DEF Metadata
  <1>2. Text' = Text /\ Body' = Body
    BY <1>1 DEF Text, Body
  <1>3. FileSize' = FileSize
    BY DEF FileSize
  <1> QED BY <1>1, <1>2, <1>3 DEF Promise, Chosen, Part, LastByte, FileLength

(* What is read as metadata is what the whole output says.                  *)
LEMMA DecideStep ==
  ASSUME Full, Parse, UNCHANGED <<exchange, toWrite, inPipe, outPipe, moduleVars>>
  PROVE  Decided'
  <1>1. /\ Decided /\ pc = "parse" /\ pc' = "relay"
        /\ begin = None /\ length = None /\ received = <<>>
        /\ UNCHANGED <<exchange, alive, rest, data, received>>
    BY DEF Full, Inv, Early, Parse, moduleVars
  <1>2. data = Metadata /\ Trim(data) = Text
    BY <1>1 DEF Decided, Text
  <1>3. Chosen(begin', length')
    <2>1. \/ /\ Kind(Text) = "inline"
             /\ length' = IF Inline[Text[1]] = 0 THEN None ELSE Inline[Text[1]]
             /\ begin' = None
          \/ /\ Kind(Text) = "file"
             /\ begin' = Ranges[Text[1]].offset /\ length' = FileLength(Ranges[Text[1]])
          \/ Kind(Text) = "raw" /\ length' = None /\ begin' = None
      BY <1>1, <1>2 DEF Parse
    <2> QED BY <2>1 DEF Chosen
  <1>4. Chosen(begin, length)'
    <2>1. \A b, l : Chosen(b, l) => Chosen(b, l)'
      BY <1>1, ChosenStays
    <2>2. exchange' = exchange /\ Text' = Text /\ Metadata' = Metadata
      BY <1>1, ChosenStays
    <2>3. FileLength(Ranges[Text[1]])' = FileLength(Ranges[Text[1]])
      BY <2>2 DEF FileLength, LastByte, FileSize
    <2> QED BY <1>3, <2>2, <2>3 DEF Chosen
  <1>5. data' = Metadata' /\ received' = <<>>
    BY <1>1, <1>2, ChosenStays
  <1> QED BY <1>1, <1>4, <1>5 DEF Decided, Ended

(* Nothing is decided again.                                                *)
LEMMA DecidedStays ==
  ASSUME Full, UNCHANGED <<exchange, data, length, begin>>,
         \/ UNCHANGED <<pc, alive, rest>>
         \/ pc = "relay" /\ pc' \in {"done", "broken"} /\ UNCHANGED <<alive, rest>>
         \/ pc = "write" /\ pc' \in {"metadata", "dead"} /\ UNCHANGED <<alive, rest>>
         \/ UNCHANGED pc /\ alive /\ (alive' \/ rest' = <<>> \/ Ended),
         \/ begin = None \/ UNCHANGED received
         \/ exchange.file # None /\ begin + Len(received') <= Len(exchange.file)
  PROVE  Decided'
  <1>1. Decided
    BY DEF Full
  <1>2. Metadata' = Metadata
    BY ChosenStays
  <1>3. Chosen(begin, length) => Chosen(begin, length)'
    <2>1. Text' = Text
      BY ChosenStays
    <2>2. FileLength(Ranges[Text[1]])' = FileLength(Ranges[Text[1]])
      BY <2>1 DEF FileLength, LastByte, FileSize
    <2> QED BY <2>1, <2>2 DEF Chosen
  <1>4. pc = "write" => BlankLineEnd(data) = 0
    <2> SUFFICES ASSUME pc = "write" PROVE BlankLineEnd(<<>>) = 0
      BY DEF Full, Inv, Early
    <2>1. {i \in 2 .. Len(<<>>) : <<>>[i] = Lf /\ <<>>[i - 1] = Lf} = {}
      <3>1. Len(<<>>) = 0
        BY EmptySeq
      <3>2. 2 .. 0 = {}
        OBVIOUS
      <3> QED BY <3>1, <3>2
    <2> QED BY <2>1 DEF BlankLineEnd
  <1>5. (pc' = "metadata" => BlankLineEnd(data') = 0)
    BY <1>1, <1>4 DEF Decided
  <1>6. pc' \in {"parse", "relay", "done", "broken"} => data' = Metadata'
    BY <1>1, <1>2 DEF Decided
  <1>7. pc' \in {"relay", "done", "broken"} => Chosen(begin, length)'
    BY <1>1, <1>3 DEF Decided
  <1>8. ~alive' /\ ~Ended' => rest' = <<>>
    BY <1>1 DEF Decided, Ended
  <1>9. begin' # None /\ received' # <<>> =>
          exchange'.file # None /\ begin' + Len(received') <= Len(exchange'.file)
    BY <1>1 DEF Decided
  <1> QED BY <1>5, <1>6, <1>7, <1>8, <1>9 DEF Decided

(* A part of the file is sent that the file has.                            *)
LEMMA SendFileHas ==
  ASSUME Full, SendFile
  PROVE  \/ UNCHANGED received
         \/ /\ exchange.file # None /\ begin + Len(received') <= Len(exchange.file)
            /\ pc' = pc
            /\ \E part \in Seq(Bytes) : received' = received \o part
  <1>1. /\ Stored /\ TypeOK /\ begin # None /\ ~Satisfied
        /\ received \in Seq(Bytes) /\ Len(received) \in Nat
    BY DEF Full, Inv, SendFile, Stored
  <1>2. begin \in Nat /\ length \in Nat
    BY <1>1 DEF Stored, TypeOK
  <1>3. CASE FileHas(Wanted)
    <2> DEFINE next == SubSeq(Drop(exchange.file, begin + Len(received)), 1, Wanted)
    <2>1. received' = received \o next /\ pc' = pc
      BY <1>3 DEF SendFile
    <2>2. /\ exchange.file # None /\ exchange.file \in Seq(Bytes)
          /\ begin + Len(received) + Wanted <= Len(exchange.file)
      BY <1>1, <1>3, OutputTyped DEF FileHas
    <2>3. Wanted \in Nat
      BY <1>1, <1>2, Sizes DEF Wanted, Smaller, Satisfied
    <2>4. next \in Seq(Bytes) /\ Len(next) = Wanted
      <3> DEFINE r == Len(received)
                 n == Wanted
      <3>1. /\ exchange.file \in Seq(Bytes) /\ begin \in Nat /\ r \in Nat /\ n \in Nat
            /\ begin + r + n <= Len(exchange.file)
        BY <1>1, <1>2, <2>2, <2>3
      <3> HIDE DEF r, n
      <3> DEFINE part == SubSeq(exchange.file, begin + r + 1, begin + r + n)
      <3>2. /\ SubSeq(Drop(exchange.file, begin + r), 1, n) = part
            /\ part \in Seq(Bytes) /\ Len(part) = n
        BY ONLY <3>1, NextPart, ZenonT(60)
      <3> HIDE DEF part
      <3>3. next = part
        BY <3>2 DEF r, n
      <3> QED BY <3>2, <3>3 DEF n
    <2> HIDE DEF next
    <2>5. Len(received') = Len(received) + Wanted
      BY <1>1, <2>1, <2>4, ConcatProperties
    <2>6. begin + Len(received') <= Len(exchange.file)
      BY <1>1, <1>2, <2>2, <2>3, <2>5
    <2> QED BY <2>1, <2>2, <2>4, <2>6
  <1> QED BY <1>3 DEF SendFile

LEMMA StepFull == Full /\ garbled' = FALSE /\ [Next]_vars => Full'
  <1> SUFFICES ASSUME Full, garbled' = FALSE, [Next]_vars PROVE Full'
    OBVIOUS
  <1>0. Inv'
    BY StepInv DEF Full
  <1> SUFFICES Decided'
    BY <1>0 DEF Full
  <1>1. CASE WriteInput
    BY <1>1, DecidedStays DEF WriteInput, moduleVars, handlerVars
  <1>2. CASE ReadMetadata /\ UNCHANGED <<exchange, toWrite, inPipe, moduleVars>>
    BY <1>0, <1>2, MetadataStep
  <1>3. CASE Relay /\ UNCHANGED <<exchange, toWrite, inPipe, moduleVars>>
    BY <1>3, DecidedStays DEF Relay, moduleVars
  <1>4. CASE MetadataEnds /\ UNCHANGED <<exchange, toWrite, inPipe, outPipe, moduleVars>>
    BY <1>4, MetadataEndsStep
  <1>5. CASE Parse /\ UNCHANGED <<exchange, toWrite, inPipe, outPipe, moduleVars>>
    BY <1>5, DecideStep
  <1>6. CASE SendFile /\ UNCHANGED <<exchange, toWrite, inPipe, outPipe, moduleVars>>
    <2>1. UNCHANGED <<exchange, alive, rest, data, length, begin>>
      BY <1>6 DEF SendFile, moduleVars
    <2>2. pc' = pc \/ (pc = "relay" /\ pc' = "done")
      BY <1>6 DEF SendFile
    <2> QED BY <1>6, <2>1, <2>2, SendFileHas, DecidedStays
  <1>7. CASE /\ SigPipe \/ InputWritten \/ RelayEnds \/ Break
             /\ UNCHANGED <<exchange, toWrite, inPipe, outPipe, moduleVars>>
    BY <1>7, DecidedStays DEF SigPipe, InputWritten, RelayEnds, Break, moduleVars
  <1>8. CASE ModuleReads
    BY <1>8, DecidedStays DEF ModuleReads, moduleVars, handlerVars
  <1>9. CASE ModulePrints
    BY <1>9, DecidedStays DEF ModulePrints, handlerVars
  <1>10. CASE ModuleEnds
    BY <1>10, DecidedStays DEF ModuleEnds, handlerVars, OutputClosed
  <1>11. CASE UNCHANGED vars
    BY <1>11, DecidedStays DEF vars, moduleVars, handlerVars
  <1> QED BY <1>1, <1>2, <1>3, <1>4, <1>5, <1>6, <1>7, <1>8, <1>9, <1>10, <1>11
          DEF Next, Handler, Module
-----------------------------------------------------------------------------
(***************************************************************************)
(* Where a search can run over the end of its chunk.                        *)
(***************************************************************************)

LEMMA NoBlankLine ==
  ASSUME NEW s \in Seq(Bytes), BlankLineEnd(s) = 0
  PROVE  \A i \in 2 .. Len(s) : ~(s[i] = Lf /\ s[i - 1] = Lf)
  <1> DEFINE ends == {i \in 2 .. Len(s) : s[i] = Lf /\ s[i - 1] = Lf}
  <1>1. ends \in SUBSET Nat /\ \A i \in ends : i >= 2
    OBVIOUS
  <1>2. ends # {} => BlankLineEnd(s) = Min(ends)
    BY DEF BlankLineEnd
  <1>3. ends # {} => Min(ends) \in ends
    BY <1>1, MinIn
  <1>4. ends = {}
    BY <1>1, <1>2, <1>3
  <1> QED BY <1>4

(* The metadata goes on from the bytes read without a blank line.           *)
LEMMA MetadataGoesOn ==
  ASSUME Stored, NEW d \in Seq(Bytes), NEW l \in Seq(Bytes),
         exchange.output = d \o l, Len(d) <= MetaLimit, BlankLineEnd(d) = 0
  PROVE  \A i \in 1 .. Len(d) : i \in DOMAIN Metadata /\ Metadata[i] = d[i]
  <1> DEFINE out == exchange.output
             m == Smaller(MetaLimit, Len(out))
             first == SubSeq(out, 1, m)
             e == BlankLineEnd(first)
  <1>1. /\ out \in Seq(Bytes) /\ Len(out) = Len(d) + Len(l)
        /\ Len(d) \in Nat /\ Len(l) \in Nat
        /\ \A i \in 1 .. Len(d) : out[i] = d[i]
    BY ConcatProperties
  <1>2. m \in Len(d) .. Len(out) /\ m \in Nat
    BY <1>1, Sizes DEF Smaller
  <1>3. /\ first \in Seq(Bytes) /\ Len(first) = m
        /\ \A i \in 1 .. m : first[i] = out[i]
    <2>1. \A i \in 1 .. m : out[i] \in Bytes
      BY <1>1, <1>2
    <2> QED BY <1>2, <2>1, SubSeqProperties
  <1>4. Metadata = IF e = 0 THEN first ELSE SubSeq(first, 1, e)
    BY DEF Metadata
  <1> HIDE DEF first, m
  <1>5. \A i \in 1 .. Len(d) : i \in 1 .. m /\ first[i] = d[i]
    BY <1>1, <1>2, <1>3
  <1>6. e = 0 \/ e > Len(d)
    <2> SUFFICES ASSUME e # 0, e <= Len(d) PROVE FALSE
      BY <1>1, <1>2, <1>3, BlankLineEndIn
    <2> DEFINE ends == {i \in 2 .. Len(first) : first[i] = Lf /\ first[i - 1] = Lf}
    <2>1. ends # {} /\ e = Min(ends)
      BY DEF BlankLineEnd
    <2>2. ends \in SUBSET Nat
      BY <1>3
    <2>3. e \in ends
      BY <2>1, <2>2, MinIn
    <2> HIDE DEF e
    <2>4. e \in 2 .. Len(d) /\ first[e] = Lf /\ first[e - 1] = Lf
      BY <1>1, <1>2, <1>3, <2>3
    <2>5. d[e] = Lf /\ d[e - 1] = Lf
      <3>1. e \in 1 .. Len(d) /\ e - 1 \in 1 .. Len(d)
        BY <1>1, <2>4
      <3> QED BY <1>5, <2>4, <3>1
    <2> QED BY <2>4, <2>5, NoBlankLine
  <1>7. e \in 0 .. m
    BY <1>3, BlankLineEndIn
  <1> HIDE DEF e
  <1>8. CASE e = 0
    <2>1. DOMAIN Metadata = 1 .. m
      BY <1>3, <1>4, <1>8
    <2> QED BY <1>4, <1>5, <1>8, <2>1
  <1>9. CASE e > Len(d)
    <2>1. \A i \in 1 .. e : first[i] \in Bytes
      BY <1>2, <1>3, <1>7
    <2>2. /\ DOMAIN SubSeq(first, 1, e) = 1 .. e
          /\ \A i \in 1 .. e : SubSeq(first, 1, e)[i] = first[i]
      <3>1. /\ SubSeq(first, 1, e) \in Seq(Bytes) /\ Len(SubSeq(first, 1, e)) = e
            /\ \A i \in 1 .. e : SubSeq(first, 1, e)[i] = first[i]
        BY <1>2, <1>7, <2>1, SubSeqProperties
      <3> QED BY <3>1
    <2>3. Metadata = SubSeq(first, 1, e)
      BY <1>1, <1>2, <1>4, <1>7, <1>9
    <2>4. \A i \in 1 .. Len(d) : i \in 1 .. e
      BY <1>1, <1>2, <1>7, <1>9
    <2> QED BY <1>5, <2>2, <2>3, <2>4
  <1> QED BY <1>6, <1>8, <1>9

(* A newline in the buffer is one of the metadata read so far.              *)
Remembers ==
  /\ buffer \in Seq(Nat) /\ Len(buffer) = BufferSize
  /\ pc \in {"write", "metadata"} =>
       \A i \in 1 .. BufferSize : buffer[i] = Lf => \E j \in 1 .. Len(data) : data[j] = Lf

LEMMA BlankRemembers ==
  /\ Blank \in Seq(Nat) /\ Len(Blank) = BufferSize
  /\ \A i \in 1 .. BufferSize : Blank[i] # Lf
  <1>1. Lf # 0
    BY ExchangeConstants DEF Bytes
  <1>2. \A i \in 1 .. BufferSize : Blank[i] = 0
    BY DEF Blank
  <1>3. Blank \in Seq(Nat) /\ Len(Blank) = BufferSize
    BY Sizes DEF Blank
  <1> QED BY <1>1, <1>2, <1>3

LEMMA InitRemembers == Init => Remembers
  BY BlankRemembers DEF Init, Remembers

(* A chunk in the buffer, with what was behind it.                          *)
LEMMA FilledBuffer ==
  ASSUME NEW b \in Seq(Nat), NEW c \in Seq(Bytes), Len(c) <= Len(b)
  PROVE  /\ c \o Drop(b, Len(c)) \in Seq(Nat) /\ Len(c \o Drop(b, Len(c))) = Len(b)
         /\ \A i \in 1 .. Len(b) :
              (c \o Drop(b, Len(c)))[i] = IF i <= Len(c) THEN c[i] ELSE b[i]
  <1> DEFINE n == Len(c)
             d == Drop(b, n)
  <1>1. n \in Nat /\ Len(b) \in Nat /\ n <= Len(b) /\ c \in Seq(Nat)
    <2>1. Bytes \subseteq Nat
      BY Sizes
    <2>2. c \in Seq(Nat)
      BY <2>1, SeqMonotonic, Zenon
    <2> QED BY <2>2
  <1>2. d \in Seq(Nat) /\ Len(d) = Len(b) - n /\ \A i \in 1 .. Len(d) : d[i] = b[n + i]
    <2>1. \A i \in n + 1 .. Len(b) : b[i] \in Nat
      BY <1>1
    <2> HIDE DEF n
    <2>2. /\ SubSeq(b, n + 1, Len(b)) \in Seq(Nat)
          /\ Len(SubSeq(b, n + 1, Len(b))) = IF n + 1 <= Len(b) THEN Len(b) - (n + 1) + 1 ELSE 0
          /\ \A i \in 1 .. Len(b) - (n + 1) + 1 : SubSeq(b, n + 1, Len(b))[i] = b[n + 1 + i - 1]
      BY <1>1, <2>1, SubSeqProperties
    <2> QED BY <1>1, <2>2 DEF Drop
  <1> HIDE DEF d
  <1>3. /\ c \o d \in Seq(Nat) /\ Len(c \o d) = n + Len(d)
        /\ \A i \in 1 .. n + Len(d) : (c \o d)[i] = IF i <= n THEN c[i] ELSE d[i - n]
    BY <1>1, <1>2, ConcatProperties
  <1>4. \A i \in 1 .. Len(b) : i > n => d[i - n] = b[i]
    <2> TAKE i \in 1 .. Len(b)
    <2> HAVE i > n
    <2> HIDE DEF n
    <2>1. i - n \in 1 .. Len(d) /\ n + (i - n) = i
      BY <1>1, <1>2
    <2> QED BY <1>2, <2>1
  <1>5. n + Len(d) = Len(b)
    BY <1>1, <1>2
  <1>6. \A i \in 1 .. Len(b) : (c \o d)[i] = IF i <= n THEN c[i] ELSE b[i]
    <2> TAKE i \in 1 .. Len(b)
    <2>1. (c \o d)[i] = IF i <= n THEN c[i] ELSE d[i - n]
      BY <1>3, <1>5
    <2>2. CASE i <= n
      BY <2>1, <2>2
    <2>3. CASE ~(i <= n)
      <3>1. i > n
        BY <1>1, <2>3
      <3> QED BY <1>4, <2>1, <2>3, <3>1
    <2> QED BY <2>2, <2>3
  <1> QED BY <1>3, <1>5, <1>6 DEF d

(* What a read of the metadata finds.                                       *)
LEMMA ChunkRead ==
  ASSUME Full, ReadMetadata, UNCHANGED <<exchange, toWrite, inPipe, moduleVars>>,
         NEW chunk \in Chunks(MetaAsk), Take(chunk)
  PROVE  /\ chunk \in Seq(Bytes) /\ Len(chunk) \in 1 .. BufferSize
         /\ data \in Seq(Bytes) /\ data \o chunk \in Seq(Bytes)
         /\ Len(data \o chunk) = Len(data) + Len(chunk) /\ Len(data \o chunk) <= MetaLimit
         /\ \E l \in Seq(Bytes) : exchange.output = (data \o chunk) \o l
  <1>1. /\ Stored /\ pc = "metadata" /\ unread = <<>> /\ Len(data) < MetaLimit
        /\ data \in Seq(Bytes) /\ data \o Left = exchange.output /\ rest \in Seq(Bytes)
        /\ outPipe \in Seq(Bytes) /\ rest' = rest
    BY DEF Full, Inv, ReadMetadata, Kept, Early, Stored, moduleVars
  <1>2. MetaAsk \in Nat /\ Len(data) + MetaAsk <= MetaLimit /\ MetaAsk <= BufferSize
    <2>1. Len(data) \in Nat
      BY <1>1
    <2> QED BY <1>1, <2>1, Sizes DEF MetaAsk, Smaller
  <1>3. /\ chunk \in Seq(Bytes) /\ Len(chunk) <= MetaAsk
        /\ PushedAfter(chunk) \in Seq(Bytes) /\ outPipe' \in Seq(Bytes)
    BY <1>1, <1>2, ChunkSplits
  <1>4. Len(chunk) >= 1 /\ Len(chunk) \in Nat
    <2>1. PICK k \in 1 .. Smaller(MetaAsk, Len(outPipe)) : chunk = SubSeq(outPipe, 1, k)
      BY <1>1 DEF Chunks
    <2>2. k \in 0 .. Len(outPipe) /\ k >= 1
      BY <1>1, <1>2, <2>1 DEF Smaller
    <2>3. Len(chunk) = k
      BY <1>1, <2>1, <2>2, Split
    <2> QED BY <2>2, <2>3
  <1>5. data \o chunk \in Seq(Bytes) /\ Len(data \o chunk) = Len(data) + Len(chunk)
    BY <1>1, <1>3, ConcatProperties
  <1> DEFINE l == (PushedAfter(chunk) \o outPipe') \o rest
  <1>6. (data \o chunk) \o l = exchange.output
    BY <1>1, <1>2, ReadMoves
  <1>7. l \in Seq(Bytes)
    BY <1>1, <1>3, Associative
  <1> HIDE DEF l
  <1>8. Len(data \o chunk) <= MetaLimit /\ Len(chunk) \in 1 .. BufferSize
    <2>1. Len(data) \in Nat
      BY <1>1
    <2> QED BY <1>2, <1>3, <1>4, <1>5, <2>1, Sizes
  <1> QED BY <1>1, <1>3, <1>5, <1>6, <1>7, <1>8

LEMMA ReadRemembers ==
  ASSUME Full, Remembers, ReadMetadata, UNCHANGED <<exchange, toWrite, inPipe, moduleVars>>
  PROVE  Remembers'
  <1>1. PICK chunk \in Chunks(MetaAsk) :
          /\ Take(chunk)
          /\ \/ \E behind \in Behind(chunk) : Keep(chunk, behind) \/ Overrun(chunk, behind)
             \/ Cut(chunk)
    BY DEF ReadMetadata
  <1>2. /\ chunk \in Seq(Bytes) /\ Len(chunk) \in 1 .. BufferSize
        /\ data \in Seq(Bytes)
        /\ Len(data \o chunk) = Len(data) + Len(chunk)
    BY <1>1, ChunkRead
  <1>3. CASE buffer' = Blank /\ pc' \in {"parse", "dead"}
    BY <1>3, BlankRemembers DEF Remembers
  <1>4. CASE \E behind : Keep(chunk, behind)
    <2> DEFINE new == chunk \o Drop(buffer, Len(chunk))
    <2>1. data' = data \o chunk /\ buffer' = new /\ pc = "metadata"
      BY <1>4 DEF Keep, ReadMetadata
    <2>2. /\ buffer \in Seq(Nat) /\ Len(buffer) = BufferSize
          /\ \A i \in 1 .. BufferSize : buffer[i] = Lf => \E j \in 1 .. Len(data) : data[j] = Lf
      BY <2>1 DEF Remembers
    <2>3. /\ new \in Seq(Nat) /\ Len(new) = BufferSize
          /\ \A i \in 1 .. BufferSize : new[i] = IF i <= Len(chunk) THEN chunk[i] ELSE buffer[i]
      <3>1. Len(chunk) <= Len(buffer)
        BY <1>2, <2>2, Sizes
      <3>2. /\ new \in Seq(Nat) /\ Len(new) = Len(buffer)
            /\ \A i \in 1 .. Len(buffer) : new[i] = IF i <= Len(chunk) THEN chunk[i] ELSE buffer[i]
        BY <1>2, <2>2, <3>1, FilledBuffer, Zenon
      <3> QED BY <2>2, <3>2
    <2> HIDE DEF new
    <2>4. /\ \A j \in 1 .. Len(data) : j \in 1 .. Len(data') /\ data'[j] = data[j]
          /\ \A i \in 1 .. Len(chunk) :
               Len(data) + i \in 1 .. Len(data') /\ data'[Len(data) + i] = chunk[i]
      <3>1. Len(data) \in Nat /\ Len(chunk) \in Nat
        BY <1>2
      <3>2. \A i \in 1 .. Len(data) + Len(chunk) :
              (data \o chunk)[i] = IF i <= Len(data) THEN data[i] ELSE chunk[i - Len(data)]
        BY <1>2, ConcatProperties
      <3> QED BY <1>2, <2>1, <3>1, <3>2
    <2>5. ASSUME NEW i \in 1 .. BufferSize, buffer'[i] = Lf
          PROVE  \E j \in 1 .. Len(data') : data'[j] = Lf
      <3>1. CASE i <= Len(chunk)
        <4>1. i \in 1 .. Len(chunk) /\ chunk[i] = Lf
          BY <1>2, <2>1, <2>3, <2>5, <3>1
        <4> QED BY <2>4, <4>1
      <3>2. CASE ~(i <= Len(chunk))
        <4>1. buffer[i] = Lf
          BY <2>1, <2>3, <2>5, <3>2
        <4> QED BY <2>2, <2>4, <4>1
      <3> QED BY <3>1, <3>2
    <2>6. buffer' \in Seq(Nat) /\ Len(buffer') = BufferSize
      BY <2>1, <2>3
    <2> QED BY <2>5, <2>6 DEF Remembers
  <1> QED BY <1>1, <1>3, <1>4 DEF Cut, Overrun

LEMMA StepRemembers ==
  ASSUME Full, Remembers, [Next]_vars
  PROVE  Remembers'
  <1>1. CASE ReadMetadata /\ UNCHANGED <<exchange, toWrite, inPipe, moduleVars>>
    BY <1>1, ReadRemembers
  <1>2. CASE /\ UNCHANGED <<buffer, data>>
             /\ \/ pc' = pc
                \/ pc' = "metadata" /\ pc = "write"
                \/ pc' \notin {"write", "metadata"}
    BY <1>2 DEF Remembers
  <1>3. CASE MetadataEnds
    BY <1>3, BlankRemembers DEF MetadataEnds, Remembers
  <1>4. CASE WriteInput \/ ModuleReads \/ ModulePrints \/ ModuleEnds \/ UNCHANGED vars
    BY <1>2, <1>4 DEF WriteInput, ModuleReads, ModulePrints, ModuleEnds, handlerVars, vars
  <1>5. CASE SigPipe \/ InputWritten \/ Parse \/ RelayEnds \/ Break \/ Relay \/ SendFile
    BY <1>2, <1>5 DEF SigPipe, InputWritten, Parse, RelayEnds, Break, Relay, SendFile
  <1> QED BY <1>1, <1>3, <1>4, <1>5 DEF Next, Handler, Module

(* A newline at the end of a chunk is completed only by a newline of an     *)
(* earlier line, or by one behind the buffer.                               *)
LEMMA OverrunUnsteady ==
  ASSUME Full, Remembers, ReadMetadata, UNCHANGED <<exchange, toWrite, inPipe, moduleVars>>,
         garbled'
  PROVE  ~Steady
  <1>1. garbled = FALSE /\ Stored /\ pc = "metadata"
    BY NotYet DEF Full, Inv, ReadMetadata
  <1>2. PICK chunk \in Chunks(MetaAsk) :
          Take(chunk) /\ \E behind \in Behind(chunk) : Overrun(chunk, behind)
    BY <1>1 DEF ReadMetadata, Keep, Cut
  <1>0. PICK behind \in Behind(chunk) : Overrun(chunk, behind)
    BY <1>2
  <1> DEFINE whole == data \o chunk
             p == Len(whole)
  <1>3. /\ chunk \in Seq(Bytes) /\ Len(chunk) \in 1 .. BufferSize
        /\ data \in Seq(Bytes) /\ whole \in Seq(Bytes) /\ p \in Nat
        /\ p = Len(data) + Len(chunk) /\ p <= MetaLimit
        /\ \E l \in Seq(Bytes) : exchange.output = whole \o l
    BY <1>2, ChunkRead
  <1>4. BlankLineEnd(whole) = 0 /\ Last(chunk) = Lf /\ behind = Lf
    BY <1>0 DEF Overrun
  <1>5. whole[p] = Lf
    <2>1. Len(data) \in Nat /\ Len(chunk) \in Nat /\ Len(chunk) >= 1
      BY <1>3
    <2>2. whole[p] = chunk[Len(chunk)]
      BY <1>3, <2>1, ConcatProperties
    <2> QED BY <1>4, <2>2 DEF Last
  <1>6. \A i \in 2 .. p : ~(whole[i] = Lf /\ whole[i - 1] = Lf)
    BY <1>3, <1>4, NoBlankLine
  <1>7. \A i \in 1 .. p : i \in DOMAIN Metadata /\ Metadata[i] = whole[i]
    BY <1>1, <1>3, <1>4, MetadataGoesOn
  <1>8. p >= BufferSize \/ \E j \in 1 .. p - 1 : whole[j] = Lf
    <2>1. CASE Len(chunk) = BufferSize
      <3>1. Len(data) \in Nat
        BY <1>3
      <3> QED BY <1>3, <2>1, <3>1, Sizes
    <2>2. CASE Len(chunk) < BufferSize
      <3>1. buffer[Len(chunk) + 1] = Lf /\ Len(chunk) + 1 \in 1 .. BufferSize
        BY <1>3, <1>4, <2>2, Sizes DEF Behind
      <3>2. PICK j \in 1 .. Len(data) : data[j] = Lf
        BY <1>1, <3>1 DEF Remembers
      <3>3. j \in 1 .. p - 1 /\ whole[j] = data[j]
        <4>1. Len(data) \in Nat /\ Len(chunk) \in Nat /\ Len(chunk) >= 1
          BY <1>3
        <4>2. j \in 1 .. p - 1
          BY <1>3, <4>1
        <4>3. whole[j] = data[j]
          BY <1>3, <4>1, ConcatProperties
        <4> QED BY <4>2, <4>3
      <3> QED BY <3>2, <3>3
    <2> QED BY <1>3, <2>1, <2>2, Sizes
  <1> HIDE DEF whole, p
  <1>9. p >= 1
    <2>1. Len(data) \in Nat
      BY <1>3
    <2> QED BY <1>3, <2>1
  <1>10. \A i \in 1 .. p : whole[i] = Lf => i \in Newlines
    BY <1>7 DEF Newlines
  <1>11. p \in Newlines
    BY <1>3, <1>5, <1>9, <1>10
  <1> SUFFICES ASSUME NEW n \in 1 .. BufferSize - 1, n \in Newlines, Newlines \subseteq {n, n + 1}
               PROVE  FALSE
    BY <1>11 DEF Steady
  <1>12. n \in Nat /\ n < BufferSize /\ BufferSize \in Nat /\ p \in {n, n + 1}
    BY <1>11, Sizes
  <1>13. CASE \E j \in 1 .. p - 1 : whole[j] = Lf
    <2>1. PICK j \in 1 .. p - 1 : whole[j] = Lf
      BY <1>13
    <2>2. j \in {n, n + 1} /\ j \in 1 .. p
      BY <1>3, <1>10, <2>1
    <2>3. j = p - 1 /\ p \in 2 .. p
      BY <1>3, <1>12, <2>1, <2>2
    <2> QED BY <1>5, <1>6, <2>1, <2>3
  <1>14. CASE p >= BufferSize
    <2>1. p - 1 = n /\ n \in 1 .. p - 1 /\ n \in 1 .. p
      BY <1>3, <1>12, <1>14
    <2>2. whole[n] = Metadata[n] /\ Metadata[n] = Lf
      BY <1>7, <2>1 DEF Newlines
    <2> QED BY <1>13, <2>1, <2>2
  <1> QED BY <1>8, <1>13, <1>14
-----------------------------------------------------------------------------
(* What the client has received is the beginning of what was promised.      *)

(* A part of a part.                                                        *)
LEMMA PartOfPart ==
  ASSUME NEW s \in Seq(Bytes), NEW i \in Nat, NEW j \in Nat, NEW r \in Nat,
         i + r <= j, j <= Len(s)
  PROVE  /\ SubSeq(s, i + 1, j) \in Seq(Bytes) /\ Len(SubSeq(s, i + 1, j)) = j - i
         /\ SubSeq(SubSeq(s, i + 1, j), 1, r) = SubSeq(s, i + 1, i + r)
  <1> DEFINE p == SubSeq(s, i + 1, j)
             q == SubSeq(s, i + 1, i + r)
  <1>1. \A k \in 1 .. Len(s) : s[k] \in Bytes
    OBVIOUS
  <1>2. /\ p \in Seq(Bytes) /\ Len(p) = j - i
        /\ \A k \in 1 .. j - i : p[k] = s[i + k]
    <2>1. \A k \in i + 1 .. j : s[k] \in Bytes
      BY <1>1
    <2> QED BY <2>1, SubSeqProperties
  <1>3. /\ q \in Seq(Bytes) /\ Len(q) = r
        /\ \A k \in 1 .. r : q[k] = s[i + k]
    <2>1. \A k \in i + 1 .. i + r : s[k] \in Bytes
      BY <1>1
    <2> QED BY <2>1, SubSeqProperties
  <1> HIDE DEF p, q
  <1>4. /\ SubSeq(p, 1, r) \in Seq(Bytes) /\ Len(SubSeq(p, 1, r)) = r
        /\ \A k \in 1 .. r : SubSeq(p, 1, r)[k] = p[k]
    <2>1. \A k \in 1 .. r : p[k] \in Bytes
      BY <1>2
    <2> QED BY <2>1, SubSeqProperties
  <1>5. \A k \in 1 .. r : SubSeq(p, 1, r)[k] = q[k]
    BY <1>2, <1>3, <1>4
  <1>6. SubSeq(p, 1, r) = q
    BY <1>3, <1>4, <1>5, SeqEqual
  <1> QED BY <1>2, <1>6 DEF p, q

Begins(r, s) == s \in Seq(Bytes) /\ Len(r) <= Len(s) /\ r = SubSeq(s, 1, Len(r))

LEMMA BeginsConcat ==
  ASSUME NEW r \in Seq(Bytes), NEW l \in Seq(Bytes)
  PROVE  Begins(r, r \o l)
  <1>1. r \o l \in Seq(Bytes) /\ Len(r \o l) = Len(r) + Len(l)
    BY ConcatProperties
  <1>2. Len(r) \in Nat /\ Len(l) \in Nat
    OBVIOUS
  <1>3. Len(r) <= Len(r \o l)
    BY <1>1, <1>2
  <1> QED BY <1>1, <1>3, DropFront DEF Begins

LEMMA BeginsCut ==
  ASSUME NEW r \in Seq(Bytes), NEW s, Begins(r, s), NEW n \in Nat, Len(r) <= n
  PROVE  /\ Begins(r, SubSeq(s, 1, Smaller(n, Len(s))))
         /\ Len(SubSeq(s, 1, Smaller(n, Len(s)))) <= n
  <1> DEFINE k == Smaller(n, Len(s))
             x == Len(r)
  <1>1. /\ s \in Seq(Bytes) /\ x \in Nat /\ k \in Nat
        /\ 0 + x <= k /\ k <= Len(s) /\ k <= n
    BY DEF Begins, Smaller
  <1>2. r = SubSeq(s, 1, x)
    BY DEF Begins
  <1> HIDE DEF k, x
  <1>3. /\ SubSeq(s, 0 + 1, k) \in Seq(Bytes) /\ Len(SubSeq(s, 0 + 1, k)) = k - 0
        /\ SubSeq(SubSeq(s, 0 + 1, k), 1, x) = SubSeq(s, 0 + 1, 0 + x)
    <2>1. 0 \in Nat
      OBVIOUS
    <2> QED BY <1>1, <2>1, PartOfPart
  <1>4. 0 + 1 = 1 /\ 0 + x = x /\ k - 0 = k
    BY <1>1
  <1>5. /\ SubSeq(s, 1, k) \in Seq(Bytes) /\ Len(SubSeq(s, 1, k)) = k
        /\ SubSeq(SubSeq(s, 1, k), 1, x) = r
    BY <1>2, <1>3, <1>4
  <1> QED BY <1>1, <1>5 DEF Begins, k, x

LEMMA BeginsEmpty ==
  ASSUME NEW s \in Seq(Bytes)
  PROVE  Begins(<<>>, s)
  <1>1. SubSeq(s, 1, 0) = <<>>
    BY SubSeqEmpty
  <1>2. Len(<<>>) = 0 /\ Len(s) \in Nat
    BY EmptySeq
  <1> QED BY <1>1, <1>2 DEF Begins

(* What begins a sequence and is as long is the sequence.                   *)
LEMMA BeginsWhole ==
  ASSUME NEW r \in Seq(Bytes), NEW s, Begins(r, s), Len(s) <= Len(r)
  PROVE  r = s
  <1>1. s \in Seq(Bytes) /\ Len(r) = Len(s)
    BY DEF Begins
  <1>2. SubSeq(s, 1, Len(s)) = s
    BY <1>1, SubSeqFull
  <1> QED BY <1>1, <1>2 DEF Begins

(* The remainder of a number below twice the modulus.                       *)
LEMMA ModSmall ==
  ASSUME NEW m \in Nat \ {0}, NEW n \in Nat, n < 2 * m
  PROVE  n % m = IF n < m THEN n ELSE n - m
  <1>1. CASE n < m
    BY <1>1
  <1>2. CASE n >= m
    BY <1>2
  <1> QED BY <1>1, <1>2

(* The end and the length of a range of a file, where they wrap and where   *)
(* they do not.                                                             *)
LEMMA RangeSizes ==
  ASSUME Stored, exchange.file # None, NEW range,
         range.offset \in 0 .. UintMod - 1, range.limit \in 0 .. UintMod - 2
  PROVE  /\ exchange.file \in Seq(Bytes)
         /\ LastByte(range) \in 0 .. UintMod - 1
         /\ LastByte(range) = UintMod - 1 => Len(exchange.file) = 0
         /\ FileLength(range) \in Nat
         /\ FileLength(range) = IF range.offset > LastByte(range) + 1
                                THEN UintMod - (range.offset - LastByte(range) - 1)
                                ELSE IF LastByte(range) + 1 - range.offset = UintMod THEN 0
                                ELSE LastByte(range) + 1 - range.offset
  <1> DEFINE size == Len(exchange.file)
             last == LastByte(range)
             o == range.offset
  <1>1. /\ exchange.file \in Seq(Bytes) /\ size \in Nat /\ size < UintMod
        /\ FileSize = size /\ UintMod \in Nat \ {0}
    BY OutputTyped, Sizes DEF FileSize
  <1>2. last = IF range.limit = 0 THEN (size + UintMod - 1) % UintMod ELSE range.limit
    BY <1>1 DEF LastByte
  <1>3. (size + UintMod - 1) % UintMod = IF size = 0 THEN UintMod - 1 ELSE size - 1
    <2> DEFINE n == size + UintMod - 1
    <2>1. n \in Nat /\ n < 2 * UintMod
      BY <1>1
    <2> HIDE DEF n
    <2>2. n % UintMod = IF n < UintMod THEN n ELSE n - UintMod
      BY <1>1, <2>1, ModSmall
    <2>3. n = size + UintMod - 1
      BY DEF n
    <2> HIDE DEF size
    <2>4. n % UintMod = IF size = 0 THEN UintMod - 1 ELSE size - 1
      BY <1>1, <2>2, <2>3
    <2> QED BY <2>3, <2>4
  <1> HIDE DEF size
  <1>4. last \in 0 .. UintMod - 1 /\ (last = UintMod - 1 => size = 0)
    BY <1>1, <1>2, <1>3
  <1>5. FileLength(range) = (last + UintMod - o + 1) % UintMod
    BY DEF FileLength
  <1>6. o \in Nat /\ o < UintMod
    BY <1>1
  <1> HIDE DEF last, o
  <1>7. FileLength(range) \in Nat
        /\ FileLength(range) = IF o > last + 1 THEN UintMod - (o - last - 1)
                               ELSE IF last + 1 - o = UintMod THEN 0
                               ELSE last + 1 - o
    <2> DEFINE n == last + UintMod - o + 1
    <2>1. n \in Nat /\ n <= 2 * UintMod
      BY <1>1, <1>4, <1>6
    <2>2. n = last + UintMod - o + 1
      OBVIOUS
    <2> HIDE DEF n
    <2>3. CASE n < 2 * UintMod
      <3>1. n % UintMod = IF n < UintMod THEN n ELSE n - UintMod
        BY <1>1, <2>1, <2>3, ModSmall
      <3> QED BY <1>1, <1>4, <1>5, <1>6, <2>1, <2>2, <2>3, <3>1
    <2>4. CASE n = UintMod + UintMod
      <3>1. (UintMod + UintMod) % UintMod = 0
        BY <1>1
      <3>2. last + 1 - o = UintMod
        BY <1>1, <1>4, <1>6, <2>2, <2>4
      <3> QED BY <1>1, <1>4, <1>5, <1>6, <2>2, <2>4, <3>1, <3>2
    <2> QED BY <1>1, <2>1, <2>3, <2>4
  <1> QED BY <1>1, <1>4, <1>7 DEF last, o, size

LEMMA DropTyped ==
  ASSUME NEW s \in Seq(Bytes), NEW n \in Nat
  PROVE  Drop(s, n) \in Seq(Bytes)
  <1>1. \A i \in n + 1 .. Len(s) : s[i] \in Bytes
    OBVIOUS
  <1> QED BY <1>1, SubSeqProperties DEF Drop

(* What the output stands for, and what is left of it.                      *)
Whole == IF Kind(Text) = "raw" THEN Text \o Body ELSE Body

LEMMA Relayed ==
  ASSUME Full, pc \in {"relay", "done", "broken"}
  PROVE  /\ Text \in Seq(Bytes) /\ Body \in Seq(Bytes)
         /\ received \in Seq(Bytes) /\ Left \in Seq(Bytes)
         /\ begin = None => received \o Left = Whole
  <1>1. /\ Stored /\ data = Metadata /\ data \in Seq(Bytes) /\ received \in Seq(Bytes)
    BY DEF Full, Inv, Decided, Stored
  <1>2. Text \in Seq(Bytes) /\ Trim(data) = Text
    BY <1>1, TrimFits DEF Text
  <1>3. Body \in Seq(Bytes) /\ Drop(exchange.output, Len(data)) = Body
    <2>1. Len(data) \in Nat /\ exchange.output \in Seq(Bytes)
      BY <1>1, OutputTyped
    <2> QED BY <1>1, <2>1, DropTyped DEF Body
  <1>4. Left \in Seq(Bytes)
    BY <1>1, Associative DEF Left, Stored
  <1>5. begin = None => received \o Left = Whole
    <2> SUFFICES ASSUME begin = None PROVE received \o Left = Whole
      OBVIOUS
    <2>1. received \o Left = Restored \o Drop(exchange.output, Len(data))
      BY DEF Full, Inv, Kept
    <2>2. received \o Left = Restored \o Body
      BY <1>3, <2>1
    <2>3. Restored = IF Kind(Text) = "raw" THEN Text ELSE <<>>
      BY <1>2 DEF Restored
    <2>4. <<>> \o Body = Body
      BY <1>3, ConcatEmptySeq
    <2> QED BY <2>2, <2>3, <2>4 DEF Whole
  <1> QED BY <1>1, <1>2, <1>3, <1>4, <1>5

LEMMA KindOf == \A t : Kind(t) \in {"raw", "inline", "file"}
  BY DEF Kind

(* A part of a file is what the file has of the range.                      *)
LEMMA FileWithin ==
  ASSUME Full, pc \in {"relay", "done", "broken"}, Kind(Text) = "file"
  PROVE  Begins(received, Promise)
  <1> DEFINE range == Ranges[Text[1]]
             file == exchange.file
             r == Len(received)
             last == LastByte(range)
  <1>1. /\ Stored /\ TypeOK /\ Decided /\ Kept
        /\ begin = range.offset /\ length = FileLength(range)
    BY DEF Full, Inv, Decided, Chosen
  <1>2. range.offset \in 0 .. UintMod - 1 /\ range.limit \in 0 .. UintMod - 2
    BY ExchangeConstants DEF Kind
  <1>3. Promise = IF file = None THEN <<>> ELSE Part(file, range)
    BY DEF Promise
  <1>4. received \in Seq(Bytes) /\ r \in Nat /\ begin \in Nat /\ begin # None
        /\ UintMod \in Nat
    BY <1>1, <1>2, Sizes DEF Stored
  <1>5. CASE received = <<>>
    <2>1. Promise \in Seq(Bytes)
      <3>1. CASE file = None
        BY <1>3, <3>1
      <3>2. CASE file # None
        <4>1. file \in Seq(Bytes) /\ last \in Nat
          BY <1>1, <1>2, <3>2, RangeSizes, Sizes
        <4>2. CASE range.offset > last + 1
          <5>1. Promise = Drop(file, begin)
            BY <1>1, <1>3, <3>2, <4>2 DEF Part
          <5> QED BY <1>4, <4>1, <5>1, DropTyped
        <4>3. CASE ~(range.offset > last + 1)
          <5> DEFINE n == Smaller(last + 1, Len(file))
          <5>1. Promise = SubSeq(file, begin + 1, n)
            BY <1>1, <1>3, <3>2, <4>3 DEF Part
          <5>2. n \in Nat /\ n <= Len(file)
            BY <4>1 DEF Smaller
          <5> HIDE DEF n
          <5>3. \A i \in begin + 1 .. n : file[i] \in Bytes
            BY <1>4, <4>1, <5>2
          <5> QED BY <1>4, <5>1, <5>2, <5>3, SubSeqProperties
        <4> QED BY <4>2, <4>3
      <3> QED BY <3>1, <3>2
    <2> QED BY <1>5, <2>1, BeginsEmpty
  <1>6. CASE received # <<>>
    <2>1. /\ file # None /\ begin + r <= Len(file)
          /\ received = SubSeq(file, begin + 1, begin + r)
      BY <1>1, <1>4, <1>6 DEF Decided, Kept, Full, Inv, Early
    <2>2. r > 0
      BY <1>4, <1>6, EmptySeq
    <2>3. /\ file \in Seq(Bytes) /\ last \in 0 .. UintMod - 1
          /\ length \in Nat
          /\ length = IF begin > last + 1 THEN UintMod - (begin - last - 1)
                      ELSE IF last + 1 - begin = UintMod THEN 0
                      ELSE last + 1 - begin
      BY <1>1, <1>2, <2>1, RangeSizes
    <2>4. r <= length
      BY <1>1, <2>3, Sizes DEF TypeOK
    <2>5. PICK n \in Nat : /\ begin + r <= n /\ n <= Len(file)
                           /\ Promise = SubSeq(file, begin + 1, n)
      <3>1. CASE begin > last + 1
        <4>1. Promise = SubSeq(file, begin + 1, Len(file))
          BY <1>1, <1>3, <2>1, <3>1 DEF Part, Drop
        <4>2. Len(file) \in Nat /\ begin + r <= Len(file) /\ Len(file) <= Len(file)
          BY <2>1, <2>3
        <4> HIDE DEF file, r
        <4> QED BY <4>1, <4>2
      <3>2. CASE ~(begin > last + 1)
        <4> DEFINE n == Smaller(last + 1, Len(file))
        <4>1. Promise = SubSeq(file, begin + 1, n)
          BY <1>1, <1>3, <2>1, <3>2 DEF Part
        <4>2. last \in Nat /\ last + 1 - begin \in Nat /\ r <= last + 1 - begin
          <5> HIDE DEF last, r
          <5> QED BY <1>4, <2>2, <2>3, <2>4, <3>2
        <4>3. begin + r <= last + 1
          <5> HIDE DEF last, r
          <5> QED BY <1>4, <4>2
        <4>4. n \in Nat /\ begin + r <= n /\ n <= Len(file)
          <5> HIDE DEF r
          <5> QED BY <1>4, <2>1, <2>3, <4>2, <4>3 DEF Smaller
        <4> QED BY <4>1, <4>4
      <3> QED BY <3>1, <3>2
    <2> HIDE DEF r, file
    <2>6. /\ SubSeq(file, begin + 1, n) \in Seq(Bytes)
          /\ Len(SubSeq(file, begin + 1, n)) = n - begin
          /\ SubSeq(SubSeq(file, begin + 1, n), 1, r) = SubSeq(file, begin + 1, begin + r)
      <3>1. /\ file \in Seq(Bytes) /\ begin \in Nat /\ n \in Nat /\ r \in Nat
            /\ begin + r <= n /\ n <= Len(file)
        BY <1>4, <2>3, <2>5
      <3> QED BY ONLY <3>1, PartOfPart
    <2>7. r <= n - begin
      BY <1>4, <2>5
    <2> QED BY <2>1, <2>5, <2>6, <2>7 DEF Begins, r
  <1> QED BY <1>5, <1>6

LEMMA Within ==
  ASSUME Full, pc \in {"relay", "done", "broken"}
  PROVE  Begins(received, Promise)
  <1>1. Chosen(begin, length)
    BY DEF Full, Decided
  <1>2. /\ Text \in Seq(Bytes) /\ Body \in Seq(Bytes)
        /\ received \in Seq(Bytes) /\ Left \in Seq(Bytes)
        /\ begin = None => received \o Left = Whole
    BY Relayed
  <1>3. begin = None => Begins(received, Whole)
    BY <1>2, BeginsConcat
  <1>4. CASE Kind(Text) = "raw"
    <2>1. Promise = Whole
      BY <1>4 DEF Promise, Whole
    <2>2. begin = None
      BY <1>1, <1>4 DEF Chosen
    <2> QED BY <1>3, <2>1, <2>2
  <1>5. CASE Kind(Text) = "inline"
    <2> DEFINE n == Inline[Text[1]]
    <2>1. /\ begin = None /\ length = IF n = 0 THEN None ELSE n
          /\ n \in Nat /\ Whole = Body
          /\ Promise = IF n = 0 THEN Body ELSE SubSeq(Body, 1, Smaller(n, Len(Body)))
      BY <1>1, <1>5, ExchangeConstants DEF Chosen, Whole, Promise, Kind
    <2> HIDE DEF n
    <2>2. Begins(received, Body)
      BY <1>3, <2>1
    <2>3. CASE n = 0
      BY <2>1, <2>2, <2>3
    <2>4. CASE n # 0
      <3>1. Len(received) <= n
        BY <2>1, <2>4, Sizes DEF Full, Inv, TypeOK
      <3> QED BY <1>2, <2>1, <2>2, <2>4, <3>1, BeginsCut
    <2> QED BY <2>3, <2>4
  <1>6. CASE Kind(Text) = "file"
    BY <1>6, FileWithin
  <1> QED BY <1>4, <1>5, <1>6, KindOf

(* An answer that ends with as many bytes as announced, or with the output  *)
(* when nothing was announced, is whole.                                    *)
LEMMA Completes ==
  ASSUME Full, RelayEnds, length \in {None, Len(received)}
  PROVE  received = Promise
  <1>1. /\ Stored /\ TypeOK /\ Decided /\ Chosen(begin, length)
        /\ Satisfied \/ (begin = None /\ AtEnd)
        /\ pc = "relay"
    BY DEF Full, Inv, Decided, RelayEnds
  <1>2. /\ Text \in Seq(Bytes) /\ Body \in Seq(Bytes)
        /\ received \in Seq(Bytes) /\ Left \in Seq(Bytes) /\ Len(received) \in Nat
        /\ begin = None => received \o Left = Whole
    BY Relayed DEF RelayEnds
  <1>3. Begins(received, Promise)
    BY Within DEF RelayEnds
  <1>4. length = None => begin = None /\ AtEnd
    BY DEF RelayEnds, Satisfied
  <1>5. AtEnd => Left = <<>>
    <2> SUFFICES ASSUME AtEnd PROVE Left = <<>>
      OBVIOUS
    <2>1. unread = <<>> /\ outPipe = <<>> /\ rest = <<>>
      BY <1>1 DEF AtEnd, Decided, Ended, RelayEnds
    <2>2. <<>> \in Seq(Bytes)
      OBVIOUS
    <2>3. <<>> \o <<>> = <<>>
      BY <2>2, ConcatEmptySeq
    <2> QED BY <2>1, <2>3 DEF Left
  <1>6. length = None => received = Whole
    <2> SUFFICES ASSUME length = None PROVE received = Whole
      OBVIOUS
    <2>1. received \o <<>> = Whole
      BY <1>2, <1>4, <1>5
    <2> QED BY <1>2, <2>1, ConcatEmptySeq
  <1>7. CASE Kind(Text) = "raw"
    <2>1. length = None /\ Promise = Whole
      BY <1>1, <1>7 DEF Chosen, Promise, Whole
    <2> QED BY <1>6, <2>1
  <1>8. CASE Kind(Text) = "inline"
    <2> DEFINE n == Inline[Text[1]]
    <2>1. /\ begin = None /\ length = IF n = 0 THEN None ELSE n
          /\ n \in Nat /\ Whole = Body
          /\ Promise = IF n = 0 THEN Body ELSE SubSeq(Body, 1, Smaller(n, Len(Body)))
      BY <1>1, <1>8, ExchangeConstants DEF Chosen, Whole, Promise, Kind
    <2> HIDE DEF n
    <2>2. CASE n = 0
      BY <1>6, <2>1, <2>2
    <2>3. CASE n # 0
      <3>1. Len(received) = n
        BY <2>1, <2>3, Sizes
      <3>2. Begins(received, Body)
        BY <1>2, <2>1, BeginsConcat
      <3>3. Len(Promise) <= n
        <4>1. n \in Nat /\ Len(received) <= n
          BY <2>1, <3>1
        <4>2. Len(SubSeq(Body, 1, Smaller(n, Len(Body)))) <= n
          BY <1>2, <3>2, <4>1, BeginsCut
        <4> QED BY <2>1, <2>3, <4>2
      <3> QED BY <1>2, <1>3, <3>1, <3>3, BeginsWhole
    <2> QED BY <2>2, <2>3
  <1>9. CASE Kind(Text) = "file"
    <2> DEFINE range == Ranges[Text[1]]
               file == exchange.file
               r == Len(received)
               last == LastByte(range)
    <2>1. /\ begin = range.offset /\ length = FileLength(range)
          /\ Promise = IF file = None THEN <<>> ELSE Part(file, range)
      BY <1>1, <1>9 DEF Chosen, Promise
    <2>2. /\ range.offset \in 0 .. UintMod - 1 /\ range.limit \in 0 .. UintMod - 2
          /\ begin \in Nat /\ begin # None
      BY <1>9, <2>1, ExchangeConstants, Sizes DEF Kind
    <2>3. CASE file = None
      <3>1. Promise = <<>> /\ Len(<<>>) <= Len(received)
        BY <1>2, <2>1, <2>3, EmptySeq
      <3> QED BY <1>2, <1>3, <3>1, BeginsWhole
    <2>4. CASE file # None
      <3>1. /\ file \in Seq(Bytes) /\ last \in 0 .. UintMod - 1
            /\ last = UintMod - 1 => Len(file) = 0
            /\ length \in Nat
            /\ length = IF begin > last + 1 THEN UintMod - (begin - last - 1)
                        ELSE IF last + 1 - begin = UintMod THEN 0
                        ELSE last + 1 - begin
        BY <1>1, <2>1, <2>2, <2>4, RangeSizes
      <3>2. r = length /\ r \in Nat /\ begin < UintMod /\ UintMod \in Nat /\ last \in Nat
        <4>1. length # None /\ UintMod \in Nat
          BY <3>1, Sizes
        <4>2. r = length
          BY <4>1
        <4>3. begin < UintMod
          BY <2>1, <2>2, <4>1
        <4>4. last \in Nat /\ r \in Nat
          BY <1>2, <3>1, <4>1
        <4> QED BY <4>1, <4>2, <4>3, <4>4
      <3>3. Len(file) \in Nat /\ Len(file) < UintMod
        BY <1>1, <2>4, <3>1, OutputTyped
      <3>4. r > 0 => begin + r <= Len(file)
        <4>1. r > 0 => received # <<>>
          BY EmptySeq
        <4> QED BY <1>1, <2>2, <4>1 DEF Decided
      <3>5. ~(begin > last + 1)
        <4> HIDE DEF last, r, file
        <4> QED BY <2>2, <3>1, <3>2, <3>3, <3>4
      <3> DEFINE n == Smaller(last + 1, Len(file))
      <3>6. Promise = SubSeq(file, begin + 1, n)
        BY <2>1, <2>4, <3>5 DEF Part
      <3>7. n \in Nat /\ n <= Len(file) /\ n <= last + 1
        <4> HIDE DEF last, file
        <4> QED BY <3>2, <3>3 DEF Smaller
      <3>8. n - begin <= r
        <4> HIDE DEF last, r, file, n
        <4> QED BY <2>2, <3>1, <3>2, <3>3, <3>5, <3>7
      <3> HIDE DEF n
      <3>9. Len(Promise) <= r
        <4>1. \A i \in begin + 1 .. n : file[i] \in Bytes
          BY <2>2, <3>1, <3>3, <3>7, SMTT(30)
        <4>2. Len(SubSeq(file, begin + 1, n)) = IF begin + 1 <= n THEN n - (begin + 1) + 1 ELSE 0
          BY <2>2, <3>7, <4>1, SubSeqProperties
        <4> HIDE DEF r, file
        <4> QED BY <2>2, <3>2, <3>6, <3>7, <3>8, <4>2
      <3> QED BY <1>2, <1>3, <3>9, BeginsWhole
    <2> QED BY <2>3, <2>4
  <1> QED BY <1>7, <1>8, <1>9, KindOf
-----------------------------------------------------------------------------
(* The refinement.                                                          *)

Outcome == IF garbled THEN "garbled"
           ELSE IF pc = "done" /\ length \in {None, Len(received)} THEN "complete"
           ELSE IF Ended THEN "broken" ELSE "open"

Begun == pc \in {"relay", "done", "broken"} => Begins(received, Promise)

LEMMA FullBegun == Full => Begun
  BY Within DEF Begun

(* The invariant: everything is as Full says until the search runs over the *)
(* end of its chunk, and that only unsteady output makes it do.             *)
Straight == garbled \/ (Full /\ Remembers)

LEMMA SteadyStays == [Next]_vars => exchange' = exchange /\ Steady' = Steady
  <1> SUFFICES ASSUME [Next]_vars PROVE exchange' = exchange /\ Steady' = Steady
    OBVIOUS
  <1>1. exchange' = exchange
    BY DEF Next, Handler, Module, WriteInput, ModuleReads, ModulePrints, ModuleEnds, vars
  <1> QED BY <1>1 DEF Steady, Newlines, Metadata

LEMMA StepStraight == Small /\ Straight /\ [Next]_vars => Straight'
  <1> SUFFICES ASSUME Small, Straight, [Next]_vars, ~garbled' PROVE (Full /\ Remembers)'
    BY DEF Straight
  <1>1. garbled' = FALSE
    BY StepSmall DEF Small, Undecided
  <1>2. Full /\ Remembers
    BY GarbledStays DEF Straight
  <1> QED BY <1>1, <1>2, StepFull, StepRemembers

LEMMA StepGarbles == Straight /\ Garbles /\ [Next]_vars => Garbles'
  <1> SUFFICES ASSUME Straight, Garbles, [Next]_vars, garbled' PROVE ~Steady'
    BY DEF Garbles
  <1>1. CASE garbled
    BY <1>1, SteadyStays DEF Garbles
  <1>2. CASE ~garbled
    <2>1. ReadMetadata /\ UNCHANGED <<exchange, toWrite, inPipe, moduleVars>>
      BY <1>2 DEF Next, Handler, Module, WriteInput, Relay, SigPipe, InputWritten, MetadataEnds,
                 Parse, RelayEnds, SendFile, Break, ModuleReads, ModulePrints, ModuleEnds,
                 handlerVars, vars
    <2> QED BY <1>2, <2>1, OverrunUnsteady, SteadyStays DEF Straight
  <1> QED BY <1>1, <1>2

(* Garbles: the search for the blank line runs over the end of its chunk    *)
(* only where the output has several lines before its blank line, or one    *)
(* as long as the buffer; a module that answers as the documentation says   *)
(* never meets it.                                                          *)
THEOREM OnlyUnsteadyGarbled == Spec => []Garbles
  <1>1. Init => Small /\ Straight /\ Garbles
    BY InitSmall, InitFull, InitRemembers DEF Straight, Garbles, Init
  <1> QED BY <1>1, StepSmall, StepStraight, StepGarbles, PTL DEF Spec

LEMMA InitAnswer == Init => Answer!Init
  BY DEF Init, Answer!Init, Ended

LEMMA StepAnswer ==
  ASSUME Full, Inv', Begun', [Next]_vars, garbled = FALSE, garbled' = FALSE
  PROVE  [Answer!Next]_(Answer!vars)
  <1>1. Promise' = Promise /\ Steady' = Steady
    BY SteadyStays, ChosenStays
  <1>2. ASSUME UNCHANGED <<received, Outcome>> PROVE [Answer!Next]_(Answer!vars)
    BY <1>1, <1>2 DEF Answer!vars, Outcome
  <1>3. ASSUME UNCHANGED received, Outcome = "open", Outcome' = "broken"
        PROVE  [Answer!Next]_(Answer!vars)
    BY <1>1, <1>3 DEF Answer!Next, Answer!Break, Outcome
  <1>4. CASE ~Ended /\ ~Ended' /\ UNCHANGED received
    BY <1>2, <1>4 DEF Outcome, Ended
  <1>5. CASE UNCHANGED <<pc, length, received>>
    BY <1>2, <1>5 DEF Outcome, Ended
  <1>6. CASE WriteInput \/ ModuleReads \/ ModulePrints \/ ModuleEnds \/ UNCHANGED vars
    BY <1>5, <1>6 DEF WriteInput, ModuleReads, ModulePrints, ModuleEnds, handlerVars, vars
  <1>7. CASE ReadMetadata \/ InputWritten \/ MetadataEnds \/ Parse
    BY <1>4, <1>7 DEF ReadMetadata, Keep, Cut, Overrun, InputWritten, MetadataEnds, Parse, Ended
  <1>8. CASE SigPipe \/ Break
    BY <1>3, <1>8 DEF SigPipe, Break, Ended, Outcome
  <1>9. CASE RelayEnds
    <2>1. /\ pc = "relay" /\ pc' = "done" /\ UNCHANGED <<length, received>>
      BY <1>9 DEF RelayEnds
    <2>2. Outcome = "open"
      BY <2>1 DEF Outcome, Ended
    <2>3. CASE length \in {None, Len(received)}
      <3>1. received = Promise
        BY <1>9, <2>3, Completes
      <3>2. Outcome' = "complete"
        BY <2>1, <2>3 DEF Outcome
      <3> QED BY <1>1, <2>1, <2>2, <3>1, <3>2 DEF Answer!Next, Answer!Complete, Outcome
    <2>4. CASE length \notin {None, Len(received)}
      <3>1. Outcome' = "broken"
        BY <2>1, <2>4 DEF Outcome, Ended
      <3> QED BY <1>3, <2>1, <2>2, <3>1
    <2> QED BY <2>3, <2>4
  <1>10. ASSUME pc = "relay", pc' = "relay",
                received \in Seq(Bytes), received' \in Seq(Bytes),
                Len(received) < Len(received')
         PROVE  [Answer!Next]_(Answer!vars)
    <2>1. Begins(received', Promise)
      <3>1. Begins(received', Promise')
        BY <1>10 DEF Begun, Begins
      <3> QED BY <1>1, <3>1
    <2>2. Outcome = "open" /\ Outcome' = "open"
      BY <1>10 DEF Outcome, Ended
    <2>3. Len(received') \in Len(received) + 1 .. Len(Promise)
      BY <1>10, <2>1 DEF Begins
    <2> QED BY <1>1, <2>1, <2>2, <2>3 DEF Answer!Next, Answer!Receive, Begins, Outcome
  <1>11. ASSUME pc = "relay", pc' = "relay", NEW part \in Seq(Bytes),
                received' = received \o part
         PROVE  [Answer!Next]_(Answer!vars)
    <2>1. received \in Seq(Bytes) /\ received' \in Seq(Bytes)
      BY DEF Full, Inv, Stored
    <2>2. Len(received') = Len(received) + Len(part) /\ Len(received) \in Nat
      BY <1>11, <2>1, ConcatProperties
    <2>3. CASE part = <<>>
      <3>1. UNCHANGED received
        BY <1>11, <2>1, <2>3, ConcatEmptySeq
      <3> QED BY <1>4, <1>11, <3>1 DEF Ended
    <2>4. CASE part # <<>>
      <3>1. Len(received) < Len(received')
        BY <2>2, <2>4, EmptySeq
      <3> QED BY <1>10, <1>11, <2>1, <3>1
    <2> QED BY <2>3, <2>4
  <1>12. CASE Relay
    <2>1. PICK chunk \in Chunks(Wanted) : received' = received \o chunk /\ Take(chunk)
      BY <1>12 DEF Relay
    <2>2. Wanted \in Nat
      BY <1>12, Sizes, SMTT(30) DEF Full, Inv, Stored, Relay, Wanted, Smaller, Satisfied
    <2>3. chunk \in Seq(Bytes)
      BY <2>1, <2>2, ChunkSplits DEF Full, Inv
    <2>4. pc = "relay" /\ pc' = "relay"
      BY <1>12 DEF Relay
    <2> QED BY <1>11, <2>1, <2>3, <2>4
  <1>13. CASE SendFile
    <2>1. pc = "relay" /\ UNCHANGED length
      BY <1>13 DEF SendFile
    <2>2. CASE UNCHANGED received
      <3>1. CASE pc' = pc
        BY <1>5, <2>1, <2>2, <3>1
      <3>2. CASE pc' = "done"
        <4>1. length \notin {None, Len(received)}
          <5>1. begin # None /\ ~Satisfied
            BY <1>13 DEF SendFile
          <5>2. length # None /\ length \in Nat /\ Len(received) \in Nat
            BY <5>1 DEF Full, Inv, Stored, TypeOK
          <5> QED BY <5>1, <5>2 DEF Satisfied
        <4>2. Outcome = "open" /\ Outcome' = "broken"
          BY <2>1, <2>2, <3>2, <4>1 DEF Outcome, Ended
        <4> QED BY <1>3, <2>2, <4>2
      <3> QED BY <1>13, <3>1, <3>2 DEF SendFile
    <2>3. CASE ~ UNCHANGED received
      <3>1. pc' = pc /\ \E part \in Seq(Bytes) : received' = received \o part
        BY <1>13, <2>3, SendFileHas
      <3> QED BY <1>11, <2>1, <3>1
    <2> QED BY <2>2, <2>3
  <1> QED BY <1>6, <1>7, <1>8, <1>9, <1>12, <1>13 DEF Next, Handler, Module

(* Once something was garbled, nothing more is promised.                    *)
LEMMA StepAstray ==
  ASSUME Small, Straight, Garbles', [Next]_vars, garbled'
  PROVE  [Answer!Next]_(Answer!vars)
  <1>1. Promise' = Promise /\ Steady' = Steady
    BY SteadyStays, ChosenStays
  <1>2. Outcome' = "garbled"
    BY DEF Outcome
  <1>3. CASE garbled
    <2>1. Outcome = "garbled"
      BY <1>3 DEF Outcome
    <2> QED BY <1>1, <1>2, <2>1 DEF Answer!Next, Answer!Stray, Outcome
  <1>4. CASE ~garbled
    <2>1. ReadMetadata
      BY <1>4 DEF Next, Handler, Module, WriteInput, Relay, SigPipe, InputWritten, MetadataEnds,
                 Parse, RelayEnds, SendFile, Break, ModuleReads, ModulePrints, ModuleEnds,
                 handlerVars, vars
    <2>2. pc = "metadata" /\ received = <<>> /\ received' = received
      BY <2>1 DEF ReadMetadata, Small, Undecided
    <2>3. Outcome = "open"
      BY <1>4, <2>2 DEF Outcome, Ended
    <2>4. ~Steady
      BY <1>1 DEF Garbles
    <2> QED BY <1>1, <1>2, <2>2, <2>3, <2>4 DEF Answer!Next, Answer!Garble, Outcome
  <1> QED BY <1>3, <1>4

(* Delivers: the exchange implements ModuleAnswer.  Whatever pieces the     *)
(* output arrives in, whatever sizes the buffers have and whenever the      *)
(* client or the module breaks off, the client has a beginning of what the  *)
(* output stands for, and the whole of it when it has the length that was   *)
(* announced; only output that is not steady may be garbled instead.        *)
THEOREM AnswerDelivered == Spec => Delivers
  <1>1. Init => Small /\ Straight /\ Garbles
    BY InitSmall, InitFull, InitRemembers DEF Straight, Garbles, Init
  <1>2. Small /\ Straight /\ Garbles /\ [Next]_vars => (Small /\ Straight /\ Garbles)'
    BY StepSmall, StepStraight, StepGarbles
  <1>3. Small /\ Straight /\ (Small /\ Straight /\ Garbles)' /\ [Next]_vars
          => [Answer!Next]_(Answer!vars)
    <2> SUFFICES ASSUME Small, Straight, (Small /\ Straight /\ Garbles)', [Next]_vars
                 PROVE  [Answer!Next]_(Answer!vars)
      OBVIOUS
    <2>1. CASE garbled'
      BY <2>1, StepAstray
    <2>2. CASE ~garbled'
      <3>1. garbled = FALSE /\ garbled' = FALSE /\ Full /\ Full'
        BY <2>2, GarbledStays DEF Straight, Small, Undecided
      <3>2. Inv' /\ Begun'
        <4>1. Full' => Begun'
          BY FullBegun, PTL
        <4> QED BY <3>1, <4>1 DEF Full
      <3> QED BY <3>1, <3>2, StepAnswer
    <2> QED BY <2>1, <2>2
  <1> QED BY <1>1, <1>2, <1>3, InitAnswer, PTL DEF Spec, Delivers, Answer!Spec
-----------------------------------------------------------------------------
(***************************************************************************)
(* An answer shorter than announced is the fault of the module.             *)
(***************************************************************************)

Fault ==
  \/ Kind(Text) = "inline" /\ Len(Body) < length
  \/ /\ Kind(Text) = "file"
     /\ \/ exchange.file = None
        \/ LastByte(Ranges[Text[1]]) >= Len(exchange.file)
        \/ Ranges[Text[1]].offset > LastByte(Ranges[Text[1]]) + 1

(* The output has ended before as many bytes were relayed as announced.     *)
LEMMA RelayEndsShort ==
  ASSUME Full, RelayEnds, length \notin {None, Len(received)}
  PROVE  Fault
  <1>1. /\ Stored /\ TypeOK /\ Decided /\ Chosen(begin, length)
        /\ Satisfied \/ (begin = None /\ AtEnd)
        /\ pc = "relay"
    BY DEF Full, Inv, Decided, RelayEnds
  <1>2. /\ Body \in Seq(Bytes) /\ received \in Seq(Bytes) /\ Len(received) \in Nat
        /\ begin = None => received \o Left = Whole
    BY <1>1, Relayed
  <1>3. length \in Nat /\ Len(received) < length
    BY <1>1, <1>2 DEF Stored, TypeOK
  <1>4. begin = None /\ AtEnd
    BY <1>1, <1>2, <1>3 DEF Satisfied
  <1>5. Left = <<>>
    <2>1. unread = <<>> /\ outPipe = <<>> /\ rest = <<>>
      BY <1>1, <1>4 DEF AtEnd, Decided, Ended
    <2>2. <<>> \in Seq(Bytes)
      OBVIOUS
    <2>3. <<>> \o <<>> = <<>>
      BY <2>2, ConcatEmptySeq
    <2> QED BY <2>1, <2>3 DEF Left
  <1>6. received = Whole
    <2>1. received \o <<>> = Whole
      BY <1>2, <1>4, <1>5
    <2> QED BY <1>2, <2>1, ConcatEmptySeq
  <1>7. Kind(Text) = "inline"
    <2>1. Kind(Text) = "file" => Ranges[Text[1]].offset \in Nat
      BY ExchangeConstants DEF Kind
    <2> QED BY <1>1, <1>3, <1>4, <2>1, Sizes DEF Chosen
  <1> QED BY <1>3, <1>6, <1>7 DEF Whole, Fault

(* The file has ended before as many bytes were sent as announced.          *)
LEMMA SendFileShort ==
  ASSUME Full, SendFile, pc' = "done"
  PROVE  Fault
  <1> DEFINE range == Ranges[Text[1]]
             file == exchange.file
             r == Len(received)
             last == LastByte(range)
  <1>1. /\ Stored /\ TypeOK /\ Decided /\ Chosen(begin, length)
        /\ begin # None /\ ~Satisfied /\ ~FileHas(Wanted)
    BY DEF Full, Inv, Decided, SendFile
  <1>2. Kind(Text) = "file" /\ begin = range.offset /\ length = FileLength(range)
    BY <1>1 DEF Chosen
  <1>3. /\ range.offset \in 0 .. UintMod - 1 /\ range.limit \in 0 .. UintMod - 2
    BY <1>2, ExchangeConstants DEF Kind
  <1>4. begin \in Nat /\ length \in Nat /\ r \in Nat /\ length > r
    BY <1>1 DEF Stored, TypeOK, Satisfied
  <1>5. Wanted \in Nat /\ Wanted <= length - r
    <2>1. length # None
      BY <1>1 DEF TypeOK
    <2> HIDE DEF r
    <2>2. Wanted = Smaller(BufferSize, length - r)
      BY <2>1 DEF Wanted, r
    <2> QED BY <1>4, <2>2, Sizes DEF Smaller
  <1>6. CASE file # None
    <2>1. /\ file \in Seq(Bytes) /\ last \in 0 .. UintMod - 1
          /\ length = IF begin > last + 1 THEN UintMod - (begin - last - 1)
                      ELSE IF last + 1 - begin = UintMod THEN 0
                      ELSE last + 1 - begin
      BY <1>1, <1>2, <1>3, <1>6, RangeSizes
    <2>2. begin + r + Wanted > Len(file) /\ Len(file) \in Nat
      BY <1>1, <1>4, <1>5, <1>6, <2>1 DEF FileHas
    <2>3. last \in Nat /\ UintMod \in Nat
      BY <2>1, Sizes
    <2>4. begin > last + 1 \/ last >= Len(file)
      <3> HIDE DEF last, r, file
      <3> QED BY <1>4, <1>5, <2>1, <2>2, <2>3
    <2> QED BY <1>2, <2>4 DEF Fault
  <1>7. CASE file = None
    BY <1>2, <1>7 DEF Fault
  <1> QED BY <1>6, <1>7

(* Nothing changes about an answer that is done.                            *)
LEMMA FaultStep ==
  ASSUME Full, [Next]_vars, Honoured, garbled = FALSE, garbled' = FALSE
  PROVE  Honoured'
  <1>1. Promise' = Promise /\ Text' = Text /\ Body' = Body /\ exchange' = exchange
    <2>1. exchange' = exchange
      BY DEF Next, Handler, Module, WriteInput, ModuleReads, ModulePrints, ModuleEnds, vars
    <2> QED BY <2>1 DEF Promise, Text, Body, Metadata, Part, LastByte, FileSize
  <1>2. \A range : LastByte(range)' = LastByte(range)
    BY <1>1 DEF LastByte, FileSize
  <1>3. ASSUME Fault, UNCHANGED length PROVE Honoured'
    BY <1>1, <1>2, <1>3 DEF Fault, Honoured, LastByte, FileSize
  <1>4. CASE UNCHANGED <<pc, length, received>>
    BY <1>1, <1>2, <1>4 DEF Honoured, LastByte, FileSize
  <1>5. CASE pc' # "done"
    BY <1>5 DEF Honoured
  <1>6. CASE WriteInput \/ ModuleReads \/ ModulePrints \/ ModuleEnds \/ UNCHANGED vars
    BY <1>4, <1>6 DEF WriteInput, ModuleReads, ModulePrints, ModuleEnds, handlerVars, vars
  <1>7. CASE ReadMetadata \/ InputWritten \/ MetadataEnds \/ Parse \/ SigPipe \/ Break \/ Relay
    BY <1>5, <1>7 DEF ReadMetadata, Keep, Cut, Overrun, InputWritten, MetadataEnds, Parse,
                  SigPipe, Break, Relay
  <1>8. CASE RelayEnds
    <2>1. UNCHANGED <<length, received>>
      BY <1>8 DEF RelayEnds
    <2>2. CASE length \in {None, Len(received)}
      BY <2>1, <2>2 DEF Honoured
    <2>3. CASE length \notin {None, Len(received)}
      BY <1>3, <1>8, <2>1, <2>3, RelayEndsShort
    <2> QED BY <2>2, <2>3
  <1>9. CASE SendFile
    <2>1. UNCHANGED length
      BY <1>9 DEF SendFile
    <2> QED BY <1>3, <1>5, <1>9, <2>1, SendFileShort
  <1> QED BY <1>6, <1>7, <1>8, <1>9 DEF Next, Handler, Module

(* Honoured: the client gets less than the Content-Length says only when    *)
(* the module printed less than it announced or named bytes that its file   *)
(* does not have, never because of how the handler reads or the pieces in   *)
(* which the output arrives; unless the metadata was garbled.               *)
THEOREM LengthHonoured == Spec => []Honoured
  <1>1. Init => Small /\ Straight /\ Honoured
    BY InitSmall, InitFull, InitRemembers DEF Straight, Init, Honoured
  <1>2. Small /\ Straight /\ Honoured /\ [Next]_vars => (Small /\ Straight /\ Honoured)'
    <2> SUFFICES ASSUME Small, Straight, Honoured, [Next]_vars
                 PROVE  Small' /\ Straight' /\ Honoured'
      OBVIOUS
    <2>1. Small' /\ Straight'
      BY StepSmall, StepStraight
    <2>2. CASE garbled'
      BY <2>1, <2>2 DEF Honoured
    <2>3. CASE ~garbled'
      <3>1. garbled = FALSE /\ garbled' = FALSE /\ Full
        BY <2>1, <2>3, GarbledStays DEF Straight, Small, Undecided
      <3> QED BY <2>1, <3>1, FaultStep
    <2> QED BY <2>2, <2>3
  <1> QED BY <1>1, <1>2, PTL DEF Spec

=============================================================================
