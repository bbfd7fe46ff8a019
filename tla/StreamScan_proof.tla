-------------------------- MODULE StreamScan_proof --------------------------
(***************************************************************************)
(* No byte of a stream is lost, doubled or moved by readUntilMatch and the *)
(* pushing back, for every size of the buffers, every stream, every key    *)
(* and every way in which the bytes arrive.                                *)
(***************************************************************************)
EXTENDS StreamScan, SequenceTheorems, WellFoundedInduction, TLAPS

(* What the sequences of the state consist of, and that what was pushed    *)
(* back has room.                                                           *)
Stored ==
  /\ {wire, unread, sent, given} \subseteq Seq(Bytes)
  /\ pc # "corrupt" => data \in Seq(Bytes)
  /\ Len(unread) <= MaxUnread
  /\ maxLen \in Nat

Inv == Stored /\ Conserved

(* The sizes of the buffers, for the leaves that only need numbers.         *)
LEMMA Sizes ==
  /\ BufferSize \in Nat \ {0} /\ MaxUnread \in Nat /\ BufferSize <= MaxUnread
  /\ Bytes \subseteq Nat /\ Streams \subseteq Seq(Bytes)
  /\ Matches \subseteq Seq(Bytes \ {0}) \ {<<>>} /\ Limits \subseteq Nat
  BY ScanConstants

(* A sequence is its first n elements and the others.                       *)
LEMMA Split ==
  ASSUME NEW s \in Seq(Bytes), NEW n \in 0 .. Len(s)
  PROVE  /\ SubSeq(s, 1, n) \in Seq(Bytes) /\ Len(SubSeq(s, 1, n)) = n
         /\ Drop(s, n) \in Seq(Bytes) /\ Len(Drop(s, n)) = Len(s) - n
         /\ SubSeq(s, 1, n) \o Drop(s, n) = s
  <1>1. Len(s) \in Nat /\ \A i \in 1 .. Len(s) : s[i] \in Bytes
    OBVIOUS
  <1>2. SubSeq(s, 1, n) \in Seq(Bytes) /\ Len(SubSeq(s, 1, n)) = n
    BY <1>1, SubSeqProperties
  <1>3. Drop(s, n) \in Seq(Bytes) /\ Len(Drop(s, n)) = Len(s) - n
    BY <1>1, SubSeqProperties DEF Drop
  <1>4. SubSeq(s, 1, n) \o Drop(s, n) = SubSeq(s, 1, Len(s))
    <2>1. /\ 1 \in 1 .. Len(s) + 1 /\ n \in (1 - 1) .. Len(s)
          /\ Len(s) \in n .. Len(s)
      BY <1>1
    <2>2. SubSeq(s, 1, n) \o SubSeq(s, n + 1, Len(s)) = SubSeq(s, 1, Len(s))
      BY <2>1, ConcatAdjacentSubSeq, Zenon
    <2> QED BY <2>2 DEF Drop
  <1>5. SubSeq(s, 1, Len(s)) = s
    BY SubSeqFull
  <1> QED BY <1>2, <1>3, <1>4, <1>5

(* Concatenating byte sequences is associative.                             *)
LEMMA Associative ==
  \A s, t, u \in Seq(Bytes) :
    /\ s \o t \in Seq(Bytes)
    /\ (s \o t) \o u = s \o (t \o u)
  BY ConcatAssociative, ConcatProperties

(* A chunk comes off the front of what was pushed back and then of the     *)
(* wire, and there is room to push all of it back.                          *)
LEMMA ChunkSplits ==
  ASSUME Stored, NEW n \in Nat, n <= BufferSize, NEW chunk \in Chunks(n)
  PROVE  /\ chunk \in Seq(Bytes) /\ Len(chunk) <= n /\ Len(chunk) <= BufferSize
         /\ PushedAfter(chunk) \in Seq(Bytes) /\ WireAfter(chunk) \in Seq(Bytes)
         /\ Len(PushedAfter(chunk)) + Len(chunk) <= MaxUnread
         /\ chunk \o (PushedAfter(chunk) \o WireAfter(chunk)) = unread \o wire
  <1>0. unread \in Seq(Bytes) /\ wire \in Seq(Bytes) /\ Len(unread) <= MaxUnread
    BY DEF Stored
  <1>1. CASE unread # <<>>
    <2>1. chunk = SubSeq(unread, 1, Least(n, Len(unread)))
      BY <1>1 DEF Chunks
    <2>2. PICK k \in 0 .. Len(unread) : k <= n /\ chunk = SubSeq(unread, 1, k)
      BY <1>0, <2>1 DEF Least
    <2> DEFINE rest == Drop(unread, k)
    <2>3. /\ chunk \in Seq(Bytes) /\ Len(chunk) = k
          /\ rest \in Seq(Bytes) /\ Len(rest) = Len(unread) - k
          /\ chunk \o rest = unread
      BY <1>0, <2>2, Split
    <2>4. PushedAfter(chunk) = rest /\ WireAfter(chunk) = wire
      BY <1>1, <2>3 DEF PushedAfter, WireAfter
    <2> HIDE DEF rest
    <2>5. (chunk \o rest) \o wire = chunk \o (rest \o wire)
      <3>1. chunk \in Seq(Bytes) /\ rest \in Seq(Bytes) /\ wire \in Seq(Bytes)
        BY <1>0, <2>3
      <3> QED BY <3>1, Associative, SMTT(30)
    <2>6. Len(rest) + Len(chunk) <= MaxUnread /\ Len(chunk) <= n /\ Len(chunk) <= BufferSize
      BY <1>0, <2>2, <2>3, Sizes
    <2>7. chunk \o (rest \o wire) = unread \o wire
      BY <2>3, <2>5
    <2> QED BY <1>0, <2>3, <2>4, <2>6, <2>7
  <1>2. CASE unread = <<>>
    <2>1. PICK k \in 1 .. Least(n, Len(wire)) : chunk = SubSeq(wire, 1, k)
      BY <1>2 DEF Chunks
    <2>2. k \in 0 .. Len(wire) /\ k <= n
      BY <1>0, <2>1 DEF Least
    <2>3. /\ chunk \in Seq(Bytes) /\ Len(chunk) = k
          /\ Drop(wire, k) \in Seq(Bytes)
          /\ chunk \o Drop(wire, k) = wire
      BY <1>0, <2>1, <2>2, Split
    <2>4. PushedAfter(chunk) = <<>> /\ WireAfter(chunk) = Drop(wire, k)
      BY <1>2, <2>3 DEF PushedAfter, WireAfter
    <2>5. <<>> \o Drop(wire, k) = Drop(wire, k) /\ <<>> \o wire = wire
      BY <1>0, <2>3, ConcatEmptySeq
    <2>6. Len(<<>>) + Len(chunk) <= MaxUnread /\ Len(chunk) <= n /\ Len(chunk) <= BufferSize
      BY <2>2, <2>3, Sizes, EmptySeq
    <2>7. <<>> \in Seq(Bytes)
      OBVIOUS
    <2>8. chunk \o (<<>> \o Drop(wire, k)) = unread \o wire
      BY <1>2, <2>3, <2>5
    <2> QED BY <2>3, <2>4, <2>6, <2>7, <2>8
  <1> QED BY <1>1, <1>2

(* The part of a chunk behind the match fits when it is pushed back.        *)
LEMMA PushBackFits ==
  ASSUME NEW pushed \in Seq(Bytes), NEW bytes \in Seq(Bytes),
         Len(pushed) + Len(bytes) <= MaxUnread
  PROVE  PushBack(pushed, bytes) = bytes \o pushed
  <1>1. Least(Len(bytes), MaxUnread - Len(pushed)) = Len(bytes)
    BY Sizes DEF Least
  <1>2. SubSeq(bytes, 1, Len(bytes)) = bytes
    BY SubSeqFull
  <1> QED BY <1>1, <1>2 DEF PushBack
(* Regrouping needs nothing but associativity: where it is all that is     *)
(* asked, sequences and their concatenation are left unexpanded.            *)
Strings == Seq(Bytes)
Cat(s, t) == s \o t

LEMMA CatAssociative ==
  \A s, t, u \in Strings :
    /\ Cat(s, t) \in Strings
    /\ Cat(Cat(s, t), u) = Cat(s, Cat(t, u))
  BY Associative DEF Strings, Cat

(* Four sequences in a row, grouped from the left and from the right.      *)
LEMMA Regroup ==
  \A s, t, u, v \in Strings :
    Cat(Cat(Cat(s, t), u), v) = Cat(s, Cat(t, Cat(u, v)))
<1> TAKE s, t, u, v \in Strings
<1>1. Cat(Cat(Cat(s, t), u), v) = Cat(Cat(s, t), Cat(u, v))
  BY CatAssociative
<1>2. Cat(Cat(s, t), Cat(u, v)) = Cat(s, Cat(t, Cat(u, v)))
  BY CatAssociative
<1> QED BY <1>1, <1>2

(* A chunk that is kept moves from ahead of the reader to what was read.   *)
LEMMA KeepMoves ==
  \A g, d, c, p, a \in Strings :
    Cat(Cat(Cat(g, Cat(d, c)), p), a) = Cat(g, Cat(d, Cat(c, Cat(p, a))))
<1> TAKE g, d, c, p, a \in Strings
<1>1. Cat(d, c) \in Strings /\ Cat(p, a) \in Strings
  BY CatAssociative
<1>2. Cat(Cat(Cat(g, Cat(d, c)), p), a) = Cat(g, Cat(Cat(d, c), Cat(p, a)))
  BY <1>1, Regroup
<1>3. Cat(Cat(d, c), Cat(p, a)) = Cat(d, Cat(c, Cat(p, a)))
  BY <1>1, CatAssociative
<1> QED BY <1>2, <1>3

(* A chunk that is cut: its back goes in front of what was pushed back.    *)
LEMMA BackMoves ==
  \A b, a, p, h \in Strings :
    Cat(b, Cat(Cat(a, p), h)) = Cat(Cat(b, a), Cat(p, h))
<1> TAKE b, a, p, h \in Strings
<1>1. Cat(p, h) \in Strings
  BY CatAssociative
<1>2. Cat(Cat(a, p), h) = Cat(a, Cat(p, h))
  BY CatAssociative
<1>3. Cat(b, Cat(a, Cat(p, h))) = Cat(Cat(b, a), Cat(p, h))
  BY <1>1, CatAssociative
<1> QED BY <1>2, <1>3

(* Initially everything is still to come.                                   *)
LEMMA InitInv == Init => Inv
  <1> SUFFICES ASSUME Init PROVE Inv
    OBVIOUS
  <1>1. sent \in Seq(Bytes) /\ wire = sent
    BY Sizes DEF Init
  <1>2. <<>> \o sent = sent /\ <<>> \o <<>> = <<>>
    BY <1>1, ConcatEmptySeq
  <1>3. given \o data \o unread \o wire = sent
    BY <1>1, <1>2 DEF Init
  <1>4. Stored
    BY <1>1, Sizes DEF Init, Stored
  <1> QED BY <1>3, <1>4 DEF Inv, Conserved

(* A call takes over what the one before it returned.                       *)
LEMMA CallStep ==
  ASSUME Inv, NEW key \in Matches, NEW limit \in Limits, Call(key, limit)
  PROVE  Inv'
  <1>1. /\ {wire, unread, sent, given, data} \subseteq Seq(Bytes)
        /\ Len(unread) <= MaxUnread
        /\ given \o data \o unread \o wire = sent
    BY DEF Inv, Stored, Conserved, Call
  <1>2. given \o data \in Seq(Bytes) /\ (given \o data) \o <<>> = given \o data
    BY <1>1, Associative, ConcatEmptySeq
  <1>3. Stored'
    BY <1>1, <1>2, Sizes DEF Call, Stored
  <1>4. (given \o data \o unread \o wire)' = sent'
    BY <1>1, <1>2 DEF Call
  <1> QED BY <1>3, <1>4 DEF Inv, Conserved

(* An iteration keeps the chunk, or cuts it and pushes the rest back: what  *)
(* was read and what is still to come remain the same together, and no more *)
(* is read than the limit allows.                                           *)
LEMMA IterateMoves ==
  ASSUME Stored, Iterate
  PROVE  /\ Stored' /\ UNCHANGED <<match, maxLen, sent, given>>
         /\ pc' # "corrupt" =>
              /\ data' \o (unread' \o wire') = data \o (unread \o wire)
              /\ Len(data') <= maxLen
  <1> DEFINE n == Least(BufferSize, maxLen - Len(data))
  <1>1. /\ {wire, unread, sent, given, data} \subseteq Seq(Bytes)
        /\ Len(unread) <= MaxUnread /\ maxLen \in Nat
        /\ Stored
    BY DEF Stored, Iterate
  <1>2. n \in Nat /\ n <= BufferSize /\ n <= maxLen - Len(data) /\ Len(data) \in Nat
    <2>1. Len(data) \in Nat /\ Len(data) < maxLen
      BY <1>1 DEF Iterate
    <2> QED BY <1>1, <2>1, Sizes DEF Least
  <1>3. PICK chunk \in Chunks(n) :
          \E memory \in Memories(chunk, match) :
            LET end == Find(memory, match, Len(chunk), lastFew)
            IN  /\ buffer' = Filled(chunk)
                /\ wire' = WireAfter(chunk)
                /\ \/ end = -1 /\ Keep(chunk)
                   \/ end \in 1 .. Len(chunk) /\ Cut(chunk, end)
                   \/ end > Len(chunk) /\ Overrun(chunk, memory, end)
    BY DEF Iterate, Search
  <1> DEFINE pushed == PushedAfter(chunk)
             ahead == WireAfter(chunk)
  <1>4. /\ chunk \in Seq(Bytes)
        /\ pushed \in Seq(Bytes) /\ ahead \in Seq(Bytes)
        /\ Len(pushed) + Len(chunk) <= MaxUnread
        /\ chunk \o (pushed \o ahead) = unread \o wire
        /\ Len(data) + Len(chunk) <= maxLen
    <2> HIDE DEF n
    <2>1. /\ chunk \in Seq(Bytes) /\ Len(chunk) <= n
          /\ pushed \in Seq(Bytes) /\ ahead \in Seq(Bytes)
          /\ Len(pushed) + Len(chunk) <= MaxUnread
          /\ chunk \o (pushed \o ahead) = unread \o wire
      BY <1>1, <1>2, <1>3, ChunkSplits
    <2>2. Len(chunk) \in Nat
      BY <2>1
    <2> QED BY <1>1, <1>2, <2>1, <2>2
  <1>5. /\ wire' = ahead /\ UNCHANGED <<match, maxLen, sent, given>>
        /\ \/ Keep(chunk)
           \/ \E m \in 1 .. Len(chunk) : Cut(chunk, m)
           \/ pc' = "corrupt" /\ unread' = pushed
    BY <1>3 DEF Iterate, Overrun
  <1> HIDE DEF n, pushed, ahead
  <1>11. data \in Seq(Bytes) /\ unread \in Seq(Bytes) /\ wire \in Seq(Bytes)
    BY <1>1
  <1>12. chunk \in Seq(Bytes) /\ pushed \in Seq(Bytes) /\ ahead \in Seq(Bytes)
    BY <1>4
  <1>13. data \in Strings /\ unread \in Strings /\ wire \in Strings
    BY <1>11 DEF Strings
  <1>14. chunk \in Strings /\ pushed \in Strings /\ ahead \in Strings
    BY <1>12 DEF Strings
  <1>6. data \o (chunk \o (pushed \o ahead)) = data \o (unread \o wire)
    BY <1>4
  <1>7. Len(pushed) <= MaxUnread
    BY <1>4, Sizes
  <1>8. CASE Keep(chunk)
    <2>1. data' = data \o chunk /\ unread' = pushed
      BY <1>8 DEF Keep, pushed
    <2>2. data' \in Seq(Bytes) /\ Len(data') <= maxLen
      <3>1. data \o chunk \in Seq(Bytes) /\ Len(data \o chunk) = Len(data) + Len(chunk)
        BY <1>11, <1>12, ConcatProperties
      <3> QED BY <1>4, <2>1, <3>1
    <2>4. (data \o chunk) \o (pushed \o ahead) = data \o (chunk \o (pushed \o ahead))
      <3>1. Cat(Cat(data, chunk), Cat(pushed, ahead)) = Cat(data, Cat(chunk, Cat(pushed, ahead)))
        BY <1>13, <1>14, CatAssociative
      <3> QED BY <3>1, Zenon DEF Cat
    <2>5. Stored'
      BY <1>1, <1>4, <1>5, <1>7, <2>1, <2>2 DEF Stored
    <2> QED BY <1>5, <1>6, <2>1, <2>2, <2>4, <2>5
  <1>9. ASSUME NEW m \in 1 .. Len(chunk), Cut(chunk, m)
        PROVE  /\ Stored' /\ Len(data') <= maxLen
               /\ data' \o (unread' \o wire') = data \o (unread \o wire)
    <2> DEFINE before == SubSeq(chunk, 1, m)
               after == Drop(chunk, m)
    <2>1. /\ before \in Seq(Bytes) /\ after \in Seq(Bytes)
          /\ Len(after) <= Len(chunk) /\ Len(before) <= Len(chunk) /\ before \o after = chunk
      <3>1. m \in 0 .. Len(chunk)
        OBVIOUS
      <3> QED BY <1>4, <3>1, Split
    <2>2. data' = data \o before /\ unread' = PushBack(pushed, after)
      BY <1>9 DEF Cut, pushed
    <2> HIDE DEF before, after
    <2>3. Len(pushed) + Len(after) <= MaxUnread
      BY <1>4, <2>1, Sizes
    <2>a. before \in Seq(Bytes) /\ after \in Seq(Bytes)
      BY <2>1
    <2>b. after \o pushed \in Seq(Bytes) /\ data \o before \in Seq(Bytes)
      BY <1>11, <1>12, <2>a, Associative
    <2>4. unread' = after \o pushed /\ unread' \in Seq(Bytes)
      <3>1. PushBack(pushed, after) = after \o pushed
        BY <1>12, <2>a, <2>3, PushBackFits
      <3> QED BY <2>2, <2>b, <3>1
    <2>5. Len(unread') <= MaxUnread
      <3>1. Len(after \o pushed) = Len(after) + Len(pushed)
        BY <1>12, <2>a, ConcatProperties
      <3>2. Len(after) \in Nat /\ Len(pushed) \in Nat
        BY <1>12, <2>a
      <3> QED BY <2>3, <2>4, <3>1, <3>2
    <2>6. data' \in Seq(Bytes) /\ Len(data') <= maxLen
      <3>1. Len(data \o before) = Len(data) + Len(before)
        BY <1>11, <2>a, ConcatProperties
      <3>2. Len(data) \in Nat /\ Len(before) \in Nat /\ Len(chunk) \in Nat
        BY <1>11, <1>12, <2>a
      <3> QED BY <1>1, <1>4, <2>1, <2>2, <2>b, <3>1, <3>2
    <2>7. (data \o before) \o ((after \o pushed) \o ahead)
            = data \o ((before \o after) \o (pushed \o ahead))
      <3>1. before \in Strings /\ after \in Strings
        BY <2>a DEF Strings
      <3>2. Cat(Cat(data, before), Cat(Cat(after, pushed), ahead))
              = Cat(data, Cat(Cat(before, after), Cat(pushed, ahead)))
        <4> DEFINE rest == Cat(after, pushed)
        <4>1. rest \in Strings
          BY <1>14, <3>1, CatAssociative
        <4>2. Cat(before, Cat(rest, ahead)) = Cat(Cat(before, after), Cat(pushed, ahead))
          BY <1>14, <3>1, BackMoves
        <4>3. Cat(rest, ahead) \in Strings
          BY <1>14, <4>1, CatAssociative
        <4> HIDE DEF rest
        <4>4. Cat(Cat(data, before), Cat(rest, ahead)) = Cat(data, Cat(before, Cat(rest, ahead)))
          BY <1>13, <3>1, <4>3, CatAssociative
        <4> QED BY <4>2, <4>4 DEF rest
      <3> QED BY <3>2, Zenon DEF Cat
    <2>9. data' \o (unread' \o wire') = data \o (unread \o wire)
      BY <1>5, <1>6, <2>1, <2>2, <2>4, <2>7
    <2>10. Stored'
      BY <1>1, <1>4, <1>5, <2>4, <2>5, <2>6 DEF Stored
    <2> QED BY <2>6, <2>9, <2>10
  <1>10. CASE pc' = "corrupt" /\ unread' = pushed
    BY <1>1, <1>4, <1>5, <1>7, <1>10 DEF Stored
  <1> QED BY <1>5, <1>8, <1>9, <1>10

LEMMA IterateStep ==
  ASSUME Inv, Iterate
  PROVE  Inv'
  <1>1. /\ Stored' /\ UNCHANGED <<sent, given>>
        /\ pc' # "corrupt" => data' \o (unread' \o wire') = data \o (unread \o wire)
    BY IterateMoves DEF Inv
  <1>2. /\ {given, data, unread, wire} \subseteq Seq(Bytes)
        /\ given \o data \o unread \o wire = sent
    BY DEF Inv, Stored, Conserved, Iterate
  <1>3. ASSUME pc' # "corrupt"
        PROVE  ((given \o data') \o unread') \o wire' = sent
    <2>1. {data', unread', wire'} \subseteq Seq(Bytes)
      BY <1>1, <1>3 DEF Stored
    <2>2. given \in Strings /\ data \in Strings /\ unread \in Strings /\ wire \in Strings
      BY <1>2 DEF Strings
    <2>3. data' \in Strings /\ unread' \in Strings /\ wire' \in Strings
      BY <2>1 DEF Strings
    <2>4. Cat(Cat(Cat(given, data), unread), wire) = Cat(given, Cat(data, Cat(unread, wire)))
      BY <2>2, Regroup
    <2>5. Cat(Cat(Cat(given, data'), unread'), wire') = Cat(given, Cat(data', Cat(unread', wire')))
      BY <2>2, <2>3, Regroup
    <2>6. Cat(data', Cat(unread', wire')) = Cat(data, Cat(unread, wire))
      BY <1>1, <1>3, Zenon DEF Cat
    <2>7. Cat(Cat(Cat(given, data'), unread'), wire') = Cat(Cat(Cat(given, data), unread), wire)
      BY <2>4, <2>5, <2>6
    <2> QED BY <1>2, <2>7, Zenon DEF Cat
  <1> QED BY <1>1, <1>3 DEF Inv, Conserved

(* The invariant is inductive.                                              *)
LEMMA InvStep == Inv /\ [Next]_vars => Inv'
  <1> SUFFICES ASSUME Inv, [Next]_vars PROVE Inv'
    OBVIOUS
  <1>1. CASE \E key \in Matches, limit \in Limits : Call(key, limit)
    BY <1>1, CallStep
  <1>2. CASE Iterate
    BY <1>2, IterateStep
  <1>3. CASE GiveUp
    BY <1>3 DEF GiveUp, Inv, Stored, Conserved
  <1>4. CASE UNCHANGED vars
    BY <1>4 DEF vars, Inv, Stored, Conserved
  <1> QED BY <1>1, <1>2, <1>3, <1>4 DEF Next

LEMMA InvHolds == Spec => []Inv
  BY InitInv, InvStep, PTL DEF Spec

(* Conserved: between and within calls, until the search runs over the     *)
(* chunk, what calls returned, what was pushed back and what is still to   *)
(* come is the stream as it was sent.                                       *)
THEOREM NothingLost == Spec => []Conserved
  <1>1. Inv => Conserved
    BY DEF Inv
  <1> QED BY <1>1, InvHolds, PTL
-----------------------------------------------------------------------------
(***************************************************************************)
(* The search of readUntilMatch: a key is found wherever chunks cut it, and *)
(* the first time it occurs, for every size of the buffer, every stream and *)
(* every key.                                                               *)
(***************************************************************************)

Filling(key) == Last(key) - 1

(* What a buffer holds: bytes, or 0 where nothing was.                      *)
Cells == Bytes \cup {0}

(* The last few bytes are those that were read before the chunk, behind the *)
(* filler.                                                                  *)
Recent(few, key, s) ==
  /\ few \in Seq(Nat) /\ Len(few) = Len(key) - 1
  /\ \A k \in 1 .. Len(key) - 1 :
       few[k] = IF Len(s) - Len(key) + 1 + k >= 1
                THEN s[Len(s) - Len(key) + 1 + k] ELSE Filling(key)

(* What a search relies on.                                                 *)
Buffered == buffer \in Seq(Cells) /\ Len(buffer) = BufferSize
Searching ==
  /\ pc \in {"idle", "scan", "corrupt"}
  /\ match \in Matches \cup {<<>>} /\ maxLen \in Limits \cup {0}
  /\ Buffered /\ lastFew \in Seq(Nat) /\ data \in Seq(Cells)
  /\ pc = "scan" =>
       match # <<>> /\ Recent(lastFew, match, data) /\ ~Occurs(match, data)
SearchInv == Inv /\ Searching

(* A search that goes on.                                                   *)
Seeking ==
  match \in Matches /\ Buffered /\ Recent(lastFew, match, data) /\ ~Occurs(match, data)

-----------------------------------------------------------------------------
(* Least elements, also below zero.                                         *)
LEMMA MinIn ==
  ASSUME NEW S \in SUBSET Nat, S # {}
  PROVE  \E x \in S : \A y \in S : x <= y
  <1>1. \E x \in S : \A y \in S : ~ (<<y, x>> \in OpToRel(<, Nat))
    BY NatLessThanWellFounded, WFMin, Zenon
  <1>2. PICK x \in S : \A y \in S : ~ (<<y, x>> \in OpToRel(<, Nat))
    BY <1>1
  <1>3. \A y \in S : ~ (y < x)
    <2> TAKE y \in S
    <2>1. ~ (<<y, x>> \in OpToRel(<, Nat))
      BY <1>2
    <2> QED BY <2>1, Zenon DEF OpToRel
  <1> QED BY <1>3

LEMMA MinFrom ==
  ASSUME NEW m \in Nat, NEW n \in Nat, NEW S \in SUBSET (-m .. n), S # {}
  PROVE  Min(S) \in S /\ \A y \in S : Min(S) <= y
  <1> DEFINE T == {x + m : x \in S}
  <1>1. T \in SUBSET Nat /\ T # {}
    <2>1. \A x \in S : x + m \in Nat
      OBVIOUS
    <2>2. \E x \in S : TRUE
      OBVIOUS
    <2> QED BY <2>1, <2>2
  <1>2. PICK t \in T : \A y \in T : t <= y
    BY <1>1, MinIn
  <1>3. PICK x \in S : t = x + m
    BY <1>2
  <1>4. \A y \in S : x <= y
    <2> TAKE y \in S
    <2>1. y + m \in T
      OBVIOUS
    <2>2. x + m <= y + m
      BY <1>2, <1>3, <2>1
    <2> QED BY <2>2
  <1> QED BY <1>4 DEF Min

(* A key is a sequence of bytes that are not 0, and its filler is a number.  *)
LEMMA KeyIs ==
  ASSUME NEW key \in Matches
  PROVE  /\ key \in Seq(Bytes) /\ key # <<>> /\ Len(key) \in Nat \ {0}
         /\ Filling(key) \in Nat
         /\ \A i \in 1 .. Len(key) : key[i] \in Bytes /\ key[i] \in Nat
  <1>0. key \in Seq(Bytes \ {0}) /\ key # <<>>
    BY Sizes
  <1>2. Len(key) \in Nat \ {0} /\ \A i \in 1 .. Len(key) : key[i] \in Bytes \ {0}
    BY <1>0
  <1>1. key \in Seq(Bytes) /\ key # <<>>
    BY <1>0, <1>2
  <1>3. \A i \in 1 .. Len(key) : key[i] \in Nat \ {0}
    BY <1>2, Sizes
  <1>4. Last(key) \in Nat \ {0}
    BY <1>2, <1>3 DEF Last
  <1> QED BY <1>1, <1>2, <1>3, <1>4 DEF Filling

LEMMA BytesAreCells ==
  ASSUME NEW s \in Seq(Bytes)
  PROVE  s \in Seq(Cells)
  <1>1. \A x \in 1 .. Len(s) : s[x] \in Cells
    BY DEF Cells
  <1>2. Len(s) \in Nat /\ s = [x \in 1 .. Len(s) |-> s[x]]
    OBVIOUS
  <1> QED BY <1>1, <1>2

(* Where a key occurs, byte by byte.                                        *)
OccursAt(key, s, i) == \A p \in 1 .. Len(key) : s[i + p] = key[p]

LEMMA OccursIs ==
  ASSUME NEW key \in Matches, NEW s \in Seq(Bytes)
  PROVE  Occurs(key, s) <=> \E i \in 0 .. Len(s) - Len(key) : OccursAt(key, s, i)
  <1>1. key \in Seq(Bytes) /\ Len(key) \in Nat \ {0} /\ Len(s) \in Nat
    BY KeyIs
  <1>2. ASSUME NEW i \in 0 .. Len(s) - Len(key)
        PROVE  SubSeq(s, i + 1, i + Len(key)) = key <=> OccursAt(key, s, i)
    <2> DEFINE part == SubSeq(s, i + 1, i + Len(key))
    <2>1. \A x \in i + 1 .. i + Len(key) : s[x] \in Bytes
      BY <1>1
    <2>2. /\ part \in Seq(Bytes) /\ Len(part) = Len(key)
          /\ \A x \in 1 .. Len(key) : part[x] = s[i + x]
      <3>1. i + 1 \in Int /\ i + Len(key) \in Int /\ i + 1 <= i + Len(key)
        BY <1>1
      <3>2. (i + Len(key)) - (i + 1) + 1 = Len(key) /\ \A x \in 1 .. Len(key) : i + 1 + x - 1 = i + x
        BY <1>1
      <3> QED BY <2>1, <3>1, <3>2, SubSeqProperties
    <2> HIDE DEF part
    <2>3. ASSUME OccursAt(key, s, i) PROVE part = key
      <3>1. \A x \in 1 .. Len(part) : part[x] = key[x]
        BY <2>2, <2>3 DEF OccursAt
      <3> QED BY <1>1, <2>2, <3>1, SeqEqual
    <2>4. ASSUME part = key PROVE OccursAt(key, s, i)
      BY <2>2, <2>4 DEF OccursAt
    <2> QED BY <2>3, <2>4 DEF part
  <1> QED BY <1>2 DEF Occurs
-----------------------------------------------------------------------------
(* The last few bytes of nothing are the filler.                            *)
LEMMA FillerRecent ==
  ASSUME NEW key \in Matches
  PROVE  Recent(Filler(key), key, <<>>)
  <1>1. Len(key) - 1 \in Nat /\ Filling(key) \in Nat
    BY KeyIs
  <1>2. Filler(key) = [i \in 1 .. Len(key) - 1 |-> Filling(key)]
    BY DEF Filler, Filling
  <1>3. Filler(key) \in Seq(Nat) /\ Len(Filler(key)) = Len(key) - 1
    BY <1>1, <1>2
  <1>4. Len(<<>>) = 0
    OBVIOUS
  <1>5. \A k \in 1 .. Len(key) - 1 : ~(0 - Len(key) + 1 + k >= 1)
    BY <1>1
  <1> QED BY <1>2, <1>3, <1>4, <1>5 DEF Recent

LEMMA JoinNats ==
  \A a, b \in Seq(Nat) :
    /\ a \o b \in Seq(Nat) /\ Len(a \o b) = Len(a) + Len(b)
    /\ \A x \in 1 .. Len(a) + Len(b) :
         (a \o b)[x] = IF x <= Len(a) THEN a[x] ELSE b[x - Len(a)]
  BY ConcatProperties

(* fill() keeps them so.                                                    *)
LEMMA FillRecent ==
  ASSUME NEW key \in Matches, NEW s \in Seq(Bytes), NEW chunk \in Seq(Bytes),
         NEW few, Recent(few, key, s)
  PROVE  Recent(Fill(few, chunk), key, s \o chunk)
  <1> DEFINE m == Len(key) - 1
             n == Len(chunk)
             now == Fill(few, chunk)
  <1>1. m \in Nat /\ n \in Nat /\ Len(s) \in Nat /\ Filling(key) \in Nat
    BY KeyIs
  <1>2. few \in Seq(Nat) /\ Len(few) = m
    BY DEF Recent
  <1>3. /\ s \o chunk \in Seq(Bytes) /\ Len(s \o chunk) = Len(s) + n
        /\ \A x \in 1 .. Len(s) + n :
             (s \o chunk)[x] = IF x <= Len(s) THEN s[x] ELSE chunk[x - Len(s)]
    BY ConcatProperties
  <1>4. chunk \in Seq(Nat)
    <2>1. Bytes \subseteq Nat
      BY Sizes
    <2>2. n \in Nat /\ chunk = [i \in 1 .. n |-> chunk[i]] /\ \A i \in 1 .. n : chunk[i] \in Nat
      BY <2>1
    <2> QED BY <2>2
  <1>5. /\ now \in Seq(Nat) /\ Len(now) = m
        /\ \A k \in 1 .. m : now[k] = IF k <= m - n THEN few[n + k] ELSE chunk[k - m + n]
    <2>1. CASE m > n
      <3> DEFINE old == Drop(few, n)
      <3>1. \A x \in n + 1 .. m : few[x] \in Nat
        BY <1>1, <1>2
      <3>2. /\ old \in Seq(Nat) /\ Len(old) = m - n
            /\ \A x \in 1 .. m - n : old[x] = few[n + x]
        <4>1. n + 1 \in Int /\ m \in Int /\ n + 1 <= m /\ m - (n + 1) + 1 = m - n
          BY <1>1, <2>1
        <4>2. \A x \in 1 .. m - n : n + 1 + x - 1 = n + x
          BY <1>1
        <4>3. old = SubSeq(few, n + 1, m)
          BY <1>2 DEF Drop
        <4> QED BY <3>1, <4>1, <4>2, <4>3, SubSeqProperties
      <3> HIDE DEF old
      <3>3. now = old \o chunk
        BY <1>2, <2>1 DEF Fill, old
      <3>4. /\ now \in Seq(Nat) /\ Len(now) = (m - n) + n
            /\ \A x \in 1 .. (m - n) + n : now[x] = IF x <= m - n THEN old[x] ELSE chunk[x - (m - n)]
        <4>1. old \in Seq(Nat) /\ chunk \in Seq(Nat)
          BY <1>4, <3>2
        <4>2. /\ old \o chunk \in Seq(Nat) /\ Len(old \o chunk) = Len(old) + Len(chunk)
              /\ \A x \in 1 .. Len(old) + Len(chunk) :
                   (old \o chunk)[x] = IF x <= Len(old) THEN old[x] ELSE chunk[x - Len(old)]
          BY ONLY <4>1, JoinNats
        <4>3. Len(old) = m - n /\ Len(chunk) = n
          BY <3>2
        <4> HIDE DEF m, n
        <4> QED BY ONLY <3>3, <4>2, <4>3, Zenon
      <3>5. (m - n) + n = m /\ \A k \in 1 .. m : k - (m - n) = k - m + n
        BY <1>1
      <3>6. \A k \in 1 .. m : now[k] = IF k <= m - n THEN few[n + k] ELSE chunk[k - m + n]
        <4> TAKE k \in 1 .. m
        <4>1. now[k] = IF k <= m - n THEN old[k] ELSE chunk[k - m + n]
          BY <3>4, <3>5
        <4>2. k <= m - n => old[k] = few[n + k]
          BY <1>1, <3>2
        <4> QED BY <4>1, <4>2
      <3> QED BY <3>4, <3>5, <3>6
    <2>2. CASE ~(m > n)
      <3>1. now = Drop(chunk, n - m)
        BY <1>2, <2>2 DEF Fill
      <3>2. now = SubSeq(chunk, (n - m) + 1, n)
        BY <3>1 DEF Drop
      <3>3. \A x \in (n - m) + 1 .. n : chunk[x] \in Nat
        BY <1>1, <1>4, <2>2
      <3>4. (n - m) + 1 \in Int /\ n \in Int /\ n - ((n - m) + 1) + 1 = m
        BY <1>1
      <3>5. /\ now \in Seq(Nat)
            /\ Len(now) = (IF (n - m) + 1 <= n THEN m ELSE 0)
            /\ \A x \in 1 .. m : now[x] = chunk[(n - m) + 1 + x - 1]
        BY <3>2, <3>3, <3>4, SubSeqProperties
      <3>6. Len(now) = m
        <4>1. \A a, b \in Nat : (b - a) + 1 <= b <=> a # 0
          OBVIOUS
        <4>2. (n - m) + 1 <= n <=> m # 0
          BY <1>1, <4>1
        <4> QED BY <3>5, <4>2
      <3>7. \A k \in 1 .. m : now[k] = chunk[k - m + n] /\ ~(k <= m - n)
        <4> TAKE k \in 1 .. m
        <4>1. (n - m) + 1 + k - 1 = k - m + n /\ ~(k <= m - n)
          BY <1>1, <2>2
        <4> QED BY <3>5, <4>1
      <3> QED BY <3>5, <3>6, <3>7
    <2> QED BY <2>1, <2>2
  <1>6. ASSUME NEW k \in 1 .. Len(key) - 1
        PROVE  now[k] = IF Len(s \o chunk) - Len(key) + 1 + k >= 1
                        THEN (s \o chunk)[Len(s \o chunk) - Len(key) + 1 + k] ELSE Filling(key)
    <2> DEFINE x == Len(s) + n - m + k
    <2>1. Len(key) \in Nat /\ m = Len(key) - 1
      BY KeyIs
    <2>2. x = Len(s \o chunk) - Len(key) + 1 + k /\ x \in Int /\ x <= Len(s) + n
      BY <1>1, <1>3, <2>1
    <2>3. CASE k <= m - n
      <3>1. n + k \in 1 .. m /\ Len(s) - Len(key) + 1 + (n + k) = x /\ x <= Len(s)
        BY <1>1, <2>1, <2>3
      <3>2. few[n + k] = IF x >= 1 THEN s[x] ELSE Filling(key)
        BY <3>1 DEF Recent
      <3>3. now[k] = few[n + k]
        BY <1>5, <2>3
      <3>4. x >= 1 => (s \o chunk)[x] = s[x]
        BY <1>1, <1>3, <2>2, <3>1
      <3> QED BY <2>2, <3>2, <3>3, <3>4
    <2>4. CASE ~(k <= m - n)
      <3>1. now[k] = chunk[k - m + n]
        BY <1>5, <2>4
      <3>2. x > Len(s) /\ x \in 1 .. Len(s) + n /\ x - Len(s) = k - m + n
        BY <1>1, <2>2, <2>4
      <3>3. (s \o chunk)[x] = chunk[x - Len(s)]
        BY <1>1, <1>3, <3>2
      <3> QED BY <2>2, <3>1, <3>2, <3>3
    <2> QED BY <2>3, <2>4
  <1> QED BY <1>5, <1>6 DEF Recent
-----------------------------------------------------------------------------
(* The memory a search looks at begins with the chunk, and is as long as    *)
(* the buffer and a key behind it.                                          *)
LEMMA FilledIs ==
  ASSUME Buffered, NEW chunk \in Seq(Bytes), Len(chunk) <= BufferSize
  PROVE  /\ Filled(chunk) \in Seq(Cells) /\ Len(Filled(chunk)) = BufferSize
         /\ \A x \in 1 .. Len(chunk) : Filled(chunk)[x] = chunk[x]
  <1> DEFINE n == Len(chunk)
             old == Drop(buffer, n)
  <1>1. n \in Nat /\ BufferSize \in Nat /\ n <= BufferSize
    BY Sizes
  <1>2. chunk \in Seq(Cells)
    BY BytesAreCells
  <1>3. old \in Seq(Cells) /\ Len(old) = BufferSize - n
    <2>1. \A x \in n + 1 .. BufferSize : buffer[x] \in Cells
      BY <1>1 DEF Buffered
    <2>2. old = SubSeq(buffer, n + 1, BufferSize)
      BY DEF Drop, Buffered
    <2>3. old \in Seq(Cells) /\ Len(old) = (IF n + 1 <= BufferSize THEN BufferSize - (n + 1) + 1 ELSE 0)
      BY <1>1, <2>1, <2>2, SubSeqProperties
    <2> HIDE DEF n
    <2> QED BY <1>1, <2>3
  <1> HIDE DEF old
  <1>4. Filled(chunk) = chunk \o old
    BY DEF Filled, old
  <1>5. /\ chunk \o old \in Seq(Cells) /\ Len(chunk \o old) = n + Len(old)
        /\ \A x \in 1 .. n + Len(old) : (chunk \o old)[x] = IF x <= n THEN chunk[x] ELSE old[x - n]
    BY <1>2, <1>3, ConcatProperties
  <1> HIDE DEF n
  <1>6. n + Len(old) = BufferSize
    BY <1>1, <1>3
  <1>7. \A x \in 1 .. n : (chunk \o old)[x] = chunk[x]
    BY <1>1, <1>5, <1>6
  <1> QED BY <1>4, <1>5, <1>6, <1>7 DEF n

LEMMA MemoryIs ==
  ASSUME Buffered, NEW chunk \in Seq(Bytes), Len(chunk) <= BufferSize,
         NEW key \in Matches, NEW memory \in Memories(chunk, key)
  PROVE  /\ memory \in Seq(Cells) /\ Len(memory) = BufferSize + Len(key) - 1
         /\ \A x \in 1 .. Len(chunk) : memory[x] = chunk[x]
  <1> DEFINE behind == Len(key) - 1
             Ending(t) == [i \in 1 .. behind |-> IF i <= t THEN key[Len(key) - t + i] ELSE 0]
  <1>1. behind \in Nat /\ Len(key) \in Nat /\ \A i \in 1 .. Len(key) : key[i] \in Bytes
    BY KeyIs
  <1> DEFINE most == IF Len(Filled(chunk)) - Len(chunk) < behind THEN behind ELSE 0
  <1>a. PICK t \in 0 .. most : memory = Filled(chunk) \o Ending(t)
    BY Zenon DEF Memories
  <1>2. t \in 0 .. behind
    BY <1>1
  <1>3. Ending(t) \in Seq(Cells) /\ Len(Ending(t)) = behind
    <2>1. \A i \in 1 .. behind : (IF i <= t THEN key[Len(key) - t + i] ELSE 0) \in Cells
      <3> TAKE i \in 1 .. behind
      <3>1. CASE i <= t
        <4>1. Len(key) - t + i \in 1 .. Len(key)
          BY <1>1, <3>1
        <4> QED BY <1>1, <3>1, <4>1 DEF Cells
      <3>2. CASE ~(i <= t)
        BY <3>2 DEF Cells
      <3> QED BY <3>1, <3>2
    <2> QED BY <1>1, <2>1
  <1> DEFINE tail == Ending(t)
  <1> HIDE DEF Ending
  <1>b. memory = Filled(chunk) \o tail /\ tail \in Seq(Cells) /\ Len(tail) = behind
    BY <1>a, <1>3
  <1> HIDE DEF tail
  <1>4. /\ Filled(chunk) \in Seq(Cells) /\ Len(Filled(chunk)) = BufferSize
        /\ \A x \in 1 .. Len(chunk) : Filled(chunk)[x] = chunk[x]
    BY FilledIs
  <1>5. /\ memory \in Seq(Cells) /\ Len(memory) = BufferSize + behind
        /\ \A x \in 1 .. BufferSize + behind :
             memory[x] = IF x <= BufferSize THEN Filled(chunk)[x] ELSE tail[x - BufferSize]
    BY <1>b, <1>4, ConcatProperties
  <1>6. \A x \in 1 .. Len(chunk) : x <= BufferSize /\ x \in 1 .. BufferSize + behind
    BY <1>1, Sizes
  <1>7. BufferSize + behind = BufferSize + Len(key) - 1
    BY <1>1, Sizes
  <1> QED BY <1>4, <1>5, <1>6, <1>7

Begins(memory, chunk) == \A x \in 1 .. Len(chunk) : memory[x] = chunk[x]

(* What the search sees are the bytes read so far, behind the filler.       *)
Seen(key, whole, x) == IF x >= 1 THEN whole[x] ELSE Filling(key)

LEMMA JoinedIs ==
  ASSUME NEW key \in Matches, NEW s \in Seq(Cells), NEW chunk \in Seq(Cells),
         NEW few, Recent(few, key, s),
         NEW memory, Begins(memory, chunk)
  PROVE  \A x \in -(Len(key) - 1) .. Len(chunk) - 1 :
           Joined(few, memory, x) = Seen(key, s \o chunk, Len(s) + x + 1)
  <1> TAKE x \in -(Len(key) - 1) .. Len(chunk) - 1
  <1> DEFINE n == Len(chunk)
  <1>1. Len(key) \in Nat \ {0} /\ n \in Nat /\ Len(s) \in Nat
    BY KeyIs
  <1>2. \A y \in 1 .. Len(s) + n :
          (s \o chunk)[y] = IF y <= Len(s) THEN s[y] ELSE chunk[y - Len(s)]
    BY ConcatProperties
  <1> DEFINE y == Len(s) + x + 1
  <1>3. CASE x < 0
    <2> DEFINE k == Len(key) - 1 + x + 1
    <2>1. k \in 1 .. Len(key) - 1 /\ Len(s) - Len(key) + 1 + k = y /\ y <= Len(s) /\ y \in Int
      BY <1>1, <1>3
    <2>2. Joined(few, memory, x) = few[k]
      BY <1>3 DEF Joined, Recent
    <2>3. few[k] = IF y >= 1 THEN s[y] ELSE Filling(key)
      BY <2>1 DEF Recent
    <2>4. y >= 1 => (s \o chunk)[y] = s[y]
      BY <1>1, <1>2, <2>1
    <2> QED BY <2>2, <2>3, <2>4 DEF Seen
  <1>4. CASE ~(x < 0)
    <2>1. x + 1 \in 1 .. n /\ y \in 1 .. Len(s) + n /\ y > Len(s) /\ y - Len(s) = x + 1
      BY <1>1, <1>4
    <2>2. Joined(few, memory, x) = chunk[x + 1]
      BY <1>4, <2>1 DEF Joined, Begins
    <2>3. (s \o chunk)[y] = chunk[x + 1]
      BY <1>1, <1>2, <2>1
    <2> QED BY <2>1, <2>2, <2>3 DEF Seen
  <1> QED BY <1>3, <1>4

(* A match that ends in the chunk, byte by byte.                            *)
LEMMA HitIs ==
  ASSUME NEW key \in Matches, NEW s \in Seq(Cells), NEW chunk \in Seq(Cells),
         NEW few, Recent(few, key, s),
         NEW memory, Begins(memory, chunk),
         NEW j \in Starts(few, Len(chunk)), j + Len(key) <= Len(chunk)
  PROVE  MatchesAt(few, memory, j, key)
           <=> \A p \in 1 .. Len(key) : Seen(key, s \o chunk, Len(s) + j + p) = key[p]
  <1>1. Len(key) \in Nat \ {0} /\ Len(chunk) \in Nat /\ Len(s) \in Nat
    BY KeyIs
  <1>2. j \in -(Len(key) - 1) .. Len(chunk) - 1
    BY <1>1 DEF Starts, Recent
  <1>0. \A x \in -(Len(key) - 1) .. Len(chunk) - 1 :
          Joined(few, memory, x) = Seen(key, s \o chunk, Len(s) + x + 1)
    BY JoinedIs
  <1>3. \A i \in 0 .. Len(key) - 1 :
          Joined(few, memory, i + j) = Seen(key, s \o chunk, Len(s) + j + (i + 1))
    <2> TAKE i \in 0 .. Len(key) - 1
    <2> DEFINE x == i + j
    <2>1. x \in -(Len(key) - 1) .. Len(chunk) - 1 /\ Len(s) + x + 1 = Len(s) + j + (i + 1)
      BY <1>1, <1>2
    <2> HIDE DEF x
    <2>2. Joined(few, memory, x) = Seen(key, s \o chunk, Len(s) + x + 1)
      BY <1>0, <2>1
    <2> QED BY <2>1, <2>2 DEF x
  <1>4. ASSUME MatchesAt(few, memory, j, key), NEW p \in 1 .. Len(key)
        PROVE  Seen(key, s \o chunk, Len(s) + j + p) = key[p]
    <2>1. p - 1 \in 0 .. Len(key) - 1 /\ (p - 1) + 1 = p
      BY <1>1
    <2>2. Joined(few, memory, (p - 1) + j) = key[(p - 1) + 1]
      BY <1>4, <2>1 DEF MatchesAt
    <2> QED BY <1>3, <2>1, <2>2
  <1>5. ASSUME \A p \in 1 .. Len(key) : Seen(key, s \o chunk, Len(s) + j + p) = key[p]
        PROVE  MatchesAt(few, memory, j, key)
    <2>1. \A i \in 0 .. Len(key) - 1 : i + 1 \in 1 .. Len(key)
      BY <1>1
    <2> QED BY <1>3, <1>5, <2>1 DEF MatchesAt
  <1> QED BY <1>4, <1>5
-----------------------------------------------------------------------------
(* No key begins with its filler.  The keys of the program are such: they   *)
(* begin with a carriage return or a dash, and end in a newline or with a   *)
(* boundary; "--." would not be one.                                        *)
Foreign == \A key \in Matches : key[1] # Filling(key)

(* find() answers -1, or the end of the first match.                        *)
Hits(few, memory, n, key) == {j \in Starts(few, n) : MatchesAt(few, memory, j, key)}

LEMMA FindIs ==
  ASSUME NEW key \in Matches, NEW few, Len(few) = Len(key) - 1, NEW n \in Nat, NEW memory
  PROVE  \/ Hits(few, memory, n, key) = {} /\ Find(memory, key, n, few) = -1
         \/ \E j \in Hits(few, memory, n, key) :
              /\ Find(memory, key, n, few) = j + Len(key)
              /\ \A y \in Hits(few, memory, n, key) : j <= y
  <1> DEFINE H == Hits(few, memory, n, key)
  <1>1. Find(memory, key, n, few) = IF H = {} THEN -1 ELSE Min(H) + Len(key)
    BY DEF Find, Hits
  <1>2. ASSUME H # {}
        PROVE  Min(H) \in H /\ \A y \in H : Min(H) <= y
    <2> DEFINE m == Len(key) - 1
    <2>1. m \in Nat /\ H \in SUBSET (-m .. n)
      BY KeyIs DEF Hits, Starts
    <2> HIDE DEF m, H
    <2> QED BY <1>2, <2>1, MinFrom
  <1> HIDE DEF H
  <1>3. CASE H = {}
    BY <1>1, <1>3 DEF H
  <1>4. CASE H # {}
    BY <1>1, <1>2, <1>4 DEF H
  <1> QED BY <1>3, <1>4

(* A key that ends in the chunk is a hit.                                   *)
LEMMA OccurrenceHits ==
  ASSUME NEW key \in Matches, NEW s \in Seq(Bytes), NEW chunk \in Seq(Bytes),
         NEW few, Recent(few, key, s), NEW memory, Begins(memory, chunk),
         NEW i \in Nat, OccursAt(key, s \o chunk, i),
         Len(s) < i + Len(key), i + Len(key) <= Len(s) + Len(chunk)
  PROVE  i - Len(s) \in Hits(few, memory, Len(chunk), key)
  <1> DEFINE j == i - Len(s)
  <1>1. Len(key) \in Nat \ {0} /\ Len(chunk) \in Nat /\ Len(s) \in Nat
    BY KeyIs
  <1>2. j \in Starts(few, Len(chunk)) /\ j + Len(key) <= Len(chunk)
    BY <1>1 DEF Starts, Recent
  <1>3. \A p \in 1 .. Len(key) : Seen(key, s \o chunk, Len(s) + j + p) = key[p]
    <2> TAKE p \in 1 .. Len(key)
    <2>1. Len(s) + j + p = i + p /\ i + p >= 1
      BY <1>1
    <2>2. (s \o chunk)[i + p] = key[p]
      BY DEF OccursAt
    <2> QED BY <2>1, <2>2 DEF Seen
  <1> HIDE DEF j
  <1>4. MatchesAt(few, memory, j, key)
    <2>1. s \in Seq(Cells) /\ chunk \in Seq(Cells)
      BY BytesAreCells
    <2> QED BY <1>2, <1>3, <2>1, HitIs
  <1> QED BY <1>2, <1>4 DEF Hits, j

(* A hit that ends in the chunk is a key among the bytes read.              *)
LEMMA HitOccurs ==
  ASSUME Foreign,
         NEW key \in Matches, NEW s \in Seq(Cells), NEW chunk \in Seq(Cells),
         NEW few, Recent(few, key, s), NEW memory, Begins(memory, chunk),
         NEW j \in Starts(few, Len(chunk)), MatchesAt(few, memory, j, key),
         j + Len(key) <= Len(chunk)
  PROVE  Len(s) + j \in Nat /\ OccursAt(key, s \o chunk, Len(s) + j)
  <1>1. Len(key) \in Nat \ {0} /\ Len(chunk) \in Nat /\ Len(s) \in Nat
    BY KeyIs
  <1>2. j \in Int
    BY <1>1 DEF Starts, Recent
  <1>3. \A p \in 1 .. Len(key) : Seen(key, s \o chunk, Len(s) + j + p) = key[p]
    BY HitIs
  <1>4. Len(s) + j \in Nat
    <2> SUFFICES ASSUME Len(s) + j < 0 PROVE FALSE
      BY <1>1, <1>2
    <2>1. ~(Len(s) + j + 1 >= 1) /\ 1 \in 1 .. Len(key)
      BY <1>1, <1>2
    <2>2. key[1] = Filling(key)
      BY <1>3, <2>1 DEF Seen
    <2> QED BY <2>1, <2>2 DEF Foreign
  <1>5. \A p \in 1 .. Len(key) : (s \o chunk)[Len(s) + j + p] = key[p]
    <2> TAKE p \in 1 .. Len(key)
    <2>1. Len(s) + j + p >= 1
      BY <1>1, <1>2, <1>4
    <2> QED BY <1>3, <2>1 DEF Seen
  <1> QED BY <1>4, <1>5 DEF OccursAt

(* A key that ends before the chunk was there before.                       *)
LEMMA OldOccurrence ==
  ASSUME NEW key \in Matches, NEW s \in Seq(Bytes), NEW chunk \in Seq(Bytes),
         NEW i \in Nat, OccursAt(key, s \o chunk, i), i + Len(key) <= Len(s)
  PROVE  Occurs(key, s)
  <1>1. Len(key) \in Nat \ {0} /\ Len(chunk) \in Nat /\ Len(s) \in Nat
    BY KeyIs
  <1>2. \A x \in 1 .. Len(s) : (s \o chunk)[x] = s[x]
    <2>1. \A x \in 1 .. Len(s) + Len(chunk) :
            (s \o chunk)[x] = IF x <= Len(s) THEN s[x] ELSE chunk[x - Len(s)]
      BY ConcatProperties
    <2> QED BY <1>1, <2>1
  <1>3. OccursAt(key, s, i)
    <2>1. \A p \in 1 .. Len(key) : i + p \in 1 .. Len(s)
      BY <1>1
    <2> QED BY <1>2, <2>1 DEF OccursAt
  <1>4. i \in 0 .. Len(s) - Len(key)
    BY <1>1
  <1> QED BY <1>3, <1>4, OccursIs

(* A search without a hit has seen no key.                                  *)
LEMMA KeepSearch ==
  ASSUME NEW key \in Matches, NEW s \in Seq(Bytes), NEW chunk \in Seq(Bytes),
         NEW few, Recent(few, key, s), NEW memory, Begins(memory, chunk),
         ~Occurs(key, s), Hits(few, memory, Len(chunk), key) = {}
  PROVE  ~Occurs(key, s \o chunk)
  <1> SUFFICES ASSUME Occurs(key, s \o chunk) PROVE FALSE
    OBVIOUS
  <1>1. Len(key) \in Nat \ {0} /\ Len(chunk) \in Nat /\ Len(s) \in Nat
    BY KeyIs
  <1>2. s \o chunk \in Seq(Bytes) /\ Len(s \o chunk) = Len(s) + Len(chunk)
    BY ConcatProperties
  <1>3. PICK i \in 0 .. (Len(s) + Len(chunk)) - Len(key) : OccursAt(key, s \o chunk, i)
    BY <1>2, OccursIs
  <1>4. i \in Nat /\ i + Len(key) <= Len(s) + Len(chunk)
    BY <1>1
  <1>5. CASE i + Len(key) <= Len(s)
    BY <1>3, <1>4, <1>5, OldOccurrence
  <1>6. CASE Len(s) < i + Len(key)
    BY <1>3, <1>4, <1>6, OccurrenceHits
  <1> QED BY <1>1, <1>4, <1>5, <1>6

(* A sequence that ends with another has it as a suffix.                    *)
LEMMA EndsWith ==
  ASSUME NEW s \in Seq(Cells), NEW t \in Seq(Cells), Len(s) <= Len(t),
         \A p \in 1 .. Len(s) : t[Len(t) - Len(s) + p] = s[p]
  PROVE  IsSuffix(s, t)
  <1> DEFINE a == Len(s)
             b == Len(t)
             rs == [i \in 1 .. a |-> s[(a - i) + 1]]
             rt == [i \in 1 .. b |-> t[(b - i) + 1]]
  <1>1. a \in Nat /\ b \in Nat /\ a <= b
    OBVIOUS
  <1>2. \A i \in 1 .. a : s[(a - i) + 1] \in Cells
    <2> TAKE i \in 1 .. a
    <2>1. (a - i) + 1 \in 1 .. a
      BY <1>1
    <2> QED BY <2>1
  <1>3. \A i \in 1 .. b : t[(b - i) + 1] \in Cells
    <2> TAKE i \in 1 .. b
    <2>1. (b - i) + 1 \in 1 .. b
      BY <1>1
    <2> QED BY <2>1
  <1>4. \A i \in 1 .. a : t[(b - i) + 1] = s[(a - i) + 1]
    <2> TAKE i \in 1 .. a
    <2>1. (a - i) + 1 \in 1 .. a /\ b - a + ((a - i) + 1) = (b - i) + 1
      BY <1>1
    <2> QED BY <2>1
  <1>5. rs \in Seq(Cells) /\ Len(rs) = a
    BY <1>1, <1>2
  <1>6. rt \in Seq(Cells) /\ Len(rt) = b
    BY <1>1, <1>3
  <1>7. Reverse(s) = rs /\ Reverse(t) = rt
    BY DEF Reverse
  <1>8. \A i \in 1 .. a : rt[i] = rs[i]
    BY <1>1, <1>4
  <1> HIDE DEF a, b, rs, rt
  <1>9. /\ SubSeq(rt, 1, a) \in Seq(Cells) /\ Len(SubSeq(rt, 1, a)) = a
        /\ \A i \in 1 .. a : SubSeq(rt, 1, a)[i] = rt[i]
    <2>1. \A i \in 1 .. a : rt[i] \in Cells
      BY <1>1, <1>6
    <2>2. Len(SubSeq(rt, 1, a)) = (IF 1 <= a THEN a - 1 + 1 ELSE 0)
      BY <1>1, <2>1, SubSeqProperties
    <2>3. /\ SubSeq(rt, 1, a) \in Seq(Cells)
          /\ \A i \in 1 .. a - 1 + 1 : SubSeq(rt, 1, a)[i] = rt[1 + i - 1]
      BY <1>1, <2>1, SubSeqProperties
    <2>4. a - 1 + 1 = a /\ \A i \in 1 .. a : 1 + i - 1 = i
      BY <1>1
    <2> QED BY <1>1, <2>2, <2>3, <2>4
  <1>10. SubSeq(rt, 1, a) = rs
    BY <1>5, <1>8, <1>9, SeqEqual
  <1>11. SubSeq(rs, 1, a) = rs
    BY <1>5, SubSeqFull
  <1> QED BY <1>1, <1>5, <1>6, <1>7, <1>10, <1>11 DEF IsSuffix, IsPrefix

(* The first hit is the end of the first key.                               *)
LEMMA CutSearch ==
  ASSUME Foreign,
         NEW key \in Matches, NEW s \in Seq(Bytes), NEW chunk \in Seq(Bytes),
         NEW few, Recent(few, key, s), NEW memory, Begins(memory, chunk),
         ~Occurs(key, s),
         NEW j \in Hits(few, memory, Len(chunk), key),
         \A y \in Hits(few, memory, Len(chunk), key) : j <= y,
         NEW e \in 1 .. Len(chunk), e = j + Len(key)
  PROVE  LET r == s \o SubSeq(chunk, 1, e)
         IN  IsSuffix(key, r) /\ ~Occurs(key, SubSeq(r, 1, Len(r) - 1))
  <1> DEFINE c == SubSeq(chunk, 1, e)
             r == s \o c
             whole == s \o chunk
             front == SubSeq(r, 1, Len(r) - 1)
  <1>1. Len(key) \in Nat \ {0} /\ Len(chunk) \in Nat /\ Len(s) \in Nat /\ e \in Nat \ {0} /\ j \in Int
    BY KeyIs DEF Hits, Starts, Recent
  <1>2. c \in Seq(Bytes) /\ Len(c) = e /\ \A x \in 1 .. e : c[x] = chunk[x]
    <2>1. \A x \in 1 .. e : chunk[x] \in Bytes
      BY <1>1
    <2>2. /\ c \in Seq(Bytes) /\ Len(c) = (IF 1 <= e THEN e - 1 + 1 ELSE 0)
          /\ \A x \in 1 .. e - 1 + 1 : c[x] = chunk[1 + x - 1]
      BY <1>1, <2>1, SubSeqProperties
    <2>3. e - 1 + 1 = e /\ \A x \in 1 .. e : 1 + x - 1 = x
      BY <1>1
    <2> HIDE DEF c
    <2> QED BY <1>1, <2>2, <2>3
  <1> HIDE DEF c
  <1>3. /\ r \in Seq(Bytes) /\ Len(r) = Len(s) + e
        /\ \A x \in 1 .. Len(s) + e : r[x] = IF x <= Len(s) THEN s[x] ELSE c[x - Len(s)]
    <2>1. /\ r \in Seq(Bytes) /\ Len(r) = Len(s) + Len(c)
          /\ \A x \in 1 .. Len(s) + Len(c) : r[x] = IF x <= Len(s) THEN s[x] ELSE c[x - Len(s)]
      BY <1>2, ConcatProperties, ZenonT(60)
    <2> HIDE DEF r
    <2> QED BY <1>2, <2>1
  <1>4. /\ whole \in Seq(Bytes) /\ Len(whole) = Len(s) + Len(chunk)
        /\ \A x \in 1 .. Len(s) + Len(chunk) : whole[x] = IF x <= Len(s) THEN s[x] ELSE chunk[x - Len(s)]
    BY ConcatProperties
  <1>5. Len(s) + j \in Nat /\ OccursAt(key, whole, Len(s) + j)
    <2>1. s \in Seq(Cells) /\ chunk \in Seq(Cells)
      BY BytesAreCells
    <2>2. j \in Starts(few, Len(chunk)) /\ MatchesAt(few, memory, j, key) /\ j + Len(key) <= Len(chunk)
      BY DEF Hits
    <2> QED BY <2>1, <2>2, HitOccurs
  <1> HIDE DEF r, whole
  <1>6. \A x \in 1 .. Len(s) + e : r[x] = whole[x]
    <2> TAKE x \in 1 .. Len(s) + e
    <2>1. x \in 1 .. Len(s) + Len(chunk) /\ (~(x <= Len(s)) => x - Len(s) \in 1 .. e)
      BY <1>1
    <2> QED BY <1>2, <1>3, <1>4, <2>1
  <1>7. IsSuffix(key, r)
    <2>1. Len(key) <= Len(r) /\ Len(r) - Len(key) = Len(s) + j
      BY <1>1, <1>3, <1>5
    <2>2. \A p \in 1 .. Len(key) : r[Len(r) - Len(key) + p] = key[p]
      <3> TAKE p \in 1 .. Len(key)
      <3>1. Len(r) - Len(key) + p = Len(s) + j + p /\ Len(s) + j + p \in 1 .. Len(s) + e
        BY <1>1, <1>3, <1>5
      <3> QED BY <1>5, <1>6, <3>1 DEF OccursAt
    <2>3. key \in Seq(Cells) /\ r \in Seq(Cells)
      BY <1>3, KeyIs, BytesAreCells
    <2> QED BY <2>1, <2>2, <2>3, EndsWith
  <1>8. ~Occurs(key, front)
    <2> SUFFICES ASSUME Occurs(key, front) PROVE FALSE
      OBVIOUS
    <2>1. /\ front \in Seq(Bytes) /\ Len(front) = Len(s) + e - 1
          /\ \A x \in 1 .. Len(s) + e - 1 : front[x] = r[x]
      <3> DEFINE m == Len(s) + e - 1
      <3>1. m \in Nat /\ m = Len(r) - 1 /\ \A x \in 1 .. m : x \in 1 .. Len(s) + e
        BY <1>1, <1>3
      <3> HIDE DEF m
      <3>2. \A x \in 1 .. m : r[x] \in Bytes
        BY <1>3, <3>1
      <3>3. front = SubSeq(r, 1, m)
        BY <3>1
      <3>4. /\ front \in Seq(Bytes) /\ Len(front) = (IF 1 <= m THEN m - 1 + 1 ELSE 0)
            /\ \A x \in 1 .. m - 1 + 1 : front[x] = r[1 + x - 1]
        BY <3>1, <3>2, <3>3, SubSeqProperties
      <3>5. m - 1 + 1 = m /\ \A x \in 1 .. m : 1 + x - 1 = x
        BY <3>1
      <3> HIDE DEF front
      <3>6. Len(front) = m /\ \A x \in 1 .. m : front[x] = r[x]
        BY <3>1, <3>4, <3>5
      <3> QED BY <3>4, <3>6 DEF m
    <2> HIDE DEF front
    <2>2. PICK i \in 0 .. (Len(s) + e - 1) - Len(key) : OccursAt(key, front, i)
      BY <2>1, OccursIs
    <2>3. i \in Nat /\ i + Len(key) <= Len(s) + e - 1 /\ i + Len(key) <= Len(s) + Len(chunk)
      BY <1>1, <2>2
    <2>4. OccursAt(key, whole, i)
      <3> SUFFICES ASSUME NEW p \in 1 .. Len(key) PROVE whole[i + p] = key[p]
        BY DEF OccursAt
      <3>1. i + p \in 1 .. Len(s) + e - 1 /\ i + p \in 1 .. Len(s) + e
        BY <1>1, <2>3
      <3> QED BY <1>6, <2>1, <2>2, <3>1 DEF OccursAt
    <2>5. CASE i + Len(key) <= Len(s)
      BY <2>3, <2>4, <2>5, OldOccurrence DEF whole
    <2>6. CASE Len(s) < i + Len(key)
      <3>1. i - Len(s) \in Hits(few, memory, Len(chunk), key)
        BY <2>3, <2>4, <2>6, OccurrenceHits DEF whole
      <3>2. j <= i - Len(s)
        BY <3>1
      <3> QED BY <1>1, <2>3, <3>2
    <2> QED BY <1>1, <2>3, <2>5, <2>6
  <1> QED BY <1>7, <1>8 DEF r, c
-----------------------------------------------------------------------------
(* An iteration looks at a chunk with a memory that begins with it.         *)
LEMMA IterateIs ==
  ASSUME Stored, Seeking, Iterate
  PROVE  /\ match \in Matches /\ data \in Seq(Bytes) /\ data \in Seq(Cells)
         /\ Recent(lastFew, match, data) /\ ~Occurs(match, data)
         /\ UNCHANGED <<match, maxLen, sent, given>>
         /\ \E chunk \in Seq(Bytes), memory \in Seq(Cells) :
              /\ Len(chunk) <= BufferSize /\ Begins(memory, chunk)
              /\ Len(memory) = BufferSize + Len(match) - 1
              /\ chunk \o (PushedAfter(chunk) \o WireAfter(chunk)) = unread \o wire
              /\ buffer' = Filled(chunk) /\ wire' = WireAfter(chunk)
              /\ LET end == Find(memory, match, Len(chunk), lastFew)
                 IN  \/ end = -1 /\ Keep(chunk)
                     \/ end \in 1 .. Len(chunk) /\ Cut(chunk, end)
                     \/ end > Len(chunk) /\ Overrun(chunk, memory, end)
  <1> DEFINE n == Least(BufferSize, maxLen - Len(data))
  <1>1. pc = "scan" /\ Stored
    BY DEF Iterate
  <1>2. /\ match \in Matches /\ data \in Seq(Bytes) /\ Buffered
        /\ Recent(lastFew, match, data) /\ ~Occurs(match, data)
    BY <1>1 DEF Seeking, Stored
  <1>3. n \in Nat /\ n <= BufferSize
    <2>1. Len(data) \in Nat /\ Len(data) < maxLen /\ maxLen \in Nat
      BY <1>1, <1>2 DEF Iterate, Stored
    <2> QED BY <2>1, Sizes DEF Least
  <1>4. /\ UNCHANGED <<match, maxLen, sent, given>>
        /\ \E chunk \in Chunks(n) : \E memory \in Memories(chunk, match) :
             LET end == Find(memory, match, Len(chunk), lastFew)
             IN  /\ buffer' = Filled(chunk) /\ wire' = WireAfter(chunk)
                 /\ \/ end = -1 /\ Keep(chunk)
                    \/ end \in 1 .. Len(chunk) /\ Cut(chunk, end)
                    \/ end > Len(chunk) /\ Overrun(chunk, memory, end)
    BY DEF Iterate, Search
  <1> HIDE DEF n
  <1>a. PICK chunk \in Chunks(n) : \E memory \in Memories(chunk, match) :
             LET end == Find(memory, match, Len(chunk), lastFew)
             IN  /\ buffer' = Filled(chunk) /\ wire' = WireAfter(chunk)
                 /\ \/ end = -1 /\ Keep(chunk)
                    \/ end \in 1 .. Len(chunk) /\ Cut(chunk, end)
                    \/ end > Len(chunk) /\ Overrun(chunk, memory, end)
    BY <1>4
  <1>5. PICK memory \in Memories(chunk, match) :
             LET end == Find(memory, match, Len(chunk), lastFew)
             IN  /\ buffer' = Filled(chunk) /\ wire' = WireAfter(chunk)
                 /\ \/ end = -1 /\ Keep(chunk)
                    \/ end \in 1 .. Len(chunk) /\ Cut(chunk, end)
                    \/ end > Len(chunk) /\ Overrun(chunk, memory, end)
    BY <1>a
  <1>6. /\ chunk \in Seq(Bytes) /\ Len(chunk) <= BufferSize
        /\ chunk \o (PushedAfter(chunk) \o WireAfter(chunk)) = unread \o wire
    BY <1>1, <1>3, ChunkSplits
  <1>7. /\ memory \in Seq(Cells) /\ Len(memory) = BufferSize + Len(match) - 1
        /\ Begins(memory, chunk)
    BY <1>2, <1>6, MemoryIs DEF Begins
  <1>8. data \in Seq(Cells)
    BY <1>2, BytesAreCells
  <1> QED BY <1>2, <1>4, <1>5, <1>6, <1>7, <1>8

(* The beginning of a memory.                                               *)
LEMMA FrontIs ==
  ASSUME NEW memory \in Seq(Cells), NEW e \in 0 .. Len(memory)
  PROVE  /\ SubSeq(memory, 1, e) \in Seq(Cells) /\ Len(SubSeq(memory, 1, e)) = e
         /\ \A x \in 1 .. e : SubSeq(memory, 1, e)[x] = memory[x]
  <1>1. e \in Nat /\ \A x \in 1 .. e : memory[x] \in Cells
    OBVIOUS
  <1>2. /\ SubSeq(memory, 1, e) \in Seq(Cells)
        /\ Len(SubSeq(memory, 1, e)) = (IF 1 <= e THEN e - 1 + 1 ELSE 0)
        /\ \A x \in 1 .. e - 1 + 1 : SubSeq(memory, 1, e)[x] = memory[1 + x - 1]
    BY <1>1, SubSeqProperties
  <1>3. e - 1 + 1 = e /\ \A x \in 1 .. e : 1 + x - 1 = x
    BY <1>1
  <1>4. (IF 1 <= e THEN e - 1 + 1 ELSE 0) = e
    BY <1>1
  <1> QED BY <1>2, <1>3, <1>4

(* Where a hit ends.                                                        *)
LEMMA HitEnds ==
  ASSUME NEW key \in Matches, NEW few, Len(few) = Len(key) - 1, NEW n \in Nat, NEW memory,
         NEW j \in Hits(few, memory, n, key)
  PROVE  /\ j \in Int /\ j + Len(key) >= 1 /\ j < n
         /\ j \in Starts(few, n) /\ MatchesAt(few, memory, j, key)
  <1>1. Len(key) \in Nat \ {0}
    BY KeyIs
  <1> QED BY <1>1 DEF Hits, Starts

(* Initially and with every call the search starts afresh.                  *)
LEMMA NewBuffer ==
  LET new == [i \in 1 .. BufferSize |-> 0]
  IN  new \in Seq(Cells) /\ Len(new) = BufferSize
  <1>1. BufferSize \in Nat /\ 0 \in Cells
    BY Sizes DEF Cells
  <1> QED BY <1>1

LEMMA InitSearching == Init => Searching
  <1> SUFFICES ASSUME Init PROVE Searching
    OBVIOUS
  <1>1. Buffered
    BY NewBuffer DEF Init, Buffered
  <1>2. <<>> \in Seq(Nat) /\ <<>> \in Seq(Cells)
    OBVIOUS
  <1> QED BY <1>1, <1>2 DEF Init, Searching

LEMMA CallSearching ==
  ASSUME SearchInv, NEW key \in Matches, NEW limit \in Limits, Call(key, limit)
  PROVE  Searching'
  <1>1. Buffered'
    BY NewBuffer DEF Call, Buffered
  <1>2. Recent(Filler(key), key, <<>>)
    BY FillerRecent
  <1>3. ~Occurs(key, <<>>)
    <2>1. <<>> \in Seq(Bytes) /\ Len(<<>>) = 0 /\ Len(key) \in Nat \ {0}
      BY KeyIs
    <2>2. 0 .. 0 - Len(key) = {}
      BY <2>1
    <2> QED BY <2>1, <2>2, OccursIs
  <1>4. key # <<>> /\ Filler(key) \in Seq(Nat) /\ <<>> \in Seq(Cells)
    BY <1>2, KeyIs DEF Recent
  <1>5. /\ pc' = "scan" /\ match' = key /\ maxLen' = limit
        /\ lastFew' = Filler(key) /\ data' = <<>>
    BY DEF Call
  <1> QED BY <1>1, <1>2, <1>3, <1>4, <1>5 DEF Searching

(* An iteration that finds nothing keeps what the search relies on.         *)
LEMMA IterateSeeks ==
  ASSUME Stored, Seeking, Iterate
  PROVE  /\ lastFew' \in Seq(Nat) /\ data' \in Seq(Cells) /\ Buffered' /\ match' = match
         /\ pc' \in {"idle", "scan", "corrupt"}
         /\ pc' = "scan" => Seeking'
  <1>1. /\ match \in Matches /\ data \in Seq(Bytes) /\ data \in Seq(Cells)
        /\ Recent(lastFew, match, data) /\ ~Occurs(match, data)
        /\ UNCHANGED <<match, maxLen, sent, given>>
    BY IterateIs
  <1>2. PICK chunk \in Seq(Bytes), memory \in Seq(Cells) :
              /\ Len(chunk) <= BufferSize /\ Begins(memory, chunk)
              /\ Len(memory) = BufferSize + Len(match) - 1
              /\ buffer' = Filled(chunk)
              /\ LET end == Find(memory, match, Len(chunk), lastFew)
                 IN  \/ end = -1 /\ Keep(chunk)
                     \/ end \in 1 .. Len(chunk) /\ Cut(chunk, end)
                     \/ end > Len(chunk) /\ Overrun(chunk, memory, end)
    BY IterateIs
  <1> DEFINE end == Find(memory, match, Len(chunk), lastFew)
             n == Len(chunk)
  <1>3. Buffered /\ lastFew \in Seq(Nat) /\ Len(lastFew) = Len(match) - 1 /\ pc = "scan"
        /\ Len(match) \in Nat \ {0} /\ n \in Nat
    BY <1>1, KeyIs DEF Seeking, Recent, Iterate
  <1>4. Buffered'
    BY <1>2, <1>3, FilledIs DEF Buffered
  <1>5. chunk \in Seq(Cells)
    BY BytesAreCells
  <1>6. CASE end = -1 /\ Keep(chunk)
    <2>1. Hits(lastFew, memory, n, match) = {}
      <3>1. ASSUME NEW j \in Hits(lastFew, memory, n, match), end = j + Len(match) PROVE FALSE
        BY <1>1, <1>3, <1>6, <3>1, HitEnds
      <3> HIDE DEF end
      <3> QED BY <1>1, <1>3, <3>1, FindIs DEF end
    <2>2. ~Occurs(match, data \o chunk)
      BY <1>1, <1>2, <2>1, KeepSearch
    <2>3. Recent(Fill(lastFew, chunk), match, data \o chunk)
      BY <1>1, FillRecent
    <2>4. data \o chunk \in Seq(Cells)
      BY <1>1, <1>5, ConcatProperties
    <2>5. data' = data \o chunk /\ lastFew' = Fill(lastFew, chunk) /\ pc' = pc
      BY <1>6 DEF Keep
    <2>6. lastFew' \in Seq(Nat)
      BY <2>3, <2>5 DEF Recent
    <2> QED BY <1>1, <1>3, <1>4, <2>2, <2>3, <2>4, <2>5, <2>6 DEF Seeking
  <1>7. CASE end \in 1 .. n /\ Cut(chunk, end)
    <2> HIDE DEF end
    <2>1. SubSeq(chunk, 1, end) \in Seq(Cells)
      BY <1>3, <1>5, <1>7, FrontIs
    <2>2. data' = data \o SubSeq(chunk, 1, end) /\ lastFew' = lastFew /\ pc' = "idle"
      BY <1>7 DEF Cut
    <2>3. data' \in Seq(Cells)
      BY <1>1, <2>1, <2>2, ConcatProperties
    <2> QED BY <1>1, <1>3, <1>4, <2>2, <2>3
  <1>8. CASE end > n /\ Overrun(chunk, memory, end)
    <2> HIDE DEF end
    <2>1. end \in 0 .. Len(memory)
      <3>1. PICK j \in Hits(lastFew, memory, n, match) : end = j + Len(match)
        <4>1. end # -1
          BY <1>3, <1>8
        <4> QED BY <1>1, <1>3, <4>1, FindIs DEF end
      <3>2. j \in Int /\ j + Len(match) >= 1 /\ j < n
        BY <1>1, <1>3, <3>1, HitEnds
      <3> HIDE DEF n
      <3>3. n <= BufferSize /\ BufferSize \in Nat
        BY <1>2, Sizes DEF n
      <3>4. end \in Int /\ end >= 0 /\ end <= BufferSize + Len(match) - 1
        BY <1>3, <3>1, <3>2, <3>3
      <3> QED BY <1>2, <3>4
    <2>2. SubSeq(memory, 1, end) \in Seq(Cells)
      BY <2>1, FrontIs
    <2>3. data' = data \o SubSeq(memory, 1, end) /\ lastFew' = lastFew /\ pc' = "corrupt"
      BY <1>8 DEF Overrun
    <2>4. data' \in Seq(Cells)
      BY <1>1, <2>2, <2>3, ConcatProperties
    <2> QED BY <1>1, <1>3, <1>4, <2>3, <2>4
  <1> QED BY <1>2, <1>6, <1>7, <1>8

LEMMA IterateSearching ==
  ASSUME SearchInv, Iterate
  PROVE  Searching'
  <1>1. Stored /\ Seeking
    BY DEF SearchInv, Inv, Searching, Seeking, Iterate
  <1>2. /\ lastFew' \in Seq(Nat) /\ data' \in Seq(Cells) /\ Buffered' /\ match' = match
        /\ pc' \in {"idle", "scan", "corrupt"}
        /\ pc' = "scan" => Seeking'
    BY <1>1, IterateSeeks
  <1>3. match \in Matches /\ match # <<>> /\ maxLen' \in Limits \cup {0}
    BY <1>1, KeyIs DEF Seeking, SearchInv, Searching, Iterate
  <1> QED BY <1>2, <1>3 DEF Searching, Seeking

LEMMA SearchingStep == SearchInv /\ [Next]_vars => Searching'
  <1> SUFFICES ASSUME SearchInv, [Next]_vars PROVE Searching'
    OBVIOUS
  <1>1. CASE \E key \in Matches, limit \in Limits : Call(key, limit)
    BY <1>1, CallSearching
  <1>2. CASE Iterate
    BY <1>2, IterateSearching
  <1>3. CASE GiveUp
    BY <1>3 DEF GiveUp, SearchInv, Searching, Buffered
  <1>4. CASE UNCHANGED vars
    BY <1>4 DEF vars, SearchInv, Searching, Buffered
  <1> QED BY <1>1, <1>2, <1>3, <1>4 DEF Next

LEMMA SearchHolds == Spec => []SearchInv
  BY InitInv, InvStep, InitSearching, SearchingStep, PTL DEF Spec, SearchInv
-----------------------------------------------------------------------------
(* TypeOK: the buffer keeps its size and the last few bytes theirs, for      *)
(* every size of the buffer, and pushed back bytes never exceed their limit. *)
THEOREM SearchTypes == Spec => []TypeOK
  <1>1. SearchInv => TypeOK
    <2> SUFFICES ASSUME SearchInv PROVE TypeOK
      OBVIOUS
    <2>1. Searching /\ Stored
      BY DEF SearchInv, Inv
    <2>2. match \in Seq(Bytes)
      <3>1. \A key \in Matches : key \in Seq(Bytes)
        BY KeyIs
      <3>2. <<>> \in Seq(Bytes)
        OBVIOUS
      <3> QED BY <2>1, <3>1, <3>2 DEF Searching
    <2>3. buffer \in [1 .. BufferSize -> Bytes \cup {0}]
      <3>1. buffer \in Seq(Cells) /\ Len(buffer) = BufferSize
        BY <2>1 DEF Searching, Buffered
      <3> QED BY <3>1 DEF Cells
    <2>4. /\ \A i \in DOMAIN lastFew : lastFew[i] \in Nat
          /\ \A i \in DOMAIN data : data[i] \in Bytes \cup {0}
      <3>1. lastFew \in Seq(Nat) /\ data \in Seq(Cells)
        BY <2>1 DEF Searching
      <3> QED BY <3>1 DEF Cells
    <2>5. pc = "scan" => Len(lastFew) = Len(match) - 1
      BY <2>1 DEF Searching, Recent
    <2> QED BY <2>1, <2>2, <2>3, <2>4, <2>5 DEF TypeOK, Stored, Searching
  <1> QED BY <1>1, SearchHolds, PTL

(* NoMiss: a search that goes on has not passed over its key, however       *)
(* chunks, limits and pushed back bytes cut it.                             *)
THEOREM KeyNotMissed == Spec => []NoMiss
  <1>1. SearchInv => NoMiss
    BY DEF SearchInv, Searching, NoMiss
  <1> QED BY <1>1, SearchHolds, PTL

(* A search that ends in an iteration has found its first match.            *)
LEMMA IterateFinds ==
  ASSUME Foreign, Stored, Seeking, Iterate, pc' = "idle"
  PROVE  IsSuffix(match, data') /\ ~Occurs(match, SubSeq(data', 1, Len(data') - 1))
  <1>1. /\ match \in Matches /\ data \in Seq(Bytes) /\ pc = "scan"
        /\ Recent(lastFew, match, data) /\ ~Occurs(match, data) /\ match' = match
    BY IterateIs DEF Iterate
  <1>2. PICK chunk \in Seq(Bytes), memory \in Seq(Cells) :
              /\ Begins(memory, chunk)
              /\ LET end == Find(memory, match, Len(chunk), lastFew)
                 IN  \/ end = -1 /\ Keep(chunk)
                     \/ end \in 1 .. Len(chunk) /\ Cut(chunk, end)
                     \/ end > Len(chunk) /\ Overrun(chunk, memory, end)
    BY IterateIs
  <1> DEFINE end == Find(memory, match, Len(chunk), lastFew)
             n == Len(chunk)
  <1>3. end \in 1 .. n /\ Cut(chunk, end)
    BY <1>1, <1>2 DEF Keep, Overrun
  <1> HIDE DEF end
  <1>4. PICK j \in Hits(lastFew, memory, n, match) :
          end = j + Len(match) /\ \A y \in Hits(lastFew, memory, n, match) : j <= y
    <2>1. end # -1 /\ n \in Nat /\ Len(lastFew) = Len(match) - 1
      BY <1>1, <1>3 DEF Recent
    <2> QED BY <1>1, <2>1, FindIs DEF end
  <1>5. data' = data \o SubSeq(chunk, 1, end)
    BY <1>3 DEF Cut
  <1> QED BY <1>1, <1>2, <1>3, <1>4, <1>5, CutSearch

(* A call returns the first match, or has seen none.                        *)
LEMMA FirstStep ==
  ASSUME Foreign
  PROVE  SearchInv /\ FirstMatch /\ [Next]_vars => FirstMatch'
  <1> SUFFICES ASSUME SearchInv, FirstMatch, [Next]_vars PROVE FirstMatch'
    OBVIOUS
  <1>1. CASE \E key \in Matches, limit \in Limits : Call(key, limit)
    BY <1>1 DEF Call, FirstMatch
  <1>2. CASE Iterate
    <2>1. Stored /\ Seeking
      BY <1>2 DEF SearchInv, Inv, Searching, Seeking, Iterate
    <2>2. match' = match
      BY <1>2 DEF Iterate
    <2> QED BY <1>2, <2>1, <2>2, IterateFinds DEF FirstMatch
  <1>3. CASE GiveUp
    <2>1. ~Occurs(match, data) /\ (Len(data) >= maxLen \/ StreamEnded)
      BY <1>3 DEF GiveUp, SearchInv, Searching
    <2>2. UNCHANGED <<match, data, maxLen, unread, wire>>
      BY <1>3 DEF GiveUp
    <2> QED BY <2>1, <2>2 DEF FirstMatch, StreamEnded
  <1>4. CASE UNCHANGED vars
    BY <1>4 DEF vars, FirstMatch, StreamEnded
  <1> QED BY <1>1, <1>2, <1>3, <1>4 DEF Next

(* FirstMatch: a call that returns has read to the end of the first match   *)
(* and no further, or there is none within its limit and the stream, for    *)
(* keys of which the filler is no part.                                     *)
THEOREM FirstKeyFound ==
  ASSUME Foreign
  PROVE  Spec => []FirstMatch
  <1>1. Init => FirstMatch
    BY DEF Init, FirstMatch
  <1>2. SearchInv /\ FirstMatch /\ [Next]_vars => FirstMatch'
    BY FirstStep
  <1> QED BY <1>1, <1>2, SearchHolds, PTL DEF Spec
-----------------------------------------------------------------------------
(* Sequences that begin alike.                                              *)
Words == Seq(Cells)

LEMMA WordsAssociative ==
  \A s, t, u \in Words :
    Cat(s, t) \in Words /\ Cat(Cat(s, t), u) = Cat(s, Cat(t, u))
  BY ConcatAssociative, ConcatProperties, SMTT(30) DEF Words, Cat

LEMMA WordsRegroup ==
  \A g, d, c, t \in Words :
    /\ Cat(g, Cat(d, c)) \in Words
    /\ Cat(g, Cat(d, Cat(c, t))) = Cat(Cat(g, Cat(d, c)), t)
<1> TAKE g, d, c, t \in Words
<1>1. Cat(d, Cat(c, t)) = Cat(Cat(d, c), t) /\ Cat(d, c) \in Words
  BY WordsAssociative
<1>2. Cat(g, Cat(Cat(d, c), t)) = Cat(Cat(g, Cat(d, c)), t) /\ Cat(g, Cat(d, c)) \in Words
  BY <1>1, WordsAssociative
<1> QED BY <1>1, <1>2

LEMMA PrefixIs ==
  ASSUME NEW s \in Seq(Cells), NEW t \in Seq(Cells)
  PROVE  SubSeq(s \o t, 1, Len(s)) = s /\ IsPrefix(s, s \o t)
  <1> DEFINE whole == s \o t
             a == Len(s)
  <1>1. /\ whole \in Seq(Cells) /\ Len(whole) = a + Len(t)
        /\ \A x \in 1 .. a + Len(t) : whole[x] = IF x <= a THEN s[x] ELSE t[x - a]
    BY ConcatProperties
  <1>2. a \in Nat /\ Len(t) \in Nat
    OBVIOUS
  <1> HIDE DEF whole, a
  <1>3. a \in 0 .. Len(whole) /\ \A x \in 1 .. a : whole[x] = s[x]
    BY <1>1, <1>2
  <1>4. /\ SubSeq(whole, 1, a) \in Seq(Cells) /\ Len(SubSeq(whole, 1, a)) = a
        /\ \A x \in 1 .. a : SubSeq(whole, 1, a)[x] = whole[x]
    BY <1>1, <1>3, FrontIs
  <1>5. SubSeq(whole, 1, a) = s
    BY <1>3, <1>4, SeqEqual DEF a
  <1>6. SubSeq(s, 1, Len(s)) = s
    BY SubSeqFull
  <1> QED BY <1>3, <1>5, <1>6 DEF whole, a, IsPrefix

(* The front of a memory that is longer than the chunk.                     *)
LEMMA FrontSplits ==
  ASSUME NEW memory \in Seq(Cells), NEW chunk \in Seq(Cells), Begins(memory, chunk),
         NEW e \in 0 .. Len(memory), Len(chunk) < e
  PROVE  \E t \in Seq(Cells) : SubSeq(memory, 1, e) = chunk \o t /\ Len(t) = e - Len(chunk)
  <1> DEFINE n == Len(chunk)
             t == SubSeq(memory, n + 1, e)
  <1>1. n \in Nat /\ e \in Nat /\ n < e /\ n \in 0 .. Len(memory)
    OBVIOUS
  <1>2. \A x \in n + 1 .. e : memory[x] \in Cells
    BY <1>1
  <1> HIDE DEF n
  <1>3. t \in Seq(Cells) /\ Len(t) = (IF n + 1 <= e THEN e - (n + 1) + 1 ELSE 0)
    BY <1>1, <1>2, SubSeqProperties
  <1>4. Len(t) = e - n
    <2> HIDE DEF t
    <2> QED BY <1>1, <1>3
  <1>5. SubSeq(memory, 1, n) = chunk
    <2>1. /\ SubSeq(memory, 1, n) \in Seq(Cells) /\ Len(SubSeq(memory, 1, n)) = n
          /\ \A x \in 1 .. n : SubSeq(memory, 1, n)[x] = memory[x]
      BY <1>1, FrontIs
    <2>2. \A x \in 1 .. n : memory[x] = chunk[x]
      BY DEF Begins, n
    <2> QED BY <2>1, <2>2, SeqEqual DEF n
  <1>6. SubSeq(memory, 1, n) \o SubSeq(memory, n + 1, e) = SubSeq(memory, 1, e)
    <2>1. /\ 1 \in 1 .. Len(memory) + 1 /\ n \in (1 - 1) .. Len(memory)
          /\ e \in n .. Len(memory)
      BY <1>1
    <2> QED BY <2>1, ConcatAdjacentSubSeq, Zenon
  <1> QED BY <1>3, <1>4, <1>5, <1>6 DEF n

(* A search that runs over its chunk has all the key it returns but the end *)
(* from the stream.                                                         *)
LEMMA OverrunSearch ==
  ASSUME Foreign, SearchInv, Iterate, pc' = "corrupt"
  PROVE  Overruns'
  <1>0. Stored /\ Seeking
    BY DEF SearchInv, Inv, Searching, Seeking, Iterate
  <1>1. /\ match \in Matches /\ data \in Seq(Bytes) /\ data \in Seq(Cells)
        /\ Recent(lastFew, match, data)
        /\ UNCHANGED <<match, sent, given>>
    BY <1>0, IterateIs
  <1>2. PICK chunk \in Seq(Bytes), memory \in Seq(Cells) :
              /\ Len(chunk) <= BufferSize /\ Begins(memory, chunk)
              /\ Len(memory) = BufferSize + Len(match) - 1
              /\ chunk \o (PushedAfter(chunk) \o WireAfter(chunk)) = unread \o wire
              /\ wire' = WireAfter(chunk)
              /\ LET end == Find(memory, match, Len(chunk), lastFew)
                 IN  \/ end = -1 /\ Keep(chunk)
                     \/ end \in 1 .. Len(chunk) /\ Cut(chunk, end)
                     \/ end > Len(chunk) /\ Overrun(chunk, memory, end)
    BY <1>0, IterateIs
  <1> DEFINE e == Find(memory, match, Len(chunk), lastFew)
             n == Len(chunk)
             front == SubSeq(memory, 1, e)
             rest == PushedAfter(chunk) \o WireAfter(chunk)
  <1>3. e > n /\ Overrun(chunk, memory, e)
    BY <1>2 DEF Keep, Cut, Iterate
  <1>4. unread' = PushedAfter(chunk) /\ data' = data \o front /\ unread' \o wire' = rest
    BY <1>2, <1>3 DEF Overrun
  <1>5. n \in Nat /\ Len(match) \in Nat \ {0} /\ Len(lastFew) = Len(match) - 1
        /\ BufferSize \in Nat /\ n <= BufferSize
    BY <1>1, <1>2, KeyIs, Sizes DEF Recent
  <1> HIDE DEF e
  <1>6. PICK j \in Hits(lastFew, memory, n, match) : e = j + Len(match)
    <2>1. e # -1
      BY <1>3, <1>5
    <2> QED BY <1>1, <1>5, <2>1, FindIs DEF e
  <1> HIDE DEF n, rest
  <1>7. /\ j \in Int /\ j + Len(match) >= 1 /\ j < n
        /\ j \in Starts(lastFew, n) /\ MatchesAt(lastFew, memory, j, match)
    BY <1>1, <1>5, <1>6, HitEnds
  <1>8. e \in 0 .. Len(memory) /\ e \in Nat /\ e - n < Len(match)
    BY <1>2, <1>3, <1>5, <1>6, <1>7
  <1>9. chunk \in Seq(Cells) /\ given \in Seq(Cells) /\ match \in Seq(Cells)
    BY <1>1, BytesAreCells, KeyIs DEF SearchInv, Inv, Stored
  <1>10. front \in Seq(Cells) /\ Len(front) = e /\ Begins(memory, front)
    BY <1>8, FrontIs DEF Begins
  <1>11. PICK t \in Seq(Cells) : front = chunk \o t /\ Len(t) = e - n
    BY <1>3, <1>8, <1>9, <1>2, FrontSplits DEF n
  <1> HIDE DEF front
  <1> DEFINE a == given \o (data \o chunk)
             b == given \o (data \o front)
  <1>12. a \in Seq(Cells) /\ b \in Seq(Cells) /\ b = a \o t
    <2>1. /\ given \o (data \o chunk) \in Seq(Cells)
          /\ given \o (data \o (chunk \o t)) = (given \o (data \o chunk)) \o t
      <3>1. data \in Words /\ given \in Words /\ chunk \in Words /\ t \in Words
        BY <1>1, <1>9 DEF Words
      <3>2. /\ Cat(given, Cat(data, chunk)) \in Words
            /\ Cat(given, Cat(data, Cat(chunk, t))) = Cat(Cat(given, Cat(data, chunk)), t)
        BY <3>1, WordsRegroup
      <3> QED BY <3>2, Zenon DEF Cat, Words
    <2> HIDE DEF a
    <2>2. b = a \o t /\ a \in Seq(Cells)
      BY <1>11, <2>1 DEF a
    <2>3. a \o t \in Seq(Cells)
      BY <1>11, <2>2, ConcatProperties
    <2> QED BY <2>2, <2>3
  <1> HIDE DEF a, b
  <1>13. Len(a) \in Nat /\ Len(b) = Len(a) + (e - n)
    <2>1. a \in Seq(Cells) /\ t \in Seq(Cells)
      BY <1>12
    <2>2. Len(a \o t) = Len(a) + Len(t) /\ Len(a) \in Nat
      BY <2>1, ConcatProperties
    <2> QED BY <1>11, <1>12, <2>2
  <1>14. sent = a \o rest /\ rest \in Seq(Cells)
    <2>1. /\ given \in Strings /\ data \in Strings /\ unread \in Strings /\ wire \in Strings
          /\ chunk \in Strings /\ given \o data \o unread \o wire = sent
      BY <1>1 DEF SearchInv, Inv, Stored, Conserved, Iterate, Strings
    <2>2. ((given \o data) \o unread) \o wire = given \o (data \o (unread \o wire))
      <3>1. Cat(Cat(Cat(given, data), unread), wire) = Cat(given, Cat(data, Cat(unread, wire)))
        BY <2>1, Regroup
      <3> QED BY <3>1, Zenon DEF Cat
    <2>3. sent = given \o (data \o (chunk \o rest))
      BY <1>2, <2>1, <2>2 DEF rest
    <2>4. rest \in Seq(Cells)
      <3>1. (unread \o wire)' = rest /\ unread' \in Seq(Bytes) /\ wire' \in Seq(Bytes)
        <4>1. Inv'
          BY IterateStep DEF SearchInv
        <4> QED BY <1>4, <4>1 DEF Inv, Stored
      <3>2. rest \in Seq(Bytes)
        BY <3>1, ConcatProperties
      <3> QED BY <3>2, BytesAreCells
    <2>5. given \o (data \o (chunk \o rest)) = (given \o (data \o chunk)) \o rest
      <3>1. data \in Words /\ given \in Words /\ chunk \in Words /\ rest \in Words
        BY <1>1, <1>9, <2>4 DEF Words
      <3>2. Cat(given, Cat(data, Cat(chunk, rest))) = Cat(Cat(given, Cat(data, chunk)), rest)
        BY <3>1, WordsRegroup
      <3> QED BY <3>2, Zenon DEF Cat
    <2> QED BY <2>3, <2>4, <2>5 DEF a
  <1>15. /\ data \o front \in Seq(Cells) /\ Len(data \o front) = Len(data) + e
         /\ Len(data) \in Nat /\ Len(given) \in Nat
         /\ Len(b) = Len(given) + (Len(data) + e)
         /\ \A x \in 1 .. Len(given) + (Len(data) + e) :
              b[x] = IF x <= Len(given) THEN given[x] ELSE (data \o front)[x - Len(given)]
    <2>1. data \o front \in Seq(Cells) /\ Len(data \o front) = Len(data) + e
      BY <1>1, <1>10, ConcatProperties
    <2> DEFINE d == data \o front
    <2> HIDE DEF d
    <2>2. /\ Len(given \o d) = Len(given) + Len(d)
          /\ \A x \in 1 .. Len(given) + Len(d) :
               (given \o d)[x] = IF x <= Len(given) THEN given[x] ELSE d[x - Len(given)]
      BY <1>9, <2>1, ConcatProperties DEF d
    <2>3. Len(data) \in Nat /\ Len(given) \in Nat
      BY <1>1, <1>9
    <2> QED BY <2>1, <2>2, <2>3 DEF d, b
  <1>16. SubSeq(sent, 1, Len(sent) - Len(rest)) = a
    <2>1. Len(a \o rest) = Len(a) + Len(rest) /\ Len(rest) \in Nat
      BY <1>12, <1>14, ConcatProperties
    <2>2. Len(sent) - Len(rest) = Len(a)
      BY <1>13, <1>14, <2>1
    <2>3. SubSeq(a \o rest, 1, Len(a)) = a
      BY <1>12, <1>14, PrefixIs
    <2> QED BY <1>14, <2>2, <2>3
  <1>17. IsStrictPrefix(a, b)
    <2>1. IsPrefix(a, b)
      BY <1>11, <1>12, PrefixIs
    <2>2. a # b
      BY <1>3, <1>5, <1>8, <1>13
    <2> QED BY <2>1, <2>2 DEF IsStrictPrefix
  <1>18. IsSuffix(match, b)
    <2>1. j \in Starts(lastFew, Len(front)) /\ j + Len(match) <= Len(front)
      BY <1>3, <1>5, <1>6, <1>7, <1>8, <1>10 DEF Starts
    <2>2. Len(data) + j \in Nat /\ OccursAt(match, data \o front, Len(data) + j)
      BY <1>1, <1>7, <1>10, <2>1, HitOccurs
    <2>3. Len(match) <= Len(b) /\ Len(b) - Len(match) = Len(given) + (Len(data) + j)
      BY <1>5, <1>6, <1>7, <1>8, <1>15, <2>2
    <2>4. \A p \in 1 .. Len(match) : b[Len(b) - Len(match) + p] = match[p]
      <3> TAKE p \in 1 .. Len(match)
      <3> DEFINE x == Len(given) + (Len(data) + j) + p
      <3>1. /\ x \in 1 .. Len(given) + (Len(data) + e) /\ ~(x <= Len(given))
            /\ x - Len(given) = Len(data) + j + p
        BY <1>5, <1>6, <1>7, <1>8, <1>15, <2>2, SMTT(30)
      <3>2. b[x] = (data \o front)[Len(data) + j + p]
        BY <1>15, <3>1
      <3> QED BY <2>2, <2>3, <3>2 DEF OccursAt
    <2> QED BY <1>9, <1>12, <2>3, <2>4, EndsWith
  <1>19. (given \o data)' = b
    BY <1>1, <1>4 DEF b
  <1>20. Len(b) - Len(a) < Len(match)
    BY <1>5, <1>8, <1>13
  <1> QED BY <1>1, <1>4, <1>16, <1>17, <1>18, <1>19, <1>20 DEF Overruns

(* Overruns: a search runs over its chunk only where what was read ends     *)
(* within a key, for keys of which the filler is no part.                   *)
THEOREM OverrunsExplained ==
  ASSUME Foreign
  PROVE  Spec => []Overruns
  <1>1. Init => Overruns
    BY DEF Init, Overruns
  <1>2. SearchInv /\ Overruns /\ [Next]_vars => Overruns'
    <2> SUFFICES ASSUME SearchInv, Overruns, [Next]_vars PROVE Overruns'
      OBVIOUS
    <2>1. CASE \E key \in Matches, limit \in Limits : Call(key, limit)
      BY <2>1 DEF Call, Overruns
    <2>2. CASE Iterate
      <3>1. CASE pc' = "corrupt"
        BY <2>2, <3>1, OverrunSearch
      <3>2. CASE pc' # "corrupt"
        BY <3>2 DEF Overruns
      <3> QED BY <3>1, <3>2
    <2>3. CASE GiveUp
      BY <2>3 DEF GiveUp, Overruns
    <2>4. CASE UNCHANGED vars
      BY <2>4 DEF vars, Overruns
    <2> QED BY <2>1, <2>2, <2>3, <2>4 DEF Next
  <1> QED BY <1>1, <1>2, SearchHolds, PTL DEF Spec
=============================================================================
