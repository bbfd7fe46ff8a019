----------------------------- MODULE StreamScan -----------------------------
(***************************************************************************)
(* readUntilMatch over a StreamDescriptor: the bytes of a peer arrive in   *)
(* chunks of any size, the buffer is searched together with the last few   *)
(* bytes of earlier chunks, and what was read beyond the match is pushed   *)
(* back into the descriptor, whose next reads return it first.             *)
(*                                                                         *)
(* The search compares whole keys from every byte of the chunk, so near    *)
(* the end of a chunk it also sees what an earlier chunk left in the       *)
(* buffer, and the memory behind the buffer.  A match that ends there is   *)
(* "corrupt": the length of what is to be pushed back is negative, unread()*)
(* takes it for a huge one, and the run of the model stops.                *)
(*                                                                         *)
(* Abstractions: bytes are small numbers; a peer that stops sending or     *)
(* breaks the connection is a stream that ends; a caller that waits for    *)
(* bytes takes no step.                                                    *)
(***************************************************************************)
EXTENDS Integers, SequencesExt

CONSTANTS
  Bytes,       (* the bytes peers send; 0 is NUL                            *)
  Streams,     (* all that a peer sends until its stream ends               *)
  Matches,     (* the keys callers search for                               *)
  Limits,      (* the values of maxLen                                      *)
  BufferSize,  (* BUFFER_SIZE                                               *)
  MaxUnread    (* MAX_UNREAD_BYTES_COUNT                                    *)

ASSUME ScanConstants ==
  /\ Bytes \subseteq Nat
  /\ Streams \subseteq Seq(Bytes)
  /\ Matches \subseteq Seq(Bytes \ {0}) \ {<<>>}
  /\ Limits \subseteq Nat \ {0}
  /\ BufferSize \in Nat \ {0}
  /\ MaxUnread \in Nat /\ MaxUnread >= BufferSize

VARIABLES
  pc,       (* "idle" between calls, "scan" in the loop, or "corrupt"       *)
  wire,     (* sent and not yet read from the descriptor                    *)
  unread,   (* unreadBytes: pushed back                                     *)
  buffer,   (* the local array buffer                                       *)
  lastFew,  (* the last Len(match) - 1 bytes of earlier chunks              *)
  data,     (* what the call returns                                        *)
  match,    (* the key of the call                                          *)
  maxLen,   (* its limit                                                    *)
  sent,     (* history: the whole stream                                    *)
  given     (* history: what earlier calls returned                         *)

vars == <<pc, wire, unread, buffer, lastFew, data, match, maxLen, sent, given>>
-----------------------------------------------------------------------------
Least(a, b) == IF a < b THEN a ELSE b

(* All of s but its first n.                                                *)
Drop(s, n) == SubSeq(s, n + 1, Len(s))

(* ArrayJoiner: negative indices count back from the end of the first.     *)
Joined(first, second, i) ==
  IF i < 0 THEN first[Len(first) + i + 1] ELSE second[i + 1]

MatchesAt_SkipsFirst(first, second, j, key) ==
  \A i \in 1 .. Len(key) - 1 : Joined(first, second, i + j) = key[i + 1]
MatchesAt(first, second, j, key) ==
  \A i \in 0 .. Len(key) - 1 : Joined(first, second, i + j) = key[i + 1]

(* find(): where the first match ends that starts in the last few bytes or *)
(* in the n new ones, or -1.                                                *)
Starts_NoOverlap(few, n) == 0 .. n - 1
Starts(few, n) == -Len(few) .. n - 1
Find_Last(memory, key, n, few) ==
  LET hits == {j \in Starts(few, n) : MatchesAt(few, memory, j, key)}
  IN  IF hits = {} THEN -1 ELSE Max(hits) + Len(key)
Find(memory, key, n, few) ==
  LET hits == {j \in Starts(few, n) : MatchesAt(few, memory, j, key)}
  IN  IF hits = {} THEN -1 ELSE Min(hits) + Len(key)

(* fill(): shift the last few bytes and put the chunk behind them.         *)
Fill_WholeChunk(few, chunk) ==
  IF Len(few) > Len(chunk) THEN Drop(few, Len(chunk)) \o chunk ELSE chunk
Fill(few, chunk) ==
  IF Len(few) > Len(chunk) THEN Drop(few, Len(chunk)) \o chunk
  ELSE Drop(chunk, Len(chunk) - Len(few))

(* The last few bytes of nothing: one less than the last byte of the key.  *)
Filler(key) == [i \in 1 .. Len(key) - 1 |-> Last(key) - 1]

(* StreamDescriptor::unread: back to the front, as far as there is room.   *)
PushBack_Behind(pushed, bytes) ==
  pushed \o SubSeq(bytes, 1, Least(Len(bytes), MaxUnread - Len(pushed)))
PushBack(pushed, bytes) ==
  SubSeq(bytes, 1, Least(Len(bytes), MaxUnread - Len(pushed))) \o pushed

(* StreamDescriptor::read of at most n bytes: what was pushed back, or as  *)
(* much as has arrived.                                                     *)
Chunks(n) ==
  IF unread # <<>> THEN {SubSeq(unread, 1, Least(n, Len(unread)))}
  ELSE {SubSeq(wire, 1, k) : k \in 1 .. Least(n, Len(wire))}
PushedAfter(chunk) == IF unread # <<>> THEN Drop(unread, Len(chunk)) ELSE <<>>
WireAfter(chunk) == IF unread # <<>> THEN wire ELSE Drop(wire, Len(chunk))

(* The buffer with a chunk in it: behind the chunk is what was there.      *)
Filled(chunk) == chunk \o Drop(buffer, Len(chunk))

(* The memory the search of a chunk may look at.  Behind the known bytes of *)
(* the buffer is anything; all that matters is how much of the end of the   *)
(* key it happens to continue with.                                         *)
Memories(chunk, key) ==
  LET behind == Len(key) - 1
      known == Len(Filled(chunk)) - Len(chunk)
      Ending(t) == [i \in 1 .. behind |->
                      IF i <= t THEN key[Len(key) - t + i] ELSE 0]
  IN  {Filled(chunk) \o Ending(t) : t \in 0 .. (IF known < behind THEN behind ELSE 0)}
-----------------------------------------------------------------------------
Init ==
  /\ pc = "idle"
  /\ sent \in Streams /\ wire = sent
  /\ unread = <<>> /\ data = <<>> /\ given = <<>>
  /\ buffer = [i \in 1 .. BufferSize |-> 0]
  /\ lastFew = <<>> /\ match = <<>> /\ maxLen = 0

(* A call with a key and a limit; its arrays are new.                       *)
Call(key, limit) ==
  /\ pc = "idle"
  /\ pc' = "scan"
  /\ match' = key /\ maxLen' = limit
  /\ buffer' = [i \in 1 .. BufferSize |-> 0]
  /\ lastFew' = Filler(key)
  /\ data' = <<>> /\ given' = given \o data
  /\ UNCHANGED <<wire, unread, sent>>

(* The chunk has no match: keep it and remember its last few bytes.        *)
Keep(chunk) ==
  /\ data' = data \o chunk
  /\ lastFew' = Fill(lastFew, chunk)
  /\ unread' = PushedAfter(chunk)
  /\ UNCHANGED pc

(* The match ends after n bytes of the chunk: return up to there.          *)
Cut(chunk, n) ==
  /\ data' = data \o SubSeq(chunk, 1, n)
  /\ unread' = PushBack(PushedAfter(chunk), Drop(chunk, n))
  /\ pc' = "idle"
  /\ UNCHANGED lastFew

(* The match ends behind the chunk.                                         *)
Overrun(chunk, memory, n) ==
  /\ data' = data \o SubSeq(memory, 1, n)
  /\ unread' = PushedAfter(chunk)
  /\ pc' = "corrupt"
  /\ UNCHANGED lastFew

(* What an iteration does with the n bytes it may ask for.                 *)
Search(n) ==
  \E chunk \in Chunks(n) : \E memory \in Memories(chunk, match) :
    LET end == Find(memory, match, Len(chunk), lastFew)
    IN  /\ buffer' = Filled(chunk)
        /\ wire' = WireAfter(chunk)
        /\ \/ end = -1 /\ Keep(chunk)
           \/ end \in 1 .. Len(chunk) /\ Cut(chunk, end)
           \/ end > Len(chunk) /\ Overrun(chunk, memory, end)

Iterate ==
  /\ pc = "scan" /\ Len(data) < maxLen
  /\ Search(Least(BufferSize, maxLen - Len(data)))
  /\ UNCHANGED <<match, maxLen, sent, given>>

(* The limit is reached, or read() returned 0 or -1.                        *)
StreamEnded == unread = <<>> /\ wire = <<>>
GiveUp ==
  /\ pc = "scan"
  /\ Len(data) >= maxLen \/ StreamEnded
  /\ pc' = "idle"
  /\ UNCHANGED <<wire, unread, buffer, lastFew, data, match, maxLen, sent, given>>

Next ==
  \/ \E key \in Matches, limit \in Limits : Call(key, limit)
  \/ Iterate
  \/ GiveUp

Spec == Init /\ [][Next]_vars
-----------------------------------------------------------------------------
(* Types and sizes: find() relies on the length of the last few bytes.     *)
TypeOK ==
  /\ pc \in {"idle", "scan", "corrupt"}
  /\ {wire, sent, match, given} \subseteq Seq(Bytes)
  /\ unread \in Seq(Bytes) /\ Len(unread) <= MaxUnread
  /\ buffer \in [1 .. BufferSize -> Bytes \cup {0}]
  /\ \A i \in DOMAIN lastFew : lastFew[i] \in Nat
  /\ pc = "scan" => Len(lastFew) = Len(match) - 1
  /\ \A i \in DOMAIN data : data[i] \in Bytes \cup {0}
  /\ maxLen \in Limits \cup {0}

Occurs(key, s) == \E i \in 0 .. Len(s) - Len(key) : SubSeq(s, i + 1, i + Len(key)) = key

(* A match is never passed over, however chunks and pushed back bytes cut  *)
(* it: a search that goes on has not seen one.                              *)
NoMiss == pc = "scan" => ~Occurs(match, data)

(* A call that returns has read to the end of the first match and no       *)
(* further, or there is none within its limit and the stream.               *)
FirstMatch ==
  pc = "idle" /\ match # <<>> =>
    \/ IsSuffix(match, data) /\ ~Occurs(match, SubSeq(data, 1, Len(data) - 1))
    \/ ~Occurs(match, data) /\ (Len(data) >= maxLen \/ StreamEnded)

(* No byte is lost, doubled or reordered between calls: what calls         *)
(* returned, what was pushed back and what is still to come is what was     *)
(* sent.                                                                    *)
Conserved == pc # "corrupt" => given \o data \o unread \o wire = sent

(* A search runs over the end of its chunk only where the stream so far     *)
(* ends within a key; then the call adds the rest of that key, which nobody *)
(* sent.  Old bytes of the buffer do no harm anywhere else.                 *)
Overruns ==
  pc = "corrupt" =>
    LET read == SubSeq(sent, 1, Len(sent) - Len(unread \o wire))
        returned == given \o data
    IN  /\ IsStrictPrefix(read, returned) /\ IsSuffix(match, returned)
        /\ Len(returned) - Len(read) < Len(match)
=============================================================================
