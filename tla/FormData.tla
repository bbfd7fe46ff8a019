------------------------------ MODULE FormData ------------------------------
(***************************************************************************)
(* parseMultiPartFormData: the calls of readUntilMatch that take a form    *)
(* apart, FileOrString::readFrom that keeps the content of an item in      *)
(* memory or moves it to a file, and the two bytes behind a boundary that  *)
(* tell the last one.  The scanning itself is that of StreamScan, with the *)
(* descriptor and the local arrays of the call as its variables.           *)
(*                                                                         *)
(* Abstractions: a header line is one byte, Mark for the Content-Disposition*)
(* of an item of a form and Field for any other; a file is the sequence of *)
(* bytes written to it; the temporary directory can be written to.  An     *)
(* exception ends the parsing: handleClient answers 500.                   *)
(***************************************************************************)
EXTENDS Naturals, SequencesExt

CONSTANTS
  Dash, Lf, Cr,        (* the bytes '-', '\n', '\r'                         *)
  Mark, Field,         (* header lines: Content-Disposition, any other      *)
  Bytes,               (* all bytes peers send                              *)
  Boundary,            (* the boundary the request's header announces       *)
  Contents,            (* contents of items                                 *)
  MaxItems,            (* bound: items of a form                            *)
  MayCut,              (* may the stream end within the form?               *)
  IgnoreLimit,         (* 1 KB, the limit of ignoreStreamUntil              *)
  HeaderLimit,         (* 8 KB, the default limit of readUntilMatch         *)
  MemoryLimit,         (* BYTES_TO_STORE_IN_MEMORY                          *)
  BufferSize,          (* BUFFER_SIZE                                       *)
  MaxUnread            (* MAX_UNREAD_BYTES_COUNT                            *)

CrLf == <<Cr, Lf>>
BlankLine == CrLf \o CrLf
Dashes == <<Dash, Dash>>
FirstBoundary == Dashes \o Boundary
RealBoundary == CrLf \o FirstBoundary

VARIABLES
  stage,    (* what the parser does with the call's result                  *)
  items,    (* the contents of the items parsed: [content, isFile]          *)
  file,     (* what FileOrString wrote to its file                          *)
  form,     (* history: the contents sent                                   *)
  short,    (* history: did the two bytes behind a boundary come short?     *)
  pc, wire, unread, buffer, lastFew, data, match, maxLen, sent, given

Scan == INSTANCE StreamScan WITH
          Streams <- {}, Matches <- {FirstBoundary, CrLf, BlankLine, RealBoundary},
          Limits <- {IgnoreLimit, HeaderLimit, MemoryLimit}

(* The boundary has no carriage return and does not end in '.', contents do *)
(* not contain it behind an end of line, nor a header line right behind a   *)
(* carriage return, and the limits hold it and the header of an item.       *)
ASSUME FormConstants ==
  /\ {Dash, Lf, Cr, Mark, Field} \subseteq Bytes /\ Bytes \subseteq Nat \ {0}
  /\ Dash \notin {Lf, Cr, Mark, Field} /\ Lf \notin {Cr, Cr + 1, Mark, Field}
  /\ Cr \notin {Mark, Field} /\ Mark # Field
  /\ Boundary \in Seq(Bytes \ {Cr}) \ {<<>>} /\ Last(Boundary) \notin {Dash + 1, Cr + 1}
  /\ Contents \subseteq Seq(Bytes)
  /\ \A content \in Contents :
       /\ ~Scan!Occurs(RealBoundary, content)
       /\ \A line \in {Mark, Field} : ~Scan!Occurs(<<Cr, line>>, content)
  /\ MaxItems \in Nat /\ MayCut \in BOOLEAN
  /\ BufferSize \in Nat \ {0} /\ MaxUnread \in Nat
  /\ MaxUnread >= BufferSize /\ MaxUnread >= Len(Dashes)
  /\ IgnoreLimit \in Nat /\ IgnoreLimit >= Len(FirstBoundary)
  /\ HeaderLimit \in Nat /\ HeaderLimit >= Len(CrLf \o BlankLine)
  /\ MemoryLimit \in Nat \ {0} /\ MemoryLimit >= Len(RealBoundary) - 1

formVars == <<stage, items, file, form, short>>
scanVars == <<pc, wire, unread, buffer, lastFew, data, match, maxLen, sent, given>>
vars == <<formVars, scanVars>>
-----------------------------------------------------------------------------
(* The body of a request as browsers send it.                               *)
Item(content, last) ==
  <<Mark>> \o BlankLine \o content \o RealBoundary
    \o (IF last THEN Dashes ELSE <<>>) \o CrLf
Body(contents) ==
  FirstBoundary \o CrLf
    \o FlattenSeq([i \in DOMAIN contents |-> Item(contents[i], i = Len(contents))])

cut == sent # Body(form)

Init ==
  /\ stage = "start" /\ items = <<>> /\ file = <<>> /\ short = FALSE
  /\ form \in UNION {[1 .. n -> Contents] : n \in 1 .. MaxItems}
  /\ \E n \in 0 .. Len(Body(form)) :
       /\ ~MayCut => n = Len(Body(form))
       /\ sent = SubSeq(Body(form), 1, n)
  /\ pc = "idle" /\ wire = sent
  /\ unread = <<>> /\ data = <<>> /\ given = <<>>
  /\ buffer = <<>> /\ lastFew = <<>> /\ match = <<>> /\ maxLen = 0

(* readUntilMatch has returned, with or without its key.                    *)
Returned(s) == stage = s /\ pc = "idle"
Found == Scan!Occurs(match, data)

(* The parser goes on with a call of readUntilMatch.                        *)
CallIn(s, key, limit) ==
  /\ Scan!Call(key, limit)
  /\ stage' = s
  /\ UNCHANGED <<form, short>>

(* Iterations and the return of a call that is running.                     *)
Scanning ==
  /\ Scan!Iterate \/ Scan!GiveUp
  /\ UNCHANGED formVars

Start_RealBoundary ==
  /\ Returned("start")
  /\ CallIn("preamble", RealBoundary, IgnoreLimit)
  /\ UNCHANGED <<items, file>>
Start ==
  /\ Returned("start")
  /\ CallIn("preamble", FirstBoundary, IgnoreLimit)
  /\ UNCHANGED <<items, file>>

(* ignoreStreamUntil calls again until the key has been read.               *)
IgnoreMore ==
  /\ Returned("preamble") \/ Returned("preambleEol")
  /\ ~Found
  /\ CallIn(stage, match, IgnoreLimit)
  /\ UNCHANGED <<items, file>>

IgnoreEol ==
  /\ Returned("preamble") /\ Found
  /\ CallIn("preambleEol", CrLf, IgnoreLimit)
  /\ UNCHANGED <<items, file>>

ReadHeader ==
  /\ (Returned("preambleEol") /\ Found) \/ Returned("eol")
  /\ CallIn("header", BlankLine, HeaderLimit)
  /\ UNCHANGED <<items, file>>

Throw ==
  /\ stage' = "failed"
  /\ UNCHANGED <<items, file, form, short, scanVars>>

(* parseHttpHeader: the first line begins the header, another one two bytes *)
(* behind the first carriage return after a ':'.  The parser throws if a    *)
(* line with a ':' does not end, and if none is a Content-Disposition.      *)
LinesIn(header) == {i \in DOMAIN header : header[i] \in {Mark, Field}}
EndsIn(header) ==
  {i \in DOMAIN header :
     /\ header[i] = Cr
     /\ \E line \in LinesIn(header) : line < i /\ \A j \in line .. i - 1 : header[j] # Cr}
Described(header) ==
  /\ \A line \in LinesIn(header) : \E i \in EndsIn(header) : line < i
  /\ \E start \in {1} \cup {i + 2 : i \in EndsIn(header)} :
       start \in DOMAIN header /\ header[start] = Mark
ReadContent_NoLimit ==
  /\ Returned("header")
  /\ IF Described(data)
     THEN CallIn("content", RealBoundary, HeaderLimit) /\ UNCHANGED <<items, file>>
     ELSE Throw
ReadContent ==
  /\ Returned("header")
  /\ IF Described(data)
     THEN CallIn("content", RealBoundary, MemoryLimit) /\ UNCHANGED <<items, file>>
     ELSE Throw
-----------------------------------------------------------------------------
(* FileOrString::readFrom.                                                  *)

Deliver(content, isFile) ==
  /\ items' = Append(items, [content |-> content, isFile |-> isFile])
  /\ stage' = "tail"

(* Content and boundary fit within the limit.                               *)
KeepInMemory ==
  /\ Returned("content") /\ Found
  /\ Deliver(SubSeq(data, 1, Len(data) - Len(match)), FALSE)
  /\ UNCHANGED <<file, form, short, scanVars>>

(* Otherwise a file is opened and the search goes on behind what was read.  *)
(* Too little for the last few bytes: string's constructor throws.          *)
LastFew_New(s) == Scan!Filler(match)
LastFew(s) == Scan!Drop(s, Len(s) - (Len(match) - 1))
Spill ==
  /\ Returned("content") /\ ~Found
  /\ IF Len(data) < Len(match) - 1 THEN Throw
     ELSE /\ stage' = "file"
          /\ file' = <<>>
          /\ lastFew' = LastFew(data)
          /\ buffer' = <<>>
          /\ UNCHANGED <<items, form, short, pc, wire, unread, data, match, maxLen, sent, given>>

(* All but the last bytes, which may belong to the boundary, are written.   *)
Beyond(s) == IF Len(s) > Len(match) THEN Len(s) - Len(match) ELSE 0
Written_All(s) == file \o s
Written(s) == file \o SubSeq(s, 1, Beyond(s))
Kept_All(s) == s
Kept(s) == Scan!Drop(s, Beyond(s))

(* The loop over the chunks that follow.                                    *)
SpillMore ==
  /\ stage = "file"
  /\ \E chunk \in Scan!Chunks(BufferSize) :
     \E memory \in Scan!Memories(chunk, match) :
       LET end == Scan!Find(memory, match, Len(chunk), lastFew)
           whole == data \o chunk
           upTo == data \o SubSeq(chunk, 1, end)
       IN  /\ buffer' = Scan!Filled(chunk)
           /\ wire' = Scan!WireAfter(chunk)
           /\ \/ /\ end = -1
                 /\ file' = Written(whole) /\ data' = Kept(whole)
                 /\ lastFew' = Scan!Fill(lastFew, chunk)
                 /\ unread' = Scan!PushedAfter(chunk)
                 /\ UNCHANGED <<stage, items, pc, given>>
              \/ /\ end \in 1 .. Len(chunk)
                 /\ file' = Written(upTo) /\ data' = Kept(upTo)
                 /\ unread' = Scan!PushBack(Scan!PushedAfter(chunk), Scan!Drop(chunk, end))
                 /\ Deliver(file', TRUE)
                 /\ given' = given \o file'
                 /\ UNCHANGED <<lastFew, pc>>
              \/ /\ end > Len(chunk)
                 /\ pc' = "corrupt" /\ stage' = "corrupt"
                 /\ data' = data \o SubSeq(memory, 1, end)
                 /\ unread' = Scan!PushedAfter(chunk)
                 /\ UNCHANGED <<items, file, lastFew, given>>
  /\ UNCHANGED <<form, short, match, maxLen, sent>>

(* read() returned 0 or -1.                                                 *)
SpillEnds ==
  /\ stage = "file" /\ Scan!StreamEnded
  /\ file' = Written(data) /\ data' = Kept(data)
  /\ Deliver(file', TRUE)
  /\ given' = given \o file'
  /\ UNCHANGED <<form, short, pc, wire, unread, buffer, lastFew, match, maxLen, sent>>
-----------------------------------------------------------------------------
(* The two bytes behind the boundary: one read(), which may return less.    *)
TwoBytes(chunk) == chunk \o [i \in 1 .. 2 - Len(chunk) |-> 0]
Tails == IF Scan!StreamEnded THEN {<<>>} ELSE Scan!Chunks(2)

ReadTail ==
  /\ stage = "tail"
  /\ \E chunk \in Tails :
       /\ wire' = Scan!WireAfter(chunk)
       /\ short' = (short \/ Len(chunk) < 2)
       /\ IF TwoBytes(chunk) = Dashes
          THEN /\ stage' = "done"
               /\ unread' = Scan!PushedAfter(chunk)
               /\ data' = data \o chunk
          ELSE /\ stage' = "boundaryEol"
               /\ unread' = Scan!PushBack(Scan!PushedAfter(chunk), TwoBytes(chunk))
               /\ UNCHANGED data
  /\ UNCHANGED <<items, file, form, pc, buffer, lastFew, match, maxLen, sent, given>>

SkipEol_None ==
  /\ stage = "boundaryEol"
  /\ CallIn("header", BlankLine, HeaderLimit)
  /\ UNCHANGED <<items, file>>
SkipEol ==
  /\ stage = "boundaryEol"
  /\ CallIn("eol", CrLf, HeaderLimit)
  /\ UNCHANGED <<items, file>>

(* Parsed, refused, or beyond the defined behaviour of the search.          *)
Ended == stage \in {"done", "failed"} \/ pc = "corrupt"
Rest == Ended /\ UNCHANGED vars

Next ==
  \/ Scanning \/ Start \/ IgnoreMore \/ IgnoreEol \/ ReadHeader \/ ReadContent
  \/ KeepInMemory \/ Spill \/ SpillMore \/ SpillEnds
  \/ ReadTail \/ SkipEol \/ Rest

(* The peer sends all of its stream and the handler's thread is scheduled.  *)
Spec == Init /\ [][Next]_vars
FairSpec == Spec /\ WF_vars(Next)
-----------------------------------------------------------------------------
(* Types and sizes: what is pushed back has room, and what waits for a      *)
(* boundary in the loop of FileOrString is no longer than one.              *)
TypeOK ==
  /\ stage \in {"start", "preamble", "preambleEol", "header", "content", "file",
                "tail", "boundaryEol", "eol", "done", "failed", "corrupt"}
  /\ Len(unread) <= MaxUnread
  /\ stage = "file" => Len(lastFew) = Len(match) - 1
  /\ stage = "file" /\ file # <<>> => Len(data) = Len(match)
  /\ \A i \in DOMAIN items : items[i].isFile \in BOOLEAN

(* As long as the two bytes behind each boundary came together, an item of  *)
(* a whole form is in memory if it and the boundary behind it fit within    *)
(* BYTES_TO_STORE_IN_MEMORY, and in a file if it alone does not, however    *)
(* its bytes arrive.  Nothing is said of the items between, of which        *)
(* README.md:231 says the one and FileOrString.cpp:7 does the other.        *)
Placed ==
  \A i \in DOMAIN items :
    ~cut /\ ~short =>
      LET size == Len(items[i].content)
      IN  /\ size + Len(RealBoundary) <= MemoryLimit => ~items[i].isFile
          /\ size >= MemoryLimit => items[i].isFile

(* The parser takes the stream apart without losing, doubling or moving a   *)
(* byte: what it has used, what it has written to a file, what waits, what  *)
(* it pushed back and what is to come is what was sent.  Bytes nobody sent  *)
(* come in only when two bytes came short, and then they are NULs.          *)
All == given \o (IF stage = "file" THEN file ELSE <<>>) \o data \o unread \o wire
Conserved ==
  pc # "corrupt" =>
    IF short THEN SelectSeq(All, LAMBDA byte : byte # 0) = sent ELSE All = sent

(* The parser implements FormDelivery: items arrive in order and whole, and *)
(* a form is complete only with all of them, until two bytes behind a       *)
(* boundary come short or the search runs over the end of its chunk.        *)
Delivery == INSTANCE FormDelivery WITH
  arrived <- [i \in DOMAIN items |-> items[i].content],
  outcome <- IF short \/ pc = "corrupt" THEN "astray"
             ELSE IF stage = "done" THEN "complete"
             ELSE IF Ended THEN "givenUp" ELSE "open"
Delivers == Delivery!Spec

(* A whole form is refused only when the two bytes behind a boundary came   *)
(* one by one, which leaves a NUL in the stream.                            *)
Recognised == stage = "failed" /\ ~cut => short

(* The parser comes to an end with every whole form: no loop of it waits    *)
(* for bytes that were read or pushed back in a wrong place.                *)
Concludes == ~cut => <>Ended
=============================================================================
