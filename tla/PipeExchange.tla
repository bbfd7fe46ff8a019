---------------------------- MODULE PipeExchange ----------------------------
(***************************************************************************)
(* One exchange with a module: Process::run writes the whole request to the *)
(* module's standard input before anything is read from its output,         *)
(* parseProcessResponse reads up to the first blank line and decides what   *)
(* the output is, and the response relays the rest of it, or a range of a   *)
(* file, to the client.  A pipe holds Capacity bytes; the end that writes   *)
(* the input stays open until the handler is done.                          *)
(*                                                                         *)
(* Abstractions: bytes are small numbers; a metadata object is one byte;    *)
(* the input is a number of bytes; only the module and the handler hold the *)
(* pipes (RequestHandler has the copies other modules inherit).  The search *)
(* for the blank line ends at the first one, as StreamScan shows, unless it *)
(* runs over the end of its chunk: it compares whole keys from every byte   *)
(* of the chunk, and what an earlier chunk left in the buffer, or the       *)
(* memory behind it, may complete one.  Then it returns a byte nobody has   *)
(* printed and pushes back as much memory as fits, since a length of -1     *)
(* becomes a huge one.  What that memory holds is one byte, Junk.           *)
(***************************************************************************)
EXTENDS Naturals, SequencesExt

CONSTANTS
  None,       (* no length, no file                                          *)
  Lf,         (* the byte '\n'                                               *)
  Plain,      (* bytes that are neither white space nor metadata             *)
  Junk,       (* a byte of memory that is no output                          *)
  Inline,     (* metadata of inline data: the byte -> its "length"           *)
  Ranges,     (* metadata of a file: the byte -> its [offset, limit]         *)
  Exchanges,  (* [manner, input, output, file]: how the module treats its    *)
              (* input, the length of that, what it prints, the file it names *)
  MayBreak,   (* may the client go away?                                     *)
  Capacity,   (* bytes a pipe holds                                          *)
  BufferSize, (* BUFFER_SIZE                                                 *)
  MetaLimit,  (* 8 KB, the limit for the metadata                            *)
  MaxUnread,  (* MAX_UNREAD_BYTES_COUNT                                      *)
  UintMod     (* 2^64, the modulus of uint_least64_t                         *)

Bytes == {Lf, Junk} \cup Plain \cup DOMAIN Inline \cup DOMAIN Ranges

(* "line": reads all of its input, which is one line, and then writes;       *)
(* "mixed": reads and writes in any order; "ignore": never reads; "eof":     *)
(* reads to the end of its input, and then writes.                           *)
Manners == {"line", "mixed", "ignore", "eof"}

ASSUME ExchangeConstants ==
  /\ None \notin Nat /\ Bytes \subseteq Nat \ {0}
  /\ {Capacity, BufferSize, MetaLimit, UintMod} \subseteq Nat \ {0}
  /\ MaxUnread \in Nat /\ MetaLimit <= MaxUnread
  /\ \A h \in DOMAIN Inline : Inline[h] \in Nat
  /\ \A h \in DOMAIN Ranges :
       Ranges[h].offset \in 0 .. UintMod - 1 /\ Ranges[h].limit \in 0 .. UintMod - 2
  /\ \A x \in Exchanges :
       /\ x.manner \in Manners /\ x.input \in Nat
       /\ x.output \in Seq(Bytes)
       /\ x.file # None => x.file \in Seq(Bytes) /\ Len(x.file) < UintMod
  /\ MayBreak \in BOOLEAN

VARIABLES
  exchange,  (* the exchange                                                 *)
  pc,        (* where the handler is                                         *)
  toWrite,   (* bytes of the input still to be written                       *)
  inPipe,    (* bytes of it in the pipe                                      *)
  outPipe,   (* output in the pipe                                           *)
  rest,      (* output the module has not printed yet                        *)
  alive,     (* the module has not ended                                     *)
  data,      (* rawMetaData                                                  *)
  buffer,    (* the array of readUntilMatch                                  *)
  unread,    (* unreadBytes of the descriptor                                *)
  length,    (* bytes to be sent, which is the Content-Length, or None       *)
  begin,     (* FileResponse::begin, or None: relay the output               *)
  received,  (* what the client has received of the body                     *)
  garbled    (* history: the search ran over the end of its chunk            *)

handlerVars == <<pc, data, buffer, unread, length, begin, received, garbled>>
moduleVars == <<rest, alive>>
vars == <<exchange, toWrite, inPipe, outPipe, moduleVars, handlerVars>>
-----------------------------------------------------------------------------
Smaller(a, b) == IF a < b THEN a ELSE b
Drop(s, n) == SubSeq(s, n + 1, Len(s))

(* Where the first blank line of s ends, or 0.                              *)
BlankLineEnd(s) ==
  LET ends == {i \in 2 .. Len(s) : s[i] = Lf /\ s[i - 1] = Lf}
  IN  IF ends = {} THEN 0 ELSE Min(ends)

(* boost::trim: without the white space around it.                          *)
Trim(s) ==
  LET solid == {i \in DOMAIN s : s[i] # Lf}
  IN  IF solid = {} THEN <<>> ELSE SubSeq(s, Min(solid), Max(solid))

(* StreamDescriptor::unread: to the front, as far as there is room.         *)
PushBack_Behind(pushed, bytes) ==
  pushed \o SubSeq(bytes, 1, Smaller(Len(bytes), MaxUnread - Len(pushed)))
PushBack(pushed, bytes) ==
  SubSeq(bytes, 1, Smaller(Len(bytes), MaxUnread - Len(pushed))) \o pushed

(* FileResponse: the last byte of the range, and its length, both unsigned. *)
(* tellg() is -1 for a file that cannot be opened.                          *)
FileSize == IF exchange.file = None THEN UintMod - 1 ELSE Len(exchange.file)
LastByte(range) ==
  IF range.limit = 0 THEN (FileSize + UintMod - 1) % UintMod ELSE range.limit
FileLength(range) ==
  (LastByte(range) + UintMod - range.offset + 1) % UintMod

(* A new array of characters.                                               *)
Blank == [i \in 1 .. BufferSize |-> 0]

Init ==
  /\ exchange \in Exchanges
  /\ pc = "write" /\ toWrite = exchange.input
  /\ inPipe = 0 /\ outPipe = <<>>
  /\ rest = exchange.output /\ alive = TRUE
  /\ data = <<>> /\ unread = <<>> /\ received = <<>>
  /\ length = None /\ begin = None
  /\ buffer = Blank /\ garbled = FALSE
-----------------------------------------------------------------------------
(* The handler.                                                             *)

Ended == pc \in {"done", "broken", "dead"}

(* The write loop of Process::run: write() blocks while the pipe is full,   *)
(* and raises SIGPIPE, which nothing ignores, when the module has ended.    *)
WriteInput ==
  /\ pc = "write" /\ toWrite > 0 /\ alive
  /\ \E n \in 1 .. Smaller(toWrite, Capacity - inPipe) :
       toWrite' = toWrite - n /\ inPipe' = inPipe + n
  /\ UNCHANGED <<exchange, outPipe, moduleVars, handlerVars>>
SigPipe ==
  /\ pc = "write" /\ toWrite > 0 /\ ~alive
  /\ pc' = "dead"
  /\ UNCHANGED <<data, buffer, unread, length, begin, received, garbled>>
InputWritten ==
  /\ pc = "write" /\ toWrite = 0
  /\ pc' = "metadata"
  /\ UNCHANGED <<data, buffer, unread, length, begin, received, garbled>>

(* StreamDescriptor::read of at most n bytes: what was pushed back, or what *)
(* is in the pipe; 0 when that is empty and the module has ended.           *)
Chunks(n) ==
  IF unread # <<>> THEN {SubSeq(unread, 1, Smaller(n, Len(unread)))}
  ELSE {SubSeq(outPipe, 1, k) : k \in 1 .. Smaller(n, Len(outPipe))}
PushedAfter(chunk) == IF unread # <<>> THEN Drop(unread, Len(chunk)) ELSE <<>>
Take(chunk) == outPipe' = IF unread # <<>> THEN outPipe ELSE Drop(outPipe, Len(chunk))
AtEnd_OwnEnd == FALSE
AtEnd_Early == unread = <<>> /\ outPipe = <<>>
AtEnd == unread = <<>> /\ outPipe = <<>> /\ ~alive

(* readUntilMatch(descriptor, "\n\n", 8 * KB): a chunk has no blank line and *)
(* is kept; or is cut behind the blank line; or ends in a newline, and the  *)
(* memory behind it happens to go on with another one.                      *)
MetaAsk_Whole == BufferSize
MetaAsk == Smaller(BufferSize, MetaLimit - Len(data))
Behind_NoZeros(chunk) == {0, Lf}
Behind(chunk) == IF Len(chunk) < BufferSize THEN {buffer[Len(chunk) + 1]} ELSE {0, Lf}
Fill(pushed) == [i \in 1 .. MaxUnread - Len(pushed) |-> Junk] \o pushed
Keep(chunk, behind) ==
  /\ BlankLineEnd(data \o chunk) = 0 /\ ~(Last(chunk) = Lf /\ behind = Lf)
  /\ data' = data \o chunk /\ unread' = PushedAfter(chunk)
  /\ buffer' = chunk \o Drop(buffer, Len(chunk))
  /\ UNCHANGED <<pc, garbled>>
Cut(chunk) ==
  LET whole == data \o chunk
      end == BlankLineEnd(whole)
  IN  /\ end > 0
      /\ data' = SubSeq(whole, 1, end)
      /\ unread' = PushBack(PushedAfter(chunk), Drop(whole, end))
      /\ pc' = "parse" /\ buffer' = Blank
      /\ UNCHANGED garbled
Overrun(chunk, behind) ==
  /\ BlankLineEnd(data \o chunk) = 0 /\ Last(chunk) = Lf /\ behind = Lf
  /\ data' = Append(data \o chunk, Lf)
  /\ unread' = Fill(PushedAfter(chunk))
  /\ pc' \in {"parse", "dead"} /\ buffer' = Blank
  /\ garbled' = TRUE
ReadMetadata ==
  /\ pc = "metadata" /\ Len(data) < MetaLimit
  /\ \E chunk \in Chunks(MetaAsk) :
       /\ Take(chunk)
       /\ \/ \E behind \in Behind(chunk) : Keep(chunk, behind) \/ Overrun(chunk, behind)
          \/ Cut(chunk)
  /\ UNCHANGED <<length, begin, received>>
MetadataEnds ==
  /\ pc = "metadata" /\ (Len(data) >= MetaLimit \/ AtEnd)
  /\ pc' = "parse" /\ buffer' = Blank
  /\ UNCHANGED <<data, unread, length, begin, received, garbled>>

(* Metadata of inline data or of a file; anything else is the answer itself *)
(* and pushed back.                                                          *)
Kind(text) ==
  IF Len(text) # 1 THEN "raw"
  ELSE IF text[1] \in DOMAIN Inline THEN "inline"
  ELSE IF text[1] \in DOMAIN Ranges THEN "file" ELSE "raw"
Parse ==
  /\ pc = "parse"
  /\ LET text == Trim(data)
     IN  \/ /\ Kind(text) = "inline"
            /\ length' = IF Inline[text[1]] = 0 THEN None ELSE Inline[text[1]]
            /\ UNCHANGED <<begin, unread>>
         \/ /\ Kind(text) = "file"
            /\ begin' = Ranges[text[1]].offset
            /\ length' = FileLength(Ranges[text[1]])
            /\ UNCHANGED unread
         \/ /\ Kind(text) = "raw"
            /\ unread' = PushBack(unread, text)
            /\ UNCHANGED <<length, begin>>
  /\ pc' = "relay"
  /\ UNCHANGED <<data, buffer, received, garbled>>

(* DescriptorResponse::writeTo.                                             *)
Wanted_Whole == BufferSize
Wanted == IF length = None THEN BufferSize
          ELSE Smaller(BufferSize, length - Len(received))
Satisfied == length # None /\ Len(received) >= length
Relay ==
  /\ pc = "relay" /\ begin = None /\ ~Satisfied
  /\ \E chunk \in Chunks(Wanted) :
       /\ received' = received \o chunk
       /\ unread' = PushedAfter(chunk) /\ Take(chunk)
  /\ UNCHANGED <<pc, data, buffer, length, begin, garbled>>
RelayEnds ==
  /\ pc = "relay" /\ (Satisfied \/ (begin = None /\ AtEnd))
  /\ pc' = "done"
  /\ UNCHANGED <<data, buffer, unread, length, begin, received, garbled>>

(* FileResponse::writeTo: ifstream::read fails unless it gets all it wants, *)
(* and what it got is not sent.                                             *)
FileHas(n) == exchange.file # None /\ begin + Len(received) + n <= Len(exchange.file)
SendFile ==
  /\ pc = "relay" /\ begin # None /\ ~Satisfied
  /\ IF FileHas(Wanted)
     THEN /\ received' = received \o
               SubSeq(Drop(exchange.file, begin + Len(received)), 1, Wanted)
          /\ UNCHANGED pc
     ELSE pc' = "done" /\ UNCHANGED received
  /\ UNCHANGED <<data, buffer, unread, length, begin, garbled>>

(* A send fails: the writer throws, and handleClient is done.               *)
Break ==
  /\ MayBreak /\ pc = "relay"
  /\ pc' = "broken"
  /\ UNCHANGED <<data, buffer, unread, length, begin, received, garbled>>

Handler ==
  \/ WriteInput
  \/ /\ ReadMetadata \/ Relay
     /\ UNCHANGED <<exchange, toWrite, inPipe, moduleVars>>
  \/ /\ SigPipe \/ InputWritten \/ MetadataEnds \/ Parse \/ RelayEnds \/ SendFile \/ Break
     /\ UNCHANGED <<exchange, toWrite, inPipe, outPipe, moduleVars>>
-----------------------------------------------------------------------------
(* The module.  ~Process closes the pipes, and the end of the server does.  *)

AllRead == toWrite = 0 /\ inPipe = 0
OutputClosed_Kept == FALSE
OutputClosed == Ended

ModuleReads ==
  /\ alive /\ exchange.manner # "ignore"
  /\ \E n \in 1 .. inPipe : inPipe' = inPipe - n
  /\ UNCHANGED <<exchange, toWrite, outPipe, moduleVars, handlerVars>>

MayWrite ==
  CASE exchange.manner = "line" -> AllRead
    [] exchange.manner = "eof" -> inPipe = 0 /\ Ended
    [] OTHER -> TRUE

(* Printing blocks while the pipe is full, and ends a module that nobody    *)
(* listens to any more.                                                     *)
ModulePrints ==
  /\ alive /\ rest # <<>> /\ MayWrite /\ ~OutputClosed
  /\ \E n \in 1 .. Smaller(Len(rest), Capacity - Len(outPipe)) :
       outPipe' = outPipe \o SubSeq(rest, 1, n) /\ rest' = Drop(rest, n)
  /\ UNCHANGED <<exchange, toWrite, inPipe, alive, handlerVars>>
ModuleEnds ==
  /\ alive
  /\ \/ rest = <<>> /\ MayWrite /\ (exchange.manner = "mixed" => AllRead \/ Ended)
     \/ rest # <<>> /\ MayWrite /\ OutputClosed
  /\ alive' = FALSE
  /\ UNCHANGED <<exchange, toWrite, inPipe, outPipe, rest, handlerVars>>

Module == ModuleReads \/ ModulePrints \/ ModuleEnds

Next == Handler \/ Module
Spec == Init /\ [][Next]_vars

(* The handler's thread and the module are scheduled.                       *)
FairSpec == Spec /\ WF_vars(Handler) /\ WF_vars(Module)
-----------------------------------------------------------------------------
(* Sizes: nothing is read beyond what a pipe or the descriptor holds, and   *)
(* nothing sent beyond the announced length.                                *)
TypeOK ==
  /\ inPipe <= Capacity /\ Len(outPipe) <= Capacity
  /\ Len(unread) <= MaxUnread
  /\ Len(data) <= MetaLimit + (IF garbled THEN 1 ELSE 0)
  /\ length # None => Len(received) <= length
  /\ begin # None => length # None

(* What an output stands for, whatever pieces it arrives in.                *)
Metadata ==
  LET first == SubSeq(exchange.output, 1, Smaller(MetaLimit, Len(exchange.output)))
  IN  IF BlankLineEnd(first) = 0 THEN first ELSE SubSeq(first, 1, BlankLineEnd(first))
Text == Trim(Metadata)
Body == Drop(exchange.output, Len(Metadata))
(* A range that ends before it begins has a length that wraps, so that it   *)
(* stands for the file from its offset on.                                  *)
Part(file, range) ==
  IF range.offset > LastByte(range) + 1 THEN Drop(file, range.offset)
  ELSE SubSeq(file, range.offset + 1, Smaller(LastByte(range) + 1, Len(file)))
Promise ==
  CASE Kind(Text) = "inline" ->
         IF Inline[Text[1]] = 0 THEN Body
         ELSE SubSeq(Body, 1, Smaller(Inline[Text[1]], Len(Body)))
    [] Kind(Text) = "file" ->
         IF exchange.file = None THEN <<>> ELSE Part(exchange.file, Ranges[Text[1]])
    [] OTHER -> Text \o Body

(* Metadata of at most one line, shorter than the buffer, and its blank     *)
(* line.                                                                    *)
Newlines == {i \in DOMAIN Metadata : Metadata[i] = Lf}
Steady ==
  \/ Newlines = {}
  \/ \E n \in 1 .. BufferSize - 1 : n \in Newlines /\ Newlines \subseteq {n, n + 1}

(* The search runs over the end of its chunk only where the output has      *)
(* several lines before its blank line, or one as long as the buffer: a     *)
(* module that answers as README.md:249 says is never met by it, whatever   *)
(* pieces its output arrives in.                                            *)
Garbles == garbled => ~Steady

(* The exchange implements ModuleAnswer: the client never gets a byte more, *)
(* less or out of order, and an answer of the length announced is whole,    *)
(* unless the search for the blank line runs over the end of its chunk.     *)
Answer == INSTANCE ModuleAnswer WITH
  promise <- Promise,
  steady <- Steady,
  outcome <- IF garbled THEN "garbled"
             ELSE IF pc = "done" /\ length \in {None, Len(received)} THEN "complete"
             ELSE IF Ended THEN "broken" ELSE "open"
Delivers == Answer!Spec

(* An answer is shorter than its Content-Length only when the module prints *)
(* less than it announced, or names bytes that its file does not have, or   *)
(* its metadata was garbled.                                                *)
Honoured ==
  pc = "done" /\ length \notin {None, Len(received)} /\ ~garbled =>
    \/ Kind(Text) = "inline" /\ Len(Body) < length
    \/ /\ Kind(Text) = "file"
       /\ \/ exchange.file = None
          \/ LastByte(Ranges[Text[1]]) >= Len(exchange.file)
          \/ Ranges[Text[1]].offset > LastByte(Ranges[Text[1]]) + 1

(* The bytes of the output are neither lost nor moved between the pipe, what *)
(* was read ahead of the blank line, what was pushed back and the client:    *)
(* output that turns out to be no metadata always fits back into the         *)
(* descriptor.  What is sent of a file is the part it names.  All this until *)
(* the search runs over the end of its chunk.                                *)
Left == unread \o outPipe \o rest
Restored == IF Kind(Trim(data)) = "raw" THEN Trim(data) ELSE <<>>
Kept ==
  IF pc \in {"write", "metadata", "parse", "dead"} THEN data \o Left = exchange.output
  ELSE IF begin = None
    THEN received \o Left = Restored \o Drop(exchange.output, Len(data))
    ELSE received = <<>> \/ received = SubSeq(exchange.file, begin + 1, begin + Len(received))

Conserved == garbled \/ Kept

(* An exchange comes to an end when the module reads its line before it     *)
(* answers, and also when it does not but one of the pipes holds all that   *)
(* goes through it.                                                         *)
Concludes ==
  \/ exchange.manner = "line"
  \/ /\ exchange.manner \in {"mixed", "ignore"}
     /\ exchange.input <= Capacity \/ Len(exchange.output) <= Capacity
  => <>Ended

(* No module outlives its exchange.                                         *)
NoOrphan == Ended ~> ~alive

(* README.md:66: modules are free to ignore what is written to their input. *)
FreeToIgnore == exchange.manner = "ignore" => <>(pc = "done")
=============================================================================
