--------------------------- MODULE RequestHandler ---------------------------
(***************************************************************************)
(* One detached thread per accepted connection (Server::handleClient), the *)
(* module process it forks (Process::run) and the one resource all threads *)
(* share: the descriptor table of the server process.                      *)
(*                                                                         *)
(* The C++ objects remember descriptor NUMBERS (slot) and close them by    *)
(* number, several of them more than once: Socket and StreamDescriptor     *)
(* destructors both close, DescriptorResponse copies a StreamDescriptor,   *)
(* ~Process closes what run() and the StreamDescriptor already closed.     *)
(* The kernel hands out the lowest free number, so the table maps numbers  *)
(* to the OPEN FILE behind them, <<kind, owner>>.                          *)
(*                                                                         *)
(* Abstractions: standard output and error (1, 2) are left out of the      *)
(* table, nothing closes them; a request and a module's output are read or *)
(* written in one step, but the read of a request waits for a client that  *)
(* may be silent; the request's text is one of a few kinds.  A read or     *)
(* write through a number that names a file of an unexpected kind          *)
(* transfers nothing.                                                      *)
(***************************************************************************)
EXTENDS Naturals, Sequences

CONSTANTS
  Conns,     (* connections the clients open; each has its own handler     *)
  None,      (* not a connection                                           *)
  MaxFd,     (* the largest descriptor number the process may hold         *)
  Requests,  (* kinds of requests the clients send, see RequestKinds       *)
  Outputs,   (* kinds of module output, see OutputKinds                    *)
  ReadsInput,(* do modules wait for their input line before they answer?   *)
  Arrival,   (* when a client may connect, see MayConnect                  *)
  MayAbort,  (* may a client reset its connection?                         *)
  MayFailFork

(* "ok": parsed, mapped and serialisable.  "rejected": HttpRequest::from or *)
(* the look-up of the command throws.  "undumpable": json::dump throws, the *)
(* request holds text that is not UTF-8.  "cut": its content is shorter     *)
(* than announced.                                                          *)
RequestKinds == {"ok", "rejected", "undumpable", "cut"}

(* "inline": metadata with a length.  "raw": no usable metadata, the output *)
(* is relayed until end of file.  "file": metadata that names a file.       *)
OutputKinds == {"inline", "raw", "file"}

ASSUME ConstantsOK ==
  /\ None \notin Conns
  /\ MaxFd \in Nat
  /\ MaxFd >= 1
  /\ Requests \subseteq RequestKinds
  /\ Outputs \subseteq OutputKinds
  /\ {ReadsInput, MayAbort, MayFailFork} \subseteq BOOLEAN
  /\ Arrival \in {"any", "afterEof", "afterIdle"}

Fds == 0 .. MaxFd
PipeSlots == {"inR", "inW", "outR", "outW"}
Slots == PipeSlots \cup {"sock", "file"}

Closed == <<"closed", None>>
Stdin  == <<"stdin", None>>
Listen == <<"listen", None>>
Files  == (Slots \X Conns) \cup {Closed, Stdin, Listen}

Labels ==
  { "waiting", "read", "request", "pipeIn", "pipeOut", "fork", "closeInR", "closeOutW",
    "write", "meta", "head", "body", "respDtor", "fileDtor", "outputDtor",
    "procInR", "procInW", "procOutR", "procOutW", "error500", "closeSock",
    "exit", "left", "dtorSocket", "dtorDescriptor", "finished" }
Parts == {"head", "body", "short", "500", "input"}

VARIABLES
  fd,       (* descriptor table of the server process                      *)
  up,       (* "running", or the signal that ended the server              *)
  acc,      (* the connection whose shared_ptr the accept loop holds       *)
  pc,       (* next step of the handler of each connection                 *)
  slot,     (* descriptor numbers remembered by the handler's objects      *)
  source,   (* the open file that the read of the request began with        *)
  failed,   (* an exception is being handled by the handler                *)
  request,  (* the kind of request the client sent                         *)
  taken,    (* that request has been read                                  *)
  response, (* which HttpResponse the handler built                        *)
  gone,     (* the client reset its connection                             *)
  got,      (* what the client received: a sequence of [from, part]        *)
  module,   (* state of the forked module                                  *)
  held,     (* open files the forked module inherited and still holds      *)
  fed,      (* the module's input line is in its pipe                      *)
  output    (* what the module printed                                     *)

handlerVars == <<acc, pc, slot, source, failed, response>>
clientVars  == <<request, taken, gone, got>>
moduleVars  == <<module, held, fed, output>>
vars == <<fd, up, handlerVars, clientVars, moduleVars>>
-----------------------------------------------------------------------------
(* The descriptor table (kernel).                                           *)

Free == {n \in Fds : fd[n] = Closed}
Lowest(n, S) == n \in S /\ \A m \in S : n <= m

(* Nobody holds the open file f: the other end of it sees end of file.  A   *)
(* read() that waits holds the file it began with.                          *)
Released(f) ==
  /\ \A n \in Fds : fd[n] # f
  /\ \A c \in Conns : f \notin held[c] /\ (pc[c] = "request" => source[c] # f)

Goto(c, label) == pc' = [pc EXCEPT ![c] = label]

(* What send() on the handler's socket number reaches: one part of a        *)
(* response goes to the client of whatever socket that number names now.    *)
SendTarget(c) == fd[slot[c]["sock"]]
SendWorks(c) ==
  /\ SendTarget(c)[1] = "sock"
  /\ ~gone[SendTarget(c)[2]]
Deliver(c, d, part) ==
  got' = [got EXCEPT ![d] = Append(@, [from |-> c, part |-> part])]

(* The descriptor numbers of a Process before its pipes are opened: its     *)
(* arrays are zero-initialised.                                             *)
Unset_OutOfRange == MaxFd + 1
Unset == 0
-----------------------------------------------------------------------------
(* The accept loop and the clients.                                         *)

Init ==
  /\ fd = [n \in Fds |-> IF n = 0 THEN Stdin ELSE IF n = 1 THEN Listen ELSE Closed]
  /\ up = "running"
  /\ acc = None
  /\ pc = [c \in Conns |-> "waiting"]
  /\ slot = [c \in Conns |-> [k \in Slots |-> Unset]]
  /\ source = [c \in Conns |-> Closed]
  /\ failed = [c \in Conns |-> FALSE]
  /\ request = [c \in Conns |-> "none"]
  /\ taken = [c \in Conns |-> FALSE]
  /\ response = [c \in Conns |-> "none"]
  /\ gone = [c \in Conns |-> FALSE]
  /\ got = [c \in Conns |-> << >>]
  /\ module = [c \in Conns |-> "none"]
  /\ held = [c \in Conns |-> {}]
  /\ fed = [c \in Conns |-> FALSE]
  /\ output = [c \in Conns |-> "none"]

(* "any": whenever it likes.  "afterEof": a sequential client, which opens  *)
(* a connection when it has seen the end of the one before.  "afterIdle":   *)
(* only when the handlers and modules of all earlier ones are finished.     *)
MayConnect(c) ==
  CASE Arrival = "any" -> TRUE
    [] Arrival = "afterEof" ->
         \A d \in Conns \ {c} : pc[d] = "waiting" \/ Released(<<"sock", d>>)
    [] Arrival = "afterIdle" ->
         \A d \in Conns \ {c} :
           pc[d] \in {"waiting", "finished"} /\ module[d] \in {"none", "exited"}

(* accept() yields a Socket owned by a shared_ptr; handleClient copies the  *)
(* pointer into the lambda of a new, detached thread.                       *)
Accept(c) ==
  /\ up = "running" /\ acc = None /\ pc[c] = "waiting"
  /\ MayConnect(c)
  /\ \E n \in Fds :
       /\ Lowest(n, Free)
       /\ fd' = [fd EXCEPT ![n] = <<"sock", c>>]
       /\ slot' = [slot EXCEPT ![c]["sock"] = n]
  /\ acc' = c
  /\ Goto(c, "read")
  /\ UNCHANGED <<up, source, failed, response, clientVars, moduleVars>>

(* The accept loop's own pointer goes out of scope; if the handler thread   *)
(* is gone already, the Socket is destroyed by the accept loop.             *)
AcceptorDrop(c) ==
  /\ up = "running" /\ acc = c
  /\ pc[c] \notin {"dtorSocket", "dtorDescriptor"}
  /\ IF pc[c] = "left" THEN Goto(c, "dtorSocket") /\ acc' = acc
                       ELSE acc' = None /\ pc' = pc
  /\ UNCHANGED <<fd, up, slot, source, failed, response, clientVars, moduleVars>>

(* A client sends its request when it likes, if it ever does.               *)
SendRequest(c) ==
  /\ up = "running" /\ pc[c] # "waiting"
  /\ request[c] = "none" /\ ~gone[c]
  /\ \E kind \in Requests : request' = [request EXCEPT ![c] = kind]
  /\ UNCHANGED <<fd, up, handlerVars, taken, gone, got, moduleVars>>

Abort(c) ==
  /\ MayAbort /\ up = "running"
  /\ pc[c] # "waiting" /\ ~gone[c] /\ ~Released(<<"sock", c>>)
  /\ gone' = [gone EXCEPT ![c] = TRUE]
  /\ UNCHANGED <<fd, up, handlerVars, request, taken, got, moduleVars>>
-----------------------------------------------------------------------------
(* The handler thread, in the order of Server::handleClient.                *)

At(c, label) == up = "running" /\ pc[c] = label

(* Where the handler goes with the request it read.  A Process exists       *)
(* only once the request is parsed; json::dump runs after that and before   *)
(* Process::run, so its exception destroys a Process that never ran.        *)
AfterRead_NoAnswer(kind) == IF kind = "ok" THEN "pipeIn" ELSE "closeSock"
AfterRead_ProcessFirst(kind) == IF kind = "ok" THEN "pipeIn" ELSE "procInR"
AfterRead(kind) ==
  IF kind = "ok" THEN "pipeIn"
  ELSE IF kind = "undumpable" THEN "procInR" ELSE "error500"

(* The read of the request begins with the file the number names then.      *)
BeginRead(c) ==
  /\ At(c, "read")
  /\ source' = [source EXCEPT ![c] = SendTarget(c)]
  /\ Goto(c, "request")
  /\ UNCHANGED <<fd, up, acc, slot, failed, response, clientVars, moduleVars>>

(* What that file yields: the request of the client, once, when it has sent *)
(* one; nothing before, and no end of a content that is cut, for as long as *)
(* the client likes; the end of the stream when it hangs up, which it does  *)
(* when it has an answer or resets.  A reset within the content is taken    *)
(* for the end of it.  Other files yield nothing.                           *)
Yields(file) ==
  IF file[1] # "sock" THEN {"none"}
  ELSE LET from == file[2]
           read == {kind \in {"ok", "rejected", "undumpable"} :
                      \/ kind = request[from]
                      \/ kind = "ok" /\ request[from] = "cut" /\ gone[from]}
       IN  (IF taken[from] THEN {} ELSE read)
           \cup (IF gone[from] \/ (taken[from] /\ got[from] # << >>)
                 THEN {"none"} ELSE {})

ReadRequest(c) ==
  /\ At(c, "request")
  /\ \E kind \in Yields(source[c]) :
       /\ Goto(c, AfterRead(kind))
       /\ failed' = [failed EXCEPT ![c] = kind # "ok"]
  /\ taken' = [d \in Conns |-> taken[d] \/ source[c] = <<"sock", d>>]
  /\ UNCHANGED <<fd, up, acc, slot, source, response, request, gone, got, moduleVars>>

(* run() answers a null pointer when a pipe or the fork fails and           *)
(* handleClient dereferences it.                                            *)
NullDescriptor ==
  /\ up' = "segv"
  /\ UNCHANGED <<fd, handlerVars, clientVars, moduleVars>>

Pipe(c, readEnd, writeEnd) ==
  \E r, w \in Fds :
    /\ Lowest(r, Free) /\ Lowest(w, Free \ {r})
    /\ fd' = [fd EXCEPT ![r] = <<readEnd, c>>, ![w] = <<writeEnd, c>>]
    /\ slot' = [slot EXCEPT ![c][readEnd] = r, ![c][writeEnd] = w]

OpenPipe(c, label, readEnd, writeEnd, next) ==
  /\ At(c, label)
  /\ \/ /\ Pipe(c, readEnd, writeEnd)
        /\ Goto(c, next)
        /\ UNCHANGED <<up, acc, source, failed, response, clientVars, moduleVars>>
     \/ /\ \A r, w \in Free : r = w
        /\ NullDescriptor

OpenStdinPipe(c) == OpenPipe(c, "pipeIn", "inR", "inW", "pipeOut")
OpenStdoutPipe(c) == OpenPipe(c, "pipeOut", "outR", "outW", "fork")

(* The child of fork() holds a copy of the whole table.  It puts its pipe   *)
(* ends on 0 and 1 and closes the four pipe numbers; nothing else is closed *)
(* on exec, so it keeps the descriptors of every other connection.          *)
PipeNumbers(c) == {slot[c][k] : k \in PipeSlots}
Inherited(c) ==
  ( {fd[n] : n \in Fds \ (PipeNumbers(c) \cup {0})}
    \cup {fd[slot[c]["outW"]]}
    \cup (IF 0 \in PipeNumbers(c) THEN {} ELSE {fd[slot[c]["inR"]]}) )
  \cap (Slots \X Conns)

Fork(c) ==
  /\ At(c, "fork")
  /\ IF Closed \in {fd[slot[c]["inR"]], fd[slot[c]["outW"]]}
     THEN /\ module' = [module EXCEPT ![c] = "exited"] \* dup2 fails
          /\ held' = held
     ELSE /\ module' = [module EXCEPT ![c] = "running"]
          /\ held' = [held EXCEPT ![c] = Inherited(c)]
  /\ Goto(c, "closeInR")
  /\ UNCHANGED <<fd, up, acc, slot, source, failed, response, clientVars, fed, output>>

ForkFails(c) == MayFailFork /\ At(c, "fork") /\ NullDescriptor

(* write() to the number of the pipe's write end, whatever it names now.    *)
(* Nothing ignores SIGPIPE, which a pipe without a reader raises.           *)
WriteInput(c) ==
  /\ At(c, "write")
  /\ LET target == fd[slot[c]["inW"]]
         broken == target[1] = "inW" /\ Released(<<"inR", target[2]>>)
     IN  /\ up' = IF broken THEN "sigpipe" ELSE up
         /\ fed' = [d \in Conns |-> fed[d] \/ (target = <<"inW", d>> /\ ~broken)]
         /\ IF target[1] = "sock" THEN Deliver(c, target[2], "input") ELSE got' = got
  /\ Goto(c, "meta")
  /\ UNCHANGED <<fd, acc, slot, source, failed, response, request, taken, gone, module, held, output>>

(* The module whose output the number of the StreamDescriptor names now.    *)
Reads(c, d) == fd[slot[c]["outR"]] = <<"outR", d>>

(* parseProcessResponse: read up to the blank line, then choose a response. *)
(* FileResponse opens the file, which takes a descriptor of its own.        *)
ReadMetadata(c) ==
  /\ At(c, "meta")
  /\ \E kind \in OutputKinds :
       /\ \/ \E d \in Conns : Reads(c, d) /\ output[d] = kind
          \/ /\ kind = "raw"
             /\ \A d \in Conns : Reads(c, d) =>
                  output[d] = "none" /\ Released(<<"outW", d>>)
       /\ IF kind = "file" /\ Free # {}
          THEN \E n \in Fds :
                 /\ Lowest(n, Free)
                 /\ fd' = [fd EXCEPT ![n] = <<"file", c>>]
                 /\ slot' = [slot EXCEPT ![c]["file"] = n]
                 /\ response' = [response EXCEPT ![c] = "file"]
          ELSE /\ response' = [response EXCEPT
                    ![c] = IF kind = "file" THEN "noFile" ELSE kind]
               /\ UNCHANGED <<fd, slot>>
  /\ Goto(c, "head")
  /\ UNCHANGED <<up, acc, source, failed, clientVars, moduleVars>>

(* The destructor of the HttpResponse is the first one to run.              *)
ResponseDtor(c) ==
  IF response[c] = "file" THEN "fileDtor"
  ELSE IF response[c] = "noFile" THEN "outputDtor" ELSE "respDtor"

Send(c, part, next) ==
  /\ IF SendWorks(c)
     THEN Deliver(c, SendTarget(c)[2], part) /\ Goto(c, next) /\ failed' = failed
     ELSE /\ Goto(c, ResponseDtor(c)) \* writeBase throws
          /\ failed' = [failed EXCEPT ![c] = TRUE]
          /\ got' = got
  /\ UNCHANGED <<fd, up, acc, slot, source, response, request, taken, gone, moduleVars>>

SendHead(c) == At(c, "head") /\ Send(c, "head", "body")

(* The body is relayed until its length, the end of the file or the end of  *)
(* the module's output; what the numbers no longer name is not sent.        *)
SendBody(c) ==
  /\ At(c, "body")
  /\ response[c] = "raw" => \A d \in Conns : Reads(c, d) => Released(<<"outW", d>>)
  /\ LET whole == IF response[c] = "file" THEN fd[slot[c]["file"]] = <<"file", c>>
                  ELSE response[c] # "noFile" /\ Reads(c, c)
     IN  Send(c, IF whole THEN "body" ELSE "short", ResponseDtor(c))

(* Every close() by number the handler runs.  run() closes two ends after   *)
(* the fork; the destructors follow: DescriptorResponse (its copy) or       *)
(* FileResponse, the shared StreamDescriptor, ~Process; then the explicit   *)
(* close; then ~Socket and ~StreamDescriptor.                               *)
CloseBy(c, label, what, next) ==
  /\ At(c, label)
  /\ fd' = [fd EXCEPT ![slot[c][what]] = Closed]
  /\ Goto(c, next)
  /\ UNCHANGED <<up, slot, source, failed, response, clientVars, moduleVars>>

RunCloses_KeepsOutW(c) == CloseBy(c, "closeInR", "inR", "write") /\ acc' = acc
RunCloses(c) ==
  /\ \/ CloseBy(c, "closeInR", "inR", "closeOutW")
     \/ CloseBy(c, "closeOutW", "outW", "write")
  /\ acc' = acc

ResponseCloses(c) ==
  /\ \/ CloseBy(c, "respDtor", "outR", "outputDtor")
     \/ CloseBy(c, "fileDtor", "file", "outputDtor")
     \/ CloseBy(c, "outputDtor", "outR", "procInR")
  /\ acc' = acc

(* Leaving the try block by an exception leads to a catch block.            *)
AfterTry(c) == IF failed[c] THEN "error500" ELSE "closeSock"

ProcessCloses_KeepsInW(c) ==
  /\ \/ CloseBy(c, "procInR", "inR", "procOutR")
     \/ CloseBy(c, "procOutR", "outR", "procOutW")
     \/ CloseBy(c, "procOutW", "outW", AfterTry(c))
  /\ acc' = acc
ProcessCloses(c) ==
  /\ \/ CloseBy(c, "procInR", "inR", "procInW")
     \/ CloseBy(c, "procInW", "inW", "procOutR")
     \/ CloseBy(c, "procOutR", "outR", "procOutW")
     \/ CloseBy(c, "procOutW", "outW", AfterTry(c))
  /\ acc' = acc

SocketCloses(c) ==
  \/ /\ \/ CloseBy(c, "closeSock", "sock", "exit")
        \/ CloseBy(c, "dtorSocket", "sock", "dtorDescriptor")
     /\ acc' = acc
  \/ /\ CloseBy(c, "dtorDescriptor", "sock", "finished")
     /\ acc' = IF acc = c THEN None ELSE acc

(* A catch block answers 500 and swallows an error of that answer.          *)
Error500(c) ==
  /\ At(c, "error500")
  /\ IF SendWorks(c) THEN Deliver(c, SendTarget(c)[2], "500") ELSE got' = got
  /\ Goto(c, "closeSock")
  /\ UNCHANGED <<fd, up, acc, slot, source, failed, response, request, taken, gone, moduleVars>>

(* The thread ends and its shared_ptr with it; the last owner destroys.     *)
Exit(c) ==
  /\ At(c, "exit")
  /\ Goto(c, IF acc = c THEN "left" ELSE "dtorSocket")
  /\ UNCHANGED <<fd, up, acc, slot, source, failed, response, clientVars, moduleVars>>
-----------------------------------------------------------------------------
(* The forked modules (external programs).                                  *)

(* A module that reads its input waits for its line or the end of it.       *)
ModuleAnswers(c) ==
  /\ up = "running" /\ module[c] = "running"
  /\ LET hungUp == <<"inR", c>> \notin held[c] \/ Released(<<"inW", c>>)
     IN  /\ ReadsInput => fed[c] \/ hungUp
         /\ \E kind \in IF ReadsInput /\ ~fed[c] THEN {"raw"} ELSE Outputs :
              output' = IF <<"outW", c>> \in held[c]
                        THEN [output EXCEPT ![c] = kind] ELSE output
  /\ module' = [module EXCEPT ![c] = "wrote"]
  /\ UNCHANGED <<fd, up, handlerVars, clientVars, held, fed>>

ModuleExits(c) ==
  /\ up = "running" /\ module[c] = "wrote"
  /\ module' = [module EXCEPT ![c] = "exited"]
  /\ held' = [held EXCEPT ![c] = {}]
  /\ UNCHANGED <<fd, up, handlerVars, clientVars, fed, output>>
-----------------------------------------------------------------------------
HandlerStep(c) ==
  \/ BeginRead(c) \/ ReadRequest(c) \/ OpenStdinPipe(c) \/ OpenStdoutPipe(c)
  \/ Fork(c) \/ ForkFails(c) \/ WriteInput(c)
  \/ ReadMetadata(c) \/ SendHead(c) \/ SendBody(c)
  \/ RunCloses(c) \/ ResponseCloses(c) \/ ProcessCloses(c)
  \/ Error500(c) \/ SocketCloses(c) \/ Exit(c)

ModuleStep(c) == ModuleAnswers(c) \/ ModuleExits(c)

(* Nothing is left to do: the server died, or every connection is served.   *)
Rest ==
  /\ \/ up # "running"
     \/ \A c \in Conns : pc[c] = "finished" /\ module[c] \in {"none", "exited"}
  /\ UNCHANGED vars

Next ==
  \/ \E c \in Conns : Accept(c) \/ AcceptorDrop(c) \/ SendRequest(c) \/ Abort(c)
  \/ \E c \in Conns : HandlerStep(c) \/ ModuleStep(c)
  \/ Rest

(* Threads and modules are scheduled; clients owe nothing.                  *)
Fairness ==
  \A c \in Conns :
    WF_vars(HandlerStep(c)) /\ WF_vars(ModuleStep(c)) /\ WF_vars(AcceptorDrop(c))

Spec == Init /\ [][Next]_vars
FairSpec == Spec /\ Fairness
-----------------------------------------------------------------------------
(* Properties.                                                              *)

(* Every variable has its type: descriptor numbers are in range, the table  *)
(* names files of known kinds, clients receive parts of responses.          *)
TypeOK ==
  /\ fd \in [Fds -> Files]
  /\ up \in {"running", "segv", "sigpipe"}
  /\ acc \in Conns \cup {None}
  /\ pc \in [Conns -> Labels]
  /\ slot \in [Conns -> [Slots -> Fds]]
  /\ source \in [Conns -> Files]
  /\ failed \in [Conns -> BOOLEAN]
  /\ request \in [Conns -> RequestKinds \cup {"none"}]
  /\ taken \in [Conns -> BOOLEAN]
  /\ response \in [Conns -> OutputKinds \cup {"none", "noFile"}]
  /\ gone \in [Conns -> BOOLEAN]
  /\ got \in [Conns -> Seq([from : Conns, part : Parts])]
  /\ module \in [Conns -> {"none", "running", "wrote", "exited"}]
  /\ held \in [Conns -> SUBSET (Slots \X Conns)]
  /\ fed \in [Conns -> BOOLEAN]
  /\ output \in [Conns -> OutputKinds \cup {"none"}]

(* The labels at which a handler may still hold the descriptor of a slot.   *)
PipesOpen == {"fork", "closeInR"}
Answering == {"write", "meta", "head", "body", "respDtor", "fileDtor", "outputDtor"}
MayHold(k, label) ==
  \/ k = "inR"  /\ label \in PipesOpen \cup {"pipeOut"}
  \/ k = "inW"  /\ label \in PipesOpen \cup Answering
                            \cup {"pipeOut", "closeOutW", "procInR", "procInW"}
  \/ k = "outR" /\ label \in PipesOpen \cup Answering \cup {"closeOutW"}
  \/ k = "outW" /\ label \in PipesOpen \cup {"closeOutW"}
  \/ k = "file" /\ label \in {"head", "body", "fileDtor"}
  \/ k = "sock" /\ label \notin {"waiting", "exit", "left", "dtorSocket",
                                 "dtorDescriptor", "finished"}

(* Whatever a connection holds in the table is held at the number its       *)
(* handler's objects remember, and the handler has not passed the close     *)
(* that gives it back (a file is held by a FileResponse only).              *)
Covered ==
  \A n \in Fds, k \in Slots, c \in Conns :
    fd[n] = <<k, c>> =>
      /\ slot[c][k] = n
      /\ MayHold(k, pc[c])
      /\ k = "file" => response[c] = "file"

(* No handler leaks a descriptor: on every path (rejected request, failed   *)
(* send, file or relayed response, whatever other handlers close meanwhile) *)
(* the table names nothing of a connection once its socket was closed.      *)
NoLeak ==
  \A c \in Conns :
    pc[c] \in {"exit", "left", "dtorSocket", "dtorDescriptor", "finished"} =>
      \A n \in Fds, k \in Slots : fd[n] # <<k, c>>

(* The doubled closes by number never hit the server's listening socket     *)
(* (proved, and checked by no run).                                         *)
ListenStaysOpen == fd[1] = Listen

(* The doubled closes by number leave the server's standard input alone,    *)
(* from which it takes its commands, until a request that cannot be written *)
(* as JSON is read: the Process destroyed then never ran, and its numbers   *)
(* are still 0.                                                             *)
StdinStaysOpen ==
  fd[0] # Stdin => \E c \in Conns : request[c] = "undumpable" /\ taken[c]

(* README.md:13 and Server::run: the server takes commands from its         *)
(* standard input for as long as it runs, so nothing closes it.             *)
StdinOpen == fd[0] = Stdin

(* A server whose clients come one after the other ends for two reasons     *)
(* only: a module that left before its input was written (SIGPIPE), or a    *)
(* fork that failed (the null StreamDescriptor).  Its table never fills:    *)
(* every handler finds the numbers that the one before gave back.           *)
ServerEnds ==
  /\ up = "sigpipe" => \E c \in Conns : module[c] = "exited" /\ ~fed[c]
  /\ up = "segv" => \E c \in Conns : pc[c] = "fork"

(* A client that stays receives one whole response: the head and the whole  *)
(* body its module made for its request, or, when the request could not be  *)
(* handled, the 500 answer.  Nothing of it comes from another handler.      *)
Whole(c) == << [from |-> c, part |-> "head"], [from |-> c, part |-> "body"] >>
Sorry(c) == << [from |-> c, part |-> "500"] >>
Answered ==
  \A c \in Conns :
    pc[c] = "finished" /\ ~gone[c] =>
      got[c] = IF request[c] = "ok" THEN Whole(c) ELSE Sorry(c)

(* If every accepted client in the end sends a whole request or resets, in  *)
(* the end every connection is concluded: its handler has finished, its     *)
(* module has ended and its client has seen the end of the stream, although *)
(* modules of other connections inherit its descriptors.  Without that its  *)
(* handler waits for ever, no read has a time limit.                        *)
ConcludedFor(c) ==
  /\ pc[c] = "finished"
  /\ module[c] \in {"none", "exited"}
  /\ Released(<<"sock", c>>)
Speaks(c) == pc[c] = "waiting" \/ gone[c] \/ request[c] \notin {"none", "cut"}
=============================================================================
