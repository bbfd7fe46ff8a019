------------------------ MODULE RequestHandler_proof ------------------------
(***************************************************************************)
(* The descriptor table under any number of connections, any table size,    *)
(* every arrival regime and every kind of request and module: TypeOK is     *)
(* inductive, Covered is inductive relative to it, and NoLeak follows.      *)
(* ListenInv and StdinInv keep the server's own two descriptors open.       *)
(* Single is inductive where connections do not overlap: it says which      *)
(* numbers every label of the one handler names, so that a doubled close    *)
(* meets nothing, and gives Answered and ServerEnds.                        *)
(***************************************************************************)
EXTENDS RequestHandler, SequenceTheorems, TLAPS

(* A socket in the table is the socket of a connection.                     *)
LEMMA FilesOf ==
  ASSUME TypeOK, NEW n \in Fds, fd[n][1] = "sock"
  PROVE  fd[n][2] \in Conns
<1>1. fd[n] \in Files
  BY DEF TypeOK
<1>2. QED
  BY <1>1 DEF Files, Closed, Stdin, Listen

(* What the socket number of a handler names is a file of the table.        *)
LEMMA TargetType ==
  ASSUME TypeOK, NEW c \in Conns, SendWorks(c)
  PROVE  SendTarget(c)[2] \in Conns
<1>1. slot[c]["sock"] \in Fds
  BY DEF TypeOK, Slots
<1>2. QED
  BY <1>1, FilesOf DEF SendWorks, SendTarget

(* A close by number keeps the types.                                       *)
LEMMA CloseByType ==
  ASSUME TypeOK, NEW c \in Conns, NEW l \in Labels, NEW k \in Slots,
         NEW next \in Labels, CloseBy(c, l, k, next), acc' \in {acc, None}
  PROVE  TypeOK'
<1>1. slot[c][k] \in Fds
  BY DEF TypeOK
<1>2. fd' \in [Fds -> Files]
  BY <1>1 DEF TypeOK, CloseBy, Files
<1>3. pc' \in [Conns -> Labels]
  BY DEF TypeOK, CloseBy, Goto
<1>4. acc' \in Conns \cup {None}
  BY DEF TypeOK
<1>5. QED
  BY <1>2, <1>3, <1>4 DEF TypeOK, CloseBy, clientVars, moduleVars

(* pipe() puts two files of the handler into the table.                     *)
LEMMA PipeType ==
  ASSUME TypeOK, NEW c \in Conns, NEW a \in Slots, NEW b \in Slots, Pipe(c, a, b)
  PROVE  fd' \in [Fds -> Files] /\ slot' \in [Conns -> [Slots -> Fds]]
<1>1. PICK r \in Fds, w \in Fds :
        /\ fd' = [fd EXCEPT ![r] = <<a, c>>, ![w] = <<b, c>>]
        /\ slot' = [slot EXCEPT ![c][a] = r, ![c][b] = w]
  BY DEF Pipe
<1>2. <<a, c>> \in Files /\ <<b, c>> \in Files
  BY DEF Files
<1>3. fd' \in [Fds -> Files]
  BY <1>1, <1>2 DEF TypeOK
<1>4. slot' \in [Conns -> [Slots -> Fds]]
  BY <1>1 DEF TypeOK
<1>5. QED
  BY <1>3, <1>4

(* Opening a pipe, or failing to, keeps the types.                          *)
LEMMA OpenPipeType ==
  ASSUME TypeOK, NEW c \in Conns, NEW a \in Slots, NEW b \in Slots,
         NEW l \in Labels, NEW next \in Labels, OpenPipe(c, l, a, b, next)
  PROVE  TypeOK'
<1>1. CASE Pipe(c, a, b) /\ Goto(c, next)
           /\ UNCHANGED <<up, acc, source, failed, response, clientVars, moduleVars>>
  <2>1. fd' \in [Fds -> Files] /\ slot' \in [Conns -> [Slots -> Fds]]
    BY <1>1, PipeType
  <2>2. pc' \in [Conns -> Labels]
    BY <1>1 DEF TypeOK, Goto
  <2>3. QED
    BY <1>1, <2>1, <2>2 DEF TypeOK, clientVars, moduleVars
<1>2. CASE NullDescriptor
  BY <1>2 DEF TypeOK, NullDescriptor, handlerVars, clientVars, moduleVars
<1>3. QED
  BY <1>1, <1>2 DEF OpenPipe

(* What arrives at a client is a sequence of parts of responses.            *)
LEMMA DeliverType ==
  ASSUME TypeOK, NEW c \in Conns, NEW d \in Conns, NEW part \in Parts,
         Deliver(c, d, part)
  PROVE  got' \in [Conns -> Seq([from : Conns, part : Parts])]
<1> DEFINE Pieces == [from : Conns, part : Parts]
           piece == [from |-> c, part |-> part]
<1>1. got \in [Conns -> Seq(Pieces)] /\ got[d] \in Seq(Pieces)
  BY DEF TypeOK
<1>2. piece \in Pieces
  OBVIOUS
<1>3. Append(got[d], piece) \in Seq(Pieces)
  <2> HIDE DEF Pieces, piece
  <2> QED BY <1>1, <1>2
<1>4. got' = [got EXCEPT ![d] = Append(got[d], piece)]
  BY DEF Deliver
<1> HIDE DEF Pieces, piece
<1>5. got' \in [Conns -> Seq(Pieces)]
  BY <1>1, <1>3, <1>4
<1>6. QED
  BY <1>5 DEF Pieces

(* Sending a part of a response, or failing to, keeps the types.            *)
LEMMA SendType ==
  ASSUME TypeOK, NEW c \in Conns, NEW part \in Parts, NEW next \in Labels,
         Send(c, part, next)
  PROVE  TypeOK'
<1>1. ResponseDtor(c) \in Labels
  BY DEF ResponseDtor, Labels
<1>2. pc' \in [Conns -> Labels] /\ failed' \in [Conns -> BOOLEAN]
  BY <1>1 DEF TypeOK, Send, Goto
<1>3. got' \in [Conns -> Seq([from : Conns, part : Parts])]
  <2>1. CASE SendWorks(c)
    BY <2>1, TargetType, DeliverType DEF Send
  <2>2. CASE ~SendWorks(c)
    BY <2>2 DEF TypeOK, Send
  <2>3. QED
    BY <2>1, <2>2
<1>4. QED
  BY <1>2, <1>3 DEF TypeOK, Send, moduleVars

(* The types hold initially.                                                *)
LEMMA TypeInit == Init => TypeOK
<1>1. Unset \in Fds /\ Fds \subseteq Nat
  BY ConstantsOK DEF Unset, Fds
<1>2. Stdin \in Files /\ Listen \in Files /\ Closed \in Files
  BY DEF Files
<1>3. << >> \in Seq([from : Conns, part : Parts])
  OBVIOUS
<1>4. SUFFICES ASSUME Init PROVE TypeOK
  OBVIOUS
<1>5. fd \in [Fds -> Files] /\ slot \in [Conns -> [Slots -> Fds]]
  BY <1>1, <1>2, <1>4 DEF Init
<1>6. got \in [Conns -> Seq([from : Conns, part : Parts])]
  BY <1>3, <1>4 DEF Init
<1>7. pc \in [Conns -> Labels]
  BY <1>4 DEF Init, Labels
<1>8. QED
  BY <1>2, <1>4, <1>5, <1>6, <1>7 DEF Init, TypeOK

(* Accepting a connection keeps the types.                                  *)
LEMMA AcceptType ==
  ASSUME TypeOK, NEW c \in Conns, Accept(c)
  PROVE  TypeOK'
<1>1. PICK n \in Fds :
        /\ fd' = [fd EXCEPT ![n] = <<"sock", c>>]
        /\ slot' = [slot EXCEPT ![c]["sock"] = n]
  BY DEF Accept
<1>2. fd' \in [Fds -> Files] /\ slot' \in [Conns -> [Slots -> Fds]]
  BY <1>1 DEF TypeOK, Files, Slots
<1>3. pc' \in [Conns -> Labels]
  BY DEF TypeOK, Accept, Goto, Labels
<1>4. QED
  BY <1>2, <1>3 DEF TypeOK, Accept, clientVars, moduleVars

(* Reading the metadata and opening the file it names keeps the types.      *)
LEMMA MetadataType ==
  ASSUME TypeOK, NEW c \in Conns, ReadMetadata(c)
  PROVE  TypeOK'
<1>1. fd' \in [Fds -> Files] /\ slot' \in [Conns -> [Slots -> Fds]]
  <2>1. CASE UNCHANGED <<fd, slot>>
    BY <2>1 DEF TypeOK
  <2>2. CASE \E n \in Fds : /\ fd' = [fd EXCEPT ![n] = <<"file", c>>]
                            /\ slot' = [slot EXCEPT ![c]["file"] = n]
    <3>1. PICK n \in Fds : /\ fd' = [fd EXCEPT ![n] = <<"file", c>>]
                           /\ slot' = [slot EXCEPT ![c]["file"] = n]
      BY <2>2
    <3>2. <<"file", c>> \in Files /\ "file" \in Slots
      BY DEF Files, Slots
    <3>3. QED
      BY <3>1, <3>2 DEF TypeOK
  <2>3. \/ UNCHANGED <<fd, slot>>
        \/ \E n \in Fds : /\ fd' = [fd EXCEPT ![n] = <<"file", c>>]
                          /\ slot' = [slot EXCEPT ![c]["file"] = n]
    <3>1. PICK kind \in OutputKinds :
            IF kind = "file" /\ Free # {}
            THEN \E n \in Fds : /\ fd' = [fd EXCEPT ![n] = <<"file", c>>]
                               /\ slot' = [slot EXCEPT ![c]["file"] = n]
            ELSE UNCHANGED <<fd, slot>>
      BY Zenon DEF ReadMetadata
    <3>2. QED
      BY <3>1, Zenon
  <2>4. QED
    BY <2>1, <2>2, <2>3
<1>2. response' \in [Conns -> OutputKinds \cup {"none", "noFile"}]
  BY DEF ReadMetadata, TypeOK, OutputKinds
<1>3. pc' \in [Conns -> Labels]
  BY DEF TypeOK, ReadMetadata, Goto, Labels
<1>4. QED
  BY <1>1, <1>2, <1>3 DEF TypeOK, ReadMetadata, clientVars, moduleVars

(* Writing the input of a module keeps the types.                           *)
LEMMA WriteType ==
  ASSUME TypeOK, NEW c \in Conns, WriteInput(c)
  PROVE  TypeOK'
<1> DEFINE target == fd[slot[c]["inW"]]
<1>1. slot[c]["inW"] \in Fds
  BY DEF TypeOK, Slots, PipeSlots
<1>2. got' \in [Conns -> Seq([from : Conns, part : Parts])]
  <2>1. CASE target[1] = "sock"
    <3>1. target[2] \in Conns
      BY <1>1, <2>1, FilesOf
    <3>2. QED
      BY <2>1, <3>1, DeliverType DEF WriteInput, Parts
  <2>2. CASE target[1] # "sock"
    BY <2>2 DEF TypeOK, WriteInput
  <2>3. QED
    BY <2>1, <2>2
<1>3. fed' \in [Conns -> BOOLEAN] /\ up' \in {"running", "segv", "sigpipe"}
  BY DEF TypeOK, WriteInput
<1>4. pc' \in [Conns -> Labels]
  BY DEF TypeOK, WriteInput, Goto, Labels
<1>5. QED
  BY <1>2, <1>3, <1>4 DEF TypeOK, WriteInput

(* The steps that only move labels and flags keep the types.                *)
LEMMA OtherTypes ==
  ASSUME TypeOK, NEW c \in Conns,
         \/ AcceptorDrop(c) \/ Abort(c) \/ ReadRequest(c) \/ Fork(c) \/ ForkFails(c)
         \/ Error500(c) \/ Exit(c) \/ ModuleAnswers(c) \/ ModuleExits(c)
         \/ SendRequest(c) \/ BeginRead(c)
  PROVE  TypeOK'
<1>1. CASE AcceptorDrop(c)
  <2>1. pc' \in [Conns -> Labels] /\ acc' \in Conns \cup {None}
    BY <1>1 DEF TypeOK, AcceptorDrop, Goto, Labels
  <2>2. QED
    BY <1>1, <2>1 DEF TypeOK, AcceptorDrop, clientVars, moduleVars
<1>2. CASE Abort(c)
  BY <1>2 DEF TypeOK, Abort, handlerVars, moduleVars
<1>3. CASE ReadRequest(c)
  <2>1. PICK kind \in Yields(source[c]) : Goto(c, AfterRead(kind))
                                            /\ failed' = [failed EXCEPT ![c] = kind # "ok"]
    BY <1>3 DEF ReadRequest
  <2>2. pc' \in [Conns -> Labels]
    BY <2>1 DEF TypeOK, Goto, AfterRead, Labels
  <2>3. failed' \in [Conns -> BOOLEAN] /\ taken' \in [Conns -> BOOLEAN]
    BY <1>3, <2>1 DEF TypeOK, ReadRequest
  <2>4. QED
    BY <1>3, <2>2, <2>3 DEF TypeOK, ReadRequest, moduleVars
<1>4. CASE Fork(c)
  <2>1. Inherited(c) \subseteq Slots \X Conns
    BY DEF Inherited
  <2>2. held' \in [Conns -> SUBSET (Slots \X Conns)]
    <3> HIDE DEF Slots, Inherited
    <3>1. QED
      BY <1>4, <2>1 DEF TypeOK, Fork
  <2>3. pc' \in [Conns -> Labels]
    BY <1>4 DEF TypeOK, Fork, Goto, Labels
  <2>4. module' \in [Conns -> {"none", "running", "wrote", "exited"}]
    BY <1>4 DEF TypeOK, Fork
  <2>5. QED
    BY <1>4, <2>2, <2>3, <2>4 DEF TypeOK, Fork, clientVars
<1>5. CASE ForkFails(c)
  BY <1>5 DEF TypeOK, ForkFails, NullDescriptor, handlerVars, clientVars, moduleVars
<1>6. CASE Error500(c)
  <2>1. pc' \in [Conns -> Labels]
    BY <1>6 DEF TypeOK, Error500, Goto, Labels
  <2>2. got' \in [Conns -> Seq([from : Conns, part : Parts])]
    <3>1. CASE SendWorks(c)
      <4>1. SendTarget(c)[2] \in Conns
        BY <3>1, TargetType
      <4>2. QED
        BY <1>6, <3>1, <4>1, DeliverType DEF Error500, Parts
    <3>2. CASE ~SendWorks(c)
      BY <1>6, <3>2 DEF Error500, TypeOK
    <3>3. QED
      BY <3>1, <3>2
  <2>3. QED
    BY <1>6, <2>1, <2>2 DEF TypeOK, Error500, moduleVars
<1>7. CASE Exit(c)
  <2>1. pc' \in [Conns -> Labels]
    BY <1>7 DEF TypeOK, Exit, Goto, Labels
  <2>2. QED
    BY <1>7, <2>1 DEF TypeOK, Exit, clientVars, moduleVars
<1>8. CASE ModuleAnswers(c)
  <2>1. output' \in [Conns -> OutputKinds \cup {"none"}]
    <3>1. PICK kind \in OutputKinds :
            output' = IF <<"outW", c>> \in held[c]
                      THEN [output EXCEPT ![c] = kind] ELSE output
      BY <1>8, ConstantsOK DEF ModuleAnswers, OutputKinds
    <3>2. QED
      BY <3>1 DEF TypeOK
  <2>2. module' \in [Conns -> {"none", "running", "wrote", "exited"}]
    BY <1>8 DEF TypeOK, ModuleAnswers
  <2>3. QED
    BY <1>8, <2>1, <2>2 DEF TypeOK, ModuleAnswers, handlerVars, clientVars
<1>9. CASE ModuleExits(c)
  BY <1>9 DEF TypeOK, ModuleExits, handlerVars, clientVars
<1>10. CASE SendRequest(c)
  BY <1>10, ConstantsOK DEF TypeOK, SendRequest, handlerVars, moduleVars
<1>11. CASE BeginRead(c)
  <2>1. SendTarget(c) \in Files
    BY DEF SendTarget, TypeOK, Slots
  <2>2. pc' \in [Conns -> Labels] /\ source' \in [Conns -> Files]
    BY <1>11, <2>1 DEF TypeOK, BeginRead, Goto, Labels
  <2>3. QED
    BY <1>11, <2>2 DEF TypeOK, BeginRead, clientVars, moduleVars
<1>12. QED
  BY <1>1, <1>2, <1>3, <1>4, <1>5, <1>6, <1>7, <1>8, <1>9, <1>10, <1>11

(* Every step keeps the types.                                              *)
LEMMA TypeStep == TypeOK /\ [Next]_vars => TypeOK'
<1> SUFFICES ASSUME TypeOK, [Next]_vars PROVE TypeOK'
  OBVIOUS
<1> USE DEF Labels, Slots, PipeSlots
<1>1. CASE UNCHANGED vars
  BY <1>1 DEF TypeOK, vars, handlerVars, clientVars, moduleVars
<1>2. ASSUME NEW c \in Conns, Accept(c) PROVE TypeOK'
  BY <1>2, AcceptType
<1>3. ASSUME NEW c \in Conns, OpenStdinPipe(c) \/ OpenStdoutPipe(c) PROVE TypeOK'
  BY <1>3, OpenPipeType DEF OpenStdinPipe, OpenStdoutPipe
<1>4. ASSUME NEW c \in Conns, WriteInput(c) PROVE TypeOK'
  BY <1>4, WriteType
<1>5. ASSUME NEW c \in Conns, ReadMetadata(c) PROVE TypeOK'
  BY <1>5, MetadataType
<1>6. ASSUME NEW c \in Conns, SendHead(c) PROVE TypeOK'
  BY <1>6, SendType DEF SendHead, Parts
<1>7. ASSUME NEW c \in Conns, SendBody(c) PROVE TypeOK'
  <2>1. ResponseDtor(c) \in Labels
    BY DEF ResponseDtor
  <2>2. PICK part \in Parts : Send(c, part, ResponseDtor(c))
    BY <1>7 DEF SendBody, Parts
  <2>3. QED
    BY <2>1, <2>2, SendType
<1>8. ASSUME NEW c \in Conns, RunCloses(c) \/ ResponseCloses(c) PROVE TypeOK'
  BY <1>8, CloseByType DEF RunCloses, ResponseCloses
<1>9. ASSUME NEW c \in Conns, ProcessCloses(c) PROVE TypeOK'
  <2>1. AfterTry(c) \in Labels
    BY DEF AfterTry
  <2>2. QED
    BY <1>9, <2>1, CloseByType DEF ProcessCloses
<1>10. ASSUME NEW c \in Conns, SocketCloses(c) PROVE TypeOK'
  BY <1>10, CloseByType DEF SocketCloses
<1>11. QED
  BY <1>1, <1>2, <1>3, <1>4, <1>5, <1>6, <1>7, <1>8, <1>9, <1>10, OtherTypes
  DEF Next, HandlerStep, ModuleStep, Rest

(* Type correctness of the whole server, for every number of connections.   *)
THEOREM TypeCorrect == Spec => []TypeOK
<1>1. QED
  BY TypeInit, TypeStep, PTL DEF Spec
-----------------------------------------------------------------------------
(* Covered: one lemma for the steps that close, one for those that open and *)
(* one for those that leave the table alone.                                *)

(* A step that gives nothing back: c's label may change to one at which it  *)
(* may hold as much.                                                        *)
LEMMA CoveredGoto ==
  ASSUME TypeOK, Covered, NEW c \in Conns, NEW next,
         fd' = fd, slot' = slot, response' = response, pc' = [pc EXCEPT ![c] = next],
         \A k \in Slots : MayHold(k, pc[c]) /\ (k = "file" => response[c] = "file")
                           => MayHold(k, next)
  PROVE  Covered'
<1> SUFFICES ASSUME NEW n \in Fds, NEW k \in Slots, NEW d \in Conns, fd[n] = <<k, d>>
             PROVE  /\ slot[d][k] = n
                    /\ MayHold(k, pc'[d])
                    /\ k = "file" => response[d] = "file"
  BY DEF Covered
<1>1. /\ slot[d][k] = n /\ MayHold(k, pc[d])
      /\ k = "file" => response[d] = "file"
  BY DEF Covered
<1>2. pc'[d] = IF d = c THEN next ELSE pc[d]
  BY DEF TypeOK
<1>3. QED
  BY <1>1, <1>2

(* A close by number: the closed slot holds nothing afterwards, whoever     *)
(* owned the file behind its number.                                        *)
LEMMA CoveredClose ==
  ASSUME TypeOK, Covered, NEW c \in Conns, NEW what \in Slots, NEW l, NEW next,
         CloseBy(c, l, what, next),
         \A k \in Slots \ {what} :
           MayHold(k, l) /\ (k = "file" => response[c] = "file") => MayHold(k, next)
  PROVE  Covered'
<1>1. slot[c][what] \in Fds
  BY DEF TypeOK
<1> SUFFICES ASSUME NEW n \in Fds, NEW k \in Slots, NEW d \in Conns, fd'[n] = <<k, d>>
             PROVE  /\ slot[d][k] = n
                    /\ MayHold(k, pc'[d])
                    /\ k = "file" => response[d] = "file"
  BY DEF Covered, CloseBy
<1>2. "closed" \notin Slots
  BY DEF Slots, PipeSlots
<1>3. n # slot[c][what] /\ fd[n] = <<k, d>>
  BY <1>1, <1>2 DEF TypeOK, CloseBy, Closed
<1>4. /\ slot[d][k] = n /\ MayHold(k, pc[d])
      /\ k = "file" => response[d] = "file"
  BY <1>3 DEF Covered
<1>5. pc'[d] = IF d = c THEN next ELSE pc[d]
  BY DEF TypeOK, CloseBy, Goto
<1>6. QED
  BY <1>3, <1>4, <1>5 DEF CloseBy, At

(* An open: the new number is remembered in a slot c could not hold before. *)
LEMMA CoveredOpen ==
  ASSUME TypeOK, Covered, NEW c \in Conns, NEW new \in Slots, NEW m \in Fds, NEW next,
         ~MayHold(new, pc[c]),
         fd' = [fd EXCEPT ![m] = <<new, c>>],
         slot' = [slot EXCEPT ![c][new] = m],
         pc' = [pc EXCEPT ![c] = next],
         \A d \in Conns \ {c} : response'[d] = response[d],
         new = "file" => response'[c] = "file",
         new # "file" => response' = response,
         MayHold(new, next),
         \A k \in Slots : MayHold(k, pc[c]) => k # "file" /\ MayHold(k, next)
  PROVE  Covered'
<1> SUFFICES ASSUME NEW n \in Fds, NEW k \in Slots, NEW d \in Conns, fd'[n] = <<k, d>>
             PROVE  /\ slot'[d][k] = n
                    /\ MayHold(k, pc'[d])
                    /\ k = "file" => response'[d] = "file"
  BY DEF Covered
<1>1. pc'[d] = IF d = c THEN next ELSE pc[d]
  BY DEF TypeOK
<1>2. CASE n = m
  <2>1. k = new /\ d = c
    BY <1>2 DEF TypeOK
  <2>2. slot'[c][new] = m
    BY DEF TypeOK
  <2>3. QED
    BY <1>1, <1>2, <2>1, <2>2
<1>3. CASE n # m
  <2>1. fd[n] = <<k, d>>
    BY <1>3 DEF TypeOK
  <2>2. /\ slot[d][k] = n /\ MayHold(k, pc[d])
        /\ k = "file" => response[d] = "file"
    BY <2>1 DEF Covered
  <2>3. <<k, d>> # <<new, c>>
    BY <2>2
  <2>4. slot'[d][k] = slot[d][k]
    BY <2>3 DEF TypeOK
  <2>5. QED
    BY <1>1, <2>2, <2>4
<1>4. QED
  BY <1>2, <1>3

(* pipe() opens two.                                                        *)
LEMMA CoveredPipe ==
  ASSUME TypeOK, Covered, NEW c \in Conns, NEW a \in PipeSlots, NEW b \in PipeSlots, a # b,
         NEW next, Pipe(c, a, b), Goto(c, next), response' = response,
         ~MayHold(a, pc[c]), ~MayHold(b, pc[c]), MayHold(a, next), MayHold(b, next),
         \A k \in Slots : MayHold(k, pc[c]) => MayHold(k, next)
  PROVE  Covered'
<1> SUFFICES ASSUME NEW n \in Fds, NEW k \in Slots, NEW d \in Conns, fd'[n] = <<k, d>>
             PROVE  /\ slot'[d][k] = n
                    /\ MayHold(k, pc'[d])
                    /\ k = "file" => response'[d] = "file"
  BY DEF Covered
<1>1. PICK r \in Fds, w \in Fds :
        /\ r # w
        /\ fd' = [fd EXCEPT ![r] = <<a, c>>, ![w] = <<b, c>>]
        /\ slot' = [slot EXCEPT ![c][a] = r, ![c][b] = w]
  BY DEF Pipe, Lowest
<1>2. pc'[d] = IF d = c THEN next ELSE pc[d]
  BY DEF TypeOK, Goto
<1>3. a \in Slots /\ b \in Slots /\ a # "file" /\ b # "file"
  BY DEF Slots, PipeSlots
<1>4. slot'[c][a] = r /\ slot'[c][b] = w
  BY <1>1, <1>3 DEF TypeOK
<1>5. CASE n \in {r, w}
  <2>1. d = c /\ ((n = r /\ k = a) \/ (n = w /\ k = b))
    BY <1>1, <1>5 DEF TypeOK
  <2>2. QED
    BY <1>2, <1>3, <1>4, <2>1
<1>6. CASE n \notin {r, w}
  <2>1. fd[n] = <<k, d>>
    BY <1>1, <1>6 DEF TypeOK
  <2>2. /\ slot[d][k] = n /\ MayHold(k, pc[d])
        /\ k = "file" => response[d] = "file"
    BY <2>1 DEF Covered
  <2>3. <<k, d>> # <<a, c>> /\ <<k, d>> # <<b, c>>
    BY <2>2
  <2>4. slot'[d][k] = slot[d][k]
    BY <1>1, <1>3, <2>3 DEF TypeOK
  <2>5. QED
    BY <1>2, <2>2, <2>4
<1>7. QED
  BY <1>5, <1>6

(* Initially nothing is held.                                               *)
LEMMA CoveredInit == Init => Covered
<1> SUFFICES ASSUME Init, NEW n \in Fds, NEW k \in Slots, NEW c \in Conns PROVE fd[n] # <<k, c>>
  BY DEF Covered
<1>1. fd[n] \in {Stdin, Listen, Closed}
  BY DEF Init
<1>2. QED
  BY <1>1, ConstantsOK DEF Stdin, Listen, Closed

(* Sending leaves the table alone and moves to a label that still holds.    *)
LEMMA CoveredSend ==
  ASSUME TypeOK, Covered, NEW c \in Conns, SendHead(c) \/ SendBody(c) \/ Error500(c)
  PROVE  Covered'
<1>1. CASE Error500(c)
  <2>1. /\ pc[c] = "error500" /\ pc' = [pc EXCEPT ![c] = "closeSock"]
        /\ fd' = fd /\ slot' = slot /\ response' = response
    BY <1>1 DEF Error500, At, Goto
  <2>2. \A k \in Slots : MayHold(k, "error500") => MayHold(k, "closeSock")
    BY DEF MayHold, PipesOpen, Answering
  <2>3. QED
    BY <2>1, <2>2, CoveredGoto
<1>2. CASE SendHead(c)
  <2>1. PICK next \in {"body", ResponseDtor(c)} : pc' = [pc EXCEPT ![c] = next]
    BY <1>2 DEF SendHead, Send, Goto
  <2>2. \A k \in Slots : MayHold(k, pc[c]) /\ (k = "file" => response[c] = "file")
                        => MayHold(k, next)
    BY <1>2, <2>1 DEF SendHead, At, ResponseDtor, MayHold, PipesOpen, Answering
  <2>3. fd' = fd /\ slot' = slot /\ response' = response
    BY <1>2 DEF SendHead, Send
  <2>4. QED
    BY <2>1, <2>2, <2>3, CoveredGoto
<1>3. CASE SendBody(c)
  <2>1. pc' = [pc EXCEPT ![c] = ResponseDtor(c)]
    BY <1>3 DEF SendBody, Send, Goto
  <2>2. \A k \in Slots : MayHold(k, pc[c]) /\ (k = "file" => response[c] = "file")
                        => MayHold(k, ResponseDtor(c))
    BY <1>3 DEF SendBody, At, ResponseDtor, MayHold, PipesOpen, Answering
  <2>3. fd' = fd /\ slot' = slot /\ response' = response
    BY <1>3 DEF SendBody, Send
  <2>4. QED
    BY <2>1, <2>2, <2>3, CoveredGoto
<1>4. QED
  BY <1>1, <1>2, <1>3

(* Every close gives back what its label may no longer hold.                *)
LEMMA CoveredClosing ==
  ASSUME TypeOK, Covered, NEW c \in Conns,
         RunCloses(c) \/ ResponseCloses(c) \/ ProcessCloses(c) \/ SocketCloses(c)
  PROVE  Covered'
<1> USE DEF Slots, PipeSlots, MayHold, PipesOpen, Answering
<1>1. CASE RunCloses(c)
  <2>1. CASE CloseBy(c, "closeInR", "inR", "closeOutW")
    BY <2>1, CoveredClose
  <2>2. CASE CloseBy(c, "closeOutW", "outW", "write")
    BY <2>2, CoveredClose
  <2>3. QED
    BY <1>1, <2>1, <2>2 DEF RunCloses
<1>2. CASE ResponseCloses(c)
  <2>1. CASE CloseBy(c, "respDtor", "outR", "outputDtor")
    BY <2>1, CoveredClose
  <2>2. CASE CloseBy(c, "fileDtor", "file", "outputDtor")
    BY <2>2, CoveredClose
  <2>3. CASE CloseBy(c, "outputDtor", "outR", "procInR")
    BY <2>3, CoveredClose
  <2>4. QED
    BY <1>2, <2>1, <2>2, <2>3 DEF ResponseCloses
<1>3. CASE ProcessCloses(c)
  <2>1. CASE CloseBy(c, "procInR", "inR", "procInW")
    BY <2>1, CoveredClose
  <2>2. CASE CloseBy(c, "procInW", "inW", "procOutR")
    BY <2>2, CoveredClose
  <2>3. CASE CloseBy(c, "procOutR", "outR", "procOutW")
    BY <2>3, CoveredClose
  <2>4. CASE CloseBy(c, "procOutW", "outW", AfterTry(c))
    BY <2>4, CoveredClose DEF AfterTry
  <2>5. QED
    BY <1>3, <2>1, <2>2, <2>3, <2>4 DEF ProcessCloses
<1>4. CASE SocketCloses(c)
  <2>1. CASE CloseBy(c, "closeSock", "sock", "exit")
    BY <2>1, CoveredClose
  <2>2. CASE CloseBy(c, "dtorSocket", "sock", "dtorDescriptor")
    BY <2>2, CoveredClose
  <2>3. CASE CloseBy(c, "dtorDescriptor", "sock", "finished")
    BY <2>3, CoveredClose
  <2>4. QED
    BY <1>4, <2>1, <2>2, <2>3 DEF SocketCloses
<1>5. QED
  BY <1>1, <1>2, <1>3, <1>4

(* Whatever is opened is remembered in the slot of its kind.                *)
LEMMA CoveredOpening ==
  ASSUME TypeOK, Covered, NEW c \in Conns,
         Accept(c) \/ OpenStdinPipe(c) \/ OpenStdoutPipe(c) \/ ReadMetadata(c)
  PROVE  Covered'
<1>1. CASE Accept(c)
  <2>1. PICK n \in Fds : /\ fd' = [fd EXCEPT ![n] = <<"sock", c>>]
                         /\ slot' = [slot EXCEPT ![c]["sock"] = n]
    BY <1>1 DEF Accept
  <2>2. pc[c] = "waiting" /\ pc' = [pc EXCEPT ![c] = "read"] /\ response' = response
    BY <1>1 DEF Accept, Goto
  <2>3. \A k \in Slots : ~MayHold(k, "waiting")
    BY DEF MayHold, PipesOpen, Answering
  <2>4. MayHold("sock", "read") /\ "sock" \in Slots
    BY DEF MayHold, Slots
  <2>5. QED
    BY <2>1, <2>2, <2>3, <2>4, CoveredOpen
<1>2. CASE OpenStdinPipe(c) \/ OpenStdoutPipe(c)
  <2>1. CASE NullDescriptor
    BY <2>1 DEF NullDescriptor, Covered, handlerVars
  <2>2. CASE /\ pc[c] = "pipeIn" /\ Pipe(c, "inR", "inW") /\ Goto(c, "pipeOut")
             /\ response' = response
    BY <2>2, CoveredPipe DEF PipeSlots, Slots, MayHold, PipesOpen, Answering
  <2>3. CASE /\ pc[c] = "pipeOut" /\ Pipe(c, "outR", "outW") /\ Goto(c, "fork")
             /\ response' = response
    BY <2>3, CoveredPipe DEF PipeSlots, Slots, MayHold, PipesOpen, Answering
  <2>4. QED
    BY <1>2, <2>1, <2>2, <2>3 DEF OpenStdinPipe, OpenStdoutPipe, OpenPipe, At
<1>3. CASE ReadMetadata(c)
  <2>1. pc[c] = "meta" /\ pc' = [pc EXCEPT ![c] = "head"]
    BY <1>3 DEF ReadMetadata, At, Goto
  <2>2. PICK kind \in OutputKinds :
          IF kind = "file" /\ Free # {}
          THEN \E n \in Fds : /\ fd' = [fd EXCEPT ![n] = <<"file", c>>]
                             /\ slot' = [slot EXCEPT ![c]["file"] = n]
                             /\ response' = [response EXCEPT ![c] = "file"]
          ELSE /\ response' = [response EXCEPT
                    ![c] = IF kind = "file" THEN "noFile" ELSE kind]
               /\ UNCHANGED <<fd, slot>>
    BY <1>3, Zenon DEF ReadMetadata
  <2>3. CASE kind = "file" /\ Free # {}
    <3>1. PICK n \in Fds : /\ fd' = [fd EXCEPT ![n] = <<"file", c>>]
                           /\ slot' = [slot EXCEPT ![c]["file"] = n]
      BY <2>2, <2>3
    <3>2. response'[c] = "file" /\ \A d \in Conns \ {c} : response'[d] = response[d]
      BY <2>2, <2>3 DEF TypeOK
    <3>3. /\ "file" \in Slots /\ ~MayHold("file", "meta") /\ MayHold("file", "head")
          /\ \A k \in Slots : MayHold(k, "meta") => k # "file" /\ MayHold(k, "head")
      BY DEF Slots, MayHold, PipesOpen, Answering
    <3>4. QED
      BY <2>1, <3>1, <3>2, <3>3, CoveredOpen
  <2>4. CASE ~(kind = "file" /\ Free # {})
    <3> SUFFICES ASSUME NEW n \in Fds, NEW k \in Slots, NEW d \in Conns, fd'[n] = <<k, d>>
                 PROVE  /\ slot'[d][k] = n
                        /\ MayHold(k, pc'[d])
                        /\ k = "file" => response'[d] = "file"
      BY DEF Covered
    <3>1. /\ slot[d][k] = n /\ MayHold(k, pc[d])
          /\ k = "file" => response[d] = "file"
      BY <2>2, <2>4 DEF Covered
    <3>2. CASE d = c
      BY <2>1, <2>2, <2>4, <3>1, <3>2 DEF TypeOK, MayHold, PipesOpen, Answering
    <3>3. CASE d # c
      BY <2>1, <2>2, <2>4, <3>1, <3>3 DEF TypeOK
    <3>4. QED
      BY <3>2, <3>3
  <2>5. QED
    BY <2>3, <2>4
<1>4. QED
  BY <1>1, <1>2, <1>3

(* Every step keeps the bookkeeping covered.                                *)
LEMMA CoveredStep == TypeOK /\ Covered /\ [Next]_vars => Covered'
<1> SUFFICES ASSUME TypeOK, Covered, [Next]_vars PROVE Covered'
  OBVIOUS
<1>1. CASE UNCHANGED <<fd, pc, slot, response>>
  BY <1>1 DEF Covered
<1>2. ASSUME NEW c \in Conns, AcceptorDrop(c) PROVE Covered'
  <2>1. CASE pc[c] = "left"
    <3>1. /\ pc' = [pc EXCEPT ![c] = "dtorSocket"] /\ fd' = fd /\ slot' = slot
          /\ response' = response
      BY <1>2, <2>1 DEF AcceptorDrop, Goto
    <3>2. \A k \in Slots : ~MayHold(k, "left")
      BY DEF Slots, PipeSlots, MayHold, PipesOpen, Answering
    <3>3. QED
      BY <2>1, <3>1, <3>2, CoveredGoto
  <2>2. CASE pc[c] # "left"
    BY <1>1, <1>2, <2>2 DEF AcceptorDrop
  <2>3. QED
    BY <2>1, <2>2
<1>3. ASSUME NEW c \in Conns,
             BeginRead(c) \/ ReadRequest(c) \/ Fork(c) \/ WriteInput(c) \/ Exit(c)
      PROVE  Covered'
  <2>1. PICK next : pc' = [pc EXCEPT ![c] = next]
    BY <1>3 DEF BeginRead, ReadRequest, Fork, WriteInput, Exit, Goto
  <2>2. fd' = fd /\ slot' = slot /\ response' = response
    BY <1>3 DEF BeginRead, ReadRequest, Fork, WriteInput, Exit
  <2>3. pc'[c] = next
    BY <2>1 DEF TypeOK
  <2>4. \/ pc[c] = "read" /\ next = "request"
        \/ pc[c] = "request" /\ next \in {"pipeIn", "procInR", "error500"}
        \/ pc[c] = "fork" /\ next = "closeInR"
        \/ pc[c] = "write" /\ next = "meta"
        \/ pc[c] = "exit" /\ next \in {"left", "dtorSocket"}
    BY <1>3, <2>3 DEF BeginRead, ReadRequest, Fork, WriteInput, Exit, Goto, At, AfterRead, TypeOK
  <2>5. \A k \in Slots : MayHold(k, pc[c]) => MayHold(k, next)
    BY <2>4 DEF MayHold, PipesOpen, Answering
  <2>6. QED
    BY <2>1, <2>2, <2>5, CoveredGoto
<1>4. ASSUME NEW c \in Conns, SendRequest(c) \/ Abort(c) \/ ForkFails(c) \/ ModuleStep(c)
      PROVE  Covered'
  BY <1>1, <1>4 DEF SendRequest, Abort, ForkFails, NullDescriptor, ModuleStep, ModuleAnswers,
                    ModuleExits, handlerVars
<1>5. CASE UNCHANGED vars
  BY <1>1, <1>5 DEF vars, handlerVars
<1>6. ASSUME NEW c \in Conns, SendHead(c) \/ SendBody(c) \/ Error500(c) PROVE Covered'
  BY <1>6, CoveredSend
<1>7. ASSUME NEW c \in Conns,
             RunCloses(c) \/ ResponseCloses(c) \/ ProcessCloses(c) \/ SocketCloses(c)
      PROVE  Covered'
  BY <1>7, CoveredClosing
<1>8. ASSUME NEW c \in Conns,
             Accept(c) \/ OpenStdinPipe(c) \/ OpenStdoutPipe(c) \/ ReadMetadata(c)
      PROVE  Covered'
  BY <1>8, CoveredOpening
<1>9. QED
  BY <1>2, <1>3, <1>4, <1>5, <1>6, <1>7, <1>8 DEF Next, HandlerStep, Rest

(* No descriptor leaks: Covered holds in every state, and at the labels     *)
(* after the explicit close of the socket it leaves a handler nothing.      *)
THEOREM AllCovered == Spec => []Covered
<1>1. QED
  BY TypeInit, TypeStep, CoveredInit, CoveredStep, PTL DEF Spec

(* Every descriptor of a connection is closed when its handler has closed   *)
(* its socket, on every path through handleClient and whatever the doubled  *)
(* closes of other handlers hit in the meantime.                            *)
THEOREM NothingLeaks == Spec => []NoLeak
<1>1. Covered => NoLeak
  BY DEF Covered, NoLeak, MayHold, PipesOpen, Answering, Slots, PipeSlots
<1>2. QED
  BY <1>1, AllCovered, PTL
-----------------------------------------------------------------------------
(* What a step does to the table, in two shapes: it closes a number a slot  *)
(* names, or it opens a number that was free and remembers it.              *)
Closes ==
  \E c \in Conns, k \in Slots : fd' = [fd EXCEPT ![slot[c][k]] = Closed] /\ slot' = slot
OpensOne ==
  \E c \in Conns, k \in Slots, n \in Free :
    /\ fd' = [fd EXCEPT ![n] = <<k, c>>]
    /\ slot' = [slot EXCEPT ![c][k] = n]
OpensTwo ==
  \E c \in Conns, a, b \in Slots, r, w \in Free :
    /\ fd' = [fd EXCEPT ![r] = <<a, c>>, ![w] = <<b, c>>]
    /\ slot' = [slot EXCEPT ![c][a] = r, ![c][b] = w]
Table == <<fd, slot>>

(* Every step closes a number, opens free ones, or leaves the table alone.  *)
LEMMA TableShape ==
  ASSUME [Next]_vars
  PROVE  Closes \/ OpensOne \/ OpensTwo \/ UNCHANGED Table
<1> USE DEF Slots, PipeSlots
<1>1. CASE UNCHANGED <<fd, slot>>
  BY <1>1 DEF Table
<1>2. ASSUME NEW c \in Conns, Accept(c) PROVE OpensOne
  <2>1. PICK n \in Free : /\ fd' = [fd EXCEPT ![n] = <<"sock", c>>]
                          /\ slot' = [slot EXCEPT ![c]["sock"] = n]
    BY <1>2 DEF Accept, Lowest
  <2>2. QED
    BY <2>1 DEF OpensOne
<1>3. ASSUME NEW c \in Conns, OpenStdinPipe(c) \/ OpenStdoutPipe(c)
      PROVE  OpensTwo \/ UNCHANGED Table
  <2>1. ASSUME NEW a \in Slots, NEW b \in Slots, Pipe(c, a, b) PROVE OpensTwo
    <3>1. PICK r, w \in Free : /\ fd' = [fd EXCEPT ![r] = <<a, c>>, ![w] = <<b, c>>]
                               /\ slot' = [slot EXCEPT ![c][a] = r, ![c][b] = w]
      BY <2>1 DEF Pipe, Lowest
    <3>2. QED
      BY <3>1 DEF OpensTwo
  <2>2. CASE NullDescriptor
    BY <2>2 DEF NullDescriptor, Table, handlerVars
  <2>3. QED
    BY <1>3, <2>1, <2>2 DEF OpenStdinPipe, OpenStdoutPipe, OpenPipe
<1>4. ASSUME NEW c \in Conns, ReadMetadata(c) PROVE OpensOne \/ UNCHANGED Table
  <2>1. PICK kind \in OutputKinds :
          IF kind = "file" /\ Free # {}
          THEN \E n \in Fds : /\ Lowest(n, Free)
                             /\ fd' = [fd EXCEPT ![n] = <<"file", c>>]
                             /\ slot' = [slot EXCEPT ![c]["file"] = n]
          ELSE UNCHANGED <<fd, slot>>
    BY <1>4, Zenon DEF ReadMetadata
  <2>2. QED
    BY <2>1 DEF OpensOne, Lowest, Table
<1>5. ASSUME NEW c \in Conns,
             RunCloses(c) \/ ResponseCloses(c) \/ ProcessCloses(c) \/ SocketCloses(c)
      PROVE  Closes
  BY <1>5 DEF RunCloses, ResponseCloses, ProcessCloses, SocketCloses, CloseBy, Closes
<1>6. ASSUME NEW c \in Conns,
             \/ AcceptorDrop(c) \/ Abort(c) \/ ReadRequest(c) \/ Fork(c) \/ ForkFails(c)
             \/ WriteInput(c) \/ SendHead(c) \/ SendBody(c) \/ Error500(c) \/ Exit(c)
             \/ ModuleStep(c) \/ SendRequest(c) \/ BeginRead(c)
      PROVE  UNCHANGED Table
  BY <1>6 DEF SendRequest, BeginRead, AcceptorDrop, Abort, ReadRequest, Fork, ForkFails, NullDescriptor,
              WriteInput, SendHead, SendBody, Send, Error500, Exit, ModuleStep,
              ModuleAnswers, ModuleExits, handlerVars, Table
<1>7. CASE UNCHANGED vars
  BY <1>7 DEF vars, handlerVars, Table
<1>8. QED
  BY <1>2, <1>3, <1>4, <1>5, <1>6, <1>7 DEF Next, HandlerStep, Rest

(* No slot ever names the listening socket.                                 *)
NoSlotNames(number) == \A c \in Conns, k \in Slots : slot[c][k] # number
ListenInv == ListenStaysOpen /\ NoSlotNames(1)

(* The listening socket survives: a slot names 0, the value of an array     *)
(* whose pipe was never opened, or a number that was free when it was       *)
(* opened, and number 1 never is.                                           *)
THEOREM ListenSafe == Spec => []ListenStaysOpen
<1>1. Init => ListenInv
  <2>1. 1 \in Fds
    BY ConstantsOK DEF Fds
  <2>2. QED
    BY <2>1 DEF Init, ListenInv, ListenStaysOpen, NoSlotNames, Unset
<1>2. TypeOK /\ ListenInv /\ [Next]_vars => ListenInv'
  <2> SUFFICES ASSUME TypeOK, ListenInv, [Next]_vars PROVE ListenInv'
    OBVIOUS
  <2> USE DEF ListenInv, ListenStaysOpen, NoSlotNames
  <2>1. 1 \notin Free
    BY DEF Free, Listen, Closed
  <2>2. CASE Closes
    BY <2>2 DEF Closes, TypeOK
  <2>3. CASE OpensOne
    BY <2>1, <2>3 DEF OpensOne, TypeOK
  <2>4. CASE OpensTwo
    <3>1. PICK c \in Conns, a \in Slots, b \in Slots, r \in Free, w \in Free :
            /\ fd' = [fd EXCEPT ![r] = <<a, c>>, ![w] = <<b, c>>]
            /\ slot' = [slot EXCEPT ![c][a] = r, ![c][b] = w]
      BY <2>4 DEF OpensTwo
    <3>2. r # 1 /\ w # 1
      BY <2>1
    <3>3. fd'[1] = fd[1]
      BY <3>1, <3>2, ConstantsOK DEF TypeOK, Fds
    <3>4. ASSUME NEW d \in Conns, NEW k \in Slots PROVE slot'[d][k] # 1
      BY <3>1, <3>2 DEF TypeOK
    <3>5. QED
      BY <3>3, <3>4
  <2>5. CASE UNCHANGED Table
    BY <2>5 DEF Table
  <2>6. QED
    BY <2>2, <2>3, <2>4, <2>5, TableShape
<1>3. ListenInv => ListenStaysOpen
  BY DEF ListenInv
<1>4. QED
  BY <1>1, <1>2, <1>3, TypeCorrect, PTL DEF Spec
-----------------------------------------------------------------------------
(* Standard input survives until a request is read that cannot be           *)
(* serialised.                                                              *)
Spoiled == \E c \in Conns : request[c] = "undumpable" /\ taken[c]

(* The slots that have been given a number: these are all a close names.    *)
InPipeLabels ==
  PipesOpen \cup Answering
  \cup {"pipeOut", "closeOutW", "procInR", "procInW", "procOutR", "procOutW"}
Named(k, c) ==
  \/ k = "sock" /\ pc[c] # "waiting"
  \/ k \in {"inR", "inW"} /\ pc[c] \in InPipeLabels
  \/ k \in {"outR", "outW"} /\ pc[c] \in InPipeLabels \ {"pipeOut"}
  \/ k = "file" /\ response[c] = "file"

StdinInv ==
  /\ StdinOpen
  /\ \A c \in Conns : pc[c] = "fileDtor" => response[c] = "file"
  /\ \A c \in Conns, k \in Slots : Named(k, c) => slot[c][k] # 0

(* A close by a slot that was given a number spares standard input.         *)
LEMMA StdinClose ==
  ASSUME TypeOK, StdinInv, NEW c \in Conns, NEW l, NEW what \in Slots, NEW next,
         CloseBy(c, l, what, next), next # "fileDtor", Named(what, c), l # "waiting",
         next \in InPipeLabels \ {"pipeOut"} => l \in InPipeLabels \ {"pipeOut"},
         next # "pipeOut"
  PROVE  StdinInv'
<1>1. slot[c][what] # 0
  BY DEF StdinInv
<1>2. StdinOpen'
  BY <1>1, ConstantsOK DEF StdinInv, StdinOpen, CloseBy, TypeOK, Fds
<1>3. \A d \in Conns : pc'[d] = "fileDtor" => response'[d] = "file"
  BY DEF StdinInv, CloseBy, Goto, TypeOK
<1>4. ASSUME NEW d \in Conns, NEW k \in Slots, Named(k, d)' PROVE slot'[d][k] # 0
  <2>1. pc[c] = l /\ pc'[d] = (IF d = c THEN next ELSE pc[d]) /\ response' = response
    BY DEF CloseBy, At, Goto, TypeOK
  <2>2. Named(k, d)
    BY <1>4, <2>1 DEF Named
  <2>3. QED
    BY <2>2 DEF StdinInv, CloseBy
<1>5. QED
  BY <1>2, <1>3, <1>4 DEF StdinInv

(* No close of a handler that ran its Process hits descriptor 0.            *)
LEMMA StdinClosing ==
  ASSUME TypeOK, StdinInv, NEW c \in Conns,
         RunCloses(c) \/ ResponseCloses(c) \/ ProcessCloses(c) \/ SocketCloses(c)
  PROVE  StdinInv'
<1> USE DEF Slots, PipeSlots, PipesOpen, Answering, InPipeLabels, Named
<1>1. CASE RunCloses(c)
  <2>1. CASE CloseBy(c, "closeInR", "inR", "closeOutW")
    BY <2>1, StdinClose DEF CloseBy, At
  <2>2. CASE CloseBy(c, "closeOutW", "outW", "write")
    BY <2>2, StdinClose DEF CloseBy, At
  <2>3. QED
    BY <1>1, <2>1, <2>2 DEF RunCloses
<1>2. CASE ResponseCloses(c)
  <2>1. CASE CloseBy(c, "respDtor", "outR", "outputDtor")
    BY <2>1, StdinClose DEF CloseBy, At
  <2>2. CASE CloseBy(c, "fileDtor", "file", "outputDtor")
    <3>1. response[c] = "file"
      BY <2>2 DEF CloseBy, At, StdinInv
    <3>2. QED
      BY <2>2, <3>1, StdinClose DEF CloseBy, At
  <2>3. CASE CloseBy(c, "outputDtor", "outR", "procInR")
    BY <2>3, StdinClose DEF CloseBy, At
  <2>4. QED
    BY <1>2, <2>1, <2>2, <2>3 DEF ResponseCloses
<1>3. CASE ProcessCloses(c)
  <2>1. CASE CloseBy(c, "procInR", "inR", "procInW")
    BY <2>1, StdinClose DEF CloseBy, At
  <2>2. CASE CloseBy(c, "procInW", "inW", "procOutR")
    BY <2>2, StdinClose DEF CloseBy, At
  <2>3. CASE CloseBy(c, "procOutR", "outR", "procOutW")
    BY <2>3, StdinClose DEF CloseBy, At
  <2>4. CASE CloseBy(c, "procOutW", "outW", AfterTry(c))
    BY <2>4, StdinClose DEF CloseBy, At, AfterTry
  <2>5. QED
    BY <1>3, <2>1, <2>2, <2>3, <2>4 DEF ProcessCloses
<1>4. CASE SocketCloses(c)
  <2>1. CASE CloseBy(c, "closeSock", "sock", "exit")
    BY <2>1, StdinClose DEF CloseBy, At
  <2>2. CASE CloseBy(c, "dtorSocket", "sock", "dtorDescriptor")
    BY <2>2, StdinClose DEF CloseBy, At
  <2>3. CASE CloseBy(c, "dtorDescriptor", "sock", "finished")
    BY <2>3, StdinClose DEF CloseBy, At
  <2>4. QED
    BY <1>4, <2>1, <2>2, <2>3 DEF SocketCloses
<1>5. QED
  BY <1>1, <1>2, <1>3, <1>4

(* Opening steps remember free numbers, and 0 is not free.                  *)
LEMMA StdinOpening ==
  ASSUME TypeOK, StdinInv, NEW c \in Conns,
         Accept(c) \/ OpenStdinPipe(c) \/ OpenStdoutPipe(c) \/ ReadMetadata(c)
  PROVE  StdinInv'
<1> USE DEF Slots, PipeSlots, PipesOpen, Answering, InPipeLabels
<1>1. 0 \in Fds /\ 0 \notin Free
  BY ConstantsOK DEF Fds, Free, StdinInv, StdinOpen, Stdin, Closed
<1>2. CASE Accept(c)
  <2>1. PICK n \in Free : /\ fd' = [fd EXCEPT ![n] = <<"sock", c>>]
                          /\ slot' = [slot EXCEPT ![c]["sock"] = n]
    BY <1>2 DEF Accept, Lowest
  <2>2. n # 0
    BY <1>1, <2>1
  <2>3. pc' = [pc EXCEPT ![c] = "read"] /\ response' = response
    BY <1>2 DEF Accept, Goto
  <2>4. StdinOpen'
    BY <1>1, <2>1, <2>2 DEF TypeOK, StdinInv, StdinOpen
  <2>6. \A d \in Conns : pc'[d] = "fileDtor" => response'[d] = "file"
    BY <2>3 DEF TypeOK, StdinInv
  <2>7. \A d \in Conns, k \in Slots : Named(k, d)' => slot'[d][k] # 0
    BY <2>1, <2>2, <2>3 DEF TypeOK, StdinInv, Named
  <2>8. QED
    BY <2>4, <2>6, <2>7 DEF StdinInv
<1>3. ASSUME NEW a \in PipeSlots, NEW b \in PipeSlots, NEW next,
             Pipe(c, a, b), Goto(c, next), response' = response,
             \/ pc[c] = "pipeIn" /\ {a, b} = {"inR", "inW"} /\ next = "pipeOut"
             \/ pc[c] = "pipeOut" /\ {a, b} = {"outR", "outW"} /\ next = "fork"
      PROVE  StdinInv'
  <2>1. PICK r \in Free, w \in Free :
          /\ fd' = [fd EXCEPT ![r] = <<a, c>>, ![w] = <<b, c>>]
          /\ slot' = [slot EXCEPT ![c][a] = r, ![c][b] = w]
    BY <1>3 DEF Pipe, Lowest
  <2>2. r # 0 /\ w # 0
    BY <1>1, <2>1
  <2>3. pc' = [pc EXCEPT ![c] = next]
    BY <1>3 DEF Goto
  <2>4. StdinOpen'
    BY <1>1, <2>1, <2>2 DEF TypeOK, StdinInv, StdinOpen
  <2>5. \A d \in Conns : pc'[d] = "fileDtor" => response'[d] = "file"
    BY <1>3, <2>3 DEF TypeOK, StdinInv
  <2>6. ASSUME NEW d \in Conns, NEW k \in Slots, Named(k, d)' PROVE slot'[d][k] # 0
    <3>1. CASE d = c /\ k \in {a, b}
      BY <2>1, <2>2, <3>1 DEF TypeOK
    <3>2. CASE ~(d = c /\ k \in {a, b})
      <4>1. slot'[d][k] = slot[d][k]
        BY <2>1, <3>2 DEF TypeOK
      <4>2. Named(k, d)
        BY <1>3, <2>3, <2>6, <3>2 DEF Named, TypeOK
      <4>3. QED
        BY <4>1, <4>2 DEF StdinInv
    <3>3. QED
      BY <3>1, <3>2
  <2>7. QED
    BY <1>3, <2>4, <2>5, <2>6 DEF StdinInv
<1>4. CASE OpenStdinPipe(c) \/ OpenStdoutPipe(c)
  <2>1. CASE NullDescriptor
    BY <2>1 DEF NullDescriptor, StdinInv, StdinOpen, Named, handlerVars, clientVars
  <2>2. CASE ~NullDescriptor
    <3>1. \/ /\ pc[c] = "pipeIn" /\ Pipe(c, "inR", "inW") /\ Goto(c, "pipeOut")
             /\ response' = response
          \/ /\ pc[c] = "pipeOut" /\ Pipe(c, "outR", "outW") /\ Goto(c, "fork")
             /\ response' = response
      BY <1>4, <2>2 DEF OpenStdinPipe, OpenStdoutPipe, OpenPipe, At, clientVars
    <3>2. QED
      BY <1>3, <3>1
  <2>3. QED
    BY <2>1, <2>2
<1>5. CASE ReadMetadata(c)
  <2>1. PICK kind \in OutputKinds :
          IF kind = "file" /\ Free # {}
          THEN \E n \in Fds : /\ Lowest(n, Free)
                             /\ fd' = [fd EXCEPT ![n] = <<"file", c>>]
                             /\ slot' = [slot EXCEPT ![c]["file"] = n]
                             /\ response' = [response EXCEPT ![c] = "file"]
          ELSE /\ response' = [response EXCEPT
                    ![c] = IF kind = "file" THEN "noFile" ELSE kind]
               /\ UNCHANGED <<fd, slot>>
    BY <1>5, Zenon DEF ReadMetadata
  <2>2. pc[c] = "meta" /\ pc' = [pc EXCEPT ![c] = "head"]
    BY <1>5 DEF ReadMetadata, At, Goto, clientVars
  <2>3. CASE kind = "file" /\ Free # {}
    <3>1. PICK n \in Free : /\ fd' = [fd EXCEPT ![n] = <<"file", c>>]
                            /\ slot' = [slot EXCEPT ![c]["file"] = n]
                            /\ response' = [response EXCEPT ![c] = "file"]
      BY <2>1, <2>3 DEF Lowest
    <3>2. StdinOpen' /\ n # 0
      BY <1>1, <3>1 DEF TypeOK, StdinInv, StdinOpen
    <3>3. \A d \in Conns : pc'[d] = "fileDtor" => response'[d] = "file"
      BY <2>2, <3>1 DEF TypeOK, StdinInv
    <3>4. \A d \in Conns, k \in Slots : Named(k, d)' => slot'[d][k] # 0
      BY <2>2, <3>1, <3>2 DEF TypeOK, StdinInv, Named
    <3>5. QED
      BY <2>2, <3>2, <3>3, <3>4 DEF StdinInv
  <2>4. CASE ~(kind = "file" /\ Free # {})
    <3>1. StdinOpen' /\ slot' = slot
      BY <2>1, <2>4 DEF StdinInv, StdinOpen
    <3>2. /\ response'[c] # "file"
          /\ \A d \in Conns \ {c} : response'[d] = response[d]
      BY <2>1, <2>4 DEF TypeOK, OutputKinds
    <3>3. \A d \in Conns : pc'[d] = "fileDtor" => response'[d] = "file"
      BY <2>2, <3>2 DEF TypeOK, StdinInv
    <3>4. \A d \in Conns, k \in Slots : Named(k, d)' => slot'[d][k] # 0
      BY <2>2, <3>1, <3>2 DEF TypeOK, StdinInv, Named
    <3>5. QED
      BY <2>2, <3>1, <3>3, <3>4 DEF StdinInv
  <2>5. QED
    BY <2>3, <2>4
<1>6. QED
  BY <1>2, <1>4, <1>5

(* The steps that leave the table alone move c to a label at which no slot  *)
(* counts as named that was not before.                                     *)
LEMMA StdinGoto ==
  ASSUME TypeOK, StdinInv, NEW c \in Conns, NEW next,
         UNCHANGED <<fd, slot, response>>, pc' = [pc EXCEPT ![c] = next],
         pc[c] # "waiting",
         next = "fileDtor" => response[c] = "file",
         next \in InPipeLabels => pc[c] \in InPipeLabels,
         next \in InPipeLabels \ {"pipeOut"} => pc[c] \in InPipeLabels \ {"pipeOut"}
  PROVE  StdinInv'
<1>1. \A d \in Conns : pc'[d] = (IF d = c THEN next ELSE pc[d])
  BY DEF TypeOK
<1>2. \A d \in Conns, k \in Slots : Named(k, d)' => Named(k, d)
  BY <1>1 DEF Named
<1>3. QED
  BY <1>1, <1>2 DEF StdinInv, StdinOpen

(* The steps that open and close nothing leave descriptor 0 alone.          *)
LEMMA StdinMoves ==
  ASSUME TypeOK, StdinInv, NEW c \in Conns,
         \/ AcceptorDrop(c) \/ BeginRead(c) \/ (ReadRequest(c) /\ ~Spoiled')
         \/ Fork(c) \/ WriteInput(c)
         \/ SendHead(c) \/ SendBody(c) \/ Error500(c) \/ Exit(c)
  PROVE  StdinInv'
<1> USE DEF PipesOpen, Answering, InPipeLabels
<1>1. CASE ReadRequest(c) /\ ~Spoiled'
  <2>1. PICK kind \in Yields(source[c]) : pc' = [pc EXCEPT ![c] = AfterRead(kind)]
    BY <1>1 DEF ReadRequest, Goto
  <2>2. kind # "undumpable"
    <3>1. source[c] \in Files
      BY DEF TypeOK
    <3>2. CASE source[c][1] # "sock"
      BY <2>1, <3>2 DEF Yields
    <3>3. CASE source[c][1] = "sock"
      <4>1. PICK d \in Conns : source[c] = <<"sock", d>>
        BY <3>1, <3>3 DEF Files, Closed, Stdin, Listen
      <4>2. kind = "undumpable" => request[d] = "undumpable"
        BY <2>1, <4>1 DEF Yields
      <4>3. request' = request /\ taken'[d]
        BY <1>1, <4>1 DEF ReadRequest
      <4>4. QED
        BY <1>1, <4>2, <4>3 DEF Spoiled
    <3>4. QED
      BY <3>2, <3>3
  <2>3. AfterRead(kind) \in {"pipeIn", "error500"}
    BY <2>2 DEF AfterRead
  <2>4. UNCHANGED <<fd, slot, response>> /\ pc[c] = "request"
    BY <1>1 DEF ReadRequest, At
  <2>5. QED
    BY <2>1, <2>3, <2>4, StdinGoto
<1>2. CASE SendHead(c) \/ SendBody(c)
  <2>1. PICK next \in {"body", ResponseDtor(c)} : pc' = [pc EXCEPT ![c] = next]
    BY <1>2 DEF SendHead, SendBody, Send, Goto
  <2>2. UNCHANGED <<fd, slot, response>> /\ pc[c] \in {"head", "body"}
    BY <1>2 DEF SendHead, SendBody, Send, At
  <2>3. next = "fileDtor" => response[c] = "file"
    BY <2>1 DEF ResponseDtor
  <2>4. QED
    BY <2>1, <2>2, <2>3, StdinGoto
<1>3. CASE Error500(c)
  <2>1. UNCHANGED <<fd, slot, response>> /\ pc[c] = "error500"
        /\ pc' = [pc EXCEPT ![c] = "closeSock"]
    BY <1>3 DEF Error500, At, Goto
  <2>2. QED
    BY <2>1, StdinGoto
<1>4. CASE Fork(c) \/ WriteInput(c)
  <2>1. /\ UNCHANGED <<fd, slot, response>>
        /\ \/ pc[c] = "fork" /\ pc' = [pc EXCEPT ![c] = "closeInR"]
           \/ pc[c] = "write" /\ pc' = [pc EXCEPT ![c] = "meta"]
    BY <1>4 DEF Fork, WriteInput, At, Goto, clientVars
  <2>2. QED
    BY <2>1, StdinGoto
<1>5. CASE Exit(c)
  <2>1. /\ UNCHANGED <<fd, slot, response>> /\ pc[c] = "exit"
        /\ \E next \in {"left", "dtorSocket"} : pc' = [pc EXCEPT ![c] = next]
    BY <1>5 DEF Exit, At, Goto, clientVars
  <2>2. QED
    BY <2>1, StdinGoto
<1>6. CASE AcceptorDrop(c)
  <2>1. UNCHANGED <<fd, slot, response>>
    BY <1>6 DEF AcceptorDrop, clientVars
  <2>2. CASE pc[c] = "left"
    BY <1>6, <2>1, <2>2, StdinGoto DEF AcceptorDrop, Goto
  <2>3. CASE pc[c] # "left"
    BY <1>6, <2>1, <2>3 DEF AcceptorDrop, StdinInv, StdinOpen, Named
  <2>4. QED
    BY <2>2, <2>3
<1>7. CASE BeginRead(c)
  <2>1. UNCHANGED <<fd, slot, response>> /\ pc[c] = "read"
        /\ pc' = [pc EXCEPT ![c] = "request"]
    BY <1>7 DEF BeginRead, At, Goto
  <2>2. QED
    BY <2>1, StdinGoto
<1>8. QED
  BY <1>1, <1>2, <1>3, <1>4, <1>5, <1>6, <1>7

(* A request that was read stays read.                                      *)
LEMMA SpoiledStays ==
  ASSUME TypeOK, Spoiled, [Next]_vars
  PROVE  Spoiled'
<1>1. PICK d \in Conns : request[d] = "undumpable" /\ taken[d]
  BY DEF Spoiled
<1>2. CASE UNCHANGED <<request, taken>>
  BY <1>2 DEF Spoiled
<1>3. ASSUME NEW c \in Conns, SendRequest(c) PROVE Spoiled'
  <2>1. request'[d] = request[d] /\ taken' = taken
    BY <1>1, <1>3 DEF SendRequest, TypeOK
  <2>2. QED
    BY <1>1, <2>1 DEF Spoiled
<1>4. ASSUME NEW c \in Conns, ReadRequest(c) PROVE Spoiled'
  <2>1. request' = request /\ taken'[d]
    BY <1>1, <1>4 DEF ReadRequest
  <2>2. QED
    BY <1>1, <2>1 DEF Spoiled
<1>5. ASSUME NEW c \in Conns,
             \/ Accept(c) \/ AcceptorDrop(c) \/ Abort(c) \/ BeginRead(c) \/ OpenStdinPipe(c)
             \/ OpenStdoutPipe(c) \/ Fork(c) \/ ForkFails(c) \/ WriteInput(c) \/ ReadMetadata(c)
             \/ SendHead(c) \/ SendBody(c) \/ RunCloses(c) \/ ResponseCloses(c)
             \/ ProcessCloses(c) \/ Error500(c) \/ SocketCloses(c) \/ Exit(c) \/ ModuleStep(c)
      PROVE  UNCHANGED <<request, taken>>
  BY <1>5 DEF Accept, AcceptorDrop, Abort, BeginRead, OpenStdinPipe, OpenStdoutPipe, OpenPipe,
     NullDescriptor, Fork, ForkFails, WriteInput, ReadMetadata, SendHead, SendBody, Send, RunCloses,
     ResponseCloses, ProcessCloses, CloseBy, Error500, SocketCloses, Exit, ModuleStep,
     ModuleAnswers, ModuleExits, clientVars
<1>6. CASE UNCHANGED vars
  BY <1>2, <1>6 DEF vars, clientVars
<1>7. QED
  BY <1>2, <1>3, <1>4, <1>5, <1>6 DEF Next, HandlerStep, Rest

(* Every step leaves descriptor 0 alone unless it reads such a request.     *)
LEMMA StdinStep ==
  ASSUME TypeOK, StdinInv, ~Spoiled', [Next]_vars
  PROVE  StdinInv'
<1>1. CASE UNCHANGED <<fd, pc, slot, response>>
  BY <1>1 DEF StdinInv, StdinOpen, Named
<1>2. ASSUME NEW c \in Conns, SendRequest(c) \/ Abort(c) \/ ForkFails(c) \/ ModuleStep(c)
      PROVE  StdinInv'
  BY <1>1, <1>2 DEF SendRequest, Abort, ForkFails, NullDescriptor, ModuleStep, ModuleAnswers,
                    ModuleExits, handlerVars, clientVars
<1>3. CASE UNCHANGED vars
  BY <1>1, <1>3 DEF vars, handlerVars, clientVars
<1>4. ASSUME NEW c \in Conns,
             Accept(c) \/ OpenStdinPipe(c) \/ OpenStdoutPipe(c) \/ ReadMetadata(c)
      PROVE  StdinInv'
  BY <1>4, StdinOpening
<1>5. ASSUME NEW c \in Conns,
             RunCloses(c) \/ ResponseCloses(c) \/ ProcessCloses(c) \/ SocketCloses(c)
      PROVE  StdinInv'
  BY <1>5, StdinClosing
<1>6. ASSUME NEW c \in Conns,
             \/ AcceptorDrop(c) \/ BeginRead(c) \/ ReadRequest(c) \/ Fork(c) \/ WriteInput(c)
             \/ SendHead(c) \/ SendBody(c) \/ Error500(c) \/ Exit(c)
      PROVE  StdinInv'
  BY <1>6, StdinMoves
<1>7. QED
  BY <1>2, <1>3, <1>4, <1>5, <1>6 DEF Next, HandlerStep, Rest

LEMMA StdinInit == Init => StdinInv
<1>1. 0 \in Fds
  BY ConstantsOK DEF Fds
<1>2. QED
  BY <1>1 DEF Init, StdinInv, StdinOpen, Named, InPipeLabels, PipesOpen, Answering

(* The server keeps its standard input, on which it takes its commands,     *)
(* whatever is sent, until a request is read that makes json::dump throw: a *)
(* Process is destroyed only after run() gave both its pipes numbers, so    *)
(* none of the doubled closes names 0.  The exception is the code's own:    *)
(* run handler_undumpable shows the Process that closes its zeros.          *)
THEOREM StdinSafe == Spec => []StdinStaysOpen
<1>1. Init => Spoiled \/ StdinInv
  BY StdinInit
<1>2. TypeOK /\ (Spoiled \/ StdinInv) /\ [Next]_vars => (Spoiled \/ StdinInv)'
  BY StdinStep, SpoiledStays
<1>3. Spoiled \/ StdinInv => StdinStaysOpen
  BY DEF StdinInv, StdinOpen, StdinStaysOpen, Spoiled
<1>4. QED
  BY <1>1, <1>2, <1>3, TypeCorrect, PTL DEF Spec
-----------------------------------------------------------------------------
(***************************************************************************)
(* One connection at a time.  A client that connects only when the handlers *)
(* and modules of all earlier connections are done leaves the descriptor    *)
(* table to a single handler; the numbers it remembers then name its own    *)
(* files wherever it uses them, its doubled closes hit nothing, and the     *)
(* answer is whole.                                                         *)
(***************************************************************************)
Regime ==
  Arrival = "afterIdle" /\ "undumpable" \notin Requests /\ MaxFd >= 6

Idle(c) == pc[c] \in {"waiting", "finished"} /\ module[c] \in {"none", "exited"}
Alone == \A c, d \in Conns : c = d \/ Idle(c) \/ Idle(d)

(* The server's own files are at their own numbers only.                    *)
Own == \A n \in Fds : (fd[n] = Stdin => n = 0) /\ (fd[n] = Listen => n = 1)

(* The slots whose number names the handler's own file, until its last use. *)
MustHold(k, c) ==
  \/ k = "sock" /\ pc[c] \notin {"waiting", "exit", "left", "dtorSocket",
                                 "dtorDescriptor", "finished"}
  \/ k = "inR" /\ pc[c] \in PipesOpen \cup {"pipeOut"}
  \/ k = "inW" /\ pc[c] \in PipesOpen \cup {"pipeOut", "closeOutW", "write"}
  \/ k = "outR" /\ pc[c] \in PipesOpen \cup {"closeOutW", "write", "meta", "head", "body"}
  \/ k = "outW" /\ pc[c] \in PipesOpen \cup {"closeOutW"}
  \/ k = "file" /\ pc[c] \in {"head", "body", "fileDtor"} /\ response[c] = "file"
Holds(c) == \A k \in Slots : MustHold(k, c) => fd[slot[c][k]] = <<k, c>>

(* No number of a pipe, closed or not, is that of the socket.               *)
Apart(c) == \A k \in PipeSlots : Named(k, c) => slot[c][k] # slot[c]["sock"]

(* The module is there once it is forked, its line once it is written, and  *)
(* it holds the read end of its input until it exits.                       *)
BeforeFork == {"waiting", "read", "request", "pipeIn", "pipeOut", "fork"}
BeforeWrite == {"closeInR", "closeOutW", "write"}
ModuleOf(c) ==
  /\ pc[c] \in BeforeFork => module[c] = "none" /\ fed[c] = FALSE
  /\ pc[c] \in BeforeWrite => module[c] # "none" /\ fed[c] = FALSE
  /\ module[c] # "none" /\ pc[c] \notin BeforeWrite => fed[c] = TRUE
  /\ module[c] \in {"running", "wrote"} => <<"inR", c>> \in held[c]

(* How far the answer is.                                                   *)
Fetching == {"pipeIn", "pipeOut", "fork", "closeInR", "closeOutW", "write", "meta", "head"}
Closing == {"respDtor", "fileDtor", "outputDtor", "procInR", "procInW", "procOutR", "procOutW"}
Final == {"closeSock", "exit", "left", "dtorSocket", "dtorDescriptor", "finished"}
Answer(c) == IF request[c] = "ok" THEN Whole(c) ELSE Sorry(c)
BeforeAnswer == {"waiting", "read", "request"}
AnswerOf(c) ==
  /\ request[c] # "undumpable"
  /\ pc[c] \in BeforeAnswer => taken[c] = FALSE /\ got[c] = << >>
  /\ pc[c] = "request" => source[c] = <<"sock", c>>
  /\ pc[c] \notin BeforeAnswer => request[c] # "none" \/ gone[c] = TRUE
  /\ pc[c] \in Fetching \cup {"body"} \cup Closing => request[c] = "ok" \/ gone[c] = TRUE
  /\ pc[c] \in Fetching => failed[c] = FALSE /\ got[c] = << >>
  /\ pc[c] = "body" => /\ failed[c] = FALSE
                       /\ got[c] = << [from |-> c, part |-> "head"] >>
  /\ pc[c] \in {"head", "body"} => response[c] \in OutputKinds
  /\ pc[c] = "fileDtor" => response[c] = "file"
  /\ pc[c] \in Closing => gone[c] = TRUE \/ (failed[c] = FALSE /\ got[c] = Whole(c))
  /\ pc[c] = "error500" => gone[c] = TRUE \/ (request[c] # "ok" /\ got[c] = << >>)
  /\ pc[c] \in Final => gone[c] = TRUE \/ got[c] = Answer(c)

Served(c) == Holds(c) /\ Apart(c) /\ ModuleOf(c) /\ AnswerOf(c)
Single == up = "running" /\ Alone /\ Own /\ \A c \in Conns : Served(c)
Before == TypeOK /\ Covered /\ StdinInv /\ Single

(* Or the server has ended, for one of the two reasons.                     *)
Ended == up # "running" /\ Answered /\ ServerEnds

(* What a step of c leaves to the others, and what it has to establish.     *)
Same(d) ==
  /\ pc'[d] = pc[d] /\ slot'[d] = slot[d] /\ response'[d] = response[d]
  /\ source'[d] = source[d]
  /\ module'[d] = module[d] /\ held'[d] = held[d] /\ fed'[d] = fed[d]
  /\ request'[d] = request[d] /\ taken'[d] = taken[d] /\ failed'[d] = failed[d]
  /\ gone'[d] = gone[d] /\ got'[d] = got[d]
Serves(c) == up' = "running" /\ Served(c)' /\ \A d \in Conns \ {c} : Same(d)

LEMMA OwnStays ==
  ASSUME TypeOK, Own, [Next]_vars
  PROVE  Own'
<1>1. CASE Closes
  <2>1. PICK m \in Fds : fd' = [fd EXCEPT ![m] = Closed]
    <3>1. PICK c \in Conns, k \in Slots : fd' = [fd EXCEPT ![slot[c][k]] = Closed]
      BY <1>1 DEF Closes
    <3>2. slot[c][k] \in Fds
      BY DEF TypeOK
    <3>3. QED
      BY <3>1, <3>2
  <2>2. QED
    BY <2>1 DEF Own, TypeOK, Closed, Stdin, Listen
<1>2. CASE OpensOne
  <2>1. PICK c \in Conns, k \in Slots, n \in Fds : fd' = [fd EXCEPT ![n] = <<k, c>>]
    BY <1>2 DEF OpensOne, Free
  <2>2. k \notin {"stdin", "listen"}
    BY DEF Slots, PipeSlots
  <2>3. QED
    BY <2>1, <2>2 DEF Own, TypeOK, Stdin, Listen
<1>3. CASE OpensTwo
  <2>1. PICK c \in Conns, a \in Slots, b \in Slots, r \in Fds, w \in Fds :
          fd' = [fd EXCEPT ![r] = <<a, c>>, ![w] = <<b, c>>]
    BY <1>3 DEF OpensTwo, Free
  <2>2. a \notin {"stdin", "listen"} /\ b \notin {"stdin", "listen"}
    BY DEF Slots, PipeSlots
  <2>3. QED
    BY <2>1, <2>2 DEF Own, TypeOK, Stdin, Listen
<1>4. CASE UNCHANGED Table
  BY <1>4 DEF Own, Table
<1>5. QED
  BY <1>1, <1>2, <1>3, <1>4, TableShape

(* The others are idle, and stay what they are.                             *)
LEMMA OthersStay ==
  ASSUME Before, NEW c \in Conns, Serves(c), Own',
         \A d \in Conns \ {c} : Idle(d)
  PROVE  Single'
<1>1. ASSUME NEW d \in Conns \ {c} PROVE Idle(d)' /\ Served(d)'
  <2>1. Same(d) /\ Idle(d) /\ Served(d)
    BY DEF Serves, Before, Single
  <2>2. Idle(d)'
    BY <2>1 DEF Idle, Same
  <2>3. Holds(d)' /\ Apart(d)'
    BY <2>2 DEF Idle, Holds, Apart, MustHold, Named, PipeSlots, PipesOpen, InPipeLabels, Answering
  <2>4. ModuleOf(d)'
    BY <2>1 DEF Same, Served, ModuleOf
  <2>5. AnswerOf(d)'
    BY <2>1 DEF Same, Served, AnswerOf, Answer
  <2>6. QED
    BY <2>2, <2>3, <2>4, <2>5 DEF Served
<1>2. Alone'
  BY <1>1 DEF Alone
<1>3. QED
  BY <1>1, <1>2 DEF Serves, Single

LEMMA BusyAlone ==
  ASSUME Before, NEW c \in Conns, ~Idle(c)
  PROVE  \A d \in Conns \ {c} : Idle(d)
  BY DEF Before, Single, Alone

(* The numbers stay what they are when the table does.                      *)
LEMMA KeepHolds ==
  ASSUME TypeOK, NEW c \in Conns, Served(c), fd' = fd, slot' = slot,
         \A k \in Slots : MustHold(k, c)' => MustHold(k, c),
         \A k \in PipeSlots : Named(k, c)' => Named(k, c)
  PROVE  Holds(c)' /\ Apart(c)'
BY DEF Served, Holds, Apart

(* A close by number spares what must be held afterwards.                   *)
LEMMA CloseHolds ==
  ASSUME TypeOK, NEW c \in Conns, Served(c), NEW l, NEW what \in Slots, NEW next,
         CloseBy(c, l, what, next),
         \A k \in Slots : MustHold(k, c)' => MustHold(k, c) /\ k # what,
         \/ MustHold(what, c)
         \/ what = "sock"
         \/ /\ what \in PipeSlots /\ Named(what, c)
            /\ \A k \in Slots : MustHold(k, c)' => k = "sock",
         what = "sock" => \A k \in Slots : ~MustHold(k, c)',
         \A k \in PipeSlots : Named(k, c)' => Named(k, c)
  PROVE  Holds(c)' /\ Apart(c)'
<1>1. slot' = slot /\ fd' = [fd EXCEPT ![slot[c][what]] = Closed]
  BY DEF CloseBy
<1>2. Apart(c)'
  BY <1>1 DEF Served, Apart
<1>3. ASSUME NEW k \in Slots, MustHold(k, c)' PROVE fd'[slot[c][k]] = <<k, c>>
  <2>1. MustHold(k, c) /\ k # what /\ fd[slot[c][k]] = <<k, c>>
    BY <1>3 DEF Served, Holds
  <2>2. slot[c][k] # slot[c][what]
    <3>1. CASE MustHold(what, c)
      BY <2>1, <3>1 DEF Served, Holds
    <3>2. CASE what \in PipeSlots /\ Named(what, c) /\ k = "sock"
      BY <3>2 DEF Served, Apart
    <3>3. QED
      BY <1>3, <3>1, <3>2
  <2>3. slot[c][k] \in Fds
    BY DEF TypeOK
  <2>4. QED
    BY <1>1, <2>1, <2>2, <2>3 DEF TypeOK
<1>4. QED
  BY <1>1, <1>2, <1>3 DEF Holds

(* A close changes nothing of the answer or the module.                     *)
LEMMA CloseServes ==
  ASSUME Before, NEW c \in Conns, NEW l \in Labels, NEW what \in Slots, NEW next \in Labels,
         CloseBy(c, l, what, next),
         next \notin {"fileDtor", "meta", "head"},
         \/ l \in BeforeWrite /\ next \in BeforeWrite
         \/ l \in Closing /\ next \in Closing
         \/ l \in Closing /\ next = AfterTry(c)
         \/ l \in Final /\ next \in Final,
         Holds(c)' /\ Apart(c)'
  PROVE  Serves(c)
<1>1. pc[c] = l /\ pc'[c] = next /\ UNCHANGED <<up, slot, source, failed, response, clientVars, moduleVars>>
  BY DEF CloseBy, At, Goto, Before, TypeOK
<1>2. \A d \in Conns \ {c} : Same(d)
  BY <1>1 DEF Same, CloseBy, Goto, Before, TypeOK, clientVars, moduleVars
<1>3. Served(c) /\ up = "running" /\ failed[c] \in BOOLEAN
  BY DEF Before, Single, TypeOK
<1>4. ModuleOf(c)'
  BY <1>1, <1>3 DEF Served, ModuleOf, moduleVars, BeforeFork, BeforeWrite, Closing, Final, AfterTry
<1>5. AnswerOf(c)'
  BY <1>1, <1>3 DEF Served, AnswerOf, Answer, clientVars, BeforeWrite, BeforeAnswer, Closing, Final, Fetching,
     AfterTry
<1>6. QED
  BY <1>1, <1>2, <1>3, <1>4, <1>5 DEF Serves, Served

LEMMA ClosingServes ==
  ASSUME Before, NEW c \in Conns,
         RunCloses(c) \/ ResponseCloses(c) \/ ProcessCloses(c) \/ SocketCloses(c)
  PROVE  Serves(c)
<1> USE DEF Slots, PipeSlots, PipesOpen, Answering, InPipeLabels
<1>0. TypeOK /\ Served(c) /\ failed[c] \in BOOLEAN
  BY DEF Before, Single, TypeOK
<1>1. ASSUME NEW l \in Labels, NEW what \in Slots, NEW next \in Labels, CloseBy(c, l, what, next)
      PROVE  pc[c] = l /\ pc'[c] = next /\ response' = response
  BY <1>0, <1>1 DEF CloseBy, At, Goto, TypeOK
<1>2. CASE RunCloses(c)
  <2>1. CASE CloseBy(c, "closeInR", "inR", "closeOutW")
    <3>1. pc[c] = "closeInR" /\ pc'[c] = "closeOutW" /\ response' = response
      BY <1>1, <2>1 DEF Labels
    <3>2. Holds(c)' /\ Apart(c)'
      BY <1>0, <2>1, <3>1, CloseHolds DEF MustHold, Named
    <3>3. QED
      BY <2>1, <3>2, CloseServes DEF BeforeWrite, Labels
  <2>2. CASE CloseBy(c, "closeOutW", "outW", "write")
    <3>1. pc[c] = "closeOutW" /\ pc'[c] = "write" /\ response' = response
      BY <1>1, <2>2 DEF Labels
    <3>2. Holds(c)' /\ Apart(c)'
      BY <1>0, <2>2, <3>1, CloseHolds DEF MustHold, Named
    <3>3. QED
      BY <2>2, <3>2, CloseServes DEF BeforeWrite, Labels
  <2>3. QED
    BY <1>2, <2>1, <2>2 DEF RunCloses
<1>3. CASE ResponseCloses(c)
  <2>1. CASE CloseBy(c, "respDtor", "outR", "outputDtor")
    <3>1. pc[c] = "respDtor" /\ pc'[c] = "outputDtor" /\ response' = response
      BY <1>1, <2>1 DEF Labels
    <3>2. Holds(c)' /\ Apart(c)'
      BY <1>0, <2>1, <3>1, CloseHolds DEF MustHold, Named
    <3>3. QED
      BY <2>1, <3>2, CloseServes DEF Closing, Labels
  <2>2. CASE CloseBy(c, "fileDtor", "file", "outputDtor")
    <3>1. pc[c] = "fileDtor" /\ pc'[c] = "outputDtor" /\ response' = response
      BY <1>1, <2>2 DEF Labels
    <3>2. response[c] = "file"
      BY <1>0, <3>1 DEF Served, AnswerOf
    <3>3. Holds(c)' /\ Apart(c)'
      BY <1>0, <2>2, <3>1, <3>2, CloseHolds DEF MustHold, Named
    <3>4. QED
      BY <2>2, <3>3, CloseServes DEF Closing, Labels
  <2>3. CASE CloseBy(c, "outputDtor", "outR", "procInR")
    <3>1. pc[c] = "outputDtor" /\ pc'[c] = "procInR" /\ response' = response
      BY <1>1, <2>3 DEF Labels
    <3>2. Holds(c)' /\ Apart(c)'
      BY <1>0, <2>3, <3>1, CloseHolds DEF MustHold, Named
    <3>3. QED
      BY <2>3, <3>2, CloseServes DEF Closing, Labels
  <2>4. QED
    BY <1>3, <2>1, <2>2, <2>3 DEF ResponseCloses
<1>4. CASE ProcessCloses(c)
  <2>1. CASE CloseBy(c, "procInR", "inR", "procInW")
    <3>1. pc[c] = "procInR" /\ pc'[c] = "procInW" /\ response' = response
      BY <1>1, <2>1 DEF Labels
    <3>2. Holds(c)' /\ Apart(c)'
      BY <1>0, <2>1, <3>1, CloseHolds DEF MustHold, Named
    <3>3. QED
      BY <2>1, <3>2, CloseServes DEF Closing, Labels
  <2>2. CASE CloseBy(c, "procInW", "inW", "procOutR")
    <3>1. pc[c] = "procInW" /\ pc'[c] = "procOutR" /\ response' = response
      BY <1>1, <2>2 DEF Labels
    <3>2. Holds(c)' /\ Apart(c)'
      BY <1>0, <2>2, <3>1, CloseHolds DEF MustHold, Named
    <3>3. QED
      BY <2>2, <3>2, CloseServes DEF Closing, Labels
  <2>3. CASE CloseBy(c, "procOutR", "outR", "procOutW")
    <3>1. pc[c] = "procOutR" /\ pc'[c] = "procOutW" /\ response' = response
      BY <1>1, <2>3 DEF Labels
    <3>2. Holds(c)' /\ Apart(c)'
      BY <1>0, <2>3, <3>1, CloseHolds DEF MustHold, Named
    <3>3. QED
      BY <2>3, <3>2, CloseServes DEF Closing, Labels
  <2>4. CASE CloseBy(c, "procOutW", "outW", AfterTry(c))
    <3>0. AfterTry(c) \in {"error500", "closeSock"}
      BY DEF AfterTry
    <3>1. pc[c] = "procOutW" /\ pc'[c] \in {"error500", "closeSock"} /\ response' = response
      BY <1>1, <2>4, <3>0 DEF Labels
    <3>2. Holds(c)' /\ Apart(c)'
      BY <1>0, <2>4, <3>1, CloseHolds DEF MustHold, Named
    <3>3. QED
      BY <2>4, <3>0, <3>2, CloseServes DEF Closing, Labels
  <2>5. QED
    BY <1>4, <2>1, <2>2, <2>3, <2>4 DEF ProcessCloses
<1>5. CASE SocketCloses(c)
  <2>1. PICK l \in {"closeSock", "dtorSocket", "dtorDescriptor"},
             next \in {"exit", "dtorDescriptor", "finished"} : CloseBy(c, l, "sock", next)
    BY <1>5 DEF SocketCloses
  <2>2. pc[c] = l /\ pc'[c] = next /\ response' = response
    BY <1>1, <2>1 DEF Labels
  <2>3. Holds(c)' /\ Apart(c)'
    BY <1>0, <2>1, <2>2, CloseHolds DEF MustHold, Named
  <2>4. QED
    BY <2>1, <2>3, CloseServes DEF Final, Labels
<1>6. QED
  BY <1>2, <1>3, <1>4, <1>5

-----------------------------------------------------------------------------
(* The steps that open: there are numbers enough.                           *)

(* A table with at most three files of connections has two free numbers.    *)
LEMMA TwoFree ==
  ASSUME TypeOK, Own, MaxFd >= 6, NEW x, NEW y, NEW z,
         \A n \in Fds : fd[n] \in Slots \X Conns => n \in {x, y, z}
  PROVE  \E r, w \in Free : r # w
<1>1. \A n \in Fds : n \in Free \/ n \in {0, 1, x, y, z}
  BY DEF TypeOK, Own, Files, Free
<1>2. {2, 3, 4, 5, 6} \subseteq Fds
  BY ConstantsOK DEF Fds
<1>3. /\ 2 \in Free \/ 2 \in {x, y, z}
      /\ 3 \in Free \/ 3 \in {x, y, z}
      /\ 4 \in Free \/ 4 \in {x, y, z}
      /\ 5 \in Free \/ 5 \in {x, y, z}
      /\ 6 \in Free \/ 6 \in {x, y, z}
  BY <1>1, <1>2
<1>4. SUFFICES ASSUME \A r, w \in Free : r = w PROVE FALSE
  OBVIOUS
<1>5. QED
  BY <1>3, <1>4

(* A handler holds at most three while it still opens.                      *)
LEMMA RoomLeft ==
  ASSUME Regime, Before, NEW c \in Conns, pc[c] \in {"pipeIn", "pipeOut", "meta"}
  PROVE  \E r, w \in Free : r # w
<1>1. ASSUME NEW n \in Fds, fd[n] \in Slots \X Conns
      PROVE  \E k \in Slots : n = slot[c][k] /\ MayHold(k, pc[c])
  <2>1. PICK k \in Slots, d \in Conns : fd[n] = <<k, d>>
    BY <1>1
  <2>2. slot[d][k] = n /\ MayHold(k, pc[d])
    BY <2>1 DEF Before, Covered
  <2>3. d = c
    <3>1. ~Idle(c)
      BY DEF Idle
    <3>2. d # c => pc[d] \in {"waiting", "finished"}
      BY <3>1, BusyAlone DEF Idle
    <3>3. QED
      BY <2>2, <3>2 DEF MayHold, PipesOpen, Answering
  <2>4. QED
    BY <2>2, <2>3
<1>2. TypeOK /\ Own /\ MaxFd >= 6
  BY DEF Before, Single, Regime
<1>3. CASE pc[c] \in {"pipeIn", "pipeOut"}
  <2>1. \A n \in Fds : fd[n] \in Slots \X Conns =>
          n \in {slot[c]["sock"], slot[c]["inR"], slot[c]["inW"]}
    BY <1>1, <1>3 DEF MayHold, PipesOpen, Answering
  <2>2. QED
    BY <1>2, <2>1, TwoFree
<1>4. CASE pc[c] = "meta"
  <2>1. \A n \in Fds : fd[n] \in Slots \X Conns =>
          n \in {slot[c]["sock"], slot[c]["outR"], slot[c]["inW"]}
    BY <1>1, <1>4 DEF MayHold, PipesOpen, Answering
  <2>2. QED
    BY <1>2, <2>1, TwoFree
<1>5. QED
  BY <1>3, <1>4

(* A free number is none that is held.                                      *)
LEMMA FreeNumber ==
  ASSUME TypeOK, NEW c \in Conns, Holds(c), NEW n \in Free, NEW k \in Slots, MustHold(k, c)
  PROVE  n # slot[c][k]
BY DEF Holds, Free, Closed, Slots, PipeSlots

LEMMA AcceptServes ==
  ASSUME Regime, Before, NEW c \in Conns, Accept(c)
  PROVE  Serves(c) /\ \A d \in Conns \ {c} : Idle(d)
<1>0. TypeOK /\ Served(c) /\ up = "running" /\ pc[c] = "waiting"
  BY DEF Before, Single, Accept
<1>1. \A d \in Conns \ {c} : Idle(d)
  BY DEF Regime, Accept, MayConnect, Idle
<1>2. PICK n \in Free : /\ fd' = [fd EXCEPT ![n] = <<"sock", c>>]
                        /\ slot' = [slot EXCEPT ![c]["sock"] = n]
  BY DEF Accept, Lowest
<1>5. pc' = [pc EXCEPT ![c] = "read"]
  BY DEF Accept, Goto
<1>6. \A d \in Conns \ {c} : Same(d)
  BY <1>0, <1>2, <1>5 DEF Same, Accept, TypeOK, clientVars, moduleVars
<1>7. pc'[c] = "read" /\ slot'[c]["sock"] = n /\ n \in Fds
      /\ UNCHANGED <<up, source, failed, response, clientVars, moduleVars>>
  BY <1>0, <1>2, <1>5 DEF TypeOK, Slots, Free, Accept
<1>8. Holds(c)'
  BY <1>0, <1>2, <1>7 DEF Holds, MustHold, PipesOpen, TypeOK
<1>9. Apart(c)'
  BY <1>7 DEF Apart, Named, PipeSlots, InPipeLabels, PipesOpen, Answering
<1>10. ModuleOf(c)' /\ AnswerOf(c)'
  BY <1>0, <1>7 DEF Served, ModuleOf, AnswerOf, clientVars, moduleVars, BeforeFork, BeforeWrite,
     BeforeAnswer, Fetching, Closing, Final
<1>11. QED
  BY <1>0, <1>1, <1>6, <1>7, <1>8, <1>9, <1>10 DEF Serves, Served

(* pipe() finds two numbers, and they are not the socket's.                 *)
LEMMA PipeServes ==
  ASSUME Regime, Before, NEW c \in Conns, OpenStdinPipe(c) \/ OpenStdoutPipe(c)
  PROVE  Serves(c)
<1>0. TypeOK /\ Served(c) /\ up = "running" /\ Holds(c) /\ Apart(c)
  BY DEF Before, Single, Served
<1>1. PICK a \in PipeSlots, b \in PipeSlots, next \in {"pipeOut", "fork"} :
        /\ Pipe(c, a, b) /\ Goto(c, next)
        /\ UNCHANGED <<up, acc, source, failed, response, clientVars, moduleVars>>
        /\ \/ pc[c] = "pipeIn" /\ a = "inR" /\ b = "inW" /\ next = "pipeOut"
           \/ pc[c] = "pipeOut" /\ a = "outR" /\ b = "outW" /\ next = "fork"
  <2>1. pc[c] \in {"pipeIn", "pipeOut"}
    BY DEF OpenStdinPipe, OpenStdoutPipe, OpenPipe, At
  <2>2. ~(\A r, w \in Free : r = w)
    BY <2>1, RoomLeft
  <2>3. \/ /\ pc[c] = "pipeIn" /\ Pipe(c, "inR", "inW") /\ Goto(c, "pipeOut")
           /\ UNCHANGED <<up, acc, source, failed, response, clientVars, moduleVars>>
        \/ /\ pc[c] = "pipeOut" /\ Pipe(c, "outR", "outW") /\ Goto(c, "fork")
           /\ UNCHANGED <<up, acc, source, failed, response, clientVars, moduleVars>>
    BY <2>2 DEF OpenStdinPipe, OpenStdoutPipe, OpenPipe, At
  <2>4. {"inR", "inW", "outR", "outW"} = PipeSlots
    BY DEF PipeSlots
  <2>5. QED
    BY <2>3, <2>4
<1>2. PICK r \in Free, w \in Free :
        /\ r # w
        /\ fd' = [fd EXCEPT ![r] = <<a, c>>, ![w] = <<b, c>>]
        /\ slot' = [slot EXCEPT ![c][a] = r, ![c][b] = w]
  BY <1>1 DEF Pipe, Lowest
<1>3. pc' = [pc EXCEPT ![c] = next]
  BY <1>1 DEF Goto
<1>4. \A d \in Conns \ {c} : Same(d)
  BY <1>0, <1>1, <1>2, <1>3 DEF Same, TypeOK, clientVars, moduleVars
<1>5. pc'[c] = next /\ r \in Fds /\ w \in Fds /\ a \in Slots /\ b \in Slots /\ a # b
  BY <1>0, <1>1, <1>2, <1>3 DEF TypeOK, Free, Slots
<1>6. /\ slot'[c][a] = r /\ slot'[c][b] = w
      /\ \A k \in Slots \ {a, b} : slot'[c][k] = slot[c][k]
  BY <1>0, <1>2, <1>5 DEF TypeOK
<1>7. MustHold("sock", c) /\ "sock" \in Slots
  BY <1>1 DEF MustHold, Slots
<1>8. r # slot[c]["sock"] /\ w # slot[c]["sock"]
  BY <1>0, <1>2, <1>7, FreeNumber
<1>9. ASSUME NEW k \in Slots, MustHold(k, c)' PROVE fd'[slot'[c][k]] = <<k, c>>
  <2>1. CASE k \in {a, b}
    BY <1>0, <1>2, <1>5, <1>6, <2>1 DEF TypeOK
  <2>2. CASE k \notin {a, b}
    <3>1. MustHold(k, c)
      BY <1>1, <1>5, <1>9, <2>2 DEF MustHold, PipesOpen
    <3>2. fd[slot[c][k]] = <<k, c>> /\ slot[c][k] \in Fds
      BY <1>0, <3>1 DEF Holds, TypeOK
    <3>3. r # slot[c][k] /\ w # slot[c][k]
      BY <1>0, <1>2, <3>1, FreeNumber
    <3>4. QED
      BY <1>0, <1>2, <1>6, <2>2, <3>2, <3>3 DEF TypeOK
  <2>3. QED
    BY <2>1, <2>2
<1>10. Apart(c)'
  <2>1. slot'[c]["sock"] = slot[c]["sock"]
    BY <1>1, <1>6, <1>7
  <2>2. SUFFICES ASSUME NEW k \in PipeSlots, Named(k, c)' PROVE slot'[c][k] # slot'[c]["sock"]
    BY DEF Apart
  <2>3. CASE k \in {a, b}
    BY <1>6, <1>8, <2>1, <2>3
  <2>4. CASE k \notin {a, b}
    <3>1. Named(k, c) /\ k \in Slots
      BY <1>1, <1>5, <2>2, <2>4 DEF Named, InPipeLabels, PipesOpen, Answering, PipeSlots, Slots
    <3>2. QED
      BY <1>0, <1>6, <2>1, <2>4, <3>1 DEF Apart
  <2>5. QED
    BY <2>3, <2>4
<1>11. ModuleOf(c)' /\ AnswerOf(c)'
  BY <1>0, <1>1, <1>5 DEF Served, ModuleOf, AnswerOf, clientVars, moduleVars, BeforeFork, BeforeWrite,
     BeforeAnswer, Fetching, Closing, Final
<1>12. QED
  BY <1>0, <1>1, <1>4, <1>9, <1>10, <1>11 DEF Serves, Served, Holds

(* There is a number for the file, whatever the metadata is.                *)
LEMMA MetadataServes ==
  ASSUME Regime, Before, NEW c \in Conns, ReadMetadata(c)
  PROVE  Serves(c)
<1>0. TypeOK /\ Served(c) /\ up = "running" /\ Holds(c) /\ Apart(c)
  BY DEF Before, Single, Served
<1>1. /\ pc[c] = "meta" /\ pc' = [pc EXCEPT ![c] = "head"]
      /\ UNCHANGED <<up, acc, source, failed, clientVars, moduleVars>>
  BY DEF ReadMetadata, At, Goto
<1>2. Free # {}
  BY <1>1, RoomLeft
<1>3. PICK kind \in OutputKinds :
        IF kind = "file"
        THEN \E n \in Free : /\ fd' = [fd EXCEPT ![n] = <<"file", c>>]
                             /\ slot' = [slot EXCEPT ![c]["file"] = n]
                             /\ response' = [response EXCEPT ![c] = "file"]
        ELSE response' = [response EXCEPT ![c] = kind] /\ UNCHANGED <<fd, slot>>
  <2>1. PICK kind \in OutputKinds :
          IF kind = "file" /\ Free # {}
          THEN \E n \in Fds : /\ Lowest(n, Free)
                             /\ fd' = [fd EXCEPT ![n] = <<"file", c>>]
                             /\ slot' = [slot EXCEPT ![c]["file"] = n]
                             /\ response' = [response EXCEPT ![c] = "file"]
          ELSE /\ response' = [response EXCEPT
                    ![c] = IF kind = "file" THEN "noFile" ELSE kind]
               /\ UNCHANGED <<fd, slot>>
    BY Zenon DEF ReadMetadata
  <2>2. CASE kind = "file"
    BY <1>2, <2>1, <2>2 DEF Lowest
  <2>3. CASE kind # "file"
    BY <2>1, <2>3
  <2>4. QED
    BY <2>2, <2>3
<1>4. /\ pc'[c] = "head" /\ response'[c] = kind
      /\ \A d \in Conns \ {c} : response'[d] = response[d] /\ slot'[d] = slot[d]
      /\ \A k \in Slots \ {"file"} : slot'[c][k] = slot[c][k]
  <2>1. pc'[c] = "head"
    BY <1>0, <1>1 DEF TypeOK
  <2>2. CASE kind = "file"
    BY <1>0, <1>3, <2>1, <2>2 DEF TypeOK
  <2>3. CASE kind # "file"
    BY <1>0, <1>3, <2>1, <2>3 DEF TypeOK
  <2>4. QED
    BY <2>2, <2>3
<1>5. \A d \in Conns \ {c} : Same(d)
  BY <1>0, <1>1, <1>4 DEF Same, TypeOK, clientVars, moduleVars
<1>6. ASSUME NEW k \in Slots, MustHold(k, c)' PROVE fd'[slot'[c][k]] = <<k, c>>
  <2>1. k \in {"sock", "outR"} \/ (k = "file" /\ kind = "file")
    BY <1>4, <1>6 DEF MustHold, PipesOpen
  <2>2. k # "file" => /\ MustHold(k, c) /\ fd[slot[c][k]] = <<k, c>> /\ slot[c][k] \in Fds
                      /\ slot'[c][k] = slot[c][k]
    <3>1. k # "file" => MustHold(k, c)
      BY <1>1, <2>1 DEF MustHold
    <3>2. QED
      BY <1>0, <1>4, <3>1 DEF Holds, TypeOK
  <2>3. CASE kind = "file"
    <3>1. PICK n \in Free : /\ fd' = [fd EXCEPT ![n] = <<"file", c>>]
                            /\ slot' = [slot EXCEPT ![c]["file"] = n]
      BY <1>3, <2>3
    <3>2. n \in Fds /\ slot'[c]["file"] = n /\ fd'[n] = <<"file", c>>
      BY <1>0, <3>1 DEF TypeOK, Free, Slots
    <3>3. CASE k = "file"
      BY <3>2, <3>3
    <3>4. CASE k # "file"
      <4>1. n # slot[c][k]
        BY <1>0, <2>2, <3>4, FreeNumber
      <4>2. QED
        BY <1>0, <2>2, <3>1, <3>4, <4>1 DEF TypeOK
    <3>5. QED
      BY <3>3, <3>4
  <2>4. CASE kind # "file"
    BY <1>3, <2>1, <2>2, <2>4
  <2>5. QED
    BY <2>3, <2>4
<1>7. Apart(c)'
  <2>1. "sock" \in Slots \ {"file"} /\ PipeSlots \subseteq Slots \ {"file"}
    BY DEF Slots, PipeSlots
  <2>2. \A k \in PipeSlots : Named(k, c)' => Named(k, c)
    BY <1>1, <1>4 DEF Named, PipeSlots, InPipeLabels, PipesOpen, Answering
  <2>3. QED
    BY <1>0, <1>4, <2>1, <2>2 DEF Apart
<1>8. ModuleOf(c)' /\ AnswerOf(c)'
  BY <1>0, <1>1, <1>4 DEF Served, ModuleOf, AnswerOf, clientVars, moduleVars, BeforeFork, BeforeWrite,
     BeforeAnswer, Fetching, Closing, Final
<1>9. QED
  BY <1>0, <1>1, <1>5, <1>6, <1>7, <1>8 DEF Serves, Served, Holds

-----------------------------------------------------------------------------
(* The steps that leave the table alone.                                    *)

(* The socket's number names the socket as long as something is sent on it. *)
LEMMA OwnSocket ==
  ASSUME TypeOK, NEW c \in Conns, Holds(c),
         pc[c] \in {"read", "head", "body", "error500"}
  PROVE  SendTarget(c) = <<"sock", c>> /\ (SendWorks(c) <=> ~gone[c])
<1>1. MustHold("sock", c) /\ "sock" \in Slots
  BY DEF MustHold, Slots
<1>2. SendTarget(c) = <<"sock", c>>
  BY <1>1 DEF Holds, SendTarget
<1>3. QED
  BY <1>2 DEF SendWorks

(* A client speaks only before its request was read.                        *)
LEMMA RequestServes ==
  ASSUME Regime, Before, NEW c \in Conns, SendRequest(c)
  PROVE  Serves(c) /\ ~Idle(c)
<1>0. TypeOK /\ Served(c) /\ up = "running" /\ Holds(c) /\ Apart(c) /\ gone[c] \in BOOLEAN
  BY DEF Before, Single, Served, TypeOK
<1>1. /\ pc[c] \in {"read", "request"}
      /\ UNCHANGED <<fd, up, acc, pc, slot, source, failed, response, taken, gone, got, moduleVars>>
  BY <1>0 DEF SendRequest, Served, AnswerOf, BeforeAnswer, handlerVars
<1>2. PICK r \in Requests : request' = [request EXCEPT ![c] = r]
  BY DEF SendRequest
<1>3. request'[c] # "undumpable" /\ \A d \in Conns \ {c} : request'[d] = request[d]
  BY <1>0, <1>2 DEF TypeOK, Regime
<1>4. \A d \in Conns \ {c} : Same(d)
  BY <1>1, <1>3 DEF Same, moduleVars
<1>5. Holds(c)' /\ Apart(c)'
  BY <1>0, <1>1 DEF Holds, Apart, MustHold, Named
<1>6. ModuleOf(c)'
  BY <1>0, <1>1 DEF Served, ModuleOf, moduleVars
<1>7. AnswerOf(c)'
  BY <1>0, <1>1, <1>3 DEF Served, AnswerOf, BeforeAnswer, Fetching, Closing, Final
<1>8. QED
  BY <1>0, <1>1, <1>4, <1>5, <1>6, <1>7 DEF Serves, Served, Idle

LEMMA BeginServes ==
  ASSUME Before, NEW c \in Conns, BeginRead(c)
  PROVE  Serves(c)
<1>0. TypeOK /\ Served(c) /\ up = "running" /\ Holds(c) /\ pc[c] = "read"
  BY DEF Before, Single, Served, BeginRead, At
<1>1. SendTarget(c) = <<"sock", c>>
  BY <1>0, OwnSocket
<1>2. /\ UNCHANGED <<fd, up, acc, slot, failed, response, clientVars, moduleVars>>
      /\ pc' = [pc EXCEPT ![c] = "request"]
      /\ source' = [source EXCEPT ![c] = <<"sock", c>>]
  BY <1>1 DEF BeginRead, Goto
<1>3. pc'[c] = "request" /\ source'[c] = <<"sock", c>>
  BY <1>0, <1>2 DEF TypeOK
<1>4. \A d \in Conns \ {c} : Same(d)
  BY <1>0, <1>2 DEF Same, TypeOK, clientVars, moduleVars
<1>5. Holds(c)' /\ Apart(c)'
  <2>1. \A k \in Slots : MustHold(k, c)' => MustHold(k, c)
    BY <1>0, <1>3 DEF MustHold, PipesOpen
  <2>2. \A k \in PipeSlots : Named(k, c)' => Named(k, c)
    BY <1>3 DEF Named, PipeSlots, InPipeLabels, PipesOpen, Answering
  <2>3. QED
    BY <1>0, <1>2, <2>1, <2>2, KeepHolds
<1>6. ModuleOf(c)'
  BY <1>0, <1>2, <1>3 DEF Served, ModuleOf, moduleVars, BeforeFork, BeforeWrite
<1>7. AnswerOf(c)'
  BY <1>0, <1>2, <1>3 DEF Served, AnswerOf, clientVars, BeforeAnswer, Fetching, Closing, Final
<1>8. QED
  BY <1>0, <1>2, <1>4, <1>5, <1>6, <1>7 DEF Serves, Served

LEMMA ReadServes ==
  ASSUME Before, NEW c \in Conns, ReadRequest(c)
  PROVE  Serves(c)
<1>0. TypeOK /\ Served(c) /\ up = "running" /\ Holds(c) /\ pc[c] = "request"
  BY DEF Before, Single, Served, ReadRequest, At
<1>1. PICK kind \in Yields(source[c]) :
        pc' = [pc EXCEPT ![c] = AfterRead(kind)] /\ failed' = [failed EXCEPT ![c] = kind # "ok"]
  BY DEF ReadRequest, Goto
<1>2. /\ taken' = [d \in Conns |-> taken[d] \/ source[c] = <<"sock", d>>]
      /\ UNCHANGED <<fd, up, acc, slot, source, response, request, gone, got, moduleVars>>
  BY DEF ReadRequest
<1>3. source[c] = <<"sock", c>>
  BY <1>0 DEF Served, AnswerOf
<1>4. /\ request[c] # "undumpable" /\ got[c] = << >>
      /\ kind \in {"ok", "rejected", "none"}
      /\ gone[c] = TRUE \/ (kind = request[c] /\ kind # "none")
  <2>1. taken[c] = FALSE /\ got[c] = << >> /\ request[c] # "undumpable"
    BY <1>0 DEF Served, AnswerOf, BeforeAnswer
  <2>2. /\ kind \in {"ok", "rejected", "undumpable", "none"}
        /\ gone[c] \/ (kind = request[c] /\ kind # "none")
        /\ kind = "undumpable" => request[c] = "undumpable"
    BY <1>1, <1>3, <2>1 DEF Yields
  <2>3. gone[c] \in BOOLEAN
    BY <1>0 DEF TypeOK
  <2>4. QED
    BY <2>1, <2>2, <2>3
<1>5. /\ pc'[c] = IF kind = "ok" THEN "pipeIn" ELSE "error500"
      /\ failed'[c] = (kind # "ok")
  BY <1>0, <1>1, <1>4 DEF TypeOK, AfterRead
<1>6. ASSUME NEW d \in Conns \ {c} PROVE Same(d)
  <2>1. taken'[d] = taken[d]
    <3>1. <<"sock", c>> # <<"sock", d>> /\ taken[d] \in BOOLEAN
      BY <1>0 DEF TypeOK
    <3>2. taken'[d] = (taken[d] \/ <<"sock", c>> = <<"sock", d>>)
      BY <1>2, <1>3
    <3>3. QED
      BY <3>1, <3>2
  <2>2. QED
    BY <1>0, <1>1, <1>2, <2>1 DEF Same, TypeOK, moduleVars
<1>7. Holds(c)' /\ Apart(c)'
  <2>1. \A k \in Slots : MustHold(k, c)' => MustHold(k, c)
    BY <1>0, <1>2, <1>5 DEF MustHold, PipesOpen
  <2>2. \A k \in PipeSlots : Named(k, c)' => Named(k, c)
    BY <1>5 DEF Named, PipeSlots, InPipeLabels, PipesOpen, Answering
  <2>3. QED
    BY <1>0, <1>2, <2>1, <2>2, KeepHolds
<1>8. ModuleOf(c)'
  BY <1>0, <1>2, <1>5 DEF Served, ModuleOf, moduleVars, BeforeFork, BeforeWrite
<1>9. AnswerOf(c)'
  <2>1. CASE kind = "ok"
    BY <1>0, <1>2, <1>4, <1>5, <2>1 DEF AnswerOf, BeforeAnswer, Fetching, Closing, Final
  <2>2. CASE kind # "ok"
    BY <1>0, <1>2, <1>4, <1>5, <2>2 DEF AnswerOf, BeforeAnswer, Fetching, Closing, Final
  <2>3. QED
    BY <2>1, <2>2
<1>10. QED
  BY <1>0, <1>2, <1>6, <1>7, <1>8, <1>9 DEF Serves, Served

(* The module inherits the ends of its own pipes.                           *)
LEMMA ForkServes ==
  ASSUME Before, NEW c \in Conns, Fork(c)
  PROVE  Serves(c)
<1>0. TypeOK /\ Served(c) /\ up = "running" /\ Holds(c) /\ pc[c] = "fork" /\ StdinInv
  BY DEF Before, Single, Served, Fork, At
<1>1. /\ pc' = [pc EXCEPT ![c] = "closeInR"]
      /\ UNCHANGED <<fd, up, acc, slot, source, failed, response, clientVars, fed, output>>
  BY DEF Fork, Goto
<1>2. fd[slot[c]["inR"]] = <<"inR", c>> /\ fd[slot[c]["outW"]] = <<"outW", c>>
  BY <1>0 DEF Holds, MustHold, PipesOpen, Slots, PipeSlots
<1>3. /\ module' = [module EXCEPT ![c] = "running"]
      /\ held' = [held EXCEPT ![c] = Inherited(c)]
  BY <1>2 DEF Fork, Closed
<1>4. 0 \notin PipeNumbers(c)
  BY <1>0 DEF StdinInv, PipeNumbers, Named, InPipeLabels, PipesOpen, PipeSlots, Slots
<1>5. <<"inR", c>> \in Inherited(c)
  BY <1>2, <1>4 DEF Inherited, Slots, PipeSlots
<1>6. pc'[c] = "closeInR" /\ module'[c] = "running" /\ held'[c] = Inherited(c)
  BY <1>0, <1>1, <1>3 DEF TypeOK
<1>7. \A d \in Conns \ {c} : Same(d)
  BY <1>0, <1>1, <1>3 DEF Same, TypeOK, clientVars
<1>8. Holds(c)' /\ Apart(c)'
  <2>1. \A k \in Slots : MustHold(k, c)' => MustHold(k, c)
    BY <1>0, <1>1, <1>6 DEF MustHold, PipesOpen
  <2>2. \A k \in PipeSlots : Named(k, c)' => Named(k, c)
    BY <1>0, <1>6 DEF Named, PipeSlots, InPipeLabels, PipesOpen, Answering
  <2>3. QED
    BY <1>0, <1>1, <2>1, <2>2, KeepHolds
<1>9. ModuleOf(c)' /\ AnswerOf(c)'
  BY <1>0, <1>1, <1>5, <1>6 DEF Served, ModuleOf, AnswerOf, clientVars, BeforeFork, BeforeWrite,
     BeforeAnswer, Fetching, Closing, Final
<1>10. QED
  BY <1>0, <1>1, <1>7, <1>8, <1>9 DEF Serves, Served

(* The line reaches the module, unless it has exited.                       *)
LEMMA WriteServes ==
  ASSUME Before, NEW c \in Conns, WriteInput(c)
  PROVE  Serves(c) \/ Ended'
<1> DEFINE target == fd[slot[c]["inW"]]
           broken == target[1] = "inW" /\ Released(<<"inR", target[2]>>)
<1>0. TypeOK /\ Served(c) /\ up = "running" /\ Holds(c) /\ pc[c] = "write"
  BY DEF Before, Single, Served, WriteInput, At
<1>1. /\ pc' = [pc EXCEPT ![c] = "meta"]
      /\ UNCHANGED <<fd, acc, slot, source, failed, response, request, taken, gone, module, held, output>>
      /\ up' = IF broken THEN "sigpipe" ELSE up
      /\ fed' = [d \in Conns |-> fed[d] \/ (target = <<"inW", d>> /\ ~broken)]
      /\ IF target[1] = "sock" THEN Deliver(c, target[2], "input") ELSE got' = got
  BY DEF WriteInput, Goto
<1>2. target = <<"inW", c>>
  BY <1>0 DEF Holds, MustHold, Slots, PipeSlots
<1>a. CASE broken
  <2>1. module[c] = "exited" /\ fed[c] = FALSE
    <3>1. module[c] \in {"running", "wrote", "exited"} /\ fed[c] = FALSE
      BY <1>0 DEF Served, ModuleOf, BeforeWrite, TypeOK
    <3>2. <<"inR", c>> \notin held[c]
      BY <1>2, <1>a DEF Released
    <3>3. QED
      BY <1>0, <3>1, <3>2 DEF Served, ModuleOf
  <2> HIDE DEF broken, target
  <2>2. up' = "sigpipe" /\ got' = got /\ fed'[c] = FALSE
    <3>1. up' = "sigpipe" /\ got' = got
      BY <1>1, <1>2, <1>a
    <3>2. fed'[c] = (fed[c] \/ (target = <<"inW", c>> /\ ~broken))
      BY <1>1
    <3>3. QED
      BY <1>a, <2>1, <3>1, <3>2
  <2>3. ServerEnds'
    BY <1>1, <2>1, <2>2 DEF ServerEnds
  <2>4. Answered'
    <3> SUFFICES ASSUME NEW d \in Conns, pc'[d] = "finished", ~gone'[d]
                 PROVE  got'[d] = Answer(d)'
      BY DEF Answered, Answer
    <3>1. pc[d] = "finished" /\ gone[d] \in BOOLEAN
      BY <1>0, <1>1 DEF TypeOK
    <3>2. AnswerOf(d)
      BY DEF Before, Single, Served
    <3>3. got[d] = Answer(d)
      BY <1>1, <3>1, <3>2 DEF AnswerOf, Final
    <3>4. QED
      BY <1>1, <2>2, <3>3 DEF Answer
  <2>5. QED
    BY <2>2, <2>3, <2>4 DEF Ended
<1>3. SUFFICES ASSUME ~broken PROVE Serves(c)
  BY <1>a
<1> HIDE DEF target, broken
<1>4. up' = up /\ got' = got
  BY <1>1, <1>2, <1>3
<1>5. ASSUME NEW d \in Conns PROVE fed'[d] = IF d = c THEN TRUE ELSE fed[d]
  <2>1. fed'[d] = (fed[d] \/ (target = <<"inW", d>> /\ ~broken)) /\ fed[d] \in BOOLEAN
    BY <1>0, <1>1 DEF TypeOK
  <2>2. CASE d = c
    BY <1>2, <1>3, <2>1, <2>2
  <2>3. CASE d # c
    <3>1. target # <<"inW", d>>
      BY <1>2, <2>3
    <3>2. QED
      BY <2>1, <2>3, <3>1
  <2>4. QED
    BY <2>2, <2>3
<1>6. pc'[c] = "meta" /\ \A d \in Conns \ {c} : pc'[d] = pc[d]
  BY <1>0, <1>1 DEF TypeOK
<1>7. \A d \in Conns \ {c} : Same(d)
  BY <1>1, <1>4, <1>5, <1>6 DEF Same
<1>8. Holds(c)' /\ Apart(c)'
  <2>1. \A k \in Slots : MustHold(k, c)' => MustHold(k, c)
    BY <1>0, <1>1, <1>6 DEF MustHold, PipesOpen
  <2>2. \A k \in PipeSlots : Named(k, c)' => Named(k, c)
    BY <1>0, <1>6 DEF Named, PipeSlots, InPipeLabels, PipesOpen, Answering
  <2>3. QED
    BY <1>0, <1>1, <2>1, <2>2, KeepHolds
<1>9. ModuleOf(c)'
  BY <1>0, <1>1, <1>5, <1>6 DEF Served, ModuleOf, BeforeFork, BeforeWrite
<1>10. AnswerOf(c)'
  BY <1>0, <1>1, <1>4, <1>6 DEF Served, AnswerOf, BeforeAnswer, Fetching, Closing, Final
<1>11. QED
  BY <1>0, <1>4, <1>7, <1>8, <1>9, <1>10 DEF Serves, Served

(* A part of the answer reaches the handler's own client.                   *)
LEMMA Delivered ==
  ASSUME TypeOK, NEW c \in Conns, NEW part, Deliver(c, c, part)
  PROVE  /\ got'[c] = Append(got[c], [from |-> c, part |-> part])
         /\ \A d \in Conns \ {c} : got'[d] = got[d]
BY DEF Deliver, TypeOK

LEMMA SecondPart ==
  ASSUME NEW S, NEW x \in S, NEW y \in S
  PROVE  Append(<<x>>, y) = <<x, y>>
<1>1. <<x>> \in Seq(S) /\ <<x, y>> \in Seq(S) /\ Append(<<x>>, y) \in Seq(S)
  OBVIOUS
<1>2. Len(<<x>>) = 1 /\ Len(<<x, y>>) = 2 /\ Len(Append(<<x>>, y)) = 2
  OBVIOUS
<1>3. Append(<<x>>, y)[1] = x /\ Append(<<x>>, y)[2] = y
  BY <1>1, <1>2, AppendProperties
<1>4. \A i \in 1 .. 2 : Append(<<x>>, y)[i] = <<x, y>>[i]
  BY <1>3
<1>5. QED
  BY <1>1, <1>2, <1>4, SeqEqual

LEMMA SendServes ==
  ASSUME Before, NEW c \in Conns, SendHead(c) \/ SendBody(c)
  PROVE  Serves(c)
<1>0. /\ TypeOK /\ Served(c) /\ up = "running" /\ Holds(c)
      /\ pc[c] \in {"head", "body"} /\ gone[c] \in BOOLEAN
  BY DEF Before, Single, Served, SendHead, SendBody, At, TypeOK
<1>1. SendTarget(c) = <<"sock", c>> /\ (SendWorks(c) <=> ~gone[c])
  BY <1>0, OwnSocket
<1>2. /\ request[c] # "undumpable" /\ (request[c] = "ok" \/ gone[c] = TRUE)
      /\ failed[c] = FALSE /\ response[c] \in OutputKinds
  BY <1>0 DEF Served, AnswerOf, Fetching
<1>3. PICK part, next :
        /\ Send(c, part, next)
        /\ \/ /\ pc[c] = "head" /\ part = "head" /\ next = "body"
           \/ /\ pc[c] = "body" /\ part = "body" /\ next = ResponseDtor(c)
  <2>1. CASE SendHead(c)
    BY <2>1 DEF SendHead, At
  <2>2. CASE SendBody(c)
    <3>1. pc[c] = "body"
      BY <2>2 DEF SendBody, At
    <3>2. Reads(c, c)
      BY <1>0, <3>1 DEF Holds, MustHold, Slots, PipeSlots, Reads
    <3>3. response[c] = "file" => fd[slot[c]["file"]] = <<"file", c>>
      BY <1>0, <3>1 DEF Holds, MustHold, Slots
    <3>4. response[c] # "noFile"
      BY <1>2 DEF OutputKinds
    <3>5. Send(c, "body", ResponseDtor(c))
      BY <2>2, <3>2, <3>3, <3>4 DEF SendBody
    <3>6. QED
      BY <3>1, <3>5
  <2>3. QED
    BY <2>1, <2>2
<1>4. UNCHANGED <<fd, up, acc, slot, source, response, request, taken, gone, moduleVars>>
  BY <1>3 DEF Send
<1>5. /\ ResponseDtor(c) \in {"respDtor", "fileDtor"}
      /\ ResponseDtor(c) = "fileDtor" => response[c] = "file"
  BY <1>2 DEF ResponseDtor, OutputKinds
<1>6. CASE ~gone[c]
  <2>1. Deliver(c, c, part) /\ pc' = [pc EXCEPT ![c] = next] /\ failed' = failed
    BY <1>1, <1>3, <1>6 DEF Send, Goto
  <2>2. /\ got'[c] = Append(got[c], [from |-> c, part |-> part])
        /\ \A d \in Conns \ {c} : got'[d] = got[d]
    BY <1>0, <2>1, Delivered
  <2>3. pc'[c] = next /\ \A d \in Conns \ {c} : pc'[d] = pc[d]
    BY <1>0, <2>1 DEF TypeOK
  <2>4. \A d \in Conns \ {c} : Same(d)
    BY <1>4, <2>1, <2>2, <2>3 DEF Same, moduleVars
  <2>5. Holds(c)' /\ Apart(c)'
    <3>1. \A k \in Slots : MustHold(k, c)' => MustHold(k, c)
      BY <1>0, <1>3, <1>4, <1>5, <2>3 DEF MustHold, PipesOpen
    <3>2. \A k \in PipeSlots : Named(k, c)' => Named(k, c)
      BY <1>0, <1>3, <1>5, <2>3 DEF Named, PipeSlots, InPipeLabels, PipesOpen, Answering
    <3>3. QED
      BY <1>0, <1>4, <3>1, <3>2, KeepHolds
  <2>6. ModuleOf(c)'
    BY <1>0, <1>3, <1>4, <1>5, <2>3 DEF Served, ModuleOf, moduleVars, BeforeFork, BeforeWrite
  <2>7. /\ pc[c] = "head" => got'[c] = << [from |-> c, part |-> "head"] >>
        /\ pc[c] = "body" => got'[c] = Whole(c)
    <3>1. /\ pc[c] = "head" => got[c] = << >>
          /\ pc[c] = "body" => got[c] = << [from |-> c, part |-> "head"] >>
      BY <1>0 DEF Served, AnswerOf, Fetching
    <3> DEFINE head == [from |-> c, part |-> "head"]
               body == [from |-> c, part |-> "body"]
    <3>2. CASE pc[c] = "head"
      <4>1. got'[c] = Append(<< >>, head)
        BY <1>3, <2>2, <3>1, <3>2
      <4> HIDE DEF head
      <4>2. got'[c] = <<head>>
        BY <4>1
      <4>3. QED
        BY <3>2, <4>2 DEF head
    <3>3. CASE pc[c] = "body"
      <4>1. got'[c] = Append(<<head>>, body)
        BY <1>3, <2>2, <3>1, <3>3
      <4> HIDE DEF head, body
      <4>2. got'[c] = <<head, body>>
        BY <4>1, SecondPart, head \in {head, body}, body \in {head, body}
      <4>3. Whole(c) = <<head, body>>
        BY DEF Whole, head, body
      <4>4. QED
        BY <3>3, <4>2, <4>3
    <3>4. QED
      BY <1>0, <3>2, <3>3
  <2>8. AnswerOf(c)'
    BY <1>2, <1>3, <1>4, <1>5, <2>1, <2>3, <2>7 DEF AnswerOf, BeforeAnswer, Fetching, Closing, Final, Whole
  <2>9. QED
    BY <1>0, <1>4, <2>4, <2>5, <2>6, <2>8 DEF Serves, Served
<1>7. CASE gone[c]
  <2>1. /\ pc' = [pc EXCEPT ![c] = ResponseDtor(c)]
        /\ failed' = [failed EXCEPT ![c] = TRUE] /\ got' = got
    BY <1>1, <1>3, <1>7 DEF Send, Goto
  <2>2. pc'[c] = ResponseDtor(c) /\ failed'[c] = TRUE
    BY <1>0, <2>1 DEF TypeOK
  <2>3. \A d \in Conns \ {c} : Same(d)
    BY <1>0, <1>4, <2>1 DEF Same, moduleVars, TypeOK
  <2>4. Holds(c)' /\ Apart(c)'
    <3>1. \A k \in Slots : MustHold(k, c)' => MustHold(k, c)
      BY <1>0, <1>4, <1>5, <2>2 DEF MustHold, PipesOpen
    <3>2. \A k \in PipeSlots : Named(k, c)' => Named(k, c)
      BY <1>0, <1>5, <2>2 DEF Named, PipeSlots, InPipeLabels, PipesOpen, Answering
    <3>3. QED
      BY <1>0, <1>4, <3>1, <3>2, KeepHolds
  <2>5. ModuleOf(c)'
    BY <1>0, <1>4, <1>5, <2>2 DEF Served, ModuleOf, moduleVars, BeforeFork, BeforeWrite
  <2>6. gone[c] = TRUE
    BY <1>0, <1>7
  <2>7. AnswerOf(c)'
    BY <1>2, <1>4, <1>5, <2>2, <2>6 DEF AnswerOf, BeforeAnswer, Fetching, Closing, Final
  <2>8. QED
    BY <1>0, <1>4, <2>3, <2>4, <2>5, <2>7 DEF Serves, Served
<1>8. QED
  BY <1>6, <1>7

LEMMA ErrorServes ==
  ASSUME Before, NEW c \in Conns, Error500(c)
  PROVE  Serves(c)
<1>0. /\ TypeOK /\ Served(c) /\ up = "running" /\ Holds(c)
      /\ pc[c] = "error500" /\ gone[c] \in BOOLEAN
  BY DEF Before, Single, Served, Error500, At, TypeOK
<1>1. SendTarget(c) = <<"sock", c>> /\ (SendWorks(c) <=> ~gone[c])
  BY <1>0, OwnSocket
<1>2. /\ request[c] # "undumpable"
      /\ gone[c] = TRUE \/ (request[c] \notin {"ok", "none"} /\ got[c] = << >>)
  BY <1>0 DEF Served, AnswerOf, BeforeAnswer
<1>3. /\ pc' = [pc EXCEPT ![c] = "closeSock"]
      /\ UNCHANGED <<fd, up, acc, slot, source, failed, response, request, taken, gone, moduleVars>>
      /\ IF ~gone[c] THEN Deliver(c, c, "500") ELSE got' = got
  BY <1>1 DEF Error500, Goto
<1>4. \A d \in Conns \ {c} : got'[d] = got[d]
  BY <1>0, <1>3, Delivered
<1>5. pc'[c] = "closeSock" /\ \A d \in Conns \ {c} : pc'[d] = pc[d]
  BY <1>0, <1>3 DEF TypeOK
<1>6. \A d \in Conns \ {c} : Same(d)
  BY <1>3, <1>4, <1>5 DEF Same, moduleVars
<1>7. Holds(c)' /\ Apart(c)'
  <2>1. \A k \in Slots : MustHold(k, c)' => MustHold(k, c)
    BY <1>0, <1>3, <1>5 DEF MustHold, PipesOpen
  <2>2. \A k \in PipeSlots : Named(k, c)' => Named(k, c)
    BY <1>5 DEF Named, PipeSlots, InPipeLabels, PipesOpen, Answering
  <2>3. QED
    BY <1>0, <1>3, <2>1, <2>2, KeepHolds
<1>8. ModuleOf(c)'
  BY <1>0, <1>3, <1>5 DEF Served, ModuleOf, moduleVars, BeforeFork, BeforeWrite
<1>9. gone[c] = TRUE \/ got'[c] = Answer(c)
  <2> DEFINE sorry == [from |-> c, part |-> "500"]
  <2>1. CASE ~gone[c]
    <3>1. got'[c] = Append(got[c], sorry)
      BY <1>0, <1>3, <2>1, Delivered
    <3>2. got'[c] = Append(<< >>, sorry)
      BY <1>2, <2>1, <3>1
    <3>3. Answer(c) = <<sorry>>
      BY <1>2, <2>1 DEF Answer, Sorry
    <3> HIDE DEF sorry
    <3>4. QED
      BY <3>2, <3>3
  <2>2. QED
    BY <1>0, <2>1
<1>10. AnswerOf(c)'
  BY <1>2, <1>3, <1>5, <1>9 DEF AnswerOf, Answer, BeforeAnswer, Fetching, Closing, Final
<1>11. QED
  BY <1>0, <1>3, <1>6, <1>7, <1>8, <1>10 DEF Serves, Served

(* The end of the thread, and what the accept loop does after it.           *)
LEMMA LeaveServes ==
  ASSUME Before, NEW c \in Conns, Exit(c) \/ (AcceptorDrop(c) /\ pc[c] = "left")
  PROVE  Serves(c)
<1>0. TypeOK /\ Served(c) /\ up = "running"
  BY DEF Before, Single
<1>1. PICK next \in {"left", "dtorSocket"} : pc' = [pc EXCEPT ![c] = next]
  BY DEF Exit, AcceptorDrop, Goto
<1>2. /\ pc[c] \in {"exit", "left"}
      /\ UNCHANGED <<fd, up, slot, source, failed, response, clientVars, moduleVars>>
  BY DEF Exit, AcceptorDrop, At
<1>3. pc'[c] = next /\ \A d \in Conns \ {c} : pc'[d] = pc[d]
  BY <1>0, <1>1 DEF TypeOK
<1>4. \A d \in Conns \ {c} : Same(d)
  BY <1>2, <1>3 DEF Same, clientVars, moduleVars
<1>5. Holds(c)' /\ Apart(c)'
  <2>1. \A k \in Slots : MustHold(k, c)' => MustHold(k, c)
    BY <1>3 DEF MustHold, PipesOpen
  <2>2. \A k \in PipeSlots : Named(k, c)' => Named(k, c)
    BY <1>3 DEF Named, PipeSlots, InPipeLabels, PipesOpen, Answering
  <2>3. QED
    BY <1>0, <1>2, <2>1, <2>2, KeepHolds
<1>6. ModuleOf(c)'
  BY <1>0, <1>2, <1>3 DEF Served, ModuleOf, moduleVars, BeforeFork, BeforeWrite
<1>7. AnswerOf(c)'
  BY <1>0, <1>2, <1>3 DEF Served, AnswerOf, Answer, clientVars, BeforeAnswer, Fetching, Closing, Final
<1>8. QED
  BY <1>0, <1>2, <1>4, <1>5, <1>6, <1>7 DEF Serves, Served

(* A module lets go of its input only when it exits.                        *)
LEMMA ModuleServes ==
  ASSUME Before, NEW c \in Conns, ModuleStep(c)
  PROVE  Serves(c) /\ ~Idle(c)
<1>0. TypeOK /\ Served(c) /\ up = "running" /\ Holds(c)
  BY DEF Before, Single, Served
<1>1. module[c] \in {"running", "wrote"} /\ UNCHANGED <<fd, up, handlerVars, clientVars, fed>>
  BY DEF ModuleStep, ModuleAnswers, ModuleExits
<1>2. \/ module'[c] = "wrote" /\ held'[c] = held[c]
      \/ module'[c] = "exited"
  BY <1>0 DEF ModuleStep, ModuleAnswers, ModuleExits, TypeOK
<1>3. \A d \in Conns \ {c} : Same(d)
  BY <1>0, <1>1 DEF Same, ModuleStep, ModuleAnswers, ModuleExits, TypeOK, handlerVars, clientVars
<1>4. Holds(c)' /\ Apart(c)'
  <2>1. \A k \in Slots : MustHold(k, c)' => MustHold(k, c)
    BY <1>1 DEF MustHold, handlerVars
  <2>2. \A k \in PipeSlots : Named(k, c)' => Named(k, c)
    BY <1>1 DEF Named, handlerVars
  <2>3. QED
    BY <1>0, <1>1, <2>1, <2>2, KeepHolds DEF handlerVars
<1>5. ModuleOf(c)'
  BY <1>0, <1>1, <1>2 DEF Served, ModuleOf, handlerVars
<1>6. AnswerOf(c)'
  BY <1>0, <1>1 DEF Served, AnswerOf, Answer, handlerVars, clientVars
<1>7. QED
  BY <1>0, <1>1, <1>3, <1>4, <1>5, <1>6 DEF Serves, Served, Idle
-----------------------------------------------------------------------------
(* Every step of the regime keeps the table in the hands of one handler.    *)
LEMMA SingleStep ==
  ASSUME Regime, Before, [Next]_vars
  PROVE  Single' \/ Ended'
<1>0. Own'
  BY OwnStays DEF Before, Single
<1>1. ASSUME NEW c \in Conns, Serves(c), ~Idle(c) PROVE Single'
  BY <1>0, <1>1, BusyAlone, OthersStay
<1>2. ASSUME UNCHANGED <<fd, up, pc, slot, source, failed, response, request, taken, got, module, held, fed>>,
             \A d \in Conns : gone[d] = TRUE => gone'[d] = TRUE
      PROVE  Single'
  <2>1. ASSUME NEW d \in Conns PROVE Served(d)'
    <3>1. Served(d)
      BY DEF Before, Single
    <3>2. Holds(d)' /\ Apart(d)'
      BY <1>2, <3>1 DEF Served, Holds, Apart, MustHold, Named
    <3>3. ModuleOf(d)'
      BY <1>2, <3>1 DEF Served, ModuleOf
    <3>4. AnswerOf(d)'
      BY <1>2, <3>1 DEF Served, AnswerOf, Answer
    <3>5. QED
      BY <3>2, <3>3, <3>4 DEF Served
  <2>2. up' = "running" /\ Alone'
    BY <1>2 DEF Before, Single, Alone, Idle
  <2>3. QED
    BY <1>0, <2>1, <2>2 DEF Single
<1>3. ASSUME NEW c \in Conns, Accept(c) PROVE Single'
  BY <1>0, <1>3, AcceptServes, OthersStay
<1>4. ASSUME NEW c \in Conns, AcceptorDrop(c) PROVE Single'
  <2>1. CASE pc[c] = "left"
    BY <1>1, <1>4, <2>1, LeaveServes DEF Idle
  <2>2. CASE pc[c] # "left"
    BY <1>2, <1>4, <2>2 DEF AcceptorDrop, clientVars, moduleVars
  <2>3. QED
    BY <2>1, <2>2
<1>5. ASSUME NEW c \in Conns, Abort(c) PROVE Single'
  <2>1. \A d \in Conns : gone[d] = TRUE => gone'[d] = TRUE
    BY <1>5 DEF Abort, Before, TypeOK
  <2>2. QED
    BY <1>2, <1>5, <2>1 DEF Abort, handlerVars, moduleVars
<1>6. ASSUME NEW c \in Conns, HandlerStep(c) PROVE Single' \/ Ended'
  <2>1. pc[c] \notin {"waiting", "finished"}
    BY <1>6 DEF HandlerStep, BeginRead, ReadRequest, OpenStdinPipe, OpenStdoutPipe, OpenPipe, Fork,
       ForkFails, WriteInput, ReadMetadata, SendHead, SendBody, RunCloses, ResponseCloses,
       ProcessCloses, SocketCloses, CloseBy, Error500, Exit, At
  <2>2. CASE ForkFails(c)
    <3>1. up' = "segv" /\ UNCHANGED <<pc, gone, got, request>> /\ pc[c] = "fork"
      BY <2>2 DEF ForkFails, NullDescriptor, At, handlerVars, clientVars
    <3>2. Answered
      BY DEF Before, Single, Served, AnswerOf, Answered, Final, Answer
    <3>3. Answered' /\ ServerEnds'
      BY <3>1, <3>2 DEF Answered, ServerEnds
    <3>4. QED
      BY <3>1, <3>3 DEF Ended
  <2>3. CASE ~ForkFails(c)
    <3>1. Serves(c) \/ Ended'
      BY <1>6, <2>3, BeginServes, ReadServes, PipeServes, ForkServes, WriteServes, MetadataServes,
         SendServes, ClosingServes, ErrorServes, LeaveServes DEF HandlerStep
    <3>2. QED
      BY <1>1, <2>1, <3>1 DEF Idle
  <2>4. QED
    BY <2>2, <2>3
<1>7. ASSUME NEW c \in Conns, ModuleStep(c) \/ SendRequest(c) PROVE Single'
  BY <1>1, <1>7, ModuleServes, RequestServes
<1>8. CASE UNCHANGED vars
  BY <1>2, <1>8 DEF vars, handlerVars, clientVars, moduleVars
<1>9. QED
  BY <1>3, <1>4, <1>5, <1>6, <1>7, <1>8 DEF Next, Rest

LEMMA SingleInit == Regime /\ Init => Single
<1> SUFFICES ASSUME Regime, Init PROVE Single
  OBVIOUS
<1>1. up = "running" /\ Alone /\ Own
  <2>1. Stdin # Listen /\ Stdin # Closed /\ Listen # Closed
    BY DEF Stdin, Listen, Closed
  <2>2. QED
    BY <2>1 DEF Init, Alone, Idle, Own
<1>2. ASSUME NEW c \in Conns PROVE Served(c)
  <2>1. pc[c] = "waiting"
    BY DEF Init
  <2>2. Holds(c) /\ Apart(c)
    BY <2>1 DEF Holds, Apart, MustHold, Named, PipeSlots, PipesOpen, InPipeLabels, Answering
  <2>3. ModuleOf(c)
    BY <2>1 DEF Init, ModuleOf, BeforeFork, BeforeWrite
  <2>4. AnswerOf(c)
    BY <2>1 DEF Init, AnswerOf, BeforeAnswer, Fetching, Closing, Final
  <2>5. QED
    BY <2>2, <2>3, <2>4 DEF Served
<1>3. QED
  BY <1>1, <1>2 DEF Single

(* A server that ended takes no step.                                       *)
LEMMA EndedStays ==
  ASSUME up # "running", [Next]_vars
  PROVE  UNCHANGED vars
BY DEF Next, Accept, AcceptorDrop, SendRequest, Abort, HandlerStep, BeginRead, ReadRequest,
   OpenStdinPipe, OpenStdoutPipe, OpenPipe, Fork, ForkFails, WriteInput, ReadMetadata, SendHead,
   SendBody, RunCloses, ResponseCloses, ProcessCloses, SocketCloses, CloseBy, Error500, Exit, At,
   ModuleStep, ModuleAnswers, ModuleExits, Rest

Turn == Ended \/ (StdinInv /\ Single)

LEMMA TurnAlways == Regime => (Spec => []Turn)
<1> SUFFICES ASSUME Regime PROVE Spec => []Turn
  OBVIOUS
<1>1. Init => Turn
  BY StdinInit, SingleInit DEF Turn
<1>2. TypeOK /\ Covered /\ Turn /\ [Next]_vars => Turn'
  <2> SUFFICES ASSUME TypeOK, Covered, Turn, [Next]_vars PROVE Turn'
    OBVIOUS
  <2>1. CASE Ended
    <3>1. UNCHANGED vars
      BY <2>1, EndedStays DEF Ended
    <3>2. Ended'
      BY <2>1, <3>1 DEF Ended, Answered, ServerEnds, vars, handlerVars, clientVars, moduleVars
    <3>3. QED
      BY <3>2 DEF Turn
  <2>2. CASE StdinInv /\ Single
    <3>1. Single' \/ Ended'
      BY <2>2, SingleStep DEF Before
    <3>2. Single' => ~Spoiled'
      BY DEF Single, Served, AnswerOf, Spoiled
    <3>3. Single' => StdinInv'
      BY <2>2, <3>2, StdinStep
    <3>4. QED
      BY <3>1, <3>3 DEF Turn
  <2>3. QED
    BY <2>1, <2>2 DEF Turn
<1>3. QED
  BY <1>1, <1>2, TypeInit, TypeStep, CoveredInit, CoveredStep, PTL DEF Spec

(* Answered: with one connection at a time every client that stays gets one *)
(* whole response of its own, for any number of connections and any table   *)
(* of seven numbers or more, whether the clients are silent, cut their      *)
(* content or reset and whether the modules read their input.  Without the  *)
(* premises it is false: run handler_sequential shows it for a client that  *)
(* waits for the end of its stream only, because the handler closes its     *)
(* numbers after that.                                                      *)
THEOREM AnsweredInTurn ==
  ASSUME Arrival = "afterIdle", "undumpable" \notin Requests, MaxFd >= 6
  PROVE  Spec => []Answered
<1>1. Regime
  BY DEF Regime
<1>2. Turn => Answered
  BY DEF Turn, Ended, Single, Served, AnswerOf, Answered, Final, Answer
<1>3. QED
  BY <1>1, <1>2, TurnAlways, PTL

(* ServerEnds: under the same premises the server dies of a module that     *)
(* exited before its line was written or of a fork that failed, and of      *)
(* nothing else: seven numbers are enough for connections in turn, however  *)
(* many there are, because a pipe always finds two.                         *)
THEOREM EndsInTurn ==
  ASSUME Arrival = "afterIdle", "undumpable" \notin Requests, MaxFd >= 6
  PROVE  Spec => []ServerEnds
<1>1. Regime
  BY DEF Regime
<1>2. Turn => ServerEnds
  BY DEF Turn, Ended, Single, ServerEnds
<1>3. QED
  BY <1>1, <1>2, TurnAlways, PTL
=============================================================================
