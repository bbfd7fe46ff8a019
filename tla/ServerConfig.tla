---------------------------- MODULE ServerConfig ----------------------------
(***************************************************************************)
(* The parameters of the server: the commands that change them (runServer, *)
(* Server::execute), the URL map they reload (initializeUrlMap) and the    *)
(* handlers that search it for the command of a path (getCommandForPath),  *)
(* compiling its patterns on first use (getPathRegex).                     *)
(*                                                                         *)
(* Handlers walk the vector of the URL map by reference and without a lock. *)
(* Replacing it frees the entries they look at, and a second handler that  *)
(* compiles the same pattern frees the one the first is matching with.     *)
(* What a handler does with freed memory is not defined: it is "lost".     *)
(*                                                                         *)
(* Abstractions: an entry of the URL map is the set of paths its pattern   *)
(* matches, its command and its arguments; a file is read in one step;     *)
(* values are texts, some of which are numbers; the speeds are settings    *)
(* like others here.                                                       *)
(***************************************************************************)
EXTENDS Naturals, SequencesExt

CONSTANTS
  Handlers,   (* handlers of requests, one request each                     *)
  None,       (* no value, no handler                                       *)
  Requests,   (* the paths clients ask for                                  *)
  Paths,      (* names of URL map files                                     *)
  Contents,   (* what such a file may hold: a sequence of entries, some of  *)
              (* them perhaps Bad, or Unreadable                            *)
  Bad,        (* an entry that is not a URL map object                      *)
  Unreadable, (* not there, larger than 2 MB or no JSON                     *)
  Invalid,    (* the matches of an entry whose pattern is no regex          *)
  Names,      (* parameters that are not built in                           *)
  Numbers,    (* texts that std::stol accepts                               *)
  Tokens,     (* what may be typed, [key, value], see Execute               *)
  Given,      (* parameters given on the command line                       *)
  MaxLoads,   (* bound: successful loads of a URL map                       *)
  Overlap     (* may handlers overlap with each other and with reloads?     *)

NumberKeys == {"maxdspeed", "maxuspeed", "logging", "ping"}
Settings == NumberKeys \cup {"temp-dir"}

(* The names ServerParams lists as allowed parameters.                      *)
Listed == Settings \cup {"urlmap"}

ASSUME ConfigConstants ==
  /\ None \notin Handlers
  /\ Unreadable \notin {Bad, <<>>}
  /\ Given \subseteq Names
  /\ \A content \in Contents \ {Unreadable} :
       /\ Len(content) \in Nat /\ DOMAIN content = 1 .. Len(content)
       /\ \A i \in DOMAIN content :
            content[i] # Bad => content[i].args \subseteq Listed \cup Names
  /\ MaxLoads \in Nat \ {0}
  /\ Overlap \in BOOLEAN

VARIABLES
  disk,       (* the files                                                  *)
  urlMap,     (* params.urlMap: its entries                                 *)
  urlMapFile, (* params.urlMapFile                                          *)
  allowed,    (* params.allowedParams: its names                            *)
  settings,   (* the values of the built-in parameters                      *)
  kwargs,     (* params.additionalKwargs                                    *)
  command,    (* the string command in runServer                            *)
  eof,        (* the standard input has ended                               *)
  stopped,    (* the command was "stop"                                     *)
  pc,         (* next step of the handler                                   *)
  path,       (* the path it looks up                                       *)
  vector,     (* which load of the URL map it walks                         *)
  size,       (* how many entries that has                                  *)
  index,      (* the entry it is at                                         *)
  using,      (* who compiled the pattern it is matching with               *)
  compiled,   (* who compiled the pattern of each entry of urlMap           *)
  result,     (* the command found                                          *)
  loads       (* history: successful loads, [path, entries]                 *)

mapVars == <<urlMap, urlMapFile, allowed, compiled, loads>>
paramVars == <<settings, kwargs>>
inputVars == <<command, eof, stopped>>
handlerVars == <<pc, path, vector, size, index, using, result>>
vars == <<disk, mapVars, paramVars, inputVars, handlerVars>>
-----------------------------------------------------------------------------
(* Reading a URL map file: all of it, or nothing at all.                    *)
Readable(content) == content # Unreadable /\ \A i \in DOMAIN content : content[i] # Bad
ArgsOf(entries) == UNION {entries[i].args : i \in DOMAIN entries}
Uncompiled(entries) == [i \in DOMAIN entries |-> None]

(* Without Overlap, nothing but commands that leave the URL map alone and   *)
(* edits of files comes between the steps of a look-up.                     *)
Walking(h) == pc[h] \in {"loop", "compile", "match", "copy"}
Quiet == Overlap \/ \A h \in Handlers : ~Walking(h)

(* initializeUrlMap: parse into a new vector, and only then move it, its    *)
(* path and its arguments into the parameters.                              *)
Install(file) ==
  /\ Quiet /\ Len(loads) < MaxLoads
  /\ urlMap' = disk[file] /\ compiled' = Uncompiled(disk[file])
  /\ loads' = Append(loads, [path |-> file, entries |-> disk[file]])
Load_PathFirst(file) ==
  /\ urlMapFile' = file
  /\ IF Readable(disk[file])
     THEN Install(file) /\ allowed' = allowed \cup ArgsOf(disk[file])
     ELSE UNCHANGED <<urlMap, allowed, compiled, loads>>
Load_ArgsFirst(file) ==
  /\ allowed' = allowed \cup
       (IF disk[file] = Unreadable THEN {}
        ELSE ArgsOf(SelectSeq(disk[file], LAMBDA entry : entry # Bad)))
  /\ IF Readable(disk[file]) THEN Install(file) /\ urlMapFile' = file
     ELSE UNCHANGED <<urlMap, urlMapFile, compiled, loads>>
Load(file) ==
  IF Readable(disk[file])
  THEN Install(file) /\ urlMapFile' = file /\ allowed' = allowed \cup ArgsOf(disk[file])
  ELSE UNCHANGED mapVars

(* initializeFrom: the command line, then the first load.  Without a URL    *)
(* map the server starts all the same.                                      *)
Init ==
  /\ disk \in [Paths -> Contents]
  /\ urlMapFile \in Paths
  /\ settings = [key \in Settings |-> None]
  /\ \E value \in Numbers : kwargs = [name \in Given |-> value]
  /\ LET entries == disk[urlMapFile]
     IN  IF Readable(entries)
         THEN /\ urlMap = entries
              /\ allowed = Listed \cup ArgsOf(entries)
              /\ loads = <<[path |-> urlMapFile, entries |-> entries]>>
         ELSE urlMap = <<>> /\ allowed = Listed /\ loads = <<>>
  /\ compiled = Uncompiled(urlMap)
  /\ command = None /\ eof = FALSE /\ stopped = FALSE
  /\ pc = [h \in Handlers |-> "idle"]
  /\ path = [h \in Handlers |-> None] /\ result = [h \in Handlers |-> None]
  /\ using = [h \in Handlers |-> None]
  /\ vector = [h \in Handlers |-> 0]
  /\ size = [h \in Handlers |-> 0] /\ index = [h \in Handlers |-> 0]
-----------------------------------------------------------------------------
(* Commands.                                                                *)

Remap(token) ==
  /\ token.key = "remap" /\ token.value = None
  /\ Load(urlMapFile) /\ UNCHANGED paramVars
SetMap(token) ==
  /\ token.key = "url-map" /\ token.value \in Paths
  /\ Load(token.value) /\ UNCHANGED paramVars

(* std::stol throws for what is no number, and nothing is changed.          *)
Accepts_Any(key, value) == TRUE
Accepts(key, value) == key \in NumberKeys => value \in Numbers
SetSetting(token) ==
  /\ token.key \in Settings /\ token.value # None
  /\ settings' = IF Accepts(token.key, token.value)
                 THEN [settings EXCEPT ![token.key] = token.value] ELSE settings
  /\ UNCHANGED <<mapVars, kwargs>>

(* What is forwarded to the modules must be an allowed parameter.           *)
Known_Any(key) == TRUE
Known(key) == key \in allowed
SetKwarg(token) ==
  /\ token.key \notin Settings \cup {"url-map"} /\ token.value # None
  /\ kwargs' = IF Known(token.key)
               THEN [name \in DOMAIN kwargs \cup {token.key} |->
                       IF name = token.key THEN token.value ELSE kwargs[name]]
               ELSE kwargs
  /\ UNCHANGED <<mapVars, settings>>

(* A single word that is no command.                                        *)
Unknown(token) ==
  /\ token.value = None /\ token.key \notin {"remap", "stop"}
  /\ UNCHANGED <<mapVars, paramVars>>

Execute(token) ==
  Remap(token) \/ SetMap(token) \/ SetSetting(token) \/ SetKwarg(token) \/ Unknown(token)

(* The loop of runServer.  At the end of the input operator>> leaves the    *)
(* string as it is, and the last command is executed again and again.       *)
Command ==
  /\ ~stopped
  /\ \E token \in IF eof THEN {command} \ {None} ELSE Tokens :
       /\ Execute(token)
       /\ command' = token
  /\ UNCHANGED <<disk, eof, stopped, handlerVars>>
Stop ==
  /\ ~stopped /\ ~eof
  /\ stopped' = TRUE
  /\ UNCHANGED <<disk, mapVars, paramVars, command, eof, handlerVars>>
EndOfInput ==
  /\ ~stopped /\ ~eof
  /\ eof' = TRUE
  /\ UNCHANGED <<disk, mapVars, paramVars, command, stopped, handlerVars>>

(* Somebody edits a URL map file.                                           *)
Edit ==
  /\ ~stopped
  /\ \E file \in Paths, content \in Contents :
       content # disk[file] /\ disk' = [disk EXCEPT ![file] = content]
  /\ UNCHANGED <<mapVars, paramVars, inputVars, handlerVars>>
-----------------------------------------------------------------------------
(* getCommandForPath.                                                       *)

Step(h, from) == ~stopped /\ pc[h] = from
Goto(h, label) == pc' = [pc EXCEPT ![h] = label]
Freed(h) == vector[h] # Len(loads)
Lose(h) ==
  /\ Goto(h, "lost")
  /\ UNCHANGED <<path, vector, size, index, using, compiled, result>>

Look(h) ==
  /\ Step(h, "idle") /\ Quiet
  /\ \E p \in Requests : path' = [path EXCEPT ![h] = p]
  /\ vector' = [vector EXCEPT ![h] = Len(loads)]
  /\ size' = [size EXCEPT ![h] = Len(urlMap)]
  /\ index' = [index EXCEPT ![h] = 1]
  /\ Goto(h, "loop")
  /\ UNCHANGED <<using, compiled, result>>

(* No entry matches: the first one of the URL map of now, if it has one.    *)
Default_Last == Len(urlMap)
Default == 1
Fallback(h) ==
  /\ Step(h, "loop") /\ index[h] > size[h]
  /\ IF urlMap = <<>> THEN Lose(h)
     ELSE /\ vector' = [vector EXCEPT ![h] = Len(loads)]
          /\ index' = [index EXCEPT ![h] = Default]
          /\ Goto(h, "copy")
          /\ UNCHANGED <<path, size, using, compiled, result>>

(* getPathRegex: the pattern is there, or has to be compiled first.         *)
TakePattern(h) ==
  /\ Step(h, "loop") /\ index[h] <= size[h]
  /\ IF Freed(h) THEN Lose(h)
     ELSE /\ using' = [using EXCEPT ![h] = compiled[index[h]]]
          /\ Goto(h, IF compiled[index[h]] = None THEN "compile" ELSE "match")
          /\ UNCHANGED <<path, vector, size, index, compiled, result>>

(* The constructor of std::regex throws for what is no pattern.             *)
Compile(h) ==
  /\ Step(h, "compile")
  /\ IF Freed(h) THEN Lose(h)
     ELSE IF urlMap[index[h]].matches = Invalid
     THEN Goto(h, "failed") /\ UNCHANGED <<path, vector, size, index, using, compiled, result>>
     ELSE /\ compiled' = [compiled EXCEPT ![index[h]] = h]
          /\ using' = [using EXCEPT ![h] = h]
          /\ Goto(h, "match")
          /\ UNCHANGED <<path, vector, size, index, result>>

Match(h) ==
  /\ Step(h, "match")
  /\ IF Freed(h) \/ using[h] # compiled[index[h]] THEN Lose(h)
     ELSE IF path[h] \in urlMap[index[h]].matches
     THEN Goto(h, "copy") /\ UNCHANGED <<path, vector, size, index, using, compiled, result>>
     ELSE /\ index' = [index EXCEPT ![h] = index[h] + 1]
          /\ Goto(h, "loop")
          /\ UNCHANGED <<path, vector, size, using, compiled, result>>

(* The Process copies the command the reference refers to.                  *)
Copy(h) ==
  /\ Step(h, "copy")
  /\ IF Freed(h) THEN Lose(h)
     ELSE /\ result' = [result EXCEPT ![h] = urlMap[index[h]].command]
          /\ Goto(h, "found")
          /\ UNCHANGED <<path, vector, size, index, using, compiled>>

Lookup(h) ==
  /\ Look(h) \/ Fallback(h) \/ TakePattern(h) \/ Compile(h) \/ Match(h) \/ Copy(h)
  /\ UNCHANGED <<disk, urlMap, urlMapFile, allowed, loads, paramVars, inputVars>>

(* The process has ended.                                                   *)
Rest == stopped /\ UNCHANGED vars

Next ==
  \/ Command \/ Stop \/ EndOfInput \/ Edit \/ Rest
  \/ \E h \in Handlers : Lookup(h)

Spec == Init /\ [][Next]_vars
-----------------------------------------------------------------------------
(* Types; a setting that is a number is never anything else, and a walk     *)
(* never leaves its vector by more than its end.                            *)
TypeOK ==
  /\ urlMapFile \in Paths /\ Readable(urlMap)
  /\ Listed \subseteq allowed /\ allowed \subseteq Listed \cup Names
  /\ DOMAIN settings = Settings
  /\ \A key \in NumberKeys : settings[key] \in Numbers \cup {None}
  /\ DOMAIN compiled = DOMAIN urlMap
  /\ \A h \in Handlers : index[h] <= size[h] + 1 \/ pc[h] = "lost"

(* A handler runs the command of the first entry that matches its path, or  *)
(* of the first entry, and fails only on a pattern before that; where there *)
(* is an entry at all it is never lost.                                     *)
Stops(p, entry) == entry.matches = Invalid \/ p \in entry.matches
Served ==
  \A h \in Handlers :
    /\ pc[h] = "lost" => size[h] = 0
    /\ pc[h] \in {"found", "failed"} =>
         LET entries == loads[vector[h]].entries
             stops == {i \in DOMAIN entries : Stops(path[h], entries[i])}
             first == entries[IF stops = {} THEN 1 ELSE Min(stops)]
             failed == stops # {} /\ first.matches = Invalid
         IN  (pc[h] = "failed") = failed /\ (~failed => result[h] = first.command)

(* After any sequence of reloads, failed ones between them, edits and bad   *)
(* paths, the URL map in use and the path that remap reads are those of the *)
(* last reload that worked.                                                 *)
MapAndPath ==
  loads # <<>> => Last(loads) = [path |-> urlMapFile, entries |-> urlMap]

(* A reload that fails leaves no trace: the parameters allowed are the      *)
(* listed ones and the arguments of the URL maps that were in effect.       *)
NoTrace == allowed = Listed \cup UNION {ArgsOf(loads[i].entries) : i \in DOMAIN loads}

(* What is forwarded to modules was given on the command line, is listed,   *)
(* or belongs to a URL map that was in effect, and no setting of the server *)
(* is forwarded in place of being set.                                      *)
Offered == DOMAIN kwargs \subseteq (allowed \cup Given) \ (Settings \ Given)
=============================================================================
