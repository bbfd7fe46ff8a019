------------------------- MODULE ServerConfig_proof -------------------------
(* Proofs about ServerConfig: what a reload does to the URL map, its path    *)
(* and the allowed parameters, whatever handlers, editors and commands do.   *)
EXTENDS ServerConfig, TLAPS, SequenceTheorems

Record == [path : Paths, entries : Contents]

(* Loads are of files that exist, with what these may hold.                  *)
Recorded ==
  /\ disk \in [Paths -> Contents]
  /\ urlMapFile \in Paths
  /\ loads \in Seq(Record)

(* A step that is no successful reload leaves the map and its path alone; a  *)
(* successful one installs one file as a whole.                              *)
Reload(file) ==
  /\ file \in Paths
  /\ urlMap' = disk[file] /\ urlMapFile' = file
  /\ loads' = Append(loads, [path |-> file, entries |-> disk[file]])
  /\ allowed' = allowed \cup ArgsOf(disk[file])
  /\ disk' = disk
Idle == UNCHANGED <<urlMap, urlMapFile, loads, allowed>> /\ disk' \in [Paths -> Contents]

LEMMA LoadIs ==
  ASSUME NEW file \in Paths, Load(file), disk' = disk, disk \in [Paths -> Contents]
  PROVE  Reload(file) \/ Idle
BY DEF Load, Install, Reload, Idle, mapVars

(* Every step of the system is one or the other.                             *)
LEMMA ReloadOrIdle ==
  ASSUME Recorded, [Next]_vars
  PROVE  Idle \/ \E file \in Paths : Reload(file)
<1> USE DEF Recorded
<1>1. CASE Command
  <2>1. PICK token : Execute(token)
    BY <1>1 DEF Command
  <2>2. disk' = disk
    BY <1>1 DEF Command
  <2>3. CASE Remap(token)
    BY <2>2, <2>3, LoadIs DEF Remap
  <2>4. CASE SetMap(token)
    BY <2>2, <2>4, LoadIs DEF SetMap
  <2>5. CASE SetSetting(token) \/ SetKwarg(token) \/ Unknown(token)
    BY <2>2, <2>5 DEF SetSetting, SetKwarg, Unknown, mapVars, Idle
  <2>6. QED
    BY <2>1, <2>3, <2>4, <2>5 DEF Execute
<1>2. CASE Edit
  BY <1>2 DEF Edit, mapVars, Idle
<1>3. CASE Stop \/ EndOfInput \/ Rest \/ UNCHANGED vars
  BY <1>3 DEF Stop, EndOfInput, Rest, vars, mapVars, Idle
<1>4. ASSUME NEW h \in Handlers, Lookup(h) PROVE Idle
  BY <1>4 DEF Lookup, Idle
<1>5. QED
  BY <1>1, <1>2, <1>3, <1>4 DEF Next

LEMMA RecordedHolds == Spec => []Recorded
<1>1. Init => Recorded
  <2> SUFFICES ASSUME Init PROVE Recorded
    OBVIOUS
  <2>1. disk \in [Paths -> Contents] /\ urlMapFile \in Paths
    BY DEF Init
  <2>2. loads = <<>> \/ loads = <<[path |-> urlMapFile, entries |-> disk[urlMapFile]]>>
    BY DEF Init
  <2>3. [path |-> urlMapFile, entries |-> disk[urlMapFile]] \in Record
    BY <2>1 DEF Record
  <2>4. loads \in Seq(Record)
    <3>1. \A r \in Record : <<r>> \in Seq(Record)
      OBVIOUS
    <3>2. <<>> \in Seq(Record)
      OBVIOUS
    <3>3. QED
      BY <2>2, <2>3, <3>1, <3>2
  <2>5. QED
    BY <2>1, <2>4 DEF Recorded
<1>2. Recorded /\ [Next]_vars => Recorded'
  <2> SUFFICES ASSUME Recorded, [Next]_vars PROVE Recorded'
    OBVIOUS
  <2>1. CASE Idle
    BY <2>1 DEF Recorded, Idle
  <2>2. ASSUME NEW file \in Paths, Reload(file) PROVE Recorded'
    <3>1. [path |-> file, entries |-> disk[file]] \in Record
      BY DEF Recorded, Record
    <3>2. QED
      BY <2>2, <3>1 DEF Recorded, Reload
  <2>3. QED
    BY <2>1, <2>2, ReloadOrIdle
<1>3. QED
  BY <1>1, <1>2, PTL DEF Spec

(* The URL map in use and the path that remap reads are always those of the  *)
(* last reload that worked, whatever failed in between (ServerParams.cpp:    *)
(* 21-22 assign both only when the whole file was taken).                    *)
THEOREM MapFollowsPath == Spec => []MapAndPath
<1>1. Init => MapAndPath
  <2> SUFFICES ASSUME Init, loads # <<>>
               PROVE  Last(loads) = [path |-> urlMapFile, entries |-> urlMap]
    BY DEF MapAndPath
  <2>1. loads = <<[path |-> urlMapFile, entries |-> urlMap]>>
    BY DEF Init
  <2>2. QED
    BY <2>1 DEF Last
<1>2. Recorded /\ MapAndPath /\ [Next]_vars => MapAndPath'
  <2> SUFFICES ASSUME Recorded, MapAndPath, [Next]_vars PROVE MapAndPath'
    OBVIOUS
  <2>1. CASE Idle
    BY <2>1 DEF MapAndPath, Idle, Last
  <2>2. ASSUME NEW file \in Paths, Reload(file) PROVE MapAndPath'
    <3>1. Last(loads') = [path |-> file, entries |-> disk[file]]
      BY <2>2 DEF Recorded, Reload, Last
    <3>2. QED
      BY <2>2, <3>1 DEF MapAndPath, Reload
  <2>3. QED
    BY <2>1, <2>2, ReloadOrIdle
<1>3. QED
  BY <1>1, <1>2, RecordedHolds, PTL DEF Spec

(* A failed reload leaves no trace among the allowed parameters, and a       *)
(* successful one adds those of the whole file (ServerParams.cpp:15-23).     *)
THEOREM AllowedFollowsLoads == Spec => []NoTrace
<1>1. Init => NoTrace
  <2> SUFFICES ASSUME Init PROVE NoTrace
    OBVIOUS
  <2>1. CASE loads = <<>>
    BY <2>1 DEF Init, NoTrace
  <2>2. CASE loads # <<>>
    <3>1. /\ loads = <<[path |-> urlMapFile, entries |-> urlMap]>>
          /\ allowed = Listed \cup ArgsOf(urlMap)
      BY <2>2 DEF Init
    <3>2. DOMAIN loads = {1} /\ loads[1].entries = urlMap
      BY <3>1
    <3>3. QED
      BY <3>1, <3>2 DEF NoTrace
  <2>3. QED
    BY <2>1, <2>2
<1>2. Recorded /\ NoTrace /\ [Next]_vars => NoTrace'
  <2> SUFFICES ASSUME Recorded, NoTrace, [Next]_vars PROVE NoTrace'
    OBVIOUS
  <2>1. CASE Idle
    BY <2>1 DEF NoTrace, Idle, ArgsOf
  <2>2. ASSUME NEW file \in Paths, Reload(file) PROVE NoTrace'
    <3> DEFINE n == Len(loads)
               all == UNION {ArgsOf(loads[i].entries) : i \in DOMAIN loads}
               all1 == UNION {ArgsOf(loads'[i].entries) : i \in DOMAIN loads'}
    <3>1. n \in Nat /\ DOMAIN loads = 1..n /\ DOMAIN loads' = 1..(n + 1)
      BY <2>2 DEF Recorded, Reload
    <3>2. \A i \in 1..n : loads'[i] = loads[i]
      BY <2>2, <3>1 DEF Recorded, Reload
    <3>3. loads'[n + 1].entries = disk[file]
      BY <2>2, <3>1 DEF Recorded, Reload
    <3>4. all1 = all \cup ArgsOf(disk[file])
      <4>1. ASSUME NEW x \in all1 PROVE x \in all \cup ArgsOf(disk[file])
        <5>1. PICK i \in 1..(n + 1) : x \in ArgsOf(loads'[i].entries)
          BY <4>1, <3>1
        <5>2. CASE i = n + 1
          BY <5>1, <5>2, <3>3
        <5>3. CASE i # n + 1
          <6>1. i \in 1..n
            BY <5>3, <3>1
          <6>2. QED
            BY <5>1, <6>1, <3>1, <3>2
        <5>4. QED
          BY <5>2, <5>3
      <4>2. ASSUME NEW x \in all PROVE x \in all1
        <5>1. PICK i \in 1..n : x \in ArgsOf(loads[i].entries)
          BY <4>2, <3>1
        <5>2. i \in 1..(n + 1)
          BY <3>1
        <5>3. QED
          BY <5>1, <5>2, <3>1, <3>2
      <4>3. n + 1 \in DOMAIN loads'
        BY <3>1
      <4>4. ArgsOf(disk[file]) \subseteq all1
        BY <4>3, <3>3
      <4>5. QED
        BY <4>1, <4>2, <4>4
    <3>5. allowed = Listed \cup all
      BY DEF NoTrace
    <3>6. QED
      <4>1. allowed' = Listed \cup all1
        BY <2>2, <3>4, <3>5 DEF Reload
      <4>2. QED
        BY <4>1 DEF NoTrace, ArgsOf, Listed, Settings, NumberKeys
  <2>3. QED
    BY <2>1, <2>2, ReloadOrIdle
<1>3. QED
  BY <1>1, <1>2, RecordedHolds, PTL DEF Spec

(* Offered: whatever was forwarded to the modules stays among what was       *)
(* given on the command line or is allowed, since no reload takes a          *)
(* parameter off the table, and no setting is ever forwarded.                *)
THEOREM ForwardedOffered == Spec => []Offered
<1>1. Init => Offered
  BY DEF Init, Offered
<1>2. Recorded /\ Offered /\ [Next]_vars => Offered'
  <2> SUFFICES ASSUME Recorded, Offered, [Next]_vars PROVE Offered'
    OBVIOUS
  <2>1. allowed \subseteq allowed'
    BY ReloadOrIdle DEF Idle, Reload
  <2>2. CASE DOMAIN kwargs' = DOMAIN kwargs
    BY <2>1, <2>2 DEF Offered
  <2>3. ASSUME NEW token, SetKwarg(token) PROVE Offered'
    <3>1. allowed' = allowed /\ token.key \notin Settings
      BY <2>3 DEF SetKwarg, mapVars
    <3>2. CASE Known(token.key)
      <4>1. DOMAIN kwargs' = DOMAIN kwargs \cup {token.key}
        BY <2>3, <3>2 DEF SetKwarg
      <4>2. token.key \in allowed
        BY <3>2 DEF Known
      <4>3. QED
        BY <3>1, <4>1, <4>2 DEF Offered
    <3>3. CASE ~Known(token.key)
      BY <2>2, <2>3, <3>3 DEF SetKwarg
    <3>4. QED
      BY <3>2, <3>3
  <2>4. CASE Command
    <3>1. PICK token : Execute(token)
      BY <2>4 DEF Command
    <3>2. CASE Remap(token) \/ SetMap(token) \/ SetSetting(token) \/ Unknown(token)
      BY <2>2, <3>2 DEF Remap, SetMap, SetSetting, Unknown, paramVars
    <3>3. QED
      BY <2>3, <3>1, <3>2 DEF Execute
  <2>5. CASE Stop \/ EndOfInput \/ Edit \/ Rest \/ UNCHANGED vars
    BY <2>2, <2>5 DEF Stop, EndOfInput, Edit, Rest, vars, paramVars
  <2>6. ASSUME NEW h \in Handlers, Lookup(h) PROVE Offered'
    BY <2>2, <2>6 DEF Lookup, paramVars
  <2>7. QED
    BY <2>4, <2>5, <2>6 DEF Next
<1>3. QED
  BY <1>1, <1>2, RecordedHolds, PTL DEF Spec
-----------------------------------------------------------------------------
(* Where a walk is in its vector, on which TypeOK rests.                     *)
Bounded ==
  /\ DOMAIN pc = Handlers /\ Len(urlMap) \in Nat
  /\ size \in [Handlers -> Nat] /\ index \in [Handlers -> Nat]
  /\ \A h \in Handlers : pc[h] \in {"compile", "match"} => index[h] <= size[h]
TypeInv == Recorded /\ TypeOK /\ Bounded

(* The entries of a readable file have parameters that may be allowed.       *)
LEMMA ReadableArgs ==
  ASSUME NEW content \in Contents, Readable(content)
  PROVE  Len(content) \in Nat /\ ArgsOf(content) \subseteq Listed \cup Names
<1>1. content \in Contents \ {Unreadable} /\ \A i \in DOMAIN content : content[i] # Bad
  BY DEF Readable
<1>2. /\ Len(content) \in Nat
      /\ \A i \in DOMAIN content : content[i].args \subseteq Listed \cup Names
  BY <1>1, ConfigConstants
<1>3. QED
  BY <1>2 DEF ArgsOf

LEMMA InitTypes == Init => TypeOK /\ Bounded
<1> SUFFICES ASSUME Init PROVE TypeOK /\ Bounded
  OBVIOUS
<1>1. /\ urlMapFile \in Paths /\ disk[urlMapFile] \in Contents
      /\ settings = [key \in Settings |-> None]
      /\ compiled = Uncompiled(urlMap)
      /\ pc = [h \in Handlers |-> "idle"]
      /\ size = [h \in Handlers |-> 0] /\ index = [h \in Handlers |-> 0]
  BY DEF Init
<1>2. Readable(urlMap) /\ Len(urlMap) \in Nat /\ Listed \subseteq allowed /\ allowed \subseteq Listed \cup Names
  <2>1. CASE Readable(disk[urlMapFile])
    <3>1. urlMap = disk[urlMapFile] /\ allowed = Listed \cup ArgsOf(disk[urlMapFile])
      BY <2>1 DEF Init
    <3>2. QED
      BY <1>1, <2>1, <3>1, ReadableArgs
  <2>2. CASE ~Readable(disk[urlMapFile])
    <3>1. urlMap = <<>> /\ allowed = Listed
      BY <2>2 DEF Init
    <3>2. QED
      BY <3>1, ConfigConstants DEF Readable
  <2>3. QED
    BY <2>1, <2>2
<1>3. DOMAIN settings = Settings /\ \A key \in NumberKeys : settings[key] \in Numbers \cup {None}
  BY <1>1 DEF Settings
<1>4. DOMAIN compiled = DOMAIN urlMap
  BY <1>1 DEF Uncompiled
<1>5. QED
  BY <1>1, <1>2, <1>3, <1>4 DEF TypeOK, Bounded

(* A load replaces the map and its compiled patterns together, or nothing.   *)
LEMMA LoadTypes ==
  ASSUME TypeInv, NEW file \in Paths, Load(file), UNCHANGED <<settings, handlerVars>>
  PROVE  TypeOK' /\ Bounded'
<1>1. CASE Readable(disk[file])
  <2>1. /\ urlMap' = disk[file] /\ compiled' = Uncompiled(disk[file])
        /\ urlMapFile' = file /\ allowed' = allowed \cup ArgsOf(disk[file])
    BY <1>1 DEF Load, Install
  <2>2. disk[file] \in Contents
    BY DEF TypeInv, Recorded
  <2>3. Len(disk[file]) \in Nat /\ ArgsOf(disk[file]) \subseteq Listed \cup Names
    BY <1>1, <2>2, ReadableArgs
  <2>4. Bounded'
    BY <2>1, <2>3 DEF TypeInv, Bounded, handlerVars
  <2>5. /\ Readable(urlMap') /\ Listed \subseteq allowed' /\ allowed' \subseteq Listed \cup Names
        /\ DOMAIN compiled' = DOMAIN urlMap'
    BY <1>1, <2>1, <2>3 DEF TypeInv, TypeOK, Uncompiled
  <2>6. QED
    BY <2>1, <2>4, <2>5 DEF TypeInv, TypeOK, handlerVars
<1>2. CASE ~Readable(disk[file])
  BY <1>2 DEF Load, mapVars, handlerVars, TypeInv, TypeOK, Bounded
<1>3. QED
  BY <1>1, <1>2

(* A setting takes what it accepts.                                          *)
LEMMA SettingTypes ==
  ASSUME TypeInv, NEW token, SetSetting(token), UNCHANGED handlerVars
  PROVE  TypeOK' /\ Bounded'
<1>1. UNCHANGED mapVars /\ token.key \in Settings
  BY DEF SetSetting
<1>2. DOMAIN settings' = Settings /\ \A key \in NumberKeys : settings'[key] \in Numbers \cup {None}
  <2>1. DOMAIN settings = Settings /\ \A key \in NumberKeys : settings[key] \in Numbers \cup {None}
    BY DEF TypeInv, TypeOK
  <2>2. CASE Accepts(token.key, token.value)
    <3>1. settings' = [settings EXCEPT ![token.key] = token.value]
      BY <2>2 DEF SetSetting
    <3>2. \A key \in Settings :
            settings'[key] = IF key = token.key THEN token.value ELSE settings[key]
      BY <2>1, <3>1
    <3>3. NumberKeys \subseteq Settings
      BY DEF Settings
    <3>4. QED
      BY <2>1, <2>2, <3>1, <3>2, <3>3 DEF Accepts
  <2>3. CASE ~Accepts(token.key, token.value)
    BY <2>1, <2>3 DEF SetSetting
  <2>4. QED
    BY <2>2, <2>3
<1>3. QED
  BY <1>1, <1>2 DEF mapVars, handlerVars, TypeInv, TypeOK, Bounded

(* A walk leaves its vector by no more than its end, and compiles in place.  *)
LEMMA LookupTypes ==
  ASSUME TypeInv, NEW h \in Handlers, Lookup(h)
  PROVE  TypeOK' /\ Bounded'
<1>1. UNCHANGED <<urlMap, urlMapFile, allowed, settings>>
  BY DEF Lookup, paramVars
<1>2. /\ DOMAIN pc = Handlers /\ Len(urlMap) \in Nat
      /\ size \in [Handlers -> Nat] /\ index \in [Handlers -> Nat]
      /\ \A g \in Handlers : pc[g] \in {"compile", "match"} => index[g] <= size[g]
      /\ \A g \in Handlers : index[g] <= size[g] + 1 \/ pc[g] = "lost"
      /\ DOMAIN compiled = DOMAIN urlMap
  BY DEF TypeInv, TypeOK, Bounded
<1> DEFINE Good == /\ DOMAIN pc' = Handlers
                   /\ size' \in [Handlers -> Nat] /\ index' \in [Handlers -> Nat]
                   /\ \A g \in Handlers : pc'[g] \in {"compile", "match"} => index'[g] <= size'[g]
                   /\ \A g \in Handlers : index'[g] <= size'[g] + 1 \/ pc'[g] = "lost"
                   /\ DOMAIN compiled' = DOMAIN urlMap
<1> SUFFICES Good
  BY <1>1, <1>2 DEF TypeInv, TypeOK, Bounded
<1>3. ASSUME Lose(h), UNCHANGED compiled PROVE Good
  BY <1>2, <1>3 DEF Lose, Goto
<1>4. CASE Look(h)
  BY <1>2, <1>4 DEF Look, Goto
<1>5. CASE Fallback(h)
  <2>1. CASE Lose(h)
    BY <1>3, <2>1 DEF Lose
  <2>2. CASE ~Lose(h)
    <3>1. /\ index' = [index EXCEPT ![h] = 1] /\ pc' = [pc EXCEPT ![h] = "copy"]
          /\ UNCHANGED <<size, compiled>>
      BY <1>5, <2>2 DEF Fallback, Goto, Default
    <3>2. index'[h] = 1 /\ \A g \in Handlers \ {h} : index'[g] = index[g]
      BY <1>2, <3>1
    <3>3. DOMAIN pc' = Handlers /\ pc'[h] = "copy" /\ \A g \in Handlers \ {h} : pc'[g] = pc[g]
      BY <1>2, <3>1
    <3>4. size[h] \in Nat /\ index' \in [Handlers -> Nat]
      BY <1>2, <3>1
    <3>5. \A g \in Handlers : index'[g] <= size'[g] + 1 \/ pc'[g] = "lost"
      BY <1>2, <3>1, <3>2, <3>3, <3>4
    <3>6. \A g \in Handlers : pc'[g] \in {"compile", "match"} => index'[g] <= size'[g]
      BY <1>2, <3>1, <3>2, <3>3
    <3>7. QED
      BY <1>2, <3>1, <3>3, <3>4, <3>5, <3>6
  <2>3. QED
    BY <2>1, <2>2
<1>6. CASE TakePattern(h)
  <2>1. CASE Freed(h)
    BY <1>3, <1>6, <2>1 DEF TakePattern, Lose
  <2>2. CASE ~Freed(h)
    <3>1. /\ index[h] <= size[h] /\ UNCHANGED <<size, index, compiled>>
          /\ \E label : pc' = [pc EXCEPT ![h] = label]
      BY <1>6, <2>2 DEF TakePattern, Goto
    <3>2. \A g \in Handlers \ {h} : pc'[g] = pc[g]
      BY <1>2, <3>1
    <3>3. DOMAIN pc' = Handlers
      BY <1>2, <3>1
    <3>4. index'[h] <= size'[h] /\ index'[h] <= size'[h] + 1
      BY <1>2, <3>1
    <3>5. QED
      BY <1>2, <3>1, <3>2, <3>3, <3>4
  <2>3. QED
    BY <2>1, <2>2
<1>7. CASE Compile(h)
  <2>1. CASE Freed(h)
    BY <1>3, <1>7, <2>1 DEF Compile, Lose
  <2>2. CASE ~Freed(h)
    <3>1. /\ pc[h] = "compile" /\ UNCHANGED <<size, index>>
          /\ \E label \in {"failed", "match"} : pc' = [pc EXCEPT ![h] = label]
          /\ compiled' = compiled \/ compiled' = [compiled EXCEPT ![index[h]] = h]
      BY <1>7, <2>2 DEF Compile, Goto, Step
    <3>2. index[h] <= size[h] /\ DOMAIN compiled' = DOMAIN compiled
      BY <1>2, <3>1
    <3>3. QED
      BY <1>2, <3>1, <3>2
  <2>3. QED
    BY <2>1, <2>2
<1>8. CASE Match(h)
  <2>1. CASE Freed(h) \/ using[h] # compiled[index[h]]
    BY <1>3, <1>8, <2>1 DEF Match, Lose
  <2>2. CASE ~(Freed(h) \/ using[h] # compiled[index[h]])
    <3>1. /\ pc[h] = "match" /\ UNCHANGED <<size, compiled>>
          /\ \/ pc' = [pc EXCEPT ![h] = "copy"] /\ index' = index
             \/ /\ index' = [index EXCEPT ![h] = index[h] + 1]
                /\ pc' = [pc EXCEPT ![h] = "loop"]
      BY <1>8, <2>2 DEF Match, Goto, Step
    <3>2. index[h] <= size[h] /\ index[h] \in Nat /\ size[h] \in Nat
      BY <1>2, <3>1
    <3>3. CASE pc' = [pc EXCEPT ![h] = "copy"] /\ index' = index
      BY <1>2, <3>1, <3>2, <3>3
    <3>4. CASE index' = [index EXCEPT ![h] = index[h] + 1] /\ pc' = [pc EXCEPT ![h] = "loop"]
      <4>1. index'[h] = index[h] + 1 /\ \A g \in Handlers \ {h} : index'[g] = index[g]
        BY <1>2, <3>4
      <4>2. DOMAIN pc' = Handlers /\ pc'[h] = "loop" /\ \A g \in Handlers \ {h} : pc'[g] = pc[g]
        BY <1>2, <3>4
      <4>3. index' \in [Handlers -> Nat]
        BY <1>2, <3>2, <3>4
      <4>4. \A g \in Handlers : index'[g] <= size'[g] + 1 \/ pc'[g] = "lost"
        BY <1>2, <3>1, <3>2, <4>1, <4>2
      <4>5. QED
        BY <1>2, <3>1, <4>1, <4>2, <4>3, <4>4
    <3>5. QED
      BY <3>1, <3>3, <3>4
  <2>3. QED
    BY <2>1, <2>2
<1>9. CASE Copy(h)
  <2>1. CASE Freed(h)
    BY <1>3, <1>9, <2>1 DEF Copy, Lose
  <2>2. CASE ~Freed(h)
    <3>1. /\ pc[h] = "copy" /\ UNCHANGED <<size, index, compiled>>
          /\ pc' = [pc EXCEPT ![h] = "found"]
      BY <1>9, <2>2 DEF Copy, Goto, Step
    <3>2. QED
      BY <1>2, <3>1
  <2>3. QED
    BY <2>1, <2>2
<1>10. QED
  BY <1>4, <1>5, <1>6, <1>7, <1>8, <1>9 DEF Lookup

(* TypeOK: no bad text ever becomes the value of a setting that is a number, *)
(* every pattern of the map has its place, and no walk goes beyond the end   *)
(* of its vector, whatever reloads and look-ups overlap.                     *)
THEOREM ConfigTypes == Spec => []TypeOK
<1>1. Init => TypeOK /\ Bounded
  BY InitTypes
<1>2. Recorded /\ TypeOK /\ Bounded /\ [Next]_vars => TypeOK' /\ Bounded'
  <2> SUFFICES ASSUME TypeInv, [Next]_vars PROVE TypeOK' /\ Bounded'
    BY DEF TypeInv
  <2>1. CASE Command
    <3>1. PICK token : Execute(token)
      BY <2>1 DEF Command
    <3>2. UNCHANGED handlerVars
      BY <2>1 DEF Command
    <3>3. CASE Remap(token)
      BY <3>2, <3>3, LoadTypes DEF Remap, paramVars, TypeInv, Recorded
    <3>4. CASE SetMap(token)
      BY <3>2, <3>4, LoadTypes DEF SetMap, paramVars
    <3>5. CASE SetSetting(token)
      BY <3>2, <3>5, SettingTypes
    <3>6. CASE SetKwarg(token) \/ Unknown(token)
      BY <3>2, <3>6 DEF SetKwarg, Unknown, mapVars, paramVars, handlerVars, TypeInv, TypeOK, Bounded
    <3>7. QED
      BY <3>1, <3>3, <3>4, <3>5, <3>6 DEF Execute
  <2>2. CASE Stop \/ EndOfInput \/ Edit \/ Rest \/ UNCHANGED vars
    BY <2>2 DEF Stop, EndOfInput, Edit, Rest, vars, mapVars, paramVars, handlerVars, TypeInv, TypeOK, Bounded
  <2>3. ASSUME NEW h \in Handlers, Lookup(h) PROVE TypeOK' /\ Bounded'
    BY <2>3, LookupTypes
  <2>4. QED
    BY <2>1, <2>2, <2>3 DEF Next
<1>3. QED
  BY <1>1, <1>2, RecordedHolds, PTL DEF Spec
-----------------------------------------------------------------------------
(***************************************************************************)
(* A handler runs the command of the first entry of the URL map that        *)
(* matches its path, for every URL map, every number of handlers and every  *)
(* order of commands, reloads and edits, as long as no reload and no other  *)
(* look-up comes between the steps of a look-up.                            *)
(***************************************************************************)

Labels == {"idle", "loop", "compile", "match", "copy", "found", "failed", "lost"}

(* The handlers' variables, and the URL map with its compiled patterns.      *)
Shaped ==
  /\ pc \in [Handlers -> Labels]
  /\ DOMAIN path = Handlers /\ DOMAIN vector = Handlers /\ DOMAIN size = Handlers
  /\ DOMAIN index = Handlers /\ DOMAIN using = Handlers /\ DOMAIN result = Handlers
Mapped ==
  /\ Len(urlMap) \in Nat /\ DOMAIN urlMap = 1 .. Len(urlMap)
  /\ DOMAIN compiled = DOMAIN urlMap
  /\ \A i \in DOMAIN urlMap : compiled[i] # None => urlMap[i].matches # Invalid
  /\ IF loads = <<>> THEN urlMap = <<>> ELSE urlMap = loads[Len(loads)].entries

(* What a look-up is to find in the entries of a URL map.                    *)
Stopping(p, entries) == {i \in DOMAIN entries : Stops(p, entries[i])}
Chosen(p, entries) == IF Stopping(p, entries) = {} THEN 1 ELSE Min(Stopping(p, entries))
Broken(p, entries) ==
  Stopping(p, entries) # {} /\ entries[Chosen(p, entries)].matches = Invalid
ServedBy(h) ==
  LET entries == loads[vector[h]].entries
  IN  /\ (pc[h] = "failed") = Broken(path[h], entries)
      /\ ~Broken(path[h], entries) => result[h] = entries[Chosen(path[h], entries)].command

(* Where a look-up is: it walks the URL map of now, has passed no entry that *)
(* stops it, and the pattern it matches with is the one that is there.       *)
Walked(h) ==
  /\ pc[h] \in {"loop", "compile", "match", "copy"} =>
       vector[h] = Len(loads) /\ size[h] = Len(urlMap)
  /\ pc[h] \in {"loop", "compile", "match"} =>
       /\ index[h] \in 1 .. size[h] + 1
       /\ \A i \in 1 .. index[h] - 1 : ~Stops(path[h], urlMap[i])
  /\ pc[h] \in {"compile", "match"} => index[h] <= size[h]
  /\ pc[h] = "match" =>
       using[h] = compiled[index[h]] /\ urlMap[index[h]].matches # Invalid
  /\ pc[h] = "copy" =>
       /\ index[h] \in DOMAIN urlMap /\ index[h] = Chosen(path[h], urlMap)
       /\ ~Broken(path[h], urlMap)
  /\ pc[h] = "lost" => size[h] = 0
  /\ pc[h] \in {"found", "failed"} => vector[h] \in 1 .. Len(loads) /\ ServedBy(h)

Alone == \A g, h \in Handlers : Walking(g) /\ Walking(h) => g = h

WalkInv == Recorded /\ Shaped /\ Mapped /\ Alone /\ \A h \in Handlers : Walked(h)

-----------------------------------------------------------------------------
(* The first entry that stops a look-up.                                     *)
LEMMA LeastIs ==
  ASSUME NEW S \in SUBSET Nat, NEW x \in S, \A y \in S : x <= y
  PROVE  Min(S) = x
  <1>1. \A z \in S : (\A y \in S : z <= y) => z = x
    BY SMT
  <1> QED BY <1>1 DEF Min

LEMMA ChosenIs ==
  ASSUME Mapped, NEW p, NEW i \in DOMAIN urlMap, Stops(p, urlMap[i]),
         \A k \in 1 .. i - 1 : ~Stops(p, urlMap[k])
  PROVE  Stopping(p, urlMap) # {} /\ Chosen(p, urlMap) = i
  <1> DEFINE S == Stopping(p, urlMap)
  <1>1. S \in SUBSET Nat /\ i \in S
    BY DEF Stopping, Mapped
  <1>2. \A y \in S : i <= y
    <2> TAKE y \in S
    <2>1. y \in Nat /\ i \in Nat /\ y \in 1 .. Len(urlMap) /\ Stops(p, urlMap[y])
      BY DEF Stopping, Mapped
    <2> QED BY <2>1
  <1> HIDE DEF S
  <1>3. S # {} /\ Min(S) = i
    BY <1>1, <1>2, LeastIs
  <1> QED BY <1>3 DEF Chosen, S

LEMMA ChosenNone ==
  ASSUME Mapped, NEW p, \A k \in 1 .. Len(urlMap) : ~Stops(p, urlMap[k])
  PROVE  Stopping(p, urlMap) = {} /\ Chosen(p, urlMap) = 1 /\ ~Broken(p, urlMap)
  BY DEF Mapped, Stopping, Chosen, Broken
-----------------------------------------------------------------------------
(* What a step of anybody but a handler does to what look-ups see: nothing,  *)
(* or a new URL map while nobody looks.                                      *)
Steady == UNCHANGED <<urlMap, compiled, loads, handlerVars>>
Replace ==
  /\ \A h \in Handlers : ~Walking(h)
  /\ UNCHANGED handlerVars
  /\ \E file \in Paths :
       /\ Readable(disk[file])
       /\ urlMap' = disk[file] /\ compiled' = Uncompiled(disk[file])
       /\ loads' = Append(loads, [path |-> file, entries |-> disk[file]])

LEMMA LoadKinds ==
  ASSUME ~Overlap, NEW file \in Paths, Load(file), UNCHANGED handlerVars
  PROVE  Steady \/ Replace
<1>1. CASE Readable(disk[file])
  <2>1. Install(file)
    BY <1>1 DEF Load
  <2>2. \A h \in Handlers : ~Walking(h)
    BY <2>1 DEF Install, Quiet
  <2> QED BY <1>1, <2>1, <2>2 DEF Install, Replace
<1>2. CASE ~Readable(disk[file])
  BY <1>2 DEF Load, mapVars, Steady
<1> QED BY <1>1, <1>2

LEMMA StepKinds ==
  ASSUME ~Overlap, Recorded, [Next]_vars
  PROVE  Steady \/ Replace \/ \E h \in Handlers : Lookup(h)
<1>1. CASE Command
  <2>1. PICK token : Execute(token)
    BY <1>1 DEF Command
  <2>2. UNCHANGED handlerVars
    BY <1>1 DEF Command
  <2>3. CASE Remap(token)
    BY <2>2, <2>3, LoadKinds DEF Remap, Recorded
  <2>4. CASE SetMap(token)
    BY <2>2, <2>4, LoadKinds DEF SetMap
  <2>5. CASE SetSetting(token) \/ SetKwarg(token) \/ Unknown(token)
    BY <2>2, <2>5 DEF SetSetting, SetKwarg, Unknown, mapVars, Steady
  <2> QED BY <2>1, <2>3, <2>4, <2>5 DEF Execute
<1>2. CASE Stop \/ EndOfInput \/ Edit \/ Rest \/ UNCHANGED vars
  BY <1>2 DEF Stop, EndOfInput, Edit, Rest, vars, mapVars, Steady
<1> QED BY <1>1, <1>2 DEF Next

(* Initially nobody looks.                                                   *)
LEMMA InitWalk == Init => Shaped /\ Mapped /\ Alone /\ \A h \in Handlers : Walked(h)
  <1> SUFFICES ASSUME Init PROVE Shaped /\ Mapped /\ Alone /\ \A h \in Handlers : Walked(h)
    OBVIOUS
  <1>1. Shaped
    BY DEF Init, Shaped, Labels
  <1>2. Mapped
    <2>1. disk[urlMapFile] \in Contents
      BY DEF Init
    <2>2. CASE Readable(disk[urlMapFile])
      <3>1. /\ urlMap = disk[urlMapFile] /\ disk[urlMapFile] # Unreadable
            /\ loads = <<[path |-> urlMapFile, entries |-> urlMap]>>
        BY <2>2 DEF Init, Readable
      <3>2. Len(urlMap) \in Nat /\ DOMAIN urlMap = 1 .. Len(urlMap)
        BY <2>1, <3>1, ConfigConstants
      <3>3. loads # <<>> /\ Len(loads) = 1 /\ loads[1].entries = urlMap
        BY <3>1
      <3>4. compiled = Uncompiled(urlMap)
        BY DEF Init
      <3> QED BY <3>2, <3>3, <3>4 DEF Mapped, Uncompiled
    <2>3. CASE ~Readable(disk[urlMapFile])
      <3>1. urlMap = <<>> /\ loads = <<>> /\ compiled = Uncompiled(urlMap)
        BY <2>3 DEF Init
      <3> QED BY <3>1 DEF Mapped, Uncompiled
    <2> QED BY <2>2, <2>3
  <1>3. \A h \in Handlers : pc[h] = "idle"
    BY DEF Init
  <1> QED BY <1>1, <1>2, <1>3 DEF Alone, Walked, Walking

(* A new URL map, while nobody looks.                                        *)
LEMMA ReplaceStep ==
  ASSUME WalkInv, Replace
  PROVE  Shaped' /\ Mapped' /\ Alone' /\ \A h \in Handlers : Walked(h)'
  <1>1. PICK file \in Paths :
          /\ Readable(disk[file])
          /\ urlMap' = disk[file] /\ compiled' = Uncompiled(disk[file])
          /\ loads' = Append(loads, [path |-> file, entries |-> disk[file]])
    BY DEF Replace
  <1>2. /\ loads \in Seq(Record) /\ disk[file] \in Contents /\ disk[file] # Unreadable
    BY <1>1 DEF WalkInv, Recorded, Readable
  <1> DEFINE n == Len(loads)
             new == [path |-> file, entries |-> disk[file]]
  <1>3. new \in Record
    BY <1>2 DEF Record
  <1>4. /\ n \in Nat /\ Len(loads') = n + 1 /\ loads' # <<>>
        /\ loads'[n + 1] = new /\ \A i \in 1 .. n : loads'[i] = loads[i]
    BY <1>1, <1>2, <1>3
  <1>5. Mapped'
    <2>1. Len(disk[file]) \in Nat /\ DOMAIN disk[file] = 1 .. Len(disk[file])
      BY <1>2, ConfigConstants
    <2>2. compiled' = [i \in DOMAIN urlMap' |-> None]
      BY <1>1 DEF Uncompiled
    <2>3. loads'[Len(loads')].entries = urlMap'
      BY <1>1, <1>4
    <2> QED BY <1>1, <1>4, <2>1, <2>2, <2>3 DEF Mapped
  <1>6. UNCHANGED <<pc, path, vector, size, index, using, result>>
        /\ \A h \in Handlers : ~Walking(h)
    BY DEF Replace, handlerVars
  <1>7. ASSUME NEW h \in Handlers PROVE Walked(h)'
    <2>1. Walked(h) /\ pc[h] \notin {"loop", "compile", "match", "copy"}
      BY <1>6 DEF WalkInv, Walking
    <2>2. CASE pc[h] \in {"found", "failed"}
      <3>1. vector[h] \in 1 .. n /\ ServedBy(h)
        BY <2>1, <2>2 DEF Walked
      <3>2. vector'[h] \in 1 .. Len(loads') /\ loads'[vector'[h]] = loads[vector[h]]
        BY <1>4, <1>6, <3>1
      <3>3. ServedBy(h)'
        BY <1>6, <3>1, <3>2 DEF ServedBy
      <3> QED BY <1>6, <2>1, <2>2, <3>2, <3>3 DEF Walked
    <2>3. CASE pc[h] \notin {"found", "failed"}
      BY <1>6, <2>1, <2>3 DEF Walked
    <2> QED BY <2>2, <2>3
  <1>8. Shaped' /\ Alone'
    BY <1>6 DEF WalkInv, Shaped, Alone, Walking
  <1> QED BY <1>5, <1>7, <1>8

(* Nothing that look-ups see.                                                *)
LEMMA SteadyStep ==
  ASSUME WalkInv, Steady
  PROVE  Shaped' /\ Mapped' /\ Alone' /\ \A h \in Handlers : Walked(h)'
<1>1. UNCHANGED <<urlMap, compiled, loads, pc, path, vector, size, index, using, result>>
  BY DEF Steady, handlerVars
<1>2. Shaped' /\ Mapped' /\ Alone'
  BY <1>1 DEF WalkInv, Shaped, Mapped, Alone, Walking
<1>3. ASSUME NEW h \in Handlers PROVE Walked(h)'
  <2>1. Walked(h)
    BY DEF WalkInv
  <2> QED BY <1>1, <2>1 DEF Walked, ServedBy
<1> QED BY <1>2, <1>3
-----------------------------------------------------------------------------
(* The steps of a look-up.  Everybody else rests, and stays as he is.        *)
Rests(g) ==
  /\ ~Walking(g)
  /\ pc'[g] = pc[g] /\ path'[g] = path[g] /\ vector'[g] = vector[g]
  /\ size'[g] = size[g] /\ result'[g] = result[g]

LEMMA RestsWalked ==
  ASSUME WalkInv, NEW g \in Handlers, Rests(g), loads' = loads
  PROVE  ~Walking(g)' /\ Walked(g)'
<1>1. Walked(g) /\ pc[g] \notin {"loop", "compile", "match", "copy"}
  BY DEF WalkInv, Rests, Walking
<1>2. ~Walking(g)'
  BY <1>1 DEF Rests, Walking
<1>3. ServedBy(g) => ServedBy(g)'
  BY DEF Rests, ServedBy
<1> QED BY <1>1, <1>2, <1>3 DEF Rests, Walked

LEMMA OthersRest ==
  ASSUME WalkInv, ~Overlap, NEW h \in Handlers, Lookup(h)
  PROVE  \A g \in Handlers \ {h} : Rests(g)
<1> SUFFICES ASSUME NEW g \in Handlers \ {h} PROVE Rests(g)
  OBVIOUS
<1>1. ~Walking(g)
  <2>1. CASE Look(h)
    BY <2>1 DEF Look, Quiet
  <2>2. CASE ~Look(h)
    <3>1. Walking(h)
      BY <2>2 DEF Lookup, Fallback, TakePattern, Compile, Match, Copy, Step, Walking
    <3> QED BY <3>1 DEF WalkInv, Alone
  <2> QED BY <2>1, <2>2
<1>2. pc \in [Handlers -> Labels] /\ DOMAIN path = Handlers /\ DOMAIN vector = Handlers
      /\ DOMAIN size = Handlers /\ DOMAIN result = Handlers
  BY DEF WalkInv, Shaped
<1>3. pc'[g] = pc[g]
  BY <1>2 DEF Lookup, Look, Fallback, TakePattern, Compile, Match, Copy, Goto, Lose
<1>4. path'[g] = path[g] /\ vector'[g] = vector[g]
  BY <1>2 DEF Lookup, Look, Fallback, TakePattern, Compile, Match, Copy, Lose
<1>5. size'[g] = size[g] /\ result'[g] = result[g]
  BY <1>2 DEF Lookup, Look, Fallback, TakePattern, Compile, Match, Copy, Lose
<1> QED BY <1>1, <1>3, <1>4, <1>5 DEF Rests

LEMMA LookupShaped ==
  ASSUME WalkInv, NEW h \in Handlers, Lookup(h)
  PROVE  Shaped'
<1>1. Shaped
  BY DEF WalkInv
<1>2. pc' \in [Handlers -> Labels]
  <2>1. \E label \in Labels : pc' = [pc EXCEPT ![h] = label]
    BY DEF Lookup, Look, Fallback, TakePattern, Compile, Match, Copy, Goto, Lose, Labels
  <2> QED BY <1>1, <2>1 DEF Shaped
<1>3. DOMAIN path' = DOMAIN path /\ DOMAIN vector' = DOMAIN vector
  BY DEF Lookup, Look, Fallback, TakePattern, Compile, Match, Copy, Lose
<1>4. DOMAIN size' = DOMAIN size /\ DOMAIN index' = DOMAIN index
  BY DEF Lookup, Look, Fallback, TakePattern, Compile, Match, Copy, Lose
<1>5. DOMAIN using' = DOMAIN using /\ DOMAIN result' = DOMAIN result
  BY DEF Lookup, Look, Fallback, TakePattern, Compile, Match, Copy, Lose
<1> QED BY <1>1, <1>2, <1>3, <1>4, <1>5 DEF Shaped

(* The one who looks: one lemma for each of his steps.                       *)
Alike == UNCHANGED <<urlMap, loads>>

LEMMA LookWalked ==
  ASSUME WalkInv, Alike, NEW h \in Handlers, Look(h)
  PROVE  Walked(h)' /\ Mapped'
<1>1. Shaped /\ Mapped
  BY DEF WalkInv
<1>2. /\ pc'[h] = "loop" /\ vector'[h] = Len(loads) /\ size'[h] = Len(urlMap)
      /\ index'[h] = 1 /\ compiled' = compiled
  BY <1>1 DEF Look, Goto, Shaped
<1>3. Mapped'
  BY <1>1, <1>2 DEF Alike, Mapped
<1>4. 1 \in 1 .. Len(urlMap) + 1 /\ 1 .. 1 - 1 = {}
  BY <1>1 DEF Mapped
<1> QED BY <1>2, <1>3, <1>4 DEF Alike, Walked

LEMMA FallbackWalked ==
  ASSUME WalkInv, Alike, NEW h \in Handlers, Fallback(h)
  PROVE  Walked(h)' /\ Mapped'
<1>1. Shaped /\ Mapped /\ Walked(h) /\ pc[h] = "loop"
  BY DEF WalkInv, Fallback, Step
<1>2. /\ vector[h] = Len(loads) /\ size[h] = Len(urlMap) /\ index[h] = Len(urlMap) + 1
      /\ \A i \in 1 .. Len(urlMap) : ~Stops(path[h], urlMap[i])
  <2>1. Len(urlMap) \in Nat
    BY <1>1 DEF Mapped
  <2>2. /\ vector[h] = Len(loads) /\ size[h] = Len(urlMap) /\ index[h] \in 1 .. size[h] + 1
        /\ \A i \in 1 .. index[h] - 1 : ~Stops(path[h], urlMap[i])
    BY <1>1 DEF Walked
  <2>3. index[h] = Len(urlMap) + 1
    BY <2>1, <2>2 DEF Fallback
  <2>4. index[h] - 1 = Len(urlMap)
    BY <2>1, <2>3
  <2> QED BY <2>2, <2>3, <2>4
<1>3. CASE urlMap = <<>>
  <2>1. pc'[h] = "lost" /\ size'[h] = size[h] /\ compiled' = compiled
    BY <1>1, <1>3 DEF Fallback, Lose, Goto, Shaped
  <2>2. size[h] = 0
    BY <1>2, <1>3
  <2> QED BY <1>1, <2>1, <2>2 DEF Alike, Walked, Mapped
<1>4. CASE urlMap # <<>>
  <2>1. /\ pc'[h] = "copy" /\ vector'[h] = Len(loads) /\ size'[h] = size[h]
        /\ index'[h] = 1 /\ path' = path /\ compiled' = compiled
    BY <1>1, <1>4 DEF Fallback, Goto, Shaped, Default
  <2>2. 1 \in DOMAIN urlMap
    <3>1. loads # <<>> /\ Len(urlMap) \in Nat /\ DOMAIN urlMap = 1 .. Len(urlMap)
      BY <1>1, <1>4 DEF Mapped
    <3> QED BY <3>1, <1>4
  <2>3. Chosen(path[h], urlMap) = 1 /\ ~Broken(path[h], urlMap)
    BY <1>1, <1>2, ChosenNone
  <2> QED BY <1>1, <1>2, <2>1, <2>2, <2>3 DEF Alike, Walked, Mapped
<1> QED BY <1>3, <1>4

LEMMA TakeWalked ==
  ASSUME WalkInv, Alike, NEW h \in Handlers, TakePattern(h)
  PROVE  Walked(h)' /\ Mapped'
<1>1. Shaped /\ Mapped /\ Walked(h) /\ pc[h] = "loop"
  BY DEF WalkInv, TakePattern, Step
<1>2. /\ vector[h] = Len(loads) /\ size[h] = Len(urlMap) /\ index[h] \in 1 .. size[h] + 1
      /\ \A i \in 1 .. index[h] - 1 : ~Stops(path[h], urlMap[i])
  BY <1>1 DEF Walked
<1>3. index[h] <= size[h] /\ ~Freed(h)
  BY <1>2 DEF TakePattern, Freed
<1>4. UNCHANGED <<path, vector, size, index, compiled, result>>
  BY <1>3 DEF TakePattern
<1>5. Mapped'
  BY <1>1, <1>4 DEF Alike, Mapped
<1>6. index[h] \in DOMAIN urlMap
  BY <1>1, <1>2, <1>3 DEF Mapped
<1>7. CASE compiled[index[h]] = None
  <2>1. pc'[h] = "compile"
    BY <1>1, <1>3, <1>7 DEF TakePattern, Goto, Shaped
  <2> QED BY <1>2, <1>3, <1>4, <1>5, <2>1 DEF Alike, Walked
<1>8. CASE compiled[index[h]] # None
  <2>1. pc'[h] = "match" /\ using'[h] = compiled[index[h]]
    BY <1>1, <1>3, <1>8 DEF TakePattern, Goto, Shaped
  <2>2. urlMap[index[h]].matches # Invalid
    BY <1>1, <1>6, <1>8 DEF Mapped
  <2> QED BY <1>2, <1>3, <1>4, <1>5, <2>1, <2>2 DEF Alike, Walked
<1> QED BY <1>7, <1>8

LEMMA CompileWalked ==
  ASSUME WalkInv, Alike, NEW h \in Handlers, Compile(h)
  PROVE  Walked(h)' /\ Mapped'
<1>1. Shaped /\ Mapped /\ Walked(h) /\ pc[h] = "compile"
  BY DEF WalkInv, Compile, Step
<1>2. /\ vector[h] = Len(loads) /\ size[h] = Len(urlMap) /\ index[h] \in 1 .. size[h] + 1
      /\ index[h] <= size[h]
      /\ \A i \in 1 .. index[h] - 1 : ~Stops(path[h], urlMap[i])
  BY <1>1 DEF Walked
<1>3. index[h] \in DOMAIN urlMap /\ ~Freed(h)
  BY <1>1, <1>2 DEF Mapped, Freed
<1>4. UNCHANGED <<path, vector, size, index, result>>
  BY <1>3 DEF Compile
<1>5. CASE urlMap[index[h]].matches = Invalid
  <2>1. pc'[h] = "failed" /\ compiled' = compiled
    BY <1>1, <1>3, <1>5 DEF Compile, Goto, Shaped
  <2>2. Stopping(path[h], urlMap) # {} /\ Chosen(path[h], urlMap) = index[h]
    BY <1>1, <1>2, <1>3, <1>5, ChosenIs DEF Stops
  <2>3. Broken(path[h], urlMap)
    BY <1>5, <2>2 DEF Broken
  <2>4. urlMap = loads[Len(loads)].entries /\ loads # <<>>
    BY <1>1, <1>3 DEF Mapped
  <2>5. Len(loads) \in 1 .. Len(loads)
    BY <2>4 DEF WalkInv, Recorded
  <2>6. ServedBy(h)'
    BY <1>2, <1>4, <2>1, <2>3, <2>4 DEF Alike, ServedBy
  <2>7. Mapped'
    BY <1>1, <2>1 DEF Alike, Mapped
  <2> QED BY <1>2, <1>4, <2>1, <2>5, <2>6, <2>7 DEF Alike, Walked
<1>6. CASE urlMap[index[h]].matches # Invalid
  <2>1. /\ pc'[h] = "match" /\ using'[h] = h
        /\ compiled' = [compiled EXCEPT ![index[h]] = h]
    BY <1>1, <1>3, <1>6 DEF Compile, Goto, Shaped
  <2>2. DOMAIN compiled = DOMAIN urlMap
    BY <1>1 DEF Mapped
  <2>3. compiled'[index[h]] = h
    BY <1>3, <2>1, <2>2
  <2>4. Mapped'
    <3>1. \A i \in DOMAIN urlMap' : compiled'[i] # None => urlMap'[i].matches # Invalid
      BY <1>1, <1>6, <2>1, <2>2 DEF Alike, Mapped
    <3> QED BY <1>1, <2>1, <2>2, <3>1 DEF Alike, Mapped
  <2> QED BY <1>2, <1>4, <1>6, <2>1, <2>3, <2>4 DEF Alike, Walked
<1> QED BY <1>5, <1>6

LEMMA MatchWalked ==
  ASSUME WalkInv, Alike, NEW h \in Handlers, Match(h)
  PROVE  Walked(h)' /\ Mapped'
<1>1. Shaped /\ Mapped /\ Walked(h) /\ pc[h] = "match"
  BY DEF WalkInv, Match, Step
<1>2. /\ vector[h] = Len(loads) /\ size[h] = Len(urlMap) /\ index[h] \in 1 .. size[h] + 1
      /\ index[h] <= size[h] /\ using[h] = compiled[index[h]]
      /\ urlMap[index[h]].matches # Invalid
      /\ \A i \in 1 .. index[h] - 1 : ~Stops(path[h], urlMap[i])
  BY <1>1 DEF Walked
<1>3. index[h] \in DOMAIN urlMap /\ ~Freed(h)
  BY <1>1, <1>2 DEF Mapped, Freed
<1>4. UNCHANGED <<path, vector, size, using, compiled, result>>
  BY <1>2, <1>3 DEF Match
<1>5. Mapped'
  BY <1>1, <1>4 DEF Alike, Mapped
<1>6. CASE path[h] \in urlMap[index[h]].matches
  <2>1. pc'[h] = "copy" /\ index' = index
    BY <1>1, <1>2, <1>3, <1>6 DEF Match, Goto, Shaped
  <2>2. Stopping(path[h], urlMap) # {} /\ Chosen(path[h], urlMap) = index[h]
    BY <1>1, <1>2, <1>3, <1>6, ChosenIs DEF Stops
  <2>3. ~Broken(path[h], urlMap)
    BY <1>2, <2>2 DEF Broken
  <2> QED BY <1>2, <1>3, <1>4, <1>5, <2>1, <2>2, <2>3 DEF Alike, Walked
<1>7. CASE path[h] \notin urlMap[index[h]].matches
  <2>1. pc'[h] = "loop" /\ index'[h] = index[h] + 1
    BY <1>1, <1>2, <1>3, <1>7 DEF Match, Goto, Shaped
  <2>2. Len(urlMap) \in Nat
    BY <1>1 DEF Mapped
  <2>3. ~Stops(path[h], urlMap[index[h]])
    BY <1>2, <1>7 DEF Stops
  <2>4. \A i \in 1 .. index'[h] - 1 : ~Stops(path[h], urlMap[i])
    BY <1>2, <2>1, <2>2, <2>3
  <2>5. index'[h] \in 1 .. size'[h] + 1
    BY <1>2, <1>4, <2>1, <2>2
  <2> QED BY <1>2, <1>4, <1>5, <2>1, <2>4, <2>5 DEF Alike, Walked
<1> QED BY <1>6, <1>7

LEMMA CopyWalked ==
  ASSUME WalkInv, Alike, NEW h \in Handlers, Copy(h)
  PROVE  Walked(h)' /\ Mapped'
<1>1. Shaped /\ Mapped /\ Walked(h) /\ pc[h] = "copy"
  BY DEF WalkInv, Copy, Step
<1>2. /\ vector[h] = Len(loads) /\ index[h] \in DOMAIN urlMap
      /\ index[h] = Chosen(path[h], urlMap) /\ ~Broken(path[h], urlMap)
  BY <1>1 DEF Walked
<1>3. /\ pc'[h] = "found" /\ result'[h] = urlMap[index[h]].command
      /\ UNCHANGED <<path, vector, size, compiled>>
  BY <1>1, <1>2 DEF Copy, Freed, Goto, Shaped
<1>4. urlMap = loads[Len(loads)].entries /\ loads # <<>>
  BY <1>1, <1>2 DEF Mapped
<1>5. Len(loads) \in 1 .. Len(loads)
  BY <1>4 DEF WalkInv, Recorded
<1>6. ServedBy(h)'
  BY <1>2, <1>3, <1>4 DEF Alike, ServedBy, Broken
<1>7. Mapped'
  BY <1>1, <1>3 DEF Alike, Mapped
<1> QED BY <1>2, <1>3, <1>5, <1>6, <1>7 DEF Alike, Walked

LEMMA LookupStep ==
  ASSUME WalkInv, ~Overlap, NEW h \in Handlers, Lookup(h)
  PROVE  Shaped' /\ Mapped' /\ Alone' /\ \A g \in Handlers : Walked(g)'
<1>1. Alike
  BY DEF Lookup, Alike
<1>2. Walked(h)' /\ Mapped'
  BY <1>1, LookWalked, FallbackWalked, TakeWalked, CompileWalked, MatchWalked, CopyWalked
     DEF Lookup
<1>3. \A g \in Handlers \ {h} : ~Walking(g)' /\ Walked(g)'
  BY <1>1, OthersRest, RestsWalked DEF Alike
<1>4. Alone'
  BY <1>3 DEF Alone
<1>5. Shaped'
  BY LookupShaped
<1> QED BY <1>2, <1>3, <1>4, <1>5
-----------------------------------------------------------------------------
LEMMA WalkServed == WalkInv => Served
<1> SUFFICES ASSUME WalkInv, NEW h \in Handlers
             PROVE  /\ pc[h] = "lost" => size[h] = 0
                    /\ pc[h] \in {"found", "failed"} =>
                         LET entries == loads[vector[h]].entries
                             stops == {i \in DOMAIN entries : Stops(path[h], entries[i])}
                             first == entries[IF stops = {} THEN 1 ELSE Min(stops)]
                             failed == stops # {} /\ first.matches = Invalid
                         IN  (pc[h] = "failed") = failed /\ (~failed => result[h] = first.command)
  BY DEF Served
<1>1. Walked(h)
  BY DEF WalkInv
<1> QED BY <1>1 DEF Walked, ServedBy, Broken, Chosen, Stopping

(* A handler that is left alone runs the command of the first entry whose    *)
(* pattern matches its path, or else of the first entry, and fails only on a *)
(* pattern that is no regex before that (Server.cpp:42-50): nothing of an    *)
(* earlier look-up or of an earlier URL map, patterns compiled then          *)
(* included, shows in the answer.                                            *)
THEOREM RightCommand ==
  ASSUME ~Overlap
  PROVE  Spec => []Served
<1> DEFINE All == \A h \in Handlers : Walked(h)
<1>1. Init => Shaped /\ Mapped /\ Alone /\ All
  BY InitWalk
<1>2. Recorded /\ Shaped /\ Mapped /\ Alone /\ All /\ Recorded' /\ [Next]_vars
      => Shaped' /\ Mapped' /\ Alone' /\ All'
  <2> SUFFICES ASSUME WalkInv, [Next]_vars
               PROVE  Shaped' /\ Mapped' /\ Alone' /\ All'
    BY DEF WalkInv
  <2>1. Steady \/ Replace \/ \E h \in Handlers : Lookup(h)
    BY StepKinds DEF WalkInv
  <2> QED BY <2>1, SteadyStep, ReplaceStep, LookupStep
<1>3. Recorded /\ Shaped /\ Mapped /\ Alone /\ All => Served
  BY WalkServed DEF WalkInv
<1> HIDE DEF All
<1> QED BY <1>1, <1>2, <1>3, RecordedHolds, PTL DEF Spec
=============================================================================
