---------------------------- MODULE ModuleAnswer ----------------------------
(***************************************************************************)
(* What the server promises about the answer of a module: its client        *)
(* receives the bytes the module's output stands for, in order, and is told *)
(* that they are complete only when it has all of them.  An answer may      *)
(* break off at any time.  Nothing is promised of output that is not steady *)
(* once it was garbled, which happens before anything is sent of it.        *)
(***************************************************************************)
EXTENDS Naturals, SequencesExt

VARIABLES
  promise,   (* the body that the output of the module stands for            *)
  steady,    (* may the output not be garbled?                               *)
  received,  (* what the client has received of it                           *)
  outcome    (* "open", "complete", "broken" or "garbled"                    *)

vars == <<promise, steady, received, outcome>>

Init == received = <<>> /\ outcome = "open"

Receive ==
  /\ outcome = "open"
  /\ \E n \in Len(received) + 1 .. Len(promise) : received' = SubSeq(promise, 1, n)
  /\ UNCHANGED <<promise, steady, outcome>>

Complete ==
  /\ outcome = "open" /\ received = promise
  /\ outcome' = "complete"
  /\ UNCHANGED <<promise, steady, received>>

Break ==
  /\ outcome = "open"
  /\ outcome' = "broken"
  /\ UNCHANGED <<promise, steady, received>>

Garble ==
  /\ outcome = "open" /\ ~steady /\ received = <<>>
  /\ outcome' = "garbled"
  /\ UNCHANGED <<promise, steady, received>>

Stray ==
  /\ outcome = "garbled"
  /\ UNCHANGED <<promise, steady, outcome>>

Next == Receive \/ Complete \/ Break \/ Garble \/ Stray

Spec == Init /\ [][Next]_vars
=============================================================================
