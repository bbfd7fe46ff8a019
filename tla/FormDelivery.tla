---------------------------- MODULE FormDelivery ----------------------------
(***************************************************************************)
(* What the parser of multipart form data promises: the items of the form  *)
(* arrive one after the other, each with its own content, and the form is  *)
(* complete only when all of them have arrived.  A form may be given up at *)
(* any time, and the parser may go astray: from then on it promises no more *)
(* than that the items it has delivered stay as they are.                  *)
(***************************************************************************)
EXTENDS Naturals, SequencesExt

CONSTANT Contents   (* what an item may contain                             *)

VARIABLES
  form,     (* the contents of the items sent                               *)
  cut,      (* does the stream end within the form?                         *)
  arrived,  (* the contents of the items that were delivered                *)
  outcome   (* "open", "complete", "givenUp" or "astray"                    *)

vars == <<form, cut, arrived, outcome>>

Init ==
  /\ form \in Seq(Contents) /\ cut \in BOOLEAN
  /\ arrived = <<>> /\ outcome = "open"

(* The next item, whole; of a stream that ends within the form, perhaps    *)
(* only the beginning of it.                                                *)
Arrive ==
  /\ outcome = "open" /\ Len(arrived) < Len(form)
  /\ LET whole == form[Len(arrived) + 1]
     IN  \E n \in 0 .. Len(whole) :
           /\ n = Len(whole) \/ cut
           /\ arrived' = Append(arrived, SubSeq(whole, 1, n))
  /\ UNCHANGED <<form, cut, outcome>>

Complete ==
  /\ outcome = "open" /\ arrived = form
  /\ outcome' = "complete"
  /\ UNCHANGED <<form, cut, arrived>>

GiveUp ==
  /\ outcome = "open"
  /\ outcome' = "givenUp"
  /\ UNCHANGED <<form, cut, arrived>>

Stray ==
  /\ outcome = "open"
  /\ outcome' = "astray"
  /\ UNCHANGED <<form, cut, arrived>>

Wander ==
  /\ outcome = "astray" /\ IsPrefix(arrived, arrived')
  /\ UNCHANGED <<form, cut, outcome>>

Next == Arrive \/ Complete \/ GiveUp \/ Stray \/ Wander

Spec == Init /\ [][Next]_vars
=============================================================================
