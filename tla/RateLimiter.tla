---------------------------- MODULE RateLimiter ----------------------------
(***************************************************************************)
(* The speed limit of one direction of a StreamDescriptor: write() with    *)
(* delayWrite and resetWrite, or read() with delayRead and resetRead, which *)
(* are the same code over their own counter and section end.               *)
(*                                                                         *)
(* Time is cut into sections of Section ticks.  count is what the current  *)
(* section has used; a full section makes the thread sleep to its end, and *)
(* a reset takes the budget off the counter, below zero when the section   *)
(* was not used up.  Another thread may change the budget at any step, and *)
(* the counter is a signed integer of limited width.                       *)
(*                                                                         *)
(* Abstractions: bytes have no content; the bytes a reader has pushed back *)
(* are not limited and left out; a failed transfer ends the stream, so     *)
(* what it adds to the counter (a failed read adds -1) is left out.        *)
(***************************************************************************)
EXTENDS Integers

CONSTANTS
  Directions,  (* "write", "read" or both: each stream goes one way          *)
  Section,     (* ServerParams::timeDiff, in ticks                          *)
  Speeds,      (* the speeds that may be set                                *)
  Factor,      (* 1024 * TIME_DIFF_MS                                       *)
  Divisor,     (* 1000                                                      *)
  UintMod,     (* 2^32, the modulus of uint32_t                             *)
  MaxBudget,   (* no budget of a section is larger                          *)
  MayChange,   (* may a command change the budget while the stream is used? *)
  IntMax,      (* the largest value of int32_t                              *)
  Sizes,       (* lengths of the buffers callers pass                       *)
  Start,       (* the time of the first call, on a clock that starts at 0   *)
  Stalls,      (* ticks a transfer may take, or pass between two calls      *)
  Oversleeps,  (* ticks a sleep may last too long                           *)
  Horizon      (* bound: no transfer starts later                           *)

(* ServerParams computes the bytes of a section in 32 bits: for speeds above *)
(* 127100 KB/s the product wraps, and the budget is less than it should be. *)
BudgetOf(speed) == ((Factor * speed) % UintMod) \div Divisor
Budgets == {BudgetOf(speed) : speed \in Speeds}

ASSUME SpeedsOK ==
  Speeds \subseteq Nat /\ {Factor, Divisor, UintMod} \subseteq Nat \ {0}
ASSUME ConstantsOK ==
  /\ Directions \subseteq {"write", "read"}
  /\ Section \in Nat \ {0}
  /\ MaxBudget \in Nat \ {0}
  /\ Budgets \subseteq 0 .. MaxBudget
  /\ MayChange \in BOOLEAN
  /\ IntMax \in Nat /\ 2 * MaxBudget <= IntMax
  /\ Sizes \subseteq Nat \ {0}
  /\ Start \in Nat /\ Start >= Section
  /\ Stalls \subseteq Nat /\ Oversleeps \subseteq Nat
  /\ Horizon \in Nat

VARIABLES
  direction, (* write() or read(), each with a counter and an end of its own *)
  pc,      (* "idle", "transfer", "delay", "reset" or "ended"               *)
  budget,  (* params.writeBytesPerTimeDiff or params.readBytesPerTimeDiff   *)
  count,   (* thisSectionWriteCount or thisSectionReadCount                 *)
  end,     (* thisWriteTimeSectionEndTime or thisReadTimeSectionEndTime     *)
  now,     (* the time delayWrite or delayRead took                         *)
  left,    (* bytes of the current call still to be transferred             *)
  time,    (* the clock                                                     *)
  total,   (* history: bytes transferred                                    *)
  resets,  (* history: number of resets                                     *)
  calm     (* history: no stall, no late wake-up, no other budget so far    *)

vars == <<direction, pc, budget, count, end, now, left, time, total, resets, calm>>
-----------------------------------------------------------------------------
(* One addition or subtraction of int32_t.  The build (CMakeLists.txt asks  *)
(* for no optimisation) wraps around where C++ leaves the result undefined. *)
Modulus == 2 * (IntMax + 1)
IntMin == -(IntMax + 1)
Wrap(x) == IF x > IntMax THEN x - Modulus
           ELSE IF x < IntMin THEN x + Modulus ELSE x

Larger(a, b) == IF a > b THEN a ELSE b
Smaller(a, b) == IF a < b THEN a ELSE b

Init ==
  /\ pc = "idle"
  /\ budget \in Budgets
  /\ count = 0 /\ end = 0 /\ now = 0 /\ left = 0
  /\ time = Start
  /\ total = 0 /\ resets = 0 /\ calm = TRUE
  /\ direction \in Directions

(* The clock runs from t on, by one of the given numbers of ticks.          *)
Takes(ticks, t) ==
  \E d \in ticks : time' = t + d /\ calm' = (calm /\ d = 0)

(* A caller writes a buffer or offers one to read into.                     *)
Call ==
  /\ pc = "idle" /\ time <= Horizon
  /\ left' \in Sizes
  /\ Takes(Stalls, time)
  /\ pc' = "transfer"
  /\ UNCHANGED <<direction, budget, count, end, now, total, resets>>

(* At least one byte, however far over its budget the section is.           *)
Allowed_NoMinimum == Smaller(Wrap(budget - count), left)
Allowed_OneTooMany == Smaller(Larger(1, Wrap(budget - count)) + 1, left)
Allowed == Smaller(Larger(1, Wrap(budget - count)), left)

(* write() repeats send() until all is sent; read() may return less, and 0  *)
(* at the end of the stream.  The clock is read when the transfer is over.  *)
Transfer ==
  /\ pc = "transfer"
  /\ \E moved \in IF direction = "write" THEN {Allowed} ELSE 0 .. Allowed :
       /\ count' = Wrap(count + moved)
       /\ total' = total + moved
       /\ left' = IF direction = "write" THEN left - moved ELSE 0
  /\ Takes(Stalls, time)
  /\ now' = time'
  /\ pc' = "delay"
  /\ UNCHANGED <<direction, budget, end, resets>>

(* send() or read() fails.                                                  *)
Fail ==
  /\ pc = "transfer"
  /\ pc' = "ended"
  /\ UNCHANGED <<direction, budget, count, end, now, left, time, total, resets, calm>>

(* The loop of write() goes on until nothing is left.                       *)
Continue == IF left > 0 THEN "transfer" ELSE "idle"

Wakes_AtNow == now
Wakes == time + (end - now)

(* A full section sleeps until its end, if that is still to come.           *)
DelayFull ==
  /\ pc = "delay" /\ count >= budget
  /\ IF now < end THEN Takes(Oversleeps, Wakes) ELSE UNCHANGED <<time, calm>>
  /\ pc' = "reset"
  /\ UNCHANGED <<direction, budget, count, end, now, left, total, resets>>

DelayPartial ==
  /\ pc = "delay" /\ count < budget
  /\ pc' = IF now >= end THEN "reset" ELSE Continue
  /\ UNCHANGED <<direction, budget, count, end, now, left, time, total, resets, calm>>

(* The budget is read twice; b is what it was the first time.               *)
CountAfterReset(b) == IF count >= 2 * b THEN 0 ELSE Wrap(count - budget)
EarlierBudgets == IF MayChange THEN Budgets ELSE {budget}

(* resetWrite and resetRead take the time that was read BEFORE the sleep.   *)
EndAfterReset_Late == Larger(now, end) + 2 * Section
EndAfterReset == IF now >= end + Section THEN now + Section ELSE end + Section

(* The new end is later than now, so that the check for an elapsed section  *)
(* that follows a full one finds nothing to do.                             *)
Reset ==
  /\ pc = "reset"
  /\ \E b \in EarlierBudgets :
       count' = CountAfterReset(b) /\ calm' = (calm /\ b = budget)
  /\ end' = EndAfterReset
  /\ resets' = resets + 1
  /\ pc' = Continue
  /\ UNCHANGED <<direction, budget, now, left, time, total>>

(* Server::execute sets another speed from the thread that reads commands.  *)
ChangeBudget ==
  /\ MayChange
  /\ budget' \in Budgets \ {budget}
  /\ calm' = FALSE
  /\ UNCHANGED <<direction, pc, count, end, now, left, time, total, resets>>

(* Nothing more happens to a broken stream, nor beyond the bound.           *)
Over ==
  /\ pc = "ended" \/ (pc = "idle" /\ time > Horizon)
  /\ UNCHANGED vars

Next ==
  \/ Call \/ Transfer \/ Fail \/ DelayFull \/ DelayPartial \/ Reset
  \/ ChangeBudget \/ Over

Spec == Init /\ [][Next]_vars
-----------------------------------------------------------------------------
(* Types: the counter stays within its width.                               *)
TypeOK ==
  /\ pc \in {"idle", "transfer", "delay", "reset", "ended"}
  /\ budget \in Budgets
  /\ count \in IntMin .. IntMax
  /\ {end, now, left, time, total, resets} \subseteq Nat
  /\ direction \in {"write", "read"} /\ calm \in BOOLEAN

(* The speed promised by ServerParams: since the first call, whatever the   *)
(* budgets were, however the counter wrapped and however late transfers and *)
(* sleeps were, no more has been transferred than the largest budget allows *)
(* for the elapsed time and two sections more.                              *)
AverageCap == Section * total <= MaxBudget * (time - Start + 2 * Section)

(* A stream that never waited for its peer and whose budget stayed is not   *)
(* slowed below it: sleeping is all that took time, and every section of it *)
(* was paid with a budget's worth of bytes.                                 *)
FullSpeed ==
  calm /\ budget > 0 => Section * total >= budget * (time - Start)

(* What makes AverageCap inductive.  owed is what was transferred beyond    *)
(* the largest budget of every finished section: the counter never shows    *)
(* less than it, unless it wrapped, and then less by a whole Modulus.       *)
owed == total - MaxBudget * resets
Owing ==
  /\ owed <= count
  /\ owed <= MaxBudget
  /\ pc \in {"idle", "transfer"} =>
       /\ owed < MaxBudget
       /\ count >= 2 * MaxBudget => owed <= count - Modulus

(* Every reset moved the section end by a section at least, and none came   *)
(* more than a section before the end it set.                               *)
Timing ==
  /\ Start <= time /\ now <= time
  /\ pc \in {"delay", "reset"} => Start <= now
  /\ resets = 0 => end = 0
  /\ resets > 0 => Start + Section * resets <= end /\ end <= time + Section
  /\ pc = "reset" => end <= time

(* The inductive invariant of the speed limit: nothing a section transfers   *)
(* beyond its budget is ever forgotten, and no section is ever cut short or  *)
(* granted ahead of time, whatever wakes up late or changes the budget.      *)
RateInv == Owing /\ Timing
=============================================================================
