------------------------- MODULE RateLimiter_proof -------------------------
(***************************************************************************)
(* The speed limit keeps the long-run speed, for every section length,     *)
(* every set of budgets, every width of the counter and every timing of    *)
(* transfers, sleeps and commands.                                         *)
(*                                                                         *)
(* AverageCap is not inductive: it says nothing of the counter and of the  *)
(* section end, which decide what the next section may use.  RateInv is:   *)
(* Owing ties the counter to what was transferred beyond the budgets of    *)
(* the finished sections, Timing ties the number of finished sections to   *)
(* the clock, and the two together bound the total.                        *)
(***************************************************************************)
EXTENDS RateLimiter, TLAPS

USE ConstantsOK

Inv == TypeOK /\ RateInv

(* Wrapping once brings every sum and difference back into range, and it   *)
(* moves a number by nothing or by one Modulus.                             *)
LEMMA WrapRange ==
  ASSUME NEW x \in Int, x >= IntMin - Modulus, x <= IntMax + Modulus
  PROVE  /\ Wrap(x) \in IntMin .. IntMax
         /\ \/ Wrap(x) = x /\ IntMin <= x /\ x <= IntMax
            \/ Wrap(x) = x - Modulus /\ x > IntMax
            \/ Wrap(x) = x + Modulus /\ x < IntMin
  BY DEF Wrap, IntMin, Modulus

(* A transfer takes one byte, or at most what the section has left.        *)
LEMMA AllowedRange ==
  ASSUME TypeOK
  PROVE  /\ Allowed \in Nat
         /\ Allowed <= 1 \/ Allowed <= budget - count
         /\ Allowed <= IntMax \/ Allowed <= 1
         /\ Allowed <= left
  <1> DEFINE rest == Wrap(budget - count)
  <1>1. /\ budget \in 0 .. MaxBudget /\ budget <= IntMax
        /\ count \in IntMin .. IntMax /\ left \in Nat
    BY DEF TypeOK
  <1>2. /\ budget - count \in Int
        /\ budget - count >= IntMin - Modulus
        /\ budget - count <= IntMax + Modulus
    BY <1>1 DEF IntMin, Modulus
  <1>3. /\ rest \in IntMin .. IntMax
        /\ rest <= budget - count \/ rest < 0
    <2>1. budget - count >= IntMin
      BY <1>1 DEF IntMin
    <2>2. rest = budget - count \/ rest = budget - count - Modulus
      BY <1>2, <2>1, WrapRange DEF IntMin, Modulus
    <2> QED BY <1>1, <1>2, <2>2, WrapRange DEF Modulus
  <1> HIDE DEF rest
  <1>4. Allowed = Smaller(Larger(1, rest), left)
    BY DEF Allowed, rest
  <1> QED BY <1>1, <1>3, <1>4 DEF Smaller, Larger, IntMin

(* Types hold initially.                                                    *)
LEMMA TypeInit == Init => TypeOK
  BY DEF Init, TypeOK, IntMin

(* Every step keeps the types, the width of the counter included.           *)
LEMMA TypeStep == TypeOK /\ Timing /\ [Next]_vars => TypeOK'
  <1> SUFFICES ASSUME TypeOK, Timing, [Next]_vars PROVE TypeOK'
    OBVIOUS
  <1> USE DEF TypeOK
  <1>0. budget \in 0 .. MaxBudget /\ count \in Int
    BY DEF IntMin
  <1>1. CASE Call
    <2>1. PICK d \in Stalls : time' = time + d /\ calm' = (calm /\ d = 0)
      BY <1>1 DEF Call, Takes
    <2> QED BY <1>1, <2>1 DEF Call
  <1>2. CASE Transfer
    <2>1. Allowed \in Nat /\ Allowed <= left /\ (Allowed <= IntMax \/ Allowed <= 1)
      BY AllowedRange
    <2>2. PICK moved \in 0 .. Allowed :
            /\ count' = Wrap(count + moved)
            /\ total' = total + moved
            /\ left' = IF direction = "write" THEN left - moved ELSE 0
      BY <1>2, <2>1 DEF Transfer
    <2>3. PICK d \in Stalls : time' = time + d /\ calm' = (calm /\ d = 0)
      BY <1>2 DEF Transfer, Takes
    <2>4. count' \in IntMin .. IntMax
      <3>1. /\ count + moved \in Int
            /\ count + moved >= IntMin - Modulus
            /\ count + moved <= IntMax + Modulus
        BY <1>0, <2>1 DEF IntMin, Modulus
      <3> QED BY <2>2, <3>1, WrapRange
    <2>5. {end', now', left', time', total', resets'} \subseteq Nat
      BY <1>2, <2>1, <2>2, <2>3 DEF Transfer
    <2>6. calm' \in BOOLEAN
      BY <2>3, Zenon
    <2>7. pc' = "delay" /\ budget' \in Budgets /\ direction' \in {"write", "read"}
      BY <1>2 DEF Transfer
    <2> QED BY <2>4, <2>5, <2>6, <2>7
  <1>3. CASE Fail
    BY <1>3 DEF Fail
  <1>4. CASE DelayFull
    <2>1. CASE now < end
      <3>1. PICK o \in Oversleeps : time' = Wakes + o /\ calm' = (calm /\ o = 0)
        BY <1>4, <2>1 DEF DelayFull, Takes
      <3>2. time' \in Nat
        BY <2>1, <3>1 DEF Wakes
      <3>3. calm' \in BOOLEAN
        BY <3>1, Zenon
      <3> QED BY <1>4, <3>2, <3>3 DEF DelayFull
    <2>2. CASE ~(now < end)
      BY <1>4, <2>2 DEF DelayFull
    <2> QED BY <2>1, <2>2
  <1>5. CASE DelayPartial
    BY <1>5 DEF DelayPartial, Continue
  <1>6. CASE Reset
    <2>1. PICK b \in EarlierBudgets : count' = CountAfterReset(b) /\ calm' = (calm /\ b = budget)
      BY <1>6 DEF Reset
    <2>2. count' \in IntMin .. IntMax
      <3>1. /\ count - budget \in Int
            /\ count - budget >= IntMin - Modulus
            /\ count - budget <= IntMax + Modulus
        BY <1>0 DEF IntMin, Modulus
      <3>2. Wrap(count - budget) \in IntMin .. IntMax
        BY <3>1, WrapRange
      <3> QED BY <2>1, <3>2 DEF CountAfterReset, IntMin
    <2>3. end' \in Nat
      BY <1>6 DEF Reset, EndAfterReset
    <2> QED BY <1>6, <2>2, <2>3 DEF Reset, Continue
  <1>7. CASE ChangeBudget
    BY <1>7 DEF ChangeBudget
  <1>8. CASE Over
    BY <1>8 DEF Over, vars
  <1>9. CASE UNCHANGED vars
    BY <1>9 DEF vars
  <1> QED BY <1>1, <1>2, <1>3, <1>4, <1>5, <1>6, <1>7, <1>8, <1>9 DEF Next

(* Initially nothing is owed and no section has ended.                      *)
LEMMA RateInit == Init => RateInv
  BY DEF Init, RateInv, Owing, Timing, owed

(* A step keeps the clock, the section end and the resets in line.          *)
LEMMA TimingStep == TypeOK /\ Timing /\ [Next]_vars => Timing'
  <1> SUFFICES ASSUME TypeOK, Timing, [Next]_vars PROVE Timing'
    OBVIOUS
  <1> USE DEF Timing
  <1>0. {end, now, left, time, resets} \subseteq Nat
    BY DEF TypeOK
  <1>1. CASE Call
    <2>1. PICK d \in Stalls : time' = time + d /\ calm' = (calm /\ d = 0)
      BY <1>1 DEF Call, Takes
    <2> QED BY <1>0, <1>1, <2>1 DEF Call
  <1>2. CASE Transfer
    <2>1. PICK d \in Stalls : time' = time + d /\ calm' = (calm /\ d = 0)
      BY <1>2 DEF Transfer, Takes
    <2> QED BY <1>0, <1>2, <2>1 DEF Transfer
  <1>3. CASE Fail
    BY <1>3 DEF Fail
  <1>4. CASE DelayFull
    <2>1. time' \in Nat /\ time' >= time /\ time' >= end
      BY <1>0, <1>4 DEF DelayFull, Wakes, Takes
    <2> QED BY <1>0, <1>4, <2>1 DEF DelayFull
  <1>5. CASE DelayPartial
    BY <1>0, <1>5 DEF DelayPartial, Continue
  <1>6. CASE Reset
    <2>1. Section * (resets + 1) = Section * resets + Section
      BY <1>0
    <2>2. end' \in Nat /\ end' <= time + Section /\ end' >= end + Section /\ end' >= now + 1
      BY <1>0, <1>6 DEF Reset, EndAfterReset
    <2>3. Start + Section * (resets + 1) <= end'
      <3>1. CASE resets = 0
        BY <1>0, <1>6, <2>1, <3>1 DEF Reset, EndAfterReset
      <3>2. CASE resets > 0
        <4> DEFINE spent == Section * resets
        <4>1. spent \in Nat /\ Start + spent <= end
          BY <1>0, <3>2
        <4> HIDE DEF spent
        <4>2. Section * (resets + 1) = spent + Section
          BY <2>1 DEF spent
        <4> QED BY <1>0, <2>2, <4>1, <4>2
      <3> QED BY <1>0, <3>1, <3>2
    <2> QED BY <1>0, <1>6, <2>2, <2>3 DEF Reset, Continue
  <1>7. CASE ChangeBudget
    BY <1>7 DEF ChangeBudget
  <1>8. CASE Over
    BY <1>8 DEF Over, vars
  <1>9. CASE UNCHANGED vars
    BY <1>9 DEF vars
  <1> QED BY <1>1, <1>2, <1>3, <1>4, <1>5, <1>6, <1>7, <1>8, <1>9 DEF Next

(* A step lets no section run up more than its budget without the counter  *)
(* showing it, whichever budget the step reads and whether or not the      *)
(* counter wraps.                                                           *)
LEMMA OwingStep == TypeOK /\ Owing /\ [Next]_vars => Owing'
  <1> SUFFICES ASSUME TypeOK, Owing, [Next]_vars PROVE Owing'
    OBVIOUS
  <1>0. /\ budget \in 0 .. MaxBudget /\ count \in IntMin .. IntMax /\ count \in Int
        /\ total \in Nat /\ resets \in Nat /\ MaxBudget * resets \in Int /\ owed \in Int
    <2>1. budget \in 0 .. MaxBudget
      BY DEF TypeOK
    <2>2. count \in IntMin .. IntMax /\ total \in Nat /\ resets \in Nat
      BY DEF TypeOK
    <2>3. count \in Int
      BY <2>2 DEF IntMin
    <2>4. MaxBudget * resets \in Int
      BY <2>2
    <2> QED BY <2>1, <2>2, <2>3, <2>4 DEF owed
  <1>a. /\ owed <= count /\ owed <= MaxBudget
        /\ pc \in {"idle", "transfer"} =>
             owed < MaxBudget /\ (count >= 2 * MaxBudget => owed <= count - Modulus)
    BY DEF Owing
  <1>1. CASE Call
    BY <1>1, <1>a DEF Call, Owing, owed
  <1>2. CASE Transfer
    <2>1. /\ Allowed \in Nat
          /\ Allowed <= 1 \/ Allowed <= budget - count
          /\ Allowed <= IntMax \/ Allowed <= 1
      BY AllowedRange
    <2>2. PICK moved \in 0 .. Allowed :
            count' = Wrap(count + moved) /\ total' = total + moved
      BY <1>2, <2>1 DEF Transfer
    <2>3. owed' = owed + moved
      BY <1>0, <1>2, <2>1, <2>2 DEF Transfer, owed
    <2>4. owed' <= MaxBudget
      BY <1>0, <1>2, <1>a, <2>1, <2>2, <2>3 DEF Transfer
    <2>5. owed' <= count'
      <3>1. /\ count + moved \in Int
            /\ count + moved >= IntMin - Modulus
            /\ count + moved <= IntMax + Modulus
        BY <1>0, <2>1, <2>2 DEF IntMin, Modulus
      <3>2. CASE Wrap(count + moved) = count + moved
        BY <1>0, <1>a, <2>1, <2>2, <2>3, <3>2
      <3>3. CASE Wrap(count + moved) = count + moved - Modulus /\ count + moved > IntMax
        <4>1. count >= 2 * MaxBudget
          BY <1>0, <2>1, <2>2, <3>3
        <4>2. owed <= count - Modulus
          BY <1>2, <1>a, <4>1 DEF Transfer
        <4> QED BY <1>0, <2>1, <2>2, <2>3, <3>3, <4>2 DEF Modulus
      <3>4. ~(count + moved < IntMin)
        BY <1>0, <2>1, <2>2 DEF IntMin
      <3>5. \/ Wrap(count + moved) = count + moved
            \/ Wrap(count + moved) = count + moved - Modulus /\ count + moved > IntMax
            \/ count + moved < IntMin
        BY <1>0, <2>1, <2>2, <3>1 DEF Wrap, IntMin, Modulus
      <3> QED BY <3>2, <3>3, <3>4, <3>5
    <2> QED BY <1>2, <2>4, <2>5 DEF Transfer, Owing
  <1>3. CASE Fail
    BY <1>3, <1>a DEF Fail, Owing, owed
  <1>4. CASE DelayFull
    BY <1>4, <1>a DEF DelayFull, Owing, owed
  <1>5. CASE DelayPartial
    <2>1. owed' = owed /\ count' = count /\ count < MaxBudget
      BY <1>0, <1>5 DEF DelayPartial, owed
    <2> QED BY <1>0, <1>5, <1>a, <2>1 DEF DelayPartial, Owing
  <1>6. CASE Reset
    <2>1. PICK b \in EarlierBudgets : count' = CountAfterReset(b) /\ calm' = (calm /\ b = budget)
      BY <1>6 DEF Reset
    <2>2. b \in 0 .. MaxBudget
      BY <1>0 DEF EarlierBudgets
    <2>3. owed' = owed - MaxBudget
      <3>1. MaxBudget * (resets + 1) = MaxBudget * resets + MaxBudget
        BY <1>0
      <3>2. resets' = resets + 1 /\ total' = total
        BY <1>6 DEF Reset
      <3> QED BY <1>0, <3>1, <3>2 DEF owed
    <2>4. owed' <= count' /\ (count' >= 2 * MaxBudget => owed' <= count' - Modulus)
      <3>1. CASE count >= 2 * b
        BY <1>0, <1>a, <2>1, <2>3, <3>1 DEF CountAfterReset
      <3>2. CASE count < 2 * b
        <4>1. count' = Wrap(count - budget)
          BY <1>0, <2>1, <2>2, <3>2 DEF CountAfterReset
        <4>2. /\ count - budget \in Int
              /\ count - budget >= IntMin - Modulus
              /\ count - budget <= IntMax
          BY <1>0 DEF IntMin, Modulus
        <4>3. \/ count' = count - budget
              \/ count' = count - budget + Modulus
          BY <4>1, <4>2, WrapRange DEF IntMin, Modulus
        <4> QED BY <1>0, <1>a, <2>2, <2>3, <3>2, <4>3 DEF Modulus
      <3> QED BY <1>0, <2>2, <3>1, <3>2
    <2> QED BY <1>0, <1>a, <2>3, <2>4 DEF Owing
  <1>7. CASE ChangeBudget
    BY <1>7, <1>a DEF ChangeBudget, Owing, owed
  <1>8. CASE Over
    BY <1>8, <1>a DEF Over, vars, Owing, owed
  <1>9. CASE UNCHANGED vars
    BY <1>9, <1>a DEF vars, Owing, owed
  <1> QED BY <1>1, <1>2, <1>3, <1>4, <1>5, <1>6, <1>7, <1>8, <1>9 DEF Next

(* The invariant bounds what is transferred: a budget for every finished   *)
(* section and one for the current.                                         *)
LEMMA InvCaps == TypeOK /\ RateInv => AverageCap
  <1> SUFFICES ASSUME TypeOK, RateInv PROVE AverageCap
    OBVIOUS
  <1> DEFINE elapsed == time - Start
  <1>0. /\ {end, time, total, resets} \subseteq Nat /\ elapsed \in Nat
    BY DEF TypeOK, RateInv, Timing
  <1>1. total <= MaxBudget * (resets + 1)
    BY <1>0 DEF RateInv, Owing, owed
  <1>2. Section * (resets + 1) <= elapsed + 2 * Section
    BY <1>0 DEF RateInv, Timing
  <1>3. \A i, j, k \in Nat : i <= j => k * i <= k * j
    OBVIOUS
  <1>4. Section * total <= Section * (MaxBudget * (resets + 1))
    BY <1>0, <1>1, <1>3
  <1>5. Section * (MaxBudget * (resets + 1)) = MaxBudget * (Section * (resets + 1))
    BY <1>0
  <1>6. MaxBudget * (Section * (resets + 1)) <= MaxBudget * (elapsed + 2 * Section)
    <2>1. Section * (resets + 1) \in Nat /\ elapsed + 2 * Section \in Nat
      BY <1>0
    <2> QED BY <1>2, <1>3, <2>1
  <1> QED BY <1>0, <1>4, <1>5, <1>6 DEF AverageCap

(* TypeOK: the counter never leaves its width and no clock or count is     *)
(* ever negative.                                                           *)
THEOREM RateTypes == Spec => []TypeOK
  <1>1. Init => Inv
    BY TypeInit, RateInit DEF Inv
  <1>2. Inv /\ [Next]_vars => Inv'
    BY TypeStep, TimingStep, OwingStep DEF Inv, RateInv
  <1> QED BY <1>1, <1>2, PTL DEF Spec, Inv

(* Owing and Timing hold in every reachable state.                          *)
THEOREM RateInvariant == Spec => []RateInv
  <1>1. Init => Inv
    BY TypeInit, RateInit DEF Inv
  <1>2. Inv /\ [Next]_vars => Inv'
    BY TypeStep, TimingStep, OwingStep DEF Inv, RateInv
  <1>3. Inv => RateInv
    BY DEF Inv
  <1> QED BY <1>1, <1>2, <1>3, PTL DEF Spec

(* The promise of the speed limit: no direction of any stream transfers    *)
(* more than the largest budget allows for the time since its first call   *)
(* and two sections more.                                                   *)
THEOREM SpeedKept == Spec => []AverageCap
  <1>1. TypeOK /\ RateInv => AverageCap
    BY InvCaps
  <1> QED BY <1>1, RateTypes, RateInvariant, PTL
-----------------------------------------------------------------------------
(* What makes FullSpeed inductive: a stream that is never late sleeps only   *)
(* to the end of a section whose budget is used up, so that its clock shows  *)
(* one section for every reset but the first, and every reset was paid.      *)
Paced ==
  calm /\ budget > 0 =>
    /\ total >= budget * resets + count /\ count >= -budget
    /\ pc \in {"idle", "transfer"} => count < budget
    /\ resets = 0 =>
         /\ time = Start /\ count >= 0
         /\ pc \in {"delay", "reset"} => now = Start
    /\ resets > 0 =>
         /\ end = Start + Section * resets
         /\ IF pc = "reset"
            THEN now = end - Section /\ time = end /\ count >= budget
            ELSE time = end - Section
         /\ pc = "delay" => now = time

(* A step keeps the pace.                                                   *)
LEMMA PacedStep == TypeOK /\ Timing /\ Paced /\ [Next]_vars => Paced'
  <1> SUFFICES ASSUME TypeOK, Timing, Paced, [Next]_vars, calm', budget' > 0 PROVE Paced'
    BY DEF Paced
  <1>0. /\ {end, now, left, time, total, resets} \subseteq Nat
        /\ budget \in Nat /\ 2 * budget <= IntMax
        /\ count \in IntMin .. IntMax /\ count \in Int
        /\ resets = 0 => end = 0
    BY DEF TypeOK, Timing, IntMin
  <1> DEFINE paid == budget * resets
             spent == Section * resets
  <1>a. paid \in Nat /\ spent \in Nat
    BY <1>0
  <1>1. CASE Call
    <2>1. PICK d \in Stalls : time' = time + d /\ calm' = (calm /\ d = 0)
      BY <1>1 DEF Call, Takes
    <2>2. calm /\ d = 0
      BY <2>1, Zenon
    <2>3. time' = time
      BY <1>0, <2>1, <2>2
    <2> QED BY <1>1, <2>2, <2>3 DEF Call, Paced
  <1>2. CASE Transfer
    <2>a. PICK d \in Stalls : time' = time + d /\ calm' = (calm /\ d = 0)
      BY <1>2 DEF Transfer, Takes
    <2>b. calm /\ d = 0
      BY <2>a, Zenon
    <2>1. /\ calm /\ time' = time /\ now' = time /\ pc = "transfer" /\ pc' = "delay"
          /\ UNCHANGED <<budget, end, resets>>
      BY <1>0, <1>2, <2>a, <2>b DEF Transfer
    <2>2. /\ Allowed \in Nat
          /\ Allowed <= 1 \/ Allowed <= budget - count
      BY AllowedRange
    <2>3. PICK moved \in 0 .. Allowed :
            count' = Wrap(count + moved) /\ total' = total + moved
      BY <1>2, <2>2 DEF Transfer
    <2>4. count < budget /\ count >= -budget /\ total >= paid + count
      BY <2>1 DEF Paced
    <2>5. count + moved <= budget /\ count + moved >= -budget
      BY <1>0, <2>2, <2>3, <2>4
    <2>6. count' = count + moved
      BY <1>0, <2>3, <2>5 DEF Wrap, IntMin
    <2>7. total' >= paid + count' /\ count' >= count
      BY <1>0, <1>a, <2>2, <2>3, <2>4, <2>6
    <2> HIDE DEF paid, spent
    <2>8. (budget * resets)' = paid /\ (Section * resets)' = spent
      BY <2>1 DEF paid, spent
    <2>9. /\ resets = 0 => time = Start /\ count >= 0
          /\ resets > 0 => end = Start + spent /\ time = end - Section
      BY <2>1 DEF Paced, spent
    <2>10. count' \in Int
      BY <1>0, <2>2, <2>3, <2>6
    <2> QED BY <1>0, <1>a, <2>1, <2>5, <2>7, <2>8, <2>9, <2>10 DEF Paced
  <1>3. CASE Fail
    BY <1>3 DEF Fail, Paced
  <1>4. CASE DelayFull
    <2>a. calm /\ time' = IF now < end THEN time + (end - now) ELSE time
      <3>1. CASE now < end
        <4>1. PICK d \in Oversleeps : time' = Wakes + d /\ calm' = (calm /\ d = 0)
          BY <1>4, <3>1 DEF DelayFull, Takes
        <4>2. calm /\ d = 0
          BY <4>1, Zenon
        <4> QED BY <1>0, <3>1, <4>1, <4>2 DEF Wakes
      <3>2. CASE ~(now < end)
        BY <1>4, <3>2 DEF DelayFull
      <3> QED BY <3>1, <3>2
    <2>1. calm /\ pc = "delay" /\ pc' = "reset" /\ count >= budget
          /\ UNCHANGED <<budget, count, end, now, total, resets>>
          /\ time' = IF now < end THEN time + (end - now) ELSE time
      BY <1>4, <2>a DEF DelayFull
    <2> HIDE DEF paid, spent
    <2>2. (budget * resets)' = paid /\ (Section * resets)' = spent
      BY <2>1 DEF paid, spent
    <2>3. /\ total >= paid + count /\ count >= -budget
          /\ resets = 0 => time = Start /\ count >= 0 /\ now = Start
          /\ resets > 0 => end = Start + spent /\ time = end - Section /\ now = time
      BY <2>1 DEF Paced, paid, spent
    <2> QED BY <1>0, <1>a, <2>1, <2>2, <2>3 DEF Paced
  <1>5. CASE DelayPartial
    <2>1. calm /\ pc = "delay" /\ count < budget
          /\ pc' = (IF now >= end THEN "reset" ELSE Continue)
          /\ UNCHANGED <<budget, count, end, now, time, total, resets>>
      BY <1>5 DEF DelayPartial
    <2> HIDE DEF paid, spent
    <2>2. (budget * resets)' = paid /\ (Section * resets)' = spent
      BY <2>1 DEF paid, spent
    <2>3. /\ total >= paid + count /\ count >= -budget
          /\ resets = 0 => time = Start /\ count >= 0 /\ now = Start
          /\ resets > 0 => end = Start + spent /\ time = end - Section /\ now = time
      BY <2>1 DEF Paced, paid, spent
    <2>4. pc' \in {"idle", "transfer", "reset"} /\ (resets > 0 => pc' # "reset")
      BY <1>0, <2>1, <2>3 DEF Continue
    <2> QED BY <1>0, <1>a, <2>1, <2>2, <2>3, <2>4 DEF Paced
  <1>6. CASE Reset
    <2>a. PICK b \in EarlierBudgets :
            count' = CountAfterReset(b) /\ calm' = (calm /\ b = budget)
      BY <1>6 DEF Reset
    <2>b. calm /\ b = budget
      BY <2>a, Zenon
    <2>1. /\ calm /\ pc = "reset" /\ pc' \in {"idle", "transfer"}
          /\ count' = CountAfterReset(budget) /\ end' = EndAfterReset
          /\ resets' = resets + 1
          /\ UNCHANGED <<budget, now, time, total>>
      BY <1>6, <2>a, <2>b DEF Reset, Continue
    <2>2. /\ total >= paid + count /\ count >= -budget
          /\ resets = 0 => time = Start /\ count >= 0 /\ now = Start
          /\ resets > 0 => /\ end = Start + spent /\ now = end - Section
                           /\ time = end /\ count >= budget
      BY <2>1 DEF Paced
    <2>3. count >= 0 /\ budget \in Nat /\ budget > 0 /\ budget <= IntMax
      BY <1>0, <2>1, <2>2
    <2>4. /\ count' = IF count >= 2 * budget THEN 0 ELSE count - budget
      BY <1>0, <2>1, <2>3 DEF CountAfterReset, Wrap, IntMin
    <2>5. /\ budget * (resets + 1) = paid + budget
          /\ Section * (resets + 1) = spent + Section
      BY <1>0
    <2>6. resets = 0 => spent = 0
      BY <1>0
    <2>7. (budget * resets)' = paid + budget /\ (Section * resets)' = spent + Section
      BY <2>1, <2>5
    <2> HIDE DEF paid, spent
    <2>8. end' = Start + (spent + Section) /\ time' = end' - Section
      <3>1. CASE resets = 0
        BY <1>0, <2>1, <2>2, <2>6, <3>1 DEF EndAfterReset
      <3>2. CASE resets > 0
        BY <1>0, <1>a, <2>1, <2>2, <3>2 DEF EndAfterReset
      <3> QED BY <1>0, <3>1, <3>2
    <2>9. total' >= (paid + budget) + count' /\ count' >= -budget /\ count' < budget
      BY <1>0, <1>a, <2>1, <2>2, <2>3, <2>4
    <2> QED BY <1>0, <1>a, <2>1, <2>7, <2>8, <2>9 DEF Paced
  <1>7. CASE ChangeBudget
    BY <1>7 DEF ChangeBudget
  <1>8. CASE Over
    BY <1>8 DEF Over, vars, Paced
  <1>9. CASE UNCHANGED vars
    BY <1>9 DEF vars, Paced
  <1> QED BY <1>1, <1>2, <1>3, <1>4, <1>5, <1>6, <1>7, <1>8, <1>9 DEF Next

(* The clock of a stream that kept the pace shows no section more than its   *)
(* bytes have paid for.                                                     *)
LEMMA PacedFast == TypeOK /\ Paced => FullSpeed
  <1> SUFFICES ASSUME TypeOK, Paced, calm, budget > 0
      PROVE Section * total >= budget * (time - Start)
    BY DEF FullSpeed
  <1>0. {end, time, total, resets} \subseteq Nat /\ budget \in Nat /\ count \in Int
    BY DEF TypeOK, IntMin
  <1>1. CASE resets = 0
    <2>1. budget * (time - Start) = 0 /\ Section * total >= 0
      BY <1>0, <1>1 DEF Paced
    <2> QED BY <2>1
  <1>2. CASE resets > 0
    <2> DEFINE slept == IF pc = "reset" THEN resets ELSE resets - 1
    <2>1. slept \in Nat
      BY <1>0, <1>2
    <2>2. total >= budget * resets + count /\ (IF pc = "reset" THEN count >= budget ELSE count >= -budget)
      BY <1>2 DEF Paced
    <2>3. budget * (resets - 1) = budget * resets - budget
      BY <1>0
    <2>4. total >= budget * slept
      <3> DEFINE paid == budget * resets
      <3>1. paid \in Nat
        BY <1>0
      <3>2. total >= paid + count /\ budget * (resets - 1) = paid - budget
        BY <2>2, <2>3
      <3>3. budget * slept = IF pc = "reset" THEN paid ELSE paid - budget
        BY <3>2
      <3> HIDE DEF paid, slept
      <3> QED BY <1>0, <2>2, <3>1, <3>2, <3>3
    <2>5. time - Start = Section * slept
      <3>1. Section * (resets - 1) = Section * resets - Section
        BY <1>0
      <3>2. end = Start + Section * resets /\ time = (IF pc = "reset" THEN end ELSE end - Section)
        BY <1>0, <1>2 DEF Paced
      <3> DEFINE spent == Section * resets
      <3>3. spent \in Nat
        BY <1>0
      <3> HIDE DEF spent
      <3>4. end = Start + spent /\ Section * slept = IF pc = "reset" THEN spent ELSE spent - Section
        BY <3>1, <3>2 DEF spent
      <3> HIDE DEF slept
      <3> QED BY <1>0, <3>2, <3>3, <3>4
    <2> HIDE DEF slept
    <2>6. budget * slept \in Nat /\ \A i, j, k \in Nat : i <= j => k * i <= k * j
      BY <1>0, <2>1
    <2>7. Section * (budget * slept) <= Section * total
      BY <1>0, <2>4, <2>6
    <2>8. budget * (Section * slept) = Section * (budget * slept)
      BY <1>0, <2>1
    <2> QED BY <2>5, <2>7, <2>8
  <1> QED BY <1>0, <1>1, <1>2

(* FullSpeed: neither the resets nor the sleeps of the limit cost a stream   *)
(* that is never late any of its budget, for every budget and section.      *)
THEOREM SpeedReached == Spec => []FullSpeed
  <1>1. Init => TypeOK /\ RateInv /\ Paced
    <2>1. Init => Paced
      BY DEF Init, Paced
    <2> QED BY <2>1, TypeInit, RateInit
  <1>2. TypeOK /\ RateInv /\ Paced /\ [Next]_vars => Paced'
    BY PacedStep DEF RateInv
  <1>3. TypeOK /\ Paced => FullSpeed
    BY PacedFast
  <1> QED BY <1>1, <1>2, <1>3, RateTypes, RateInvariant, PTL DEF Spec
=============================================================================
