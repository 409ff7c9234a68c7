------------------------- MODULE SummarySlotsProofs -------------------------
(***************************************************************************)
(* Proofs about SummarySlots for any number of jobs, slots, errors and     *)
(* restarts.  With one ingestor process on the Redis the limit holds;      *)
(* the run slots_rolling shows that it does not hold with two.             *)
(***************************************************************************)
EXTENDS SummarySlots, FiniteSetTheorems, TLAPS

(* The deployment of the repository: one ingestor process per Redis.       *)
SingleInstance == \E i : Instances = {i}

(* Every step of every process and job keeps the types.                    *)
LEMMA TypeStep == TypeOK /\ [Next]_vars => TypeOK'
<1> SUFFICES ASSUME TypeOK, [Next]_vars PROVE TypeOK'
  OBVIOUS
<1> USE SlotsAssumption DEF TypeOK, PCs
<1>1. ASSUME NEW j \in Jobs,
             Submit(j) \/ TakePermit(j) \/ AcquireUnlimited(j) \/ AcquireSlot(j)
      PROVE  TypeOK'
  BY <1>1 DEF Submit, TakePermit, AcquireUnlimited, AcquireSlot, Goto
<1>2. ASSUME NEW j \in Jobs,
             OverLimit(j) \/ AcquireFault(j) \/ BackOff(j) \/ BackOffFault(j)
      PROVE  TypeOK'
  BY <1>2 DEF OverLimit, AcquireFault, BackOff, BackOffFault, Fault, Goto
<1>3. ASSUME NEW j \in Jobs, FinishWork(j) \/ Release(j) \/ ReleaseFault(j)
      PROVE  TypeOK'
  BY <1>3 DEF FinishWork, Release, ReleaseFault, Fault, Goto
<1>4. ASSUME NEW i \in Instances, ProcessStep(i)
      PROVE  TypeOK'
  <2>1. CASE Boot(i)
    BY <2>1 DEF Boot
  <2>2. CASE BootFault(i)
    BY <2>2 DEF BootFault, Fault
  <2>3. CASE Crash(i)
    BY <2>3 DEF Crash
  <2>4. CASE LoseRedis(i)
    BY <2>4 DEF LoseRedis, Fault
  <2> QED
    BY <1>4, <2>1, <2>2, <2>3, <2>4 DEF ProcessStep
<1>5. CASE UNCHANGED vars
  BY <1>5 DEF vars
<1> QED
  BY <1>1, <1>2, <1>3, <1>4, <1>5 DEF Next, JobStep

(* The types are preserved by every operation of the limiter, however many *)
(* processes, errors and crashes there are.                                *)
THEOREM TypeCorrect == Spec => []TypeOK
<1>1. Init => TypeOK
  BY SlotsAssumption DEF Init, TypeOK, PCs
<1>2. TypeOK /\ [Next]_vars => TypeOK'
  BY TypeStep
<1> QED
  BY <1>1, <1>2, PTL DEF Spec

-----------------------------------------------------------------------------
(* The strengthening: the claims are finitely many, the counter covers     *)
(* them, and the jobs at work are within the limit.                        *)
SlotInv == TypeOK /\ IsFiniteSet(Claims) /\ CounterCoversClaims /\ WithinLimit

(* 1 for a member, 0 for the others.                                       *)
In(x, S) == IF x \in S THEN 1 ELSE 0

(* A set of jobs selected by where they stand gains or loses the job that  *)
(* moves, according to where it comes from and where it goes.              *)
LEMMA CountMove ==
  ASSUME TypeOK, NEW j \in Jobs, NEW from, NEW to \in PCs, Goto(j, from, to),
         NEW P, IsFiniteSet({k \in Jobs : pc[k] \in P})
  PROVE  LET S == {k \in Jobs : pc[k] \in P}
             T == {k \in Jobs : pc'[k] \in P}
         IN  /\ IsFiniteSet(T)
             /\ Cardinality(T) = Cardinality(S) + In(to, P) - In(from, P)
<1> DEFINE S == {k \in Jobs : pc[k] \in P}
           T == {k \in Jobs : pc'[k] \in P}
<1>1. /\ pc[j] = from
      /\ pc'[j] = to
      /\ \A k \in Jobs : k # j => pc'[k] = pc[k]
  BY DEF Goto, TypeOK
<1>2. T = IF to \in P THEN S \cup {j} ELSE S \ {j}
  BY <1>1
<1>3. j \in S <=> from \in P
  BY <1>1
<1>4. /\ IsFiniteSet(S \cup {j}) /\ IsFiniteSet(S \ {j})
      /\ Cardinality(S) \in Nat
      /\ Cardinality(S \cup {j}) = IF j \in S THEN Cardinality(S) ELSE Cardinality(S) + 1
      /\ Cardinality(S \ {j}) = IF j \in S THEN Cardinality(S) - 1 ELSE Cardinality(S)
  BY FS_AddElement, FS_RemoveElement, FS_CardinalityType
<1> HIDE DEF S, T
<1>5. /\ IsFiniteSet(T)
      /\ Cardinality(T) = Cardinality(S) + In(to, P) - In(from, P)
  BY <1>2, <1>3, <1>4 DEF In
<1> QED
  BY <1>5 DEF S, T

(* The same for the three sets the counter is compared with.               *)
LEMMA MoveEffect ==
  ASSUME TypeOK, IsFiniteSet(Claims),
         NEW j \in Jobs, NEW from, NEW to \in PCs, Goto(j, from, to)
  PROVE  /\ IsFiniteSet(Claims')
         /\ Cardinality(Claims') = Cardinality(Claims) + In(to, ClaimPCs) - In(from, ClaimPCs)
         /\ Cardinality(Working') = Cardinality(Working) + In(to, {"working"}) - In(from, {"working"})
         /\ Cardinality(BackingOff') =
              Cardinality(BackingOff) + In(to, {"backing_off"}) - In(from, {"backing_off"})
         /\ \A k \in Jobs : k # j => pc'[k] = pc[k]
         /\ pc'[j] = to
<1>1. /\ Claims = {k \in Jobs : pc[k] \in ClaimPCs}
      /\ Claims' = {k \in Jobs : pc'[k] \in ClaimPCs}
  BY DEF Claims
<1>2. /\ Working = {k \in Jobs : pc[k] \in {"working"}}
      /\ Working' = {k \in Jobs : pc'[k] \in {"working"}}
  BY DEF Working
<1>3. /\ BackingOff = {k \in Jobs : pc[k] \in {"backing_off"}}
      /\ BackingOff' = {k \in Jobs : pc'[k] \in {"backing_off"}}
  BY DEF BackingOff
<1>4. IsFiniteSet(Working) /\ IsFiniteSet(BackingOff)
  <2>1. Working \subseteq Claims /\ BackingOff \subseteq Claims
    BY DEF Working, BackingOff, Claims, ClaimPCs
  <2> QED
    BY <2>1, FS_Subset
<1>5. /\ IsFiniteSet(Claims')
      /\ Cardinality(Claims') = Cardinality(Claims) + In(to, ClaimPCs) - In(from, ClaimPCs)
  BY <1>1, CountMove
<1>6. Cardinality(Working') = Cardinality(Working) + In(to, {"working"}) - In(from, {"working"})
  BY <1>2, <1>4, CountMove
<1>7. Cardinality(BackingOff') =
        Cardinality(BackingOff) + In(to, {"backing_off"}) - In(from, {"backing_off"})
  BY <1>3, <1>4, CountMove
<1>8. /\ \A k \in Jobs : k # j => pc'[k] = pc[k]
      /\ pc'[j] = to
  BY DEF Goto, TypeOK
<1> QED
  BY <1>5, <1>6, <1>7, <1>8

-----------------------------------------------------------------------------
(* Every step of a job keeps the counter above the claims up to the calls  *)
(* that raised, and lets the job work only below the limit.                *)
LEMMA JobKeepsSlots ==
  ASSUME SingleInstance, SlotInv, TypeOK', NEW j \in Jobs, JobStep(j)
  PROVE  SlotInv'
<1> PICK i : Instances = {i}
  BY DEF SingleInstance
<1>1. InstanceOf[j] = i /\ \A k \in Jobs : InstanceOf[k] = i
  BY SlotsAssumption
<1>2. up = {i} /\ up' = up
  <2>1. i \in up /\ up' = up
    BY <1>1 DEF SlotInv, CounterCoversClaims, JobStep, Submit, TakePermit,
       AcquireUnlimited, AcquireSlot, OverLimit, AcquireFault, BackOff,
       BackOffFault, FinishWork, Release, ReleaseFault, Goto
  <2> QED
    BY <2>1 DEF SlotInv, TypeOK
<1>3. available' = available /\ (Limited <=> available[i]) /\ (Limited' <=> available[i])
  BY <1>2 DEF JobStep, Submit, TakePermit,
     AcquireUnlimited, AcquireSlot, OverLimit, AcquireFault, BackOff,
     BackOffFault, FinishWork, Release, ReleaseFault, Limited
<1>4. /\ IsFiniteSet(Claims)
      /\ counter \in Int /\ faults \in Nat /\ MaxParallel \in Nat /\ MaxFaults \in Nat
      /\ Cardinality(Claims) \in Nat /\ Cardinality(Working) \in Nat
      /\ Cardinality(BackingOff) \in Nat
      /\ Cardinality(Working) <= Cardinality(Claims)
  <2>1. Working \subseteq Claims /\ BackingOff \subseteq Claims
    BY DEF Working, BackingOff, Claims, ClaimPCs
  <2> QED
    BY <2>1, FS_Subset, FS_CardinalityType, SlotsAssumption DEF SlotInv, TypeOK
<1>5. /\ faults = 0 => available[i]
      /\ counter + faults >= Cardinality(BackingOff)
      /\ available[i] => counter + faults >= Cardinality(Claims)
      /\ faults = 0 => counter = Cardinality(Claims)
      /\ available[i] => Cardinality(Working) <= MaxParallel + faults
  BY <1>2, <1>3 DEF SlotInv, CounterCoversClaims, WithinLimit
<1>6. SUFFICES /\ IsFiniteSet(Claims')
               /\ faults' = 0 => available[i]
               /\ counter' + faults' >= Cardinality(BackingOff')
               /\ available[i] => counter' + faults' >= Cardinality(Claims')
               /\ faults' = 0 => counter' = Cardinality(Claims')
               /\ available[i] => Cardinality(Working') <= MaxParallel + faults'
  BY <1>1, <1>2, <1>3 DEF SlotInv, CounterCoversClaims, WithinLimit
<1> USE DEF In, PCs, ClaimPCs
<1>7. CASE Submit(j)
  <2>1. Goto(j, "idle", "queued") /\ counter' = counter /\ faults' = faults
    BY <1>7 DEF Submit
  <2> QED
    BY <2>1, <1>4, <1>5, MoveEffect DEF SlotInv
<1>8. CASE TakePermit(j)
  <2>1. Goto(j, "queued", "acquiring") /\ counter' = counter /\ faults' = faults
    BY <1>8 DEF TakePermit
  <2> QED
    BY <2>1, <1>4, <1>5, MoveEffect DEF SlotInv
<1>9. CASE AcquireUnlimited(j)
  <2>1. /\ Goto(j, "acquiring", "working") /\ counter' = counter /\ faults' = faults
        /\ ~available[i]
    BY <1>1, <1>9 DEF AcquireUnlimited
  <2> QED
    BY <2>1, <1>4, <1>5, MoveEffect DEF SlotInv
<1>10. CASE AcquireSlot(j)
  <2>1. /\ Goto(j, "acquiring", "working") /\ counter' = counter + 1 /\ faults' = faults
        /\ counter + 1 <= MaxParallel
    BY <1>10 DEF AcquireSlot
  <2> QED
    BY <2>1, <1>4, <1>5, MoveEffect DEF SlotInv
<1>11. CASE OverLimit(j)
  <2>1. /\ Goto(j, "acquiring", "backing_off") /\ counter' = counter + 1
        /\ faults' = faults /\ available[i]
    BY <1>1, <1>11 DEF OverLimit
  <2>2. Cardinality(BackingOff) <= Cardinality(Claims)
    <3>1. BackingOff \subseteq Claims
      BY DEF BackingOff, Claims
    <3> QED
      BY <3>1, <1>4, FS_Subset
  <2> QED
    BY <2>1, <2>2, <1>4, <1>5, MoveEffect DEF SlotInv
<1>12. CASE AcquireFault(j)
  <2>1. /\ Goto(j, "acquiring", "working") /\ counter' \in {counter, counter + 1}
        /\ faults' = faults + 1
    BY <1>12 DEF AcquireFault, Fault
  <2> QED
    BY <2>1, <1>4, <1>5, MoveEffect DEF SlotInv
<1>13. CASE BackOff(j)
  <2>1. /\ Goto(j, "backing_off", "acquiring") /\ counter' = counter - 1
        /\ faults' = faults
    BY <1>13 DEF BackOff
  <2> QED
    BY <2>1, <1>4, <1>5, MoveEffect DEF SlotInv
<1>14. CASE BackOffFault(j)
  <2>1. /\ Goto(j, "backing_off", "working") /\ counter' \in {counter, counter - 1}
        /\ faults' = faults + 1
    BY <1>14 DEF BackOffFault, Fault
  <2> QED
    BY <2>1, <1>4, <1>5, MoveEffect DEF SlotInv
<1>15. CASE FinishWork(j)
  <2>1. Goto(j, "working", "releasing") /\ counter' = counter /\ faults' = faults
    BY <1>15 DEF FinishWork
  <2> QED
    BY <2>1, <1>4, <1>5, MoveEffect DEF SlotInv
<1>16. CASE Release(j)
  <2>1. /\ Goto(j, "releasing", "done") /\ faults' = faults
        /\ counter' = IF available[i] THEN counter - 1 ELSE counter
    BY <1>1, <1>16 DEF Release
  <2>2. Cardinality(BackingOff') <= Cardinality(Claims')
    <3>1. BackingOff' \subseteq Claims'
      BY DEF BackingOff, Claims
    <3>2. IsFiniteSet(Claims')
      BY <2>1, <1>4, MoveEffect DEF SlotInv
    <3> QED
      BY <3>1, <3>2, FS_Subset
  <2>3. CASE available[i]
    BY <2>1, <2>2, <2>3, <1>4, <1>5, MoveEffect DEF SlotInv
  <2>4. CASE ~available[i]
    BY <2>1, <2>4, <1>4, <1>5, MoveEffect DEF SlotInv
  <2> QED
    BY <2>3, <2>4
<1>17. CASE ReleaseFault(j)
  <2>1. /\ Goto(j, "releasing", "done") /\ faults' = faults + 1
        /\ counter' \in {counter, counter - 1}
    BY <1>17 DEF ReleaseFault, Fault
  <2> QED
    BY <2>1, <1>4, <1>5, MoveEffect DEF SlotInv
<1> QED
  BY <1>7, <1>8, <1>9, <1>10, <1>11, <1>12, <1>13, <1>14, <1>15, <1>16, <1>17
  DEF JobStep

(* A process that boots, dies or gives Redis up keeps it as well: it boots *)
(* with no claim, and its claims die with it.                              *)
LEMMA ProcessKeepsSlots ==
  ASSUME SingleInstance, SlotInv, TypeOK', NEW i \in Instances, ProcessStep(i)
  PROVE  SlotInv'
<1>1. Instances = {i} /\ \A k \in Jobs : InstanceOf[k] = i
  BY SlotsAssumption DEF SingleInstance
<1>2. up \in {{}, {i}}
  BY <1>1 DEF SlotInv, TypeOK
<1>3. /\ IsFiniteSet(Claims)
      /\ counter \in Int /\ faults \in Nat /\ MaxParallel \in Nat
      /\ Cardinality(Claims) \in Nat /\ Cardinality(BackingOff) \in Nat
  <2>1. BackingOff \subseteq Claims
    BY DEF BackingOff, Claims, ClaimPCs
  <2> QED
    BY <2>1, FS_Subset, FS_CardinalityType, SlotsAssumption DEF SlotInv, TypeOK
<1>4. ASSUME i \notin up
      PROVE  Claims = {} /\ Working = {} /\ BackingOff = {}
  BY <1>1, <1>4 DEF SlotInv, CounterCoversClaims, Claims, Working, BackingOff, ClaimPCs
<1>5. Cardinality({}) = 0
  BY FS_EmptySet
<1>6. CASE Boot(i)
  <2>1. /\ up' = {i} /\ counter' = 0 /\ pc' = pc /\ faults' = faults
        /\ available'[i] = TRUE
    BY <1>2, <1>6 DEF Boot, SlotInv, TypeOK
  <2>2. Claims' = {} /\ Working' = {} /\ BackingOff' = {}
    BY <1>4, <1>6, <2>1 DEF Boot, Claims, Working, BackingOff
  <2>3. CounterCoversClaims'
    BY <1>1, <1>3, <1>5, <2>1, <2>2 DEF CounterCoversClaims, Limited
  <2>4. WithinLimit'
    BY <1>3, <1>5, <2>1, <2>2 DEF WithinLimit
  <2> QED
    BY <2>2, <2>3, <2>4, FS_EmptySet DEF SlotInv
<1>7. CASE BootFault(i)
  <2>1. /\ up' = {i} /\ counter' = counter /\ pc' = pc /\ faults' = faults + 1
    BY <1>2, <1>7 DEF BootFault, Fault
  <2>2. Claims' = {} /\ Working' = {} /\ BackingOff' = {}
    BY <1>4, <1>7, <2>1 DEF BootFault, Claims, Working, BackingOff
  <2>3. counter + faults >= 0
    BY <1>4, <1>5, <1>7 DEF SlotInv, CounterCoversClaims, BootFault
  <2>4. CounterCoversClaims'
    BY <1>1, <1>3, <1>5, <2>1, <2>2, <2>3 DEF CounterCoversClaims
  <2>5. WithinLimit'
    BY <1>3, <1>5, <2>1, <2>2 DEF WithinLimit
  <2> QED
    BY <2>2, <2>4, <2>5, FS_EmptySet DEF SlotInv
<1>8. CASE Crash(i)
  <2>1. /\ up' = {} /\ counter' = counter /\ faults' = faults
        /\ \A k \in Jobs : pc'[k] \in {"idle", "done", "lost"}
    BY <1>1, <1>2, <1>8 DEF Crash, SlotInv, TypeOK
  <2>2. Claims' = {} /\ Working' = {} /\ BackingOff' = {}
    BY <2>1 DEF Claims, Working, BackingOff, ClaimPCs
  <2>3. counter + faults >= 0
    BY <1>3 DEF SlotInv, CounterCoversClaims
  <2>4. CounterCoversClaims'
    BY <1>3, <1>5, <2>1, <2>2, <2>3 DEF CounterCoversClaims, Limited
  <2>5. WithinLimit'
    BY <1>3, <1>5, <2>1, <2>2 DEF WithinLimit
  <2> QED
    BY <2>2, <2>4, <2>5, FS_EmptySet DEF SlotInv
<1>9. CASE LoseRedis(i)
  <2>1. /\ up' = {i} /\ counter' = counter /\ pc' = pc /\ faults' = faults + 1
        /\ up = {i} /\ available'[i] = FALSE
    BY <1>2, <1>9 DEF LoseRedis, Fault, SlotInv, TypeOK
  <2>2. Claims' = Claims /\ BackingOff' = BackingOff
    BY <2>1 DEF Claims, BackingOff
  <2>3. ~Limited'
    BY <2>1 DEF Limited
  <2>4. CounterCoversClaims'
    BY <1>1, <1>3, <2>1, <2>2, <2>3 DEF CounterCoversClaims, SlotInv
  <2> QED
    BY <2>2, <2>3, <2>4 DEF SlotInv, WithinLimit
<1> QED
  BY <1>6, <1>7, <1>8, <1>9 DEF ProcessStep

(* The strengthened invariant holds in every reachable state.              *)
LEMMA SlotInvariant ==
  ASSUME SingleInstance
  PROVE  Spec => []SlotInv
<1>1. Init => SlotInv
  <2> SUFFICES ASSUME Init PROVE SlotInv
    OBVIOUS
  <2>1. Claims = {} /\ Working = {} /\ BackingOff = {}
    BY DEF Init, Claims, Working, BackingOff, ClaimPCs
  <2>2. TypeOK
    BY SlotsAssumption DEF Init, TypeOK, PCs
  <2>3. IsFiniteSet(Claims) /\ Cardinality({}) = 0
    BY <2>1, FS_EmptySet
  <2> QED
    BY <2>1, <2>2, <2>3, SlotsAssumption
    DEF Init, SlotInv, CounterCoversClaims, WithinLimit, Limited
<1>2. SlotInv /\ [Next]_vars => SlotInv'
  <2> SUFFICES ASSUME SlotInv, [Next]_vars PROVE SlotInv'
    OBVIOUS
  <2>1. TypeOK'
    BY TypeStep DEF SlotInv
  <2>2. CASE UNCHANGED vars
    BY <2>2 DEF vars, SlotInv, TypeOK, CounterCoversClaims, WithinLimit, Limited,
       Claims, Working, BackingOff
  <2>3. CASE Next
    BY <2>1, <2>3, JobKeepsSlots, ProcessKeepsSlots DEF Next
  <2> QED
    BY <2>2, <2>3
<1> QED
  BY <1>1, <1>2, PTL DEF Spec

(* "Maximum 20 concurrent summary tasks": with one process on the Redis,   *)
(* never more than MaxParallel jobs work at once, plus one for every Redis *)
(* call that raised.                                                       *)
THEOREM LimitHolds ==
  ASSUME SingleInstance
  PROVE  Spec => []WithinLimit
<1>1. SlotInv => WithinLimit
  BY DEF SlotInv
<1> QED
  BY <1>1, SlotInvariant, PTL

(* With one process the counter never undercounts the slots that jobs hold *)
(* by more than the calls that raised, whatever jobs come, back off, go or *)
(* die with the process, and is exact if none has raised.                  *)
THEOREM CounterHolds ==
  ASSUME SingleInstance
  PROVE  Spec => []CounterCoversClaims
<1>1. SlotInv => CounterCoversClaims
  BY DEF SlotInv
<1> QED
  BY <1>1, SlotInvariant, PTL

-----------------------------------------------------------------------------
(* With one process SummarySlots implements the limiter of the docs: a job *)
(* is admitted below the limit or on an error, leaves, and loses its place *)
(* only with its process.                                                  *)
THEOREM ImplementsLimiter ==
  ASSUME SingleInstance
  PROVE  Spec => LimiterSpec
<1> PICK i : Instances = {i}
  BY DEF SingleInstance
<1>1. Init => Limiter!Init
  BY DEF Init, Limiter!Init, Working, Limited
<1>2. SlotInv /\ [Next]_vars => [Limiter!Next]_(Limiter!vars)
  <2> SUFFICES ASSUME SlotInv, [Next]_vars PROVE [Limiter!Next]_(Limiter!vars)
    OBVIOUS
  <2> USE DEF Limiter!Next, Limiter!vars
  <2>1. ASSUME NEW j \in Jobs, JobStep(j)
        PROVE  [Limiter!Next]_(Limiter!vars)
    <3>1. up = {i} /\ up' = up /\ InstanceOf[j] = i
      BY <2>1, SlotsAssumption DEF SlotInv, TypeOK, CounterCoversClaims, JobStep, Submit,
         TakePermit, AcquireUnlimited, AcquireSlot, OverLimit, AcquireFault,
         BackOff, BackOffFault, FinishWork, Release, ReleaseFault, Goto
    <3>2. (Limited <=> available[i]) /\ (Limited' <=> available[i])
      BY <2>1, <3>1 DEF Limited, JobStep, Submit, TakePermit,
         AcquireUnlimited, AcquireSlot, OverLimit, AcquireFault, BackOff,
         BackOffFault, FinishWork, Release, ReleaseFault
    <3>3. Limited' = Limited
      BY <3>2 DEF Limited
    <3>4. CASE Submit(j) \/ TakePermit(j) \/ OverLimit(j) \/ BackOff(j) \/ Release(j)
      <4>1. Working' = Working /\ faults' = faults
        BY <3>4 DEF SlotInv, TypeOK, Submit, TakePermit, OverLimit, BackOff,
           Release, Goto, Working
      <4> QED
        BY <4>1, <3>3
    <3>5. CASE AcquireUnlimited(j) \/ AcquireSlot(j)
      <4>1. /\ Working' = Working \cup {j} /\ j \notin Working /\ faults' = faults
        BY <3>5 DEF SlotInv, TypeOK, AcquireUnlimited, AcquireSlot, Goto, Working
      <4>2. Limited => Cardinality(Working) < MaxParallel + faults
        <5>1. Cardinality(Working) <= Cardinality(Claims) /\ Cardinality(Working) \in Nat
              /\ Cardinality(Claims) \in Nat
          <6>1. Working \subseteq Claims
            BY DEF Working, Claims, ClaimPCs
          <6> QED
            BY <6>1, FS_Subset, FS_CardinalityType DEF SlotInv
        <5>2. Limited => counter + 1 <= MaxParallel
          BY <3>1, <3>2, <3>5 DEF AcquireUnlimited, AcquireSlot
        <5>3. Limited => counter + faults >= Cardinality(Claims)
          BY <3>1 DEF SlotInv, CounterCoversClaims
        <5> QED
          BY <5>1, <5>2, <5>3, SlotsAssumption DEF SlotInv, TypeOK
      <4>3. Limiter!Cardinality(Working) = Cardinality(Working)
        BY DEF Limiter!Cardinality, Cardinality
      <4> QED
        BY <4>1, <4>2, <4>3, <3>3 DEF Limiter!Admit
    <3>6. CASE AcquireFault(j) \/ BackOffFault(j)
      <4>1. /\ Working' = Working \cup {j} /\ j \notin Working /\ faults' = faults + 1
        BY <3>6 DEF SlotInv, TypeOK, AcquireFault, BackOffFault, Fault, Goto, Working
      <4> QED
        BY <4>1, <3>3 DEF Limiter!AdmitOnError
    <3>7. CASE FinishWork(j)
      <4>1. /\ Working' = Working \ {j} /\ j \in Working /\ faults' = faults
        BY <3>7 DEF SlotInv, TypeOK, FinishWork, Goto, Working
      <4> QED
        BY <4>1, <3>3 DEF Limiter!Leave
    <3>8. CASE ReleaseFault(j)
      <4>1. /\ Working' = Working /\ faults' = faults + 1
        BY <3>8 DEF SlotInv, TypeOK, ReleaseFault, Fault, Goto, Working
      <4> QED
        BY <4>1, <3>3 DEF Limiter!CounterError
    <3> QED
      BY <2>1, <3>4, <3>5, <3>6, <3>7, <3>8 DEF JobStep
  <2>2. CASE Boot(i)
    <3>1. Working' = Working /\ faults' = faults /\ Limited /\ Limited'
      BY <2>2 DEF Boot, SlotInv, TypeOK, Working, Limited
    <3>2. Limited' = Limited
      BY <3>1 DEF Limited
    <3> QED
      BY <3>1, <3>2
  <2>3. CASE BootFault(i)
    <3>1. Working' = Working /\ faults' = faults + 1 /\ Limited
      BY <2>3 DEF BootFault, Fault, SlotInv, TypeOK, Working, Limited
    <3>2. Limited' \in {Limited, FALSE}
      BY <3>1 DEF Limited
    <3> QED
      BY <3>1, <3>2 DEF Limiter!CounterError
  <2>4. CASE Crash(i)
    <3>1. Working' = {} /\ faults' = faults /\ Limited'
      BY <2>4, SlotsAssumption DEF Crash, SlotInv, TypeOK, Working, Limited
    <3>2. Limited' = TRUE
      BY <3>1 DEF Limited
    <3> QED
      BY <3>1, <3>2 DEF Limiter!Restart
  <2>5. CASE LoseRedis(i)
    <3>1. Working' = Working /\ faults' = faults + 1 /\ ~Limited'
      BY <2>5 DEF LoseRedis, Fault, SlotInv, TypeOK, Working, Limited
    <3>2. Limited' = FALSE
      BY <3>1 DEF Limited
    <3> QED
      BY <3>1, <3>2 DEF Limiter!CounterError
  <2>6. CASE UNCHANGED vars
    <3>1. Working' = Working /\ faults' = faults /\ Limited' = Limited
      BY <2>6 DEF vars, Working, Limited
    <3> QED
      BY <3>1
  <2> QED
    BY <2>1, <2>2, <2>3, <2>4, <2>5, <2>6 DEF Next, ProcessStep
<1>3. Spec => []SlotInv
  BY SlotInvariant
<1> QED
  BY <1>1, <1>2, <1>3, PTL DEF Spec, LimiterSpec, Limiter!Spec
=============================================================================
