---------------------------- MODULE SummarySlots ----------------------------
(***************************************************************************)
(* The Redis counter that limits how many document summaries are generated *)
(* at once (nvidia_rag/utils/summarization.py).  Every ingestor process    *)
(* runs its summary jobs as asyncio tasks.  A job first takes a permit of  *)
(* the process' own semaphore, then polls the shared counter: INCR, and if *)
(* the answer is over the limit DECR again and sleep.  INCR and DECR run   *)
(* in threads, so the jobs of all processes interleave between them.       *)
(***************************************************************************)
EXTENDS Integers, FiniteSets

CONSTANTS
  Instances,     \* the ingestor processes that share one Redis
  Jobs,          \* the files to summarise
  InstanceOf,    \* the process that runs a job
  MaxParallel,   \* config.summarizer.max_parallelization
  LocalPermits,  \* permits of the semaphore of one process (1000)
  MaxFaults,     \* bound: Redis calls that fail
  MaxCrashes     \* bound: processes that die

ASSUME SlotsAssumption ==
  /\ InstanceOf \in [Jobs -> Instances]
  /\ MaxParallel \in Nat \ {0}
  /\ LocalPermits \in Nat \ {0}
  /\ MaxFaults \in Nat
  /\ MaxCrashes \in Nat

VARIABLES
  counter,    \* the Redis key summary:global:active_count
  up,         \* the processes that are running
  available,  \* SUMMARY_STATUS_HANDLER._redis_available of each process
  pc,         \* where _process_single_file_summary of each job stands
  faults,     \* Redis calls that failed so far
  crashes     \* processes that died so far

vars == <<counter, up, available, pc, faults, crashes>>

PCs == {"idle",         \* not uploaded yet
        "queued",       \* waits for the permit of its process
        "acquiring",    \* has the permit, is to ask for a global slot
        "backing_off",  \* its INCR came back over the limit, DECR is due
        "working",      \* generates the summary
        "releasing",    \* gave the permit back, DECR is due
        "done",
        "lost"}         \* its process died

Working == {j \in Jobs : pc[j] = "working"}

(* The jobs whose INCR is not matched by a DECR yet.                       *)
ClaimPCs == {"backing_off", "working", "releasing"}
Claims == {j \in Jobs : pc[j] \in ClaimPCs}
BackingOff == {j \in Jobs : pc[j] = "backing_off"}

PermitHolders(i) ==
  {j \in Jobs : /\ InstanceOf[j] = i
                /\ pc[j] \in {"acquiring", "backing_off", "working"}}

TypeOK ==
  /\ counter \in Int
  /\ up \in SUBSET Instances
  /\ available \in [Instances -> BOOLEAN]
  /\ pc \in [Jobs -> PCs]
  /\ faults \in 0..MaxFaults
  /\ crashes \in 0..MaxCrashes

Init ==
  /\ counter = 0
  /\ up = {}
  /\ available = [i \in Instances |-> FALSE]
  /\ pc = [j \in Jobs |-> "idle"]
  /\ faults = 0
  /\ crashes = 0

-----------------------------------------------------------------------------
Goto(j, from, to) == pc[j] = from /\ pc' = [pc EXCEPT ![j] = to]

(* A Redis call that raises; the server may or may not have executed it.   *)
Fault == faults < MaxFaults /\ faults' = faults + 1

(* Importing the module: the handler pings Redis, the counter is deleted.  *)
Boot(i) ==
  /\ i \notin up
  /\ up' = up \cup {i}
  /\ available' = [available EXCEPT ![i] = TRUE]
  /\ counter' = 0
  /\ UNCHANGED <<pc, faults, crashes>>

(* The ping or the delete fails: the counter stays as it was.              *)
BootFault(i) ==
  /\ i \notin up
  /\ Fault
  /\ up' = up \cup {i}
  /\ \E answered \in BOOLEAN : available' = [available EXCEPT ![i] = answered]
  /\ UNCHANGED <<counter, pc, crashes>>

(* The process dies with all its tasks; nobody gives their slots back.     *)
Crash(i) ==
  /\ i \in up
  /\ crashes < MaxCrashes
  /\ crashes' = crashes + 1
  /\ up' = up \ {i}
  /\ pc' = [j \in Jobs |-> IF InstanceOf[j] = i /\ pc[j] \notin {"idle", "done"}
                           THEN "lost" ELSE pc[j]]
  /\ UNCHANGED <<counter, available, faults>>

(* A status write of the process fails: it gives Redis up for good.        *)
LoseRedis(i) ==
  /\ i \in up
  /\ available[i]
  /\ Fault
  /\ available' = [available EXCEPT ![i] = FALSE]
  /\ UNCHANGED <<counter, up, pc, crashes>>

-----------------------------------------------------------------------------
Submit(j) ==
  /\ InstanceOf[j] \in up
  /\ Goto(j, "idle", "queued")
  /\ UNCHANGED <<counter, up, available, faults, crashes>>

TakePermit(j) ==
  /\ Cardinality(PermitHolders(InstanceOf[j])) < LocalPermits
  /\ Goto(j, "queued", "acquiring")
  /\ UNCHANGED <<counter, up, available, faults, crashes>>

(* acquire_global_summary_slot without Redis: go ahead.                    *)
AcquireUnlimited(j) ==
  /\ ~available[InstanceOf[j]]
  /\ Goto(j, "acquiring", "working")
  /\ UNCHANGED <<counter, up, available, faults, crashes>>

(* INCR answers within the limit.                                          *)
AcquireSlot(j) ==
  /\ available[InstanceOf[j]]
  /\ counter + 1 <= MaxParallel
  /\ Goto(j, "acquiring", "working")
  /\ counter' = counter + 1
  /\ UNCHANGED <<up, available, faults, crashes>>

(* Fault: the answer of acquire_global_summary_slot is not looked at.      *)
OverLimitIgnored(j) ==
  /\ available[InstanceOf[j]]
  /\ counter + 1 > MaxParallel
  /\ Goto(j, "acquiring", "working")
  /\ counter' = counter + 1
  /\ UNCHANGED <<up, available, faults, crashes>>

(* INCR answers over the limit: the claim stands until the DECR.           *)
OverLimit(j) ==
  /\ available[InstanceOf[j]]
  /\ counter + 1 > MaxParallel
  /\ Goto(j, "acquiring", "backing_off")
  /\ counter' = counter + 1
  /\ UNCHANGED <<up, available, faults, crashes>>

AcquireFault(j) ==
  /\ available[InstanceOf[j]]
  /\ Fault
  /\ Goto(j, "acquiring", "working")
  /\ counter' \in {counter, counter + 1}
  /\ UNCHANGED <<up, available, crashes>>

(* Fault: a refused job keeps its claim.                                   *)
BackOffLeaks(j) ==
  /\ Goto(j, "backing_off", "acquiring")
  /\ UNCHANGED <<counter, up, available, faults, crashes>>

(* The DECR of a refused job, which then polls again.                      *)
BackOff(j) ==
  /\ Goto(j, "backing_off", "acquiring")
  /\ counter' = counter - 1
  /\ UNCHANGED <<up, available, faults, crashes>>

(* The DECR of a refused job raises: the handler lets the job proceed.     *)
BackOffFault(j) ==
  /\ Fault
  /\ Goto(j, "backing_off", "working")
  /\ counter' \in {counter, counter - 1}
  /\ UNCHANGED <<up, available, crashes>>

(* The summary is stored or has failed; the permit is given back first.    *)
FinishWork(j) ==
  /\ Goto(j, "working", "releasing")
  /\ UNCHANGED <<counter, up, available, faults, crashes>>

(* Fault: the slot is not given back when the summary is done.             *)
ReleaseForgotten(j) ==
  /\ Goto(j, "releasing", "done")
  /\ UNCHANGED <<counter, up, available, faults, crashes>>

(* release_global_summary_slot: no DECR once Redis is given up.            *)
Release(j) ==
  /\ Goto(j, "releasing", "done")
  /\ counter' = IF available[InstanceOf[j]] THEN counter - 1 ELSE counter
  /\ UNCHANGED <<up, available, faults, crashes>>

ReleaseFault(j) ==
  /\ available[InstanceOf[j]]
  /\ Fault
  /\ Goto(j, "releasing", "done")
  /\ counter' \in {counter, counter - 1}
  /\ UNCHANGED <<up, available, crashes>>

-----------------------------------------------------------------------------
JobStep(j) ==
  \/ Submit(j) \/ TakePermit(j)
  \/ AcquireUnlimited(j) \/ AcquireSlot(j) \/ OverLimit(j) \/ AcquireFault(j)
  \/ BackOff(j) \/ BackOffFault(j)
  \/ FinishWork(j) \/ Release(j) \/ ReleaseFault(j)

ProcessStep(i) == Boot(i) \/ BootFault(i) \/ Crash(i) \/ LoseRedis(i)

Next == (\E j \in Jobs : JobStep(j)) \/ (\E i \in Instances : ProcessStep(i))

Spec == Init /\ [][Next]_vars

(* The event loop runs every ready task, and the LLM calls of a summary    *)
(* return; nothing obliges anybody to upload, to boot, to fail or to die.  *)
JobProgress(j) ==
  \/ TakePermit(j)
  \/ AcquireUnlimited(j) \/ AcquireSlot(j) \/ OverLimit(j)
  \/ BackOff(j) \/ FinishWork(j) \/ Release(j)

FairSpec == Spec /\ \A j \in Jobs : WF_vars(JobProgress(j))

-----------------------------------------------------------------------------
(* Every running process still talks to Redis.                             *)
Limited == \A i \in up : available[i]

(* "Maximum 20 concurrent summary tasks across all workers"                *)
(* (docs/summarization.md:352): no more than MaxParallel jobs work at once, *)
(* plus one for every Redis call that raised.                              *)
WithinLimit == Limited => Cardinality(Working) <= MaxParallel + faults

(* The counter never undercounts the claims by more than the calls that    *)
(* raised, and is exact without them, which is what lets the DECR of one   *)
(* job never take the slot of another; a process that is down runs no job, *)
(* and only an error makes a process give Redis up.                        *)
CounterCoversClaims ==
  /\ \A j \in Jobs : InstanceOf[j] \notin up => pc[j] \in {"idle", "done", "lost"}
  /\ faults = 0 => Limited
  /\ counter + faults >= Cardinality(BackingOff)
  /\ (up # {} /\ Limited) => counter + faults >= Cardinality(Claims)
  /\ (up # {} /\ faults = 0) => counter = Cardinality(Claims)

(* Retries that do not overlap the DECR of another refused job: the 0.5 s  *)
(* sleep of the poll is far longer than a round trip to Redis.             *)
PacedRetry ==
  \A j \in Jobs : (pc[j] = "acquiring" /\ pc'[j] # "acquiring")
                    => \A k \in Jobs : pc[k] # "backing_off"

(* Without errors of Redis, and once retries are paced, every job that     *)
(* waits for a slot gets one: no slot leaks, whatever jobs come and go and *)
(* however often the process restarts.                                     *)
EveryJobServed ==
  ([](faults = 0) /\ <>[][PacedRetry]_vars) =>
     \A j \in Jobs : pc[j] = "queued" ~> pc[j] \in {"working", "releasing", "done", "lost"}

(* The implementation of the limiter that the docs promise.                *)
Limiter == INSTANCE CountingLimiter
             WITH Limit <- MaxParallel, active <- Working,
                  limited <- Limited, errors <- faults

LimiterSpec == Limiter!Spec
=============================================================================
