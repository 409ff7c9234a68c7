-------------------------- MODULE CountingLimiter --------------------------
(***************************************************************************)
(* What docs/summarization.md promises of the global rate limit on summary *)
(* jobs: at most Limit of them work at once as long as the shared counter  *)
(* answers, every error of the counter can cost one extra job, and a       *)
(* limiter that lost the counter admits everybody until it is restarted.   *)
(***************************************************************************)
EXTENDS Naturals, FiniteSets

CONSTANTS Jobs,   \* the summary jobs
          Limit   \* how many of them may work at once

VARIABLES active,   \* the jobs at work
          limited,  \* FALSE once the shared counter is given up
          errors    \* how many calls of the counter failed so far

vars == <<active, limited, errors>>

Init == active = {} /\ limited = TRUE /\ errors = 0

(* A job starts to work; while the limiter works, only below the limit.    *)
Admit(j) ==
  /\ j \notin active
  /\ limited => Cardinality(active) < Limit + errors
  /\ active' = active \cup {j}
  /\ UNCHANGED <<limited, errors>>

(* The counter fails while a job asks: the job is let in all the same.     *)
AdmitOnError(j) ==
  /\ j \notin active
  /\ active' = active \cup {j}
  /\ errors' = errors + 1
  /\ UNCHANGED limited

Leave(j) ==
  /\ j \in active
  /\ active' = active \ {j}
  /\ UNCHANGED <<limited, errors>>

(* The counter fails in a call that admits nobody, and may be given up.    *)
CounterError ==
  /\ errors' = errors + 1
  /\ limited' \in {limited, FALSE}
  /\ UNCHANGED active

(* The process ends: its jobs go with it, the limiter will be a fresh one. *)
Restart ==
  /\ active' = {}
  /\ limited' = TRUE
  /\ UNCHANGED errors

Next ==
  \/ \E j \in Jobs : Admit(j) \/ AdmitOnError(j) \/ Leave(j)
  \/ CounterError
  \/ Restart

Spec == Init /\ [][Next]_vars
=============================================================================
