----------------------------- MODULE WorkQueue ------------------------------
(***************************************************************************)
(* What a queue of ingestion jobs promises: a job that is put in is taken  *)
(* by one worker, worked on at most once, and never comes back.  It does   *)
(* not promise that a job which was taken is ended.                        *)
(***************************************************************************)
EXTENDS Naturals

CONSTANT Jobs

VARIABLES stage,  \* where each job stands
          work    \* how often each job was worked on

vars == <<stage, work>>

Init == stage = [j \in Jobs |-> "absent"] /\ work = [j \in Jobs |-> 0]

Move(j, from, to) ==
  /\ stage[j] = from
  /\ stage' = [stage EXCEPT ![j] = to]
  /\ work' = work

Put(j) == Move(j, "absent", "waiting")
Take(j) == Move(j, "waiting", "taken")
End(j) == Move(j, "taken", "ended")

Work(j) ==
  /\ stage[j] = "taken"
  /\ work[j] = 0
  /\ work' = [work EXCEPT ![j] = 1]
  /\ stage' = stage

Next == \E j \in Jobs : Put(j) \/ Take(j) \/ Work(j) \/ End(j)

Spec == Init /\ [][Next]_vars
=============================================================================
