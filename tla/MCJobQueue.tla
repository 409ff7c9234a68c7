----------------------------- MODULE MCJobQueue -----------------------------
(* Deployments of the queued .NET ingestor for TLC.                        *)
EXTENDS JobQueue

CONSTANTS api, worker, j1, j2

Two == {api, worker}
JobPair == {j1, j2}
=============================================================================
