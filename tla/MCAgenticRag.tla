---------------------------- MODULE MCAgenticRag ----------------------------
(* A small agent for TLC.                                                  *)
EXTENDS AgenticRag

CONSTANTS t1, t2

TwoTasks == {t1, t2}
OneTask == {t1}
Both == {TRUE, FALSE}
(* One step too few for two scope rounds and a verification, and just as   *)
(* many as they need, the step that finds the end included.                *)
Around == {11, 12}
=============================================================================
