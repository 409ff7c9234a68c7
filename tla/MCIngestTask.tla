---------------------------- MODULE MCIngestTask ----------------------------
(* Uploads of three files for TLC.                                         *)
EXTENDS IngestTask

NoUnsupported == {}
FirstUnsupported == {1}
=============================================================================
