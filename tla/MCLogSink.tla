------------------------------ MODULE MCLogSink ------------------------------
(* LogSink on small instances; no symmetry, the run checks liveness. *)
EXTENDS LogSink
=============================================================================
