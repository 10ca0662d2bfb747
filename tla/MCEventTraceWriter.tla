------------------------- MODULE MCEventTraceWriter -------------------------
(* Two thread ids, two phases of which any may be ignored.                 *)
EXTENDS EventTraceWriter
=============================================================================
