--------------------------- MODULE MCSampleQueue ----------------------------
(* SampleQueue with the limits scaled down: LIMIT and REMAINDER keep the     *)
(* shape of 10 and 5 (a trim pops two or more), MaxSamples lets the backlog  *)
(* be trimmed twice.                                                         *)
EXTENDS SampleQueue
=============================================================================
