----------------------------- MODULE MCMarkSweep -----------------------------
(* A heap small enough that arrays are freed, split and coalesced.          *)
EXTENDS MarkSweep

MCSizeClasses == <<1, 2>>
=============================================================================
