--------------------------- MODULE MCOutputBuffer ---------------------------
(* OutputBuffer for TLC: the configurations give the sizes, with chunks    *)
(* that are smaller than, equal to and larger than half of the capacity.   *)
EXTENDS OutputBuffer
=============================================================================
