----------------------------- MODULE MCOlagsaGA -----------------------------
(* Two species on a line: a point lies in one of them, or where they touch. *)
EXTENDS OlagsaGA

TouchingSegments == {{1}, {2}, {1, 2}}
=============================================================================
