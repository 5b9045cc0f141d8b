--------------------------- MODULE MCWnbdOptions ---------------------------
(* Two options, one of each type, and two callers. *)
EXTENDS WnbdOptions, TLC

MCDefault == [LogLevel |-> 1, NewMappingsAllowed |-> 1]
CallerSymmetry == Permutations(Callers)
=============================================================================
