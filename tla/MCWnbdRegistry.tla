--------------------------- MODULE MCWnbdRegistry ---------------------------
(* Instances of WnbdRegistry for TLC.                                        *)
EXTENDS WnbdRegistry, TLC

CONSTANTS c1, c2, c3

\* The second mapping asks for the name of the first.
TwoOneName == (c1 :> "disk") @@ (c2 :> "disk")
\* Two mappings of different names.
TwoNames == (c1 :> "disk") @@ (c3 :> "other")
=============================================================================
