--------------------------- MODULE MCWnbdRequests ---------------------------
(* Instances of WnbdRequests for TLC.                                        *)
EXTENDS WnbdRequestsService, TLC

\* SRBs and elements of one kind are interchangeable.
Symmetry == Permutations(CopySrbs) \cup Permutations(Srbs \ CopySrbs)
              \cup Permutations(Fetchers) \cup Permutations(Responders)
=============================================================================
