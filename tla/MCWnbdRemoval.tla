--------------------------- MODULE MCWnbdRemoval ---------------------------
(* Instances of WnbdRemoval for TLC.                                        *)
EXTENDS WnbdRemoval

\* Both disks have one name: the second is mapped after the first is gone, or
\* while its creation is under way.
OneName == [d \in Disks |-> "a"]

MCRemoveOptions(hard, fallback, timeout) ==
  [HardRemove |-> hard, HardRemoveFallback |-> fallback, Timeout |-> timeout]
MCOptions == {MCRemoveOptions(FALSE, FALSE, 1), MCRemoveOptions(FALSE, TRUE, 0),
              MCRemoveOptions(TRUE, FALSE, 0)}
=============================================================================
