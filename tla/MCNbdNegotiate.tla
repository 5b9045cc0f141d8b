--------------------------- MODULE MCNbdNegotiate ---------------------------
(* An instance of NbdNegotiate for TLC: the values around every comparison   *)
(* of the code.                                                              *)
EXTENDS NbdNegotiate, TLC

Props(blockSize, blockCount, skip, features) ==
  [BlockSize |-> blockSize, BlockCount |-> blockCount, SkipNegotiation |-> skip,
   Features |-> features]

MCAsked ==
  {Props(0, 0, FALSE, {}), Props(512, 2, FALSE, {"READ_ONLY"}), Props(4096, 2, FALSE, {}),
   Props(512, 3, TRUE, {"READ_ONLY"}), Props(0, 4194304, TRUE, {}), Props(512, 0, TRUE, {})}

Limits(minimum, maximum) == [Received |-> TRUE, Minimum |-> minimum, Maximum |-> maximum]

MCLimits ==
  {NoConstraints, Limits(0, 0), Limits(1, 33554432), Limits(512, 2097152), Limits(512, 2097151),
   Limits(300, 0), Limits(1024, 0)}

MCFlags ==
  {{}, {"READ_ONLY", "SEND_TRIM"}, {"HAS_FLAGS", "READ_ONLY", "SEND_FLUSH"}, {"HAS_FLAGS", "SEND_TRIM", "SEND_FUA"}}

MCServers ==
  [GFlags : SUBSET GlobalFlags, OptGo : BOOLEAN, Refusal : {"none"}, Size : {511, 1535},
   Flags : MCFlags, limits : MCLimits]
  \cup [GFlags : {{"FIXED_NEWSTYLE"}}, OptGo : BOOLEAN, Refusal : Refusals, Size : {1535},
        Flags : {{}}, limits : {NoConstraints}]

MCReplies ==
  {Plain(kind) : kind \in PlainReplies}
  \cup {InfoExport(size, {"HAS_FLAGS"}) : size \in {0, 1024}}
  \cup {InfoBlockSize(limits) : limits \in {Limits(512, 0), Limits(1024, 0)}}

MCExports == {Sizes(size, flags) : size \in {0, 1024}, flags \in {{}, ExportFlags}}
=============================================================================
