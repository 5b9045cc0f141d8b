----------------------------- MODULE MCScsiDisk -----------------------------
(* ScsiDisk with blocks of 2 bytes, a ULONG of 16 values and a UINT64 of 64. *)
EXTENDS ScsiDisk

MCFlags(r, f, u, a, p, n) ==
  [ReadOnly |-> r, FlushSupported |-> f, UnmapSupported |-> u, FUASupported |-> a,
   PersistResSupported |-> p, NaaIdSize |-> n]
MCFlagSets ==
  {MCFlags(FALSE, TRUE, TRUE, TRUE, TRUE, 16), MCFlags(TRUE, TRUE, TRUE, FALSE, TRUE, 8),
   MCFlags(FALSE, FALSE, FALSE, FALSE, FALSE, 0)}

\* Around the end of the disk, the 32-bit limits and the wrap of a 64-bit sum.
MCRange(op, form, lba, blocks, fua, extra) ==
  [Op |-> op, Form |-> form, Lba |-> lba, Blocks |-> blocks, FUA |-> fua,
   TransferLength |-> IF op = "SYNCHRONIZE_CACHE" THEN 0
                      ELSE (IF form = 6 /\ blocks = 0 THEN 4 ELSE blocks) * 2 + extra]
MCRangeSrbs ==
  {MCRange(op, form, lba, blocks, fua, extra) :
     op \in {"READ", "WRITE"}, form \in {6, 10}, lba \in {0, 12, 15}, blocks \in {0, 1, 4},
     fua \in {TRUE}, extra \in {0}}
  \cup {MCRange(op, 16, lba, blocks, fua, extra) :
     op \in {"READ", "WRITE"}, lba \in {16, 63}, blocks \in {1, 4}, fua \in BOOLEAN,
     extra \in {0, 2}}
  \cup {MCRange("SYNCHRONIZE_CACHE", 16, lba, blocks, FALSE, 0) :
     lba \in {0, 63}, blocks \in {0, 15}}
MCUnmap(lba, blocks, length, anchor, missing) ==
  [Op |-> "UNMAP", Form |-> 16, Lba |-> lba, Blocks |-> blocks, FUA |-> FALSE,
   TransferLength |-> 8 + length - missing, BlockDescLength |-> length, Anchor |-> anchor]
MCUnmapSrbs ==
  {MCUnmap(lba, blocks, 16, FALSE, 0) : lba \in {0, 17, 63}, blocks \in {1, 7, 8, 15}}
  \cup {MCUnmap(0, 1, length, FALSE, 0) : length \in {0, 8, 24, 32}}
  \cup {MCUnmap(0, 1, 0, TRUE, 0), MCUnmap(0, 1, 16, FALSE, 1), MCUnmap(0, 1, 0, FALSE, 1)}
MCReserveSrbs ==
  {[Op |-> op, Form |-> 10, Lba |-> 0, Blocks |-> 0, FUA |-> FALSE, TransferLength |-> length] :
     op \in {"PERSISTENT_RESERVE_IN", "PERSISTENT_RESERVE_OUT"}, length \in {8, 11}}
MCQueuedSrbs == MCRangeSrbs \cup MCUnmapSrbs \cup MCReserveSrbs

MCEmulated(op, page, length) == [Op |-> op, Page |-> page, TransferLength |-> length, Buffer |-> TRUE]
MCEmulatedSrbs ==
  {MCEmulated("INQUIRY", page, length) : length \in {7, 64},
     page \in {"VPD_SUPPORTED_PAGES", "VPD_LOGICAL_BLOCK_PROVISIONING",
               "VPD_DEVICE_IDENTIFIERS", "unknown"}}
  \cup {MCEmulated("INQUIRY", "VPD_SERIAL_NUMBER", length) : length \in {6, 7}}
  \cup {MCEmulated("INQUIRY", "VPD_BLOCK_LIMITS", length) : length \in {63, 64}}
  \cup {MCEmulated("MODE_SENSE", "MODE_PAGE_CACHING", length) : length \in {23, 24}}
  \cup {MCEmulated("MODE_SENSE10", page, 28) :
          page \in {"MODE_SENSE_RETURN_ALL", "MODE_SENSE_CHANGEABLE_VALUES"}}
  \cup {MCEmulated("READ_CAPACITY", "none", length) : length \in {7, 8}}
  \cup {MCEmulated("READ_CAPACITY16", "none", length) : length \in {11, 12, 16, 32}}
  \cup {MCEmulated("INQUIRY", "none", length) : length \in {35, 36}}
  \cup {MCEmulated("REPORT_LUNS", "none", length) : length \in {15, 16}}
  \cup {MCEmulated("INQUIRY", "page without EVPD", 64), MCEmulated("VERIFY", "none", 0),
        MCEmulated("READ_CAPACITY16", "wrong service action", 32),
        MCEmulated("FORMAT_UNIT", "none", 0),
        [MCEmulated("MODE_SENSE", "MODE_PAGE_CACHING", 24) EXCEPT !.Buffer = FALSE]}
=============================================================================
