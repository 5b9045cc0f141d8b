------------------------------ MODULE ScsiDisk ------------------------------
(***************************************************************************)
(* What the SCSI commands of one disk do to its data: scsi_operation.c and *)
(* srb_helper.h decode a command and check its range, wnbd_dispatch.c and  *)
(* util.c turn it into a request, libwnbd dispatches the request to a      *)
(* callback, and the NBD daemon turns it into a command for the server.    *)
(* Lengths and addresses change unit (blocks, bytes) and width (8, 32, 64  *)
(* bits) on the way.  Commands the driver answers itself (INQUIRY, MODE    *)
(* SENSE, READ CAPACITY, REPORT LUNS) tell the host what it may ask for.   *)
(*                                                                         *)
(* One queued command is followed at a time: threads and queues are the    *)
(* subject of WnbdRequests.  The disk may be resized at any moment.        *)
(***************************************************************************)
EXTENDS Integers

CONSTANTS
  BlockSize,          \* bytes per block (512)
  UCharSpan,          \* 2^8, scaled
  ULongSpan,          \* 2^32, scaled
  UInt64Span,         \* 2^64, scaled
  MaxTransferLength,  \* WNBD_DEFAULT_MAX_TRANSFER_LENGTH
  Sizes,              \* the block counts the disk may have
  FlagSets,           \* the WNBD_FLAGS the disk may be created with
  SerialLengths,      \* strlen of its serial number
  Interface,          \* the callbacks the userspace process implements
  QueuedSrbs,         \* the commands WnbdPendOperation is given
  EmulatedSrbs        \* the commands the driver answers itself

ASSUME WidthsAssumption ==
  /\ {BlockSize, UCharSpan, ULongSpan, UInt64Span} \subseteq Nat \ {0}
  /\ ULongSpan % BlockSize = 0 /\ UInt64Span % ULongSpan = 0
  /\ MaxTransferLength \in 0..(ULongSpan - 1)
  /\ Sizes \subseteq 0..(UInt64Span - 1)
  /\ SerialLengths \subseteq 0..(UCharSpan - 1)

RangeOps == {"READ", "WRITE", "SYNCHRONIZE_CACHE"}
DataOps  == {"INQUIRY", "MODE_SENSE", "MODE_SENSE10", "READ_CAPACITY", "READ_CAPACITY16",
             "REPORT_LUNS"}

\* The WNBD_FLAGS the model looks at, and the size of the NAA identifier (0: none).
ASSUME FlagsAssumption ==
  FlagSets \subseteq [ReadOnly : BOOLEAN, FlushSupported : BOOLEAN, UnmapSupported : BOOLEAN,
                      FUASupported : BOOLEAN, PersistResSupported : BOOLEAN, NaaIdSize : Nat]

\* The process behind an NBD disk implements these callbacks (NbdDaemon::WnbdInterface).
ASSUME InterfaceAssumption == {"Read", "Write", "Flush", "Unmap"} \subseteq Interface

\* The blocks a command names, by the SCSI standard.
Named(c) == IF c.Form = 6 /\ c.Blocks = 0 THEN UCharSpan ELSE c.Blocks

\* A range command is wide enough for its fields, and StorPort never gives it a
\* buffer that is shorter than the blocks it names or longer than the limit the
\* adapter was registered with; a flush has no buffer.
AddressSpan(c) == IF c.Form = 16 THEN UInt64Span ELSE ULongSpan

ASSUME SrbsAssumption ==
  \A c \in QueuedSrbs :
    /\ c.Op \in RangeOps \cup {"UNMAP", "PERSISTENT_RESERVE_IN", "PERSISTENT_RESERVE_OUT"}
    /\ c.Lba \in 0..(AddressSpan(c) - 1) /\ c.Blocks \in 0..(ULongSpan - 1)
    /\ c.FUA \in BOOLEAN /\ c.TransferLength \in Nat
    /\ c.Op = "READ" \/ c.Op = "WRITE" =>
         /\ c.TransferLength <= MaxTransferLength
         /\ Named(c) * BlockSize <= c.TransferLength
    /\ c.Op = "SYNCHRONIZE_CACHE" => c.TransferLength = 0
    /\ c.Op = "UNMAP" => c.BlockDescLength \in Nat /\ c.Anchor \in BOOLEAN

VARIABLES
  BlockCount,    \* Device->Properties.BlockCount
  Flags,         \* Device->Properties.Flags
  SerialLength,
  told,          \* what the host learnt from the answers it was given last
  pc,            \* where the queued command is
  Srb,           \* the command
  sizeThen,      \* ghost: BlockCount when the command was started, and ...
  promised,      \* ... whether what the host was told allows the command
  Element,       \* SRB_QUEUE_ELEMENT
  Request,       \* WNBD_IO_REQUEST
  wire,          \* the NBD commands sent for it
  SrbStatus

vars == <<BlockCount, Flags, SerialLength, told, pc, Srb, sizeThen, promised,
          Element, Request, wire, SrbStatus>>
diskVars == <<BlockCount, Flags, SerialLength>>
pathVars == <<pc, Srb, sizeThen, promised, Element, Request, wire, SrbStatus>>

Untold    == [MaxLba |-> -1, WriteProtect |-> "untold", WriteCacheEnable |-> "untold",
              DpoFua |-> "untold", Lbpu |-> "untold"]
NoSrb     == [Op |-> "none"]
NoElement == [StartingLbn |-> 0, DataLength |-> 0, FUA |-> FALSE]
NoRequest == [RequestType |-> "none", BlockAddress |-> 0, BlockCount |-> 0, FUA |-> FALSE]

Init ==
  /\ BlockCount \in {n \in Sizes : 0 < n /\ n <= (UInt64Span - 1) \div BlockSize}
  /\ Flags \in FlagSets
  /\ SerialLength \in SerialLengths
  /\ told = Untold
  /\ pc = "idle"
  /\ Srb = NoSrb
  /\ sizeThen = 0
  /\ promised = FALSE
  /\ Element = NoElement
  /\ Request = NoRequest
  /\ wire = {}
  /\ SrbStatus = "none"

-----------------------------------------------------------------------------
(* Commands the driver answers itself.  An answer is its status, the length *)
(* it sets, and the fields a host acts on.                                  *)

YesNo(b) == IF b THEN "yes" ELSE "no"

Failed(status) == [Status |-> status, Length |-> 0, PageLength |-> 0, Tells |-> told]
Answer(length) == [Status |-> "SUCCESS", Length |-> length, PageLength |-> 0, Tells |-> told]

\* Answers that need length bytes are refused when the buffer is shorter.
Checked(c, answer, status) == IF c.TransferLength < answer.Length THEN Failed(status) ELSE answer

\* Mutation: the number of blocks is reported instead of the last address.
WnbdReadCapacityCount(c) ==
  LET maxLba == BlockCount IN
  IF BlockCount = 0 THEN Failed("INTERNAL_ERROR")
  ELSE IF c.Op = "READ_CAPACITY"
    THEN Checked(c, [Answer(8) EXCEPT !.Tells.MaxLba =
                       IF maxLba >= ULongSpan - 1 THEN ULongSpan - 1 ELSE maxLba],
                 "INVALID_REQUEST")
  ELSE IF c.TransferLength < 16
    THEN Checked(c, [Answer(12) EXCEPT !.Tells.MaxLba = maxLba], "INVALID_REQUEST")
  ELSE [Answer(IF c.TransferLength < 32 THEN 16 ELSE 32) EXCEPT
          !.Tells.MaxLba = maxLba, !.Tells.Lbpu = YesNo(Flags.UnmapSupported)]

\* READ CAPACITY (10) tells addresses of 32 bits; a larger disk says MAXULONG.
\* READ CAPACITY (16) tells LBPME if the buffer holds that byte.
WnbdReadCapacity(c) ==
  LET maxLba == BlockCount - 1 IN
  IF BlockCount = 0 THEN Failed("INTERNAL_ERROR")
  ELSE IF c.Op = "READ_CAPACITY"
    THEN Checked(c, [Answer(8) EXCEPT !.Tells.MaxLba =
                       IF maxLba >= ULongSpan - 1 THEN ULongSpan - 1 ELSE maxLba],
                 "INVALID_REQUEST")
  ELSE IF c.TransferLength < 16
    THEN Checked(c, [Answer(12) EXCEPT !.Tells.MaxLba = maxLba], "INVALID_REQUEST")
  ELSE [Answer(IF c.TransferLength < 32 THEN 16 ELSE 32) EXCEPT
          !.Tells.MaxLba = maxLba, !.Tells.Lbpu = YesNo(Flags.UnmapSupported)]

\* The length of the serial number, its end included, is counted in a UCHAR.
WnbdSetVpdSerialNumber(c) ==
  LET Size == (SerialLength + 1) % UCharSpan IN
  Checked(c, [Answer(4 + Size) EXCEPT !.PageLength = Size], "DATA_OVERRUN")

\* A disk without a NAA identifier does not list the page it would be on.
WnbdSetVpdSupportedPages(c) ==
  Checked(c, Answer(IF Flags.NaaIdSize > 0 THEN 10 ELSE 9), "DATA_OVERRUN")

WnbdSetVpdDeviceIdentifier(c) ==
  IF Flags.NaaIdSize > 0 THEN Checked(c, Answer(8 + Flags.NaaIdSize), "DATA_OVERRUN")
                         ELSE Failed("INVALID_REQUEST")

\* INQUIRY with EVPD: an unknown page is a success with a buffer of zeroes.
WnbdProcessExtendedInquiry(c) ==
  CASE c.Page = "VPD_SUPPORTED_PAGES" -> WnbdSetVpdSupportedPages(c)
    [] c.Page = "VPD_SERIAL_NUMBER" -> WnbdSetVpdSerialNumber(c)
    [] c.Page \in {"VPD_BLOCK_LIMITS", "VPD_BLOCK_DEVICE_CHARACTERISTICS"} ->
         Checked(c, Answer(64), "DATA_OVERRUN")
    [] c.Page = "VPD_LOGICAL_BLOCK_PROVISIONING" ->
         Checked(c, [Answer(8) EXCEPT !.Tells.Lbpu = YesNo(Flags.UnmapSupported)], "DATA_OVERRUN")
    [] c.Page = "VPD_DEVICE_IDENTIFIERS" -> WnbdSetVpdDeviceIdentifier(c)
    [] OTHER -> Answer(c.TransferLength)

\* The standard data is written without a look at the length of the buffer.
WnbdInquiry(c) == IF c.Page = "none" THEN Answer(36) ELSE WnbdProcessExtendedInquiry(c)

\* So is the LUN list.
WnbdReportLuns(c) == Answer(16)

\* Only the caching page is known, alone or as part of all pages.
WnbdModeSense(c) ==
  IF c.Page \notin {"MODE_PAGE_CACHING", "MODE_SENSE_RETURN_ALL"}
  THEN Failed("INVALID_REQUEST")
  ELSE Checked(c, [Answer(IF c.Op = "MODE_SENSE" THEN 24 ELSE 28) EXCEPT
                     !.Tells.WriteProtect = YesNo(Flags.ReadOnly),
                     !.Tells.DpoFua = YesNo(Flags.FUASupported),
                     !.Tells.WriteCacheEnable = YesNo(Flags.FlushSupported)],
               "DATA_OVERRUN")

\* WnbdHandleSrbOperation and the checks the emulated commands begin with.
Emulated(c) ==
  IF c.Op \in {"VERIFY", "TEST_UNIT_READY"} THEN Answer(c.TransferLength)
  ELSE IF c.Op \notin DataOps \/ c.Page = "wrong service action" THEN Failed("INVALID_REQUEST")
  ELSE IF ~c.Buffer \/ c.Page = "page without EVPD" THEN Failed("INTERNAL_ERROR")
  ELSE IF c.Op = "INQUIRY" THEN WnbdInquiry(c)
  ELSE IF c.Op \in {"MODE_SENSE", "MODE_SENSE10"} THEN WnbdModeSense(c)
  ELSE IF c.Op \in {"READ_CAPACITY", "READ_CAPACITY16"} THEN WnbdReadCapacity(c)
  ELSE WnbdReportLuns(c)

\* Buffers may have any length.
ASSUME EmulatedAssumption == \A c \in EmulatedSrbs : c.TransferLength \in Nat

Emulate(c) ==
  /\ told' = Emulated(c).Tells
  /\ UNCHANGED <<diskVars, pathVars>>

\* IOCTL_WNBD_SET_DISK_SIZE: the new size is taken as it is.
WnbdSetDiskSize(n) ==
  /\ BlockCount' = n
  /\ UNCHANGED <<Flags, SerialLength, told, pathVars>>

-----------------------------------------------------------------------------
(* Commands that are queued *)

\* Mutation: a length of zero is taken as it is, whatever the command.
SrbCdbGetRangeZero(c) ==
  [BlockAddress |-> c.Lba, BlockCount |-> c.Blocks, FUA |-> c.Form # 6 /\ c.FUA]

\* A six-byte command with a length of zero asks for 256 blocks.
SrbCdbGetRange(c) ==
  [BlockAddress |-> c.Lba,
   BlockCount   |-> IF c.Form = 6 /\ c.Blocks = 0 THEN UCharSpan ELSE c.Blocks,
   FUA          |-> c.Form # 6 /\ c.FUA]

\* Mutation: the sum is not checked for a wrap.
BeyondEndWraps(address, count) == (address + count) % UInt64Span > BlockCount

\* The sum is computed in 64 bits.
BeyondEnd(address, count) ==
  LET sum == (address + count) % UInt64Span IN sum < address \/ sum > BlockCount

\* WnbdPendElement stores the address in 64 bits and the length in 32.
QueueElement(address, length, fua) ==
  [StartingLbn |-> (address * BlockSize) % UInt64Span, DataLength |-> length % ULongSpan,
   FUA |-> fua]

Queue(element)   == [Status |-> "PENDING", Element |-> element]
Refuse(status)   == [Status |-> status, Element |-> NoElement]

\* Reads, writes and flushes: the length is a product of 32 bits.
PendRange(c) ==
  LET r == SrbCdbGetRange(c)
      DataLength == (r.BlockCount * BlockSize) % ULongSpan IN
  IF DataLength < c.TransferLength THEN Refuse("ABORTED")
  ELSE IF BeyondEnd(r.BlockAddress, r.BlockCount) THEN Refuse("ILLEGAL_BLOCK")
  ELSE Queue(QueueElement(r.BlockAddress, DataLength, r.FUA))

\* Mutation: the product is computed in 32 bits and the end of the disk compared
\* in bytes.
PendUnmapBytes(c) ==
  LET length == (c.Blocks * BlockSize) % ULongSpan IN
  IF c.TransferLength < 8 + c.BlockDescLength THEN Refuse("ABORTED")
  ELSE IF c.Anchor THEN Refuse("INVALID_REQUEST")
  ELSE IF c.BlockDescLength = 0 THEN Refuse("SUCCESS")
  ELSE IF c.BlockDescLength \div 16 # 1 \/ c.Lba * BlockSize + length > BlockCount * BlockSize
    THEN Refuse("INVALID_REQUEST")
  ELSE Queue(QueueElement(c.Lba, length, FALSE))

\* The list of descriptors (16 bytes each, after a header of 8) has to fit its
\* buffer and hold one; an empty one is done at once.  The length is a product of 64 bits.
PendUnmap(c) ==
  IF c.TransferLength < 8 + c.BlockDescLength THEN Refuse("ABORTED")
  ELSE IF c.Anchor THEN Refuse("INVALID_REQUEST")
  ELSE IF c.BlockDescLength = 0 THEN Refuse("SUCCESS")
  ELSE IF c.BlockDescLength \div 16 # 1 \/ BeyondEnd(c.Lba, c.Blocks) THEN Refuse("INVALID_REQUEST")
  ELSE Queue(QueueElement(c.Lba, (c.Blocks * BlockSize) % UInt64Span, FALSE))

PendReserve(c) ==
  IF c.TransferLength > MaxTransferLength THEN Refuse("ABORTED")
  ELSE Queue(QueueElement(0, c.TransferLength, FALSE))

WnbdPendOperation(c) ==
  CASE c.Op \in RangeOps -> PendRange(c)
    [] c.Op = "UNMAP"    -> PendUnmap(c)
    [] OTHER             -> PendReserve(c)

\* What the answers of the driver allow the host to ask for (the host's side):
\* the kinds and flags the mode page and the provisioning page tell of, inside
\* the capacity that was reported if the disk did not shrink since.
Promised(c) ==
  /\ CASE c.Op = "READ"   -> c.TransferLength = Named(c) * BlockSize
       [] c.Op = "WRITE"  -> /\ c.TransferLength = Named(c) * BlockSize
                             /\ told.WriteProtect = "no" /\ (c.FUA => told.DpoFua = "yes")
       [] c.Op = "SYNCHRONIZE_CACHE" -> told.WriteProtect = "no" /\ told.WriteCacheEnable = "yes"
       [] c.Op = "UNMAP"  -> /\ told.WriteProtect = "no" /\ told.Lbpu = "yes"
                             /\ c.BlockDescLength \in {0, 16} /\ ~c.Anchor
                             /\ c.TransferLength = 8 + c.BlockDescLength
       [] OTHER -> FALSE
  /\ c.Lba + Named(c) <= told.MaxLba + 1 /\ told.MaxLba < BlockCount

Start(c) ==
  /\ pc = "idle"
  /\ Srb' = c
  /\ sizeThen' = BlockCount
  /\ promised' = Promised(c)
  /\ LET result == WnbdPendOperation(c) IN
     /\ pc' = IF result.Status = "PENDING" THEN "queued" ELSE "done"
     /\ SrbStatus' = IF result.Status = "PENDING" THEN "none" ELSE result.Status
     /\ Element' = result.Element
  /\ UNCHANGED <<diskVars, told, Request, wire>>

ScsiOpToWnbdReqType(op) ==
  CASE op = "READ"               -> "Read"
    [] op = "WRITE"              -> "Write"
    [] op = "SYNCHRONIZE_CACHE"  -> "Flush"
    [] op = "UNMAP"              -> "Unmap"
    [] op = "PERSISTENT_RESERVE_IN"  -> "PersistResIn"
    [] op = "PERSISTENT_RESERVE_OUT" -> "PersistResOut"

Supported(type) ==
  CASE type = "Unmap" -> Flags.UnmapSupported
    [] type = "Flush" -> Flags.FlushSupported
    [] type \in {"PersistResIn", "PersistResOut"} -> Flags.PersistResSupported
    [] OTHER -> TRUE

ValidateScsiRequest(type) ==
  /\ Flags.ReadOnly => type \in {"Read", "PersistResIn"}
  /\ Supported(type)

\* WnbdDispatchRequest: back from bytes to blocks.  The flags of a reservation
\* command are passed on as they are.
Dispatch ==
  /\ pc = "queued"
  /\ LET type == ScsiOpToWnbdReqType(Srb.Op) IN
     IF ValidateScsiRequest(type)
     THEN /\ pc' = "submitted"
          /\ Request' = [RequestType  |-> type,
                         BlockAddress |-> Element.StartingLbn \div BlockSize,
                         BlockCount   |-> Element.DataLength \div BlockSize,
                         FUA          |-> Element.FUA /\ Flags.FUASupported]
          /\ UNCHANGED SrbStatus
     ELSE /\ pc' = "done"
          /\ SrbStatus' = "INVALID_REQUEST"
          /\ UNCHANGED Request
  /\ UNCHANGED <<diskVars, told, Srb, sizeThen, promised, Element, wire>>

-----------------------------------------------------------------------------
(* Userspace: libwnbd and the callbacks of the NBD daemon *)

\* The products are 32 bits wide for lengths and 64 for offsets.  A flush
\* concerns the whole export, a FUA read is an ordinary read.
NbdCommand(r) ==
  [Type   |-> r.RequestType,
   Offset |-> IF r.RequestType = "Flush" THEN 0 ELSE (r.BlockAddress * BlockSize) % UInt64Span,
   Length |-> IF r.RequestType = "Flush" THEN 0 ELSE (r.BlockCount * BlockSize) % ULongSpan,
   FUA    |-> r.RequestType = "Write" /\ r.FUA]

\* Mutation: the callback is called whether it is there or not.
HandleRequestUnchecked ==
  /\ pc = "submitted"
  /\ IF Supported(Request.RequestType)
     THEN /\ pc' = "sent"
          /\ wire' = {NbdCommand(Request)}
          /\ UNCHANGED SrbStatus
     ELSE /\ pc' = "done"
          /\ SrbStatus' = "ILLEGAL_COMMAND"
          /\ UNCHANGED wire
  /\ UNCHANGED <<diskVars, told, Srb, sizeThen, promised, Element, Request>>

\* WnbdHandleRequest answers what the process cannot do and calls back for the rest.
WnbdHandleRequest ==
  /\ pc = "submitted"
  /\ IF Request.RequestType \in Interface /\ Supported(Request.RequestType)
     THEN /\ pc' = "sent"
          /\ wire' = {NbdCommand(Request)}
          /\ UNCHANGED SrbStatus
     ELSE /\ pc' = "done"
          /\ SrbStatus' = "ILLEGAL_COMMAND"
          /\ UNCHANGED wire
  /\ UNCHANGED <<diskVars, told, Srb, sizeThen, promised, Element, Request>>

\* The server's reply, NbdDaemon::ProcessNbdReply and WnbdHandleResponse.
ServerReplies ==
  /\ pc = "sent"
  /\ pc' = "done"
  /\ SrbStatus' \in {"SUCCESS", "MEDIUM_ERROR"}
  /\ UNCHANGED <<diskVars, told, Srb, sizeThen, promised, Element, Request, wire>>

\* The command is back at StorPort; the next one may come.
Retire ==
  /\ pc = "done"
  /\ pc' = "idle"
  /\ Srb' = NoSrb
  /\ sizeThen' = 0
  /\ promised' = FALSE
  /\ Element' = NoElement
  /\ Request' = NoRequest
  /\ wire' = {}
  /\ SrbStatus' = "none"
  /\ UNCHANGED <<diskVars, told>>

-----------------------------------------------------------------------------
Next ==
  \/ \E c \in EmulatedSrbs : Emulate(c)
  \/ \E n \in Sizes : WnbdSetDiskSize(n)
  \/ \E c \in QueuedSrbs : Start(c)
  \/ Dispatch
  \/ WnbdHandleRequest
  \/ ServerReplies
  \/ Retire

Spec == Init /\ [][Next]_vars

-----------------------------------------------------------------------------
(* Properties *)

Statuses == {"none", "SUCCESS", "ABORTED", "INVALID_REQUEST", "ILLEGAL_BLOCK",
             "ILLEGAL_COMMAND", "MEDIUM_ERROR", "INTERNAL_ERROR", "DATA_OVERRUN"}
RequestTypes == {"none", "Read", "Write", "Flush", "Unmap", "PersistResIn", "PersistResOut"}

NbdCommands == [Type : Interface, Offset : 0..(UInt64Span - 1), Length : 0..(ULongSpan - 1),
                FUA : BOOLEAN]

\* The element, the request and the command sent keep the widths of their fields,
\* whatever length and address the host names, and only callbacks the process
\* implements are called (SRB_QUEUE_ELEMENT, WNBD_IO_REQUEST, WnbdHandleRequest).
TypeOK ==
  /\ BlockCount \in Sizes /\ Flags \in FlagSets /\ SerialLength \in SerialLengths
  /\ pc \in {"idle", "queued", "submitted", "sent", "done"}
  /\ Srb \in QueuedSrbs \cup {NoSrb}
  /\ SrbStatus \in Statuses
  /\ promised \in BOOLEAN
  /\ Element \in [StartingLbn : 0..(UInt64Span - 1), DataLength : 0..(ULongSpan - 1), FUA : BOOLEAN]
  /\ Request \in [RequestType : RequestTypes, BlockAddress : 0..(UInt64Span - 1),
                  BlockCount : 0..(ULongSpan - 1), FUA : BOOLEAN]
  /\ wire \subseteq NbdCommands

\* The disk the command was started on can be addressed in bytes: IOCTL_WNBD_CREATE
\* checks it, IOCTL_WNBD_SET_DISK_SIZE does not.
Addressable == sizeThen <= (UInt64Span - 1) \div BlockSize

\* A read or a write that reaches the server is about exactly the bytes of the
\* blocks the command names, inside the disk as it was when the command came,
\* and a write carries FUA if the host asked for it and was told it may.  Blocks
\* become bytes, blocks and bytes again, in 32 and in 64 bits (WnbdPendOperation,
\* WnbdDispatchRequest, NbdDaemon::Read, Write).
ExactIo ==
  \A w \in wire : Srb.Op \in {"READ", "WRITE"} /\ Addressable =>
    /\ w.Offset = Srb.Lba * BlockSize
    /\ w.Length = Named(Srb) * BlockSize
    /\ Srb.Lba + Named(Srb) <= sizeThen
    /\ w.FUA => Srb.Op = "WRITE" /\ Srb.FUA
    /\ promised /\ Srb.Op = "WRITE" /\ Srb.Form # 6 /\ Srb.FUA => w.FUA

\* A trim never discards a byte the host did not unmap.  It discards all of them
\* if they are fewer than 2^32: the length is kept in a ULONG, and an unmap of
\* 4 GiB or more succeeds for its remainder modulo 4 GiB only (WnbdPendElement,
\* NbdDaemon::Unmap).
TrimWithin ==
  \A w \in wire : Srb.Op = "UNMAP" /\ Addressable =>
    LET asked == Srb.Blocks * BlockSize IN
    /\ w.Type = "Unmap"
    /\ w.Offset = Srb.Lba * BlockSize
    /\ w.Length <= asked /\ (asked < ULongSpan => w.Length = asked)
    /\ Srb.Lba + Srb.Blocks <= sizeThen

\* A host that asks for what the driver told it is never refused: what Promised
\* allows reaches the server, a six-byte command of length zero and a host that
\* goes by the 32-bit capacity of a larger disk included (WnbdReadCapacity,
\* WnbdModeSense, ValidateScsiRequest, WnbdPendOperation, WnbdHandleRequest).
AdvertisedIsServed ==
  pc = "done" /\ promised => SrbStatus \in {"SUCCESS", "MEDIUM_ERROR"}

\* The buffers that are too short for the data that is written without a look at
\* their length.
Overrun(c) ==
  \/ c.Op = "INQUIRY" /\ c.Page = "none" /\ c.TransferLength < 36
  \/ c.Op = "REPORT_LUNS" /\ c.TransferLength < 16

\* Whatever the driver would answer now is true of the disk: a capacity is never
\* beyond its end, whatever the width of the command and however often the disk
\* was resized; data fits the buffer it is written to, except the standard INQUIRY
\* data and the LUN list, which are written to a shorter one all the same; and the
\* serial number is told in full, except one of 255 characters, which is told as
\* an empty one, because its length is counted in a UCHAR (WnbdReadCapacity,
\* WnbdInquiry, WnbdReportLuns, WnbdSetVpdSerialNumber).
TruthfulAnswers ==
  \A c \in EmulatedSrbs :
    LET a == Emulated(c) IN a.Status = "SUCCESS" =>
      /\ c.Op \in {"READ_CAPACITY", "READ_CAPACITY16"} => a.Tells.MaxLba < BlockCount
      /\ a.Length <= c.TransferLength \/ Overrun(c)
      /\ c.Op = "INQUIRY" /\ c.Page = "VPD_SERIAL_NUMBER" =>
           \/ a.PageLength = SerialLength + 1
           \/ SerialLength = UCharSpan - 1 /\ a.PageLength = 0
=============================================================================
