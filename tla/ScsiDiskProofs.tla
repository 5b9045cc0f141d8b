--------------------------- MODULE ScsiDiskProofs ---------------------------
(***************************************************************************)
(* TLAPS proofs about ScsiDisk, for any block size, field widths, disk     *)
(* sizes, flags and commands.  IInv is the inductive invariant: how far    *)
(* the units and widths of a command survived each stage it passed.        *)
(***************************************************************************)
EXTENDS ScsiDisk, TLAPS

-----------------------------------------------------------------------------
(* Arithmetic of blocks and bytes *)

\* Blocks to bytes and back.
LEMMA DivMul ==
  ASSUME NEW a \in Nat, NEW b \in Nat \ {0}
  PROVE  (a * b) \div b = a
  BY SMT

\* A value that fits its field is kept.
LEMMA ModSmall ==
  ASSUME NEW x \in Nat, NEW m \in Nat \ {0}, x < m
  PROVE  x % m = x
  BY SMT

\* A field never holds more than what was put into it.
LEMMA ModLe ==
  ASSUME NEW x \in Nat, NEW m \in Nat \ {0}
  PROVE  x % m \in 0..(m - 1) /\ x % m <= x
  BY SMT

\* Whole blocks of x bytes.
LEMMA DivLe ==
  ASSUME NEW x \in Nat, NEW m \in Nat \ {0}
  PROVE  x \div m \in Nat /\ x \div m <= x /\ (x \div m) * m <= x
  BY SMT

\* Blocks that fit into c bytes.
LEMMA MulLe ==
  ASSUME NEW a \in Nat, NEW b \in Nat \ {0}, NEW c \in Nat, a <= c \div b
  PROVE  a * b <= c
  BY SMT

\* A product of two lengths is a length.
LEMMA MulNat ==
  ASSUME NEW a \in Nat, NEW b \in Nat
  PROVE  a * b \in Nat
  BY SMT

-----------------------------------------------------------------------------
(* The inductive invariant *)

Tells == {"untold", "yes", "no"}

\* What the host was told of the flags of the disk is so.
ToldIsTrue ==
  /\ told \in [MaxLba : Int, WriteProtect : Tells, WriteCacheEnable : Tells, DpoFua : Tells,
               Lbpu : Tells]
  /\ told.WriteProtect = "no" => ~Flags.ReadOnly
  /\ told.DpoFua = "yes" => Flags.FUASupported
  /\ told.WriteCacheEnable = "yes" => Flags.FlushSupported
  /\ told.Lbpu = "yes" => Flags.UnmapSupported

\* The command is somewhere between WnbdPendOperation and the reply.
InFlight == pc \in {"queued", "submitted", "sent"}

\* Nothing was sent for a command that is not at the server yet.
NothingEarly ==
  /\ sizeThen \in Nat
  /\ pc \in {"idle", "queued", "submitted"} => wire = {}
  /\ InFlight => Srb \in QueuedSrbs

\* The element of a read or a write has the bytes of the command in its fields.
RangeKept ==
  InFlight /\ Srb.Op \in {"READ", "WRITE"} =>
    /\ Element.DataLength = Named(Srb) * BlockSize
    /\ Srb.Lba + Named(Srb) <= sizeThen
    /\ Addressable => Element.StartingLbn = Srb.Lba * BlockSize
    /\ Element.FUA <=> Srb.Form # 6 /\ Srb.FUA

\* The element of an unmap has them too, up to the width of its length.
UnmapKept ==
  InFlight /\ Srb.Op = "UNMAP" =>
    /\ Element.DataLength <= Srb.Blocks * BlockSize
    /\ Srb.Blocks * BlockSize < ULongSpan => Element.DataLength = Srb.Blocks * BlockSize
    /\ Srb.Lba + Srb.Blocks <= sizeThen
    /\ Addressable => Element.StartingLbn = Srb.Lba * BlockSize

\* A command the host was allowed to send is of a kind that passes every check.
PromiseKept ==
  InFlight /\ promised =>
    /\ Srb.Op \in RangeOps \cup {"UNMAP"}
    /\ Srb.Op # "READ" => ~Flags.ReadOnly
    /\ Srb.Op = "WRITE" /\ Srb.FUA => Flags.FUASupported
    /\ Srb.Op = "SYNCHRONIZE_CACHE" => Flags.FlushSupported
    /\ Srb.Op = "UNMAP" => Flags.UnmapSupported

\* The request is the element in blocks.
RequestKept ==
  pc \in {"submitted", "sent"} =>
    /\ Request.RequestType = ScsiOpToWnbdReqType(Srb.Op)
    /\ Request.BlockAddress = Element.StartingLbn \div BlockSize
    /\ Request.BlockCount = Element.DataLength \div BlockSize
    /\ Request.FUA <=> Element.FUA /\ Flags.FUASupported

IInv ==
  /\ TypeOK /\ ToldIsTrue /\ NothingEarly /\ RangeKept /\ UnmapKept /\ PromiseKept
  /\ RequestKept /\ ExactIo /\ TrimWithin /\ AdvertisedIsServed
-----------------------------------------------------------------------------
(* Commands the driver answers itself *)

\* Facts about the constants in the form the provers use them.
LEMMA ConstantFacts ==
  /\ BlockSize \in Nat \ {0} /\ ULongSpan \in Nat \ {0} /\ UInt64Span \in Nat \ {0}
  /\ UCharSpan \in Nat \ {0} /\ ULongSpan <= UInt64Span
  /\ MaxTransferLength \in Nat /\ MaxTransferLength < ULongSpan
  /\ \A n \in Sizes : n \in Nat /\ n < UInt64Span
  /\ \A n \in SerialLengths : n \in Nat /\ n < UCharSpan
<1>1. BlockSize \in Nat \ {0} /\ ULongSpan \in Nat \ {0} /\ UInt64Span \in Nat \ {0}
      /\ UCharSpan \in Nat \ {0}
  BY WidthsAssumption
<1>2. ULongSpan <= UInt64Span
  <2>1. UInt64Span % ULongSpan = 0
    BY WidthsAssumption
  <2>2. UInt64Span < ULongSpan => UInt64Span % ULongSpan = UInt64Span
    BY <1>1, ModSmall
  <2> QED
    BY <1>1, <2>1, <2>2
<1> QED
  BY <1>1, <1>2, WidthsAssumption

\* A true answer keeps what the host knows true.
TrueTells(t) ==
  /\ t \in [MaxLba : Int, WriteProtect : Tells, WriteCacheEnable : Tells, DpoFua : Tells,
            Lbpu : Tells]
  /\ t.WriteProtect = "no" => ~Flags.ReadOnly
  /\ t.DpoFua = "yes" => Flags.FUASupported
  /\ t.WriteCacheEnable = "yes" => Flags.FlushSupported
  /\ t.Lbpu = "yes" => Flags.UnmapSupported

\* Answers to commands: every field they tell is true, data fits its buffer
\* or overruns it in one of the two known ways.
Truthful(c, a) ==
  /\ TrueTells(a.Tells)
  /\ a.Status = "SUCCESS" => a.Length <= c.TransferLength \/ Overrun(c)

\* A capacity that is told is not beyond the end of the disk.
OnDisk(a) == a.Status = "SUCCESS" => a.Tells.MaxLba < BlockCount

\* An answer that is checked against its buffer.
LEMMA CheckedTruthful ==
  ASSUME NEW c, NEW a, NEW status, TrueTells(told), TrueTells(a.Tells),
         c.TransferLength \in Nat, a.Length \in Nat, status # "SUCCESS"
  PROVE  Truthful(c, Checked(c, a, status))
  BY DEF Truthful, Checked, Failed

\* An answer that tells nothing new.
LEMMA PlainTruthful ==
  ASSUME NEW c, NEW n, TrueTells(told), n <= c.TransferLength \/ Overrun(c)
  PROVE  Truthful(c, Answer(n))
  BY DEF Truthful, Answer

\* So is one that fails.
LEMMA FailedTruthful ==
  ASSUME NEW c, NEW status, TrueTells(told), status # "SUCCESS"
  PROVE  Truthful(c, Failed(status))
  BY DEF Truthful, Failed

\* The pages of INQUIRY are truthful.
LEMMA InquiryTruthful ==
  ASSUME TypeOK, ToldIsTrue, NEW c \in EmulatedSrbs, c.Op = "INQUIRY"
  PROVE  /\ Truthful(c, WnbdInquiry(c))
         /\ c.Page = "VPD_SERIAL_NUMBER" /\ WnbdInquiry(c).Status = "SUCCESS" =>
              \/ WnbdInquiry(c).PageLength = SerialLength + 1
              \/ SerialLength = UCharSpan - 1 /\ WnbdInquiry(c).PageLength = 0
<1>1. /\ c.TransferLength \in Nat
      /\ c.Page = "none" => 36 <= c.TransferLength \/ Overrun(c)
  BY EmulatedAssumption DEF Overrun
<1>2. /\ Flags.NaaIdSize \in Nat /\ Flags.UnmapSupported \in BOOLEAN
      /\ SerialLength \in Nat /\ SerialLength < UCharSpan /\ UCharSpan \in Nat \ {0}
  BY FlagsAssumption, ConstantFacts DEF TypeOK
<1>3. TrueTells(told)
  BY DEF ToldIsTrue, TrueTells
<1>4. ASSUME NEW n \in Nat PROVE Truthful(c, Checked(c, Answer(n), "DATA_OVERRUN"))
  BY <1>1, <1>3, CheckedTruthful DEF Answer
<1>5. Truthful(c, WnbdSetVpdSupportedPages(c)) /\ Truthful(c, WnbdSetVpdDeviceIdentifier(c))
  <2>1. Truthful(c, Failed("INVALID_REQUEST"))
    BY <1>3, FailedTruthful
  <2>2. 8 + Flags.NaaIdSize \in Nat
    BY <1>2
  <2> QED
    BY <1>4, <2>1, <2>2 DEF WnbdSetVpdSupportedPages, WnbdSetVpdDeviceIdentifier
<1>6. /\ Truthful(c, WnbdSetVpdSerialNumber(c))
      /\ WnbdSetVpdSerialNumber(c).Status = "SUCCESS" =>
           \/ WnbdSetVpdSerialNumber(c).PageLength = SerialLength + 1
           \/ SerialLength = UCharSpan - 1 /\ WnbdSetVpdSerialNumber(c).PageLength = 0
  <2>1. PICK x \in Nat : x = SerialLength + 1
    BY <1>2
  <2>2. PICK Size \in Nat : Size = x % UCharSpan
    BY <1>2, ModLe
  <2>3. Size = SerialLength + 1 \/ (SerialLength = UCharSpan - 1 /\ Size = 0)
    <3>1. x < UCharSpan => Size = x
      BY <1>2, <2>2, ModSmall
    <3>2. x = UCharSpan => Size = 0
      BY ONLY <1>2, <2>2, SMT
    <3> QED
      BY <1>2, <2>1, <3>1, <3>2
  <2>4. PICK a : a = [Answer(4 + Size) EXCEPT !.PageLength = Size]
    OBVIOUS
  <2>5. a.Status = "SUCCESS" /\ a.Length = 4 + Size /\ a.Tells = told /\ a.PageLength = Size
    BY <2>4 DEF Answer
  <2>6. Truthful(c, Checked(c, a, "DATA_OVERRUN"))
    BY <1>1, <1>3, <2>5, CheckedTruthful
  <2>7. Checked(c, a, "DATA_OVERRUN").Status = "SUCCESS" =>
          Checked(c, a, "DATA_OVERRUN").PageLength = Size
    BY <2>5 DEF Checked, Failed
  <2> QED
    BY <2>1, <2>2, <2>3, <2>4, <2>6, <2>7 DEF WnbdSetVpdSerialNumber
<1>7. Truthful(c, Checked(c, [Answer(8) EXCEPT !.Tells.Lbpu = YesNo(Flags.UnmapSupported)],
                          "DATA_OVERRUN"))
  <2>1. PICK a : a = [Answer(8) EXCEPT !.Tells.Lbpu = YesNo(Flags.UnmapSupported)]
    OBVIOUS
  <2>2. a.Length = 8 /\ a.Tells = [told EXCEPT !.Lbpu = YesNo(Flags.UnmapSupported)]
    BY <2>1 DEF Answer
  <2>3. TrueTells(a.Tells) /\ a.Tells.MaxLba = told.MaxLba
    BY <1>2, <1>3, <2>2 DEF TrueTells, YesNo, Tells
  <2>4. Truthful(c, Checked(c, a, "DATA_OVERRUN"))
    <3>1. a.Length \in Nat
      BY <2>2
    <3> QED
      BY ONLY <1>1, <1>3, <3>1, <2>3, CheckedTruthful
  <2> QED
    BY <2>1, <2>4
<1>8. Truthful(c, Answer(c.TransferLength)) /\ (c.Page = "none" => Truthful(c, Answer(36)))
  BY <1>1, <1>3, PlainTruthful
<1> QED
  BY <1>4, <1>5, <1>6, <1>7, <1>8 DEF WnbdInquiry, WnbdProcessExtendedInquiry

\* READ CAPACITY never reports an address beyond the end of the disk.
LEMMA CapacityTruthful ==
  ASSUME TypeOK, ToldIsTrue, NEW c \in EmulatedSrbs
  PROVE  Truthful(c, WnbdReadCapacity(c)) /\ OnDisk(WnbdReadCapacity(c))
<1>1. /\ c.TransferLength \in Nat /\ Flags.UnmapSupported \in BOOLEAN
      /\ BlockCount \in Nat /\ ULongSpan \in Nat \ {0}
  BY EmulatedAssumption, FlagsAssumption, ConstantFacts DEF TypeOK
<1>2. TrueTells(told)
  BY DEF ToldIsTrue, TrueTells
<1>3. ASSUME NEW n \in Nat, NEW m \in Int, m < BlockCount
      PROVE  /\ Truthful(c, Checked(c, [Answer(n) EXCEPT !.Tells.MaxLba = m], "INVALID_REQUEST"))
             /\ OnDisk(Checked(c, [Answer(n) EXCEPT !.Tells.MaxLba = m], "INVALID_REQUEST"))
  <2>1. PICK a : a = [Answer(n) EXCEPT !.Tells.MaxLba = m]
    OBVIOUS
  <2>2. a.Length = n /\ a.Tells = [told EXCEPT !.MaxLba = m]
    BY <2>1 DEF Answer
  <2>3. TrueTells(a.Tells) /\ a.Tells.MaxLba = m
    BY <1>2, <1>3, <2>2 DEF TrueTells
  <2>4. Truthful(c, Checked(c, a, "INVALID_REQUEST"))
    BY <1>1, <1>2, <1>3, <2>2, <2>3, CheckedTruthful
  <2>5. OnDisk(Checked(c, a, "INVALID_REQUEST"))
    BY <1>3, <2>3 DEF OnDisk, Checked, Failed
  <2> QED
    BY <2>1, <2>4, <2>5
<1>4. ASSUME BlockCount # 0, c.TransferLength >= 16, NEW n \in {16, 32}, n <= c.TransferLength
      PROVE  LET a == [Answer(n) EXCEPT !.Tells.MaxLba = BlockCount - 1,
                                        !.Tells.Lbpu = YesNo(Flags.UnmapSupported)]
             IN  Truthful(c, a) /\ OnDisk(a)
  <2>1. PICK a : a = [Answer(n) EXCEPT !.Tells.MaxLba = BlockCount - 1,
                                      !.Tells.Lbpu = YesNo(Flags.UnmapSupported)]
    OBVIOUS
  <2>2. a.Length = n
        /\ a.Status = "SUCCESS"
        /\ a.Tells = [told EXCEPT !.MaxLba = BlockCount - 1, !.Lbpu = YesNo(Flags.UnmapSupported)]
    BY <2>1 DEF Answer
  <2>3. PICK y \in Tells : y = YesNo(Flags.UnmapSupported) /\ (y = "yes" => Flags.UnmapSupported)
    BY <1>1 DEF Tells, YesNo
  <2>4. PICK m \in Int : m = BlockCount - 1
    BY <1>1
  <2>5. a.Tells = [MaxLba |-> m, WriteProtect |-> told.WriteProtect,
                   WriteCacheEnable |-> told.WriteCacheEnable, DpoFua |-> told.DpoFua, Lbpu |-> y]
    BY ONLY <1>2, <2>2, <2>3, <2>4 DEF TrueTells
  <2>6. TrueTells(a.Tells)
    BY ONLY <1>2, <2>3, <2>5, m \in Int DEF TrueTells
  <2>7. a.Tells.MaxLba < BlockCount
    BY <1>1, <2>4, <2>5
  <2> QED
    BY <1>1, <1>4, <2>1, <2>2, <2>6, <2>7 DEF Truthful, OnDisk
<1>5. Truthful(c, Failed("INTERNAL_ERROR")) /\ OnDisk(Failed("INTERNAL_ERROR"))
  BY <1>2, FailedTruthful DEF OnDisk, Failed
<1>6. CASE BlockCount = 0
  BY <1>5, <1>6 DEF WnbdReadCapacity
<1>7. CASE BlockCount # 0 /\ c.Op = "READ_CAPACITY"
  <2>1. PICK m \in Int : m = IF BlockCount - 1 >= ULongSpan - 1 THEN ULongSpan - 1 ELSE BlockCount - 1
    BY <1>1
  <2>2. m < BlockCount
    BY <1>1, <1>7, <2>1
  <2> QED
    BY <1>3, <1>7, <2>1, <2>2 DEF WnbdReadCapacity
<1>8. CASE BlockCount # 0 /\ c.Op # "READ_CAPACITY" /\ c.TransferLength < 16
  <2>1. BlockCount - 1 \in Int /\ BlockCount - 1 < BlockCount
    BY <1>1
  <2> QED
    BY <1>3, <1>8, <2>1 DEF WnbdReadCapacity
<1>9. CASE BlockCount # 0 /\ c.Op # "READ_CAPACITY" /\ ~(c.TransferLength < 16)
  <2>1. PICK n \in {16, 32} : n = IF c.TransferLength < 32 THEN 16 ELSE 32
    OBVIOUS
  <2>2. c.TransferLength >= 16 /\ n <= c.TransferLength
    BY <1>1, <1>9, <2>1
  <2> QED
    BY <1>4, <1>9, <2>1, <2>2 DEF WnbdReadCapacity
<1> QED
  BY <1>6, <1>7, <1>8, <1>9

\* MODE SENSE tells the flags of the disk.
LEMMA ModeSenseTruthful ==
  ASSUME TypeOK, ToldIsTrue, NEW c \in EmulatedSrbs
  PROVE  Truthful(c, WnbdModeSense(c))
<1>1. /\ c.TransferLength \in Nat
      /\ Flags.ReadOnly \in BOOLEAN /\ Flags.FUASupported \in BOOLEAN
      /\ Flags.FlushSupported \in BOOLEAN
  BY EmulatedAssumption, FlagsAssumption DEF TypeOK
<1>2. TrueTells(told)
  BY DEF ToldIsTrue, TrueTells
<1>3. PICK n \in Nat : n = IF c.Op = "MODE_SENSE" THEN 24 ELSE 28
  OBVIOUS
<1>4. PICK a : a = [Answer(n) EXCEPT !.Tells.WriteProtect = YesNo(Flags.ReadOnly),
                                     !.Tells.DpoFua = YesNo(Flags.FUASupported),
                                     !.Tells.WriteCacheEnable = YesNo(Flags.FlushSupported)]
  OBVIOUS
<1>5. /\ a.Length = n
      /\ a.Tells = [told EXCEPT !.WriteProtect = YesNo(Flags.ReadOnly),
                                !.DpoFua = YesNo(Flags.FUASupported),
                                !.WriteCacheEnable = YesNo(Flags.FlushSupported)]
  BY <1>4 DEF Answer
<1>6. TrueTells(a.Tells) /\ a.Tells.MaxLba = told.MaxLba
  BY <1>1, <1>2, <1>5 DEF TrueTells, YesNo, Tells
<1>7. Truthful(c, Checked(c, a, "DATA_OVERRUN"))
  BY <1>1, <1>2, <1>5, <1>6, CheckedTruthful
<1>8. Truthful(c, Failed("INVALID_REQUEST"))
  BY <1>2, FailedTruthful
<1> QED
  BY <1>3, <1>4, <1>7, <1>8 DEF WnbdModeSense

\* Every emulated command is answered truthfully.
LEMMA AnswersTruthful ==
  ASSUME TypeOK, ToldIsTrue, NEW c \in EmulatedSrbs
  PROVE  Truthful(c, Emulated(c))
<1>1. /\ c.TransferLength \in Nat
      /\ c.Op = "REPORT_LUNS" => 16 <= c.TransferLength \/ Overrun(c)
  BY EmulatedAssumption DEF Overrun
<1>2. TrueTells(told)
  BY DEF ToldIsTrue, TrueTells
<1>3. /\ Truthful(c, Answer(c.TransferLength))
      /\ c.Op = "REPORT_LUNS" => Truthful(c, WnbdReportLuns(c))
  BY <1>1, <1>2, PlainTruthful DEF WnbdReportLuns
<1>4. Truthful(c, Failed("INVALID_REQUEST")) /\ Truthful(c, Failed("INTERNAL_ERROR"))
  BY <1>2, FailedTruthful
<1>5. c.Op = "INQUIRY" => Truthful(c, WnbdInquiry(c))
  BY InquiryTruthful
<1>6. Truthful(c, WnbdReadCapacity(c)) /\ Truthful(c, WnbdModeSense(c))
  BY CapacityTruthful, ModeSenseTruthful
<1> QED
  BY <1>3, <1>4, <1>5, <1>6 DEF Emulated, DataOps
-----------------------------------------------------------------------------
(* Commands that are queued *)

\* The fields of a command.
LEMMA SrbFacts ==
  ASSUME NEW c \in QueuedSrbs
  PROVE  /\ c.Op \in RangeOps \cup {"UNMAP", "PERSISTENT_RESERVE_IN", "PERSISTENT_RESERVE_OUT"}
         /\ c.Lba \in Nat /\ c.Lba < UInt64Span
         /\ c.Blocks \in Nat /\ c.Blocks < UInt64Span /\ Named(c) \in Nat
         /\ c.FUA \in BOOLEAN /\ c.TransferLength \in Nat
         /\ c # NoSrb
<1>1. c.Op \in RangeOps \cup {"UNMAP", "PERSISTENT_RESERVE_IN", "PERSISTENT_RESERVE_OUT"}
  BY SrbsAssumption
<1>2. c # NoSrb
  BY <1>1 DEF NoSrb, RangeOps
<1>3. c.FUA \in BOOLEAN /\ c.TransferLength \in Nat /\ c.Blocks \in 0..(ULongSpan - 1)
      /\ c.Lba \in 0..(AddressSpan(c) - 1)
  BY SrbsAssumption
<1>4. AddressSpan(c) \in Nat /\ AddressSpan(c) <= UInt64Span
  BY ConstantFacts DEF AddressSpan
<1>5. Named(c) \in Nat
  BY <1>3, ConstantFacts DEF Named
<1> QED
  BY <1>1, <1>2, <1>3, <1>4, <1>5, ConstantFacts

\* What is left of a sum of 64 bits that wraps.
LEMMA ModWrap ==
  ASSUME NEW x \in Nat, NEW m \in Nat \ {0}, m <= x, x < 2 * m
  PROVE  x % m = x - m
  BY SMT

\* The range check is right although its sum may wrap.
LEMMA RangeCheck ==
  ASSUME NEW a \in Nat, a < UInt64Span, NEW n \in Nat, n < UInt64Span,
         BlockCount \in Nat, BlockCount < UInt64Span
  PROVE  ~BeyondEnd(a, n) <=> a + n <= BlockCount
<1>1. PICK sum \in Nat : sum = a + n
  OBVIOUS
<1>2. UInt64Span \in Nat \ {0}
  BY ConstantFacts
<1>3. sum < UInt64Span => sum % UInt64Span = sum
  BY <1>2, ModSmall
<1>4. UInt64Span <= sum => sum % UInt64Span = sum - UInt64Span
  <2>1. sum < 2 * UInt64Span
    BY <1>1, <1>2
  <2> QED
    BY <1>2, <2>1, ModWrap
<1> QED
  BY <1>1, <1>2, <1>3, <1>4 DEF BeyondEnd

\* The byte address of a block of a disk that can be addressed in bytes.
LEMMA ByteAddress ==
  ASSUME NEW a \in Nat, NEW n \in Nat, a <= n, n <= (UInt64Span - 1) \div BlockSize
  PROVE  (a * BlockSize) % UInt64Span = a * BlockSize
<1>1. /\ BlockSize \in Nat \ {0} /\ UInt64Span \in Nat \ {0}
  BY ConstantFacts
<1>2. PICK c \in Nat : c = UInt64Span - 1
  BY <1>1
<1>3. c \div BlockSize \in Nat
  BY <1>1, DivLe
<1>4. a <= c \div BlockSize
  BY <1>2, <1>3
<1>5. a * BlockSize <= c
  BY <1>1, <1>4, MulLe
<1>6. PICK p \in Nat : p = a * BlockSize
  BY <1>1, MulNat
<1>7. p < UInt64Span
  BY <1>1, <1>2, <1>5, <1>6
<1>8. p % UInt64Span = p
  BY <1>1, <1>7, ModSmall
<1> QED
  BY <1>6, <1>8

\* Fields keep their width.
LEMMA QueueElementType ==
  ASSUME NEW a \in Nat, NEW length \in Nat, NEW fua \in BOOLEAN
  PROVE  QueueElement(a, length, fua) \in
           [StartingLbn : 0..(UInt64Span - 1), DataLength : 0..(ULongSpan - 1), FUA : BOOLEAN]
<1>1. BlockSize \in Nat \ {0} /\ UInt64Span \in Nat \ {0} /\ ULongSpan \in Nat \ {0}
  BY ConstantFacts
<1>2. PICK p \in Nat : p = a * BlockSize
  BY <1>1, MulNat
<1>3. p % UInt64Span \in 0..(UInt64Span - 1) /\ length % ULongSpan \in 0..(ULongSpan - 1)
  BY <1>1, ModLe
<1> QED
  BY <1>2, <1>3 DEF QueueElement

\* A read or a write is queued with exactly the bytes it names, if they are on
\* the disk, and only then; StorPort's limit keeps the length in 32 bits.
LEMMA ReadWriteQueued ==
  ASSUME TypeOK, NEW c \in QueuedSrbs, c.Op \in {"READ", "WRITE"}
  PROVE  LET p == PendRange(c) IN
         /\ c.TransferLength = Named(c) * BlockSize /\ c.Lba + Named(c) <= BlockCount =>
              p.Status = "PENDING"
         /\ p.Status = "PENDING" =>
              /\ p.Element.DataLength = Named(c) * BlockSize
              /\ c.Lba + Named(c) <= BlockCount
              /\ BlockCount <= (UInt64Span - 1) \div BlockSize =>
                   p.Element.StartingLbn = c.Lba * BlockSize
              /\ p.Element.FUA <=> c.Form # 6 /\ c.FUA
<1>1. /\ c.Lba \in Nat /\ c.Lba < UInt64Span /\ c.FUA \in BOOLEAN /\ c.TransferLength \in Nat
  BY SrbFacts
<1>2. PICK n \in Nat : n = Named(c)
  BY SrbFacts
<1>3. PICK b \in Nat : b = n * BlockSize
  BY ConstantFacts, MulNat
<1>4. /\ BlockSize \in Nat \ {0} /\ ULongSpan \in Nat \ {0} /\ UInt64Span \in Nat \ {0}
      /\ ULongSpan <= UInt64Span /\ MaxTransferLength \in Nat /\ MaxTransferLength < ULongSpan
  BY ConstantFacts
<1>5. b <= c.TransferLength /\ c.TransferLength < ULongSpan
  <2>1. c.TransferLength <= MaxTransferLength /\ Named(c) * BlockSize <= c.TransferLength
    BY SrbsAssumption
  <2> QED
    BY <2>1, <1>1, <1>2, <1>3, <1>4
<1>6. b % ULongSpan = b
  BY <1>1, <1>4, <1>5, ModSmall
<1>7. n <= b
  BY ONLY <1>3, <1>4, n \in Nat, SMT
<1>8. n < UInt64Span
  BY <1>1, <1>4, <1>5, <1>7
<1>9. BlockCount \in Nat /\ BlockCount < UInt64Span
  BY ConstantFacts DEF TypeOK
<1>10. ~BeyondEnd(c.Lba, n) <=> c.Lba + n <= BlockCount
  BY <1>1, <1>8, <1>9, RangeCheck
<1>11. SrbCdbGetRange(c) = [BlockAddress |-> c.Lba, BlockCount |-> n, FUA |-> c.Form # 6 /\ c.FUA]
  BY <1>2 DEF SrbCdbGetRange, Named
<1>12. PendRange(c) = IF b < c.TransferLength THEN Refuse("ABORTED")
                      ELSE IF BeyondEnd(c.Lba, n) THEN Refuse("ILLEGAL_BLOCK")
                      ELSE Queue(QueueElement(c.Lba, b, c.Form # 6 /\ c.FUA))
  BY <1>3, <1>6, <1>11 DEF PendRange
<1>13. BlockCount <= (UInt64Span - 1) \div BlockSize /\ c.Lba + n <= BlockCount =>
         (c.Lba * BlockSize) % UInt64Span = c.Lba * BlockSize
  <2>1. c.Lba + n <= BlockCount => c.Lba <= BlockCount
    BY <1>1, <1>9
  <2> QED
    BY <1>1, <1>9, <2>1, ByteAddress
<1>14. c.TransferLength = b => ~(b < c.TransferLength)
  BY <1>1
<1>15. /\ Refuse("ABORTED").Status # "PENDING" /\ Refuse("ILLEGAL_BLOCK").Status # "PENDING"
       /\ \A e : Queue(e).Status = "PENDING" /\ Queue(e).Element = e
  BY DEF Refuse, Queue
<1>16. LET e == QueueElement(c.Lba, b, c.Form # 6 /\ c.FUA) IN
       /\ e.DataLength = b /\ e.StartingLbn = (c.Lba * BlockSize) % UInt64Span
       /\ e.FUA <=> c.Form # 6 /\ c.FUA
  BY <1>6 DEF QueueElement
<1> QED
  BY <1>2, <1>3, <1>10, <1>12, <1>13, <1>14, <1>15, <1>16
\* An unmap is queued with the bytes it names, modulo the width of the length.
LEMMA UnmapQueued ==
  ASSUME TypeOK, NEW c \in QueuedSrbs, c.Op = "UNMAP"
  PROVE  LET p == PendUnmap(c) IN
         /\ /\ c.TransferLength = 8 + c.BlockDescLength /\ ~c.Anchor
            /\ c.BlockDescLength \in {0, 16} /\ c.Lba + c.Blocks <= BlockCount
            => p.Status \in {"PENDING", "SUCCESS"}
         /\ p.Status = "PENDING" =>
              /\ p.Element.DataLength <= c.Blocks * BlockSize
              /\ c.Blocks * BlockSize < ULongSpan => p.Element.DataLength = c.Blocks * BlockSize
              /\ c.Lba + c.Blocks <= BlockCount
              /\ BlockCount <= (UInt64Span - 1) \div BlockSize =>
                   p.Element.StartingLbn = c.Lba * BlockSize
<1>1. /\ c.Lba \in Nat /\ c.Lba < UInt64Span /\ c.Blocks \in Nat /\ c.Blocks < UInt64Span
      /\ c.TransferLength \in Nat
  BY SrbFacts
<1>2. c.BlockDescLength \in Nat /\ c.Anchor \in BOOLEAN
  BY SrbsAssumption
<1>3. /\ BlockSize \in Nat \ {0} /\ ULongSpan \in Nat \ {0} /\ UInt64Span \in Nat \ {0}
      /\ ULongSpan <= UInt64Span
  BY ConstantFacts
<1>4. PICK b \in Nat : b = c.Blocks * BlockSize
  BY <1>1, <1>3, MulNat
<1>5. PICK w \in Nat : w = b % UInt64Span /\ w <= b
  <2>1. b % UInt64Span \in 0..(UInt64Span - 1) /\ b % UInt64Span <= b
    BY <1>3, ModLe
  <2> QED
    BY <1>3, <2>1
<1>6. PICK d \in Nat : d = w % ULongSpan /\ d <= w
  BY <1>3, ModLe
<1>7. b < ULongSpan => d = b
  <2>1. b < ULongSpan => w = b
    BY <1>3, <1>5, ModSmall
  <2>2. w < ULongSpan => d = w
    BY <1>3, <1>6, ModSmall
  <2> QED
    BY <2>1, <2>2
<1>8. BlockCount \in Nat /\ BlockCount < UInt64Span
  BY ConstantFacts DEF TypeOK
<1>9. ~BeyondEnd(c.Lba, c.Blocks) <=> c.Lba + c.Blocks <= BlockCount
  BY <1>1, <1>8, RangeCheck
<1>10. BlockCount <= (UInt64Span - 1) \div BlockSize /\ c.Lba + c.Blocks <= BlockCount =>
         (c.Lba * BlockSize) % UInt64Span = c.Lba * BlockSize
  <2>1. c.Lba + c.Blocks <= BlockCount => c.Lba <= BlockCount
    BY <1>1, <1>8
  <2> QED
    BY <1>1, <1>8, <2>1, ByteAddress
<1>11. /\ \A s : Refuse(s).Status = s
       /\ \A e : Queue(e).Status = "PENDING" /\ Queue(e).Element = e
  BY DEF Refuse, Queue
<1>12. LET e == QueueElement(c.Lba, w, FALSE) IN
       e.DataLength = d /\ e.StartingLbn = (c.Lba * BlockSize) % UInt64Span
  BY <1>6 DEF QueueElement
<1>13. PendUnmap(c) =
         IF c.TransferLength < 8 + c.BlockDescLength THEN Refuse("ABORTED")
         ELSE IF c.Anchor THEN Refuse("INVALID_REQUEST")
         ELSE IF c.BlockDescLength = 0 THEN Refuse("SUCCESS")
         ELSE IF c.BlockDescLength \div 16 # 1 \/ BeyondEnd(c.Lba, c.Blocks)
           THEN Refuse("INVALID_REQUEST")
         ELSE Queue(QueueElement(c.Lba, w, FALSE))
  BY <1>4, <1>5 DEF PendUnmap
<1>14. /\ c.TransferLength = 8 + c.BlockDescLength => ~(c.TransferLength < 8 + c.BlockDescLength)
       /\ c.BlockDescLength = 16 => c.BlockDescLength \div 16 = 1
       /\ d <= b
  BY <1>1, <1>2, <1>5, <1>6
<1> QED
  BY <1>4, <1>7, <1>9, <1>10, <1>11, <1>12, <1>13, <1>14

\* A flush is queued if its range is on the disk.
LEMMA FlushQueued ==
  ASSUME TypeOK, NEW c \in QueuedSrbs, c.Op = "SYNCHRONIZE_CACHE",
         c.Lba + Named(c) <= BlockCount
  PROVE  PendRange(c).Status = "PENDING"
<1>1. c.Lba \in Nat /\ c.Lba < UInt64Span /\ c.TransferLength = 0
  BY SrbFacts, SrbsAssumption
<1>2. PICK n \in Nat : n = Named(c)
  BY SrbFacts
<1>3. BlockSize \in Nat \ {0} /\ ULongSpan \in Nat \ {0}
  BY ConstantFacts
<1>4. PICK b \in Nat : b = n * BlockSize
  BY <1>3, MulNat
<1>5. PICK d \in Nat : d = b % ULongSpan
  BY <1>3, ModLe
<1>6. BlockCount \in Nat /\ BlockCount < UInt64Span
  BY ConstantFacts DEF TypeOK
<1>7. UInt64Span \in Nat
  BY ConstantFacts
<1>8. n < UInt64Span
  BY <1>1, <1>2, <1>6, <1>7
<1>9. ~BeyondEnd(c.Lba, n)
  BY <1>1, <1>2, <1>6, <1>8, RangeCheck
<1>10. SrbCdbGetRange(c).BlockAddress = c.Lba /\ SrbCdbGetRange(c).BlockCount = n
  BY <1>2 DEF SrbCdbGetRange, Named
<1>11. ~(d < c.TransferLength)
  BY <1>1
<1> QED
  BY <1>4, <1>5, <1>9, <1>10, <1>11 DEF PendRange, Queue

\* Whatever is done with a command, the element fits its fields.
LEMMA PendType ==
  ASSUME NEW c \in QueuedSrbs
  PROVE  /\ WnbdPendOperation(c).Element \in
              [StartingLbn : 0..(UInt64Span - 1), DataLength : 0..(ULongSpan - 1), FUA : BOOLEAN]
         /\ WnbdPendOperation(c).Status \in
              {"PENDING", "SUCCESS", "ABORTED", "INVALID_REQUEST", "ILLEGAL_BLOCK"}
<1> DEFINE T == [StartingLbn : 0..(UInt64Span - 1), DataLength : 0..(ULongSpan - 1), FUA : BOOLEAN]
           S == {"PENDING", "SUCCESS", "ABORTED", "INVALID_REQUEST", "ILLEGAL_BLOCK"}
           OK(p) == p.Element \in T /\ p.Status \in S
<1>1. /\ c.Lba \in Nat /\ c.Blocks \in Nat /\ Named(c) \in Nat /\ c.FUA \in BOOLEAN
      /\ c.TransferLength \in Nat
  BY SrbFacts
<1>2. BlockSize \in Nat \ {0} /\ ULongSpan \in Nat \ {0} /\ UInt64Span \in Nat \ {0}
  BY ConstantFacts
<1>3. NoElement \in T
  BY <1>2 DEF NoElement
<1>4. \A s \in S : OK(Refuse(s))
  BY <1>3 DEF Refuse
<1>5. ASSUME NEW a \in Nat, NEW n \in Nat, NEW f \in BOOLEAN PROVE OK(Queue(QueueElement(a, n, f)))
  BY QueueElementType DEF Queue
<1> HIDE DEF OK
<1>6. OK(PendRange(c))
  <2>1. PICK r : r = SrbCdbGetRange(c)
    OBVIOUS
  <2>2. r.BlockAddress = c.Lba /\ r.BlockCount = Named(c) /\ r.FUA \in BOOLEAN
    BY <2>1 DEF SrbCdbGetRange, Named
  <2>3. PICK b \in Nat : b = r.BlockCount * BlockSize
    BY <1>1, <1>2, <2>2, MulNat
  <2>4. PICK d \in Nat : d = b % ULongSpan
    BY <1>2, ModLe
  <2>5. OK(Queue(QueueElement(r.BlockAddress, d, r.FUA)))
    BY <1>1, <1>5, <2>2
  <2> QED
    BY <1>4, <2>1, <2>3, <2>4, <2>5 DEF PendRange
<1>7. OK(PendUnmap(c))
  <2>1. PICK b \in Nat : b = c.Blocks * BlockSize
    BY <1>1, <1>2, MulNat
  <2>2. PICK w \in Nat : w = b % UInt64Span
    BY <1>2, ModLe
  <2>3. OK(Queue(QueueElement(c.Lba, w, FALSE)))
    BY <1>1, <1>5
  <2> QED
    BY <1>4, <2>1, <2>2, <2>3 DEF PendUnmap
<1>8. OK(PendReserve(c))
  BY <1>1, <1>4, <1>5 DEF PendReserve
<1> QED
  BY <1>6, <1>7, <1>8 DEF WnbdPendOperation, OK
-----------------------------------------------------------------------------
(* Steps *)

USE DEF diskVars, pathVars

\* An answer changes what the host knows, and only to something true.
LEMMA EmulateStep ==
  ASSUME IInv, NEW c \in EmulatedSrbs, Emulate(c)
  PROVE  IInv'
<1>1. ToldIsTrue'
  BY AnswersTruthful DEF IInv, Emulate, ToldIsTrue, Truthful, TrueTells
<1> QED
  BY <1>1 DEF IInv, Emulate, TypeOK, NothingEarly, InFlight, RangeKept, UnmapKept, PromiseKept,
         RequestKept, ExactIo, TrimWithin, AdvertisedIsServed, Addressable

\* A new size is not looked at by a command that passed the range check.
LEMMA ResizeStep ==
  ASSUME IInv, NEW n \in Sizes, WnbdSetDiskSize(n)
  PROVE  IInv'
  BY DEF IInv, WnbdSetDiskSize, TypeOK, ToldIsTrue, NothingEarly, InFlight, RangeKept, UnmapKept,
         PromiseKept, RequestKept, ExactIo, TrimWithin, AdvertisedIsServed, Addressable

\* A command that Promised allows passes WnbdPendOperation.
LEMMA PromisedPends ==
  ASSUME TypeOK, ToldIsTrue, NEW c \in QueuedSrbs, Promised(c)
  PROVE  WnbdPendOperation(c).Status \in {"PENDING", "SUCCESS"}
<1>1. c.Lba \in Nat /\ Named(c) \in Nat /\ c.Blocks \in Nat
      /\ c.Op \in RangeOps \cup {"UNMAP", "PERSISTENT_RESERVE_IN", "PERSISTENT_RESERVE_OUT"}
  BY SrbFacts
<1>2. told.MaxLba \in Int /\ BlockCount \in Nat
  BY ConstantFacts DEF TypeOK, ToldIsTrue
<1>3. c.Lba + Named(c) <= BlockCount
  <2>1. c.Lba + Named(c) <= told.MaxLba + 1 /\ told.MaxLba < BlockCount
    BY DEF Promised
  <2> QED
    BY <1>1, <1>2, <2>1
<1>4. c.Lba + c.Blocks <= BlockCount
  BY <1>1, <1>2, <1>3, ConstantFacts DEF Named
<1>5. CASE c.Op \in {"READ", "WRITE"}
  <2>1. c.TransferLength = Named(c) * BlockSize
    BY <1>5 DEF Promised
  <2> QED
    BY <1>3, <1>5, <2>1, ReadWriteQueued DEF WnbdPendOperation, RangeOps
<1>6. CASE c.Op = "SYNCHRONIZE_CACHE"
  BY <1>3, <1>6, FlushQueued DEF WnbdPendOperation, RangeOps
<1>7. CASE c.Op = "UNMAP"
  <2>1. c.TransferLength = 8 + c.BlockDescLength /\ ~c.Anchor /\ c.BlockDescLength \in {0, 16}
    BY <1>7 DEF Promised
  <2> QED
    BY <1>4, <1>7, <2>1, UnmapQueued DEF WnbdPendOperation, RangeOps
<1>8. c.Op \in {"READ", "WRITE", "SYNCHRONIZE_CACHE", "UNMAP"}
  BY <1>1 DEF Promised, RangeOps
<1> QED
  BY <1>5, <1>6, <1>7, <1>8

\* WnbdPendOperation is the only stage that sees the command and the size of
\* the disk together.
LEMMA StartStep ==
  ASSUME IInv, NEW c \in QueuedSrbs, Start(c)
  PROVE  IInv'
<1> DEFINE p == WnbdPendOperation(c)
<1>1. /\ TypeOK /\ ToldIsTrue /\ wire = {} /\ pc = "idle"
  BY DEF IInv, NothingEarly, Start
<1>2. /\ p.Element \in
           [StartingLbn : 0..(UInt64Span - 1), DataLength : 0..(ULongSpan - 1), FUA : BOOLEAN]
      /\ p.Status \in {"PENDING", "SUCCESS", "ABORTED", "INVALID_REQUEST", "ILLEGAL_BLOCK"}
  BY PendType
<1>3. /\ Srb' = c /\ sizeThen' = BlockCount /\ promised' = Promised(c) /\ Element' = p.Element
      /\ pc' = IF p.Status = "PENDING" THEN "queued" ELSE "done"
      /\ SrbStatus' = IF p.Status = "PENDING" THEN "none" ELSE p.Status
      /\ UNCHANGED <<BlockCount, Flags, SerialLength, told, Request, wire>>
  BY DEF Start
<1>4. Promised(c) => p.Status \in {"PENDING", "SUCCESS"}
  BY <1>1, PromisedPends
<1>5. /\ c.Op \in {"READ", "WRITE"} => p = PendRange(c)
      /\ c.Op = "UNMAP" => p = PendUnmap(c)
  BY DEF WnbdPendOperation, RangeOps
<1>6. c.Op \in {"READ", "WRITE"} /\ p.Status = "PENDING" =>
        /\ p.Element.DataLength = Named(c) * BlockSize
        /\ c.Lba + Named(c) <= BlockCount
        /\ BlockCount <= (UInt64Span - 1) \div BlockSize => p.Element.StartingLbn = c.Lba * BlockSize
        /\ p.Element.FUA <=> c.Form # 6 /\ c.FUA
  BY <1>1, <1>5, ReadWriteQueued
<1>7. c.Op = "UNMAP" /\ p.Status = "PENDING" =>
        /\ p.Element.DataLength <= c.Blocks * BlockSize
        /\ c.Blocks * BlockSize < ULongSpan => p.Element.DataLength = c.Blocks * BlockSize
        /\ c.Lba + c.Blocks <= BlockCount
        /\ BlockCount <= (UInt64Span - 1) \div BlockSize => p.Element.StartingLbn = c.Lba * BlockSize
  BY <1>1, <1>5, UnmapQueued
<1> HIDE DEF p
<1>8. TypeOK'
  <2>1. promised' \in BOOLEAN
    BY <1>3 DEF Promised
  <2>2. pc' \in {"queued", "done"} /\ SrbStatus' \in Statuses
    BY <1>2, <1>3 DEF Statuses
  <2> QED
    BY <1>1, <1>2, <1>3, <2>1, <2>2 DEF TypeOK
<1>9. ToldIsTrue' /\ NothingEarly' /\ ExactIo' /\ TrimWithin' /\ RequestKept'
  BY <1>1, <1>3, ConstantFacts DEF TypeOK, ToldIsTrue, NothingEarly, InFlight, ExactIo, TrimWithin,
         RequestKept
<1>10. RangeKept'
  BY <1>3, <1>6 DEF RangeKept, InFlight, Addressable
<1>11. UnmapKept'
  BY <1>3, <1>7 DEF UnmapKept, InFlight, Addressable
<1>12. PromiseKept'
  <2>1. c.Op \in RangeOps \cup {"UNMAP", "PERSISTENT_RESERVE_IN", "PERSISTENT_RESERVE_OUT"}
    BY SrbFacts
  <2>2. Promised(c) =>
        /\ c.Op \in RangeOps \cup {"UNMAP"}
        /\ c.Op # "READ" => told.WriteProtect = "no"
        /\ c.Op = "WRITE" /\ c.FUA => told.DpoFua = "yes"
        /\ c.Op = "SYNCHRONIZE_CACHE" => told.WriteCacheEnable = "yes"
        /\ c.Op = "UNMAP" => told.Lbpu = "yes"
    BY <2>1 DEF Promised, RangeOps
  <2> QED
    BY <1>1, <1>3, <2>2 DEF PromiseKept, InFlight, ToldIsTrue
<1>13. AdvertisedIsServed'
  BY <1>2, <1>3, <1>4 DEF AdvertisedIsServed
<1> QED
  BY <1>8, <1>9, <1>10, <1>11, <1>12, <1>13 DEF IInv
\* Flags of the disk are Booleans.
LEMMA FlagFacts ==
  ASSUME TypeOK
  PROVE  /\ Flags.ReadOnly \in BOOLEAN /\ Flags.FlushSupported \in BOOLEAN
         /\ Flags.UnmapSupported \in BOOLEAN /\ Flags.FUASupported \in BOOLEAN
         /\ Flags.PersistResSupported \in BOOLEAN
  BY FlagsAssumption DEF TypeOK

\* Every operation has its request type.
LEMMA RequestTypeOf ==
  ASSUME NEW c \in QueuedSrbs
  PROVE  /\ ScsiOpToWnbdReqType(c.Op) \in RequestTypes
         /\ c.Op = "READ" => ScsiOpToWnbdReqType(c.Op) = "Read"
         /\ c.Op = "WRITE" => ScsiOpToWnbdReqType(c.Op) = "Write"
         /\ c.Op = "SYNCHRONIZE_CACHE" => ScsiOpToWnbdReqType(c.Op) = "Flush"
         /\ c.Op = "UNMAP" => ScsiOpToWnbdReqType(c.Op) = "Unmap"
  BY SrbFacts DEF ScsiOpToWnbdReqType, RequestTypes, RangeOps

\* A command that was promised is supported.
LEMMA PromisedSupported ==
  ASSUME IInv, InFlight, promised
  PROVE  LET type == ScsiOpToWnbdReqType(Srb.Op) IN
         ValidateScsiRequest(type) /\ Supported(type) /\ type \in Interface
<1>1. Srb \in QueuedSrbs /\ PromiseKept
  BY DEF IInv, NothingEarly
<1>2. PICK type : type = ScsiOpToWnbdReqType(Srb.Op)
  OBVIOUS
<1>3. /\ Srb.Op \in {"READ", "WRITE", "SYNCHRONIZE_CACHE", "UNMAP"}
      /\ Srb.Op # "READ" => ~Flags.ReadOnly
      /\ Srb.Op = "SYNCHRONIZE_CACHE" => Flags.FlushSupported
      /\ Srb.Op = "UNMAP" => Flags.UnmapSupported
  BY <1>1 DEF PromiseKept, RangeOps
<1>4. /\ type \in {"Read", "Write", "Flush", "Unmap"}
      /\ type # "Read" => ~Flags.ReadOnly
      /\ type = "Flush" => Flags.FlushSupported
      /\ type = "Unmap" => Flags.UnmapSupported
  BY <1>1, <1>2, <1>3, RequestTypeOf
<1>5. Supported(type)
  BY <1>4 DEF Supported
<1> QED
  BY <1>2, <1>4, <1>5, InterfaceAssumption DEF ValidateScsiRequest

\* WnbdDispatchRequest divides what WnbdPendElement multiplied.
LEMMA DispatchStep ==
  ASSUME IInv, Dispatch
  PROVE  IInv'
<1> USE DEF Dispatch
<1>1. /\ pc = "queued" /\ wire = {} /\ Srb \in QueuedSrbs /\ TypeOK /\ InFlight
  BY DEF IInv, NothingEarly, InFlight
<1>2. PICK type \in RequestTypes : type = ScsiOpToWnbdReqType(Srb.Op)
  BY <1>1, RequestTypeOf
<1>3. UNCHANGED <<BlockCount, Flags, SerialLength, told, Srb, sizeThen, promised, Element, wire>>
  OBVIOUS
<1>0. PICK fua \in BOOLEAN : fua = (Element.FUA /\ Flags.FUASupported)
  OBVIOUS
<1>4. \/ /\ pc' = "submitted"
         /\ Request' = [RequestType  |-> type,
                        BlockAddress |-> Element.StartingLbn \div BlockSize,
                        BlockCount   |-> Element.DataLength \div BlockSize,
                        FUA          |-> fua]
         /\ SrbStatus' = SrbStatus
      \/ /\ pc' = "done" /\ SrbStatus' = "INVALID_REQUEST" /\ Request' = Request
         /\ ~ValidateScsiRequest(type)
  BY <1>0, <1>2
<1>5. pc' = "done" => ~promised
  BY <1>1, <1>2, <1>4, PromisedSupported
<1>6. TypeOK'
  <2>1. Request' \in [RequestType : RequestTypes, BlockAddress : 0..(UInt64Span - 1),
                      BlockCount : 0..(ULongSpan - 1), FUA : BOOLEAN]
    <3>1. PICK a \in Nat : a = Element.StartingLbn /\ a < UInt64Span
      BY <1>1, ConstantFacts DEF TypeOK
    <3>2. PICK d \in Nat : d = Element.DataLength /\ d < ULongSpan
      BY <1>1, ConstantFacts DEF TypeOK
    <3>3. BlockSize \in Nat \ {0} /\ UInt64Span \in Nat /\ ULongSpan \in Nat
      BY ConstantFacts
    <3>4. a \div BlockSize \in Nat /\ a \div BlockSize <= a
          /\ d \div BlockSize \in Nat /\ d \div BlockSize <= d
      BY <3>3, DivLe
    <3>5. a \div BlockSize \in 0..(UInt64Span - 1) /\ d \div BlockSize \in 0..(ULongSpan - 1)
      BY <3>1, <3>2, <3>3, <3>4
    <3> QED
      BY <1>1, <1>4, <3>1, <3>2, <3>5 DEF TypeOK
  <2>2. pc' \in {"submitted", "done"} /\ SrbStatus' \in Statuses
    BY <1>1, <1>4 DEF TypeOK, Statuses
  <2> QED
    BY <1>1, <1>3, <2>1, <2>2 DEF TypeOK
<1>7. ToldIsTrue' /\ NothingEarly' /\ RangeKept' /\ UnmapKept' /\ PromiseKept'
  BY ONLY IInv, <1>1, <1>3, <1>4 DEF IInv, ToldIsTrue, NothingEarly, InFlight, RangeKept, UnmapKept,
     PromiseKept, Addressable
<1>8. RequestKept'
  <2>1. fua <=> Element.FUA /\ Flags.FUASupported
    BY <1>0, <1>1, FlagFacts DEF TypeOK
  <2>2. pc' \in {"submitted", "sent"} =>
          /\ Request'.RequestType = type /\ Request'.FUA = fua
          /\ Request'.BlockAddress = Element.StartingLbn \div BlockSize
          /\ Request'.BlockCount = Element.DataLength \div BlockSize
    BY ONLY <1>4
  <2> QED
    BY ONLY <1>2, <1>3, <2>1, <2>2 DEF RequestKept
<1>9. ExactIo' /\ TrimWithin' /\ AdvertisedIsServed'
  BY ONLY <1>1, <1>3, <1>4, <1>5 DEF ExactIo, TrimWithin, AdvertisedIsServed
<1> QED
  BY <1>6, <1>7, <1>8, <1>9 DEF IInv

\* What goes out for a read or a write.
LEMMA ExactSent ==
  ASSUME IInv, pc = "submitted", Srb.Op \in {"READ", "WRITE"}, Addressable
  PROVE  LET w == NbdCommand(Request) IN
         /\ w.Offset = Srb.Lba * BlockSize
         /\ w.Length = Named(Srb) * BlockSize
         /\ Srb.Lba + Named(Srb) <= sizeThen
         /\ w.FUA => Srb.Op = "WRITE" /\ Srb.FUA
         /\ promised /\ Srb.Op = "WRITE" /\ Srb.Form # 6 /\ Srb.FUA => w.FUA
<1>1. /\ Srb \in QueuedSrbs /\ TypeOK /\ InFlight /\ RangeKept /\ RequestKept /\ PromiseKept
      /\ sizeThen \in Nat
  BY DEF IInv, NothingEarly, InFlight
<1>2. PICK a \in Nat : a = Srb.Lba
  BY <1>1, SrbFacts
<1>3. PICK n \in Nat : n = Named(Srb)
  BY <1>1, SrbFacts
<1>4. BlockSize \in Nat \ {0} /\ UInt64Span \in Nat \ {0} /\ ULongSpan \in Nat \ {0}
  BY ConstantFacts
<1>5. /\ Element.DataLength = n * BlockSize /\ a + n <= sizeThen
      /\ Element.StartingLbn = a * BlockSize
      /\ Element.FUA <=> Srb.Form # 6 /\ Srb.FUA
  BY <1>1, <1>2, <1>3 DEF RangeKept
<1>6. Request.BlockAddress = a /\ Request.BlockCount = n
      /\ (Request.FUA <=> Element.FUA /\ Flags.FUASupported)
  BY <1>1, <1>4, <1>5, DivMul DEF RequestKept
<1>7. Request.RequestType = IF Srb.Op = "READ" THEN "Read" ELSE "Write"
  BY <1>1, RequestTypeOf DEF RequestKept
<1>8. (n * BlockSize) % ULongSpan = n * BlockSize
  <2>1. PICK d \in Nat : d = n * BlockSize
    BY <1>4, MulNat
  <2>2. d < ULongSpan
    BY <1>1, <1>4, <1>5, <2>1 DEF TypeOK
  <2> QED
    BY <1>4, <2>1, <2>2, ModSmall
<1>9. (a * BlockSize) % UInt64Span = a * BlockSize
  <2>1. PICK d \in Nat : d = a * BlockSize
    BY <1>4, MulNat
  <2>2. d < UInt64Span
    BY <1>1, <1>4, <1>5, <2>1 DEF TypeOK
  <2> QED
    BY <1>4, <2>1, <2>2, ModSmall
<1>10. promised /\ Srb.Op = "WRITE" /\ Srb.FUA => Flags.FUASupported
  BY <1>1 DEF PromiseKept
<1>11. /\ NbdCommand(Request).Offset = a * BlockSize
       /\ NbdCommand(Request).Length = n * BlockSize
       /\ NbdCommand(Request).FUA <=> Srb.Op = "WRITE" /\ Request.FUA
  BY <1>6, <1>7, <1>8, <1>9 DEF NbdCommand
<1> QED
  BY <1>2, <1>3, <1>5, <1>6, <1>10, <1>11

\* What goes out for an unmap.
LEMMA TrimSent ==
  ASSUME IInv, pc = "submitted", Srb.Op = "UNMAP", Addressable
  PROVE  LET w == NbdCommand(Request)
             asked == Srb.Blocks * BlockSize IN
         /\ w.Type = "Unmap"
         /\ w.Offset = Srb.Lba * BlockSize
         /\ w.Length <= asked /\ (asked < ULongSpan => w.Length = asked)
         /\ Srb.Lba + Srb.Blocks <= sizeThen
<1>1. /\ Srb \in QueuedSrbs /\ TypeOK /\ InFlight /\ UnmapKept /\ RequestKept
  BY DEF IInv, NothingEarly, InFlight
<1>2. PICK a \in Nat : a = Srb.Lba
  BY <1>1, SrbFacts
<1>3. PICK n \in Nat : n = Srb.Blocks
  BY <1>1, SrbFacts
<1>4. BlockSize \in Nat \ {0} /\ UInt64Span \in Nat \ {0} /\ ULongSpan \in Nat \ {0}
  BY ConstantFacts
<1>5. PICK b \in Nat : b = n * BlockSize
  BY <1>4, MulNat
<1>6. PICK d \in Nat : d = Element.DataLength /\ d < ULongSpan
  BY <1>1, <1>4 DEF TypeOK
<1>7. /\ d <= b /\ (b < ULongSpan => d = b) /\ a + n <= sizeThen
      /\ Element.StartingLbn = a * BlockSize
  BY <1>1, <1>2, <1>3, <1>5, <1>6 DEF UnmapKept
<1>8. /\ Request.BlockAddress = a /\ Request.BlockCount = d \div BlockSize
      /\ Request.RequestType = "Unmap"
  BY <1>1, <1>4, <1>6, <1>7, DivMul, RequestTypeOf DEF RequestKept
<1>9. PICK k \in Nat : k = d \div BlockSize /\ k * BlockSize <= d
  BY <1>4, DivLe
<1>10. b < ULongSpan => k = n
  BY <1>4, <1>5, <1>7, <1>9, DivMul
<1>11. PICK l \in Nat : l = k * BlockSize
  BY <1>4, MulNat
<1>12. l < ULongSpan /\ l <= b /\ (b < ULongSpan => l = b)
  BY <1>4, <1>5, <1>6, <1>7, <1>9, <1>10, <1>11
<1>13. l % ULongSpan = l
  BY <1>4, <1>12, ModSmall
<1>14. (a * BlockSize) % UInt64Span = a * BlockSize
  <2>1. PICK e \in Nat : e = a * BlockSize
    BY <1>4, MulNat
  <2>2. e < UInt64Span
    BY <1>1, <1>4, <1>7, <2>1 DEF TypeOK
  <2> QED
    BY <1>4, <2>1, <2>2, ModSmall
<1>15. /\ NbdCommand(Request).Type = "Unmap"
       /\ NbdCommand(Request).Offset = a * BlockSize
       /\ NbdCommand(Request).Length = l
  BY <1>8, <1>9, <1>11, <1>13, <1>14 DEF NbdCommand
<1> QED
  BY <1>2, <1>3, <1>5, <1>7, <1>12, <1>15

\* What goes out keeps the widths of its fields.
LEMMA CommandType ==
  ASSUME TypeOK, Request.RequestType \in Interface
  PROVE  NbdCommand(Request) \in NbdCommands
<1>1. /\ BlockSize \in Nat \ {0} /\ UInt64Span \in Nat \ {0} /\ ULongSpan \in Nat \ {0}
      /\ Request.BlockAddress \in Nat /\ Request.BlockCount \in Nat /\ Request.FUA \in BOOLEAN
  BY ConstantFacts DEF TypeOK
<1>2. PICK a \in Nat : a = Request.BlockAddress * BlockSize
  BY <1>1, MulNat
<1>3. PICK n \in Nat : n = Request.BlockCount * BlockSize
  BY <1>1, MulNat
<1>4. a % UInt64Span \in 0..(UInt64Span - 1) /\ n % ULongSpan \in 0..(ULongSpan - 1)
  BY <1>1, ModLe
<1>5. 0 \in 0..(UInt64Span - 1) /\ 0 \in 0..(ULongSpan - 1)
  BY <1>1
<1> QED
  BY <1>1, <1>2, <1>3, <1>4, <1>5 DEF NbdCommand, NbdCommands

\* WnbdHandleRequest and the callback it calls.
LEMMA HandleRequestStep ==
  ASSUME IInv, WnbdHandleRequest
  PROVE  IInv'
<1> USE DEF WnbdHandleRequest
<1>1. /\ pc = "submitted" /\ wire = {} /\ Srb \in QueuedSrbs /\ TypeOK /\ InFlight
      /\ Request.RequestType = ScsiOpToWnbdReqType(Srb.Op)
  BY DEF IInv, NothingEarly, InFlight, RequestKept
<1>2. UNCHANGED <<BlockCount, Flags, SerialLength, told, Srb, sizeThen, promised, Element, Request>>
  OBVIOUS
<1>3. \/ pc' = "sent" /\ wire' = {NbdCommand(Request)} /\ SrbStatus' = SrbStatus
      \/ pc' = "done" /\ wire' = {} /\ SrbStatus' = "ILLEGAL_COMMAND" /\ ~promised
  BY <1>1, PromisedSupported
<1>4. TypeOK'
  <2>1. wire' \subseteq NbdCommands
    BY <1>1, CommandType
  <2> QED
    BY <1>1, <1>2, <1>3, <2>1 DEF TypeOK, Statuses
<1>5. ToldIsTrue' /\ NothingEarly' /\ RangeKept' /\ UnmapKept' /\ PromiseKept' /\ RequestKept'
  BY ONLY IInv, <1>1, <1>2, <1>3 DEF IInv, ToldIsTrue, NothingEarly, InFlight, RangeKept, UnmapKept,
     PromiseKept, RequestKept, Addressable
<1>6. ExactIo'
  BY <1>1, <1>2, <1>3, ExactSent DEF ExactIo, Addressable
<1>7. TrimWithin'
  BY <1>1, <1>2, <1>3, TrimSent DEF TrimWithin, Addressable
<1>8. AdvertisedIsServed'
  BY <1>2, <1>3 DEF AdvertisedIsServed
<1> QED
  BY <1>4, <1>5, <1>6, <1>7, <1>8 DEF IInv

\* The empty element and request have the widths of any other.
LEMMA EmptyTypes ==
  /\ NoElement \in
       [StartingLbn : 0..(UInt64Span - 1), DataLength : 0..(ULongSpan - 1), FUA : BOOLEAN]
  /\ NoRequest \in [RequestType : RequestTypes, BlockAddress : 0..(UInt64Span - 1),
                    BlockCount : 0..(ULongSpan - 1), FUA : BOOLEAN]
<1>1. 0 \in 0..(UInt64Span - 1) /\ 0 \in 0..(ULongSpan - 1)
  BY ConstantFacts
<1> QED
  BY <1>1 DEF NoElement, NoRequest, RequestTypes

\* The end of a command.
LEMMA EndStep ==
  ASSUME IInv, ServerReplies \/ Retire
  PROVE  IInv'
<1>1. CASE ServerReplies
  BY <1>1 DEF ServerReplies, IInv, TypeOK, ToldIsTrue, NothingEarly, InFlight, RangeKept, UnmapKept,
     PromiseKept, RequestKept, ExactIo, TrimWithin, AdvertisedIsServed, Addressable, Statuses
<1>2. CASE Retire
  <2>1. TypeOK'
    BY <1>2, EmptyTypes DEF Retire, IInv, TypeOK, Statuses
  <2>2. /\ ToldIsTrue' /\ NothingEarly' /\ RangeKept' /\ UnmapKept' /\ PromiseKept'
        /\ RequestKept' /\ ExactIo' /\ TrimWithin' /\ AdvertisedIsServed'
    BY <1>2 DEF Retire, IInv, ToldIsTrue, NothingEarly, InFlight, RangeKept, UnmapKept,
       PromiseKept, RequestKept, ExactIo, TrimWithin, AdvertisedIsServed
  <2> QED
    BY <2>1, <2>2 DEF IInv
<1> QED
  BY <1>1, <1>2

\* The invariant holds when the disk appears.
LEMMA InvariantInit == Init => IInv
<1> SUFFICES ASSUME Init PROVE IInv
  OBVIOUS
<1> USE DEF Init
<1>1. TypeOK
  BY EmptyTypes DEF TypeOK, Statuses
<1>2. ToldIsTrue
  BY DEF ToldIsTrue, Untold, Tells
<1>3. /\ NothingEarly /\ RangeKept /\ UnmapKept /\ PromiseKept
      /\ RequestKept /\ ExactIo /\ TrimWithin /\ AdvertisedIsServed
  BY DEF NothingEarly, InFlight, RangeKept, UnmapKept, PromiseKept, RequestKept, ExactIo, TrimWithin,
     AdvertisedIsServed
<1> QED
  BY <1>1, <1>2, <1>3 DEF IInv

\* Every step keeps the invariant.
THEOREM Invariant == Spec => []IInv
<1>1. IInv /\ [Next]_vars => IInv'
  <2> SUFFICES ASSUME IInv, [Next]_vars PROVE IInv'
    OBVIOUS
  <2>1. CASE UNCHANGED vars
    BY <2>1 DEF vars, IInv, TypeOK, ToldIsTrue, NothingEarly, InFlight, RangeKept, UnmapKept,
       PromiseKept, RequestKept, ExactIo, TrimWithin, AdvertisedIsServed, Addressable
  <2> QED
    BY <2>1, EmulateStep, ResizeStep, StartStep, DispatchStep, HandleRequestStep, EndStep DEF Next
<1> QED
  BY <1>1, InvariantInit, PTL DEF Spec

-----------------------------------------------------------------------------
(* Theorems *)

\* The element, the request and the command sent keep the widths of their fields,
\* and only callbacks that exist are called (SRB_QUEUE_ELEMENT, WNBD_IO_REQUEST,
\* WnbdHandleRequest).
THEOREM TypeCorrect == Spec => []TypeOK
<1>1. IInv => TypeOK
  BY DEF IInv
<1> QED
  BY <1>1, Invariant, PTL

\* What the server is asked to read or write is what the host named, for every
\* command, every disk that can be addressed in bytes and every resize in between.
THEOREM IoIsExact == Spec => []ExactIo
<1>1. IInv => ExactIo
  BY DEF IInv
<1> QED
  BY <1>1, Invariant, PTL

\* No byte is discarded that the host did not unmap.
THEOREM TrimStaysWithin == Spec => []TrimWithin
<1>1. IInv => TrimWithin
  BY DEF IInv
<1> QED
  BY <1>1, Invariant, PTL

\* What the driver told the host it may do is never refused.
THEOREM PromisesAreKept == Spec => []AdvertisedIsServed
<1>1. IInv => AdvertisedIsServed
  BY DEF IInv
<1> QED
  BY <1>1, Invariant, PTL

\* No answer of the driver is untrue of the disk or longer than its buffer, for
\* every command and every length of buffer but those Overrun names.
THEOREM AnswersAreTrue == Spec => []TruthfulAnswers
<1>1. IInv => TruthfulAnswers
  <2> SUFFICES ASSUME IInv, NEW c \in EmulatedSrbs, Emulated(c).Status = "SUCCESS"
      PROVE  /\ c.Op \in {"READ_CAPACITY", "READ_CAPACITY16"} =>
                  Emulated(c).Tells.MaxLba < BlockCount
             /\ Emulated(c).Length <= c.TransferLength \/ Overrun(c)
             /\ c.Op = "INQUIRY" /\ c.Page = "VPD_SERIAL_NUMBER" =>
                  \/ Emulated(c).PageLength = SerialLength + 1
                  \/ SerialLength = UCharSpan - 1 /\ Emulated(c).PageLength = 0
    BY DEF TruthfulAnswers
  <2>1. Truthful(c, Emulated(c))
    BY AnswersTruthful DEF IInv
  <2>2. c.Op = "INQUIRY" => Emulated(c) = WnbdInquiry(c)
    BY DEF Emulated, DataOps, Failed
  <2>3. c.Op \in {"READ_CAPACITY", "READ_CAPACITY16"} => Emulated(c) = WnbdReadCapacity(c)
    BY DEF Emulated, DataOps, Failed
  <2>4. OnDisk(WnbdReadCapacity(c))
    BY CapacityTruthful DEF IInv
  <2> QED
    BY <2>1, <2>2, <2>3, <2>4, InquiryTruthful DEF IInv, Truthful, OnDisk
<1> QED
  BY <1>1, Invariant, PTL
=============================================================================
