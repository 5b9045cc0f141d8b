---------------------------- MODULE NbdNegotiate ----------------------------
(***************************************************************************)
(* How the daemon of an NBD mapping agrees with the server on what is      *)
(* mapped: NbdNegotiate (libwnbd/nbd_protocol.cpp) and the part of         *)
(* NbdDaemon::TryStart (libwnbd/nbd_daemon.cpp) that precedes WnbdCreate.  *)
(*                                                                         *)
(* Client and server exchange messages over two FIFO streams.  The client  *)
(* reads a fixed number of bytes at each point, so that one unread or      *)
(* missing item shifts everything the transmission phase reads later: an   *)
(* item of a stream is what the client reads at once.                      *)
(*                                                                         *)
(* The server is external.  An honest one follows the fixed-newstyle       *)
(* protocol the way the fake server of the tests does; any other sends     *)
(* whatever it likes.  Either may close the connection at any time.        *)
(***************************************************************************)
EXTENDS Naturals, Sequences

CONSTANTS
  Asked,       \* the WNBD_PROPERTIES the mapping may be asked with
  Servers,     \* the honest servers: what they export and support
  Replies,     \* what a dishonest server may answer to NBD_OPT_GO
  Exports,     \* what a dishonest server may answer to NBD_OPT_EXPORT_NAME
  MaxReplies,  \* bound on the messages of a dishonest server
  UllongMax    \* ULLONG_MAX

WNBD_DEFAULT_BLOCK_SIZE == 512
WNBD_DEFAULT_MAX_TRANSFER_LENGTH == 2 * 1024 * 1024

GlobalFlags   == {"FIXED_NEWSTYLE", "NO_ZEROES"}
Features      == {"READ_ONLY", "SEND_TRIM", "SEND_FLUSH", "SEND_FUA"}
ExportFlags   == Features \cup {"HAS_FLAGS"}
Constraints   == [Received : BOOLEAN, Minimum : Nat, Maximum : Nat]
NoConstraints == [Received |-> FALSE, Minimum |-> 0, Maximum |-> 0]
Refusals      == {"ERR_POLICY", "ERR_BLOCK_SIZE_REQD", "ERR_OTHER"}

\* Replies to NBD_OPT_GO other than NBD_INFO_EXPORT and NBD_INFO_BLOCK_SIZE.
\* BAD_INFO: an NBD_REP_INFO too short or of the wrong length; ACK_DATA: an
\* NBD_REP_ACK with a payload; BAD_MAGIC: not a reply at all.
PlainReplies ==
  Refusals \cup {"ERR_UNSUP", "ACK", "ACK_DATA", "BAD_INFO", "INFO_OTHER", "UNKNOWN", "BAD_MAGIC"}

Plain(kind) == [kind |-> kind]
InfoExport(size, flags) == [kind |-> "INFO_EXPORT", Size |-> size, Flags |-> flags]
InfoBlockSize(limits) == [kind |-> "INFO_BLOCK_SIZE", limits |-> limits]
GreetingFlags(flags) == [kind |-> "global_flags", flags |-> flags]
Sizes(size, flags) == [kind |-> "sizes", Size |-> size, Flags |-> flags]

\* What the client may read from the stream at once.
Messages ==
  [kind : PlainReplies \cup {"password", "option_magic", "client_magic", "garbage", "zeroes"}]
  \cup [kind : {"global_flags"}, flags : SUBSET GlobalFlags]
  \cup [kind : {"INFO_EXPORT", "sizes"}, Size : 0..UllongMax, Flags : SUBSET ExportFlags]
  \cup [kind : {"INFO_BLOCK_SIZE"}, limits : Constraints]

\* A mapping asks for READ_ONLY at most: wnbd-client sets no other flag.
ASSUME NegotiateAssumption ==
  /\ UllongMax \in Nat /\ MaxReplies \in Nat
  /\ Servers # {}
  /\ Asked \subseteq [BlockSize : Nat, BlockCount : Nat, SkipNegotiation : BOOLEAN,
                      Features : SUBSET {"READ_ONLY"}]
  /\ Servers \subseteq [GFlags : SUBSET GlobalFlags, OptGo : BOOLEAN,
                        Refusal : Refusals \cup {"none"}, Size : 0..UllongMax,
                        Flags : SUBSET ExportFlags, limits : Constraints]
  /\ Replies \subseteq Messages /\ Exports \subseteq Messages

VARIABLES
  pc,              \* where the client is
  WnbdProps,
  GFlags, ClientFlags,
  SeenExport, Size, Flags, BlockSizeInfo,
  requests,        \* client to server
  stream,          \* server to client
  closed,          \* the connection is closed
  honest, server,  \* whether the server is honest, and which one
  serverPc,
  serverFlags,     \* the client flags the server received
  told,            \* the information items an honest server sent
  misbehaved       \* messages a dishonest server sent

clientVars == <<WnbdProps, GFlags, ClientFlags, SeenExport, Size, Flags, BlockSizeInfo>>
serverVars == <<honest, server, serverPc, serverFlags, told, misbehaved>>
vars == <<pc, clientVars, requests, stream, closed, serverVars>>

Receiving == {"password", "option_magic", "global_flags", "reply", "sizes", "zeroes"}
Sending   == {"option_go", "export_name"}
Over      == {"mapped", "failed"}

TypeOK ==
  /\ pc \in Receiving \cup Sending \cup Over \cup {"start", "limits", "map"}
  /\ WnbdProps \in [BlockSize : Nat, BlockCount : Nat, SkipNegotiation : BOOLEAN,
                    Features : SUBSET Features]
  /\ GFlags \subseteq GlobalFlags /\ ClientFlags \subseteq GFlags
  /\ SeenExport \in BOOLEAN
  /\ Size \in 0..UllongMax /\ Flags \subseteq ExportFlags
  /\ BlockSizeInfo \in Constraints
  /\ Len(requests) <= 3
  /\ closed \in BOOLEAN /\ honest \in BOOLEAN
  /\ server \in Servers
  /\ serverPc \in {"greet", "flags", "options", "infos", "transmission"}
  /\ serverFlags \subseteq GlobalFlags
  /\ told \subseteq {"EXPORT", "BLOCK_SIZE", "OTHER"}
  /\ misbehaved \in 0..MaxReplies

Init ==
  /\ pc = "start"
  /\ WnbdProps \in Asked
  /\ GFlags = {} /\ ClientFlags = {}
  /\ SeenExport = FALSE /\ Size = 0 /\ Flags = {} /\ BlockSizeInfo = NoConstraints
  /\ requests = <<>> /\ stream = <<>> /\ closed = FALSE
  /\ \/ honest = TRUE /\ server \in Servers
     \/ honest = FALSE /\ server = CHOOSE s \in Servers : TRUE
  /\ serverPc = "greet" /\ serverFlags = {} /\ told = {} /\ misbehaved = 0

-----------------------------------------------------------------------------
(* The client *)

Goes(p) == pc' = p
Wire == <<requests, stream, closed>>

\* The client consumes the next item of the stream.
Receive(kind) ==
  /\ stream # <<>> /\ Head(stream).kind = kind
  /\ stream' = Tail(stream)
  /\ UNCHANGED <<requests, closed, serverVars>>

\* TryStart up to the connection, which is assumed to succeed here.
StartedProps ==
  [WnbdProps EXCEPT !.BlockSize = IF @ = 0 THEN WNBD_DEFAULT_BLOCK_SIZE ELSE @]
Start ==
  /\ pc = "start"
  /\ StartedProps.BlockSize = 512
  /\ WnbdProps' = StartedProps
  /\ Goes(IF WnbdProps.SkipNegotiation THEN "map" ELSE "password")
  /\ UNCHANGED <<GFlags, ClientFlags, SeenExport, Size, Flags, BlockSizeInfo, Wire, serverVars>>

StartRefused ==
  /\ pc = "start"
  /\ StartedProps.BlockSize # 512
  /\ WnbdProps' = StartedProps
  /\ Goes("failed")
  /\ UNCHANGED <<GFlags, ClientFlags, SeenExport, Size, Flags, BlockSizeInfo, Wire, serverVars>>

\* RecvExact fails at the end of the stream, SendExact on a closed connection.
TransferFails ==
  /\ closed
  /\ \/ pc \in Receiving /\ stream = <<>>
     \/ pc \in Sending
  /\ Goes("failed")
  /\ UNCHANGED <<clientVars, Wire, serverVars>>

NbdValidateInitialMagic ==
  /\ pc = "password"
  /\ \/ Receive("password") /\ Goes("option_magic")
     \/ Receive("garbage") /\ Goes("failed")
  /\ UNCHANGED clientVars

\* An old-style server (CLIENT_MAGIC) is as unwelcome as a wrong magic.
NbdValidateOptionMagic ==
  /\ pc = "option_magic"
  /\ \/ Receive("option_magic") /\ Goes("global_flags")
     \/ (Receive("client_magic") \/ Receive("garbage")) /\ Goes("failed")
  /\ UNCHANGED clientVars

\* Mutant: the client asks for what the server did not offer.
NbdKeepClientFlags(flags, g) == flags

NbdMaskClientFlags(flags, g) == flags \cap g

\* Mutant: NO_ZEROES is not added to what the client asks for.
NegotiateFlagsZeroes ==
  /\ pc = "global_flags"
  /\ Receive("global_flags")
  /\ GFlags' = Head(stream).flags
  /\ ClientFlags' = NbdMaskClientFlags({"FIXED_NEWSTYLE"}, GFlags')
  /\ Goes(IF "FIXED_NEWSTYLE" \in ClientFlags' THEN "option_go" ELSE "failed")
  /\ UNCHANGED <<WnbdProps, SeenExport, Size, Flags, BlockSizeInfo>>

\* The client flags, and NbdRequireFixedNewstyle.
NegotiateFlags ==
  /\ pc = "global_flags"
  /\ Receive("global_flags")
  /\ GFlags' = Head(stream).flags
  /\ ClientFlags' = NbdMaskClientFlags({"FIXED_NEWSTYLE"} \cup (GFlags' \cap {"NO_ZEROES"}), GFlags')
  /\ Goes(IF "FIXED_NEWSTYLE" \in ClientFlags' THEN "option_go" ELSE "failed")
  /\ UNCHANGED <<WnbdProps, SeenExport, Size, Flags, BlockSizeInfo>>

\* The client flags and NBD_OPT_GO, which asks for the export and its limits.
NbdSendInfoRequest ==
  /\ pc = "option_go"
  /\ requests' = requests \o <<[kind |-> "client_flags", flags |-> ClientFlags], Plain("GO")>>
  /\ Goes("reply")
  /\ UNCHANGED <<clientVars, stream, closed, serverVars>>

\* NBD_REP_ERR_UNSUP makes the client fall back to NBD_OPT_EXPORT_NAME, every
\* other error ends the negotiation.
ErrorReply ==
  /\ pc = "reply"
  /\ \/ Receive("ERR_UNSUP") /\ Goes("export_name")
     \/ (\E refusal \in Refusals : Receive(refusal)) /\ Goes("failed")
  /\ UNCHANGED clientVars

MalformedReply ==
  /\ pc = "reply"
  /\ \E kind \in {"BAD_INFO", "ACK_DATA", "BAD_MAGIC"} : Receive(kind)
  /\ Goes("failed")
  /\ UNCHANGED clientVars

IgnoredReply ==
  /\ pc = "reply"
  /\ Receive("INFO_OTHER") \/ Receive("UNKNOWN")
  /\ UNCHANGED <<pc, clientVars>>

\* NBD_INFO_EXPORT: the last one counts.
NbdParseOptGoReply ==
  /\ pc = "reply"
  /\ Receive("INFO_EXPORT")
  /\ Size' = Head(stream).Size /\ Flags' = Head(stream).Flags
  /\ SeenExport' = TRUE
  /\ UNCHANGED <<pc, WnbdProps, GFlags, ClientFlags, BlockSizeInfo>>

\* NBD_INFO_BLOCK_SIZE, before or after the export.
NbdParseInfoBlockSize ==
  /\ pc = "reply"
  /\ Receive("INFO_BLOCK_SIZE")
  /\ BlockSizeInfo' = [Head(stream).limits EXCEPT !.Received = TRUE]
  /\ UNCHANGED <<pc, WnbdProps, GFlags, ClientFlags, SeenExport, Size, Flags>>

\* NBD_REP_ACK ends the negotiation, which fails if no export was described.
AckReply ==
  /\ pc = "reply"
  /\ Receive("ACK")
  /\ Goes(IF SeenExport THEN "limits" ELSE "failed")
  /\ UNCHANGED clientVars

SendOptExportName ==
  /\ pc = "export_name"
  /\ requests' = Append(requests, Plain("EXPORT_NAME"))
  /\ Goes("sizes")
  /\ UNCHANGED <<clientVars, stream, closed, serverVars>>

\* Mutant: the reserved bytes are expected from every server.
NbdParseSizesZeroes ==
  /\ pc = "sizes"
  /\ Receive("sizes")
  /\ Size' = Head(stream).Size /\ Flags' = Head(stream).Flags
  /\ Goes("zeroes")
  /\ UNCHANGED <<WnbdProps, GFlags, ClientFlags, SeenExport, BlockSizeInfo>>

\* The answer to NBD_OPT_EXPORT_NAME, without the reserved bytes if the server
\* offered to leave them out.
NbdParseSizes ==
  /\ pc = "sizes"
  /\ Receive("sizes")
  /\ Size' = Head(stream).Size /\ Flags' = Head(stream).Flags
  /\ Goes(IF "NO_ZEROES" \in GFlags THEN "limits" ELSE "zeroes")
  /\ UNCHANGED <<WnbdProps, GFlags, ClientFlags, SeenExport, BlockSizeInfo>>

ReservedBytes ==
  /\ pc = "zeroes"
  /\ Receive("zeroes")
  /\ Goes("limits")
  /\ UNCHANGED clientVars

\* The server's constraints allow every transfer StorPort may issue.
Compatible(limits, blockSize) ==
  limits.Received =>
    /\ limits.Minimum <= blockSize
    /\ limits.Minimum # 0 => blockSize % limits.Minimum = 0
    /\ limits.Maximum # 0 => limits.Maximum >= WNBD_DEFAULT_MAX_TRANSFER_LENGTH

CheckLimits ==
  /\ pc = "limits"
  /\ \/ /\ Compatible(BlockSizeInfo, WnbdProps.BlockSize)
        /\ WnbdProps' = [WnbdProps EXCEPT !.BlockCount = Size \div WnbdProps.BlockSize]
        /\ Goes("map")
     \/ /\ ~Compatible(BlockSizeInfo, WnbdProps.BlockSize)
        /\ WnbdProps' = WnbdProps
        /\ Goes("failed")
  /\ UNCHANGED <<GFlags, ClientFlags, SeenExport, Size, Flags, BlockSizeInfo, Wire, serverVars>>

\* Mutant: NBD_FLAG_HAS_FLAGS is not looked at.
CHECK_NBD_FLAG_ALWAYS(flags) == flags \cap Features

CHECK_NBD_FLAG(flags) == IF "HAS_FLAGS" \in flags THEN flags \cap Features ELSE {}

\* The transmission phase begins: the disk is created unless it is empty.
Map ==
  /\ pc = "map"
  /\ WnbdProps' = [WnbdProps EXCEPT !.Features = @ \cup CHECK_NBD_FLAG(Flags)]
  /\ Goes(IF \/ WnbdProps.BlockCount = 0
             \/ WnbdProps.BlockCount > UllongMax \div WnbdProps.BlockSize
          THEN "failed" ELSE "mapped")
  /\ UNCHANGED <<GFlags, ClientFlags, SeenExport, Size, Flags, BlockSizeInfo, Wire, serverVars>>

ClientSteps ==
  \/ Start \/ StartRefused \/ TransferFails
  \/ NbdValidateInitialMagic \/ NbdValidateOptionMagic \/ NegotiateFlags \/ NbdSendInfoRequest
  \/ ErrorReply \/ MalformedReply \/ IgnoredReply
  \/ NbdParseOptGoReply \/ NbdParseInfoBlockSize \/ AckReply
  \/ SendOptExportName \/ NbdParseSizes \/ ReservedBytes
  \/ CheckLimits \/ Map

-----------------------------------------------------------------------------
(* The server *)

Sends(messages) == stream' = stream \o messages
ServerUnchanged == UNCHANGED <<pc, clientVars, honest, server, misbehaved>>

ServerGreets ==
  /\ honest /\ ~closed /\ serverPc = "greet"
  /\ Sends(<<Plain("password"), Plain("option_magic"), GreetingFlags(server.GFlags)>>)
  /\ serverPc' = "flags"
  /\ ServerUnchanged /\ UNCHANGED <<requests, closed, serverFlags, told>>

Requested(kind) ==
  /\ honest /\ ~closed /\ requests # <<>>
  /\ Head(requests).kind = kind
  /\ requests' = Tail(requests)

ServerReadsFlags ==
  /\ serverPc = "flags" /\ Requested("client_flags")
  /\ serverFlags' = Head(requests).flags
  /\ serverPc' = "options"
  /\ ServerUnchanged /\ UNCHANGED <<stream, closed, told>>

ServerAnswersGo ==
  /\ serverPc = "options" /\ Requested("GO")
  /\ \/ ~server.OptGo /\ Sends(<<Plain("ERR_UNSUP")>>) /\ UNCHANGED serverPc
     \/ server.OptGo /\ server.Refusal # "none" /\ Sends(<<Plain(server.Refusal)>>) /\ UNCHANGED serverPc
     \/ server.OptGo /\ server.Refusal = "none" /\ serverPc' = "infos" /\ UNCHANGED stream
  /\ ServerUnchanged /\ UNCHANGED <<closed, serverFlags, told>>

\* The information items come in any order.
ServerInforms ==
  /\ honest /\ ~closed /\ serverPc = "infos"
  /\ \/ /\ "EXPORT" \notin told /\ told' = told \cup {"EXPORT"}
        /\ Sends(<<InfoExport(server.Size, server.Flags)>>)
     \/ /\ "BLOCK_SIZE" \notin told /\ server.limits.Received /\ told' = told \cup {"BLOCK_SIZE"}
        /\ Sends(<<InfoBlockSize(server.limits)>>)
     \/ /\ "OTHER" \notin told /\ told' = told \cup {"OTHER"}
        /\ Sends(<<Plain("INFO_OTHER")>>)
  /\ ServerUnchanged /\ UNCHANGED <<requests, closed, serverPc, serverFlags>>

ServerAcknowledges ==
  /\ honest /\ ~closed /\ serverPc = "infos" /\ "EXPORT" \in told
  /\ Sends(<<Plain("ACK")>>)
  /\ serverPc' = "transmission"
  /\ ServerUnchanged /\ UNCHANGED <<requests, closed, serverFlags, told>>

\* There is no way to refuse NBD_OPT_EXPORT_NAME but to close the connection.
ServerAnswersExportName ==
  /\ serverPc = "options" /\ Requested("EXPORT_NAME")
  /\ \/ /\ server.Refusal = "none"
        /\ Sends(<<Sizes(server.Size, server.Flags)>>
                 \o IF "NO_ZEROES" \in serverFlags THEN <<>> ELSE <<Plain("zeroes")>>)
        /\ serverPc' = "transmission" /\ closed' = closed
     \/ server.Refusal # "none" /\ closed' = TRUE /\ UNCHANGED <<stream, serverPc>>
  /\ ServerUnchanged /\ UNCHANGED <<serverFlags, told>>

\* What a dishonest server may make the client read next.
Anything ==
  CASE pc = "password"     -> {Plain("password"), Plain("garbage")}
    [] pc = "option_magic" -> {Plain("option_magic"), Plain("client_magic"), Plain("garbage")}
    [] pc = "global_flags" -> {GreetingFlags(g) : g \in SUBSET GlobalFlags}
    [] pc = "reply"        -> Replies
    [] pc = "sizes"        -> Exports
    [] pc = "zeroes"       -> {Plain("zeroes")}
    [] OTHER               -> {}

ServerMisbehaves ==
  /\ ~honest /\ ~closed /\ stream = <<>>
  /\ misbehaved < MaxReplies /\ misbehaved' = misbehaved + 1
  /\ \E message \in Anything : Sends(<<message>>)
  /\ UNCHANGED <<pc, clientVars, requests, closed, honest, server, serverPc, serverFlags, told>>

ConnectionCloses ==
  /\ ~closed
  /\ closed' = TRUE
  /\ ServerUnchanged /\ UNCHANGED <<requests, stream, serverPc, serverFlags, told>>

\* An honest server answers; it need not send what it may leave out.
ServerSteps ==
  ServerGreets \/ ServerReadsFlags \/ ServerAnswersGo \/ ServerInforms \/ ServerAcknowledges
    \/ ServerAnswersExportName

Next == ClientSteps \/ ServerSteps \/ ServerMisbehaves \/ ConnectionCloses

Spec == Init /\ [][Next]_vars

\* The client runs on, and an honest server answers what it is asked.
FairSpec == Spec /\ WF_vars(ClientSteps) /\ WF_vars(ServerSteps)

-----------------------------------------------------------------------------
(* Properties *)

Negotiated == pc \in {"limits", "map", "mapped"} /\ ~WnbdProps.SkipNegotiation

\* When the negotiation succeeds both sides are in the transmission phase and
\* the client read all that the server sent, so the next thing it reads is a
\* reply to its first request: the fallback to NBD_OPT_EXPORT_NAME expects the
\* reserved bytes exactly when the server sends them (NbdSendOptExportName).
InSync ==
  Negotiated /\ honest => stream = <<>> /\ requests = <<>> /\ serverPc = "transmission"

\* What is mapped is what an honest server exports, whichever way it was asked:
\* its size in whole blocks, its features, and writable only if it allows that
\* (NbdParseSizes, CHECK_NBD_FLAG).
MappedAsExported ==
  Negotiated /\ honest /\ pc = "mapped" =>
    LET offered == IF "HAS_FLAGS" \in server.Flags THEN server.Flags \cap Features ELSE {} IN
    /\ WnbdProps.BlockCount = server.Size \div 512
    /\ WnbdProps.Features \ {"READ_ONLY"} = offered \ {"READ_ONLY"}
    /\ "READ_ONLY" \in offered => "READ_ONLY" \in WnbdProps.Features

\* A disk is mapped only if no transfer can violate the block-size limits the
\* server stated, in whichever order its replies came (TryStart).
LimitsHonoured ==
  Negotiated /\ honest /\ pc = "mapped" /\ "BLOCK_SIZE" \in told =>
    /\ server.limits.Minimum # 0 => 512 % server.limits.Minimum = 0
    /\ server.limits.Maximum # 0 => 2 * 1024 * 1024 <= server.limits.Maximum

\* A disk that is mapped is the one the server exports, within its limits.
MappedFaithfully == MappedAsExported /\ LimitsHonoured

\* With an honest server the negotiation ends: neither side waits for bytes the
\* other does not send.
NegotiationEnds == honest ~> pc \in Over

\* An export that fits is mapped: a fixed-newstyle server that does not refuse,
\* whose limits allow 512-byte blocks and 2 MiB transfers and whose size is at
\* least one block is never turned down (TryStart).
CompatibleIsMapped ==
  (/\ honest /\ pc = "start" /\ ~WnbdProps.SkipNegotiation
   /\ WnbdProps.BlockSize \in {0, 512}
   /\ "FIXED_NEWSTYLE" \in server.GFlags /\ server.Refusal = "none"
   /\ server.Size >= 512
   /\ server.limits.Minimum # 0 => 512 % server.limits.Minimum = 0
   /\ server.limits.Maximum # 0 => server.limits.Maximum >= 2 * 1024 * 1024)
    ~> (pc = "mapped" \/ closed)

\* An honest server is never left waiting nor turned down without a reason.
NegotiationSettles == NegotiationEnds /\ CompatibleIsMapped
=============================================================================
