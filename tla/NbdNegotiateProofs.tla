------------------------- MODULE NbdNegotiateProofs -------------------------
(***************************************************************************)
(* TLAPS proofs about NbdNegotiate, for any properties asked for, any      *)
(* servers, honest or not, and any bound on what a dishonest one sends.    *)
(* IInv is the inductive invariant.  Its core, Dialogue, says for each     *)
(* place of the client where an honest server is and what is on its way    *)
(* between the two.                                                        *)
(***************************************************************************)
EXTENDS NbdNegotiate, SequenceTheorems, TLAPS

-----------------------------------------------------------------------------
(* Sequences *)

\* What is left of a stream once its head is read.
LEMMA HeadTail ==
  ASSUME NEW S, NEW s \in Seq(S), s # <<>>
  PROVE  /\ Len(s) \in Nat /\ Len(s) >= 1
         /\ Head(s) = s[1] /\ s[1] \in S
         /\ Tail(s) \in Seq(S) /\ Len(Tail(s)) = Len(s) - 1
         /\ \A i \in 1..(Len(s) - 1) : Tail(s)[i] = s[i + 1]
  OBVIOUS

\* A stream with one more item.
LEMMA OneMore ==
  ASSUME NEW S, NEW s \in Seq(S), NEW m \in S
  PROVE  /\ Len(s) \in Nat
         /\ s \o <<m>> \in Seq(S) /\ Len(s \o <<m>>) = Len(s) + 1
         /\ \A i \in 1..Len(s) : (s \o <<m>>)[i] = s[i]
         /\ (s \o <<m>>)[Len(s) + 1] = m
  OBVIOUS

\* A stream with two more items.
LEMMA TwoMore ==
  ASSUME NEW S, NEW s \in Seq(S), NEW m \in S, NEW n \in S
  PROVE  /\ Len(s) \in Nat
         /\ s \o <<m, n>> \in Seq(S) /\ Len(s \o <<m, n>>) = Len(s) + 2
         /\ \A i \in 1..Len(s) : (s \o <<m, n>>)[i] = s[i]
         /\ (s \o <<m, n>>)[Len(s) + 1] = m /\ (s \o <<m, n>>)[Len(s) + 2] = n
  OBVIOUS

\* The three parts of a greeting.
LEMMA ThreeMore ==
  ASSUME NEW S, NEW s \in Seq(S), NEW m \in S, NEW n \in S, NEW o \in S
  PROVE  /\ Len(s) \in Nat
         /\ s \o <<m, n, o>> \in Seq(S) /\ Len(s \o <<m, n, o>>) = Len(s) + 3
         /\ \A i \in 1..Len(s) : (s \o <<m, n, o>>)[i] = s[i]
         /\ (s \o <<m, n, o>>)[Len(s) + 1] = m /\ (s \o <<m, n, o>>)[Len(s) + 2] = n
         /\ (s \o <<m, n, o>>)[Len(s) + 3] = o
  OBVIOUS

\* An answer to NBD_OPT_EXPORT_NAME, with and without the reserved bytes.
LEMMA Joined ==
  ASSUME NEW S, NEW s \in Seq(S), NEW m \in S, NEW n \in S
  PROVE  /\ Len(s) \in Nat
         /\ s \o (<<m>> \o <<>>) \in Seq(S) /\ Len(s \o (<<m>> \o <<>>)) = Len(s) + 1
         /\ \A i \in 1..Len(s) : (s \o (<<m>> \o <<>>))[i] = s[i]
         /\ (s \o (<<m>> \o <<>>))[Len(s) + 1] = m
         /\ s \o (<<m>> \o <<n>>) \in Seq(S) /\ Len(s \o (<<m>> \o <<n>>)) = Len(s) + 2
         /\ \A i \in 1..Len(s) : (s \o (<<m>> \o <<n>>))[i] = s[i]
         /\ (s \o (<<m>> \o <<n>>))[Len(s) + 1] = m /\ (s \o (<<m>> \o <<n>>))[Len(s) + 2] = n
<1>1. /\ <<m>> \o <<>> \in Seq(S) /\ Len(<<m>> \o <<>>) = 1 /\ (<<m>> \o <<>>)[1] = m
      /\ <<m>> \o <<n>> \in Seq(S) /\ Len(<<m>> \o <<n>>) = 2 /\ (<<m>> \o <<n>>)[1] = m
      /\ (<<m>> \o <<n>>)[2] = n
  OBVIOUS
<1>2. PICK t \in Seq(S), u \in Seq(S) : t = <<m>> \o <<>> /\ u = <<m>> \o <<n>>
  BY <1>1
<1>3. Len(t) = 1 /\ t[1] = m /\ Len(u) = 2 /\ u[1] = m /\ u[2] = n
  BY <1>1, <1>2
<1>4. /\ Len(s) \in Nat
      /\ s \o t \in Seq(S) /\ Len(s \o t) = Len(s) + 1
      /\ \A i \in 1..Len(s) : (s \o t)[i] = s[i]
      /\ (s \o t)[Len(s) + 1] = m
      /\ s \o u \in Seq(S) /\ Len(s \o u) = Len(s) + 2
      /\ \A i \in 1..Len(s) : (s \o u)[i] = s[i]
      /\ (s \o u)[Len(s) + 1] = m /\ (s \o u)[Len(s) + 2] = n
  <2>1. s \in Seq(S) /\ t \in Seq(S) /\ u \in Seq(S) /\ Len(s) \in Nat
    BY <1>2
  <2>2. /\ s \o t \in Seq(S) /\ Len(s \o t) = Len(s) + Len(t)
        /\ \A i \in 1..(Len(s) + Len(t)) : (s \o t)[i] = IF i <= Len(s) THEN s[i] ELSE t[i - Len(s)]
    BY ONLY <2>1, ConcatProperties
  <2>3. /\ s \o u \in Seq(S) /\ Len(s \o u) = Len(s) + Len(u)
        /\ \A i \in 1..(Len(s) + Len(u)) : (s \o u)[i] = IF i <= Len(s) THEN s[i] ELSE u[i - Len(s)]
    BY ONLY <2>1, ConcatProperties
  <2> QED
    BY ONLY <1>3, <2>1, <2>2, <2>3
<1> QED
  BY ONLY <1>2, <1>4

\* Nothing on its way.
LEMMA NoItems ==
  ASSUME NEW S, NEW s \in Seq(S)
  PROVE  Len(s) = 0 <=> s = <<>>
  OBVIOUS

-----------------------------------------------------------------------------
(* The inductive invariant *)

Asks ==
  [kind : {"GO", "EXPORT_NAME"}] \cup [kind : {"client_flags"}, flags : SUBSET GlobalFlags]

\* The client sends its flags with NBD_OPT_GO, then at most one more option.
Wired ==
  /\ stream \in Seq(Messages) /\ requests \in Seq(Asks)
  /\ pc \in {"start", "password", "option_magic", "global_flags", "option_go"} => Len(requests) = 0
  /\ pc \in {"reply", "export_name"} => Len(requests) <= 2

\* What TryStart makes of the properties.  NO_ZEROES is asked for if offered.
PropsFit ==
  /\ WnbdProps.SkipNegotiation => pc \in {"start", "map", "mapped", "failed"}
  /\ pc \notin {"start", "failed"} => WnbdProps.BlockSize = 512
  /\ pc \notin {"mapped", "failed"} => WnbdProps.Features \subseteq {"READ_ONLY"}
  /\ pc \in {"map", "mapped"} /\ ~WnbdProps.SkipNegotiation =>
       WnbdProps.BlockCount = Size \div 512 /\ Compatible(BlockSizeInfo, 512)
  /\ pc = "mapped" =>
       /\ WnbdProps.Features \ {"READ_ONLY"} = CHECK_NBD_FLAG(Flags) \ {"READ_ONLY"}
       /\ "READ_ONLY" \in CHECK_NBD_FLAG(Flags) => "READ_ONLY" \in WnbdProps.Features
  /\ pc \in {"option_go", "reply", "export_name", "sizes"} =>
       ("NO_ZEROES" \in ClientFlags <=> "NO_ZEROES" \in GFlags)

InfoKinds == {"INFO_EXPORT", "INFO_BLOCK_SIZE", "INFO_OTHER"}

\* The places p and sp of the client and an honest server, the stream s and the
\* requests q on their way, the flags cf of the client and sf at the server.
ReplyDue(sp, s, q, cf, sf) ==
  \/ /\ sp = "flags" /\ Len(s) = 0 /\ Len(q) = 2
     /\ q[1].kind = "client_flags" /\ q[1].flags = cf /\ q[2].kind = "GO"
  \/ sp = "options" /\ sf = cf /\ Len(s) = 0 /\ Len(q) = 1 /\ q[1].kind = "GO"
  \/ sp = "options" /\ sf = cf /\ Len(s) = 1 /\ Len(q) = 0 /\ s[1].kind \in Refusals \cup {"ERR_UNSUP"}
  \/ sp = "infos" /\ Len(q) = 0 /\ \A i \in 1..Len(s) : s[i].kind \in InfoKinds
  \/ /\ sp = "transmission" /\ Len(q) = 0 /\ Len(s) >= 1 /\ s[Len(s)].kind = "ACK"
     /\ \A i \in 1..(Len(s) - 1) : s[i].kind \in InfoKinds

SizesDue(sp, s, q, cf, sf) ==
  /\ sf = cf
  /\ \/ sp = "options" /\ Len(s) = 0 /\ Len(q) = 1 /\ q[1].kind = "EXPORT_NAME"
     \/ sp = "options" /\ Len(s) = 0 /\ Len(q) = 0
     \/ sp = "transmission" /\ Len(q) = 0 /\ "NO_ZEROES" \in sf /\ Len(s) = 1 /\ s[1].kind = "sizes"
     \/ /\ sp = "transmission" /\ Len(q) = 0 /\ "NO_ZEROES" \notin sf
        /\ Len(s) = 2 /\ s[1].kind = "sizes" /\ s[2].kind = "zeroes"

GreetingDue(sp, s, q) ==
  /\ Len(q) = 0
  /\ \/ sp = "greet" /\ Len(s) = 0
     \/ /\ sp = "flags" /\ Len(s) = 3
        /\ s[1].kind = "password" /\ s[2].kind = "option_magic" /\ s[3].kind = "global_flags"

At(p, sp, s, q, cf, sf) ==
  /\ p \in {"start", "password"} => GreetingDue(sp, s, q)
  /\ p = "option_magic" =>
       /\ sp = "flags" /\ Len(s) = 2 /\ Len(q) = 0
       /\ s[1].kind = "option_magic" /\ s[2].kind = "global_flags"
  /\ p = "global_flags" => sp = "flags" /\ Len(s) = 1 /\ Len(q) = 0 /\ s[1].kind = "global_flags"
  /\ p = "option_go" => sp = "flags" /\ Len(s) = 0 /\ Len(q) = 0
  /\ p = "reply" => ReplyDue(sp, s, q, cf, sf)
  /\ p = "export_name" => sp = "options" /\ sf = cf /\ Len(s) = 0 /\ Len(q) = 0
  /\ p = "sizes" => SizesDue(sp, s, q, cf, sf)
  /\ p = "zeroes" => sp = "transmission" /\ Len(s) = 1 /\ Len(q) = 0 /\ s[1].kind = "zeroes"
  /\ p \in {"limits", "map", "mapped"} => sp = "transmission" /\ Len(s) = 0 /\ Len(q) = 0

Dialogue ==
  honest /\ ~WnbdProps.SkipNegotiation /\ pc # "failed" =>
    At(pc, serverPc, stream, requests, ClientFlags, serverFlags)

\* What message m of server v says of the export is so.
Says(m, v) ==
  /\ m.kind \in {"INFO_EXPORT", "sizes"} => m.Size = v.Size /\ m.Flags = v.Flags
  /\ m.kind = "INFO_BLOCK_SIZE" => m.limits = v.limits

\* The client knows of the export what the server said, and that is so.
Exported ==
  honest =>
    /\ \A i \in 1..Len(stream) : Says(stream[i], server)
    /\ SeenExport \/ (pc \in {"zeroes", "limits", "map", "mapped"} /\ ~WnbdProps.SkipNegotiation) =>
         Size = server.Size /\ Flags = server.Flags

\* The limits an honest server told of are known or on their way.
LimitsArrive ==
  honest /\ "BLOCK_SIZE" \in told =>
    /\ server.limits.Received
    /\ \/ BlockSizeInfo = server.limits
       \/ \E i \in 1..Len(stream) : stream[i].kind = "INFO_BLOCK_SIZE"

IInv == TypeOK /\ Wired /\ PropsFit /\ Dialogue /\ Exported /\ LimitsArrive

-----------------------------------------------------------------------------
(* Typing *)

\* The client reads one item.
LEMMA Reads ==
  ASSUME Wired, NEW kind, Receive(kind)
  PROVE  /\ Len(stream) \in Nat /\ Len(stream) >= 1
         /\ Head(stream) = stream[1] /\ stream[1] \in Messages /\ stream[1].kind = kind
         /\ stream' \in Seq(Messages) /\ Len(stream') = Len(stream) - 1
         /\ \A i \in 1..Len(stream') : stream'[i] = stream[i + 1]
         /\ UNCHANGED <<requests, closed, honest, server, serverPc, serverFlags, told, misbehaved>>
<1>1. stream \in Seq(Messages) /\ stream # <<>> /\ Head(stream).kind = kind /\ stream' = Tail(stream)
  BY DEF Wired, Receive
<1>2. UNCHANGED <<requests, closed, honest, server, serverPc, serverFlags, told, misbehaved>>
  BY DEF Receive, serverVars
<1> QED
  BY ONLY <1>1, <1>2, HeadTail

\* What a message of its kind carries.
LEMMA Carries ==
  ASSUME NEW m \in Messages
  PROVE  /\ m.kind = "global_flags" => m.flags \subseteq GlobalFlags
         /\ m.kind \in {"INFO_EXPORT", "sizes"} => m.Size \in 0..UllongMax /\ m.Flags \subseteq ExportFlags
         /\ m.kind = "INFO_BLOCK_SIZE" => m.limits \in Constraints
  BY DEF Messages, PlainReplies, Refusals

\* The messages of an honest server.
LEMMA Sent ==
  ASSUME NEW v \in Servers
  PROVE  /\ \A k \in {"password", "option_magic", "zeroes", "ERR_UNSUP", "INFO_OTHER", "ACK"} :
              Plain(k) \in Messages /\ Plain(k).kind = k
         /\ GreetingFlags(v.GFlags) \in Messages /\ GreetingFlags(v.GFlags).kind = "global_flags"
         /\ /\ InfoExport(v.Size, v.Flags) \in Messages
            /\ InfoExport(v.Size, v.Flags).kind = "INFO_EXPORT"
            /\ Says(InfoExport(v.Size, v.Flags), v)
         /\ /\ InfoBlockSize(v.limits) \in Messages
            /\ InfoBlockSize(v.limits).kind = "INFO_BLOCK_SIZE"
            /\ Says(InfoBlockSize(v.limits), v)
         /\ /\ Sizes(v.Size, v.Flags) \in Messages
            /\ Sizes(v.Size, v.Flags).kind = "sizes"
            /\ Says(Sizes(v.Size, v.Flags), v)
         /\ \/ v.Refusal = "none"
            \/ /\ v.Refusal \in Refusals
               /\ Plain(v.Refusal) \in Messages /\ Plain(v.Refusal).kind = v.Refusal
<1>1. /\ v.GFlags \in SUBSET GlobalFlags /\ v.Refusal \in Refusals \cup {"none"}
      /\ v.Size \in 0..UllongMax /\ v.Flags \in SUBSET ExportFlags /\ v.limits \in Constraints
  BY NegotiateAssumption
<1>2. \A k \in PlainReplies \cup {"password", "option_magic", "client_magic", "garbage", "zeroes"} :
        Plain(k) \in Messages /\ Plain(k).kind = k
  BY DEF Plain, Messages
<1>3. GreetingFlags(v.GFlags) \in Messages /\ GreetingFlags(v.GFlags).kind = "global_flags"
  BY <1>1 DEF GreetingFlags, Messages
<1>4. /\ InfoExport(v.Size, v.Flags) \in Messages
      /\ InfoExport(v.Size, v.Flags).kind = "INFO_EXPORT"
      /\ Says(InfoExport(v.Size, v.Flags), v)
  BY <1>1 DEF InfoExport, Messages, Says
<1>5. /\ InfoBlockSize(v.limits) \in Messages
      /\ InfoBlockSize(v.limits).kind = "INFO_BLOCK_SIZE"
      /\ Says(InfoBlockSize(v.limits), v)
  BY <1>1 DEF InfoBlockSize, Messages, Says
<1>6. /\ Sizes(v.Size, v.Flags) \in Messages
      /\ Sizes(v.Size, v.Flags).kind = "sizes"
      /\ Says(Sizes(v.Size, v.Flags), v)
  BY <1>1 DEF Sizes, Messages, Says
<1> QED
  BY <1>1, <1>2, <1>3, <1>4, <1>5, <1>6 DEF PlainReplies

PropTypes ==
  [BlockSize : Nat, BlockCount : Nat, SkipNegotiation : BOOLEAN, Features : SUBSET Features]

\* One property is changed.
LEMMA PropsTyped ==
  ASSUME NEW w \in PropTypes, NEW n \in Nat, NEW f \in SUBSET Features
  PROVE  /\ [w EXCEPT !.BlockSize = n] \in PropTypes
         /\ [w EXCEPT !.BlockSize = n].BlockSize = n
         /\ [w EXCEPT !.BlockSize = n].SkipNegotiation = w.SkipNegotiation
         /\ [w EXCEPT !.BlockSize = n].Features = w.Features
         /\ [w EXCEPT !.BlockCount = n] \in PropTypes
         /\ [w EXCEPT !.BlockCount = n].BlockCount = n
         /\ [w EXCEPT !.BlockCount = n].BlockSize = w.BlockSize
         /\ [w EXCEPT !.BlockCount = n].SkipNegotiation = w.SkipNegotiation
         /\ [w EXCEPT !.BlockCount = n].Features = w.Features
         /\ [w EXCEPT !.Features = f] \in PropTypes
         /\ [w EXCEPT !.Features = f].Features = f
         /\ [w EXCEPT !.Features = f].BlockSize = w.BlockSize
         /\ [w EXCEPT !.Features = f].BlockCount = w.BlockCount
         /\ [w EXCEPT !.Features = f].SkipNegotiation = w.SkipNegotiation
  BY DEF PropTypes

\* TryStart up to the connection.
LEMMA Starts ==
  ASSUME TypeOK, Start \/ StartRefused
  PROVE  /\ pc = "start" /\ WnbdProps' \in PropTypes
         /\ WnbdProps'.SkipNegotiation = WnbdProps.SkipNegotiation
         /\ WnbdProps'.Features = WnbdProps.Features
         /\ \/ pc' = "failed"
            \/ /\ WnbdProps'.BlockSize = 512
               /\ pc' = IF WnbdProps.SkipNegotiation THEN "map" ELSE "password"
         /\ UNCHANGED <<GFlags, ClientFlags, SeenExport, Size, Flags, BlockSizeInfo, requests, stream,
                        closed, honest, server, serverPc, serverFlags, told, misbehaved>>
<1>1. WnbdProps \in PropTypes
  BY DEF TypeOK, PropTypes
<1>2. PICK n \in Nat : n = IF WnbdProps.BlockSize = 0 THEN WNBD_DEFAULT_BLOCK_SIZE ELSE WnbdProps.BlockSize
  BY <1>1 DEF PropTypes, WNBD_DEFAULT_BLOCK_SIZE
<1>3. StartedProps = [WnbdProps EXCEPT !.BlockSize = n]
  BY <1>2 DEF StartedProps
<1>4. {} \in SUBSET Features
  OBVIOUS
<1>5. PICK w \in PropTypes :
        /\ w = StartedProps /\ w.SkipNegotiation = WnbdProps.SkipNegotiation
        /\ w.Features = WnbdProps.Features
  BY ONLY <1>1, <1>3, <1>4, PropsTyped
<1>6. /\ pc = "start" /\ WnbdProps' = w
      /\ UNCHANGED <<GFlags, ClientFlags, SeenExport, Size, Flags, BlockSizeInfo, requests, stream,
                     closed, honest, server, serverPc, serverFlags, told, misbehaved>>
  BY <1>5 DEF Start, StartRefused, Wire, serverVars
<1>7. \/ pc' = "failed"
      \/ w.BlockSize = 512 /\ pc' = IF WnbdProps.SkipNegotiation THEN "map" ELSE "password"
  BY <1>5 DEF Start, StartRefused, Goes
<1> QED
  BY ONLY <1>5, <1>6, <1>7

\* The check of the block-size limits.
LEMMA Checks ==
  ASSUME TypeOK, PropsFit, CheckLimits
  PROVE  /\ pc = "limits" /\ WnbdProps' \in PropTypes
         /\ WnbdProps'.SkipNegotiation = WnbdProps.SkipNegotiation
         /\ WnbdProps'.Features = WnbdProps.Features
         /\ \/ pc' = "failed"
            \/ /\ pc' = "map" /\ WnbdProps'.BlockSize = 512
               /\ WnbdProps'.BlockCount = Size \div 512 /\ Compatible(BlockSizeInfo, 512)
         /\ UNCHANGED <<GFlags, ClientFlags, SeenExport, Size, Flags, BlockSizeInfo, requests, stream,
                        closed, honest, server, serverPc, serverFlags, told, misbehaved>>
<1>1. WnbdProps \in PropTypes /\ Size \in Nat
  BY NegotiateAssumption DEF TypeOK, PropTypes
<1>2. pc = "limits" /\ WnbdProps.BlockSize = 512
  BY DEF CheckLimits, PropsFit
<1>3. PICK n \in Nat : n = Size \div 512
  BY <1>1
<1>4. {} \in SUBSET Features
  OBVIOUS
<1>5. \/ WnbdProps' = WnbdProps /\ pc' = "failed"
      \/ WnbdProps' = [WnbdProps EXCEPT !.BlockCount = n] /\ pc' = "map" /\ Compatible(BlockSizeInfo, 512)
  BY <1>2, <1>3 DEF CheckLimits, Goes
<1>6. UNCHANGED <<GFlags, ClientFlags, SeenExport, Size, Flags, BlockSizeInfo, requests, stream,
                  closed, honest, server, serverPc, serverFlags, told, misbehaved>>
  BY DEF CheckLimits, Wire, serverVars
<1>7. PICK w \in PropTypes :
        /\ w = [WnbdProps EXCEPT !.BlockCount = n] /\ w.SkipNegotiation = WnbdProps.SkipNegotiation
        /\ w.Features = WnbdProps.Features /\ w.BlockSize = WnbdProps.BlockSize /\ w.BlockCount = n
  <2>1. WnbdProps \in PropTypes /\ n \in Nat
    BY <1>1
  <2> QED
    BY ONLY <1>4, <2>1, PropsTyped
<1>8. CASE pc' = "failed" /\ WnbdProps' = WnbdProps
  BY ONLY <1>1, <1>2, <1>6, <1>8
<1>9. CASE WnbdProps' = w /\ pc' = "map" /\ Compatible(BlockSizeInfo, 512)
  <2>1. WnbdProps'.BlockCount = Size \div 512 /\ WnbdProps'.BlockSize = 512
    BY ONLY <1>2, <1>3, <1>7, <1>9
  <2>2. /\ WnbdProps' \in PropTypes /\ WnbdProps'.SkipNegotiation = WnbdProps.SkipNegotiation
        /\ WnbdProps'.Features = WnbdProps.Features
    BY ONLY <1>7, <1>9
  <2> QED
    BY ONLY <1>2, <1>6, <1>9, <2>1, <2>2
<1> QED
  BY ONLY <1>5, <1>7, <1>8, <1>9

\* The creation of the disk.
LEMMA Maps ==
  ASSUME TypeOK, Map
  PROVE  /\ pc = "map" /\ pc' \in {"mapped", "failed"} /\ WnbdProps' \in PropTypes
         /\ WnbdProps'.SkipNegotiation = WnbdProps.SkipNegotiation
         /\ WnbdProps'.BlockSize = WnbdProps.BlockSize /\ WnbdProps'.BlockCount = WnbdProps.BlockCount
         /\ WnbdProps'.Features = WnbdProps.Features \cup CHECK_NBD_FLAG(Flags)
         /\ UNCHANGED <<GFlags, ClientFlags, SeenExport, Size, Flags, BlockSizeInfo, requests, stream,
                        closed, honest, server, serverPc, serverFlags, told, misbehaved>>
<1>1. WnbdProps \in PropTypes
  BY DEF TypeOK, PropTypes
<1>2. PICK f \in SUBSET Features : f = WnbdProps.Features \cup CHECK_NBD_FLAG(Flags)
  BY <1>1 DEF PropTypes, CHECK_NBD_FLAG
<1>3. WnbdProps' = [WnbdProps EXCEPT !.Features = f]
  BY <1>2 DEF Map
<1>4. 0 \in Nat
  OBVIOUS
<1>5. pc = "map" /\ pc' \in {"mapped", "failed"}
  BY DEF Map, Goes
<1>6. UNCHANGED <<GFlags, ClientFlags, SeenExport, Size, Flags, BlockSizeInfo, requests, stream,
                  closed, honest, server, serverPc, serverFlags, told, misbehaved>>
  BY DEF Map, Wire, serverVars
<1> QED
  BY ONLY <1>1, <1>2, <1>3, <1>4, <1>5, <1>6, PropsTyped

Typed == TypeOK /\ Wired

\* The steps that read nothing.
LEMMA QuietTyped ==
  ASSUME IInv, Start \/ StartRefused \/ CheckLimits \/ Map \/ TransferFails \/ ConnectionCloses
  PROVE  Typed'
<1> USE DEF Typed, Wired, Receiving, Sending, Over
<1>0. TypeOK /\ Wired /\ PropsFit
  BY DEF IInv
<1>1. /\ UNCHANGED <<GFlags, ClientFlags, SeenExport, Size, Flags, BlockSizeInfo, requests, stream,
                     honest, server, serverPc, serverFlags, told, misbehaved>>
      /\ closed' \in BOOLEAN
      /\ WnbdProps' \in PropTypes
  <2>1. CASE Start \/ StartRefused \/ CheckLimits \/ Map
    BY <1>0, <2>1, Starts, Checks, Maps DEF TypeOK
  <2>2. CASE TransferFails \/ ConnectionCloses
    BY <1>0, <2>2 DEF TransferFails, ConnectionCloses, ServerUnchanged, Wire, clientVars, serverVars,
         TypeOK, PropTypes
  <2> QED
    BY <2>1, <2>2
<1>2. /\ pc' \in Receiving \cup Sending \cup Over \cup {"start", "limits", "map"}
      /\ pc' \in {"start", "password", "option_magic", "global_flags", "option_go", "reply", "export_name"}
           => pc' = pc \/ pc = "start"
  <2>1. CASE Start \/ StartRefused
    <3>1. pc = "start" /\ pc' \in {"failed", "map", "password"}
      BY <1>0, <2>1, Starts
    <3> QED
      BY <3>1
  <2>2. CASE CheckLimits \/ Map
    <3>1. pc' \in {"failed", "map", "mapped"}
      BY <2>2 DEF CheckLimits, Map, Goes
    <3> QED
      BY <3>1
  <2>3. CASE TransferFails \/ ConnectionCloses
    BY <1>0, <2>3 DEF TransferFails, ConnectionCloses, ServerUnchanged, Goes, TypeOK
  <2> QED
    BY <2>1, <2>2, <2>3
<1>3. Wired'
  <2>1. stream' = stream /\ requests' = requests
    BY <1>1
  <2>2. /\ stream \in Seq(Messages) /\ requests \in Seq(Asks)
        /\ pc = "start" => Len(requests) = 0
    BY <1>0
  <2>3. CASE pc = "start"
    BY <2>1, <2>2, <2>3
  <2>4. CASE pc # "start"
    BY <1>0, <1>2, <2>1, <2>4
  <2> QED
    BY <2>3, <2>4
<1>4. TypeOK'
  BY <1>0, <1>1, <1>2 DEF TypeOK, PropTypes
<1> QED
  BY <1>3, <1>4

\* The steps that read an item and keep nothing of it.
Skips ==
  \/ NbdValidateInitialMagic \/ NbdValidateOptionMagic \/ ErrorReply \/ MalformedReply
  \/ IgnoredReply \/ AckReply \/ ReservedBytes

\* Where they lead.
LEMMA SkipsTo ==
  ASSUME Skips
  PROVE  /\ \E kind : Receive(kind)
         /\ UNCHANGED <<WnbdProps, GFlags, ClientFlags, SeenExport, Size, Flags, BlockSizeInfo>>
         /\ \/ pc' = "failed"
            \/ pc = "password" /\ pc' = "option_magic" /\ Receive("password")
            \/ pc = "option_magic" /\ pc' = "global_flags" /\ Receive("option_magic")
            \/ pc = "reply" /\ pc' = "export_name" /\ Receive("ERR_UNSUP")
            \/ pc = "reply" /\ pc' = "reply" /\ (Receive("INFO_OTHER") \/ Receive("UNKNOWN"))
            \/ pc = "reply" /\ pc' = "limits" /\ Receive("ACK") /\ SeenExport
            \/ pc = "zeroes" /\ pc' = "limits" /\ Receive("zeroes")
<1> USE DEF Goes, clientVars
<1>1. CASE NbdValidateInitialMagic
  BY <1>1 DEF NbdValidateInitialMagic
<1>2. CASE NbdValidateOptionMagic
  BY <1>2 DEF NbdValidateOptionMagic
<1>3. CASE ErrorReply
  BY <1>3 DEF ErrorReply
<1>4. CASE MalformedReply
  BY <1>4 DEF MalformedReply
<1>5. CASE IgnoredReply
  BY <1>5 DEF IgnoredReply
<1>6. CASE AckReply
  BY <1>6 DEF AckReply
<1>7. CASE ReservedBytes
  BY <1>7 DEF ReservedBytes
<1> QED
  BY <1>1, <1>2, <1>3, <1>4, <1>5, <1>6, <1>7 DEF Skips

\* They keep the types.
LEMMA SkipsTyped ==
  ASSUME IInv, Skips
  PROVE  Typed'
<1>0. TypeOK /\ Wired
  BY DEF IInv
<1>1. PICK kind : Receive(kind)
  BY SkipsTo
<1>2. /\ stream' \in Seq(Messages)
      /\ UNCHANGED <<requests, closed, honest, server, serverPc, serverFlags, told, misbehaved>>
  BY <1>0, <1>1, Reads
<1>3. /\ UNCHANGED <<WnbdProps, GFlags, ClientFlags, SeenExport, Size, Flags, BlockSizeInfo>>
      /\ pc' \in {"failed", "option_magic", "global_flags", "export_name", "reply", "limits"}
      /\ pc' \in {"option_magic", "global_flags"} => pc \in {"password", "option_magic"}
      /\ pc' \in {"export_name", "reply"} => pc = "reply"
  BY SkipsTo
<1>4. Wired'
  BY <1>0, <1>2, <1>3 DEF Wired
<1>5. TypeOK'
  BY <1>0, <1>2, <1>3 DEF TypeOK, Receiving, Sending, Over
<1> QED
  BY <1>4, <1>5 DEF Typed

\* The steps that keep what they read.
LEMMA KeepsTyped ==
  ASSUME IInv, NegotiateFlags \/ NbdParseOptGoReply \/ NbdParseInfoBlockSize \/ NbdParseSizes
  PROVE  Typed'
<1>0. TypeOK /\ Wired
  BY DEF IInv
<1> USE DEF Goes
<1>1. PICK kind : Receive(kind)
  BY DEF NegotiateFlags, NbdParseOptGoReply, NbdParseInfoBlockSize, NbdParseSizes
<1>2. /\ stream' \in Seq(Messages)
      /\ UNCHANGED <<requests, closed, honest, server, serverPc, serverFlags, told, misbehaved>>
  BY <1>0, <1>1, Reads
<1>3. Wired'
  <2>1. /\ pc' \in {"failed", "option_go", "reply", "zeroes", "limits"}
        /\ pc' = "option_go" => pc = "global_flags"
        /\ pc' = "reply" => pc = "reply"
    BY DEF NegotiateFlags, NbdParseOptGoReply, NbdParseInfoBlockSize, NbdParseSizes
  <2> QED
    BY <1>0, <1>2, <2>1 DEF Wired
<1>4. PICK h \in Messages : h = Head(stream) /\ h.kind = kind
  BY <1>0, <1>1, Reads
<1>5. CASE NegotiateFlags
  <2>1. h.kind = "global_flags" /\ GFlags' = h.flags
    BY <1>4, <1>5 DEF NegotiateFlags, Receive
  <2>2. GFlags' \subseteq GlobalFlags
    BY <2>1, Carries
  <2>3. ClientFlags' \subseteq GFlags' /\ pc' \in {"failed", "option_go"}
    BY <1>5 DEF NegotiateFlags, NbdMaskClientFlags
  <2>4. UNCHANGED <<WnbdProps, SeenExport, Size, Flags, BlockSizeInfo>>
    BY <1>5 DEF NegotiateFlags
  <2>5. TypeOK'
    BY <1>0, <1>2, <2>2, <2>3, <2>4 DEF TypeOK, Receiving, Sending, Over
  <2> QED
    BY <1>3, <2>5 DEF Typed
<1>6. CASE NbdParseOptGoReply \/ NbdParseSizes
  <2>1. h.kind \in {"INFO_EXPORT", "sizes"} /\ Size' = h.Size /\ Flags' = h.Flags
    BY <1>4, <1>6 DEF NbdParseOptGoReply, NbdParseSizes, Receive
  <2>2. Size' \in 0..UllongMax /\ Flags' \subseteq ExportFlags
    BY <2>1, Carries
  <2>3. /\ SeenExport' \in BOOLEAN /\ pc' \in {"reply", "zeroes", "limits"}
        /\ UNCHANGED <<WnbdProps, GFlags, ClientFlags, BlockSizeInfo>>
    BY <1>0, <1>6 DEF NbdParseOptGoReply, NbdParseSizes, TypeOK
  <2>4. TypeOK'
    BY <1>0, <1>2, <2>2, <2>3 DEF TypeOK, Receiving, Sending, Over
  <2> QED
    BY <1>3, <2>4 DEF Typed
<1>7. CASE NbdParseInfoBlockSize
  <2>1. h.kind = "INFO_BLOCK_SIZE" /\ BlockSizeInfo' = [h.limits EXCEPT !.Received = TRUE]
    BY <1>4, <1>7 DEF NbdParseInfoBlockSize, Receive
  <2>2. PICK c \in Constraints : c = h.limits
    BY <2>1, Carries
  <2>3. BlockSizeInfo' \in Constraints
    BY <2>1, <2>2 DEF Constraints
  <2>4. pc' = pc /\ UNCHANGED <<WnbdProps, GFlags, ClientFlags, SeenExport, Size, Flags>>
    BY <1>7 DEF NbdParseInfoBlockSize
  <2>5. TypeOK'
    BY <1>0, <1>2, <2>3, <2>4 DEF TypeOK
  <2> QED
    BY <1>3, <2>5 DEF Typed
<1> QED
  BY <1>5, <1>6, <1>7

\* The requests of the client.
LEMMA AsksTyped ==
  ASSUME IInv, NbdSendInfoRequest \/ SendOptExportName
  PROVE  Typed'
<1>0. TypeOK /\ Wired
  BY DEF IInv
<1>1. UNCHANGED <<WnbdProps, GFlags, ClientFlags, SeenExport, Size, Flags, BlockSizeInfo, stream, closed,
                  honest, server, serverPc, serverFlags, told, misbehaved>>
  BY DEF NbdSendInfoRequest, SendOptExportName, clientVars, serverVars
<1>2. requests' \in Seq(Asks) /\ Len(requests') <= 3 /\ pc' \in {"reply", "sizes"}
      /\ (pc' = "reply" => Len(requests') <= 2)
  <2>1. CASE NbdSendInfoRequest
    <3>1. [kind |-> "client_flags", flags |-> ClientFlags] \in Asks
      BY <1>0 DEF Asks, TypeOK
    <3>2. Plain("GO") \in Asks
      BY DEF Asks, Plain
    <3>3. requests' = requests \o <<[kind |-> "client_flags", flags |-> ClientFlags], Plain("GO")>>
      BY <2>1 DEF NbdSendInfoRequest
    <3>4. pc = "option_go" /\ pc' = "reply"
      BY <2>1 DEF NbdSendInfoRequest, Goes
    <3>5. requests \in Seq(Asks) /\ Len(requests) = 0
      BY <1>0, <3>4 DEF Wired
    <3>6. requests' \in Seq(Asks) /\ Len(requests') = 2
      BY <3>1, <3>2, <3>3, <3>5, TwoMore
    <3> QED
      BY ONLY <3>4, <3>6
  <2>2. CASE SendOptExportName
    <3>1. Plain("EXPORT_NAME") \in Asks
      BY DEF Asks, Plain
    <3>2. requests' = Append(requests, Plain("EXPORT_NAME"))
      BY <2>2 DEF SendOptExportName
    <3>3. pc = "export_name" /\ pc' = "sizes"
      BY <2>2 DEF SendOptExportName, Goes
    <3>4. requests \in Seq(Asks) /\ Len(requests) <= 2 /\ Len(requests) \in Nat
      BY <1>0, <3>3 DEF Wired
    <3>5. requests' \in Seq(Asks) /\ Len(requests') = Len(requests) + 1
      BY ONLY <3>1, <3>2, <3>4, AppendProperties
    <3> QED
      BY ONLY <3>3, <3>4, <3>5
  <2> QED
    BY <2>1, <2>2
<1>3. Wired'
  BY <1>0, <1>1, <1>2 DEF Wired
<1>4. TypeOK'
  BY <1>0, <1>1, <1>2 DEF TypeOK, Receiving, Sending, Over
<1> QED
  BY <1>3, <1>4 DEF Typed

\* The server takes a request.
LEMMA Takes ==
  ASSUME Wired, NEW kind, Requested(kind)
  PROVE  /\ honest /\ Len(requests) \in Nat /\ Len(requests) >= 1
         /\ Head(requests) = requests[1] /\ requests[1] \in Asks /\ requests[1].kind = kind
         /\ requests' \in Seq(Asks) /\ Len(requests') = Len(requests) - 1
         /\ \A i \in 1..Len(requests') : requests'[i] = requests[i + 1]
<1>1. /\ requests \in Seq(Asks) /\ requests # <<>> /\ Head(requests).kind = kind
      /\ requests' = Tail(requests) /\ honest
  BY DEF Wired, Requested
<1> QED
  BY ONLY <1>1, HeadTail

\* The steps of the server, by what they do to the two streams.
LEMMA Serves ==
  ASSUME TypeOK, Wired, ServerSteps
  PROVE  /\ honest
         /\ UNCHANGED <<pc, WnbdProps, GFlags, ClientFlags, SeenExport, Size, Flags, BlockSizeInfo,
                        honest, server, misbehaved>>
         /\ stream' \in Seq(Messages) /\ requests' \in Seq(Asks) /\ Len(requests') <= Len(requests)
         /\ closed' \in BOOLEAN
         /\ serverPc' \in {"greet", "flags", "options", "infos", "transmission"}
         /\ serverFlags' \subseteq GlobalFlags /\ told' \subseteq {"EXPORT", "BLOCK_SIZE", "OTHER"}
<1> USE DEF ServerUnchanged, clientVars, Sends
<1>0. server \in Servers /\ stream \in Seq(Messages) /\ requests \in Seq(Asks)
  BY DEF TypeOK, Wired
<1>1. UNCHANGED <<pc, WnbdProps, GFlags, ClientFlags, SeenExport, Size, Flags, BlockSizeInfo,
                  honest, server, misbehaved>>
  BY DEF ServerSteps, ServerGreets, ServerReadsFlags, ServerAnswersGo, ServerInforms,
       ServerAcknowledges, ServerAnswersExportName
<1>2. honest /\ requests' \in Seq(Asks) /\ Len(requests') <= Len(requests)
  <2>1. CASE \E kind : Requested(kind)
    BY <2>1, Takes
  <2>2. CASE requests' = requests /\ honest
    BY <1>0, <2>2
  <2> QED
    BY <2>1, <2>2 DEF ServerSteps, ServerGreets, ServerReadsFlags, ServerAnswersGo, ServerInforms,
         ServerAcknowledges, ServerAnswersExportName
<1>3. serverPc' \in {"greet", "flags", "options", "infos", "transmission"} /\ closed' \in BOOLEAN
  BY DEF TypeOK, ServerSteps, ServerGreets, ServerReadsFlags, ServerAnswersGo, ServerInforms,
       ServerAcknowledges, ServerAnswersExportName
<1>4. told' \subseteq {"EXPORT", "BLOCK_SIZE", "OTHER"}
  BY DEF TypeOK, ServerSteps, ServerGreets, ServerReadsFlags, ServerAnswersGo, ServerInforms,
       ServerAcknowledges, ServerAnswersExportName
<1>5. serverFlags' \subseteq GlobalFlags
  <2>1. CASE ServerReadsFlags
    <3>1. Requested("client_flags") /\ serverFlags' = Head(requests).flags
      BY <2>1 DEF ServerReadsFlags
    <3>2. PICK a \in Asks : a = Head(requests) /\ a.kind = "client_flags"
      BY <3>1, Takes
    <3> QED
      BY <3>1, <3>2 DEF Asks
  <2>2. CASE serverFlags' = serverFlags
    BY <2>2 DEF TypeOK
  <2> QED
    BY <2>1, <2>2 DEF ServerSteps, ServerGreets, ServerAnswersGo, ServerInforms,
         ServerAcknowledges, ServerAnswersExportName
<1>6. stream' \in Seq(Messages)
  <2>1. CASE ServerGreets
    <3>1. PICK m \in Messages, n \in Messages, o \in Messages : stream' = stream \o <<m, n, o>>
      BY <1>0, <2>1, Sent DEF ServerGreets
    <3> QED
      BY <1>0, <3>1, ThreeMore
  <2>2. CASE ServerReadsFlags
    BY <1>0, <2>2 DEF ServerReadsFlags
  <2>3. CASE ServerAnswersGo
    <3>1. stream' = stream \/ \E m \in Messages : stream' = stream \o <<m>>
      BY <1>0, <2>3, Sent DEF ServerAnswersGo
    <3> QED
      BY <1>0, <3>1, OneMore
  <2>4. CASE ServerInforms \/ ServerAcknowledges
    <3>1. \E m \in Messages : stream' = stream \o <<m>>
      BY <1>0, <2>4, Sent DEF ServerInforms, ServerAcknowledges
    <3> QED
      BY <1>0, <3>1, OneMore
  <2>5. CASE ServerAnswersExportName
    <3>1. PICK m \in Messages, n \in Messages : m = Sizes(server.Size, server.Flags) /\ n = Plain("zeroes")
      BY <1>0, Sent
    <3>2. \/ stream' = stream
          \/ stream' = stream \o (<<m>> \o <<>>)
          \/ stream' = stream \o (<<m>> \o <<n>>)
      BY <2>5, <3>1 DEF ServerAnswersExportName
    <3>3. stream \o (<<m>> \o <<>>) \in Seq(Messages) /\ stream \o (<<m>> \o <<n>>) \in Seq(Messages)
      BY <1>0, <3>1, Joined
    <3> QED
      BY <1>0, <3>2, <3>3
  <2> QED
    BY <2>1, <2>2, <2>3, <2>4, <2>5 DEF ServerSteps
<1> QED
  BY <1>1, <1>2, <1>3, <1>4, <1>5, <1>6

\* The steps of an honest server keep the types.
LEMMA ServesTyped ==
  ASSUME IInv, ServerSteps
  PROVE  Typed'
<1>0. TypeOK /\ Wired
  BY DEF IInv
<1>1. /\ UNCHANGED <<pc, WnbdProps, GFlags, ClientFlags, SeenExport, Size, Flags, BlockSizeInfo,
                     honest, server, misbehaved>>
      /\ stream' \in Seq(Messages) /\ requests' \in Seq(Asks) /\ Len(requests') <= Len(requests)
      /\ closed' \in BOOLEAN
      /\ serverPc' \in {"greet", "flags", "options", "infos", "transmission"}
      /\ serverFlags' \subseteq GlobalFlags /\ told' \subseteq {"EXPORT", "BLOCK_SIZE", "OTHER"}
  BY <1>0, Serves
<1>2. Len(requests) \in Nat /\ Len(requests') \in Nat
  BY <1>0, <1>1 DEF Wired
<1>3. Wired'
  BY <1>0, <1>1, <1>2 DEF Wired
<1>4. TypeOK'
  BY <1>0, <1>1, <1>2 DEF TypeOK
<1> QED
  BY <1>3, <1>4 DEF Typed

\* A dishonest server sends a message the client can read.
LEMMA Misbehaves ==
  ASSUME TypeOK, Wired, ServerMisbehaves
  PROVE  /\ ~honest /\ stream' \in Seq(Messages) /\ misbehaved' \in 0..MaxReplies
         /\ UNCHANGED <<pc, WnbdProps, GFlags, ClientFlags, SeenExport, Size, Flags, BlockSizeInfo,
                        requests, closed, honest, server, serverPc, serverFlags, told>>
<1>1. PICK m \in Anything : stream' = stream \o <<m>>
  BY DEF ServerMisbehaves, Sends
<1>2. m \in Messages
  <2>1. \A k \in {"password", "garbage", "option_magic", "client_magic", "zeroes"} : Plain(k) \in Messages
    BY DEF Plain, Messages
  <2>2. \A g \in SUBSET GlobalFlags : GreetingFlags(g) \in Messages
    BY DEF GreetingFlags, Messages
  <2>3. Replies \subseteq Messages /\ Exports \subseteq Messages
    BY NegotiateAssumption
  <2> QED
    BY <1>1, <2>1, <2>2, <2>3 DEF Anything
<1>3. stream' \in Seq(Messages)
  BY <1>1, <1>2, OneMore DEF Wired
<1>4. misbehaved' \in 0..MaxReplies
  BY NegotiateAssumption DEF ServerMisbehaves, TypeOK
<1> QED
  BY <1>3, <1>4 DEF ServerMisbehaves, clientVars

\* So do those of a dishonest one.
LEMMA MisbehavesTyped ==
  ASSUME IInv, ServerMisbehaves
  PROVE  Typed'
<1>0. TypeOK /\ Wired
  BY DEF IInv
<1>1. /\ ~honest /\ stream' \in Seq(Messages) /\ misbehaved' \in 0..MaxReplies
      /\ UNCHANGED <<pc, WnbdProps, GFlags, ClientFlags, SeenExport, Size, Flags, BlockSizeInfo,
                     requests, closed, honest, server, serverPc, serverFlags, told>>
  BY <1>0, Misbehaves
<1>2. Wired'
  BY <1>0, <1>1 DEF Wired
<1>3. TypeOK'
  BY <1>0, <1>1 DEF TypeOK
<1> QED
  BY <1>2, <1>3 DEF Typed

\* The steps of Next, grouped by what they do.
LEMMA Cases ==
  ASSUME [Next]_vars
  PROVE  \/ Start \/ StartRefused \/ CheckLimits \/ Map \/ TransferFails \/ ConnectionCloses
         \/ Skips
         \/ NegotiateFlags \/ NbdParseOptGoReply \/ NbdParseInfoBlockSize \/ NbdParseSizes
         \/ NbdSendInfoRequest \/ SendOptExportName
         \/ ServerSteps \/ ServerMisbehaves
         \/ UNCHANGED vars
  BY DEF Next, ClientSteps, Skips

\* Every step keeps the types.
LEMMA TypedStep ==
  ASSUME IInv, [Next]_vars
  PROVE  TypeOK' /\ Wired'
<1>1. CASE UNCHANGED vars
  <2>1. UNCHANGED <<pc, WnbdProps, GFlags, ClientFlags, SeenExport, Size, Flags, BlockSizeInfo, requests,
                    stream, closed, honest, server, serverPc, serverFlags, told, misbehaved>>
    BY <1>1 DEF vars, clientVars, serverVars
  <2>2. TypeOK'
    BY <2>1 DEF IInv, TypeOK
  <2>3. Wired'
    BY <2>1 DEF IInv, Wired
  <2> QED
    BY <2>2, <2>3
<1> QED
  BY <1>1, Cases, QuietTyped, SkipsTyped, KeepsTyped, AsksTyped, ServesTyped, MisbehavesTyped DEF Typed

-----------------------------------------------------------------------------
(* The properties of the disk *)

\* Every step keeps what TryStart makes of the properties.
LEMMA PropsStep ==
  ASSUME IInv, [Next]_vars
  PROVE  PropsFit'
<1>0. TypeOK /\ Wired /\ PropsFit
  BY DEF IInv
<1>1. CASE Start \/ StartRefused
  BY <1>0, <1>1, Starts DEF PropsFit
<1>2. CASE CheckLimits
  BY <1>0, <1>2, Checks DEF PropsFit
<1>3. CASE Map
  <2>1. CASE pc' = "failed"
    BY <1>0, <1>3, <2>1, Maps DEF PropsFit
  <2>2. CASE pc' = "mapped"
    <3>1. /\ WnbdProps'.Features \ {"READ_ONLY"} = CHECK_NBD_FLAG(Flags) \ {"READ_ONLY"}
          /\ "READ_ONLY" \in CHECK_NBD_FLAG(Flags) => "READ_ONLY" \in WnbdProps'.Features
      BY <1>0, <1>3, Maps DEF PropsFit
    <3> QED
      BY <1>0, <1>3, <2>2, <3>1, Maps DEF PropsFit, CHECK_NBD_FLAG
  <2> QED
    BY <1>0, <1>3, <2>1, <2>2, Maps
<1>4. CASE TransferFails
  <2>1. /\ UNCHANGED <<WnbdProps, GFlags, ClientFlags, Size, Flags, BlockSizeInfo>>
        /\ pc' = "failed"
    BY <1>4 DEF TransferFails, clientVars, Goes
  <2> QED
    BY <1>0, <2>1 DEF PropsFit
<1>5. CASE ConnectionCloses \/ ServerSteps \/ ServerMisbehaves \/ UNCHANGED vars
  <2>1. UNCHANGED <<pc, WnbdProps, GFlags, ClientFlags, Size, Flags, BlockSizeInfo>>
    BY <1>0, <1>5, Serves, Misbehaves DEF ConnectionCloses, ServerUnchanged, vars, clientVars
  <2> QED
    BY <1>0, <2>1 DEF PropsFit, Compatible
<1>6. CASE Skips
  <2>1. /\ UNCHANGED <<WnbdProps, GFlags, ClientFlags, Size, Flags, BlockSizeInfo>>
        /\ pc \in Receiving
        /\ pc' \in {"failed", "option_magic", "global_flags", "export_name", "reply", "limits"}
        /\ pc' \in {"export_name", "reply"} => pc = "reply"
    <3>1. pc \in Receiving
      BY <1>6 DEF Skips, Receiving, NbdValidateInitialMagic, NbdValidateOptionMagic, ErrorReply,
           MalformedReply, IgnoredReply, AckReply, ReservedBytes
    <3> QED
      BY <1>6, <3>1, SkipsTo
  <2> QED
    BY <1>0, <2>1 DEF PropsFit, Receiving
<1>7. CASE NegotiateFlags
  <2>1. /\ pc = "global_flags" /\ pc' \in {"option_go", "failed"} /\ WnbdProps' = WnbdProps
        /\ ClientFlags' = NbdMaskClientFlags({"FIXED_NEWSTYLE"} \cup (GFlags' \cap {"NO_ZEROES"}), GFlags')
    BY <1>7 DEF NegotiateFlags, Goes
  <2>2. "NO_ZEROES" \in ClientFlags' <=> "NO_ZEROES" \in GFlags'
    BY <2>1 DEF NbdMaskClientFlags
  <2> QED
    BY <1>0, <2>1, <2>2 DEF PropsFit
<1>8. CASE NbdParseOptGoReply \/ NbdParseInfoBlockSize \/ NbdSendInfoRequest \/ SendOptExportName
  <2>1. /\ UNCHANGED <<WnbdProps, GFlags, ClientFlags>>
        /\ pc \in {"reply", "option_go", "export_name"} /\ pc' \in {"reply", "sizes"}
    BY <1>8 DEF NbdParseOptGoReply, NbdParseInfoBlockSize, NbdSendInfoRequest, SendOptExportName, Goes,
         clientVars
  <2> QED
    BY <1>0, <2>1 DEF PropsFit
<1>9. CASE NbdParseSizes
  <2>1. WnbdProps' = WnbdProps /\ pc = "sizes" /\ pc' \in {"limits", "zeroes"}
    BY <1>9 DEF NbdParseSizes, Goes
  <2> QED
    BY <1>0, <2>1 DEF PropsFit
<1> QED
  BY <1>1, <1>2, <1>3, <1>4, <1>5, <1>6, <1>7, <1>8, <1>9, Cases

-----------------------------------------------------------------------------
(* The dialogue *)

\* Its places, in the middle of a negotiation with an honest server.
Talk == At(pc, serverPc, stream, requests, ClientFlags, serverFlags)
TalkNext == At(pc', serverPc', stream', requests', ClientFlags', serverFlags')

\* What goes on without the client moves no message.
LEMMA SameTalk ==
  ASSUME Talk,
         UNCHANGED <<pc, serverPc, stream, requests, ClientFlags, serverFlags>>
  PROVE  TalkNext
  BY DEF Talk, TalkNext

\* The client reads a part of the greeting.
LEMMA GreetingTalk ==
  ASSUME Talk, Wired,
         \/ pc = "password" /\ pc' = "option_magic" /\ Receive("password")
         \/ pc = "option_magic" /\ pc' = "global_flags" /\ Receive("option_magic")
         \/ pc = "global_flags" /\ pc' = "option_go" /\ Receive("global_flags")
  PROVE  TalkNext
<1>1. /\ Len(stream) \in Nat /\ Len(stream) >= 1 /\ Len(stream') = Len(stream) - 1
      /\ \A i \in 1..Len(stream') : stream'[i] = stream[i + 1]
      /\ UNCHANGED <<requests, serverPc, serverFlags>>
  BY Reads
<1>2. CASE pc = "password" /\ pc' = "option_magic"
  <2>1. serverPc = "flags" /\ Len(requests) = 0 /\ Len(stream) = 3
        /\ stream[2].kind = "option_magic" /\ stream[3].kind = "global_flags"
    BY <1>1, <1>2 DEF Talk, At, GreetingDue
  <2>2. Len(stream') = 2 /\ stream'[1] = stream[2] /\ stream'[2] = stream[3]
    BY ONLY <1>1, <2>1
  <2> QED
    BY <1>1, <1>2, <2>1, <2>2 DEF TalkNext, At
<1>3. CASE pc = "option_magic" /\ pc' = "global_flags"
  <2>1. serverPc = "flags" /\ Len(requests) = 0 /\ Len(stream) = 2 /\ stream[2].kind = "global_flags"
    BY <1>3 DEF Talk, At
  <2>2. Len(stream') = 1 /\ stream'[1] = stream[2]
    BY ONLY <1>1, <2>1
  <2> QED
    BY <1>1, <1>3, <2>1, <2>2 DEF TalkNext, At
<1>4. CASE pc = "global_flags" /\ pc' = "option_go"
  <2>1. serverPc = "flags" /\ Len(requests) = 0 /\ Len(stream) = 1
    BY <1>4 DEF Talk, At
  <2>2. Len(stream') = 0
    BY ONLY <1>1, <2>1
  <2> QED
    BY <1>1, <1>4, <2>1, <2>2 DEF TalkNext, At
<1> QED
  BY <1>2, <1>3, <1>4

\* The client reads an information item or one it ignores.
LEMMA InfoTalk ==
  ASSUME Talk, Wired, pc = "reply", pc' = "reply", UNCHANGED ClientFlags,
         NEW kind \in InfoKinds \cup {"UNKNOWN"}, Receive(kind)
  PROVE  TalkNext
<1>1. /\ Len(stream) \in Nat /\ Len(stream) >= 1 /\ stream[1].kind = kind
      /\ Len(stream') = Len(stream) - 1
      /\ \A i \in 1..Len(stream') : stream'[i] = stream[i + 1]
      /\ UNCHANGED <<requests, serverPc, serverFlags>>
  BY Reads
<1>2. \/ serverPc = "infos" /\ Len(requests) = 0 /\ \A i \in 1..Len(stream) : stream[i].kind \in InfoKinds
      \/ /\ serverPc = "transmission" /\ Len(requests) = 0 /\ stream[Len(stream)].kind = "ACK"
         /\ \A i \in 1..(Len(stream) - 1) : stream[i].kind \in InfoKinds
  BY <1>1 DEF Talk, At, ReplyDue, InfoKinds, Refusals
<1>3. CASE serverPc = "infos" /\ Len(requests) = 0 /\ \A i \in 1..Len(stream) : stream[i].kind \in InfoKinds
  <2>1. \A i \in 1..Len(stream') : stream'[i].kind \in InfoKinds
    BY ONLY <1>1, <1>3
  <2> QED
    BY <1>1, <1>3, <2>1 DEF TalkNext, At, ReplyDue
<1>4. CASE /\ serverPc = "transmission" /\ Len(requests) = 0 /\ stream[Len(stream)].kind = "ACK"
           /\ \A i \in 1..(Len(stream) - 1) : stream[i].kind \in InfoKinds
  <2>1. Len(stream) # 1
    BY <1>1, <1>4 DEF InfoKinds
  <2>2. Len(stream') >= 1 /\ stream'[Len(stream')] = stream[Len(stream)]
    BY ONLY <1>1, <2>1
  <2>3. \A i \in 1..(Len(stream') - 1) : stream'[i].kind \in InfoKinds
    BY ONLY <1>1, <1>4
  <2> QED
    BY <1>1, <1>4, <2>2, <2>3 DEF TalkNext, At, ReplyDue
<1> QED
  BY <1>2, <1>3, <1>4

\* The client reads what ends its wait for replies.
LEMMA ReplyTalk ==
  ASSUME Talk, Wired, pc = "reply", UNCHANGED ClientFlags,
         \/ pc' = "export_name" /\ Receive("ERR_UNSUP")
         \/ pc' = "limits" /\ Receive("ACK")
  PROVE  TalkNext
<1>1. /\ Len(stream) \in Nat /\ Len(stream) >= 1
      /\ Len(stream') = Len(stream) - 1
      /\ UNCHANGED <<requests, serverPc, serverFlags>>
      /\ \/ pc' = "export_name" /\ stream[1].kind = "ERR_UNSUP"
         \/ pc' = "limits" /\ stream[1].kind = "ACK"
  BY Reads
<1>2. CASE pc' = "export_name" /\ stream[1].kind = "ERR_UNSUP"
  <2>1. serverPc = "options" /\ serverFlags = ClientFlags /\ Len(stream) = 1 /\ Len(requests) = 0
    BY <1>1, <1>2 DEF Talk, At, ReplyDue, InfoKinds
  <2> QED
    BY <1>1, <1>2, <2>1 DEF TalkNext, At
<1>3. CASE pc' = "limits" /\ stream[1].kind = "ACK"
  <2>1. serverPc = "transmission" /\ Len(stream) = 1 /\ Len(requests) = 0
    BY <1>1, <1>3 DEF Talk, At, ReplyDue, InfoKinds, Refusals
  <2> QED
    BY <1>1, <1>3, <2>1 DEF TalkNext, At
<1> QED
  BY <1>1, <1>2, <1>3

\* The client reads the answer to NBD_OPT_EXPORT_NAME.
LEMMA SizesTalk ==
  ASSUME Talk, Wired, PropsFit, UNCHANGED ClientFlags,
         \/ /\ pc = "sizes" /\ Receive("sizes")
            /\ pc' = IF "NO_ZEROES" \in GFlags THEN "limits" ELSE "zeroes"
         \/ pc = "zeroes" /\ pc' = "limits" /\ Receive("zeroes")
  PROVE  TalkNext
<1>1. /\ Len(stream) \in Nat /\ Len(stream) >= 1 /\ Len(stream') = Len(stream) - 1
      /\ \A i \in 1..Len(stream') : stream'[i] = stream[i + 1]
      /\ UNCHANGED <<requests, serverPc, serverFlags>>
  BY Reads
<1>2. CASE pc = "sizes" /\ pc' = IF "NO_ZEROES" \in GFlags THEN "limits" ELSE "zeroes"
  <2>1. serverPc = "transmission" /\ Len(requests) = 0 /\ serverFlags = ClientFlags
    BY <1>1, <1>2 DEF Talk, At, SizesDue
  <2>2. "NO_ZEROES" \in serverFlags <=> "NO_ZEROES" \in GFlags
    BY <1>2, <2>1 DEF PropsFit
  <2>3. CASE "NO_ZEROES" \in serverFlags
    <3>1. Len(stream) = 1 /\ pc' = "limits"
      BY <1>1, <1>2, <2>2, <2>3 DEF Talk, At, SizesDue
    <3> QED
      BY <1>1, <2>1, <3>1 DEF TalkNext, At
  <2>4. CASE "NO_ZEROES" \notin serverFlags
    <3>1. Len(stream) = 2 /\ stream[2].kind = "zeroes" /\ pc' = "zeroes"
      BY <1>1, <1>2, <2>2, <2>4 DEF Talk, At, SizesDue
    <3>2. Len(stream') = 1 /\ stream'[1] = stream[2]
      BY ONLY <1>1, <3>1
    <3> QED
      BY <1>1, <2>1, <3>1, <3>2 DEF TalkNext, At
  <2> QED
    BY <2>3, <2>4
<1>3. CASE pc = "zeroes" /\ pc' = "limits"
  <2>1. serverPc = "transmission" /\ Len(requests) = 0 /\ Len(stream) = 1
    BY <1>3 DEF Talk, At
  <2> QED
    BY <1>1, <1>3, <2>1 DEF TalkNext, At
<1> QED
  BY <1>2, <1>3

\* The client sends a request.
LEMMA AskTalk ==
  ASSUME Talk, TypeOK, Wired, NbdSendInfoRequest \/ SendOptExportName
  PROVE  TalkNext
<1>1. requests \in Seq(Asks) /\ UNCHANGED <<stream, serverPc, serverFlags, ClientFlags>>
  BY DEF Wired, NbdSendInfoRequest, SendOptExportName, clientVars, serverVars
<1>2. CASE NbdSendInfoRequest
  <2>1. pc = "option_go" /\ pc' = "reply"
    BY <1>2 DEF NbdSendInfoRequest, Goes
  <2>2. serverPc = "flags" /\ Len(stream) = 0 /\ Len(requests) = 0
    BY <2>1 DEF Talk, At
  <2>3. PICK a \in Asks, g \in Asks :
          /\ a.kind = "client_flags" /\ a.flags = ClientFlags /\ g.kind = "GO"
          /\ requests' = requests \o <<a, g>>
    <3>1. [kind |-> "client_flags", flags |-> ClientFlags] \in Asks /\ Plain("GO") \in Asks
      BY DEF Asks, Plain, TypeOK
    <3> QED
      BY <1>2, <3>1 DEF NbdSendInfoRequest, Plain
  <2>4. Len(requests') = 2 /\ requests'[1] = a /\ requests'[2] = g
    <3>1. /\ Len(requests \o <<a, g>>) = Len(requests) + 2
          /\ (requests \o <<a, g>>)[Len(requests) + 1] = a
          /\ (requests \o <<a, g>>)[Len(requests) + 2] = g
      BY <1>1, <2>3, TwoMore
    <3> QED
      BY <2>2, <2>3, <3>1
  <2> QED
    BY <1>1, <2>1, <2>2, <2>3, <2>4 DEF TalkNext, At, ReplyDue
<1>3. CASE SendOptExportName
  <2>1. pc = "export_name" /\ pc' = "sizes"
    BY <1>3 DEF SendOptExportName, Goes
  <2>2. serverPc = "options" /\ serverFlags = ClientFlags /\ Len(stream) = 0 /\ Len(requests) = 0
    BY <2>1 DEF Talk, At
  <2>3. PICK g \in Asks : g.kind = "EXPORT_NAME" /\ requests' = Append(requests, g)
    BY <1>3 DEF SendOptExportName, Plain, Asks
  <2>4. Len(requests') = 1 /\ requests'[1] = g
    <3>1. Len(Append(requests, g)) = Len(requests) + 1 /\ Append(requests, g)[Len(requests) + 1] = g
      BY <1>1, <2>3, AppendProperties
    <3> QED
      BY <2>2, <2>3, <3>1
  <2> QED
    BY <1>1, <2>1, <2>2, <2>3, <2>4 DEF TalkNext, At, SizesDue
<1> QED
  BY <1>2, <1>3

\* An honest server greets: the client waits for it.
LEMMA GreetsTalk ==
  ASSUME Talk, TypeOK, Wired, ServerGreets
  PROVE  TalkNext
<1>0. server \in Servers /\ stream \in Seq(Messages)
  BY DEF TypeOK, Wired
<1>1. /\ serverPc = "greet" /\ serverPc' = "flags"
      /\ UNCHANGED <<pc, requests, ClientFlags, serverFlags>>
  BY DEF ServerGreets, ServerUnchanged, clientVars
<1>2. pc \notin {"start", "password"} => pc \in {"failed"}
  BY <1>1 DEF Talk, At, ReplyDue, SizesDue, TypeOK, Receiving, Sending, Over
<1>3. CASE pc = "failed"
  BY <1>1, <1>3 DEF TalkNext, At
<1>4. CASE pc \in {"start", "password"}
  <2>1. Len(stream) = 0 /\ Len(requests) = 0
    BY <1>1, <1>4 DEF Talk, At, GreetingDue
  <2>2. PICK m \in Messages, n \in Messages, o \in Messages :
          /\ m.kind = "password" /\ n.kind = "option_magic" /\ o.kind = "global_flags"
          /\ stream' = stream \o <<m, n, o>>
    BY <1>0, Sent DEF ServerGreets, Sends
  <2>3. Len(stream') = 3 /\ stream'[1] = m /\ stream'[2] = n /\ stream'[3] = o
    <3>1. /\ Len(stream \o <<m, n, o>>) = Len(stream) + 3
          /\ (stream \o <<m, n, o>>)[Len(stream) + 1] = m
          /\ (stream \o <<m, n, o>>)[Len(stream) + 2] = n
          /\ (stream \o <<m, n, o>>)[Len(stream) + 3] = o
      BY <1>0, <2>2, ThreeMore
    <3> QED
      BY <2>1, <2>2, <3>1
  <2> QED
    BY <1>1, <1>4, <2>1, <2>2, <2>3 DEF TalkNext, At, GreetingDue
<1> QED
  BY <1>2, <1>3, <1>4

\* A request finds the server where it is expected.
LEMMA RequestTalk ==
  ASSUME Talk, TypeOK, Wired, pc # "failed", NEW kind, Requested(kind)
  PROVE  /\ kind = "client_flags" =>
              /\ pc = "reply" /\ serverPc = "flags" /\ Len(stream) = 0 /\ Len(requests) = 2
              /\ requests[1].flags = ClientFlags /\ requests[2].kind = "GO"
         /\ kind = "GO" =>
              /\ pc = "reply" /\ serverPc = "options" /\ serverFlags = ClientFlags
              /\ Len(stream) = 0 /\ Len(requests) = 1
         /\ kind = "EXPORT_NAME" =>
              /\ pc = "sizes" /\ serverPc = "options" /\ serverFlags = ClientFlags
              /\ Len(stream) = 0 /\ Len(requests) = 1
<1>1. Len(requests) >= 1 /\ requests[1].kind = kind
  BY Takes
<1>2. pc \in {"reply", "sizes"}
  BY <1>1 DEF Talk, At, GreetingDue, TypeOK, Receiving, Sending, Over
<1> QED
  BY <1>1, <1>2 DEF Talk, At, ReplyDue, SizesDue

\* The server answers a request.
LEMMA AnswerTalk ==
  ASSUME Talk, TypeOK, Wired, pc # "failed",
         ServerReadsFlags \/ ServerAnswersGo \/ ServerAnswersExportName
  PROVE  TalkNext
<1>0. server \in Servers /\ stream \in Seq(Messages) /\ requests \in Seq(Asks)
  BY DEF TypeOK, Wired
<1>1. UNCHANGED <<pc, ClientFlags>>
  BY DEF ServerReadsFlags, ServerAnswersGo, ServerAnswersExportName, ServerUnchanged, clientVars
<1>2. CASE ServerReadsFlags
  <2>1. /\ Requested("client_flags") /\ serverFlags' = Head(requests).flags
        /\ serverPc' = "options" /\ stream' = stream
    BY <1>2 DEF ServerReadsFlags
  <2>2. /\ Head(requests) = requests[1] /\ Len(requests') = Len(requests) - 1
        /\ \A i \in 1..Len(requests') : requests'[i] = requests[i + 1]
    BY <2>1, Takes
  <2>3. /\ pc = "reply" /\ Len(stream) = 0 /\ Len(requests) = 2
        /\ requests[1].flags = ClientFlags /\ requests[2].kind = "GO"
    BY <2>1, RequestTalk
  <2>4. Len(requests') = 1 /\ requests'[1] = requests[2]
    BY ONLY <2>2, <2>3
  <2> QED
    BY <1>1, <2>1, <2>2, <2>3, <2>4 DEF TalkNext, At, ReplyDue
<1>3. CASE ServerAnswersGo
  <2>1. Requested("GO") /\ serverFlags' = serverFlags
    BY <1>3 DEF ServerAnswersGo
  <2>2. /\ pc = "reply" /\ serverPc = "options" /\ serverFlags = ClientFlags
        /\ Len(stream) = 0 /\ Len(requests) = 1
    BY <2>1, RequestTalk
  <2>3. Len(requests') = 0
    BY <2>1, <2>2, Takes
  <2>4. CASE serverPc' = "infos" /\ stream' = stream
    BY <1>1, <2>2, <2>3, <2>4 DEF TalkNext, At, ReplyDue
  <2>5. CASE /\ serverPc' = serverPc
             /\ \E m \in Messages : m.kind \in Refusals \cup {"ERR_UNSUP"} /\ stream' = stream \o <<m>>
    <3>1. PICK m \in Messages : m.kind \in Refusals \cup {"ERR_UNSUP"} /\ stream' = stream \o <<m>>
      BY <2>5
    <3>2. Len(stream \o <<m>>) = Len(stream) + 1 /\ (stream \o <<m>>)[Len(stream) + 1] = m
      BY <1>0, <3>1, OneMore
    <3>3. Len(stream') = 1 /\ stream'[1] = m
      BY <2>2, <3>1, <3>2
    <3> QED
      BY <1>1, <2>1, <2>2, <2>3, <2>5, <3>1, <3>3 DEF TalkNext, At, ReplyDue
  <2> QED
    BY <1>0, <1>3, <2>4, <2>5, Sent DEF ServerAnswersGo, Sends
<1>4. CASE ServerAnswersExportName
  <2>1. Requested("EXPORT_NAME") /\ serverFlags' = serverFlags
    BY <1>4 DEF ServerAnswersExportName
  <2>2. /\ pc = "sizes" /\ serverPc = "options" /\ serverFlags = ClientFlags
        /\ Len(stream) = 0 /\ Len(requests) = 1
    BY <2>1, RequestTalk
  <2>3. Len(requests') = 0
    BY <2>1, <2>2, Takes
  <2>4. CASE serverPc' = serverPc /\ stream' = stream
    BY <1>1, <2>1, <2>2, <2>3, <2>4 DEF TalkNext, At, SizesDue
  <2>5. CASE serverPc' = "transmission"
    <3>1. PICK m \in Messages, n \in Messages :
            /\ m = Sizes(server.Size, server.Flags) /\ n = Plain("zeroes")
            /\ m.kind = "sizes" /\ n.kind = "zeroes"
      BY <1>0, Sent
    <3>2. stream' = stream \o (<<m>> \o IF "NO_ZEROES" \in serverFlags THEN <<>> ELSE <<n>>)
      BY <1>4, <2>2, <2>5, <3>1 DEF ServerAnswersExportName, Sends
    <3>3. /\ Len(stream \o (<<m>> \o <<>>)) = Len(stream) + 1
          /\ (stream \o (<<m>> \o <<>>))[Len(stream) + 1] = m
          /\ Len(stream \o (<<m>> \o <<n>>)) = Len(stream) + 2
          /\ (stream \o (<<m>> \o <<n>>))[Len(stream) + 1] = m
          /\ (stream \o (<<m>> \o <<n>>))[Len(stream) + 2] = n
      BY <1>0, <3>1, Joined
    <3>4. CASE "NO_ZEROES" \in serverFlags
      <4>1. Len(stream') = 1 /\ stream'[1] = m
        BY <2>2, <3>2, <3>3, <3>4
      <4> QED
        BY <1>1, <2>1, <2>2, <2>3, <2>5, <3>1, <3>4, <4>1 DEF TalkNext, At, SizesDue
    <3>5. CASE "NO_ZEROES" \notin serverFlags
      <4>1. Len(stream') = 2 /\ stream'[1] = m /\ stream'[2] = n
        BY <2>2, <3>2, <3>3, <3>5
      <4> QED
        BY <1>1, <2>1, <2>2, <2>3, <2>5, <3>1, <3>5, <4>1 DEF TalkNext, At, SizesDue
    <3> QED
      BY <3>4, <3>5
  <2> QED
    BY <1>4, <2>4, <2>5 DEF ServerAnswersExportName
<1> QED
  BY <1>2, <1>3, <1>4

\* The server informs and acknowledges.
LEMMA InformTalk ==
  ASSUME Talk, TypeOK, Wired, pc # "failed", ServerInforms \/ ServerAcknowledges
  PROVE  TalkNext
<1>0. server \in Servers /\ stream \in Seq(Messages)
  BY DEF TypeOK, Wired
<1>1. serverPc = "infos" /\ UNCHANGED <<pc, requests, ClientFlags, serverFlags>>
  BY DEF ServerInforms, ServerAcknowledges, ServerUnchanged, clientVars
<1>2. pc = "reply"
  BY <1>1 DEF Talk, At, GreetingDue, SizesDue, TypeOK, Receiving, Sending, Over
<1>3. Len(requests) = 0 /\ \A i \in 1..Len(stream) : stream[i].kind \in InfoKinds
  BY <1>1, <1>2 DEF Talk, At, ReplyDue
<1>4. PICK m \in Messages :
        /\ stream' = stream \o <<m>>
        /\ \/ m.kind \in InfoKinds /\ serverPc' = "infos"
           \/ m.kind = "ACK" /\ serverPc' = "transmission"
  BY <1>0, <1>1, Sent DEF ServerInforms, ServerAcknowledges, Sends, InfoKinds
<1>5. /\ Len(stream) \in Nat /\ Len(stream') = Len(stream) + 1
      /\ \A i \in 1..Len(stream) : stream'[i] = stream[i]
      /\ stream'[Len(stream) + 1] = m
  BY <1>0, <1>4, OneMore
<1>6. \A i \in 1..(Len(stream') - 1) : stream'[i].kind \in InfoKinds
  BY ONLY <1>3, <1>5
<1>7. stream'[Len(stream')] = m /\ Len(stream') >= 1
  BY ONLY <1>5
<1>8. CASE m.kind \in InfoKinds /\ serverPc' = "infos"
  <2>1. \A i \in 1..Len(stream') : stream'[i].kind \in InfoKinds
    BY ONLY <1>3, <1>5, <1>8
  <2> QED
    BY <1>1, <1>2, <1>3, <1>8, <2>1 DEF TalkNext, At, ReplyDue
<1>9. CASE m.kind = "ACK" /\ serverPc' = "transmission"
  BY <1>1, <1>2, <1>3, <1>6, <1>7, <1>9 DEF TalkNext, At, ReplyDue
<1> QED
  BY <1>4, <1>8, <1>9

\* Every step keeps the dialogue.
LEMMA DialogueStep ==
  ASSUME IInv, [Next]_vars
  PROVE  Dialogue'
<1>0. TypeOK /\ Wired /\ PropsFit
  BY DEF IInv
<1>1. SUFFICES ASSUME honest', ~WnbdProps'.SkipNegotiation, pc' # "failed"
               PROVE  TalkNext
  BY DEF Dialogue, TalkNext
<1>2. honest /\ ~WnbdProps.SkipNegotiation /\ pc # "failed"
  <2>1. CASE Start \/ StartRefused \/ CheckLimits \/ Map
    BY <1>0, <1>1, <2>1, Starts, Checks, Maps
  <2>2. CASE TransferFails \/ ConnectionCloses \/ UNCHANGED vars
    BY <1>1, <2>2 DEF TransferFails, ConnectionCloses, ServerUnchanged, Goes, vars, clientVars, serverVars
  <2>3. CASE Skips
    <3>1. UNCHANGED <<WnbdProps, honest>> /\ pc # "failed"
      BY <1>0, <1>1, <2>3, SkipsTo, Reads
    <3> QED
      BY <1>1, <3>1
  <2>4. CASE NegotiateFlags \/ NbdParseOptGoReply \/ NbdParseInfoBlockSize \/ NbdParseSizes
    <3>1. UNCHANGED WnbdProps /\ pc # "failed" /\ \E kind : Receive(kind)
      BY <2>4 DEF NegotiateFlags, NbdParseOptGoReply, NbdParseInfoBlockSize, NbdParseSizes
    <3> QED
      BY <1>0, <1>1, <3>1, Reads
  <2>5. CASE NbdSendInfoRequest \/ SendOptExportName
    BY <1>1, <2>5 DEF NbdSendInfoRequest, SendOptExportName, clientVars, serverVars
  <2>6. CASE ServerSteps \/ ServerMisbehaves
    BY <1>0, <1>1, <2>6, Serves, Misbehaves
  <2> QED
    BY <2>1, <2>2, <2>3, <2>4, <2>5, <2>6, Cases
<1>3. Talk
  BY <1>2 DEF IInv, Dialogue, Talk
<1>4. CASE Start \/ StartRefused
  <2>1. /\ pc = "start" /\ pc' = "password"
        /\ UNCHANGED <<serverPc, stream, requests, ClientFlags, serverFlags>>
    BY <1>0, <1>1, <1>2, <1>4, Starts
  <2> QED
    BY <1>3, <2>1 DEF Talk, TalkNext, At, GreetingDue
<1>5. CASE CheckLimits \/ Map
  <2>1. /\ pc \in {"limits", "map"} /\ pc' \in {"map", "mapped"}
        /\ UNCHANGED <<serverPc, stream, requests, ClientFlags, serverFlags>>
    BY <1>0, <1>1, <1>5, Checks, Maps
  <2> QED
    BY <1>3, <2>1 DEF Talk, TalkNext, At
<1>6. CASE TransferFails
  BY <1>1, <1>6 DEF TransferFails, Goes
<1>7. CASE ConnectionCloses \/ UNCHANGED vars
  BY <1>3, <1>7, SameTalk DEF ConnectionCloses, ServerUnchanged, vars, clientVars, serverVars
<1>8. CASE Skips
  BY <1>0, <1>1, <1>3, <1>8, SkipsTo, GreetingTalk, InfoTalk, ReplyTalk, SizesTalk DEF InfoKinds
<1>9. CASE NegotiateFlags
  <2>1. pc = "global_flags" /\ pc' = "option_go" /\ Receive("global_flags")
    BY <1>1, <1>9 DEF NegotiateFlags, Goes
  <2> QED
    BY <1>0, <1>3, <2>1, GreetingTalk
<1>10. CASE NbdParseOptGoReply \/ NbdParseInfoBlockSize
  <2>1. /\ pc = "reply" /\ pc' = "reply" /\ UNCHANGED ClientFlags
        /\ \E kind \in InfoKinds : Receive(kind)
    BY <1>10 DEF NbdParseOptGoReply, NbdParseInfoBlockSize, InfoKinds
  <2> QED
    BY <1>0, <1>3, <2>1, InfoTalk
<1>11. CASE NbdParseSizes
  <2>1. /\ pc = "sizes" /\ Receive("sizes") /\ UNCHANGED ClientFlags
        /\ pc' = IF "NO_ZEROES" \in GFlags THEN "limits" ELSE "zeroes"
    BY <1>11 DEF NbdParseSizes, Goes
  <2> QED
    BY <1>0, <1>3, <2>1, SizesTalk
<1>12. CASE NbdSendInfoRequest \/ SendOptExportName
  BY <1>0, <1>3, <1>12, AskTalk
<1>13. CASE ServerSteps
  BY <1>0, <1>2, <1>3, <1>13, GreetsTalk, AnswerTalk, InformTalk DEF ServerSteps
<1>14. CASE ServerMisbehaves
  BY <1>2, <1>14 DEF ServerMisbehaves
<1> QED
  BY <1>4, <1>5, <1>6, <1>7, <1>8, <1>9, <1>10, <1>11, <1>12, <1>13, <1>14, Cases

-----------------------------------------------------------------------------
(* What the client knows of the export *)

\* What is left of the stream is still so.
LEMMA SaysTail ==
  ASSUME Wired, Exported, honest, NEW kind, Receive(kind)
  PROVE  /\ Says(stream[1], server) /\ stream[1].kind = kind /\ Head(stream) = stream[1]
         /\ \A i \in 1..Len(stream') : Says(stream'[i], server')
<1>1. /\ Len(stream) \in Nat /\ Len(stream) >= 1 /\ stream[1].kind = kind /\ Head(stream) = stream[1]
      /\ Len(stream') = Len(stream) - 1
      /\ \A i \in 1..Len(stream') : stream'[i] = stream[i + 1]
      /\ server' = server
  BY Reads
<1>2. \A i \in 1..Len(stream) : Says(stream[i], server)
  BY DEF Exported
<1>3. Says(stream[1], server)
  BY <1>1, <1>2
<1>4. \A i \in 1..Len(stream') : i + 1 \in 1..Len(stream)
  BY <1>1
<1> QED
  BY <1>1, <1>2, <1>3, <1>4

\* The server adds only what is so.
LEMMA SaysMore ==
  ASSUME TypeOK, Wired, Exported, ServerSteps
  PROVE  \A i \in 1..Len(stream') : Says(stream'[i], server')
<1>0. /\ server \in Servers /\ stream \in Seq(Messages) /\ honest
      /\ \A i \in 1..Len(stream) : Says(stream[i], server)
      /\ server' = server
  BY Serves DEF TypeOK, Wired, Exported
<1>1. ASSUME NEW k \in {"password", "option_magic", "zeroes", "ERR_UNSUP", "INFO_OTHER", "ACK"} \cup Refusals
      PROVE  Says(Plain(k), server)
  BY <1>1 DEF Says, Plain, Refusals
<1>2. Says(GreetingFlags(server.GFlags), server)
  BY DEF Says, GreetingFlags
<1>3. CASE stream' = stream
  BY <1>0, <1>3
<1>4. CASE \E m \in Messages : Says(m, server) /\ stream' = stream \o <<m>>
  <2>1. PICK m \in Messages : Says(m, server) /\ stream' = stream \o <<m>>
    BY <1>4
  <2>2. /\ Len(stream) \in Nat /\ Len(stream') = Len(stream) + 1
        /\ \A i \in 1..Len(stream) : stream'[i] = stream[i]
        /\ stream'[Len(stream) + 1] = m
    BY <1>0, <2>1, OneMore
  <2> QED
    BY <1>0, <2>1, <2>2
<1>5. CASE ServerGreets
  <2>1. PICK m \in Messages, n \in Messages, o \in Messages :
          Says(m, server) /\ Says(n, server) /\ Says(o, server) /\ stream' = stream \o <<m, n, o>>
    BY <1>0, <1>1, <1>2, <1>5, Sent DEF ServerGreets, Sends
  <2>2. /\ Len(stream) \in Nat /\ Len(stream') = Len(stream) + 3
        /\ \A i \in 1..Len(stream) : stream'[i] = stream[i]
        /\ stream'[Len(stream) + 1] = m /\ stream'[Len(stream) + 2] = n /\ stream'[Len(stream) + 3] = o
    BY <1>0, <2>1, ThreeMore
  <2> QED
    BY <1>0, <2>1, <2>2
<1>6. CASE ServerReadsFlags
  BY <1>3, <1>6 DEF ServerReadsFlags
<1>7. CASE ServerAnswersGo \/ ServerInforms \/ ServerAcknowledges
  <2>1. stream' = stream \/ \E m \in Messages : Says(m, server) /\ stream' = stream \o <<m>>
    BY <1>0, <1>1, <1>7, Sent DEF ServerAnswersGo, ServerInforms, ServerAcknowledges, Sends
  <2> QED
    BY <1>3, <1>4, <2>1
<1>8. CASE ServerAnswersExportName
  <2>1. PICK m \in Messages, n \in Messages :
          /\ m = Sizes(server.Size, server.Flags) /\ n = Plain("zeroes")
          /\ Says(m, server) /\ Says(n, server)
    BY <1>0, <1>1, Sent
  <2>2. \/ stream' = stream
        \/ stream' = stream \o (<<m>> \o <<>>)
        \/ stream' = stream \o (<<m>> \o <<n>>)
    BY <1>8, <2>1 DEF ServerAnswersExportName, Sends
  <2>3. CASE stream' = stream \o (<<m>> \o <<>>)
    <3>1. /\ Len(stream) \in Nat /\ Len(stream') = Len(stream) + 1
          /\ \A i \in 1..Len(stream) : stream'[i] = stream[i]
          /\ stream'[Len(stream) + 1] = m
      BY <1>0, <2>1, <2>3, Joined
    <3> QED
      BY <1>0, <2>1, <3>1
  <2>4. CASE stream' = stream \o (<<m>> \o <<n>>)
    <3>1. /\ Len(stream) \in Nat /\ Len(stream') = Len(stream) + 2
          /\ \A i \in 1..Len(stream) : stream'[i] = stream[i]
          /\ stream'[Len(stream) + 1] = m /\ stream'[Len(stream) + 2] = n
      BY <1>0, <2>1, <2>4, Joined
    <3> QED
      BY <1>0, <2>1, <3>1
  <2> QED
    BY <1>3, <2>2, <2>3, <2>4
<1> QED
  BY <1>5, <1>6, <1>7, <1>8 DEF ServerSteps

\* Every step keeps what the client knows of the export.
LEMMA ExportedStep ==
  ASSUME IInv, [Next]_vars
  PROVE  Exported'
<1>0. TypeOK /\ Wired /\ PropsFit /\ Exported
  BY DEF IInv
<1>1. ASSUME UNCHANGED <<stream, honest, server, Size, Flags, SeenExport>>,
             /\ pc' \in {"zeroes", "limits", "map", "mapped"} /\ ~WnbdProps'.SkipNegotiation
                  => pc \in {"zeroes", "limits", "map", "mapped"} /\ ~WnbdProps.SkipNegotiation
      PROVE  Exported'
  BY <1>0, <1>1 DEF Exported
<1>2. CASE Start \/ StartRefused \/ CheckLimits \/ Map
  <2>1. UNCHANGED <<stream, honest, server, Size, Flags, SeenExport>>
    BY <1>0, <1>2, Starts, Checks, Maps
  <2>2. pc' \in {"zeroes", "limits", "map", "mapped"} /\ ~WnbdProps'.SkipNegotiation
          => pc \in {"zeroes", "limits", "map", "mapped"} /\ ~WnbdProps.SkipNegotiation
    BY <1>0, <1>2, Starts, Checks, Maps
  <2> QED
    BY <1>1, <2>1, <2>2
<1>3. CASE TransferFails \/ ConnectionCloses \/ UNCHANGED vars \/ NbdSendInfoRequest \/ SendOptExportName
  <2>1. UNCHANGED <<stream, honest, server, Size, Flags, SeenExport, WnbdProps>>
    BY <1>3 DEF TransferFails, ConnectionCloses, NbdSendInfoRequest, SendOptExportName, ServerUnchanged,
         Wire, vars, clientVars, serverVars
  <2>2. pc' = pc \/ pc' \in {"failed", "reply", "sizes"}
    BY <1>3 DEF TransferFails, ConnectionCloses, NbdSendInfoRequest, SendOptExportName, ServerUnchanged,
         Goes, vars
  <2> QED
    BY <1>1, <2>1, <2>2
<1>4. CASE ServerMisbehaves
  BY <1>0, <1>4, Misbehaves DEF Exported
<1>5. CASE ServerSteps
  <2>1. UNCHANGED <<pc, honest, server, Size, Flags, SeenExport, WnbdProps>>
    BY <1>0, <1>5, Serves
  <2> QED
    BY <1>0, <1>5, <2>1, SaysMore DEF Exported
<1>6. SUFFICES ASSUME honest', NEW kind, Receive(kind),
                      Skips \/ NegotiateFlags \/ NbdParseOptGoReply \/ NbdParseInfoBlockSize \/ NbdParseSizes
               PROVE  Exported'
  <2>1. ASSUME Skips \/ NegotiateFlags \/ NbdParseOptGoReply \/ NbdParseInfoBlockSize \/ NbdParseSizes
        PROVE  \E kind : Receive(kind)
    BY <2>1, SkipsTo DEF NegotiateFlags, NbdParseOptGoReply, NbdParseInfoBlockSize, NbdParseSizes
  <2>2. CASE ~honest'
    BY <2>2 DEF Exported
  <2> QED
    BY <1>2, <1>3, <1>4, <1>5, <2>1, <2>2, Cases
<1>7. honest /\ server' = server
  BY <1>0, <1>6, Reads
<1>8. /\ Says(stream[1], server) /\ stream[1].kind = kind /\ Head(stream) = stream[1]
      /\ \A i \in 1..Len(stream') : Says(stream'[i], server')
  BY <1>0, <1>6, <1>7, SaysTail
<1>9. SUFFICES ASSUME SeenExport' \/ (pc' \in {"zeroes", "limits", "map", "mapped"} /\ ~WnbdProps'.SkipNegotiation)
               PROVE  Size' = server'.Size /\ Flags' = server'.Flags
  BY <1>8 DEF Exported
<1>10. CASE Skips
  <2>1. UNCHANGED <<Size, Flags, SeenExport, WnbdProps>>
    BY <1>10, SkipsTo
  <2>2. CASE SeenExport
    BY <1>0, <1>7, <2>1, <2>2 DEF Exported
  <2>3. CASE ~SeenExport
    <3>1. pc = "zeroes" /\ ~WnbdProps.SkipNegotiation
      BY <1>9, <1>10, <2>1, <2>3, SkipsTo
    <3> QED
      BY <1>0, <1>7, <2>1, <3>1 DEF Exported
  <2> QED
    BY <2>2, <2>3
<1>11. CASE NegotiateFlags \/ NbdParseInfoBlockSize
  <2>1. UNCHANGED <<Size, Flags, SeenExport>> /\ pc' \in {"option_go", "failed", "reply"}
    BY <1>11 DEF NegotiateFlags, NbdParseInfoBlockSize, Goes
  <2> QED
    BY <1>0, <1>7, <1>9, <2>1 DEF Exported
<1>12. CASE NbdParseOptGoReply \/ NbdParseSizes
  <2>1. Head(stream).kind \in {"INFO_EXPORT", "sizes"}
        /\ Size' = Head(stream).Size /\ Flags' = Head(stream).Flags
    BY <1>12 DEF NbdParseOptGoReply, NbdParseSizes, Receive
  <2> QED
    BY <1>7, <1>8, <2>1 DEF Says
<1> QED
  BY <1>6, <1>10, <1>11, <1>12

-----------------------------------------------------------------------------
(* The limits of the server *)

\* Reading anything else leaves the limits on their way.
LEMMA LimitsKept ==
  ASSUME Wired, LimitsArrive, NEW kind, Receive(kind), kind # "INFO_BLOCK_SIZE", UNCHANGED BlockSizeInfo
  PROVE  LimitsArrive'
<1>1. /\ Len(stream) \in Nat /\ Len(stream) >= 1 /\ stream[1].kind = kind
      /\ Len(stream') = Len(stream) - 1
      /\ \A i \in 1..Len(stream') : stream'[i] = stream[i + 1]
      /\ UNCHANGED <<honest, server, told>>
  BY Reads
<1>2. ASSUME NEW i \in 1..Len(stream), stream[i].kind = "INFO_BLOCK_SIZE"
      PROVE  \E j \in 1..Len(stream') : stream'[j].kind = "INFO_BLOCK_SIZE"
  <2>1. i # 1
    BY <1>1, <1>2
  <2>2. i - 1 \in 1..Len(stream') /\ stream'[i - 1] = stream[i]
    BY <1>1, <2>1
  <2> QED
    BY <1>2, <2>2
<1> QED
  BY <1>1, <1>2 DEF LimitsArrive

\* Every step keeps the limits that are known or on their way.
LEMMA LimitsStep ==
  ASSUME IInv, [Next]_vars
  PROVE  LimitsArrive'
<1>0. TypeOK /\ Wired /\ PropsFit /\ Exported /\ LimitsArrive
  BY DEF IInv
<1>1. CASE UNCHANGED <<stream, honest, server, told, BlockSizeInfo>>
  BY <1>0, <1>1 DEF LimitsArrive
<1>2. CASE \/ Start \/ StartRefused \/ CheckLimits \/ Map \/ TransferFails \/ ConnectionCloses
           \/ UNCHANGED vars \/ NbdSendInfoRequest \/ SendOptExportName
  <2>1. CASE Start \/ StartRefused \/ CheckLimits \/ Map
    BY <1>0, <1>1, <2>1, Starts, Checks, Maps
  <2>2. CASE TransferFails \/ ConnectionCloses \/ UNCHANGED vars \/ NbdSendInfoRequest \/ SendOptExportName
    BY <1>1, <2>2 DEF TransferFails, ConnectionCloses, NbdSendInfoRequest, SendOptExportName,
         ServerUnchanged, Wire, vars, clientVars, serverVars
  <2> QED
    BY <1>2, <2>1, <2>2
<1>3. CASE Skips
  <2>1. PICK kind : Receive(kind)
    BY <1>3, SkipsTo
  <2>2. kind # "INFO_BLOCK_SIZE"
    BY <1>3, <2>1 DEF Skips, NbdValidateInitialMagic, NbdValidateOptionMagic, ErrorReply, MalformedReply,
         IgnoredReply, AckReply, ReservedBytes, Receive, Refusals
  <2> QED
    BY <1>0, <1>3, <2>1, <2>2, SkipsTo, LimitsKept
<1>4. CASE NegotiateFlags \/ NbdParseOptGoReply \/ NbdParseSizes
  <2>1. PICK kind : Receive(kind) /\ kind # "INFO_BLOCK_SIZE" /\ UNCHANGED BlockSizeInfo
    BY <1>4 DEF NegotiateFlags, NbdParseOptGoReply, NbdParseSizes
  <2> QED
    BY <1>0, <2>1, LimitsKept
<1>5. CASE NbdParseInfoBlockSize
  <2>1. SUFFICES ASSUME honest', "BLOCK_SIZE" \in told'
                 PROVE  server'.limits.Received /\ BlockSizeInfo' = server'.limits
    BY DEF LimitsArrive
  <2>2. Receive("INFO_BLOCK_SIZE") /\ BlockSizeInfo' = [Head(stream).limits EXCEPT !.Received = TRUE]
    BY <1>5 DEF NbdParseInfoBlockSize
  <2>3. UNCHANGED <<honest, server, told>>
    BY <1>0, <2>2, Reads
  <2>4. Head(stream).limits = server.limits
    <3>1. Says(stream[1], server) /\ stream[1].kind = "INFO_BLOCK_SIZE" /\ Head(stream) = stream[1]
      BY <1>0, <2>1, <2>2, <2>3, SaysTail
    <3> QED
      BY <3>1 DEF Says
  <2>5. server.limits.Received /\ server.limits \in Constraints
    BY <1>0, <2>1, <2>3, NegotiateAssumption DEF LimitsArrive, TypeOK
  <2>6. PICK c \in Constraints : c = server.limits /\ c.Received
    BY <2>5
  <2>7. [c EXCEPT !.Received = TRUE] = c
    BY <2>6 DEF Constraints
  <2> QED
    BY <2>2, <2>3, <2>4, <2>6, <2>7
<1>6. CASE ServerMisbehaves
  BY <1>0, <1>6, Misbehaves DEF LimitsArrive
<1>7. CASE ServerSteps
  <2>0. /\ UNCHANGED <<honest, server, BlockSizeInfo>> /\ stream \in Seq(Messages) /\ server \in Servers
    BY <1>0, <1>7, Serves DEF Wired, TypeOK
  <2>1. \A i \in 1..Len(stream) : i \in 1..Len(stream') /\ stream'[i] = stream[i]
    <3>1. CASE stream' = stream
      BY <3>1
    <3>2. CASE \E m \in Messages : stream' = stream \o <<m>>
      <4>1. PICK m \in Messages : stream' = stream \o <<m>>
        BY <3>2
      <4>2. Len(stream) \in Nat /\ Len(stream') = Len(stream) + 1 /\ \A i \in 1..Len(stream) : stream'[i] = stream[i]
        BY <2>0, <4>1, OneMore
      <4> QED
        BY <4>2
    <3>3. CASE ServerGreets
      <4>1. PICK m \in Messages, n \in Messages, o \in Messages : stream' = stream \o <<m, n, o>>
        BY <2>0, <3>3, Sent DEF ServerGreets, Sends
      <4>2. Len(stream) \in Nat /\ Len(stream') = Len(stream) + 3 /\ \A i \in 1..Len(stream) : stream'[i] = stream[i]
        BY <2>0, <4>1, ThreeMore
      <4> QED
        BY <4>2
    <3>4. CASE ServerAnswersExportName
      <4>1. PICK m \in Messages, n \in Messages : m = Sizes(server.Size, server.Flags) /\ n = Plain("zeroes")
        BY <2>0, Sent
      <4>2. \/ stream' = stream
            \/ stream' = stream \o (<<m>> \o <<>>)
            \/ stream' = stream \o (<<m>> \o <<n>>)
        BY <3>4, <4>1 DEF ServerAnswersExportName, Sends
      <4>3. CASE stream' = stream \o (<<m>> \o <<>>)
        <5>1. Len(stream) \in Nat /\ Len(stream') = Len(stream) + 1 /\ \A i \in 1..Len(stream) : stream'[i] = stream[i]
          BY <2>0, <4>1, <4>3, Joined
        <5> QED
          BY <5>1
      <4>4. CASE stream' = stream \o (<<m>> \o <<n>>)
        <5>1. Len(stream) \in Nat /\ Len(stream') = Len(stream) + 2 /\ \A i \in 1..Len(stream) : stream'[i] = stream[i]
          BY <2>0, <4>1, <4>4, Joined
        <5> QED
          BY <5>1
      <4> QED
        BY <3>1, <4>2, <4>3, <4>4
    <3>5. CASE ServerReadsFlags
      BY <3>1, <3>5 DEF ServerReadsFlags
    <3>6. CASE ServerAnswersGo \/ ServerInforms \/ ServerAcknowledges
      <4>1. stream' = stream \/ \E m \in Messages : stream' = stream \o <<m>>
        BY <2>0, <3>6, Sent DEF ServerAnswersGo, ServerInforms, ServerAcknowledges, Sends
      <4> QED
        BY <3>1, <3>2, <4>1
    <3> QED
      BY <1>7, <3>3, <3>4, <3>5, <3>6 DEF ServerSteps
  <2>2. CASE "BLOCK_SIZE" \in told' => "BLOCK_SIZE" \in told
    BY <1>0, <2>0, <2>1, <2>2 DEF LimitsArrive
  <2>3. CASE server.limits.Received /\ stream' = stream \o <<InfoBlockSize(server.limits)>>
    <3>1. PICK m \in Messages : m = InfoBlockSize(server.limits) /\ m.kind = "INFO_BLOCK_SIZE"
      BY <2>0, Sent
    <3>2. Len(stream) \in Nat /\ Len(stream') = Len(stream) + 1 /\ stream'[Len(stream) + 1] = m
      BY <2>0, <2>3, <3>1, OneMore
    <3>3. Len(stream) + 1 \in 1..Len(stream') /\ stream'[Len(stream) + 1].kind = "INFO_BLOCK_SIZE"
      BY <3>1, <3>2
    <3> QED
      BY <2>0, <2>3, <3>3 DEF LimitsArrive
  <2> QED
    BY <1>7, <2>2, <2>3 DEF ServerSteps, ServerGreets, ServerReadsFlags, ServerAnswersGo, ServerInforms,
         ServerAcknowledges, ServerAnswersExportName, Sends
<1> QED
  BY <1>2, <1>3, <1>4, <1>5, <1>6, <1>7, Cases

-----------------------------------------------------------------------------
(* The theorems *)

\* The invariant holds when TryStart begins.
LEMMA InitHolds ==
  ASSUME Init
  PROVE  IInv
<1>1. /\ pc = "start" /\ WnbdProps \in Asked /\ stream = <<>> /\ requests = <<>> /\ serverPc = "greet"
      /\ SeenExport = FALSE /\ told = {} /\ server \in Servers /\ honest \in BOOLEAN
  BY NegotiateAssumption DEF Init
<1>2. WnbdProps \in PropTypes /\ WnbdProps.Features \subseteq {"READ_ONLY"}
  BY <1>1, NegotiateAssumption DEF PropTypes, Features
<1>3. TypeOK
  <2>1. NoConstraints \in Constraints
    BY DEF NoConstraints, Constraints
  <2>2. /\ GFlags = {} /\ ClientFlags = {} /\ Size = 0 /\ Flags = {} /\ BlockSizeInfo = NoConstraints
        /\ closed = FALSE /\ serverFlags = {} /\ misbehaved = 0
    BY DEF Init
  <2>3. Size \in 0..UllongMax /\ misbehaved \in 0..MaxReplies /\ Len(requests) <= 3
    BY <1>1, <2>2, NegotiateAssumption
  <2> QED
    BY <1>1, <1>2, <2>1, <2>2, <2>3 DEF TypeOK, PropTypes, Receiving, Sending, Over
<1>4. Wired
  BY <1>1 DEF Wired
<1>5. PropsFit
  BY <1>1, <1>2 DEF PropsFit
<1>6. Dialogue
  BY <1>1 DEF Dialogue, At, GreetingDue
<1>7. Exported /\ LimitsArrive
  BY <1>1 DEF Exported, LimitsArrive
<1> QED
  BY <1>3, <1>4, <1>5, <1>6, <1>7 DEF IInv

\* The inductive invariant holds throughout the negotiation.
THEOREM Invariant == Spec => []IInv
<1>1. Init => IInv
  BY InitHolds
<1>2. IInv /\ [Next]_vars => IInv'
  BY TypedStep, PropsStep, DialogueStep, ExportedStep, LimitsStep DEF IInv
<1> QED
  BY <1>1, <1>2, PTL DEF Spec

\* The variables keep their types: what the client keeps of a message is what its
\* kind carries, and no more than three requests are ever on their way.
THEOREM TypeCorrect == Spec => []TypeOK
<1>1. IInv => TypeOK
  BY DEF IInv
<1> QED
  BY <1>1, Invariant, PTL

\* Client and server never disagree on where the transmission phase begins
\* (NbdNegotiate and its fallback NbdSendOptExportName).
THEOREM StaysInSync == Spec => []InSync
<1>1. IInv => InSync
  <2>1. SUFFICES ASSUME IInv, Negotiated, honest
                 PROVE  stream = <<>> /\ requests = <<>> /\ serverPc = "transmission"
    BY DEF InSync
  <2>2. serverPc = "transmission" /\ Len(stream) = 0 /\ Len(requests) = 0
    BY <2>1 DEF IInv, Dialogue, At, Negotiated
  <2>3. stream \in Seq(Messages) /\ requests \in Seq(Asks)
    BY <2>1 DEF IInv, Wired
  <2> QED
    BY <2>2, <2>3, NoItems
<1> QED
  BY <1>1, Invariant, PTL

\* What is mapped is what an honest server exports, within the limits it stated
\* (TryStart).
THEOREM MapsFaithfully == Spec => []MappedFaithfully
<1>1. IInv => MappedFaithfully
  <2>1. SUFFICES ASSUME IInv, Negotiated, honest, pc = "mapped"
                 PROVE  MappedAsExported /\ LimitsHonoured
    BY DEF MappedFaithfully, MappedAsExported, LimitsHonoured
  <2>2. ~WnbdProps.SkipNegotiation /\ Size = server.Size /\ Flags = server.Flags
    BY <2>1 DEF IInv, Exported, Negotiated
  <2>3. MappedAsExported
    BY <2>1, <2>2 DEF IInv, PropsFit, MappedAsExported, CHECK_NBD_FLAG
  <2>4. ASSUME "BLOCK_SIZE" \in told
        PROVE  /\ server.limits.Minimum # 0 => 512 % server.limits.Minimum = 0
               /\ server.limits.Maximum # 0 => 2 * 1024 * 1024 <= server.limits.Maximum
    <3>1. Len(stream) = 0
      BY <2>1, <2>2 DEF IInv, Dialogue, At
    <3>2. server.limits.Received /\ BlockSizeInfo = server.limits
      BY <2>1, <2>4, <3>1 DEF IInv, LimitsArrive
    <3>3. Compatible(server.limits, 512)
      BY <2>1, <2>2, <3>2 DEF IInv, PropsFit
    <3> QED
      BY <3>2, <3>3 DEF Compatible, WNBD_DEFAULT_MAX_TRANSFER_LENGTH
  <2> QED
    BY <2>3, <2>4 DEF LimitsHonoured
<1> QED
  BY <1>1, Invariant, PTL
=============================================================================
