------------------------- MODULE WnbdRemovalProofs -------------------------
(***************************************************************************)
(* TLAPS proofs about WnbdRemoval, for any number of disks, names, calls   *)
(* of WnbdRemoveEx and resets.  IInv is the inductive invariant.  Both     *)
(* properties rest on the order of the device list: disks are appended and *)
(* unlinked, so that the first disk of a name stays the first of its name  *)
(* until it is gone, and a list of names that was read once goes on naming *)
(* the disks in the order in which they are found.                         *)
(***************************************************************************)
EXTENDS WnbdRemoval, FiniteSetTheorems, WellFoundedInduction, TLAPS

\* A disk is on the list from its insertion until it is unlinked.
OnList == {"live", "signalled", "leaving"}

Names == {NameOf[d] : d \in Disks}
RmNames == Names \cup {""}
RmOptions == Options \cup {[HardRemove |-> FALSE]}
RmErrors == {"OPEN_FAILED", "FILE_NOT_FOUND", "TIMEOUT", "REMOVE_FAILED", "NO_SUCH_DEVICE"}

RmCalls ==
  [pc : {"idle", "show", "locate", "attempt", "sleep", "pnp_wait", "ioctl", "ioctl_wait", "done"},
   name : RmNames, options : RmOptions, Handle : BOOLEAN, found : Disks \cup {NoDisk},
   target : Disks \cup {NoDisk}, elapsed : Nat, removing : Disks \cup {NoDisk},
   softFailed : BOOLEAN, status : RmErrors \cup {"none", "SUCCESS"}]

AllCalls ==
  [pc : {"idle", "list", "relist", "walk", "remove", "remove_wait", "adapter", "stop_wait", "done"},
   capacity : Int, head : Disks \cup {NoDisk}, list : Seq(Names), removing : Disks \cup {NoDisk},
   pending : {"none", "some"},
   status : {"none", "MORE_DATA", "FILE_NOT_FOUND", "SUCCESS", "UNDEFINED"}]

DiskTypes ==
  /\ creation \in [Disks -> {"none", "checked", "refused", "listed", "mapped"}]
  /\ life \in [Disks -> OnList \cup {"none", "unlinked", "gone"}]
  /\ DeviceList \in Seq(Disks)
  /\ NewMappingsAllowed \in BOOLEAN

\* The identifiers the disks were given.
Started == PNPDeviceID \in [Disks -> Disks \cup {NoDisk}]

Types == DiskTypes /\ Started /\ rm \in [Removers -> RmCalls] /\ all \in AllCalls

\* The list holds, once each, the disks that were inserted and not unlinked.
\* DeviceCount is a difference of finite cardinalities.
Listing ==
  /\ \A i, j \in DOMAIN DeviceList : DeviceList[i] = DeviceList[j] => i = j
  /\ \A d \in Disks :
       /\ d \in Listed <=> life[d] \in OnList
       /\ life[d] = "none" <=> creation[d] \in {"none", "checked", "refused"}
  /\ IsFiniteSet({d \in Disks : creation[d] # "none"})

\* x comes before y in the sequence q.
Before(q, x, y) == \E i, j \in DOMAIN q : i < j /\ q[i] = x /\ q[j] = y

\* d is the first disk of its name in the list q, if it is there.
FirstOfName(q, d) == \A x \in Disks : Before(q, x, d) => NameOf[x] # NameOf[d]

\* What a call c of WnbdRemoveEx knows and has done, for lives v and a list q.  The
\* disk it found by name is the first of its name for good.
CallFits(c, v, q) ==
  /\ c.pc # "idle" => c.options \in Options
  /\ c.pc \in {"idle", "show"} => c.found = NoDisk
  /\ c.found # NoDisk =>
       /\ v[c.found] # "none" /\ FirstOfName(q, c.found)
       /\ c.pc # "done" => c.name = NameOf[c.found]
  /\ c.pc \notin {"ioctl_wait", "done"} => c.removing = NoDisk
  /\ c.pc = "ioctl_wait" => c.removing # NoDisk
  /\ c.pc = "pnp_wait" => c.target # NoDisk
  /\ c.softFailed => c.pc \in {"ioctl", "ioctl_wait", "done"}
  /\ c.softFailed /\ ~c.options.HardRemoveFallback =>
       c.pc = "done" /\ c.removing = NoDisk /\ c.status # "SUCCESS"
  /\ c.pc = "done" /\ c.status = "SUCCESS" /\ c.found # NoDisk =>
       \/ v[c.found] \in {"leaving", "unlinked", "gone"}
       \/ c.removing \notin {c.found, NoDisk}

CallOK(r) == CallFits(rm[r], life, DeviceList)

\* No creation is under way and none can begin while the disks are removed.
Closed ==
  /\ all.pc \notin {"idle", "stop_wait", "done"}
  /\ all.pending = "none" /\ ~NewMappingsAllowed

\* L is the disks whose names are still to be removed.  The disks on the list are
\* among them, in the same order, except the one that is being waited for.
Walk(L) ==
  /\ \A i, j \in DOMAIN L : L[i] = L[j] => i = j
  /\ all.list = [i \in DOMAIN L |-> NameOf[L[i]]]
  /\ \A d \in Listed : d = all.removing \/ \E i \in DOMAIN L : d = L[i]
  /\ \A x, y \in Disks \ {all.removing} : Before(DeviceList, x, y) => Before(L, x, y)

AllOK ==
  /\ all.pc = "idle" => NewMappingsAllowed
  /\ all.pc = "remove_wait" => all.removing # NoDisk
  /\ all.pc # "remove_wait" => all.removing = NoDisk
  /\ Closed =>
       /\ UnderWay = {}
       /\ all.pc = "relist" => DeviceCount + 1 <= all.capacity
       /\ all.pc = "walk" /\ all.head = NoDisk => Listed = {}
       /\ all.pc \in {"remove", "remove_wait"} /\ all.status # "UNDEFINED" =>
            \E L \in Seq(Disks) : Walk(L)
       /\ all.pc = "adapter" /\ all.status = "SUCCESS" => Listed = {}

IInv == Types /\ Listing /\ (\A r \in Removers : CallOK(r)) /\ AllOK
-----------------------------------------------------------------------------
(* The device list *)

\* A set of numbers that is not empty has a least one.
LEMMA LeastNumber ==
  ASSUME NEW N \in SUBSET Nat, N # {}
  PROVE  \E i \in N : \A j \in N : i <= j
<1>1. PICK i \in N : \A j \in N : ~(<<j, i>> \in OpToRel(<, Nat))
  BY NatLessThanWellFounded, WFMin, Zenon
<1>2. \A j \in N : ~(j < i)
  BY <1>1 DEF OpToRel
<1> QED
  BY <1>2

\* A lookup finds the first disk of the name, unless that one is leaving: then no
\* disk that is the first of the name could be found.
LEMMA FindsFirst ==
  ASSUME DiskTypes, Listing, NoDisk \notin Disks, NEW n,
         NEW d, d = WnbdFindDeviceByInstanceName(n)
  PROVE  /\ d # NoDisk => /\ d \in Disks /\ NameOf[d] = n /\ FirstOfName(DeviceList, d)
                          /\ life[d] \in {"live", "signalled"}
         /\ d = NoDisk => \A e \in Disks : life[e] \in {"live", "signalled"} /\ FirstOfName(DeviceList, e)
                                             => NameOf[e] # n
<1> DEFINE hits == {i \in DOMAIN DeviceList : NameOf[DeviceList[i]] = n}
<1>1. CASE hits = {}
  <2>1. d = NoDisk
    BY <1>1 DEF WnbdFindDeviceByInstanceName
  <2>2. \A e \in Disks : life[e] \in {"live", "signalled"} => \E i \in DOMAIN DeviceList : DeviceList[i] = e
    BY DEF Listing, Listed, OnList
  <2> QED
    BY <1>1, <2>1, <2>2
<1>2. CASE hits # {}
  <2>1. hits \in SUBSET Nat
    BY DEF DiskTypes
  <2>2. \E i \in hits : \A j \in hits : i <= j
    BY <1>2, <2>1, LeastNumber
  <2>3. PICK k : k = CHOOSE i \in hits : \A j \in hits : i <= j
    OBVIOUS
  <2>4. k \in hits /\ \A j \in hits : k <= j
    BY <2>2, <2>3
  <2>5. d = IF life[DeviceList[k]] \in {"live", "signalled"} THEN DeviceList[k] ELSE NoDisk
    BY <1>2, <2>3 DEF WnbdFindDeviceByInstanceName
  <2>6. /\ k \in DOMAIN DeviceList /\ DeviceList[k] \in Disks /\ NameOf[DeviceList[k]] = n
        /\ DOMAIN DeviceList \subseteq Nat
    BY <2>4 DEF DiskTypes
  <2>7. FirstOfName(DeviceList, DeviceList[k])
    <3> SUFFICES ASSUME NEW i \in DOMAIN DeviceList, NEW j \in DOMAIN DeviceList, i < j,
                        DeviceList[j] = DeviceList[k]
                 PROVE  NameOf[DeviceList[i]] # NameOf[DeviceList[k]]
      BY DEF FirstOfName, Before
    <3>1. j = k
      BY <2>6 DEF Listing
    <3> QED
      BY <2>4, <2>6, <3>1
  <2>8. ASSUME NEW e \in Disks, life[e] \in {"live", "signalled"}, FirstOfName(DeviceList, e), NameOf[e] = n
        PROVE  e = DeviceList[k]
    <3>1. PICK j \in DOMAIN DeviceList : DeviceList[j] = e
      BY <2>8 DEF Listing, Listed, OnList
    <3>2. k <= j
      BY <2>4, <2>8, <3>1
    <3>3. ~(k < j)
      BY <2>6, <2>8, <3>1 DEF FirstOfName, Before
    <3> QED
      BY <2>6, <3>1, <3>2, <3>3
  <2> QED
    BY <2>5, <2>6, <2>7, <2>8
<1> QED
  BY <1>1, <1>2

\* Unlinking an entry takes its disk out and keeps the others, once each and in
\* their order.
LEMMA WithoutEntryRange ==
  ASSUME DeviceList \in Seq(Disks), NEW k \in DOMAIN DeviceList,
         \A i, j \in DOMAIN DeviceList : DeviceList[i] = DeviceList[j] => i = j
  PROVE  /\ WithoutEntry(k) \in Seq(Disks)
         /\ \A i, j \in DOMAIN WithoutEntry(k) : WithoutEntry(k)[i] = WithoutEntry(k)[j] => i = j
         /\ \A x : (\E i \in DOMAIN WithoutEntry(k) : WithoutEntry(k)[i] = x) <=>
                     x \in Listed /\ x # DeviceList[k]
         /\ \A x, y : Before(WithoutEntry(k), x, y) => Before(DeviceList, x, y)
<1> DEFINE r == WithoutEntry(k)
           n == Len(DeviceList)
<1>1. n \in Nat /\ k \in 1..n /\ DOMAIN DeviceList = 1..n /\ n - 1 \in Nat
  OBVIOUS
<1>2. DOMAIN r = 1..(n - 1) /\ \A j \in 1..(n - 1) : r[j] = DeviceList[IF j < k THEN j ELSE j + 1]
  BY DEF WithoutEntry
<1>3. \A j \in 1..(n - 1) : (IF j < k THEN j ELSE j + 1) \in 1..n \ {k}
  BY <1>1
<1>4. r \in Seq(Disks)
  <2>1. r = [j \in 1..(n - 1) |-> DeviceList[IF j < k THEN j ELSE j + 1]]
    BY DEF WithoutEntry
  <2>2. \A j \in 1..(n - 1) : DeviceList[IF j < k THEN j ELSE j + 1] \in Disks
    BY <1>1, <1>3
  <2> QED
    BY <1>1, <2>1, <2>2
<1> HIDE DEF r, n
<1>5. \A i, j \in DOMAIN r : r[i] = r[j] => i = j
  <2> SUFFICES ASSUME NEW i \in 1..(n - 1), NEW j \in 1..(n - 1), r[i] = r[j] PROVE i = j
    BY <1>2
  <2>1. (IF i < k THEN i ELSE i + 1) = (IF j < k THEN j ELSE j + 1)
    BY <1>1, <1>2, <1>3
  <2> QED
    BY <1>1, <2>1
<1>6. ASSUME NEW x PROVE (\E i \in DOMAIN r : r[i] = x) <=> x \in Listed /\ x # DeviceList[k]
  <2>1. ASSUME NEW i \in DOMAIN r, x = r[i] PROVE x \in Listed /\ x # DeviceList[k]
    <3>1. PICK p \in 1..n \ {k} : r[i] = DeviceList[p]
      BY <1>2, <1>3
    <3> QED
      BY <1>1, <2>1, <3>1 DEF Listed
  <2>2. ASSUME x \in Listed, x # DeviceList[k] PROVE \E i \in DOMAIN r : r[i] = x
    <3>1. PICK p \in 1..n : x = DeviceList[p] /\ p # k
      BY <1>1, <2>2 DEF Listed
    <3>2. CASE p < k
      BY <1>1, <1>2, <3>1, <3>2
    <3>3. CASE p > k
      <4>1. p - 1 \in 1..(n - 1) /\ ~(p - 1 < k) /\ (p - 1) + 1 = p
        BY <1>1, <3>3
      <4> QED
        BY <1>2, <3>1, <4>1
    <3> QED
      BY <1>1, <3>1, <3>2, <3>3
  <2> QED
    BY <2>1, <2>2
<1>7. ASSUME NEW x, NEW y, Before(r, x, y) PROVE Before(DeviceList, x, y)
  <2>1. PICK i, j \in DOMAIN r : i < j /\ r[i] = x /\ r[j] = y
    BY <1>7 DEF Before
  <2>2. i \in 1..(n - 1) /\ j \in 1..(n - 1)
    BY <1>2, <2>1
  <2>3. PICK p : p = IF i < k THEN i ELSE i + 1
    OBVIOUS
  <2>4. PICK q : q = IF j < k THEN j ELSE j + 1
    OBVIOUS
  <2>5. p \in 1..n /\ q \in 1..n /\ p < q
    BY <1>1, <2>1, <2>2, <2>3, <2>4
  <2>6. DeviceList[p] = x /\ DeviceList[q] = y
    BY <1>2, <2>1, <2>2, <2>3, <2>4
  <2> QED
    BY <1>1, <2>5, <2>6 DEF Before
<1> QED
  BY <1>4, <1>5, <1>6, <1>7 DEF r, n

\* Appending a disk that is not listed keeps the list without duplicates, and the
\* new disk comes after the others.
LEMMA AppendRange ==
  ASSUME DeviceList \in Seq(Disks), NEW d \in Disks \ Listed,
         \A i, j \in DOMAIN DeviceList : DeviceList[i] = DeviceList[j] => i = j
  PROVE  LET q == Append(DeviceList, d) IN
         /\ q \in Seq(Disks)
         /\ \A i, j \in DOMAIN q : q[i] = q[j] => i = j
         /\ \A x : (\E i \in DOMAIN q : q[i] = x) <=> x \in Listed \/ x = d
         /\ \A x, y : Before(q, x, y) /\ y # d => Before(DeviceList, x, y)
<1> DEFINE q == Append(DeviceList, d)
           n == Len(DeviceList)
<1>1. n \in Nat /\ DOMAIN DeviceList = 1..n /\ q \in Seq(Disks) /\ DOMAIN q = 1..(n + 1)
  OBVIOUS
<1>2. q[n + 1] = d /\ \A i \in 1..n : q[i] = DeviceList[i]
  OBVIOUS
<1>3. \A i \in 1..n : DeviceList[i] \in Listed
  BY <1>1 DEF Listed
<1> HIDE DEF q, n
<1>4. \A i, j \in DOMAIN q : q[i] = q[j] => i = j
  <2> SUFFICES ASSUME NEW i \in 1..(n + 1), NEW j \in 1..(n + 1), q[i] = q[j] PROVE i = j
    BY <1>1
  <2>1. (i \in 1..n \/ i = n + 1) /\ (j \in 1..n \/ j = n + 1)
    BY <1>1
  <2> QED
    BY <1>1, <1>2, <1>3, <2>1
<1>5. ASSUME NEW x PROVE (\E i \in DOMAIN q : q[i] = x) <=> x \in Listed \/ x = d
  <2>1. n + 1 \in DOMAIN q /\ \A i \in 1..n : i \in DOMAIN q
    BY <1>1
  <2>2. \A i \in DOMAIN q : i \in 1..n \/ i = n + 1
    BY <1>1
  <2>3. x \in Listed <=> \E i \in 1..n : DeviceList[i] = x
    BY <1>1 DEF Listed
  <2> QED
    BY <1>2, <2>1, <2>2, <2>3
<1>6. ASSUME NEW x, NEW y, Before(q, x, y), y # d PROVE Before(DeviceList, x, y)
  <2>1. PICK i, j \in DOMAIN q : i < j /\ q[i] = x /\ q[j] = y
    BY <1>6 DEF Before
  <2>2. j # n + 1
    BY <1>2, <1>6, <2>1
  <2>3. i \in 1..n /\ j \in 1..n
    BY <1>1, <2>1, <2>2
  <2> QED
    BY <1>1, <1>2, <2>1, <2>3 DEF Before
<1> QED
  BY <1>1, <1>4, <1>5, <1>6 DEF q, n
-----------------------------------------------------------------------------
(* What a step does to the disks *)

\* Every step that changes the disks is one of these.
DiskStep ==
  \/ \E d \in Disks : CreateCheck(d) \/ CreateInsert(d) \/ CreateCount(d) \/ Monitor(d)
  \/ \E d \in Disks : /\ life[d] \in {"live", "signalled"} /\ Signal(d)
                      /\ UNCHANGED <<creation, DeviceList>>
  \/ StopBegin
  \/ UNCHANGED <<creation, life, DeviceList>>

\* What the calls rely on: a disk that was created stays so, one that leaves goes
\* on leaving, and no disk gets ahead of one that was created before.
DisksKept ==
  \A d \in Disks :
    /\ life[d] # "none" =>
         /\ life'[d] # "none"
         /\ \A x \in Disks : Before(DeviceList', x, d) => Before(DeviceList, x, d)
    /\ life[d] \in {"leaving", "unlinked", "gone"} => life'[d] \in {"leaving", "unlinked", "gone"}
    /\ life[d] = "gone" => life'[d] = "gone"

\* What the uninstaller relies on: without a creation under way disks only leave.
DisksLeave ==
  /\ \A d \in Disks : creation'[d] = "mapped" <=> creation[d] = "mapped"
  /\ Listed' \subseteq Listed
  /\ \A x, y \in Disks : Before(DeviceList', x, y) => Before(DeviceList, x, y)

LEMMA DiskStepKeeps ==
  ASSUME DiskTypes, Listing, DiskStep, NewMappingsAllowed' \in BOOLEAN
  PROVE  /\ DiskTypes' /\ Listing' /\ DisksKept
         /\ UnderWay = {} => DisksLeave
         /\ UnderWay = {} /\ ~NewMappingsAllowed => UnderWay' = {}
<1> DEFINE made == {d \in Disks : creation[d] # "none"}
<1>0. /\ \A d \in Disks : d \in Listed <=> \E i \in DOMAIN DeviceList : DeviceList[i] = d
      /\ Listed \subseteq Disks /\ IsFiniteSet(made)
  BY DEF Listing, Listed, DiskTypes
<1>1. ASSUME NEW d \in Disks, CreateCheck(d) PROVE
        /\ creation' = [creation EXCEPT ![d] = creation'[d]] /\ creation[d] = "none"
        /\ creation'[d] \in {"checked", "refused"}
        /\ ~NewMappingsAllowed => creation'[d] = "refused"
        /\ UNCHANGED <<life, DeviceList>>
  BY <1>1 DEF CreateCheck, DiskTypes
<1>2. ASSUME NEW d \in Disks, CreateCheck(d)
      PROVE  /\ DiskTypes' /\ Listing' /\ DisksKept
             /\ UnderWay = {} => DisksLeave
             /\ UnderWay = {} /\ ~NewMappingsAllowed => UnderWay' = {}
  <2>1. DiskTypes'
    BY <1>1, <1>2 DEF DiskTypes
  <2>2. {e \in Disks : creation'[e] # "none"} = made \cup {d}
    BY <1>1, <1>2 DEF DiskTypes
  <2>3. IsFiniteSet(made \cup {d})
    BY <1>0, FS_AddElement
  <2>4. Listing'
    <3>1. Listed' = Listed /\ UNCHANGED <<life, DeviceList>>
      BY <1>1, <1>2 DEF Listed
    <3>2. \A e \in Disks : /\ e \in Listed' <=> life'[e] \in OnList
                           /\ life'[e] = "none" <=> creation'[e] \in {"none", "checked", "refused"}
      BY <1>1, <1>2, <3>1 DEF Listing, DiskTypes
    <3>3. IsFiniteSet({e \in Disks : creation'[e] # "none"})
      BY <2>2, <2>3
    <3> QED
      BY ONLY Listing, <3>1, <3>2, <3>3 DEF Listing
  <2>5. DisksKept /\ DisksLeave
    BY <1>1, <1>2 DEF DisksKept, DisksLeave, Listed, DiskTypes
  <2>6. UnderWay = {} /\ ~NewMappingsAllowed => UnderWay' = {}
    BY <1>1, <1>2 DEF UnderWay, DiskTypes
  <2> QED
    BY <2>1, <2>4, <2>5, <2>6
<1>3. ASSUME NEW d \in Disks, CreateInsert(d)
      PROVE  DiskTypes' /\ Listing' /\ DisksKept /\ UnderWay # {}
  <2> USE <1>3 DEF CreateInsert
  <2>1. life[d] = "none" /\ d \notin Listed /\ d \in UnderWay
    BY DEF Listing, OnList, UnderWay
  <2>2. /\ DeviceList' \in Seq(Disks)
        /\ \A i, j \in DOMAIN DeviceList' : DeviceList'[i] = DeviceList'[j] => i = j
        /\ \A x : (\E i \in DOMAIN DeviceList' : DeviceList'[i] = x) <=> x \in Listed \/ x = d
        /\ \A x, y : Before(DeviceList', x, y) /\ y # d => Before(DeviceList, x, y)
    BY <2>1, AppendRange DEF DiskTypes, Listing
  <2>3. DiskTypes'
    BY <2>2 DEF DiskTypes, OnList
  <2>4. {e \in Disks : creation'[e] # "none"} = made
    BY DEF DiskTypes
  <2>5. \A x : x \in Listed' <=> x \in Listed \/ x = d
    BY <2>2 DEF Listed
  <2>6. \A e \in Disks : /\ e \in Listed' <=> life'[e] \in OnList
                         /\ life'[e] = "none" <=> creation'[e] \in {"none", "checked", "refused"}
    BY <2>5 DEF Listing, DiskTypes, OnList
  <2>7. Listing'
    BY <1>0, <2>2, <2>4, <2>6 DEF Listing
  <2>8. DisksKept
    BY <2>1, <2>2 DEF DisksKept, DiskTypes
  <2> QED
    BY <2>1, <2>3, <2>7, <2>8
<1>4. ASSUME NEW d \in Disks, CreateCount(d)
      PROVE  DiskTypes' /\ Listing' /\ DisksKept /\ UnderWay # {}
  <2> USE <1>4 DEF CreateCount
  <2>1. {e \in Disks : creation'[e] # "none"} = made
    BY DEF DiskTypes
  <2>2. DiskTypes' /\ d \in UnderWay
    BY DEF DiskTypes, UnderWay
  <2>3. Listing'
    <3>1. Listed' = Listed /\ UNCHANGED <<life, DeviceList>>
      BY CreateCount(d) DEF Listed
    <3>2. \A e \in Disks : /\ e \in Listed' <=> life'[e] \in OnList
                           /\ life'[e] = "none" <=> creation'[e] \in {"none", "checked", "refused"}
      BY <3>1 DEF Listing, DiskTypes
    <3>3. IsFiniteSet({e \in Disks : creation'[e] # "none"})
      BY <1>0, <2>1
    <3> QED
      BY ONLY Listing, <3>1, <3>2, <3>3 DEF Listing
  <2>4. DisksKept
    BY DEF DisksKept
  <2> QED
    BY <2>2, <2>3, <2>4
<1>5. ASSUME UNCHANGED creation, DiskTypes', Listing', DisksKept,
             Listed' \subseteq Listed, \A x, y \in Disks : Before(DeviceList', x, y) => Before(DeviceList, x, y)
      PROVE  /\ DiskTypes' /\ Listing' /\ DisksKept
             /\ UnderWay = {} => DisksLeave
             /\ UnderWay = {} /\ ~NewMappingsAllowed => UnderWay' = {}
  BY <1>5 DEF DisksLeave, UnderWay
<1>6. ASSUME UNCHANGED <<creation, DeviceList>>, life' \in [Disks -> OnList \cup {"none", "unlinked", "gone"}],
             \A e \in Disks : /\ life'[e] \in OnList <=> life[e] \in OnList
                              /\ life'[e] = "none" <=> life[e] = "none"
                              /\ life[e] \in {"leaving", "unlinked", "gone"} =>
                                   life'[e] \in {"leaving", "unlinked", "gone"}
                              /\ life[e] = "gone" => life'[e] = "gone"
      PROVE  /\ DiskTypes' /\ Listing' /\ DisksKept
             /\ UnderWay = {} => DisksLeave
             /\ UnderWay = {} /\ ~NewMappingsAllowed => UnderWay' = {}
  <2>1. DiskTypes'
    BY <1>6 DEF DiskTypes
  <2>2. Listing'
    BY <1>6 DEF Listing, Listed
  <2>3. DisksKept
    BY <1>6 DEF DisksKept
  <2> QED
    BY <1>5, <1>6, <2>1, <2>2, <2>3 DEF Listed
<1>7. ASSUME NEW d \in Disks, Monitor(d)
      PROVE  /\ DiskTypes' /\ Listing' /\ DisksKept
             /\ UnderWay = {} => DisksLeave
             /\ UnderWay = {} /\ ~NewMappingsAllowed => UnderWay' = {}
  <2>1. CASE life[d] # "leaving"
    BY <1>6, <1>7, <2>1 DEF Monitor, DiskTypes, OnList
  <2>2. CASE life[d] = "leaving"
    <3>1. PICK k \in DOMAIN DeviceList : DeviceList[k] = d /\ DeviceList' = WithoutEntry(k)
      BY <1>7, <2>2 DEF Monitor
    <3>2. life' = [life EXCEPT ![d] = "unlinked"] /\ UNCHANGED creation
      BY <1>7, <2>2 DEF Monitor
    <3>3. /\ DeviceList' \in Seq(Disks)
          /\ \A i, j \in DOMAIN DeviceList' : DeviceList'[i] = DeviceList'[j] => i = j
          /\ \A x : (\E i \in DOMAIN DeviceList' : DeviceList'[i] = x) <=> x \in Listed /\ x # d
          /\ \A x, y : Before(DeviceList', x, y) => Before(DeviceList, x, y)
      BY <3>1, WithoutEntryRange DEF DiskTypes, Listing
    <3>4. \A x : x \in Listed' <=> x \in Listed /\ x # d
      BY <3>3 DEF Listed
    <3>5. DiskTypes'
      BY <3>2, <3>3 DEF DiskTypes
    <3>6. \A e \in Disks : /\ e \in Listed' <=> life'[e] \in OnList
                           /\ life'[e] = "none" <=> creation'[e] \in {"none", "checked", "refused"}
      BY <2>2, <3>2, <3>4 DEF Listing, DiskTypes, OnList
    <3>7. Listing'
      BY <1>0, <3>2, <3>3, <3>6 DEF Listing
    <3>8. DisksKept
      BY <2>2, <3>2, <3>3 DEF DisksKept, DiskTypes
    <3> QED
      BY <1>5, <3>2, <3>3, <3>4, <3>5, <3>7, <3>8
  <2> QED
    BY <2>1, <2>2
<1>8. ASSUME NEW d \in Disks, life[d] \in {"live", "signalled"}, Signal(d), UNCHANGED <<creation, DeviceList>>
      PROVE  /\ DiskTypes' /\ Listing' /\ DisksKept
             /\ UnderWay = {} => DisksLeave
             /\ UnderWay = {} /\ ~NewMappingsAllowed => UnderWay' = {}
  BY <1>6, <1>8 DEF Signal, DiskTypes, OnList
<1>9. CASE StopBegin
  <2>1. UNCHANGED <<creation, DeviceList>>
    BY <1>9 DEF StopBegin
  <2>2. PICK known \in SUBSET {d \in Disks : life[d] = "live" /\ PNPDeviceID[d] # NoDisk} :
          life' = [d \in Disks |-> IF d \in known THEN "signalled" ELSE life[d]]
    BY <1>9 DEF StopBegin
  <2> QED
    BY <1>6, <2>1, <2>2 DEF DiskTypes, OnList
<1>10. CASE UNCHANGED <<creation, life, DeviceList>>
  BY <1>6, <1>10 DEF DiskTypes
<1> QED
  BY <1>2, <1>3, <1>4, <1>7, <1>8, <1>9, <1>10 DEF DiskStep

RmNext(r) == RmOpen(r) \/ RmAttempt(r) \/ RmSteps(r)
AllNext == AllDisallow \/ AllUnavailable \/ AllSteps \/ AllUninstalled
ResetNext(x) == ResetBegin(x) \/ ResetAttempt(x) \/ ResetDisabled(x)
DriverNext(d) ==
  \/ CreateCheck(d) \/ CreateInsert(d) \/ CreateCount(d)
  \/ PnpStart(d) \/ Monitor(d) \/ StopWake(d)

LEMMA NextSplits ==
  ASSUME [Next]_vars
  PROVE  \/ \E d \in Disks : DriverNext(d)
         \/ \E r \in Removers : RmNext(r)
         \/ AllNext
         \/ \E x \in Resetters : ResetNext(x)
         \/ UNCHANGED vars
  BY DEF Next, DriverSteps, DriverNext, RmNext, AllNext, ResetNext

LEMMA NextIsDiskStep ==
  ASSUME Types, Listing, [Next]_vars
  PROVE  DiskStep /\ NewMappingsAllowed' \in BOOLEAN
<1>0. NoDisk \notin Disks /\ DiskTypes /\ NewMappingsAllowed \in BOOLEAN
  BY OptionsAssumption DEF Types, DiskTypes
<1>1. CASE UNCHANGED vars
  BY <1>0, <1>1 DEF vars, diskVars, DiskStep
<1>2. ASSUME NEW d \in Disks, DriverNext(d)
      PROVE  DiskStep /\ NewMappingsAllowed' \in BOOLEAN
  <2>1. CASE CreateCheck(d) \/ CreateInsert(d) \/ CreateCount(d) \/ Monitor(d)
    <3>1. DiskStep
      BY <2>1 DEF DiskStep
    <3> QED
      BY <1>0, <2>1, <3>1 DEF CreateCheck, CreateInsert, CreateCount, Monitor
  <2>2. CASE PnpStart(d) \/ StopWake(d)
    BY <1>0, <2>2 DEF PnpStart, StopWake, DiskStep
  <2> QED
    BY <1>2, <2>1, <2>2 DEF DriverNext
<1>4. ASSUME NEW r \in Removers, RmAttemptSucceeds(r)
      PROVE  DiskStep /\ NewMappingsAllowed' \in BOOLEAN
  BY <1>0, <1>4 DEF RmAttemptSucceeds, DiskStep
<1>5. ASSUME NEW r \in Removers, RmIoctl(r)
      PROVE  DiskStep /\ NewMappingsAllowed' \in BOOLEAN
  <2>1. PICK d : d = WnbdFindDeviceByInstanceName(rm[r].name)
    OBVIOUS
  <2>2. d # NoDisk => d \in Disks /\ life[d] \in {"live", "signalled"}
    BY <1>0, <2>1, FindsFirst
  <2> QED
    BY <1>0, <1>5, <2>1, <2>2 DEF RmIoctl, DiskStep
<1>6. ASSUME NEW r \in Removers, RmNext(r), ~RmIoctl(r), ~RmAttemptSucceeds(r)
      PROVE  DiskStep /\ NewMappingsAllowed' \in BOOLEAN
  BY <1>0, <1>6 DEF RmNext, RmAttempt, RmSteps, RmOpen, RmShow, RmLocate, RmPnpDone, RmAttemptVetoed,
     RmAttemptFails, RmSleep, RmIoctlDone, diskVars, DiskStep
<1>7. CASE AllRemove
  <2>1. PICK d : d = IF all.list = <<>> THEN NoDisk ELSE WnbdFindDeviceByInstanceName(Head(all.list))
    OBVIOUS
  <2>2. d # NoDisk => d \in Disks /\ life[d] \in {"live", "signalled"}
    BY <1>0, <2>1, FindsFirst
  <2> QED
    BY <1>0, <1>7, <2>1, <2>2 DEF AllRemove, DiskStep
<1>8. CASE AllUninstall \/ AllUninstalled
  BY <1>0, <1>8 DEF AllUninstall, AllUninstalled, StopReturns, DiskStep, diskVars
<1>9. CASE AllDisallow \/ AllUnavailable \/ AllList \/ AllRelist \/ AllWalk \/ AllRemoveDone
  BY <1>0, <1>9 DEF AllDisallow, AllUnavailable, AllList, AllRelist, AllWalk, AllRemoveDone,
     diskVars, DiskStep
<1>10. ASSUME NEW x \in Resetters, ResetNext(x)
       PROVE  DiskStep /\ NewMappingsAllowed' \in BOOLEAN
  BY <1>0, <1>10 DEF ResetNext, ResetBegin, ResetAttempt, ResetMissing, ResetDisables, ResetDisabled,
     ResetVetoed, ResetFails, ResetEnables, StopReturns, diskVars, DiskStep
<1> QED
  BY <1>1, <1>2, <1>4, <1>5, <1>6, <1>7, <1>8, <1>9, <1>10, NextSplits DEF AllNext, AllSteps

LEMMA StartedStep ==
  ASSUME Types, [Next]_vars
  PROVE  Started'
<1>1. ASSUME UNCHANGED PNPDeviceID PROVE Started'
  BY <1>1 DEF Types, Started
<1>2. ASSUME NEW d \in Disks, DriverNext(d) PROVE Started'
  BY <1>1, <1>2 DEF DriverNext, CreateCheck, CreateInsert, CreateCount, PnpStart, Monitor, StopWake,
     Types, Started
<1>3. ASSUME NEW r \in Removers, RmNext(r) PROVE Started'
  BY <1>1, <1>3 DEF RmNext, RmAttempt, RmSteps, RmOpen, RmShow, RmLocate, RmAttemptSucceeds, RmPnpDone,
     RmAttemptVetoed, RmAttemptFails, RmSleep, RmIoctl, RmIoctlDone, diskVars
<1>4. CASE AllNext
  BY <1>1, <1>4 DEF AllNext, AllDisallow, AllUnavailable, AllSteps, AllList, AllRelist, AllWalk,
     AllRemove, AllRemoveDone, AllUninstall, AllUninstalled, StopBegin, StopReturns, diskVars
<1>5. ASSUME NEW x \in Resetters, ResetNext(x) PROVE Started'
  BY <1>1, <1>5 DEF ResetNext, ResetBegin, ResetAttempt, ResetMissing, ResetDisables, ResetDisabled,
     ResetVetoed, ResetFails, ResetEnables, StopBegin, StopReturns, diskVars
<1>6. CASE UNCHANGED vars
  BY <1>1, <1>6 DEF vars, diskVars
<1> QED
  BY <1>2, <1>3, <1>4, <1>5, <1>6, NextSplits

-----------------------------------------------------------------------------
(* WnbdRemoveEx *)

\* A call that takes no step keeps its promises whatever becomes of the disks.
LEMMA CallKept ==
  ASSUME Types, DisksKept, NEW r \in Removers, CallOK(r), rm'[r] = rm[r]
  PROVE  CallOK(r)'
<1>1. PICK c \in RmCalls : c = rm[r]
  BY DEF Types
<1>2. c.found \in Disks \cup {NoDisk}
  BY DEF RmCalls
<1>3. c.found # NoDisk /\ life[c.found] # "none" =>
        /\ life'[c.found] # "none"
        /\ FirstOfName(DeviceList, c.found) => FirstOfName(DeviceList', c.found)
  BY <1>2 DEF DisksKept, FirstOfName
<1>4. c.found # NoDisk /\ life[c.found] \in {"leaving", "unlinked", "gone"} =>
        life'[c.found] \in {"leaving", "unlinked", "gone"}
  BY <1>2 DEF DisksKept
<1> QED
  BY <1>1, <1>3, <1>4 DEF CallOK, CallFits

\* The record of a call that returns.
LEMMA ReturnedFields ==
  ASSUME NEW c \in RmCalls, NEW s \in RmErrors \cup {"SUCCESS"}, NEW e,
         e = Returned(c, s) \/ e = [Returned(c, s) EXCEPT !.Handle = FALSE]
  PROVE  /\ e \in RmCalls /\ e.pc = "done" /\ e.status = s
         /\ e.found = (IF s = "SUCCESS" THEN c.found ELSE NoDisk)
         /\ e.removing = c.removing /\ e.options = c.options /\ e.softFailed = c.softFailed
<1>1. "" \in RmNames
  BY DEF RmNames
<1>2. PICK x : x = Returned(c, s)
  OBVIOUS
<1>3. /\ x \in RmCalls /\ x.pc = "done" /\ x.status = s
      /\ x.found = (IF s = "SUCCESS" THEN c.found ELSE NoDisk)
      /\ x.removing = c.removing /\ x.options = c.options /\ x.softFailed = c.softFailed
  <2>1. PICK f \in Disks \cup {NoDisk} : f = IF s = "SUCCESS" THEN c.found ELSE NoDisk
    BY DEF RmCalls
  <2>2. PICK zero \in Nat : zero = 0
    OBVIOUS
  <2>3. x = [c EXCEPT !.pc = "done", !.status = s, !.name = "", !.target = NoDisk, !.elapsed = zero,
                      !.found = f]
    BY <1>2, <2>1, <2>2 DEF Returned
  <2> QED
    BY <1>1, <2>1, <2>3 DEF RmCalls
<1>4. CASE e = [x EXCEPT !.Handle = FALSE]
  BY <1>3, <1>4 DEF RmCalls
<1> QED
  BY <1>2, <1>3, <1>4

\* The types of a call's next record and its promises, action by action.
LEMMA CallStep ==
  ASSUME Types, Listing, DisksKept, NEW r \in Removers, CallOK(r), RmNext(r)
  PROVE  rm' \in [Removers -> RmCalls] /\ CallOK(r)' /\ \A q \in Removers \ {r} : rm'[q] = rm[q]
<1>0. /\ NoDisk \notin Disks /\ DiskTypes /\ Options \subseteq [HardRemove : BOOLEAN, HardRemoveFallback : BOOLEAN, Timeout : Nat]
      /\ \A q \in Removers : rm[q] \in RmCalls
  BY OptionsAssumption DEF Types
<1>1. \E e : rm' = [rm EXCEPT ![r] = e]
  BY DEF RmNext, RmAttempt, RmSteps, RmOpen, RmShow, RmLocate, RmPnpDone, RmAttemptVetoed, RmAttemptSucceeds,
     RmAttemptFails, RmSleep, RmIoctl, RmIoctlDone, Return, CloseAndReturn, SoftFails, Types
<1>2. ASSUME rm'[r] \in RmCalls, CallOK(r)'
      PROVE  rm' \in [Removers -> RmCalls] /\ CallOK(r)' /\ \A q \in Removers \ {r} : rm'[q] = rm[q]
  BY <1>1, <1>2 DEF Types
<1> SUFFICES rm'[r] \in RmCalls /\ CallOK(r)'
  BY <1>2
<1>3. PICK c \in RmCalls : c = rm[r]
  BY <1>0
<1>4. /\ c.pc # "idle" => c.options \in Options
      /\ c.found \in Disks \cup {NoDisk} /\ c.target \in Disks \cup {NoDisk}
      /\ c.removing \in Disks \cup {NoDisk} /\ c.elapsed \in Nat /\ c.softFailed \in BOOLEAN
  BY <1>3 DEF CallOK, CallFits, RmCalls
\* The disk that was found stays created and the first of its name.
<1>5. c.found # NoDisk => life'[c.found] # "none" /\ FirstOfName(DeviceList', c.found)
  BY <1>3, <1>4 DEF CallOK, CallFits, DisksKept, FirstOfName
\* The call returns an error without having removed a disk by name.
<1>6. ASSUME NEW e, rm'[r] = e, c.pc \notin {"idle", "ioctl_wait", "done"},
             NEW s \in RmErrors,
             e \in RmCalls, e.pc = "done", e.status = s, e.found = NoDisk, e.removing = c.removing,
             e.options = c.options
      PROVE  CallOK(r)'
  BY <1>3, <1>4, <1>5, <1>6 DEF CallOK, CallFits, RmErrors
<1>7. ASSUME NEW s \in RmErrors,
             c.pc \notin {"idle", "ioctl_wait", "done"}, Return(r, s) \/ CloseAndReturn(r, s)
      PROVE  rm'[r] \in RmCalls /\ CallOK(r)'
  <2>1. PICK e : e = rm'[r]
    OBVIOUS
  <2>2. e = Returned(c, s) \/ e = [Returned(c, s) EXCEPT !.Handle = FALSE]
    BY <1>0, <1>3, <1>7, <2>1 DEF Return, CloseAndReturn, Types
  <2>3. /\ e \in RmCalls /\ e.pc = "done" /\ e.status = s /\ e.found = NoDisk
        /\ e.removing = c.removing /\ e.options = c.options
    <3>1. s # "SUCCESS"
      BY <1>7 DEF RmErrors
    <3> QED
      BY <2>2, <3>1, ReturnedFields
  <2> QED
    BY <1>6, <1>7, <2>1, <2>3
<1>8. ASSUME NEW s \in {"OPEN_FAILED", "TIMEOUT", "REMOVE_FAILED"}, c.pc \in {"locate", "attempt"},
             SoftFails(r, s)
      PROVE  rm'[r] \in RmCalls /\ CallOK(r)'
  <2>1. PICK e : e = rm'[r]
    OBVIOUS
  <2>2. e = IF c.options.HardRemoveFallback
            THEN [[c EXCEPT !.softFailed = TRUE] EXCEPT !.pc = "ioctl"]
            ELSE Returned([c EXCEPT !.softFailed = TRUE], s)
    <3>1. PICK f : f = [c EXCEPT !.softFailed = TRUE]
      OBVIOUS
    <3>2. f.options = c.options
      BY <3>1 DEF RmCalls
    <3> QED
      BY <1>0, <1>3, <1>8, <2>1, <3>1, <3>2 DEF SoftFails, Types
  <2>3. /\ e \in RmCalls /\ e.removing = c.removing /\ e.options = c.options
        /\ c.options.HardRemoveFallback => e.pc = "ioctl" /\ e.name = c.name /\ e.found = c.found
        /\ ~c.options.HardRemoveFallback => e.pc = "done" /\ e.status = s /\ e.found = NoDisk
    <3>1. PICK f \in RmCalls : f = [c EXCEPT !.softFailed = TRUE]
      BY DEF RmCalls
    <3>2. /\ f.found = c.found /\ f.removing = c.removing /\ f.options = c.options
          /\ f.name = c.name
      BY <3>1 DEF RmCalls
    <3>3. CASE c.options.HardRemoveFallback
      <4>1. e = [f EXCEPT !.pc = "ioctl"]
        BY <2>2, <3>1, <3>3
      <4> QED
        BY <3>2, <3>3, <4>1 DEF RmCalls
    <3>4. CASE ~c.options.HardRemoveFallback
      <4>1. e = Returned(f, s) /\ s \in RmErrors
        BY <2>2, <3>1, <3>4 DEF RmErrors
      <4> QED
        BY <3>2, <3>4, <4>1, ReturnedFields
    <3> QED
      BY <3>3, <3>4
  <2>4. CASE c.options.HardRemoveFallback
    BY <1>3, <1>4, <1>5, <1>8, <2>1, <2>3, <2>4 DEF CallOK, CallFits
  <2>5. CASE ~c.options.HardRemoveFallback
    BY <1>6, <1>8, <2>1, <2>3, <2>5 DEF RmErrors
  <2> QED
    BY <2>1, <2>3, <2>4, <2>5
\* The soft removal goes on.
<1>9. ASSUME c.pc \in {"show", "locate", "attempt", "sleep", "pnp_wait"}, NEW e \in RmCalls,
             rm'[r] = e, e.pc \in {"locate", "attempt", "sleep", "pnp_wait", "ioctl"},
             e.options = c.options, e.name = c.name, e.removing = c.removing,
             e.softFailed = c.softFailed, e.pc = "pnp_wait" => e.target # NoDisk,
             e.found # NoDisk => /\ life'[e.found] # "none" /\ FirstOfName(DeviceList', e.found)
                                 /\ c.name = NameOf[e.found]
      PROVE  rm'[r] \in RmCalls /\ CallOK(r)'
  BY <1>3, <1>4, <1>9 DEF CallOK, CallFits
<1>10. CASE RmOpen(r)
  <2>1. PICK options \in Options, d \in Disks :
          rm'[r] = IF adapter = "present"
                   THEN [IdleRm EXCEPT !.pc = IF options.HardRemove THEN "ioctl" ELSE "show",
                                       !.name = NameOf[d], !.options = options, !.Handle = TRUE]
                   ELSE [IdleRm EXCEPT !.pc = "done", !.options = options, !.status = "OPEN_FAILED"]
    BY <1>0, <1>10 DEF RmOpen, Types
  <2>2. PICK e : e = rm'[r]
    OBVIOUS
  <2>3. /\ e \in RmCalls /\ e.pc \in {"ioctl", "show", "done"} /\ e.found = NoDisk
        /\ e.removing = NoDisk /\ e.softFailed = FALSE /\ e.options \in Options
    <3>1. /\ options \in RmOptions /\ NameOf[d] \in RmNames /\ "" \in RmNames
          /\ "OPEN_FAILED" \in RmErrors /\ [HardRemove |-> FALSE] \in RmOptions
      BY DEF RmOptions, RmNames, Names, RmErrors
    <3>2. PICK i \in RmCalls : i = IdleRm
      BY <3>1 DEF IdleRm, RmCalls
    <3>3. i.found = NoDisk /\ i.removing = NoDisk /\ i.softFailed = FALSE
      BY <3>2 DEF IdleRm
    <3>4. PICK x \in {"ioctl", "show"} : x = IF options.HardRemove THEN "ioctl" ELSE "show"
      OBVIOUS
    <3>5. CASE e = [i EXCEPT !.pc = x, !.name = NameOf[d], !.options = options, !.Handle = TRUE]
      BY <3>1, <3>3, <3>5 DEF RmCalls
    <3>6. CASE e = [i EXCEPT !.pc = "done", !.options = options, !.status = "OPEN_FAILED"]
      BY <3>1, <3>3, <3>6 DEF RmCalls
    <3> QED
      BY <2>1, <2>2, <3>2, <3>4, <3>5, <3>6
  <2> QED
    BY <2>2, <2>3 DEF CallOK, CallFits
<1>11. CASE RmShow(r)
  <2>1. PICK d : d = WnbdFindDeviceByInstanceName(c.name)
    OBVIOUS
  <2>2. c.pc = "show"
    BY <1>3, <1>11 DEF RmShow
  <2>3. CASE adapter # "present" \/ d = NoDisk
    BY <1>3, <1>7, <1>11, <2>1, <2>2, <2>3 DEF RmShow, RmErrors
  <2>4. CASE adapter = "present" /\ d # NoDisk
    <3>1. d \in Disks /\ NameOf[d] = c.name /\ FirstOfName(DeviceList, d) /\ life[d] # "none"
      BY <1>0, <2>1, <2>4, FindsFirst
    <3>2. life'[d] # "none" /\ FirstOfName(DeviceList', d)
      BY <3>1 DEF DisksKept, FirstOfName
    <3>3. PICK t \in Disks \cup {NoDisk} : t = PNPDeviceID[d]
      BY <3>1 DEF Types, Started
    <3>4. rm'[r] = [c EXCEPT !.pc = "locate", !.found = d, !.target = t]
      BY <1>3, <1>11, <2>1, <2>4, <3>3 DEF RmShow, Types
    <3>5. PICK e : e = rm'[r]
      OBVIOUS
    <3>6. /\ e \in RmCalls /\ e.pc = "locate" /\ e.found = d /\ e.options = c.options
          /\ e.name = c.name /\ e.removing = c.removing /\ e.softFailed = c.softFailed
      BY <3>1, <3>4, <3>5 DEF RmCalls
    <3> QED
      BY <1>9, <2>2, <3>1, <3>2, <3>5, <3>6
  <2> QED
    BY <2>3, <2>4
\* The steps of the soft removal that only move the call on.
<1>12. ASSUME c.pc \in {"locate", "attempt", "sleep", "pnp_wait"},
              NEW pc \in {"attempt", "sleep", "pnp_wait", "ioctl"}, NEW elapsed \in Nat,
              pc = "pnp_wait" => c.target # NoDisk,
              rm'[r] = [c EXCEPT !.pc = pc, !.elapsed = elapsed]
       PROVE  rm'[r] \in RmCalls /\ CallOK(r)'
  <2>1. PICK e : e = rm'[r]
    OBVIOUS
  <2>2. /\ e \in RmCalls /\ e.pc = pc /\ e.found = c.found /\ e.options = c.options
        /\ e.name = c.name /\ e.removing = c.removing /\ e.softFailed = c.softFailed
        /\ e.target = c.target
    BY <1>12, <2>1 DEF RmCalls
  <2>3. c.found # NoDisk => c.name = NameOf[c.found]
    BY <1>3, <1>12 DEF CallOK, CallFits
  <2> QED
    BY <1>5, <1>9, <1>12, <2>1, <2>2, <2>3
<1>13. \A x : [c EXCEPT !.pc = x] = [c EXCEPT !.pc = x, !.elapsed = c.elapsed]
  BY DEF RmCalls
<1>14. CASE RmLocate(r)
  <2>1. c.pc = "locate"
    BY <1>3, <1>14 DEF RmLocate
  <2>2. \/ rm'[r] = [c EXCEPT !.pc = "attempt"]
        \/ SoftFails(r, "OPEN_FAILED")
    BY <1>3, <1>14 DEF RmLocate, Types
  <2> QED
    BY <1>4, <1>8, <1>12, <1>13, <2>1, <2>2
<1>15. CASE RmAttemptSucceeds(r)
  <2>1. c.pc = "attempt" /\ c.target # NoDisk
    BY <1>3, <1>15 DEF RmAttemptSucceeds
  <2>2. \/ \E d \in Disks : rm'[r] = [c EXCEPT !.pc = "pnp_wait", !.target = d]
        \/ rm'[r] = [c EXCEPT !.pc = "ioctl"]
    BY <1>3, <1>15 DEF RmAttemptSucceeds, Types
  <2>3. ASSUME NEW d \in Disks, rm'[r] = [c EXCEPT !.pc = "pnp_wait", !.target = d]
        PROVE  rm'[r] \in RmCalls /\ CallOK(r)'
    <3>1. PICK e : e = rm'[r]
      OBVIOUS
    <3>2. /\ e \in RmCalls /\ e.pc = "pnp_wait" /\ e.found = c.found /\ e.options = c.options
          /\ e.name = c.name /\ e.removing = c.removing /\ e.softFailed = c.softFailed
          /\ e.target = d
      BY <2>3, <3>1 DEF RmCalls
    <3>3. c.found # NoDisk => c.name = NameOf[c.found]
      BY <1>3, <2>1 DEF CallOK, CallFits
    <3> QED
      BY <1>0, <1>5, <1>9, <2>1, <3>1, <3>2, <3>3
  <2> QED
    BY <1>4, <1>12, <1>13, <2>1, <2>2, <2>3
<1>16. CASE RmPnpDone(r)
  <2>1. c.pc = "pnp_wait" /\ rm'[r] = [c EXCEPT !.pc = "ioctl"]
    BY <1>3, <1>16 DEF RmPnpDone, Types
  <2> QED
    BY <1>4, <1>12, <1>13, <2>1
<1>17. CASE RmAttemptVetoed(r)
  <2>1. c.pc = "attempt" /\ c.options.Timeout \in Nat
    BY <1>0, <1>3, <1>4, <1>17 DEF RmAttemptVetoed
  <2>2. PICK elapsed \in c.elapsed..c.options.Timeout :
          \/ rm'[r] = [c EXCEPT !.pc = "sleep", !.elapsed = elapsed]
          \/ SoftFails(r, "TIMEOUT")
    BY <1>3, <1>17 DEF RmAttemptVetoed, ElapsedAfter, Types
  <2>3. elapsed \in Nat
    BY <1>4, <2>1
  <2> QED
    BY <1>8, <1>12, <2>1, <2>2, <2>3
<1>18. CASE RmAttemptFails(r)
  BY <1>3, <1>8, <1>18 DEF RmAttemptFails
<1>19. CASE RmSleep(r)
  <2>1. c.pc = "sleep" /\ c.options.Timeout \in Nat
    BY <1>0, <1>3, <1>4, <1>19 DEF RmSleep
  <2>2. Slept(c.options.Timeout, c.elapsed) \in Nat
    BY <1>4, <2>1 DEF Slept
  <2>3. rm'[r] = [c EXCEPT !.pc = "attempt", !.elapsed = Slept(c.options.Timeout, c.elapsed)]
    BY <1>3, <1>19 DEF RmSleep, Types
  <2> QED
    BY <1>12, <2>1, <2>2, <2>3
<1>20. CASE RmIoctl(r)
  <2>1. PICK d : d = WnbdFindDeviceByInstanceName(c.name)
    OBVIOUS
  <2>2. c.pc = "ioctl" /\ c.removing = NoDisk
    BY <1>3, <1>20 DEF RmIoctl, CallOK, CallFits
  <2>3. CASE adapter \in {"disabled", "removed"} \/ (d = NoDisk /\ c.found = NoDisk)
    BY <1>3, <1>7, <1>20, <2>1, <2>2, <2>3 DEF RmIoctl, RmErrors
  <2>4. CASE adapter \notin {"disabled", "removed"} /\ d # NoDisk
    <3>1. d \in Disks
      BY <1>0, <2>1, <2>4, FindsFirst
    <3>2. rm'[r] = [c EXCEPT !.pc = "ioctl_wait", !.removing = d]
      BY <1>3, <1>20, <2>1, <2>4 DEF RmIoctl, Types
    <3>3. PICK e : e = rm'[r]
      OBVIOUS
    <3>4. /\ e \in RmCalls /\ e.pc = "ioctl_wait" /\ e.found = c.found /\ e.options = c.options
          /\ e.name = c.name /\ e.removing = d /\ e.softFailed = c.softFailed
      BY <3>1, <3>2, <3>3 DEF RmCalls
    <3> QED
      BY <1>0, <1>3, <1>4, <1>5, <2>2, <3>1, <3>3, <3>4 DEF CallOK, CallFits
  <2>5. CASE adapter \notin {"disabled", "removed"} /\ d = NoDisk /\ c.found # NoDisk
    <3>1. life[c.found] \notin {"live", "signalled"}
      <4>1. FirstOfName(DeviceList, c.found) /\ NameOf[c.found] = c.name
        BY <1>3, <2>2, <2>5 DEF CallOK, CallFits
      <4>2. \A x \in Disks : life[x] \in {"live", "signalled"} /\ FirstOfName(DeviceList, x)
                             => NameOf[x] # c.name
        BY <1>0, <2>1, <2>5, FindsFirst
      <4> QED
        BY <1>4, <2>5, <4>1, <4>2
    <3>2. life[c.found] # "none"
      BY <1>3, <2>5 DEF CallOK, CallFits
    <3>3. life[c.found] \in {"leaving", "unlinked", "gone"}
      BY <1>4, <2>5, <3>1, <3>2 DEF Types, DiskTypes, OnList
    <3>4. life'[c.found] \in {"leaving", "unlinked", "gone"}
      BY <1>4, <2>5, <3>3 DEF DisksKept
    <3>5. CloseAndReturn(r, "SUCCESS")
      BY <1>3, <1>20, <2>1, <2>5 DEF RmIoctl
    <3>6. rm'[r] = [Returned(c, "SUCCESS") EXCEPT !.Handle = FALSE]
      BY <1>3, <3>5 DEF CloseAndReturn, Types
    <3>7. PICK e : e = rm'[r]
      OBVIOUS
    <3>8. /\ e \in RmCalls /\ e.pc = "done" /\ e.found = c.found /\ e.options = c.options
          /\ e.removing = c.removing /\ e.softFailed = c.softFailed
      BY <3>6, <3>7, ReturnedFields
    <3>9. ~(c.softFailed /\ ~c.options.HardRemoveFallback)
      BY <1>3, <2>2 DEF CallOK, CallFits
    <3> QED
      BY <1>4, <1>5, <2>2, <3>4, <3>7, <3>8, <3>9 DEF CallOK, CallFits
  <2> QED
    BY <2>3, <2>4, <2>5
<1>21. CASE RmIoctlDone(r)
  <2>1. c.pc = "ioctl_wait" /\ c.removing \in Disks /\ life[c.removing] = "gone"
    BY <1>3, <1>4, <1>21 DEF RmIoctlDone, CallOK, CallFits
  <2>2. life'[c.removing] = "gone"
    BY <2>1 DEF DisksKept
  <2>3. rm'[r] = [Returned(c, "SUCCESS") EXCEPT !.Handle = FALSE]
    BY <1>3, <1>21 DEF RmIoctlDone, CloseAndReturn, Types
  <2>4. PICK e : e = rm'[r]
    OBVIOUS
  <2>5. /\ e \in RmCalls /\ e.pc = "done" /\ e.found = c.found /\ e.options = c.options
        /\ e.removing = c.removing /\ e.softFailed = c.softFailed
    BY <2>3, <2>4, ReturnedFields
  <2>6. ~(c.softFailed /\ ~c.options.HardRemoveFallback)
    BY <1>3, <2>1 DEF CallOK, CallFits
  <2> QED
    BY <1>0, <1>4, <1>5, <2>1, <2>2, <2>4, <2>5, <2>6 DEF CallOK, CallFits
<1> QED
  BY <1>2, <1>10, <1>11, <1>14, <1>15, <1>16, <1>17, <1>18, <1>19, <1>20, <1>21 DEF RmNext, RmAttempt, RmSteps
-----------------------------------------------------------------------------
(* RemoveAllWnbdDevices *)

\* DeviceCount is a number that does not grow while no creation finishes.
LEMMA CountFalls ==
  ASSUME DiskTypes, Listing, DiskTypes', Listing', DisksKept
  PROVE  /\ DeviceCount \in Int /\ DeviceCount' \in Int
         /\ (\A d \in Disks : creation'[d] = "mapped" <=> creation[d] = "mapped")
              => DeviceCount' <= DeviceCount
<1> DEFINE made == {d \in Disks : creation[d] # "none"}
           mapped == {d \in Disks : creation[d] = "mapped"}
           gone == {d \in Disks : life[d] = "gone"}
<1>1. IsFiniteSet(made) /\ IsFiniteSet(made')
  BY DEF Listing
<1>2. mapped \subseteq made /\ gone \subseteq made /\ mapped' \subseteq made' /\ gone' \subseteq made'
  BY DEF Listing
<1>3. IsFiniteSet(mapped) /\ IsFiniteSet(gone) /\ IsFiniteSet(mapped') /\ IsFiniteSet(gone')
  BY <1>1, <1>2, FS_Subset
<1>4. /\ Cardinality(mapped) \in Nat /\ Cardinality(gone) \in Nat
      /\ Cardinality(mapped') \in Nat /\ Cardinality(gone') \in Nat
  BY <1>3, FS_CardinalityType
<1>5. gone \subseteq gone'
  BY DEF DisksKept
<1>6. Cardinality(gone) <= Cardinality(gone')
  BY <1>3, <1>5, FS_Subset
<1>7. (\A d \in Disks : creation'[d] = "mapped" <=> creation[d] = "mapped") => mapped' = mapped
  OBVIOUS
<1>8. /\ DeviceCount = Cardinality(mapped) - Cardinality(gone)
      /\ DeviceCount' = Cardinality(mapped') - Cardinality(gone')
  BY DEF DeviceCount
<1> HIDE DEF made, mapped, gone
<1> QED
  BY <1>4, <1>6, <1>7, <1>8

\* While the uninstaller takes no step, the others only help it.
LEMMA AllKept ==
  ASSUME Types, Listing, AllOK, DiskTypes', Listing', DisksKept, UNCHANGED all,
         NewMappingsAllowed' \in {NewMappingsAllowed, TRUE},
         UnderWay = {} => DisksLeave,
         UnderWay = {} /\ ~NewMappingsAllowed => UnderWay' = {}
  PROVE  AllOK'
<1>1. Closed' => Closed
  BY DEF Closed
<1>2. ASSUME Closed PROVE UnderWay' = {} /\ DisksLeave
  BY <1>2 DEF AllOK, Closed
<1>3. ASSUME Closed, all.pc = "relist" PROVE DeviceCount' + 1 <= all.capacity
  <2>1. DeviceCount \in Int /\ DeviceCount' \in Int /\ DeviceCount' <= DeviceCount
    BY <1>2, <1>3, CountFalls DEF DisksLeave, Types
  <2>2. DeviceCount + 1 <= all.capacity /\ all.capacity \in Int
    BY <1>3 DEF AllOK, Types, AllCalls
  <2> QED
    BY <2>1, <2>2
<1>4. ASSUME Closed, NEW L \in Seq(Disks), Walk(L) PROVE Walk(L)'
  BY <1>2, <1>4 DEF Walk, DisksLeave
<1>5. ASSUME Closed, Listed = {} PROVE Listed' = {}
  BY <1>2, <1>5 DEF DisksLeave
<1> QED
  BY <1>1, <1>2, <1>3, <1>4, <1>5 DEF AllOK, Closed
\* Removing the first disk of the first name in the list of names leaves a walk of
\* the others: if the first disk of L is still listed, it is that disk.
LEMMA WalkGoesOn ==
  ASSUME Types, Listing, NEW L \in Seq(Disks), Walk(L), all.list # <<>>, all.removing = NoDisk,
         NEW d \in Disks, NameOf[d] = Head(all.list), FirstOfName(DeviceList, d),
         life[d] \in {"live", "signalled"}, Listed' = Listed, UNCHANGED DeviceList,
         all'.list = Tail(all.list), all'.removing = d
  PROVE  Walk(Tail(L))'
<1> DEFINE M == Tail(L)
           n == Len(L)
<1>1. n \in Nat /\ DOMAIN L = 1..n /\ \A i \in 1..n : L[i] \in Disks
  OBVIOUS
<1>2. all.list = [i \in DOMAIN L |-> NameOf[L[i]]] /\ all.list \in Seq(Names)
  BY DEF Walk, Types, AllCalls
<1>3. n # 0 /\ DOMAIN all.list = 1..n /\ Len(all.list) = n
  BY <1>1, <1>2
<1>4. /\ 1 \in 1..n /\ n - 1 \in Nat /\ M \in Seq(Disks) /\ DOMAIN M = 1..(n - 1)
      /\ \A i \in 1..(n - 1) : M[i] = L[i + 1] /\ i + 1 \in 1..n
  BY <1>1, <1>3
<1>5. Head(all.list) = NameOf[L[1]]
  BY <1>2, <1>3, <1>4
<1>6. /\ \A i, j \in 1..n : L[i] = L[j] => i = j
      /\ \A x \in Listed : \E i \in 1..n : x = L[i]
      /\ \A x, y \in Disks : Before(DeviceList, x, y) => Before(L, x, y)
      /\ Listed \subseteq Disks
  <2>1. NoDisk \notin Disks /\ Listed \subseteq Disks
    BY OptionsAssumption DEF Types, DiskTypes, Listed
  <2>2. Disks \ {all.removing} = Disks /\ \A x \in Listed : x # all.removing
    BY <2>1
  <2> QED
    BY <1>1, <2>1, <2>2 DEF Walk
<1> HIDE DEF M, n
\* No disk comes before the first one of L.
<1>7. \A x : ~Before(L, x, L[1])
  <2> SUFFICES ASSUME NEW i \in 1..n, NEW j \in 1..n, i < j, L[j] = L[1] PROVE FALSE
    BY <1>1 DEF Before
  <2> QED
    BY <1>4, <1>6
<1>8. ASSUME L[1] \in Listed PROVE L[1] = d
  <2>1. PICK i \in DOMAIN DeviceList : DeviceList[i] = L[1]
    BY <1>8 DEF Listed
  <2>2. PICK j \in DOMAIN DeviceList : DeviceList[j] = d
    BY DEF Listing, Listed, OnList
  <2>3. i \in Nat /\ j \in Nat
    BY DEF Types, DiskTypes
  <2>4. ~(i < j)
    BY <1>1, <1>4, <1>5, <2>1, <2>2 DEF FirstOfName, Before
  <2>5. ~(j < i)
    <3>1. j < i => Before(DeviceList, d, L[1])
      BY <2>1, <2>2 DEF Before
    <3> QED
      BY <1>1, <1>4, <1>6, <1>7, <3>1
  <2> QED
    BY <2>1, <2>2, <2>3, <2>4, <2>5
<1>9. \A x \in Listed : x = d \/ \E i \in DOMAIN M : x = M[i]
  <2> SUFFICES ASSUME NEW x \in Listed, x # d PROVE \E i \in DOMAIN M : x = M[i]
    OBVIOUS
  <2>1. PICK i \in 1..n : x = L[i]
    BY <1>6
  <2>2. i # 1
    BY <1>8, <2>1
  <2>3. i - 1 \in 1..(n - 1) /\ (i - 1) + 1 = i
    BY <1>1, <1>4, <2>2
  <2> QED
    BY <1>4, <2>1, <2>3
<1>10. ASSUME NEW x \in Disks \ {d}, NEW y \in Disks \ {d}, Before(DeviceList, x, y)
       PROVE  Before(M, x, y)
  <2>1. PICK i \in 1..n, j \in 1..n : i < j /\ L[i] = x /\ L[j] = y
    BY <1>1, <1>6, <1>10 DEF Before
  <2>2. x \in Listed
    BY <1>10 DEF Before, Listed
  <2>3. i # 1
    BY <1>8, <2>1, <2>2
  <2>4. /\ i - 1 \in 1..(n - 1) /\ j - 1 \in 1..(n - 1) /\ i - 1 < j - 1
        /\ (i - 1) + 1 = i /\ (j - 1) + 1 = j
    BY <1>1, <1>4, <2>1, <2>3
  <2> QED
    BY <1>4, <2>1, <2>4 DEF Before
<1>11. \A i, j \in DOMAIN M : M[i] = M[j] => i = j
  <2> SUFFICES ASSUME NEW i \in 1..(n - 1), NEW j \in 1..(n - 1), M[i] = M[j] PROVE i = j
    BY <1>4
  <2>1. i + 1 = j + 1
    BY <1>4, <1>6
  <2> QED
    BY <1>4, <2>1
<1>12. Tail(all.list) = [i \in DOMAIN M |-> NameOf[M[i]]]
  <2>1. Tail(all.list) = [i \in 1..(n - 1) |-> all.list[i + 1]]
    BY <1>2, <1>3
  <2>2. \A i \in 1..(n - 1) : all.list[i + 1] = NameOf[M[i]]
    BY <1>1, <1>2, <1>4
  <2> QED
    BY <1>4, <2>1, <2>2
<1> QED
  BY <1>9, <1>10, <1>11, <1>12 DEF Walk, M

LEMMA SeqOfNone == \E q \in Seq(Names) : q = <<>>
<1>1. <<>> \in Seq(Names)
  OBVIOUS
<1> QED
  BY <1>1

\* The uninstaller's own steps, action by action.
LEMMA AllStep ==
  ASSUME Types, Listing, AllOK, DiskTypes', Listing', DisksKept, AllNext
  PROVE  all' \in AllCalls /\ AllOK'
<1>0. /\ NoDisk \notin Disks /\ DiskTypes /\ NewMappingsAllowed \in BOOLEAN
      /\ UnderWay \subseteq Disks /\ Listed \subseteq Disks
  BY OptionsAssumption DEF Types, DiskTypes, UnderWay, Listed
<1>1. PICK a \in AllCalls : a = all
  BY DEF Types
<1>2. PICK b : b = all'
  OBVIOUS
\* Nothing is known of the disks before the uninstaller begins and after it ends.
<1>10. ASSUME NEW pc \in {"stop_wait", "done"}, b = AllAt(pc)
       PROVE  all' \in AllCalls /\ AllOK'
  <2>1. PICK zero \in Int : zero = 0
    OBVIOUS
  <2>2. PICK q \in Seq(Names) : q = <<>>
    BY SeqOfNone
  <2>3. b = [pc |-> pc, capacity |-> zero, head |-> NoDisk, list |-> q, removing |-> NoDisk,
             pending |-> "none", status |-> "none"]
    BY <1>10, <2>1, <2>2 DEF AllAt
  <2>4. b \in AllCalls /\ b.pc = pc /\ b.removing = NoDisk
    BY <2>3 DEF AllCalls
  <2> QED
    BY <1>2, <2>4 DEF AllOK, Closed
<1>3. CASE AllDisallow
  <2>0. PICK n \in {"none", "some"} : n = IF UnderWay = {} THEN "none" ELSE "some"
    OBVIOUS
  <2>1. b = [a EXCEPT !.pc = "list", !.pending = n] /\ a.pc = "idle"
    BY <1>1, <1>2, <1>3, <2>0 DEF AllDisallow
  <2>2. b \in AllCalls /\ b.pc = "list" /\ b.pending = n /\ b.removing = a.removing
    BY <1>0, <2>1 DEF AllCalls
  <2>3. UnderWay' = UnderWay
    BY <1>3 DEF AllDisallow, diskVars, UnderWay
  <2> QED
    BY <1>1, <1>2, <2>0, <2>1, <2>2, <2>3 DEF AllOK, Closed
<1>4. CASE AllUnavailable
  <2>1. b = [a EXCEPT !.pc = "adapter", !.status = "SUCCESS"] /\ a.pc = "idle"
    BY <1>1, <1>2, <1>4 DEF AllUnavailable
  <2>2. b \in AllCalls /\ b.pc = "adapter" /\ b.removing = a.removing
    BY <2>1 DEF AllCalls
  <2>3. NewMappingsAllowed'
    BY <1>1, <1>4, <2>1 DEF AllUnavailable, AllOK
  <2> QED
    BY <1>1, <1>2, <2>1, <2>2, <2>3 DEF AllOK, Closed
<1>5. CASE AllList
  <2>1. /\ DeviceCount \in Int /\ DeviceCount' = DeviceCount /\ UnderWay' = UnderWay
        /\ UNCHANGED NewMappingsAllowed /\ a.pc = "list"
    BY <1>0, <1>1, <1>5, CountFalls DEF AllList, diskVars, DeviceCount, UnderWay
  <2>2. CASE b = AllAt("done")
    BY <1>10, <2>2
  <2>3. CASE b = [a EXCEPT !.pc = "relist", !.capacity = DeviceCount + 1]
    <3>1. PICK n \in Int : n = DeviceCount + 1
      BY <2>1
    <3>2. /\ b \in AllCalls /\ b.pc = "relist" /\ b.removing = a.removing
          /\ b.pending = a.pending /\ b.capacity = n
      BY <2>3, <3>1 DEF AllCalls
    <3>3. Closed' => UnderWay' = {}
      BY <1>1, <1>2, <2>1, <3>2 DEF Closed, AllOK
    <3>4. DeviceCount' + 1 <= b.capacity
      BY <2>1, <3>1, <3>2
    <3> QED
      BY <1>1, <1>2, <2>1, <3>2, <3>3, <3>4 DEF AllOK
  <2> QED
    BY <1>1, <1>2, <1>5, <2>2, <2>3 DEF AllList
<1>6. CASE AllRelist
  <2>1. /\ a.pc = "relist" /\ UnderWay' = UnderWay /\ Listed' = Listed
        /\ UNCHANGED <<NewMappingsAllowed, DeviceList>>
    BY <1>1, <1>6 DEF AllRelist, diskVars, UnderWay, Listed
  <2>2. CASE b = AllAt("done")
    BY <1>10, <2>2
  <2>3. PICK h : h = IF DeviceList = <<>> THEN NoDisk ELSE Head(DeviceList)
    OBVIOUS
  <2>4. h \in Disks \cup {NoDisk} /\ (h = NoDisk => Listed = {})
    <3>1. DeviceList \in Seq(Disks)
      BY <1>0 DEF DiskTypes
    <3>2. DeviceList = <<>> => DOMAIN DeviceList = {}
      OBVIOUS
    <3> QED
      BY <1>0, <2>3, <3>1, <3>2 DEF Listed
  <2>5. CASE /\ DeviceCount + 1 > a.capacity
             /\ b = [a EXCEPT !.pc = "remove", !.capacity = 0, !.status = "SUCCESS"]
    <3>1. PICK zero \in Int : zero = 0
      OBVIOUS
    <3>2. b \in AllCalls /\ b.pc = "remove" /\ b.removing = a.removing /\ b.pending = a.pending
      BY <2>5, <3>1 DEF AllCalls
    <3>3. Closed' => Closed
      BY <1>1, <1>2, <2>1, <3>2 DEF Closed
    <3>4. ~Closed
      <4>1. DeviceCount \in Int /\ a.capacity \in Int
        BY <1>0, CountFalls DEF AllCalls
      <4> QED
        BY <1>1, <2>1, <2>5, <4>1 DEF AllOK
    <3> QED
      BY <1>1, <1>2, <2>1, <3>2, <3>3, <3>4 DEF AllOK
  <2>6. CASE b = [a EXCEPT !.pc = "walk", !.head = h]
    <3>1. /\ b \in AllCalls /\ b.pc = "walk" /\ b.head = h /\ b.removing = a.removing
          /\ b.pending = a.pending
      BY <2>4, <2>6 DEF AllCalls
    <3>2. Closed' => Closed
      BY <1>1, <1>2, <2>1, <3>1 DEF Closed
    <3> QED
      BY <1>1, <1>2, <2>1, <2>4, <3>1, <3>2 DEF AllOK
  <2> QED
    BY <1>1, <1>2, <1>6, <2>2, <2>3, <2>5, <2>6 DEF AllRelist
<1>11. CASE AllWalk
  <2>1. /\ a.pc = "walk" /\ UnderWay' = UnderWay /\ Listed' = Listed
        /\ UNCHANGED <<NewMappingsAllowed, DeviceList>>
    <3>1. a.pc = "walk" /\ UNCHANGED <<NewMappingsAllowed, creation, DeviceList>>
      BY <1>1, <1>11 DEF AllWalk, diskVars
    <3> QED
      BY <3>1 DEF UnderWay, Listed
  <2>2. PICK q : q = [i \in DOMAIN DeviceList |-> NameOf[DeviceList[i]]]
    OBVIOUS
  <2>3. q \in Seq(Names)
    BY <1>0, <2>2 DEF DiskTypes, Names
  <2>4. PICK w : w = [a EXCEPT !.pc = "remove", !.capacity = 0, !.head = NoDisk]
    OBVIOUS
  <2>5. w \in AllCalls /\ w.pc = "remove" /\ w.removing = a.removing /\ w.pending = a.pending
    <3>1. PICK zero \in Int : zero = 0
      OBVIOUS
    <3> QED
      BY <2>4, <3>1 DEF AllCalls
  <2>0. PICK none \in Seq(Names) : none = <<>>
    BY SeqOfNone
  <2>6. \/ a.head = NoDisk /\ b = [w EXCEPT !.status = "SUCCESS", !.list = none]
        \/ b = [w EXCEPT !.status = "SUCCESS", !.list = q]
        \/ b = [w EXCEPT !.pc = "adapter", !.status = "MORE_DATA"]
        \/ \E list \in {<<>>} \cup {<<NameOf[d]>> : d \in Disks} :
             b = [w EXCEPT !.status = "UNDEFINED", !.list = list]
    BY <1>1, <1>2, <1>11, <2>0, <2>2, <2>4 DEF AllWalk
  <2>7. /\ b \in AllCalls /\ b.removing = a.removing /\ b.pending = a.pending
        /\ b.pc \in {"adapter", "remove"}
        /\ b.pc = "adapter" => b.status = "MORE_DATA"
        /\ b.pc = "remove" => \/ b.status = "UNDEFINED" \/ b.list = q
                              \/ a.head = NoDisk /\ b.list = <<>>
    <3>1. CASE a.head = NoDisk /\ b = [w EXCEPT !.status = "SUCCESS", !.list = none]
      BY <2>0, <2>5, <3>1 DEF AllCalls
    <3>2. CASE b = [w EXCEPT !.status = "SUCCESS", !.list = q]
      BY <2>3, <2>5, <3>2 DEF AllCalls
    <3>3. CASE b = [w EXCEPT !.pc = "adapter", !.status = "MORE_DATA"]
      BY <2>5, <3>3 DEF AllCalls
    <3>4. ASSUME NEW list \in {<<>>} \cup {<<NameOf[d]>> : d \in Disks},
                 b = [w EXCEPT !.status = "UNDEFINED", !.list = list]
          PROVE  b \in AllCalls /\ b.removing = a.removing /\ b.pending = a.pending
                 /\ b.pc = "remove" /\ b.status = "UNDEFINED"
      <4>1. list \in Seq(Names)
        <5>1. CASE list = <<>>
          BY <5>1
        <5>2. ASSUME NEW d \in Disks, list = <<NameOf[d]>> PROVE list \in Seq(Names)
          <6>1. NameOf[d] \in Names
            BY DEF Names
          <6> QED
            BY <5>2, <6>1
        <5> QED
          BY <5>1, <5>2
      <4> QED
        BY <2>5, <3>4, <4>1 DEF AllCalls
    <3> QED
      BY <2>6, <3>1, <3>2, <3>3, <3>4
  <2>8. Closed' => Closed
    BY <1>1, <1>2, <2>1, <2>7 DEF Closed
  <2>9. a.removing = NoDisk /\ (Closed /\ a.head = NoDisk => Listed = {})
    BY <1>1, <2>1 DEF AllOK
  <2>10. PICK L \in Seq(Disks) : L = DeviceList
    BY <1>0 DEF DiskTypes
  <2>11. ASSUME b.list = q PROVE Walk(L)'
    <3>1. all'.list = [i \in DOMAIN L |-> NameOf[L[i]]]
      BY <1>2, <2>2, <2>10, <2>11
    <3>2. \A d \in Listed : \E i \in DOMAIN L : d = L[i]
      BY <2>10 DEF Listed
    <3> QED
      BY <2>1, <2>10, <3>1, <3>2 DEF Walk, Listing
\* The list that was empty is empty still.
  <2>12. ASSUME Closed, a.head = NoDisk, b.list = <<>> PROVE b.list = q
    <3>1. DOMAIN DeviceList = {}
      BY <2>9, <2>12 DEF Listed
    <3>2. DeviceList = <<>>
      BY <1>0, <3>1 DEF DiskTypes
    <3> QED
      BY <2>2, <2>12, <3>2
  <2>13. ASSUME Closed', b.pc = "remove", b.status # "UNDEFINED" PROVE \E M \in Seq(Disks) : Walk(M)'
    BY <2>7, <2>8, <2>10, <2>11, <2>12, <2>13
  <2>14. Closed' => UnderWay' = {}
    BY <2>1, <2>8 DEF AllOK
  <2> QED
    BY <1>1, <1>2, <2>1, <2>7, <2>9, <2>13, <2>14 DEF AllOK
<1>7. CASE AllRemove
  <2>1. /\ a.pc = "remove" /\ UnderWay' = UnderWay /\ Listed' = Listed
        /\ UNCHANGED <<NewMappingsAllowed, DeviceList>>
    BY <1>1, <1>7 DEF AllRemove, UnderWay, Listed
  <2>2. a.removing = NoDisk /\ a.list \in Seq(Names)
    BY <1>1, <2>1 DEF AllOK, AllCalls
  <2>3. CASE a.list = <<>>
    <3>1. b = [a EXCEPT !.pc = "adapter"]
      BY <1>1, <1>2, <1>7, <2>3 DEF AllRemove
    <3>2. /\ b \in AllCalls /\ b.pc = "adapter" /\ b.pending = a.pending /\ b.removing = NoDisk
          /\ b.status = a.status
      BY <2>2, <3>1 DEF AllCalls
    <3>3. Closed' => Closed
      BY <1>1, <1>2, <2>1, <3>2 DEF Closed
    <3>4. ASSUME Closed, b.status = "SUCCESS" PROVE Listed = {}
      <4>1. PICK L \in Seq(Disks) : Walk(L)
        BY <1>1, <2>1, <3>2, <3>4 DEF AllOK
      <4>2. DOMAIN L = DOMAIN a.list
        BY <1>1, <4>1 DEF Walk
      <4>3. DOMAIN L = {}
        BY <2>3, <4>2
      <4> QED
        BY <1>0, <1>1, <2>2, <4>1, <4>3 DEF Walk
    <3> QED
      BY <1>2, <2>1, <3>2, <3>3, <3>4 DEF AllOK
  <2>4. PICK d : d = WnbdFindDeviceByInstanceName(Head(a.list))
    OBVIOUS
  <2>5. CASE a.list # <<>> /\ (adapter # "present" \/ d = NoDisk)
    <3>1. b = [a EXCEPT !.pc = "adapter", !.status = "FILE_NOT_FOUND"]
      BY <1>1, <1>2, <1>7, <2>4, <2>5 DEF AllRemove
    <3>2. /\ b \in AllCalls /\ b.pc = "adapter" /\ b.pending = a.pending /\ b.removing = NoDisk
          /\ b.status = "FILE_NOT_FOUND"
      BY <2>2, <3>1 DEF AllCalls
    <3>3. Closed' => Closed
      BY <1>1, <1>2, <2>1, <3>2 DEF Closed
    <3> QED
      BY <1>2, <2>1, <3>2, <3>3 DEF AllOK
  <2>6. CASE a.list # <<>> /\ adapter = "present" /\ d # NoDisk
    <3>1. /\ d \in Disks /\ NameOf[d] = Head(a.list) /\ FirstOfName(DeviceList, d)
          /\ life[d] \in {"live", "signalled"}
      BY <1>0, <2>4, <2>6, FindsFirst
    <3>2. b = [a EXCEPT !.pc = "remove_wait", !.removing = d, !.list = Tail(a.list)]
      BY <1>1, <1>2, <1>7, <2>4, <2>6 DEF AllRemove
    <3>3. Tail(a.list) \in Seq(Names)
      BY <2>2, <2>6
    <3>4. /\ b \in AllCalls /\ b.pc = "remove_wait" /\ b.pending = a.pending /\ b.removing = d
          /\ b.list = Tail(a.list) /\ b.status = a.status
      BY <3>1, <3>2, <3>3 DEF AllCalls
    <3>5. Closed' => Closed
      BY <1>1, <1>2, <2>1, <3>4 DEF Closed
    <3>6. ASSUME Closed, b.status # "UNDEFINED" PROVE \E L \in Seq(Disks) : Walk(L)'
      <4>1. PICK L \in Seq(Disks) : Walk(L)
        BY <1>1, <2>1, <3>4, <3>6 DEF AllOK
      <4>2. Walk(Tail(L))'
        BY <1>1, <1>2, <2>1, <2>2, <2>6, <3>1, <3>4, <4>1, WalkGoesOn
      <4>3. L # <<>>
        <5>1. DOMAIN L = DOMAIN a.list
          BY <1>1, <4>1 DEF Walk
        <5> QED
          BY <2>2, <2>6, <5>1
      <4>4. Tail(L) \in Seq(Disks)
        BY <4>3
      <4>5. PICK M \in Seq(Disks) : M = Tail(L)
        BY <4>4
      <4> QED
        BY <4>2, <4>5 DEF Walk
    <3> QED
      BY <1>0, <1>2, <2>1, <3>1, <3>4, <3>5, <3>6 DEF AllOK
  <2> QED
    BY <2>3, <2>5, <2>6
<1>8. CASE AllRemoveDone
  <2>1. /\ a.pc = "remove_wait" /\ UnderWay' = UnderWay /\ Listed' = Listed
        /\ UNCHANGED <<NewMappingsAllowed, DeviceList>> /\ life[a.removing] = "gone"
        /\ b = [a EXCEPT !.pc = "remove", !.removing = NoDisk]
    BY <1>1, <1>2, <1>8 DEF AllRemoveDone, diskVars, UnderWay, Listed
  <2>2. /\ b \in AllCalls /\ b.pc = "remove" /\ b.pending = a.pending /\ b.removing = NoDisk
        /\ b.list = a.list /\ b.status = a.status
    BY <2>1 DEF AllCalls
  <2>3. Closed' => Closed
    BY <1>1, <1>2, <2>1, <2>2 DEF Closed
  <2>4. a.removing \in Disks
    BY <1>1, <2>1 DEF AllOK, AllCalls
  <2>5. a.removing \notin Listed
    BY <2>1, <2>4 DEF Listing, OnList
  <2>6. \A x, y : Before(DeviceList, x, y) => x \in Listed /\ y \in Listed
    BY DEF Before, Listed
  <2>7. ASSUME NEW L \in Seq(Disks), Walk(L) PROVE Walk(L)'
    <3>1. \A x \in Listed : \E i \in DOMAIN L : x = L[i]
      BY <1>1, <2>5, <2>7 DEF Walk
    <3>2. \A x, y \in Disks : Before(DeviceList, x, y) => Before(L, x, y)
      BY <1>1, <2>5, <2>6, <2>7 DEF Walk
    <3>3. all'.list = all.list
      BY <1>1, <1>2, <2>2
    <3> QED
      BY <2>1, <2>7, <3>1, <3>2, <3>3 DEF Walk
  <2>8. ASSUME Closed, b.status # "UNDEFINED" PROVE \E L \in Seq(Disks) : Walk(L)'
    BY <1>1, <2>1, <2>2, <2>7, <2>8 DEF AllOK
  <2> QED
    BY <1>2, <2>1, <2>2, <2>3, <2>8 DEF AllOK
<1>9. CASE AllUninstall \/ AllUninstalled
  BY <1>2, <1>9, <1>10 DEF AllUninstall, AllUninstalled
<1> QED
  BY <1>3, <1>4, <1>5, <1>6, <1>7, <1>8, <1>9, <1>11 DEF AllNext, AllSteps

-----------------------------------------------------------------------------
(* The theorems *)

LEMMA InitInvariant == Init => IInv
<1> SUFFICES ASSUME Init PROVE IInv
  OBVIOUS
<1> USE DEF Init
<1>1. DiskTypes
  BY DEF DiskTypes
<1>2. \A r \in Removers : rm[r] = IdleRm
  OBVIOUS
<1>3. IdleRm \in RmCalls
  BY DEF IdleRm, RmCalls, RmNames, RmOptions
<1>4. CallFits(IdleRm, life, DeviceList)
  BY DEF CallFits, IdleRm
<1>5. all \in AllCalls
  BY DEF AllAt, AllCalls
<1>6. DOMAIN DeviceList = {} /\ Listed = {} /\ {d \in Disks : creation[d] # "none"} = {}
  BY DEF Listed
<1>7. Listing
  BY <1>6, FS_EmptySet DEF Listing, OnList
<1>8. AllOK
  BY DEF AllAt, AllOK, Closed
<1>9. Started
  BY DEF Started
<1> QED
  BY <1>1, <1>2, <1>3, <1>4, <1>5, <1>7, <1>8, <1>9 DEF IInv, Types, CallOK

LEMMA StepInvariant == IInv /\ [Next]_vars => IInv'
<1> SUFFICES ASSUME IInv, [Next]_vars PROVE IInv'
  OBVIOUS
<1>0. Types /\ Listing /\ AllOK /\ \A r \in Removers : CallOK(r)
  BY DEF IInv
<1>1. DiskStep /\ NewMappingsAllowed' \in BOOLEAN
  BY <1>0, NextIsDiskStep
<1>2. /\ DiskTypes' /\ Listing' /\ DisksKept
      /\ UnderWay = {} => DisksLeave
      /\ UnderWay = {} /\ ~NewMappingsAllowed => UnderWay' = {}
  BY <1>0, <1>1, DiskStepKeeps DEF Types
<1>11. Started'
  BY <1>0, StartedStep
<1>3. \A r \in Removers : rm'[r] = rm[r] => CallOK(r)'
  BY <1>0, <1>2, CallKept
<1>4. UNCHANGED all /\ NewMappingsAllowed' \in {NewMappingsAllowed, TRUE} => AllOK'
  BY <1>0, <1>2, AllKept
<1>5. ASSUME NEW r \in Removers, RmNext(r) PROVE IInv'
  <2>1. UNCHANGED <<all, NewMappingsAllowed>>
    BY <1>5 DEF RmNext, RmAttempt, RmSteps, RmOpen, RmShow, RmLocate, RmAttemptSucceeds, RmPnpDone,
       RmAttemptVetoed, RmAttemptFails, RmSleep, RmIoctl, RmIoctlDone
  <2>2. rm' \in [Removers -> RmCalls] /\ CallOK(r)' /\ \A q \in Removers \ {r} : rm'[q] = rm[q]
    BY <1>0, <1>2, <1>5, CallStep
  <2>3. \A q \in Removers : CallOK(q)'
    BY <1>3, <2>2
  <2> QED
    BY <1>0, <1>2, <1>4, <1>11, <2>1, <2>2, <2>3 DEF IInv, Types
<1>6. CASE AllNext
  <2>1. UNCHANGED rm
    BY <1>6 DEF AllNext, AllDisallow, AllUnavailable, AllSteps, AllList, AllRelist, AllWalk,
       AllRemove, AllRemoveDone, AllUninstall, AllUninstalled
  <2>2. all' \in AllCalls /\ AllOK'
    BY <1>0, <1>2, <1>6, AllStep
  <2> QED
    BY <1>0, <1>2, <1>3, <1>11, <2>1, <2>2 DEF IInv, Types
<1>7. CASE UNCHANGED <<rm, all>> /\ NewMappingsAllowed' \in {NewMappingsAllowed, TRUE}
  BY <1>0, <1>2, <1>3, <1>4, <1>7, <1>11 DEF IInv, Types
<1>8. ASSUME NEW d \in Disks, DriverNext(d)
      PROVE  UNCHANGED <<rm, all>> /\ NewMappingsAllowed' \in {NewMappingsAllowed, TRUE}
  BY <1>8 DEF DriverNext, CreateCheck, CreateInsert, CreateCount, PnpStart, Monitor, StopWake
<1>9. ASSUME NEW x \in Resetters, ResetNext(x)
      PROVE  UNCHANGED <<rm, all>> /\ NewMappingsAllowed' \in {NewMappingsAllowed, TRUE}
  BY <1>9 DEF ResetNext, ResetBegin, ResetAttempt, ResetMissing, ResetDisables, ResetDisabled,
     ResetVetoed, ResetFails, ResetEnables
<1>10. CASE UNCHANGED vars
  BY <1>7, <1>10 DEF vars
<1> QED
  BY <1>5, <1>6, <1>7, <1>8, <1>9, <1>10, NextSplits

\* IInv holds in every reachable state: the list and the lives of the disks agree
\* (userspace.c), and every call of WnbdRemoveEx and RemoveAllWnbdDevices keeps
\* to what it has read so far.
THEOREM Invariant == Spec => []IInv
<1>1. Init => IInv
  BY InitInvariant
<1>2. IInv /\ [Next]_vars => IInv'
  BY StepInvariant
<1> QED
  BY <1>1, <1>2, PTL DEF Spec

\* What WnbdRemoveEx reports is what happened to the disk it found: a success means
\* that the disk leaves or that its name was another disk's by then, and a soft
\* removal that failed without the fallback removes nothing.
THEOREM RemovalIsTruthful == Spec => []RemovalTruthful
<1>1. IInv => RemovalTruthful
  <2> SUFFICES ASSUME IInv, NEW r \in Removers
               PROVE  /\ rm[r].pc = "done" /\ rm[r].status = "SUCCESS" /\ rm[r].found # NoDisk =>
                           \/ life[rm[r].found] \notin {"live", "signalled"}
                           \/ rm[r].removing \notin {rm[r].found, NoDisk}
                      /\ rm[r].softFailed /\ SoftOnly(r) =>
                           rm[r].removing = NoDisk /\ rm[r].status # "SUCCESS"
    BY DEF RemovalTruthful
  <2>1. CallFits(rm[r], life, DeviceList)
    BY DEF IInv, CallOK
  <2> QED
    BY <2>1 DEF CallFits, SoftOnly
<1> QED
  BY <1>1, Invariant, PTL

\* When RemoveAllWnbdDevices goes on to uninstall the adapter without an error, no
\* disk is left that could lose data, provided that no creation was under way
\* when it disallowed mappings, nobody allowed them again and the disk that was
\* first in the list was not unlinked while the list was read.
THEOREM EveryDiskRemoved == Spec => []AllRemoved
<1>1. IInv => AllRemoved
  BY DEF IInv, AllOK, Closed, AllRemoved
<1> QED
  BY <1>1, Invariant, PTL
=============================================================================
