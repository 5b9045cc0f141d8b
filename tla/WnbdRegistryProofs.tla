------------------------- MODULE WnbdRegistryProofs -------------------------
(***************************************************************************)
(* TLAPS proofs about WnbdRegistry, for any number of mappings, callers,   *)
(* addresses and cleanups.  IInv is the inductive invariant: the stage of  *)
(* each mapping's creation and of its monitor thread fix what memory,      *)
(* address, list entry and references it has.                              *)
(***************************************************************************)
EXTENDS WnbdRegistry, FiniteSetTheorems, WellFoundedInduction, TLAPS

\* The sections of the monitor thread before it unlinks the device, and those
\* before it frees it.
Linked    == {"waiting", "stopping", "rundown", "unlink"}
Unfreed   == Linked \cup {"unlinked", "counted"}
\* The sections of a creation after its monitor thread was started.
Handed    == {"monitored", "inserted", "counted", "mapped"}

\* What a creation has acquired so far, and what its monitor thread gave back.
Stages ==
  \A c \in Creators :
    /\ monitorPc[c] # "none" <=> createPc[c] \in Handed
    /\ createPc[c] = "monitored" => monitorPc[c] \in Linked
    /\ memory[c] = "allocated" <=>
         createPc[c] \in {"allocated", "addressed", "exit"} \/ monitorPc[c] \in Unfreed
    /\ createPc[c] \in {"idle", "protected", "allowed", "refused", "allocated"} =>
         ScsiBitNumber[c] = NoAddress
    /\ createPc[c] \in {"addressed"} \cup Handed => ScsiBitNumber[c] # NoAddress
    /\ createPc[c] \notin {"idle", "protected", "refused"} => RPAcquired[c]
    /\ createPc[c] = "idle" => ~RPAcquired[c]

\* The list holds, once each, the devices that were inserted and not unlinked.
Listing ==
  /\ \A i, j \in DOMAIN DeviceList : DeviceList[i] = DeviceList[j] => i = j
  /\ \A d \in Creators :
       d \in Listed <=> /\ createPc[d] \in {"inserted", "counted", "mapped"}
                        /\ monitorPc[d] \in Linked

\* A reference is only taken before the rundown and given back before the unlink.
Holds ==
  /\ \A d \in Creators : RundownActive[d] <=> monitorPc[d] \notin {"none", "waiting", "stopping"}
  /\ \A t \in Callers :
       callPc[t] \in {"using", "acquired"} =>
         /\ callDevice[t] \in Listed
         /\ monitorPc[callDevice[t]] \in {"waiting", "stopping", "rundown"}

\* A device has its own PDO, that of a disk that was started late, or none; only a
\* removal that is under way has one.
Pnp ==
  /\ \A d \in Creators : PDO[d] \in {d, NoDevice} \cup lateStarts
  /\ \A t \in Callers :
       callPdo[t] # NoDevice =>
         /\ callPc[t] \in {"acquired", "waiting"}
         /\ callDevice[t] = callPdo[t] \/ callPdo[t] \in lateStarts

\* A cleanup waits with the extension run down, so that no reference comes back.
Cleanup ==
  /\ adapterPc \in {"waiting", "stopped"} => ExtensionRundown
  /\ adapterPc = "stopped" => ExtensionRefs = {}

\* The creations and removals DeviceCount does not know of are finitely many.
Counting ==
  /\ IsFiniteSet({c \in Creators : createPc[c] = "inserted"})
  /\ IsFiniteSet({d \in Creators : monitorPc[d] = "unlinked"})
  /\ DeviceCountLags

IInv ==
  /\ TypeOK /\ Stages /\ Listing /\ AddressPerDisk /\ ExtensionRefsDriftByRefusals
  /\ Holds /\ StaleOnlyIfUnlinked /\ Pnp /\ Cleanup /\ Counting

-----------------------------------------------------------------------------
(* The device list *)

\* A set of numbers that is not empty has a least one.
LEMMA LeastNumber ==
  ASSUME NEW N \in SUBSET Nat, N # {}
  PROVE  \E i \in N : \A j \in N : i <= j
<1>1. PICK i \in N : \A j \in N : ~(<<j, i>> \in OpToRel(<, Nat))
  BY NatLessThanWellFounded, WFMin, Zenon
<1>2. \A j \in N : ~(j < i)
  BY <1>1 DEF OpToRel
<1> QED
  BY <1>2

\* A walk of the list that finds a device finds one that is listed and matches.
LEMMA FirstListedFound ==
  ASSUME DeviceList \in Seq(Creators), NEW m, FirstListed(m) # NoDevice
  PROVE  FirstListed(m) \in Listed /\ FirstListed(m) \in m /\ FirstListed(m) \in Creators
<1> DEFINE hits == {i \in DOMAIN DeviceList : DeviceList[i] \in m}
<1>1. hits # {}
  BY DEF FirstListed
<1>2. hits \in SUBSET Nat
  OBVIOUS
<1>3. \E i \in hits : \A j \in hits : i <= j
  BY <1>1, <1>2, LeastNumber
<1>4. PICK k \in hits : FirstListed(m) = DeviceList[k]
  BY <1>1, <1>3 DEF FirstListed
<1> QED
  BY <1>4 DEF Listed

\* The same of the three lookups.
LEMMA LookupsFind ==
  ASSUME DeviceList \in Seq(Creators)
  PROVE  /\ \A c : WnbdFindDeviceByConnId(c) # NoDevice =>
                     /\ WnbdFindDeviceByConnId(c) \in Listed \cap Creators
                     /\ WnbdFindDeviceByConnId(c) = c
         /\ \A n : WnbdFindDeviceByInstanceName(n) # NoDevice =>
                     /\ WnbdFindDeviceByInstanceName(n) \in Listed \cap Creators
                     /\ NameOf[WnbdFindDeviceByInstanceName(n)] = n
         /\ \A a : WnbdFindDeviceByAddr(a) # NoDevice =>
                     /\ WnbdFindDeviceByAddr(a) \in Listed \cap Creators
                     /\ ScsiBitNumber[WnbdFindDeviceByAddr(a)] = a
<1>1. ASSUME NEW c, WnbdFindDeviceByConnId(c) # NoDevice
      PROVE  WnbdFindDeviceByConnId(c) \in Listed \cap Creators \cap {c}
  BY <1>1, FirstListedFound DEF WnbdFindDeviceByConnId
<1>2. ASSUME NEW n, WnbdFindDeviceByInstanceName(n) # NoDevice
      PROVE  WnbdFindDeviceByInstanceName(n) \in Listed \cap {d \in Creators : NameOf[d] = n}
  BY <1>2, FirstListedFound DEF WnbdFindDeviceByInstanceName
<1>3. ASSUME NEW a, WnbdFindDeviceByAddr(a) # NoDevice
      PROVE  WnbdFindDeviceByAddr(a) \in Listed \cap {d \in Creators : ScsiBitNumber[d] = a}
  BY <1>3, FirstListedFound DEF WnbdFindDeviceByAddr
<1> QED
  BY <1>1, <1>2, <1>3

\* Unlinking an entry takes its device out and keeps the others, once each.
LEMMA WithoutEntryRange ==
  ASSUME DeviceList \in Seq(Creators), NEW k \in DOMAIN DeviceList,
         \A i, j \in DOMAIN DeviceList : DeviceList[i] = DeviceList[j] => i = j
  PROVE  /\ WithoutEntry(k) \in Seq(Creators)
         /\ Len(WithoutEntry(k)) = Len(DeviceList) - 1
         /\ \A i, j \in DOMAIN WithoutEntry(k) : WithoutEntry(k)[i] = WithoutEntry(k)[j] => i = j
         /\ {WithoutEntry(k)[i] : i \in DOMAIN WithoutEntry(k)} = Listed \ {DeviceList[k]}
<1> DEFINE r == WithoutEntry(k)
           n == Len(DeviceList)
<1>1. n \in Nat /\ k \in 1..n /\ DOMAIN DeviceList = 1..n /\ n - 1 \in Nat
  OBVIOUS
<1>2. DOMAIN r = 1..(n - 1) /\ \A j \in 1..(n - 1) : r[j] = DeviceList[IF j < k THEN j ELSE j + 1]
  BY DEF WithoutEntry
<1>3. \A j \in 1..(n - 1) : (IF j < k THEN j ELSE j + 1) \in 1..n \ {k}
  BY <1>1
<1>4. r \in Seq(Creators) /\ Len(r) = n - 1
  <2>1. r = [j \in 1..(n - 1) |-> DeviceList[IF j < k THEN j ELSE j + 1]]
    BY DEF WithoutEntry
  <2>2. \A j \in 1..(n - 1) : DeviceList[IF j < k THEN j ELSE j + 1] \in Creators
    BY <1>1, <1>3
  <2> QED
    BY <1>1, <2>1, <2>2
<1> HIDE DEF r, n
<1>5. \A i, j \in DOMAIN r : r[i] = r[j] => i = j
  <2> SUFFICES ASSUME NEW i \in 1..(n - 1), NEW j \in 1..(n - 1), r[i] = r[j] PROVE i = j
    BY <1>2
  <2>1. (IF i < k THEN i ELSE i + 1) = (IF j < k THEN j ELSE j + 1)
    BY <1>1, <1>2, <1>3
  <2> QED
    BY <1>1, <2>1
<1>6. ASSUME NEW x PROVE (\E i \in DOMAIN r : x = r[i]) <=> x \in Listed /\ x # DeviceList[k]
  <2>1. ASSUME NEW i \in DOMAIN r, x = r[i] PROVE x \in Listed /\ x # DeviceList[k]
    <3>1. PICK p \in 1..n \ {k} : r[i] = DeviceList[p]
      BY <1>2, <1>3
    <3> QED
      BY <1>1, <2>1, <3>1 DEF Listed
  <2>2. ASSUME x \in Listed, x # DeviceList[k] PROVE \E i \in DOMAIN r : x = r[i]
    <3>1. PICK p \in 1..n : x = DeviceList[p] /\ p # k
      BY <1>1, <2>2 DEF Listed
    <3>2. CASE p < k
      BY <1>1, <1>2, <3>1, <3>2
    <3>3. CASE p > k
      <4>1. p - 1 \in 1..(n - 1) /\ ~(p - 1 < k) /\ (p - 1) + 1 = p
        BY <1>1, <3>3
      <4> QED
        BY <1>2, <3>1, <4>1
    <3> QED
      BY <1>1, <3>1, <3>2, <3>3
  <2> QED
    BY <2>1, <2>2
<1> QED
  BY <1>4, <1>5, <1>6 DEF r, n

-----------------------------------------------------------------------------
(* Types *)

USE DEF createVars, pnpVars, deviceVars, listVars, extVars, optionVars, callVars, adapterVars

\* A step of a creation keeps the types.
LEMMA CreateTypeStep ==
  ASSUME TypeOK, NEW c \in Creators, CreateBegin(c) \/ CreateSteps(c)
  PROVE  TypeOK'
<1> USE RegistryAssumption DEF CreateUnchanged, CreateGoes
<1> USE DEF CreateBegin, CreateSteps, CreateRefused, CreateAllowed, CreateCollision, CreateAllocate,
        CreateAssignAddress, CreateFails, CreateExit, CreateExitRelease, CreateStartMonitor,
        CreateInsert, CreateCount, CreateMapped
<1>1. createPc' \in [Creators -> CreatePcs] /\ RPAcquired' \in [Creators -> BOOLEAN]
  BY DEF TypeOK, CreateTypes, CreatePcs, AdapterTypes
<1>2. /\ memory' \in [Creators -> {"none", "allocated", "freed"}]
      /\ freedAccess' \in SUBSET Creators /\ failures' \in 0..MaxFailures
  BY DEF TypeOK, CreateTypes, ResourceFails
<1>3. ScsiBitNumber' \in [Creators -> Addresses \cup {NoAddress}] /\ ScsiBitMap' \in SUBSET Addresses
  BY DEF TypeOK, CreateTypes, DeviceTypes
<1>4. monitorPc' \in [Creators -> MonitorPcs]
  BY DEF TypeOK, DeviceTypes, MonitorPcs
<1>5. DeviceList' \in Seq(Creators) /\ DeviceCount' \in Int
  BY DEF TypeOK, DeviceTypes
<1>6. ExtensionRefs' \in SUBSET Creators
  BY DEF TypeOK, AdapterTypes
<1>7. /\ UNCHANGED <<PDO, lateStarts, DeviceRemovalEvent, RundownActive, callPc, callDevice, callPdo>>
      /\ UNCHANGED <<ExtensionRundown, GlobalDeviceRemovalEvent, NewMappingsAllowed, bugCheck,
                     setOptPc, setOpts, adapterPc, cleanups>>
  OBVIOUS
<1> QED
  BY ONLY TypeOK, <1>1, <1>2, <1>3, <1>4, <1>5, <1>6, <1>7
     DEF TypeOK, CreateTypes, DeviceTypes, CallTypes, AdapterTypes

\* A step of a monitor thread keeps the types.
LEMMA MonitorTypeStep ==
  ASSUME TypeOK, Listing, NEW d \in Creators, MonitorSteps(d)
  PROVE  TypeOK'
<1> USE RegistryAssumption DEF MonitorUnchanged, MonitorGoes
<1> USE DEF MonitorSteps, MonitorWake, MonitorRundown, MonitorDrained, MonitorUnlink,
        MonitorUnlinkEarly, MonitorCount, MonitorFree, MonitorRelease, MonitorExit
<1>1. /\ memory' \in [Creators -> {"none", "allocated", "freed"}]
      /\ DeviceRemovalEvent' \in [Creators -> BOOLEAN]
      /\ RundownActive' \in [Creators -> BOOLEAN]
      /\ PDO' \in [Creators -> Creators \cup {NoDevice}]
  BY DEF TypeOK, CreateTypes, DeviceTypes
<1>2. monitorPc' \in [Creators -> MonitorPcs]
  BY DEF TypeOK, DeviceTypes, MonitorPcs
<1>3. DeviceList' \in Seq(Creators)
  BY WithoutEntryRange DEF TypeOK, DeviceTypes, Listing
<1>4. ScsiBitMap' \in SUBSET Addresses /\ DeviceCount' \in Int /\ ExtensionRefs' \in SUBSET Creators
  BY DEF TypeOK, DeviceTypes, AdapterTypes
<1>5. GlobalDeviceRemovalEvent' \in {GlobalDeviceRemovalEvent, FALSE} /\ bugCheck' \in {bugCheck, TRUE}
  OBVIOUS
<1>6. /\ UNCHANGED <<createPc, RPAcquired, ScsiBitNumber, freedAccess, failures, lateStarts>>
      /\ UNCHANGED <<callPc, callDevice, callPdo, ExtensionRundown, NewMappingsAllowed, setOptPc,
                     setOpts, adapterPc, cleanups>>
  OBVIOUS
<1> QED
  BY ONLY TypeOK, <1>1, <1>2, <1>3, <1>4, <1>5, <1>6
     DEF TypeOK, CreateTypes, DeviceTypes, CallTypes, AdapterTypes

\* Calls, PnP, options and cleanups keep the types.
LEMMA CallTypeStep ==
  ASSUME TypeOK,
         \/ \E c \in Creators : StartDevice(c)
         \/ \E t \in Callers : Calls(t) \/ WnbdDisconnectAsync(t) \/ CallSteps(t)
  PROVE  TypeOK'
<1> USE RegistryAssumption DEF CallUnchanged
<1> USE DEF StartDevice, Calls, UseDevice, RemoveDevice, WnbdDeleteConnection, UseNamedDevice, Acquires,
        ListBegin, ListWalk,
        WnbdDisconnectAsync, CallSteps, WnbdReleaseDevice, WnbdDisconnectSync, Disconnected
<1>1. DeviceList \in Seq(Creators)
  BY DEF TypeOK, DeviceTypes
<1>2. CallTypes'
  <2>1. FirstListed(Creators) \in Creators \cup {NoDevice}
    BY <1>1, FirstListedFound
  <2> QED
    BY <1>1, <2>1, LookupsFind DEF TypeOK, CallTypes, WnbdAcquireDevice
<1>3. PDO' \in [Creators -> Creators \cup {NoDevice}] /\ lateStarts' \in SUBSET Creators
  BY DEF TypeOK, DeviceTypes
<1>4. DeviceRemovalEvent' \in [Creators -> BOOLEAN]
  BY DEF TypeOK, DeviceTypes
<1>5. UNCHANGED <<createVars, RundownActive, listVars, extVars, optionVars, adapterVars, monitorPc,
                  GlobalDeviceRemovalEvent, failures>>
  OBVIOUS
<1>6. bugCheck' \in BOOLEAN
  <2>1. ASSUME NEW d, MayHalt(d) PROVE bugCheck' \in BOOLEAN
    BY <2>1, Zenon DEF MayHalt
  <2>2. bugCheck' = bugCheck \/ \E d : MayHalt(d)
    OBVIOUS
  <2>3. bugCheck \in BOOLEAN
    BY DEF TypeOK, AdapterTypes
  <2> QED
    BY ONLY <2>1, <2>2, <2>3
<1> QED
  BY ONLY TypeOK, <1>2, <1>3, <1>4, <1>5, <1>6 DEF TypeOK, CreateTypes, DeviceTypes, AdapterTypes

\* Every step keeps the types.
LEMMA TypeStep ==
  ASSUME TypeOK, Listing, [Next]_vars
  PROVE  TypeOK'
<1>1. ASSUME SetNewMappingsAllowed \/ SetOptWaited PROVE TypeOK'
  <2> USE RegistryAssumption DEF SetNewMappingsAllowed, SetOptWaited, OptionUnchanged
  <2>1. NewMappingsAllowed' \in BOOLEAN
    BY <1>1 DEF TypeOK, AdapterTypes
  <2>2. setOptPc' \in {"idle", "waiting"} /\ setOpts' \in 0..MaxSetOpts
    BY <1>1 DEF TypeOK, AdapterTypes
  <2>3. UNCHANGED <<createVars, deviceVars, listVars, extVars, callVars, adapterVars, monitorPc,
                    GlobalDeviceRemovalEvent, failures, bugCheck>>
    BY <1>1
  <2> QED
    BY ONLY TypeOK, <2>1, <2>2, <2>3 DEF TypeOK, CreateTypes, DeviceTypes, CallTypes, AdapterTypes
<1>2. ASSUME CleanupSignal \/ CleanupSteps PROVE TypeOK'
  <2> USE RegistryAssumption DEF CleanupSignal, CleanupSteps, CleanupRundown, CleanupReturns,
        AdapterUnchanged
  <2>1. /\ GlobalDeviceRemovalEvent' \in {GlobalDeviceRemovalEvent, TRUE}
        /\ ExtensionRundown' \in {ExtensionRundown, TRUE}
    BY <1>2
  <2>2. adapterPc' \in {"running", "signalled", "waiting", "stopped"} /\ cleanups' \in 0..MaxCleanups
    BY <1>2 DEF TypeOK, AdapterTypes
  <2>3. UNCHANGED <<createVars, deviceVars, listVars, ExtensionRefs, optionVars, callVars, monitorPc,
                    failures, bugCheck>>
    BY <1>2
  <2> QED
    BY ONLY TypeOK, <2>1, <2>2, <2>3 DEF TypeOK, CreateTypes, DeviceTypes, CallTypes, AdapterTypes
<1>3. ASSUME UNCHANGED vars PROVE TypeOK'
  BY <1>3 DEF vars, TypeOK, CreateTypes, DeviceTypes, CallTypes, AdapterTypes
<1> QED
  BY <1>1, <1>2, <1>3, CreateTypeStep, MonitorTypeStep, CallTypeStep DEF Next

-----------------------------------------------------------------------------
(* Stages and list *)

\* A new device goes to the end of the list.
LEMMA InsertRange ==
  ASSUME DeviceList \in Seq(Creators), NEW c \in Creators, DeviceList' = Append(DeviceList, c)
  PROVE  /\ Listed' = Listed \cup {c} /\ Len(DeviceList') = Len(DeviceList) + 1
         /\ c \notin Listed /\ (\A i, j \in DOMAIN DeviceList : DeviceList[i] = DeviceList[j] => i = j) =>
              \A i, j \in DOMAIN DeviceList' : DeviceList'[i] = DeviceList'[j] => i = j
<1> DEFINE n == Len(DeviceList)
           r == DeviceList'
<1>1. n \in Nat /\ DOMAIN DeviceList = 1..n /\ DOMAIN r = 1..(n + 1) /\ Len(r) = n + 1
  OBVIOUS
<1>2. r[n + 1] = c /\ \A i \in 1..n : r[i] = DeviceList[i]
  OBVIOUS
<1>3. Listed' = {r[i] : i \in DOMAIN r}
  BY DEF Listed
<1> HIDE DEF n, r
<1>4. {r[i] : i \in DOMAIN r} = Listed \cup {c}
  BY <1>1, <1>2 DEF Listed
<1>5. ASSUME c \notin Listed, \A i, j \in DOMAIN DeviceList : DeviceList[i] = DeviceList[j] => i = j,
             NEW i \in DOMAIN r, NEW j \in DOMAIN r, r[i] = r[j]
      PROVE  i = j
  BY <1>1, <1>2, <1>5 DEF Listed
<1> QED
  BY <1>1, <1>3, <1>4, <1>5 DEF n, r

\* What creations and monitor threads acquire and give back follows their stages.
LEMMA StagesStep ==
  ASSUME TypeOK, Stages, Listing, [Next]_vars
  PROVE  Stages'
<1> USE RegistryAssumption DEF TypeOK, Stages, Handed, Linked, Unfreed
<1>1. ASSUME NEW c \in Creators, CreateBegin(c) \/ CreateSteps(c) PROVE Stages'
  <2> USE <1>1 DEF CreateTypes, DeviceTypes, AdapterTypes, CreatePcs, MonitorPcs
  <2> USE DEF CreateBegin, CreateSteps, CreateRefused, CreateAllowed, CreateCollision, CreateAllocate,
        CreateAssignAddress, CreateFails, CreateExit, CreateExitRelease, CreateStartMonitor,
        CreateInsert, CreateCount, CreateMapped, CreateGoes
  <2>1. \A d \in Creators \ {c} :
          /\ createPc'[d] = createPc[d] /\ monitorPc'[d] = monitorPc[d] /\ memory'[d] = memory[d]
          /\ ScsiBitNumber'[d] = ScsiBitNumber[d] /\ RPAcquired'[d] = RPAcquired[d]
    OBVIOUS
  <2>2. /\ monitorPc'[c] # "none" <=> createPc'[c] \in Handed
        /\ createPc'[c] = "monitored" => monitorPc'[c] \in Linked
        /\ memory'[c] = "allocated" <=>
             createPc'[c] \in {"allocated", "addressed", "exit"} \/ monitorPc'[c] \in Unfreed
    OBVIOUS
  <2>3. /\ createPc'[c] \in {"idle", "protected", "allowed", "refused", "allocated"} =>
             ScsiBitNumber'[c] = NoAddress
        /\ createPc'[c] \in {"addressed"} \cup Handed => ScsiBitNumber'[c] # NoAddress
    BY DEF Addresses, NoAddress
  <2>4. /\ createPc'[c] \notin {"idle", "protected", "refused"} => RPAcquired'[c]
        /\ createPc'[c] = "idle" => ~RPAcquired'[c]
    OBVIOUS
  <2> QED
    BY ONLY Stages, <2>1, <2>2, <2>3, <2>4 DEF Stages
<1>2. ASSUME NEW d \in Creators, MonitorSteps(d) PROVE Stages'
  <2> USE <1>2 DEF CreateTypes, DeviceTypes, MonitorPcs
  <2> USE DEF MonitorSteps, MonitorWake, MonitorRundown, MonitorDrained, MonitorUnlink,
        MonitorUnlinkEarly, MonitorCount, MonitorFree, MonitorRelease, MonitorExit, MonitorGoes, MonitorUnchanged
  <2>1. UNCHANGED <<createPc, RPAcquired, ScsiBitNumber>>
    OBVIOUS
  <2>2. \A c \in Creators \ {d} : monitorPc'[c] = monitorPc[c] /\ memory'[c] = memory[c]
    OBVIOUS
  <2>3. MonitorUnlink(d) => createPc[d] # "monitored"
    BY DEF Listing, Listed
  <2>4. /\ monitorPc'[d] # "none" <=> createPc[d] \in Handed
        /\ createPc[d] = "monitored" => monitorPc'[d] \in Linked
        /\ memory'[d] = "allocated" <=>
             createPc[d] \in {"allocated", "addressed", "exit"} \/ monitorPc'[d] \in Unfreed
    BY <2>3
  <2> QED
    BY ONLY Stages, <2>1, <2>2, <2>4 DEF Stages
<1>3. ASSUME UNCHANGED <<createPc, RPAcquired, memory, ScsiBitNumber, monitorPc>> PROVE Stages'
  BY <1>3
<1>4. ASSUME \/ \E c \in Creators : StartDevice(c)
             \/ \E t \in Callers : Calls(t) \/ WnbdDisconnectAsync(t) \/ CallSteps(t)
      PROVE  Stages'
  BY <1>3, <1>4 DEF StartDevice, Calls, UseDevice, RemoveDevice, WnbdDeleteConnection, UseNamedDevice, Acquires,
        ListBegin, ListWalk,
        WnbdDisconnectAsync, CallSteps, WnbdReleaseDevice, WnbdDisconnectSync, Disconnected, CallUnchanged
<1>5. ASSUME SetNewMappingsAllowed \/ SetOptWaited \/ CleanupSignal \/ CleanupSteps \/ UNCHANGED vars
      PROVE  Stages'
  BY <1>3, <1>5 DEF SetNewMappingsAllowed, SetOptWaited, OptionUnchanged, CleanupSignal,
        CleanupSteps, CleanupRundown, CleanupReturns, AdapterUnchanged, vars
<1> QED
  BY <1>1, <1>2, <1>4, <1>5 DEF Next

\* The list follows the stages.
LEMMA ListingStep ==
  ASSUME TypeOK, Stages, Listing, [Next]_vars
  PROVE  Listing'
<1> USE RegistryAssumption DEF TypeOK, DeviceTypes, CreateTypes, Listing, Linked
<1>1. ASSUME UNCHANGED DeviceList,
             \A d \in Creators :
               (/\ createPc'[d] \in {"inserted", "counted", "mapped"} /\ monitorPc'[d] \in Linked) <=>
               (/\ createPc[d] \in {"inserted", "counted", "mapped"} /\ monitorPc[d] \in Linked)
      PROVE  Listing'
  BY <1>1 DEF Listed
<1>2. ASSUME NEW c \in Creators, CreateBegin(c) \/ CreateSteps(c) PROVE Listing'
  <2>1. CASE CreateInsert(c)
    <3>1. c \notin Listed /\ monitorPc[c] \in Linked
      BY <2>1 DEF CreateInsert, Stages
    <3>2. DeviceList' = Append(DeviceList, c) /\ UNCHANGED monitorPc
      BY <2>1 DEF CreateInsert
    <3>3. createPc' = [createPc EXCEPT ![c] = "inserted"]
      BY <2>1 DEF CreateInsert, CreateGoes
    <3> QED
      BY <3>1, <3>2, <3>3, InsertRange
  <2>2. CASE ~CreateInsert(c)
    <3>1. UNCHANGED DeviceList
      BY <1>2, <2>2 DEF CreateBegin, CreateSteps, CreateRefused, CreateAllowed, CreateCollision, CreateAllocate,
        CreateAssignAddress, CreateFails, CreateExit, CreateExitRelease, CreateStartMonitor,
        CreateInsert, CreateCount, CreateMapped
    <3>2. \A d \in Creators \ {c} : createPc'[d] = createPc[d] /\ monitorPc'[d] = monitorPc[d]
      BY <1>2 DEF CreateBegin, CreateSteps, CreateRefused, CreateAllowed, CreateCollision, CreateAllocate,
        CreateAssignAddress, CreateFails, CreateExit, CreateExitRelease, CreateStartMonitor,
        CreateInsert, CreateCount, CreateMapped, CreateGoes
    <3>3. (createPc'[c] \in {"inserted", "counted", "mapped"} /\ monitorPc'[c] \in Linked) <=>
          (createPc[c] \in {"inserted", "counted", "mapped"} /\ monitorPc[c] \in Linked)
      BY <1>2, <2>2 DEF CreateBegin, CreateSteps, CreateRefused, CreateAllowed, CreateCollision, CreateAllocate,
        CreateAssignAddress, CreateFails, CreateExit, CreateExitRelease, CreateStartMonitor,
        CreateInsert, CreateCount, CreateMapped, CreateGoes
    <3> QED
      BY <1>1, <3>1, <3>2, <3>3
  <2> QED
    BY <2>1, <2>2
<1>3. ASSUME NEW d \in Creators, MonitorSteps(d) PROVE Listing'
  <2>1. CASE MonitorUnlink(d)
    <3>1. PICK k \in DOMAIN DeviceList : DeviceList[k] = d /\ DeviceList' = WithoutEntry(k)
      BY <2>1 DEF MonitorUnlink
    <3>2. Listed' = Listed \ {d}
      <4>1. Listed' = {WithoutEntry(k)[i] : i \in DOMAIN WithoutEntry(k)}
        BY <3>1 DEF Listed
      <4> QED
        BY <3>1, <4>1, WithoutEntryRange
    <3>3. monitorPc' = [monitorPc EXCEPT ![d] = "unlinked"] /\ UNCHANGED createPc
      BY <2>1 DEF MonitorUnlink, MonitorGoes, MonitorUnchanged
    <3> QED
      BY <3>1, <3>2, <3>3, WithoutEntryRange
  <2>2. CASE ~MonitorUnlink(d)
    BY <1>1, <1>3, <2>2 DEF MonitorSteps, MonitorWake, MonitorRundown, MonitorDrained, MonitorUnlink,
        MonitorUnlinkEarly, MonitorCount, MonitorFree, MonitorRelease, MonitorExit, MonitorGoes, MonitorUnchanged
  <2> QED
    BY <2>1, <2>2
<1>4. ASSUME \/ \E c \in Creators : StartDevice(c)
             \/ \E t \in Callers : Calls(t) \/ WnbdDisconnectAsync(t) \/ CallSteps(t)
      PROVE  Listing'
  BY <1>1, <1>4 DEF StartDevice, Calls, UseDevice, RemoveDevice, WnbdDeleteConnection, UseNamedDevice, Acquires,
        ListBegin, ListWalk,
        WnbdDisconnectAsync, CallSteps, WnbdReleaseDevice, WnbdDisconnectSync, Disconnected, CallUnchanged
<1>5. ASSUME SetNewMappingsAllowed \/ SetOptWaited \/ CleanupSignal \/ CleanupSteps \/ UNCHANGED vars
      PROVE  Listing'
  BY <1>1, <1>5 DEF SetNewMappingsAllowed, SetOptWaited, OptionUnchanged, CleanupSignal,
        CleanupSteps, CleanupRundown, CleanupReturns, AdapterUnchanged, vars
<1> QED
  BY <1>2, <1>3, <1>4, <1>5 DEF Next

-----------------------------------------------------------------------------
(* Addresses and references *)

\* An address is taken when its bit is clear and given back when its bit is cleared.
LEMMA AddressStep ==
  ASSUME TypeOK, Stages, Listing, AddressPerDisk, [Next]_vars
  PROVE  AddressPerDisk'
<1> USE RegistryAssumption DEF TypeOK, CreateTypes, DeviceTypes
<1>1. ASSUME UNCHANGED <<ScsiBitMap, ScsiBitNumber>>, Addressed' = Addressed PROVE AddressPerDisk'
  BY <1>1 DEF AddressPerDisk
<1>2. ASSUME NEW c \in Addressed, UNCHANGED ScsiBitNumber, Addressed' = Addressed \ {c},
             ScsiBitMap' = ScsiBitMap \ {ScsiBitNumber[c]}
      PROVE  AddressPerDisk'
  BY <1>2 DEF AddressPerDisk
<1>3. ASSUME NEW c \in Creators, CreateBegin(c) \/ CreateSteps(c) PROVE AddressPerDisk'
  <2> USE DEF CreateGoes
  <2>0. \A d \in Creators \ {c} :
          createPc'[d] = createPc[d] /\ monitorPc'[d] = monitorPc[d] /\ ScsiBitNumber'[d] = ScsiBitNumber[d]
    BY <1>3 DEF CreateBegin, CreateSteps, CreateRefused, CreateAllowed, CreateCollision, CreateAllocate,
        CreateAssignAddress, CreateFails, CreateExit, CreateExitRelease, CreateStartMonitor,
        CreateInsert, CreateCount, CreateMapped
  <2>1. CASE CreateAssignAddress(c)
    <3>1. PICK a \in Addresses \ ScsiBitMap :
            /\ ScsiBitMap' = ScsiBitMap \cup {a}
            /\ ScsiBitNumber' = [ScsiBitNumber EXCEPT ![c] = a]
      BY <2>1 DEF CreateAssignAddress
    <3>2. c \notin Addressed
      BY <2>1 DEF CreateAssignAddress, Stages, Addressed
    <3>3. c \in Addressed'
      BY <2>1, <3>1 DEF CreateAssignAddress, Stages, Addressed, Addresses, NoAddress, Handed
    <3>4. Addressed' = Addressed \cup {c}
      BY <2>0, <3>2, <3>3 DEF Addressed
    <3>5. \A d \in Addressed : ScsiBitNumber[d] # a
      BY <3>1 DEF AddressPerDisk
    <3> QED
      BY <3>1, <3>2, <3>4, <3>5 DEF AddressPerDisk, Addressed
  <2>2. CASE CreateExit(c)
    <3>1. /\ ScsiBitMap' = ScsiBitMap \ {ScsiBitNumber[c]} /\ UNCHANGED <<ScsiBitNumber, monitorPc>>
          /\ createPc[c] = "exit" /\ createPc'[c] = "release"
      BY <2>2 DEF CreateExit
    <3>2. Addressed' = Addressed \ {c}
      BY <2>0, <3>1 DEF Addressed
    <3>3. CASE c \in Addressed
      BY <1>2, <3>1, <3>2, <3>3
    <3>4. CASE c \notin Addressed
      <4>1. ScsiBitNumber[c] = NoAddress
        BY <3>1, <3>4 DEF Addressed, Stages, Handed
      <4>2. ScsiBitMap' = ScsiBitMap
        BY <3>1, <4>1 DEF Addresses, NoAddress
      <4> QED
        BY <1>1, <3>1, <3>2, <3>4, <4>2
    <3> QED
      BY <3>3, <3>4
  <2>3. CASE ~CreateAssignAddress(c) /\ ~CreateExit(c)
    <3>1. UNCHANGED <<ScsiBitMap, ScsiBitNumber>>
      BY <1>3, <2>3 DEF CreateBegin, CreateSteps, CreateRefused, CreateAllowed, CreateCollision, CreateAllocate,
        CreateAssignAddress, CreateFails, CreateExit, CreateExitRelease, CreateStartMonitor,
        CreateInsert, CreateCount, CreateMapped
    <3>2. c \in Addressed' <=> c \in Addressed
      BY <1>3, <2>3, <3>1 DEF CreateBegin, CreateSteps, CreateRefused, CreateAllowed, CreateCollision, CreateAllocate,
        CreateAssignAddress, CreateFails, CreateExit, CreateExitRelease, CreateStartMonitor,
        CreateInsert, CreateCount, CreateMapped,
            Addressed, Stages, Handed
    <3>3. Addressed' = Addressed
      BY <2>0, <3>2 DEF Addressed
    <3> QED
      BY <1>1, <3>1, <3>3
  <2> QED
    BY <2>1, <2>2, <2>3
<1>4. ASSUME NEW d \in Creators, MonitorSteps(d) PROVE AddressPerDisk'
  <2>1. CASE MonitorUnlink(d)
    <3>1. d \in Addressed
      BY <2>1 DEF MonitorUnlink, Addressed, Stages, Handed
    <3>2. /\ monitorPc' = [monitorPc EXCEPT ![d] = "unlinked"] /\ UNCHANGED <<createPc, ScsiBitNumber>>
          /\ ScsiBitMap' = ScsiBitMap \ {ScsiBitNumber[d]}
      BY <2>1 DEF MonitorUnlink, MonitorGoes, MonitorUnchanged
    <3>3. Addressed' = Addressed \ {d}
      BY <3>2 DEF Addressed
    <3> QED
      BY <1>2, <3>1, <3>2, <3>3
  <2>2. CASE ~MonitorUnlink(d)
    <3>1. UNCHANGED <<ScsiBitMap, ScsiBitNumber, createPc>>
      BY <1>4, <2>2 DEF MonitorSteps, MonitorWake, MonitorRundown, MonitorDrained, MonitorUnlink,
        MonitorUnlinkEarly, MonitorCount, MonitorFree, MonitorRelease, MonitorExit, MonitorUnchanged
    <3>2. \A c \in Creators :
            monitorPc'[c] \in Linked \cup {"none"} <=> monitorPc[c] \in Linked \cup {"none"}
      BY <1>4, <2>2 DEF MonitorSteps, MonitorWake, MonitorRundown, MonitorDrained, MonitorUnlink,
        MonitorUnlinkEarly, MonitorCount, MonitorFree, MonitorRelease, MonitorExit, MonitorGoes, Linked
    <3>3. Addressed' = Addressed
      BY <3>1, <3>2 DEF Addressed, Linked
    <3> QED
      BY <1>1, <3>1, <3>3
  <2> QED
    BY <2>1, <2>2
<1>5. ASSUME UNCHANGED <<createPc, ScsiBitMap, ScsiBitNumber, monitorPc>> PROVE AddressPerDisk'
  BY <1>1, <1>5 DEF Addressed
<1>6. ASSUME \/ \E c \in Creators : StartDevice(c)
             \/ \E t \in Callers : Calls(t) \/ WnbdDisconnectAsync(t) \/ CallSteps(t)
      PROVE  AddressPerDisk'
  BY <1>5, <1>6 DEF StartDevice, Calls, UseDevice, RemoveDevice, WnbdDeleteConnection, UseNamedDevice, Acquires,
        ListBegin, ListWalk,
        WnbdDisconnectAsync, CallSteps, WnbdReleaseDevice, WnbdDisconnectSync, Disconnected, CallUnchanged
<1>7. ASSUME SetNewMappingsAllowed \/ SetOptWaited \/ CleanupSignal \/ CleanupSteps \/ UNCHANGED vars
      PROVE  AddressPerDisk'
  BY <1>5, <1>7 DEF SetNewMappingsAllowed, SetOptWaited, OptionUnchanged, CleanupSignal,
        CleanupSteps, CleanupRundown, CleanupReturns, AdapterUnchanged, vars
<1> QED
  BY <1>3, <1>4, <1>6, <1>7 DEF Next

\* Mapping c holds the extension.
HoldsExtension(c) ==
  \/ monitorPc[c] \notin {"none", "exiting", "gone"}
  \/ /\ createPc[c] \notin {"idle", "mapped", "refused", "failed"}
     /\ RPAcquired[c] /\ monitorPc[c] = "none"
  \/ createPc[c] = "refused" /\ RPAcquired[c]

\* ExtensionRefsDriftByRefusals, one mapping at a time.
LEMMA RefsOfEach ==
  ASSUME ExtensionRefs \in SUBSET Creators
  PROVE  ExtensionRefsDriftByRefusals <=>
           \A c \in Creators : c \in ExtensionRefs <=> HoldsExtension(c)
  BY DEF ExtensionRefsDriftByRefusals, HoldsExtension, Monitored, InProgress

\* A creation passes its reference to the monitor thread or gives it back, except
\* when it is refused.
LEMMA RefsStep ==
  ASSUME TypeOK, Stages, ExtensionRefsDriftByRefusals, [Next]_vars, TypeOK'
  PROVE  ExtensionRefsDriftByRefusals'
<1> USE RegistryAssumption DEF TypeOK, CreateTypes, DeviceTypes
<1>1. ExtensionRefs \in SUBSET Creators /\ ExtensionRefs' \in SUBSET Creators
  BY DEF AdapterTypes
<1>2. \A c \in Creators : c \in ExtensionRefs <=> HoldsExtension(c)
  BY <1>1, RefsOfEach
<1>3. SUFFICES \A c \in Creators : c \in ExtensionRefs' <=> HoldsExtension(c)'
  BY <1>1 DEF ExtensionRefsDriftByRefusals, HoldsExtension, Monitored, InProgress
<1>4. ASSUME NEW c \in Creators, CreateBegin(c) \/ CreateSteps(c), NEW d \in Creators
      PROVE  d \in ExtensionRefs' <=> HoldsExtension(d)'
  <2> USE <1>4 DEF CreateGoes
  <2> USE DEF CreateBegin, CreateSteps, CreateRefused, CreateAllowed, CreateCollision, CreateAllocate,
        CreateAssignAddress, CreateFails, CreateExit, CreateExitRelease, CreateStartMonitor,
        CreateInsert, CreateCount, CreateMapped
  <2>1. CASE d # c
    <3>1. /\ createPc'[d] = createPc[d] /\ monitorPc'[d] = monitorPc[d] /\ RPAcquired'[d] = RPAcquired[d]
          /\ d \in ExtensionRefs' <=> d \in ExtensionRefs
      BY <2>1
    <3> QED
      BY ONLY <1>2, <3>1 DEF HoldsExtension
  <2>2. CASE d = c
    BY <1>2, <2>2 DEF HoldsExtension, Stages, Handed
  <2> QED
    BY <2>1, <2>2
<1>5. ASSUME NEW d \in Creators, MonitorSteps(d), NEW c \in Creators
      PROVE  c \in ExtensionRefs' <=> HoldsExtension(c)'
  <2> USE <1>5 DEF MonitorGoes, MonitorUnchanged
  <2> USE DEF MonitorSteps, MonitorWake, MonitorRundown, MonitorDrained, MonitorUnlink,
        MonitorUnlinkEarly, MonitorCount, MonitorFree, MonitorRelease, MonitorExit
  <2>1. UNCHANGED <<createPc, RPAcquired>>
    OBVIOUS
  <2>2. CASE c # d
    <3>1. monitorPc'[c] = monitorPc[c] /\ (c \in ExtensionRefs' <=> c \in ExtensionRefs)
      BY <2>2
    <3> QED
      BY ONLY <1>2, <2>1, <3>1 DEF HoldsExtension
  <2>3. CASE c = d
    BY <1>2, <2>1, <2>3 DEF HoldsExtension, Stages, Handed
  <2> QED
    BY <2>2, <2>3
<1>6. ASSUME UNCHANGED <<createPc, RPAcquired, monitorPc, ExtensionRefs>>
      PROVE  \A c \in Creators : c \in ExtensionRefs' <=> HoldsExtension(c)'
  BY <1>2, <1>6 DEF HoldsExtension
<1>7. ASSUME \/ \E c \in Creators : StartDevice(c)
             \/ \E t \in Callers : Calls(t) \/ WnbdDisconnectAsync(t) \/ CallSteps(t)
      PROVE  UNCHANGED <<createPc, RPAcquired, monitorPc, ExtensionRefs>>
  BY <1>7 DEF StartDevice, Calls, UseDevice, RemoveDevice, WnbdDeleteConnection, UseNamedDevice, Acquires,
        ListBegin, ListWalk,
        WnbdDisconnectAsync, CallSteps, WnbdReleaseDevice, WnbdDisconnectSync, Disconnected, CallUnchanged
<1>8. ASSUME SetNewMappingsAllowed \/ SetOptWaited \/ CleanupSignal \/ CleanupSteps \/ UNCHANGED vars
      PROVE  UNCHANGED <<createPc, RPAcquired, monitorPc, ExtensionRefs>>
  BY <1>8 DEF SetNewMappingsAllowed, SetOptWaited, OptionUnchanged, CleanupSignal,
        CleanupSteps, CleanupRundown, CleanupReturns, AdapterUnchanged, vars
<1> QED
  BY <1>4, <1>5, <1>6, <1>7, <1>8 DEF Next

\* A caller keeps what it acquired in the list until it lets go of it.
LEMMA HoldsStep ==
  ASSUME TypeOK, Stages, Listing, Holds, [Next]_vars
  PROVE  Holds'
<1> USE RegistryAssumption DEF TypeOK, DeviceTypes, CallTypes, Holds
<1>0. DeviceList \in Seq(Creators) /\ Listed \subseteq Creators
  BY DEF Listed
<1>1. ASSUME NEW c \in Creators, CreateBegin(c) \/ CreateSteps(c) PROVE Holds'
  <2>1. UNCHANGED <<RundownActive, callPc, callDevice>>
    BY <1>1 DEF CreateBegin, CreateSteps, CreateRefused, CreateAllowed, CreateCollision, CreateAllocate,
        CreateAssignAddress, CreateFails, CreateExit, CreateExitRelease, CreateStartMonitor,
        CreateInsert, CreateCount, CreateMapped, CreateUnchanged
  <2>2. \A d \in Creators : monitorPc'[d] = monitorPc[d] \/ (monitorPc[d] = "none" /\ monitorPc'[d] = "waiting")
    BY <1>1 DEF CreateBegin, CreateSteps, CreateRefused, CreateAllowed, CreateCollision, CreateAllocate,
        CreateAssignAddress, CreateFails, CreateExit, CreateExitRelease, CreateStartMonitor,
        CreateInsert, CreateCount, CreateMapped, Stages, Handed
  <2>3. DeviceList' = DeviceList \/ DeviceList' = Append(DeviceList, c)
    BY <1>1 DEF CreateBegin, CreateSteps, CreateRefused, CreateAllowed, CreateCollision, CreateAllocate,
        CreateAssignAddress, CreateFails, CreateExit, CreateExitRelease, CreateStartMonitor,
        CreateInsert, CreateCount, CreateMapped
  <2>4. Listed \subseteq Listed'
    <3>1. CASE DeviceList' = DeviceList
      BY <3>1 DEF Listed
    <3>2. CASE DeviceList' = Append(DeviceList, c)
      BY <1>0, <3>2, InsertRange
    <3> QED
      BY <2>3, <3>1, <3>2
  <2> QED
    BY <1>0, <2>1, <2>2, <2>4
<1>2. ASSUME NEW d \in Creators, MonitorSteps(d) PROVE Holds'
  <2> USE DEF MonitorGoes, MonitorUnchanged
  <2>1. UNCHANGED <<callPc, callDevice>>
    BY <1>2 DEF MonitorSteps, MonitorWake, MonitorRundown, MonitorDrained, MonitorUnlink,
        MonitorUnlinkEarly, MonitorCount, MonitorFree, MonitorRelease, MonitorExit
  <2>2. \A c \in Creators : RundownActive'[c] <=> monitorPc'[c] \notin {"none", "waiting", "stopping"}
    BY <1>2 DEF MonitorSteps, MonitorWake, MonitorRundown, MonitorDrained, MonitorUnlink,
        MonitorUnlinkEarly, MonitorCount, MonitorFree, MonitorRelease, MonitorExit
  <2>3. CASE MonitorUnlink(d)
    <3>1. PICK k \in DOMAIN DeviceList : DeviceList[k] = d /\ DeviceList' = WithoutEntry(k)
      BY <2>3 DEF MonitorUnlink
    <3>2. Listed' = {WithoutEntry(k)[i] : i \in DOMAIN WithoutEntry(k)}
      BY <3>1 DEF Listed
    <3>3. Listed' = Listed \ {d}
      BY <1>0, <3>1, <3>2, WithoutEntryRange DEF Listing
    <3>4. \A t \in Callers : callPc[t] \in {"using", "acquired"} => callDevice[t] # d
      BY <2>3 DEF MonitorUnlink
    <3> QED
      BY <1>0, <2>1, <2>2, <2>3, <3>3, <3>4 DEF MonitorUnlink
  <2>4. CASE MonitorDrained(d)
    <3>1. \A t \in Callers : callPc[t] \in {"using", "acquired"} => callDevice[t] # d
      BY <2>4 DEF MonitorDrained, References
    <3>2. UNCHANGED Listed
      BY <2>4 DEF MonitorDrained, Listed
    <3> QED
      BY <1>0, <2>1, <2>2, <2>4, <3>1, <3>2 DEF MonitorDrained
  <2>5. CASE ~MonitorUnlink(d) /\ ~MonitorDrained(d)
    <3>1. UNCHANGED Listed
      BY <1>2, <2>5 DEF MonitorSteps, MonitorWake, MonitorRundown, MonitorDrained, MonitorUnlink,
        MonitorUnlinkEarly, MonitorCount, MonitorFree, MonitorRelease, MonitorExit, Listed
    <3>2. \A c \in Creators : monitorPc[c] \in {"waiting", "stopping", "rundown"} =>
                                monitorPc'[c] \in {"waiting", "stopping", "rundown"}
      BY <1>2, <2>5 DEF MonitorSteps, MonitorWake, MonitorRundown, MonitorDrained, MonitorUnlink,
        MonitorUnlinkEarly, MonitorCount, MonitorFree, MonitorRelease, MonitorExit
    <3> QED
      BY <1>0, <2>1, <2>2, <3>1, <3>2
  <2> QED
    BY <2>3, <2>4, <2>5
<1>3. ASSUME NEW t \in Callers, Calls(t) \/ WnbdDisconnectAsync(t) \/ CallSteps(t) PROVE Holds'
  <2>1. UNCHANGED <<RundownActive, monitorPc, DeviceList>> /\ Listed' = Listed
    BY <1>3 DEF Calls, UseDevice, RemoveDevice, WnbdDeleteConnection, UseNamedDevice, Acquires,
        ListBegin, ListWalk,
        WnbdDisconnectAsync, CallSteps, WnbdReleaseDevice, WnbdDisconnectSync, Disconnected, CallUnchanged, Listed
  <2>2. \A u \in Callers \ {t} : callPc'[u] = callPc[u] /\ callDevice'[u] = callDevice[u]
    BY <1>3 DEF Calls, UseDevice, RemoveDevice, WnbdDeleteConnection, UseNamedDevice, Acquires,
        ListBegin, ListWalk,
        WnbdDisconnectAsync, CallSteps, WnbdReleaseDevice, WnbdDisconnectSync, Disconnected
  <2>3. \A d \in Listed : ~RundownActive[d] => monitorPc[d] \in {"waiting", "stopping"}
    BY <1>0 DEF Listing, Linked
  <2>4. callPc'[t] \in {"using", "acquired"} =>
          /\ callDevice'[t] \in Listed
          /\ monitorPc[callDevice'[t]] \in {"waiting", "stopping", "rundown"}
    BY <1>0, <1>3, <2>3, LookupsFind DEF Calls, UseDevice, RemoveDevice, WnbdDeleteConnection, UseNamedDevice, Acquires,
        ListBegin, ListWalk,
        WnbdDisconnectAsync, CallSteps, WnbdReleaseDevice, WnbdDisconnectSync, Disconnected, WnbdAcquireDevice
  <2> QED
    BY <2>1, <2>2, <2>4
<1>4. ASSUME UNCHANGED <<RundownActive, monitorPc, DeviceList, callPc, callDevice>> PROVE Holds'
  BY <1>4 DEF Listed
<1>5. ASSUME NEW c \in Creators, StartDevice(c) PROVE Holds'
  BY <1>4, <1>5 DEF StartDevice, CallUnchanged
<1>6. ASSUME SetNewMappingsAllowed \/ SetOptWaited \/ CleanupSignal \/ CleanupSteps \/ UNCHANGED vars
      PROVE  Holds'
  BY <1>4, <1>6 DEF SetNewMappingsAllowed, SetOptWaited, OptionUnchanged, CleanupSignal,
        CleanupSteps, CleanupRundown, CleanupReturns, AdapterUnchanged, vars
<1> QED
  BY <1>1, <1>2, <1>3, <1>5, <1>6 DEF Next

\* A creation that listed its device does not take it back.
LEMMA CreatesGoOn ==
  ASSUME TypeOK, [Next]_vars, NEW d \in Creators,
         createPc[d] \in {"inserted", "counted", "mapped"}
  PROVE  createPc'[d] \in {"inserted", "counted", "mapped"}
<1> USE DEF TypeOK, CreateTypes
<1>1. ASSUME NEW c \in Creators, CreateBegin(c) \/ CreateSteps(c)
      PROVE  createPc'[d] \in {"inserted", "counted", "mapped"}
  BY <1>1 DEF CreateBegin, CreateSteps, CreateRefused, CreateAllowed, CreateCollision, CreateAllocate,
        CreateAssignAddress, CreateFails, CreateExit, CreateExitRelease, CreateStartMonitor,
        CreateInsert, CreateCount, CreateMapped, CreateGoes
<1>2. ASSUME ~\E c \in Creators : CreateBegin(c) \/ CreateSteps(c) PROVE UNCHANGED createPc
  <2>1. ASSUME NEW c \in Creators, MonitorSteps(c) PROVE UNCHANGED createPc
    BY <2>1 DEF MonitorSteps, MonitorWake, MonitorRundown, MonitorDrained, MonitorUnlink,
        MonitorUnlinkEarly, MonitorCount, MonitorFree, MonitorRelease, MonitorExit, MonitorUnchanged
  <2>2. ASSUME \/ \E c \in Creators : StartDevice(c)
               \/ \E t \in Callers : Calls(t) \/ WnbdDisconnectAsync(t) \/ CallSteps(t)
        PROVE  UNCHANGED createPc
    BY <2>2 DEF StartDevice, Calls, UseDevice, RemoveDevice, WnbdDeleteConnection, UseNamedDevice, Acquires,
        ListBegin, ListWalk,
        WnbdDisconnectAsync, CallSteps, WnbdReleaseDevice, WnbdDisconnectSync, Disconnected, CallUnchanged
  <2>3. ASSUME SetNewMappingsAllowed \/ SetOptWaited \/ CleanupSignal \/ CleanupSteps \/ UNCHANGED vars
        PROVE  UNCHANGED createPc
    BY <2>3 DEF SetNewMappingsAllowed, SetOptWaited, OptionUnchanged, CleanupSignal,
        CleanupSteps, CleanupRundown, CleanupReturns, AdapterUnchanged, vars
  <2> QED
    BY <1>2, <2>1, <2>2, <2>3 DEF Next
<1> QED
  BY <1>1, <1>2

\* A monitor thread only goes forward.
LEMMA MonitorsGoOn ==
  ASSUME TypeOK, Stages, [Next]_vars, NEW d \in Creators
  PROVE  /\ monitorPc[d] \in Linked =>
              monitorPc'[d] \in Linked \cup {"unlinked"}
         /\ monitorPc[d] \in {"unlinked", "counted", "freed", "exiting", "gone"} =>
              monitorPc'[d] \in {"unlinked", "counted", "freed", "exiting", "gone"}
<1> USE DEF TypeOK, DeviceTypes, CreateTypes
<1>1. ASSUME NEW c \in Creators, CreateBegin(c) \/ CreateSteps(c)
      PROVE  monitorPc'[d] = monitorPc[d] \/ monitorPc[d] = "none"
  BY <1>1 DEF CreateBegin, CreateSteps, CreateRefused, CreateAllowed, CreateCollision, CreateAllocate,
        CreateAssignAddress, CreateFails, CreateExit, CreateExitRelease, CreateStartMonitor,
        CreateInsert, CreateCount, CreateMapped, Stages, Handed
<1>2. ASSUME NEW c \in Creators, MonitorSteps(c)
      PROVE  /\ monitorPc[d] \in Linked =>
                  monitorPc'[d] \in Linked \cup {"unlinked"}
             /\ monitorPc[d] \in {"unlinked", "counted", "freed", "exiting", "gone"} =>
                  monitorPc'[d] \in {"unlinked", "counted", "freed", "exiting", "gone"}
  BY <1>2 DEF MonitorSteps, MonitorWake, MonitorRundown, MonitorDrained, MonitorUnlink,
        MonitorUnlinkEarly, MonitorCount, MonitorFree, MonitorRelease, MonitorExit, MonitorGoes, Linked
<1>3. ASSUME \/ \E c \in Creators : StartDevice(c)
             \/ \E t \in Callers : Calls(t) \/ WnbdDisconnectAsync(t) \/ CallSteps(t)
      PROVE  UNCHANGED monitorPc
  BY <1>3 DEF StartDevice, Calls, UseDevice, RemoveDevice, WnbdDeleteConnection, UseNamedDevice, Acquires,
        ListBegin, ListWalk,
        WnbdDisconnectAsync, CallSteps, WnbdReleaseDevice, WnbdDisconnectSync, Disconnected, CallUnchanged
<1>4. ASSUME SetNewMappingsAllowed \/ SetOptWaited \/ CleanupSignal \/ CleanupSteps \/ UNCHANGED vars
      PROVE  UNCHANGED monitorPc
  BY <1>4 DEF SetNewMappingsAllowed, SetOptWaited, OptionUnchanged, CleanupSignal,
        CleanupSteps, CleanupRundown, CleanupReturns, AdapterUnchanged, vars
<1> QED
  BY <1>1, <1>2, <1>3, <1>4 DEF Next, Linked

\* An enumeration under way has the first entry it read, which was listed then.
LEMMA ListersRead ==
  ASSUME TypeOK, [Next]_vars, NEW t \in Callers, callPc'[t] = "listing", callDevice'[t] # NoDevice
  PROVE  \/ callPc[t] = "listing" /\ callDevice'[t] = callDevice[t]
         \/ callDevice'[t] \in Listed
<1> USE DEF TypeOK, DeviceTypes, CallTypes
<1>1. ASSUME UNCHANGED <<callPc, callDevice>> PROVE callPc[t] = "listing" /\ callDevice'[t] = callDevice[t]
  BY <1>1
<1>2. ASSUME NEW c \in Creators, CreateBegin(c) \/ CreateSteps(c) PROVE UNCHANGED <<callPc, callDevice>>
  BY <1>2 DEF CreateBegin, CreateSteps, CreateRefused, CreateAllowed, CreateCollision, CreateAllocate,
        CreateAssignAddress, CreateFails, CreateExit, CreateExitRelease, CreateStartMonitor,
        CreateInsert, CreateCount, CreateMapped, CreateUnchanged
<1>3. ASSUME NEW c \in Creators, MonitorSteps(c) PROVE UNCHANGED <<callPc, callDevice>>
  BY <1>3 DEF MonitorSteps, MonitorWake, MonitorRundown, MonitorDrained, MonitorUnlink,
        MonitorUnlinkEarly, MonitorCount, MonitorFree, MonitorRelease, MonitorExit, MonitorUnchanged
<1>4. ASSUME NEW c \in Creators, StartDevice(c) PROVE UNCHANGED <<callPc, callDevice>>
  BY <1>4 DEF StartDevice
<1>5. ASSUME SetNewMappingsAllowed \/ SetOptWaited \/ CleanupSignal \/ CleanupSteps \/ UNCHANGED vars
      PROVE  UNCHANGED <<callPc, callDevice>>
  BY <1>5 DEF SetNewMappingsAllowed, SetOptWaited, OptionUnchanged, CleanupSignal,
        CleanupSteps, CleanupRundown, CleanupReturns, AdapterUnchanged, vars
<1>6. ASSUME NEW u \in Callers, Calls(u) \/ WnbdDisconnectAsync(u) \/ CallSteps(u)
      PROVE  \/ callPc[t] = "listing" /\ callDevice'[t] = callDevice[t]
             \/ callDevice'[t] \in Listed
  <2>1. CASE ListBegin(u) /\ u = t
    <3>1. callDevice'[t] = FirstListed(Creators)
      BY <2>1 DEF ListBegin
    <3> QED
      BY <3>1, FirstListedFound
  <2>2. CASE u # t
    BY <1>6, <2>2 DEF Calls, UseDevice, RemoveDevice, WnbdDeleteConnection, UseNamedDevice, Acquires,
        ListBegin, ListWalk, WnbdDisconnectAsync, CallSteps, WnbdReleaseDevice, WnbdDisconnectSync, Disconnected
  <2>3. CASE ~ListBegin(u) /\ u = t
    BY <1>6, <2>3 DEF Calls, UseDevice, RemoveDevice, WnbdDeleteConnection, UseNamedDevice, Acquires,
        ListWalk, WnbdDisconnectAsync, CallSteps, WnbdReleaseDevice, WnbdDisconnectSync, Disconnected
  <2> QED
    BY <2>1, <2>2, <2>3
<1> QED
  BY <1>1, <1>2, <1>3, <1>4, <1>5, <1>6 DEF Next

\* The entry an enumeration starts at leaves the list only by being unlinked.
LEMMA StaleStep ==
  ASSUME TypeOK, Stages, Listing, StaleOnlyIfUnlinked, [Next]_vars, Listing', TypeOK'
  PROVE  StaleOnlyIfUnlinked'
<1> DEFINE Past == {"unlinked", "counted", "freed", "exiting", "gone"}
<1> USE RegistryAssumption DEF TypeOK, CreateTypes, DeviceTypes, CallTypes
<1>0. Listed \subseteq Creators /\ Listed' \subseteq Creators
  BY DEF Listed
<1>1. \A d \in Creators : d \in Listed => d \in Listed' \/ monitorPc'[d] \in Past
  <2>1. SUFFICES ASSUME NEW d \in Creators, d \in Listed, d \notin Listed' PROVE monitorPc'[d] \in Past
    OBVIOUS
  <2>2. /\ createPc[d] \in {"inserted", "counted", "mapped"} /\ monitorPc[d] \in Linked
        /\ ~(createPc'[d] \in {"inserted", "counted", "mapped"} /\ monitorPc'[d] \in Linked)
    BY <2>1 DEF Listing, Linked
  <2>3. createPc'[d] \in {"inserted", "counted", "mapped"}
    BY <2>2, CreatesGoOn
  <2>4. monitorPc'[d] # monitorPc[d] /\ monitorPc'[d] \notin Linked
    BY <2>2, <2>3
  <2> QED
    BY <2>2, <2>4, MonitorsGoOn
<1>2. \A d \in Creators : monitorPc[d] \in Past => monitorPc'[d] \in Past
  BY MonitorsGoOn
<1>3. ASSUME NEW t \in Callers, callPc'[t] = "listing", callDevice'[t] # NoDevice
      PROVE  callDevice'[t] \in Listed' \/ monitorPc'[callDevice'[t]] \in Past
  <2>1. callDevice'[t] \in Creators
    BY <1>3
  <2>2. callDevice'[t] \in Listed \/ monitorPc[callDevice'[t]] \in Past
    BY <1>3, ListersRead DEF StaleOnlyIfUnlinked
  <2> QED
    BY <1>0, <1>1, <1>2, <2>1, <2>2
<1> QED
  BY <1>3 DEF StaleOnlyIfUnlinked

\* A start gives a device its own PDO or is a late one.
LEMMA PnpStep ==
  ASSUME TypeOK, Stages, Listing, AddressPerDisk, Holds, Pnp, [Next]_vars
  PROVE  Pnp'
<1> USE RegistryAssumption DEF TypeOK, DeviceTypes, CallTypes, Pnp
<1>0. DeviceList \in Seq(Creators) /\ Listed \subseteq Creators
  BY DEF Listed
<1>1. ASSUME UNCHANGED <<lateStarts, callPc, callDevice, callPdo>>,
             \A d \in Creators : PDO'[d] \in {PDO[d], NoDevice}
      PROVE  Pnp'
  BY <1>1
<1>2. ASSUME NEW c \in Creators, CreateBegin(c) \/ CreateSteps(c) PROVE Pnp'
  BY <1>1, <1>2 DEF CreateBegin, CreateSteps, CreateRefused, CreateAllowed, CreateCollision, CreateAllocate,
        CreateAssignAddress, CreateFails, CreateExit, CreateExitRelease, CreateStartMonitor,
        CreateInsert, CreateCount, CreateMapped, CreateUnchanged
<1>3. ASSUME NEW d \in Creators, MonitorSteps(d) PROVE Pnp'
  BY <1>1, <1>3 DEF MonitorSteps, MonitorWake, MonitorRundown, MonitorDrained, MonitorUnlink,
        MonitorUnlinkEarly, MonitorCount, MonitorFree, MonitorRelease, MonitorExit, MonitorUnchanged
<1>4. ASSUME NEW p \in Creators, StartDevice(p) PROVE Pnp'
  <2> DEFINE d == WnbdFindDeviceByAddr(ScsiBitNumber[p])
  <2>1. d \in Creators /\ UNCHANGED callVars
    BY <1>0, <1>4, LookupsFind DEF StartDevice, WnbdAcquireDevice
  <2>2. PDO' = [PDO EXCEPT ![d] = p] /\ lateStarts' = lateStarts \cup ({p} \ {d})
    BY <1>4 DEF StartDevice
  <2> HIDE DEF d
  <2>3. \A c \in Creators : PDO'[c] \in {c, NoDevice} \cup lateStarts'
    BY <2>1, <2>2
  <2> QED
    BY <2>1, <2>2, <2>3
<1>5. ASSUME NEW t \in Callers, Calls(t) \/ WnbdDisconnectAsync(t) \/ CallSteps(t) PROVE Pnp'
  <2>1. UNCHANGED <<PDO, lateStarts>>
    BY <1>5 DEF Calls, UseDevice, RemoveDevice, WnbdDeleteConnection, UseNamedDevice, Acquires,
        ListBegin, ListWalk,
        WnbdDisconnectAsync, CallSteps, WnbdReleaseDevice, WnbdDisconnectSync, Disconnected
  <2>2. \A u \in Callers \ {t} : /\ callPc'[u] = callPc[u] /\ callDevice'[u] = callDevice[u]
                                 /\ callPdo'[u] = callPdo[u]
    BY <1>5 DEF Calls, UseDevice, RemoveDevice, WnbdDeleteConnection, UseNamedDevice, Acquires,
        ListBegin, ListWalk,
        WnbdDisconnectAsync, CallSteps, WnbdReleaseDevice, WnbdDisconnectSync, Disconnected
  <2>3. callPdo'[t] # NoDevice =>
          /\ callPc'[t] \in {"acquired", "waiting"}
          /\ callDevice'[t] = callPdo'[t] \/ callPdo'[t] \in lateStarts
    <3>1. ASSUME NEW p \in Creators, RemoveDevice(t, p)
          PROVE  /\ callPc'[t] = "acquired"
                 /\ callDevice'[t] = callPdo'[t] \/ callPdo'[t] \in lateStarts
      <4> DEFINE d == WnbdFindDeviceByAddr(ScsiBitNumber[p])
      <4>1. d \in Creators /\ PDO[d] = p
        BY <1>0, <3>1, LookupsFind DEF RemoveDevice, WnbdAcquireDevice
      <4>2. d = p \/ p \in lateStarts
        BY <4>1
      <4> QED
        BY <3>1, <4>2 DEF RemoveDevice
    <3>2. ASSUME \A p \in Creators : ~RemoveDevice(t, p)
          PROVE  callPdo'[t] # NoDevice =>
                   /\ callPc'[t] \in {"acquired", "waiting"}
                   /\ callDevice'[t] = callPdo'[t] \/ callPdo'[t] \in lateStarts
      BY <1>5, <3>2 DEF Calls, UseDevice, WnbdDeleteConnection, UseNamedDevice, Acquires,
        ListBegin, ListWalk,
            WnbdDisconnectAsync, CallSteps, WnbdReleaseDevice, WnbdDisconnectSync, Disconnected
    <3> QED
      BY <3>1, <3>2
  <2> QED
    BY <2>1, <2>2, <2>3
<1>6. ASSUME SetNewMappingsAllowed \/ SetOptWaited \/ CleanupSignal \/ CleanupSteps \/ UNCHANGED vars
      PROVE  Pnp'
  BY <1>1, <1>6 DEF SetNewMappingsAllowed, SetOptWaited, OptionUnchanged, CleanupSignal,
        CleanupSteps, CleanupRundown, CleanupReturns, AdapterUnchanged, vars
<1> QED
  BY <1>2, <1>3, <1>4, <1>5, <1>6 DEF Next

\* Nobody acquires the extension again once it is run down.
LEMMA CleanupStep ==
  ASSUME TypeOK, Cleanup, [Next]_vars
  PROVE  Cleanup'
<1> USE DEF TypeOK, AdapterTypes, Cleanup
<1>1. ASSUME NEW c \in Creators, CreateBegin(c) \/ CreateSteps(c) PROVE Cleanup'
  <2>1. UNCHANGED <<adapterPc, ExtensionRundown>>
    BY <1>1 DEF CreateBegin, CreateSteps, CreateRefused, CreateAllowed, CreateCollision, CreateAllocate,
        CreateAssignAddress, CreateFails, CreateExit, CreateExitRelease, CreateStartMonitor,
        CreateInsert, CreateCount, CreateMapped, CreateUnchanged
  <2>2. ExtensionRundown => ExtensionRefs' \subseteq ExtensionRefs
    BY <1>1 DEF CreateBegin, CreateSteps, CreateRefused, CreateAllowed, CreateCollision, CreateAllocate,
        CreateAssignAddress, CreateFails, CreateExit, CreateExitRelease, CreateStartMonitor,
        CreateInsert, CreateCount, CreateMapped
  <2> QED
    BY <2>1, <2>2
<1>2. ASSUME NEW d \in Creators, MonitorSteps(d) PROVE Cleanup'
  <2>1. UNCHANGED <<adapterPc, ExtensionRundown>> /\ ExtensionRefs' \subseteq ExtensionRefs
    BY <1>2 DEF MonitorSteps, MonitorWake, MonitorRundown, MonitorDrained, MonitorUnlink,
        MonitorUnlinkEarly, MonitorCount, MonitorFree, MonitorRelease, MonitorExit, MonitorUnchanged
  <2> QED
    BY <2>1
<1>3. ASSUME \/ \E c \in Creators : StartDevice(c)
             \/ \E t \in Callers : Calls(t) \/ WnbdDisconnectAsync(t) \/ CallSteps(t)
      PROVE  Cleanup'
  BY <1>3 DEF StartDevice, Calls, UseDevice, RemoveDevice, WnbdDeleteConnection, UseNamedDevice, Acquires,
        ListBegin, ListWalk,
        WnbdDisconnectAsync, CallSteps, WnbdReleaseDevice, WnbdDisconnectSync, Disconnected, CallUnchanged
<1>4. ASSUME CleanupSignal \/ CleanupSteps PROVE Cleanup'
  BY <1>4 DEF CleanupSignal, CleanupSteps, CleanupRundown, CleanupReturns, AdapterUnchanged
<1>5. ASSUME SetNewMappingsAllowed \/ SetOptWaited \/ UNCHANGED vars PROVE Cleanup'
  BY <1>5 DEF SetNewMappingsAllowed, SetOptWaited, OptionUnchanged, vars
<1> QED
  BY <1>1, <1>2, <1>3, <1>4, <1>5 DEF Next

-----------------------------------------------------------------------------
(* DeviceCount *)

\* Counting a set that gains or loses an element.
LEMMA CountOf ==
  ASSUME NEW S, IsFiniteSet(S), NEW x
  PROVE  /\ Cardinality(S) \in Int
         /\ IsFiniteSet(S \cup {x}) /\ IsFiniteSet(S \ {x})
         /\ x \notin S => Cardinality(S \cup {x}) = Cardinality(S) + 1
         /\ x \in S => Cardinality(S \ {x}) = Cardinality(S) - 1
<1>1. Cardinality(S) \in Nat
  BY FS_CardinalityType
<1>2. /\ IsFiniteSet(S \cup {x}) /\ IsFiniteSet(S \ {x})
      /\ Cardinality(S \cup {x}) = IF x \in S THEN Cardinality(S) ELSE Cardinality(S) + 1
      /\ Cardinality(S \ {x}) = IF x \in S THEN Cardinality(S) - 1 ELSE Cardinality(S)
  BY FS_AddElement, FS_RemoveElement
<1> QED
  BY <1>1, <1>2

\* DeviceCount is off by the insertions and unlinks it was not told of yet.
LEMMA CountingStep ==
  ASSUME TypeOK, Stages, Listing, Counting, [Next]_vars
  PROVE  Counting'
<1> DEFINE I == {c \in Creators : createPc[c] = "inserted"}
           U == {d \in Creators : monitorPc[d] = "unlinked"}
<1> USE RegistryAssumption DEF TypeOK, CreateTypes, DeviceTypes
<1>0. /\ IsFiniteSet(I) /\ IsFiniteSet(U) /\ Cardinality(I) \in Int /\ Cardinality(U) \in Int
      /\ Len(DeviceList) \in Nat /\ DeviceCount = Len(DeviceList) - Cardinality(I) + Cardinality(U)
  <2>1. IsFiniteSet(I) /\ IsFiniteSet(U)
    BY DEF Counting
  <2>2. Len(DeviceList) \in Nat /\ DeviceCount = Len(DeviceList) - Cardinality(I) + Cardinality(U)
    BY DEF Counting, DeviceCountLags
  <2> HIDE DEF I, U
  <2> QED
    BY <2>1, <2>2, CountOf
<1>1. SUFFICES /\ IsFiniteSet(I') /\ IsFiniteSet(U')
               /\ DeviceCount' = Len(DeviceList') - Cardinality(I') + Cardinality(U')
  BY DEF Counting, DeviceCountLags
<1>2. ASSUME UNCHANGED <<DeviceCount, DeviceList>>, I' = I, U' = U
      PROVE  /\ IsFiniteSet(I') /\ IsFiniteSet(U')
             /\ DeviceCount' = Len(DeviceList') - Cardinality(I') + Cardinality(U')
  BY <1>0, <1>2
<1> DEFINE Goal == /\ IsFiniteSet(I') /\ IsFiniteSet(U')
                   /\ DeviceCount' = Len(DeviceList') - Cardinality(I') + Cardinality(U')
<1>3. ASSUME NEW c \in Creators, CreateBegin(c) \/ CreateSteps(c) PROVE Goal
  <2> USE DEF CreateGoes
  <2>1. U' = U
    BY <1>3 DEF CreateBegin, CreateSteps, CreateRefused, CreateAllowed, CreateCollision, CreateAllocate,
        CreateAssignAddress, CreateFails, CreateExit, CreateExitRelease, CreateStartMonitor,
        CreateInsert, CreateCount, CreateMapped,
          Stages, Handed
  <2>2. CASE CreateInsert(c)
    <3>1. I' = I \cup {c} /\ c \notin I
      BY <2>2 DEF CreateInsert
    <3>2. Len(DeviceList') = Len(DeviceList) + 1 /\ DeviceCount' = DeviceCount
      BY <2>2, InsertRange DEF CreateInsert
    <3>3. IsFiniteSet(I \cup {c}) /\ Cardinality(I \cup {c}) = Cardinality(I) + 1
      BY <1>0, <3>1, CountOf
    <3> HIDE DEF I, U
    <3> QED
      BY <1>0, <2>1, <3>1, <3>2, <3>3
  <2>3. CASE CreateCount(c)
    <3>1. I' = I \ {c} /\ c \in I
      BY <2>3 DEF CreateCount
    <3>2. DeviceList' = DeviceList /\ DeviceCount' = DeviceCount + 1
      BY <2>3 DEF CreateCount
    <3>3. IsFiniteSet(I \ {c}) /\ Cardinality(I \ {c}) = Cardinality(I) - 1
      BY <1>0, <3>1, CountOf
    <3> HIDE DEF I, U
    <3> QED
      BY <1>0, <2>1, <3>1, <3>2, <3>3
  <2>4. CASE ~CreateInsert(c) /\ ~CreateCount(c)
    <3>1. UNCHANGED <<DeviceList, DeviceCount>>
      BY <1>3, <2>4 DEF CreateBegin, CreateSteps, CreateRefused, CreateAllowed, CreateCollision, CreateAllocate,
        CreateAssignAddress, CreateFails, CreateExit, CreateExitRelease, CreateStartMonitor,
        CreateInsert, CreateCount, CreateMapped
    <3>2. I' = I
      BY <1>3, <2>4 DEF CreateBegin, CreateSteps, CreateRefused, CreateAllowed, CreateCollision, CreateAllocate,
        CreateAssignAddress, CreateFails, CreateExit, CreateExitRelease, CreateStartMonitor,
        CreateInsert, CreateCount, CreateMapped
    <3> QED
      BY <1>2, <2>1, <3>1, <3>2
  <2> QED
    BY <2>2, <2>3, <2>4
<1>4. ASSUME NEW d \in Creators, MonitorSteps(d) PROVE Goal
  <2> USE DEF MonitorGoes, MonitorUnchanged
  <2>1. I' = I
    BY <1>4 DEF MonitorSteps, MonitorWake, MonitorRundown, MonitorDrained, MonitorUnlink,
        MonitorUnlinkEarly, MonitorCount, MonitorFree, MonitorRelease, MonitorExit
  <2>2. CASE MonitorUnlink(d)
    <3>1. U' = U \cup {d} /\ d \notin U
      BY <2>2 DEF MonitorUnlink
    <3>2. Len(DeviceList') = Len(DeviceList) - 1 /\ DeviceCount' = DeviceCount
      BY <2>2, WithoutEntryRange DEF MonitorUnlink, Listing
    <3>3. IsFiniteSet(U \cup {d}) /\ Cardinality(U \cup {d}) = Cardinality(U) + 1
      BY <1>0, <3>1, CountOf
    <3> HIDE DEF I, U
    <3> QED
      BY <1>0, <2>1, <3>1, <3>2, <3>3
  <2>3. CASE MonitorCount(d)
    <3>1. U' = U \ {d} /\ d \in U
      BY <2>3 DEF MonitorCount
    <3>2. DeviceList' = DeviceList /\ DeviceCount' = DeviceCount - 1
      BY <2>3 DEF MonitorCount
    <3>3. IsFiniteSet(U \ {d}) /\ Cardinality(U \ {d}) = Cardinality(U) - 1
      BY <1>0, <3>1, CountOf
    <3> HIDE DEF I, U
    <3> QED
      BY <1>0, <2>1, <3>1, <3>2, <3>3
  <2>4. CASE ~MonitorUnlink(d) /\ ~MonitorCount(d)
    <3>1. UNCHANGED <<DeviceList, DeviceCount>>
      BY <1>4, <2>4 DEF MonitorSteps, MonitorWake, MonitorRundown, MonitorDrained, MonitorUnlink,
        MonitorUnlinkEarly, MonitorCount, MonitorFree, MonitorRelease, MonitorExit
    <3>2. U' = U
      BY <1>4, <2>4 DEF MonitorSteps, MonitorWake, MonitorRundown, MonitorDrained, MonitorUnlink,
        MonitorUnlinkEarly, MonitorCount, MonitorFree, MonitorRelease, MonitorExit
    <3> QED
      BY <1>2, <2>1, <3>1, <3>2
  <2> QED
    BY <2>2, <2>3, <2>4
<1>5. ASSUME UNCHANGED <<createPc, monitorPc, DeviceCount, DeviceList>> PROVE Goal
  BY <1>2, <1>5
<1>6. ASSUME \/ \E c \in Creators : StartDevice(c)
             \/ \E t \in Callers : Calls(t) \/ WnbdDisconnectAsync(t) \/ CallSteps(t)
      PROVE  UNCHANGED <<createPc, monitorPc, DeviceCount, DeviceList>>
  BY <1>6 DEF StartDevice, Calls, UseDevice, RemoveDevice, WnbdDeleteConnection, UseNamedDevice, Acquires,
        ListBegin, ListWalk,
        WnbdDisconnectAsync, CallSteps, WnbdReleaseDevice, WnbdDisconnectSync, Disconnected, CallUnchanged
<1>7. ASSUME SetNewMappingsAllowed \/ SetOptWaited \/ CleanupSignal \/ CleanupSteps \/ UNCHANGED vars
      PROVE  UNCHANGED <<createPc, monitorPc, DeviceCount, DeviceList>>
  BY <1>7 DEF SetNewMappingsAllowed, SetOptWaited, OptionUnchanged, CleanupSignal,
        CleanupSteps, CleanupRundown, CleanupReturns, AdapterUnchanged, vars
<1> QED
  BY <1>3, <1>4, <1>5, <1>6, <1>7 DEF Next

-----------------------------------------------------------------------------
(* Theorems *)

\* IInv holds in every state of every behaviour of Spec.
LEMMA Invariance == Spec => []IInv
<1>1. Init => IInv
  <2> SUFFICES ASSUME Init PROVE IInv
    OBVIOUS
  <2> USE RegistryAssumption DEF Init
  <2>1. CreateTypes /\ DeviceTypes /\ CallTypes
    BY DEF CreateTypes, DeviceTypes, CallTypes, CreatePcs, MonitorPcs
  <2>2. AdapterTypes
    <3>1. /\ ExtensionRundown \in BOOLEAN /\ GlobalDeviceRemovalEvent \in BOOLEAN
          /\ NewMappingsAllowed \in BOOLEAN /\ bugCheck \in BOOLEAN
      BY Zenon
    <3>2. /\ ExtensionRefs \in SUBSET Creators /\ setOptPc \in {"idle", "waiting"}
          /\ setOpts \in 0..MaxSetOpts /\ cleanups \in 0..MaxCleanups
          /\ adapterPc \in {"running", "signalled", "waiting", "stopped"}
      OBVIOUS
    <3> QED
      BY ONLY <3>1, <3>2 DEF AdapterTypes
  <2>3. Stages
    BY DEF Stages, Handed, Linked, Unfreed
  <2>4. Listing /\ Holds /\ StaleOnlyIfUnlinked /\ Pnp /\ Cleanup
    BY DEF Listing, Listed, Holds, StaleOnlyIfUnlinked, Pnp, Cleanup, Linked
  <2>5. AddressPerDisk /\ ExtensionRefsDriftByRefusals
    BY DEF AddressPerDisk, Addressed, ExtensionRefsDriftByRefusals, Monitored, InProgress
  <2>6. Counting
    <3>1. {c \in Creators : createPc[c] = "inserted"} = {} /\ {d \in Creators : monitorPc[d] = "unlinked"} = {}
      OBVIOUS
    <3>2. IsFiniteSet({}) /\ Cardinality({}) = 0
      BY FS_EmptySet
    <3>3. DeviceCount = 0 /\ Len(DeviceList) = 0
      OBVIOUS
    <3>4. /\ Cardinality({c \in Creators : createPc[c] = "inserted"}) = 0
          /\ Cardinality({d \in Creators : monitorPc[d] = "unlinked"}) = 0
      BY ONLY <3>1, <3>2
    <3>5. DeviceCountLags
      BY ONLY <3>3, <3>4 DEF DeviceCountLags
    <3> QED
      BY ONLY <3>1, <3>2, <3>5 DEF Counting
  <2> QED
    BY ONLY <2>1, <2>2, <2>3, <2>4, <2>5, <2>6 DEF IInv, TypeOK
<1>2. IInv /\ [Next]_vars => IInv'
  BY TypeStep, StagesStep, ListingStep, AddressStep, RefsStep, HoldsStep, StaleStep, PnpStep,
     CleanupStep, CountingStep DEF IInv
<1> QED
  BY <1>1, <1>2, PTL DEF Spec

\* Every variable of the registry keeps its type: in particular no disk gets an
\* address past the bitmap (RtlFindClearBitsAndSet).
THEOREM TypeCorrect == Spec => []TypeOK
  BY Invariance, PTL DEF IInv

\* Disks never share an address and no address is lost, for any number of
\* concurrent creations and removals (ScsiBitMapHeader).
THEOREM OneAddressEach == Spec => []AddressPerDisk
  BY Invariance, PTL DEF IInv

\* The reference count of the extension and DeviceCount are off by exactly what is
\* under way and what was refused (WnbdCreateConnection, WnbdDeviceMonitorThread).
THEOREM CountersDrift == Spec => []CountersDriftByRefusals
  BY Invariance, PTL DEF IInv, Counting, CountersDriftByRefusals

\* No lookup, no reference and no walk that starts under DeviceListLock leads to a
\* freed device (WnbdAcquireDevice, ExWaitForRundownProtectionRelease), and the
\* enumeration, which reads its first entry before it takes the lock, is wrong
\* about it only if the device was unlinked since (WnbdEnumerateActiveConnections).
THEOREM NothingFreedIsReachable == Spec => []ReachableIsLive
<1>1. IInv => ReachableIsLive
  <2> SUFFICES ASSUME IInv PROVE ReachableIsLive
    OBVIOUS
  <2>1. Listed \subseteq Creators
    BY DEF IInv, TypeOK, DeviceTypes, Listed
  <2>2. ListedIsLive
    BY <2>1 DEF IInv, Listing, Stages, ListedIsLive, Addressed, Linked, Handed, Unfreed
  <2>3. AcquiredIsLive
    BY <2>2 DEF IInv, Holds, AcquiredIsLive, ListedIsLive
  <2> QED
    BY <2>2, <2>3 DEF IInv, ReachableIsLive
<1> QED
  BY <1>1, Invariance, PTL

\* A removal that PnP asks for disconnects another disk only if the start of its own
\* disk came when the address had been used again (WnbdDispatchPnp).
THEOREM PnpOwnDisk == Spec => []PnpRemovesItsOwn
<1>1. IInv => PnpRemovesItsOwn
  BY DEF IInv, Pnp, PnpRemovesItsOwn
<1> QED
  BY <1>1, Invariance, PTL

\* Once WnbdCleanupAllDevices returned, no disk, address, monitored device or device
\* memory is left, whatever the number of disks.
THEOREM NothingAfterCleanup == Spec => []CleanupLeavesNothing
<1>1. IInv => CleanupLeavesNothing
  <2> SUFFICES ASSUME IInv, adapterPc = "stopped"
               PROVE  /\ Listed = {} /\ ScsiBitMap = {} /\ Monitored = {}
                      /\ \A c \in Creators : memory[c] # "allocated"
    BY DEF CleanupLeavesNothing
  <2> USE DEF IInv
  <2>1. \A c \in Creators : ~HoldsExtension(c)
    BY RefsOfEach DEF Cleanup, TypeOK, AdapterTypes
  <2>2. \A c \in Creators : monitorPc[c] \in {"none", "exiting", "gone"}
    BY <2>1 DEF HoldsExtension
  <2>3. \A c \in Creators :
          createPc[c] \in {"idle", "protected", "mapped", "refused", "failed"} \cup Handed
    BY <2>1, <2>2 DEF HoldsExtension, Stages
  <2>4. Listed = {}
    BY <2>2 DEF Listing, Linked, Listed, TypeOK, DeviceTypes
  <2>5. Addressed = {}
    BY <2>2, <2>3 DEF Addressed, Stages, Handed
  <2>6. \A c \in Creators : memory[c] # "allocated"
    BY <2>2, <2>3 DEF Stages, Handed, Linked, Unfreed
  <2> QED
    BY <2>2, <2>4, <2>5, <2>6 DEF AddressPerDisk, Monitored
<1> QED
  BY <1>1, Invariance, PTL
=============================================================================
