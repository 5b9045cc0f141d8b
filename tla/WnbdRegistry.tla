---------------------------- MODULE WnbdRegistry ----------------------------
(***************************************************************************)
(* The disks of the WNBD adapter: how mappings are created, found, removed *)
(* and torn down all at once (driver/userspace.c, the device list of       *)
(* util.c, the PnP dispatch of driver.c and the adapter control of         *)
(* scsi_driver_extensions.c).                                              *)
(*                                                                         *)
(* Several IOCTL_WNBD_CREATE run at the same time: the creation lock is    *)
(* only ever taken shared.  Every mapping has a monitor thread, which      *)
(* waits for the event of its device or for the one event of the adapter.  *)
(* What the requests of a device do is the subject of WnbdRequests; here   *)
(* the use of a device by other threads is a reference that is held for    *)
(* some time.                                                              *)
(*                                                                         *)
(* A mapping is identified by the IOCTL_WNBD_CREATE call that makes it:    *)
(* the memory of a device, its connection id and its PDO are never those   *)
(* of another one.                                                         *)
(***************************************************************************)
EXTENDS Integers, Sequences, FiniteSets

CONSTANTS
  Creators,      \* calls of IOCTL_WNBD_CREATE, and the devices they make
  NameOf,        \* the instance name each of them asks for
  Callers,       \* threads that use and remove devices
  MaxDisks,      \* WNBD_MAX_NUMBER_OF_DISKS
  MaxCleanups,   \* bound on WnbdCleanupAllDevices (stop, then free adapter)
  MaxSetOpts,    \* bound on changes of the NewMappingsAllowed option
  MaxFailures,   \* bound on failing allocations and thread creations
  NoDevice

ASSUME RegistryAssumption ==
  /\ MaxDisks \in Nat /\ MaxCleanups \in Nat /\ MaxSetOpts \in Nat /\ MaxFailures \in Nat
  /\ NoDevice \notin Creators
  /\ Creators \subseteq DOMAIN NameOf

VARIABLES
  createPc,      \* where each IOCTL_WNBD_CREATE is
  RPAcquired,    \* local of WnbdCreateConnection
  memory,        \* the WNBD_DISK_DEVICE of each mapping
  ScsiBitNumber, \* the address of each mapping, kept by its PDO afterwards
  PDO,           \* Device->PDO
  lateStarts,    \* disks PnP started when another device had their address
  DeviceRemovalEvent, RundownActive, \* per device
  monitorPc,     \* WnbdDeviceMonitorThread of each device
  DeviceList,    \* with the connection id hash, kept together under one lock
  ScsiBitMap, DeviceCount,
  ExtensionRefs, ExtensionRundown, \* RundownProtection of the extension
  GlobalDeviceRemovalEvent,
  NewMappingsAllowed, setOptPc, setOpts,
  callPc, callDevice, callPdo,     \* locals of the callers
  adapterPc, cleanups,             \* WnbdCleanupAllDevices
  failures,
  freedAccess,   \* creations that touched their device after it was freed
  bugCheck       \* the machine halted

createVars  == <<createPc, RPAcquired, memory, ScsiBitNumber, freedAccess>>
pnpVars     == <<PDO, lateStarts>>
deviceVars  == <<pnpVars, DeviceRemovalEvent, RundownActive>>
listVars    == <<DeviceList, ScsiBitMap, DeviceCount>>
extVars     == <<ExtensionRefs, ExtensionRundown>>
optionVars  == <<NewMappingsAllowed, setOptPc, setOpts>>
callVars    == <<callPc, callDevice, callPdo>>
adapterVars == <<adapterPc, cleanups>>
vars == <<createVars, deviceVars, listVars, extVars, optionVars, callVars, adapterVars,
          monitorPc, GlobalDeviceRemovalEvent, failures, bugCheck>>

NoAddress == -1   \* ScsiBitNumber = 0xFFFFFFFF
Addresses == 0..(MaxDisks - 1)

CreatePcs == {"idle", "protected", "allowed", "allocated", "addressed",
              "monitored", "inserted", "counted", "exit", "release",
              "mapped", "refused", "failed"}
MonitorPcs == {"none", "waiting", "stopping", "rundown", "unlink", "unlinked", "counted",
               "freed", "exiting", "gone"}

CreateTypes ==
  /\ createPc \in [Creators -> CreatePcs]
  /\ RPAcquired \in [Creators -> BOOLEAN]
  /\ memory \in [Creators -> {"none", "allocated", "freed"}]
  /\ ScsiBitNumber \in [Creators -> Addresses \cup {NoAddress}]
  /\ freedAccess \in SUBSET Creators
  /\ failures \in 0..MaxFailures
DeviceTypes ==
  /\ PDO \in [Creators -> Creators \cup {NoDevice}]
  /\ lateStarts \in SUBSET Creators
  /\ DeviceRemovalEvent \in [Creators -> BOOLEAN]
  /\ RundownActive \in [Creators -> BOOLEAN]
  /\ monitorPc \in [Creators -> MonitorPcs]
  /\ DeviceList \in Seq(Creators)
  /\ ScsiBitMap \in SUBSET Addresses
  /\ DeviceCount \in Int
CallTypes ==
  /\ callPc \in [Callers -> {"idle", "using", "acquired", "waiting", "listing"}]
  /\ callDevice \in [Callers -> Creators \cup {NoDevice}]
  /\ callPdo \in [Callers -> Creators \cup {NoDevice}]
AdapterTypes ==
  /\ ExtensionRefs \in SUBSET Creators
  /\ ExtensionRundown \in BOOLEAN /\ GlobalDeviceRemovalEvent \in BOOLEAN
  /\ NewMappingsAllowed \in BOOLEAN /\ bugCheck \in BOOLEAN
  /\ setOptPc \in {"idle", "waiting"}
  /\ setOpts \in 0..MaxSetOpts
  /\ adapterPc \in {"running", "signalled", "waiting", "stopped"}
  /\ cleanups \in 0..MaxCleanups

TypeOK == CreateTypes /\ DeviceTypes /\ CallTypes /\ AdapterTypes

\* WnbdHwFindAdapter and WnbdInitScsiIds.
Init ==
  /\ createPc = [c \in Creators |-> "idle"]
  /\ RPAcquired = [c \in Creators |-> FALSE]
  /\ memory = [c \in Creators |-> "none"]
  /\ ScsiBitNumber = [c \in Creators |-> NoAddress]
  /\ PDO = [c \in Creators |-> NoDevice]
  /\ lateStarts = {}
  /\ DeviceRemovalEvent = [c \in Creators |-> FALSE]
  /\ RundownActive = [c \in Creators |-> FALSE]
  /\ monitorPc = [c \in Creators |-> "none"]
  /\ DeviceList = <<>>
  /\ ScsiBitMap = {}
  /\ DeviceCount = 0
  /\ ExtensionRefs = {}
  /\ ExtensionRundown = FALSE
  /\ GlobalDeviceRemovalEvent = FALSE
  /\ NewMappingsAllowed = TRUE
  /\ setOptPc = "idle"
  /\ setOpts = 0
  /\ callPc = [t \in Callers |-> "idle"]
  /\ callDevice = [t \in Callers |-> NoDevice]
  /\ callPdo = [t \in Callers |-> NoDevice]
  /\ adapterPc = "running"
  /\ cleanups = 0
  /\ failures = 0
  /\ freedAccess = {}
  /\ bugCheck = FALSE

-----------------------------------------------------------------------------
(* The device list *)

Listed == {DeviceList[i] : i \in DOMAIN DeviceList}

\* The device a walk of the list stops at: the first one that matches, if any.
FirstListed(matching) ==
  LET hits == {i \in DOMAIN DeviceList : DeviceList[i] \in matching}
  IN  IF hits = {} THEN NoDevice
      ELSE DeviceList[CHOOSE i \in hits : \A j \in hits : i <= j]

WnbdFindDeviceByInstanceName(n) == FirstListed({d \in Creators : NameOf[d] = n})
WnbdFindDeviceByAddr(a)         == FirstListed({d \in Creators : ScsiBitNumber[d] = a})
WnbdFindDeviceByConnId(c)       == FirstListed({c})

\* RemoveEntryList of the entry at place i.
WithoutEntry(i) == [j \in 1..(Len(DeviceList) - 1) |-> DeviceList[IF j < i THEN j ELSE j + 1]]

\* What "Acquire" asks of the device that was found, under the same lock.
WnbdAcquireDevice(d) == d # NoDevice /\ ~RundownActive[d]

\* The threads that hold a reference of d.
References(d) == {t \in Callers : callDevice[t] = d /\ callPc[t] \in {"using", "acquired"}}

-----------------------------------------------------------------------------
(* IOCTL_WNBD_CREATE: WnbdCreateConnection *)

CreateUnchanged ==
  UNCHANGED <<pnpVars, DeviceRemovalEvent, RundownActive, ExtensionRundown, optionVars, callVars,
              adapterVars, GlobalDeviceRemovalEvent, bugCheck>>

\* Call c moves on to pc.
CreateGoes(c, pc) == createPc' = [createPc EXCEPT ![c] = pc]

\* A resource the creation needs is not available.
ResourceFails == failures < MaxFailures /\ failures' = failures + 1

\* DeviceCreationLock, which nobody takes exclusively, and the reference of the extension.
CreateBegin(c) ==
  /\ createPc[c] = "idle"
  /\ RPAcquired' = [RPAcquired EXCEPT ![c] = ~ExtensionRundown]
  /\ ExtensionRefs' = ExtensionRefs \cup (IF ExtensionRundown THEN {} ELSE {c})
  /\ CreateGoes(c, "protected")
  /\ UNCHANGED <<memory, ScsiBitNumber, freedAccess, listVars, monitorPc, failures>>
  /\ CreateUnchanged

\* The two early returns, which do not release the extension.
CreateRefused(c) ==
  /\ createPc[c] = "protected"
  /\ ~NewMappingsAllowed \/ ~RPAcquired[c]
  /\ CreateGoes(c, "refused")
  /\ UNCHANGED <<RPAcquired, memory, ScsiBitNumber, freedAccess, listVars, ExtensionRefs,
                 monitorPc, failures>>
  /\ CreateUnchanged

\* Mutation: the result of ExAcquireRundownProtection is not looked at.
CreateAllowedUnprotected(c) ==
  /\ createPc[c] = "protected"
  /\ NewMappingsAllowed
  /\ CreateGoes(c, "allowed")
  /\ UNCHANGED <<RPAcquired, memory, ScsiBitNumber, freedAccess, listVars, ExtensionRefs,
                 monitorPc, failures>>
  /\ CreateUnchanged

CreateAllowed(c) ==
  /\ createPc[c] = "protected"
  /\ NewMappingsAllowed /\ RPAcquired[c]
  /\ CreateGoes(c, "allowed")
  /\ UNCHANGED <<RPAcquired, memory, ScsiBitNumber, freedAccess, listVars, ExtensionRefs,
                 monitorPc, failures>>
  /\ CreateUnchanged

\* The name is in use, or there is no memory: Exit does nothing without a Device.
CreateCollision(c) ==
  /\ createPc[c] = "allowed"
  /\ \/ WnbdFindDeviceByInstanceName(NameOf[c]) # NoDevice /\ UNCHANGED failures
     \/ WnbdFindDeviceByInstanceName(NameOf[c]) = NoDevice /\ ResourceFails
  /\ CreateGoes(c, "refused")
  /\ UNCHANGED <<RPAcquired, memory, ScsiBitNumber, freedAccess, listVars, ExtensionRefs,
                 monitorPc>>
  /\ CreateUnchanged

CreateAllocate(c) ==
  /\ createPc[c] = "allowed"
  /\ WnbdFindDeviceByInstanceName(NameOf[c]) = NoDevice
  /\ memory' = [memory EXCEPT ![c] = "allocated"]
  /\ CreateGoes(c, "allocated")
  /\ UNCHANGED <<RPAcquired, ScsiBitNumber, freedAccess, listVars, ExtensionRefs, monitorPc,
                 failures>>
  /\ CreateUnchanged

\* Mutation: one address more than the bitmap has.
CreateAssignAddressPastEnd(c) ==
  /\ createPc[c] = "allocated"
  /\ \E a \in (0..MaxDisks) \ ScsiBitMap :
       /\ \A b \in (0..MaxDisks) \ ScsiBitMap : a <= b
       /\ ScsiBitMap' = ScsiBitMap \cup {a}
       /\ ScsiBitNumber' = [ScsiBitNumber EXCEPT ![c] = a]
  /\ CreateGoes(c, "addressed")
  /\ UNCHANGED <<RPAcquired, memory, freedAccess, DeviceList, DeviceCount, ExtensionRefs,
                 monitorPc, failures>>
  /\ CreateUnchanged

\* RtlFindClearBitsAndSet from bit 0.
CreateAssignAddress(c) ==
  /\ createPc[c] = "allocated"
  /\ \E a \in Addresses \ ScsiBitMap :
       /\ \A b \in Addresses \ ScsiBitMap : a <= b
       /\ ScsiBitMap' = ScsiBitMap \cup {a}
       /\ ScsiBitNumber' = [ScsiBitNumber EXCEPT ![c] = a]
  /\ CreateGoes(c, "addressed")
  /\ UNCHANGED <<RPAcquired, memory, freedAccess, DeviceList, DeviceCount, ExtensionRefs,
                 monitorPc, failures>>
  /\ CreateUnchanged

\* No memory for the inquiry data, no address left, a block size other than 512,
\* or no monitor thread.
CreateFails(c) ==
  /\ \/ createPc[c] = "allocated" /\ ResourceFails
     \/ createPc[c] = "allocated" /\ Addresses \subseteq ScsiBitMap /\ UNCHANGED failures
     \/ createPc[c] = "addressed" /\ UNCHANGED failures
     \/ createPc[c] = "addressed" /\ ResourceFails
  /\ CreateGoes(c, "exit")
  /\ UNCHANGED <<RPAcquired, memory, ScsiBitNumber, freedAccess, listVars, ExtensionRefs,
                 monitorPc>>
  /\ CreateUnchanged

\* Mutation: the address is not given back.
CreateExitKeepsAddress(c) ==
  /\ createPc[c] = "exit"
  /\ memory' = [memory EXCEPT ![c] = "freed"]
  /\ CreateGoes(c, "release")
  /\ UNCHANGED <<RPAcquired, ScsiBitNumber, freedAccess, listVars, ExtensionRefs, monitorPc,
                 failures>>
  /\ CreateUnchanged

\* Exit: the device is freed and its address given back ...
CreateExit(c) ==
  /\ createPc[c] = "exit"
  /\ memory' = [memory EXCEPT ![c] = "freed"]
  /\ ScsiBitMap' = ScsiBitMap \ {ScsiBitNumber[c]}
  /\ CreateGoes(c, "release")
  /\ UNCHANGED <<RPAcquired, ScsiBitNumber, freedAccess, DeviceList, DeviceCount,
                 ExtensionRefs, monitorPc, failures>>
  /\ CreateUnchanged

\* ... and the extension is released.
CreateExitRelease(c) ==
  /\ createPc[c] = "release"
  /\ ExtensionRefs' = ExtensionRefs \ {c}
  /\ CreateGoes(c, "failed")
  /\ UNCHANGED <<RPAcquired, memory, ScsiBitNumber, freedAccess, listVars, monitorPc, failures>>
  /\ CreateUnchanged

\* WnbdInitializeDevice: the monitor thread runs from here on and takes over
\* the reference of the extension.
CreateStartMonitor(c) ==
  /\ createPc[c] = "addressed"
  /\ monitorPc' = [monitorPc EXCEPT ![c] = "waiting"]
  /\ CreateGoes(c, "monitored")
  /\ UNCHANGED <<RPAcquired, memory, ScsiBitNumber, freedAccess, listVars, ExtensionRefs,
                 failures>>
  /\ CreateUnchanged

CreateInsert(c) ==
  /\ createPc[c] = "monitored"
  /\ DeviceList' = Append(DeviceList, c)
  /\ CreateGoes(c, "inserted")
  /\ UNCHANGED <<RPAcquired, memory, ScsiBitNumber, freedAccess, ScsiBitMap, DeviceCount,
                 ExtensionRefs, monitorPc, failures>>
  /\ CreateUnchanged

CreateCount(c) ==
  /\ createPc[c] = "inserted"
  /\ DeviceCount' = DeviceCount + 1
  /\ CreateGoes(c, "counted")
  /\ UNCHANGED <<RPAcquired, memory, ScsiBitNumber, freedAccess, DeviceList, ScsiBitMap,
                 ExtensionRefs, monitorPc, failures>>
  /\ CreateUnchanged

\* Device->Bus is read and Device->Connected written without a reference.
CreateMapped(c) ==
  /\ createPc[c] = "counted"
  /\ freedAccess' = IF memory[c] = "freed" THEN freedAccess \cup {c} ELSE freedAccess
  /\ CreateGoes(c, "mapped")
  /\ UNCHANGED <<RPAcquired, memory, ScsiBitNumber, listVars, ExtensionRefs, monitorPc, failures>>
  /\ CreateUnchanged

-----------------------------------------------------------------------------
(* IOCTL_WNBD_SET_DRV_OPT and IOCTL_WNBD_RESET_DRV_OPT of NewMappingsAllowed *)

OptionUnchanged ==
  UNCHANGED <<createVars, deviceVars, listVars, extVars, callVars, adapterVars, monitorPc,
              GlobalDeviceRemovalEvent, failures, bugCheck>>

SetNewMappingsAllowed ==
  /\ setOptPc = "idle"
  /\ NewMappingsAllowed' \in BOOLEAN
  /\ setOpts' = IF NewMappingsAllowed' = NewMappingsAllowed THEN setOpts ELSE setOpts + 1
  /\ setOpts' <= MaxSetOpts
  /\ setOptPc' = IF NewMappingsAllowed' THEN "idle" ELSE "waiting"
  /\ OptionUnchanged

\* "Waiting for pending mappings": the creation lock is acquired shared, which
\* the creations that hold it shared do not prevent.
SetOptWaited ==
  /\ setOptPc = "waiting"
  /\ setOptPc' = "idle"
  /\ UNCHANGED <<NewMappingsAllowed, setOpts>>
  /\ OptionUnchanged

-----------------------------------------------------------------------------
(* Threads that use or remove a device *)

CallUnchanged ==
  UNCHANGED <<createVars, RundownActive, listVars, extVars, optionVars, adapterVars, monitorPc,
              GlobalDeviceRemovalEvent, failures, bugCheck>>

Acquires(t, d) ==
  /\ callPc[t] = "idle"
  /\ WnbdAcquireDevice(d)
  /\ callDevice' = [callDevice EXCEPT ![t] = d]
  /\ callPc' = [callPc EXCEPT ![t] = "using"]
  /\ UNCHANGED <<callPdo, pnpVars, DeviceRemovalEvent>>
  /\ CallUnchanged

\* IOCTL_WNBD_FETCH_REQ, _SEND_RSP and _SET_DISK_SIZE find the device by its
\* connection id.
UseDevice(t, c) == Acquires(t, WnbdFindDeviceByConnId(c))

\* IOCTL_WNBD_SHOW and _STATS find it by name.
UseNamedDevice(t, n) == Acquires(t, WnbdFindDeviceByInstanceName(n))

WnbdReleaseDevice(t) ==
  /\ callPc[t] = "using"
  /\ callPc' = [callPc EXCEPT ![t] = "idle"]
  /\ callDevice' = [callDevice EXCEPT ![t] = NoDevice]
  /\ UNCHANGED <<callPdo, pnpVars, DeviceRemovalEvent>>
  /\ CallUnchanged

\* IOCTL_WNBD_REMOVE: WnbdDeleteConnection.
WnbdDeleteConnection(t, n) ==
  /\ callPc[t] = "idle"
  /\ WnbdAcquireDevice(WnbdFindDeviceByInstanceName(n))
  /\ callDevice' = [callDevice EXCEPT ![t] = WnbdFindDeviceByInstanceName(n)]
  /\ callPc' = [callPc EXCEPT ![t] = "acquired"]
  /\ UNCHANGED <<callPdo, pnpVars, DeviceRemovalEvent>>
  /\ CallUnchanged

\* IOCTL_WNBD_LIST: WnbdEnumerateActiveConnections reads the first entry before
\* it takes DeviceListLock ...
ListBegin(t) ==
  /\ callPc[t] = "idle"
  /\ callDevice' = [callDevice EXCEPT ![t] = FirstListed(Creators)]
  /\ callPc' = [callPc EXCEPT ![t] = "listing"]
  /\ UNCHANGED <<callPdo, pnpVars, DeviceRemovalEvent>>
  /\ CallUnchanged

\* ... and walks the list from there.  The links of a device that was unlinked
\* meanwhile lead anywhere: the walk may halt the machine.
MayHalt(d) == bugCheck' \in IF d \in Listed \cup {NoDevice} THEN {FALSE} ELSE BOOLEAN

ListWalk(t) ==
  /\ callPc[t] = "listing"
  /\ MayHalt(callDevice[t])
  /\ callPc' = [callPc EXCEPT ![t] = "idle"]
  /\ callDevice' = [callDevice EXCEPT ![t] = NoDevice]
  /\ UNCHANGED <<callPdo, createVars, deviceVars, listVars, extVars, optionVars, adapterVars,
                 monitorPc, GlobalDeviceRemovalEvent, failures>>

\* The disks StorPort can have found, and made a PDO for: the device was listed.
Enumerated == {p \in Creators : createPc[p] \in {"inserted", "counted", "mapped"}}

\* IRP_MN_START_DEVICE of the disk p: the PDO goes to whatever device is at its
\* address by now.
StartDevice(p) ==
  /\ p \in Enumerated
  /\ WnbdAcquireDevice(WnbdFindDeviceByAddr(ScsiBitNumber[p]))
  /\ PDO' = [PDO EXCEPT ![WnbdFindDeviceByAddr(ScsiBitNumber[p])] = p]
  /\ lateStarts' = lateStarts \cup ({p} \ {WnbdFindDeviceByAddr(ScsiBitNumber[p])})
  /\ UNCHANGED <<callVars, DeviceRemovalEvent>>
  /\ CallUnchanged

\* Mutation: the PDO of the device at the address is not compared.
RemoveDeviceByAddr(t, p) ==
  /\ callPc[t] = "idle"
  /\ p \in Enumerated
  /\ DeviceCount # 0
  /\ WnbdAcquireDevice(WnbdFindDeviceByAddr(ScsiBitNumber[p]))
  /\ callDevice' = [callDevice EXCEPT ![t] = WnbdFindDeviceByAddr(ScsiBitNumber[p])]
  /\ callPdo' = [callPdo EXCEPT ![t] = p]
  /\ callPc' = [callPc EXCEPT ![t] = "acquired"]
  /\ UNCHANGED <<pnpVars, DeviceRemovalEvent>>
  /\ CallUnchanged

\* IRP_MN_REMOVE_DEVICE of a disk p, however late: the address may have another
\* device by now, which is released again unless it was given the PDO of p.
RemoveDevice(t, p) ==
  /\ callPc[t] = "idle"
  /\ p \in Enumerated
  /\ DeviceCount # 0
  /\ WnbdAcquireDevice(WnbdFindDeviceByAddr(ScsiBitNumber[p]))
  /\ PDO[WnbdFindDeviceByAddr(ScsiBitNumber[p])] = p
  /\ callDevice' = [callDevice EXCEPT ![t] = WnbdFindDeviceByAddr(ScsiBitNumber[p])]
  /\ callPdo' = [callPdo EXCEPT ![t] = p]
  /\ callPc' = [callPc EXCEPT ![t] = "acquired"]
  /\ UNCHANGED <<pnpVars, DeviceRemovalEvent>>
  /\ CallUnchanged

\* The event is set and the reference released ...
WnbdDisconnectSync(t) ==
  /\ callPc[t] = "acquired"
  /\ DeviceRemovalEvent' = [DeviceRemovalEvent EXCEPT ![callDevice[t]] = TRUE]
  /\ callPc' = [callPc EXCEPT ![t] = "waiting"]
  /\ UNCHANGED <<callDevice, callPdo, pnpVars>>
  /\ CallUnchanged

\* ... before the monitor thread is waited for.
Disconnected(t) ==
  /\ callPc[t] = "waiting"
  /\ monitorPc[callDevice[t]] = "gone"
  /\ callPc' = [callPc EXCEPT ![t] = "idle"]
  /\ callDevice' = [callDevice EXCEPT ![t] = NoDevice]
  /\ callPdo' = [callPdo EXCEPT ![t] = NoDevice]
  /\ UNCHANGED <<pnpVars, DeviceRemovalEvent>>
  /\ CallUnchanged

\* A reset that found the connection stale (DrainDeviceQueue) asks for its removal.
WnbdDisconnectAsync(t) ==
  /\ callPc[t] = "using"
  /\ DeviceRemovalEvent' = [DeviceRemovalEvent EXCEPT ![callDevice[t]] = TRUE]
  /\ UNCHANGED <<callVars, pnpVars>>
  /\ CallUnchanged

-----------------------------------------------------------------------------
(* WnbdDeviceMonitorThread *)

MonitorUnchanged ==
  UNCHANGED <<createPc, RPAcquired, ScsiBitNumber, freedAccess, lateStarts, ExtensionRundown,
              optionVars, callVars, adapterVars, failures>>

MonitorGoes(d, pc) == monitorPc' = [monitorPc EXCEPT ![d] = pc]

\* The event of the adapter wakes one thread and resets itself.
MonitorWake(d) ==
  /\ monitorPc[d] = "waiting"
  /\ \/ GlobalDeviceRemovalEvent /\ GlobalDeviceRemovalEvent' = FALSE
     \/ DeviceRemovalEvent[d] /\ UNCHANGED GlobalDeviceRemovalEvent
  /\ DeviceRemovalEvent' = [DeviceRemovalEvent EXCEPT ![d] = TRUE]
  /\ MonitorGoes(d, "stopping")
  /\ UNCHANGED <<memory, PDO, RundownActive, listVars, ExtensionRefs, bugCheck>>
  /\ MonitorUnchanged

MonitorRundown(d) ==
  /\ monitorPc[d] = "stopping"
  /\ RundownActive' = [RundownActive EXCEPT ![d] = TRUE]
  /\ MonitorGoes(d, "rundown")
  /\ UNCHANGED <<memory, PDO, DeviceRemovalEvent, listVars, ExtensionRefs, GlobalDeviceRemovalEvent,
                 bugCheck>>
  /\ MonitorUnchanged

\* The references are gone and the queues drained (module WnbdRequests).
MonitorDrained(d) ==
  /\ monitorPc[d] = "rundown"
  /\ References(d) = {}
  /\ MonitorGoes(d, "unlink")
  /\ UNCHANGED <<memory, PDO, DeviceRemovalEvent, RundownActive, listVars, ExtensionRefs,
                 GlobalDeviceRemovalEvent, bugCheck>>
  /\ MonitorUnchanged

\* Mutation: the device stays in the list.
MonitorUnlinkKeepsEntry(d) ==
  /\ monitorPc[d] = "unlink"
  /\ d \in Listed
  /\ ScsiBitMap' = ScsiBitMap \ {ScsiBitNumber[d]}
  /\ MonitorGoes(d, "unlinked")
  /\ UNCHANGED <<memory, PDO, DeviceRemovalEvent, RundownActive, DeviceList, DeviceCount,
                 ExtensionRefs, GlobalDeviceRemovalEvent, bugCheck>>
  /\ MonitorUnchanged

\* Out of the list, and the address is free.
MonitorUnlink(d) ==
  /\ monitorPc[d] = "unlink"
  /\ \E i \in DOMAIN DeviceList : DeviceList[i] = d /\ DeviceList' = WithoutEntry(i)
  /\ ScsiBitMap' = ScsiBitMap \ {ScsiBitNumber[d]}
  /\ MonitorGoes(d, "unlinked")
  /\ UNCHANGED <<memory, PDO, DeviceRemovalEvent, RundownActive, DeviceCount, ExtensionRefs,
                 GlobalDeviceRemovalEvent, bugCheck>>
  /\ MonitorUnchanged

\* RemoveEntryList of an entry WnbdCreateConnection did not insert yet: the
\* links are still zero and following them halts the machine.
MonitorUnlinkEarly(d) ==
  /\ monitorPc[d] = "unlink"
  /\ d \notin Listed
  /\ bugCheck' = TRUE
  /\ UNCHANGED <<memory, PDO, DeviceRemovalEvent, RundownActive, listVars, ExtensionRefs,
                 GlobalDeviceRemovalEvent, monitorPc>>
  /\ MonitorUnchanged

\* Mutation: the device is not taken off the count.
MonitorCountSkipped(d) ==
  /\ monitorPc[d] = "unlinked"
  /\ MonitorGoes(d, "counted")
  /\ UNCHANGED <<memory, PDO, DeviceRemovalEvent, RundownActive, listVars, ExtensionRefs,
                 GlobalDeviceRemovalEvent, bugCheck>>
  /\ MonitorUnchanged

MonitorCount(d) ==
  /\ monitorPc[d] = "unlinked"
  /\ DeviceCount' = DeviceCount - 1
  /\ MonitorGoes(d, "counted")
  /\ UNCHANGED <<memory, PDO, DeviceRemovalEvent, RundownActive, DeviceList, ScsiBitMap,
                 ExtensionRefs, GlobalDeviceRemovalEvent, bugCheck>>
  /\ MonitorUnchanged

MonitorFree(d) ==
  /\ monitorPc[d] = "counted"
  /\ memory' = [memory EXCEPT ![d] = "freed"]
  /\ PDO' = [PDO EXCEPT ![d] = NoDevice]
  /\ MonitorGoes(d, "freed")
  /\ UNCHANGED <<DeviceRemovalEvent, RundownActive, listVars, ExtensionRefs,
                 GlobalDeviceRemovalEvent, bugCheck>>
  /\ MonitorUnchanged

\* Mutation: the extension is not released.
MonitorReleaseForgotten(d) ==
  /\ monitorPc[d] = "freed"
  /\ MonitorGoes(d, "exiting")
  /\ UNCHANGED <<memory, PDO, DeviceRemovalEvent, RundownActive, listVars, ExtensionRefs,
                 GlobalDeviceRemovalEvent, bugCheck>>
  /\ MonitorUnchanged

\* The thread runs a few more instructions after it released the extension.
MonitorRelease(d) ==
  /\ monitorPc[d] = "freed"
  /\ ExtensionRefs' = ExtensionRefs \ {d}
  /\ MonitorGoes(d, "exiting")
  /\ UNCHANGED <<memory, PDO, DeviceRemovalEvent, RundownActive, listVars, GlobalDeviceRemovalEvent,
                 bugCheck>>
  /\ MonitorUnchanged

MonitorExit(d) ==
  /\ monitorPc[d] = "exiting"
  /\ MonitorGoes(d, "gone")
  /\ UNCHANGED <<memory, PDO, DeviceRemovalEvent, RundownActive, listVars, ExtensionRefs,
                 GlobalDeviceRemovalEvent, bugCheck>>
  /\ MonitorUnchanged

-----------------------------------------------------------------------------
(* ScsiStopAdapter and HwFreeAdapterResources: WnbdCleanupAllDevices *)

AdapterUnchanged ==
  UNCHANGED <<createVars, deviceVars, listVars, ExtensionRefs, optionVars, callVars, monitorPc,
              failures, bugCheck>>

CleanupSignal ==
  /\ adapterPc \in {"running", "stopped"}
  /\ cleanups < MaxCleanups
  /\ cleanups' = cleanups + 1
  /\ GlobalDeviceRemovalEvent' = TRUE
  /\ adapterPc' = "signalled"
  /\ UNCHANGED ExtensionRundown
  /\ AdapterUnchanged

CleanupRundown ==
  /\ adapterPc = "signalled"
  /\ ExtensionRundown' = TRUE
  /\ adapterPc' = "waiting"
  /\ UNCHANGED <<GlobalDeviceRemovalEvent, cleanups>>
  /\ AdapterUnchanged

CleanupReturns ==
  /\ adapterPc = "waiting"
  /\ ExtensionRefs = {}
  /\ adapterPc' = "stopped"
  /\ UNCHANGED <<GlobalDeviceRemovalEvent, cleanups, ExtensionRundown>>
  /\ AdapterUnchanged

-----------------------------------------------------------------------------
CreateSteps(c) ==
  \/ CreateRefused(c) \/ CreateAllowed(c) \/ CreateCollision(c)
  \/ CreateAllocate(c) \/ CreateAssignAddress(c) \/ CreateFails(c) \/ CreateExit(c)
  \/ CreateExitRelease(c) \/ CreateStartMonitor(c) \/ CreateInsert(c) \/ CreateCount(c)
  \/ CreateMapped(c)
MonitorSteps(d) ==
  \/ MonitorWake(d) \/ MonitorRundown(d) \/ MonitorDrained(d) \/ MonitorUnlink(d)
  \/ MonitorUnlinkEarly(d) \/ MonitorCount(d) \/ MonitorFree(d) \/ MonitorRelease(d)
  \/ MonitorExit(d)
CallSteps(t)  == WnbdReleaseDevice(t) \/ WnbdDisconnectSync(t) \/ Disconnected(t) \/ ListWalk(t)
CleanupSteps  == CleanupRundown \/ CleanupReturns
Calls(t) ==
  \/ ListBegin(t)
  \/ \E c \in Creators : UseDevice(t, c) \/ RemoveDevice(t, c)
  \/ \E n \in {NameOf[c] : c \in Creators} : WnbdDeleteConnection(t, n) \/ UseNamedDevice(t, n)

Next ==
  /\ ~bugCheck
  /\ \/ \E c \in Creators : CreateBegin(c) \/ CreateSteps(c) \/ StartDevice(c)
     \/ \E t \in Callers : Calls(t) \/ WnbdDisconnectAsync(t) \/ CallSteps(t)
     \/ \E d \in Creators : MonitorSteps(d)
     \/ SetNewMappingsAllowed \/ SetOptWaited
     \/ CleanupSignal \/ CleanupSteps

Spec == Init /\ [][Next]_vars

\* Threads inside the driver run on; nobody has to call it.
Fairness ==
  /\ \A c \in Creators : WF_vars(~bugCheck /\ CreateSteps(c)) /\ WF_vars(~bugCheck /\ MonitorSteps(c))
  /\ \A t \in Callers : WF_vars(~bugCheck /\ CallSteps(t))
  /\ WF_vars(~bugCheck /\ CleanupSteps)

FairSpec == Spec /\ Fairness

-----------------------------------------------------------------------------
(* Properties *)

\* Creations between the acquisition of the extension and their return.
InProgress == {c \in Creators : createPc[c] \notin {"idle", "mapped", "refused", "failed"}}

\* Mappings whose monitor thread did not release the extension yet.
Monitored == {d \in Creators : monitorPc[d] \notin {"none", "exiting", "gone"}}

\* Those that hold an address: from RtlFindClearBitsAndSet until Exit or the
\* monitor thread clears the bit.
Addressed ==
  {c \in Creators : /\ ScsiBitNumber[c] # NoAddress
                    /\ createPc[c] \notin {"release", "failed"}
                    /\ monitorPc[c] \in {"none", "waiting", "stopping", "rundown", "unlink"}}

\* Disks never share an address and no address is lost, whichever creations
\* fail and whichever disks are removed meanwhile (ScsiBitMapHeader).
AddressPerDisk ==
  /\ ScsiBitMap = {ScsiBitNumber[c] : c \in Addressed}
  /\ \A c, d \in Addressed : ScsiBitNumber[c] = ScsiBitNumber[d] => c = d

\* The rundown protection of the extension counts the creations in progress,
\* the disks, and for ever every creation that was refused: both early returns
\* and the exit path without a device keep the reference.
ExtensionRefsDriftByRefusals ==
  ExtensionRefs = Monitored \cup {c \in InProgress : RPAcquired[c] /\ monitorPc[c] = "none"}
                  \cup {c \in Creators : createPc[c] = "refused" /\ RPAcquired[c]}

\* A device in the list is allocated, has its own address and a monitor thread
\* that did not unlink it yet: a walk under DeviceListLock meets no freed device.
ListedIsLive ==
  /\ \A i, j \in DOMAIN DeviceList : DeviceList[i] = DeviceList[j] => i = j
  /\ \A d \in Listed :
       /\ memory[d] = "allocated"
       /\ d \in Addressed
       /\ monitorPc[d] # "none"

\* A thread that acquired a device finds it allocated until it releases it,
\* although the device may be told to go at any time (WnbdAcquireDevice,
\* ExWaitForRundownProtectionRelease).
AcquiredIsLive ==
  \A t \in Callers : callPc[t] \in {"using", "acquired"} =>
    callDevice[t] \in Listed /\ memory[callDevice[t]] = "allocated"

\* WnbdEnumerateActiveConnections starts at an entry it read without the lock:
\* that is a listed device unless its monitor thread unlinked it since.
StaleOnlyIfUnlinked ==
  \A t \in Callers : callPc[t] = "listing" /\ callDevice[t] # NoDevice =>
    \/ callDevice[t] \in Listed
    \/ monitorPc[callDevice[t]] \in {"unlinked", "counted", "freed", "exiting", "gone"}

\* No lookup, no reference and no walk that starts under DeviceListLock leads to a
\* device that was freed.  The one exception is the enumeration of the disks, when
\* the disk that was first in the list is unlinked between its read of the list
\* head and its acquisition of the lock.
ReachableIsLive == ListedIsLive /\ AcquiredIsLive /\ StaleOnlyIfUnlinked

\* DeviceCount lags behind the list by the creations and removals under way, so
\* that it may be zero, or less, while a disk is listed.
DeviceCountLags ==
  DeviceCount = Len(DeviceList) - Cardinality({c \in Creators : createPc[c] = "inserted"})
                + Cardinality({d \in Creators : monitorPc[d] = "unlinked"})

\* The two counters the adapter's life depends on are off by exactly what is
\* under way and what was refused: no failing creation and no removal, in
\* whatever order, makes them drift further (WnbdCreateConnection,
\* WnbdDeviceMonitorThread).
CountersDriftByRefusals == ExtensionRefsDriftByRefusals /\ DeviceCountLags

\* A removal that PnP asks for, even if it comes when the address of its disk was
\* given to a new one, disconnects another disk only if the start of its own came
\* that late too: IRP_MN_START_DEVICE takes the device at the address for its own,
\* and the comparison of IRP_MN_REMOVE_DEVICE then believes it (WnbdDispatchPnp).
PnpRemovesItsOwn ==
  \A t \in Callers :
    callPdo[t] # NoDevice => callDevice[t] = callPdo[t] \/ callPdo[t] \in lateStarts

\* When WnbdCleanupAllDevices returned there is no disk and there will be none:
\* the adapter can be freed.  Monitor threads may still run their last instructions.
CleanupLeavesNothing ==
  adapterPc = "stopped" =>
    /\ Listed = {} /\ ScsiBitMap = {} /\ Monitored = {}
    /\ \A c \in Creators : memory[c] # "allocated"

\* The last disk of the adapter is torn down by WnbdCleanupAllDevices, which returns.
LastDiskTornDown ==
  (/\ adapterPc = "waiting" /\ GlobalDeviceRemovalEvent
   /\ \E d \in Creators : ExtensionRefs = {d} /\ monitorPc[d] = "waiting")
    ~> adapterPc = "stopped" \/ bugCheck

\* "Tear down every mapping now": WnbdCleanupAllDevices returns, whatever the
\* number of disks.
CleanupReturnsAlways == adapterPc = "waiting" ~> adapterPc = "stopped" \/ bugCheck

\* "Unacquired device pointers must not be dereferenced": a creation that
\* finishes does not touch a device that was removed meanwhile.
NoFreedAccess == freedAccess = {}
=============================================================================
