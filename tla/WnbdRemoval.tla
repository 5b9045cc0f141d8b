----------------------------- MODULE WnbdRemoval -----------------------------
(***************************************************************************)
(* Taking disks and the adapter away from userspace: WnbdRemoveEx with its *)
(* soft removal, retries, timeout and fallback (libwnbd.cpp), the removal  *)
(* of every disk before an uninstall (wnbd_ioctl.cpp) and the adapter      *)
(* reset, in several processes that know nothing of each other, while      *)
(* other processes map disks and applications use them.                    *)
(*                                                                         *)
(* A process identifies a disk by its name, by a PnP identifier it read    *)
(* earlier, or by a list it read earlier; any of them may be stale when it *)
(* is used.  The driver's side is cut down to what these calls see: the    *)
(* list of disks, the count of disks, and the life of each disk            *)
(* (WnbdRegistry has the details).                                         *)
(***************************************************************************)
EXTENDS Integers, Sequences, FiniteSets

CONSTANTS
  Disks,        \* the mappings that may be created, numbered in this order
  NameOf,       \* their instance names
  Removers,     \* calls of WnbdRemoveEx
  Resetters,    \* calls of WnbdResetAdapterEx
  Options,      \* the WNBD_REMOVE_OPTIONS they may be given
  ResetTimeout, \* the timeout of a reset, 0 for none
  NoDisk

\* A timeout of 0 stands for no timeout; one unit is a retry interval.
ASSUME OptionsAssumption ==
  /\ Options \subseteq [HardRemove : BOOLEAN, HardRemoveFallback : BOOLEAN, Timeout : Nat]
  /\ ResetTimeout \in Nat /\ Disks \subseteq Nat /\ NoDisk \notin Disks

VARIABLES
  adapter,             \* "present", "stopping", "disabled" or "removed"
  removalEvent,        \* GlobalDeviceRemovalEvent
  NewMappingsAllowed,
  creation,            \* how far the creation of each disk is
  life,                \* how far its removal is
  DeviceList,
  PNPDeviceID,         \* the disk PnP started at the address of each disk
  rm,                  \* the calls of WnbdRemoveEx
  all,                 \* the uninstaller
  reset                \* the calls of WnbdResetAdapterEx

adapterVars == <<adapter, removalEvent>>
diskVars == <<creation, life, DeviceList, PNPDeviceID>>
vars == <<adapterVars, NewMappingsAllowed, diskVars, rm, all, reset>>

IdleRm == [pc |-> "idle", name |-> "", options |-> [HardRemove |-> FALSE],
           Handle |-> FALSE, found |-> NoDisk, target |-> NoDisk, elapsed |-> 0,
           removing |-> NoDisk, softFailed |-> FALSE, status |-> "none"]

\* The uninstaller when nothing it read or found out matters, not yet or not any more.
AllAt(pc) == [pc |-> pc, capacity |-> 0, head |-> NoDisk, list |-> <<>>, removing |-> NoDisk,
              pending |-> "none", status |-> "none"]

Init ==
  /\ adapter = "present"
  /\ removalEvent = FALSE
  /\ NewMappingsAllowed = TRUE
  /\ creation = [d \in Disks |-> "none"]
  /\ life = [d \in Disks |-> "none"]
  /\ DeviceList = <<>>
  /\ PNPDeviceID = [d \in Disks |-> NoDisk]
  /\ rm = [r \in Removers |-> IdleRm]
  /\ all = AllAt("idle")
  /\ reset = [x \in Resetters |-> [pc |-> "idle", elapsed |-> 0]]

-----------------------------------------------------------------------------
(* The driver, as these calls see it *)

Listed == {DeviceList[i] : i \in DOMAIN DeviceList}
UnderWay == {d \in Disks : creation[d] \in {"checked", "listed"}}

\* Incremented when a creation is done, decremented when a removal is.
DeviceCount == Cardinality({d \in Disks : creation[d] = "mapped"})
                 - Cardinality({d \in Disks : life[d] = "gone"})

\* The first disk of that name, unless its removal already waits for its users.
WnbdFindDeviceByInstanceName(name) ==
  LET hits  == {i \in DOMAIN DeviceList : NameOf[DeviceList[i]] = name}
      first == DeviceList[CHOOSE i \in hits : \A j \in hits : i <= j]
  IN  IF hits # {} /\ life[first] \in {"live", "signalled"} THEN first ELSE NoDisk

\* RemoveEntryList of the entry at place i.
WithoutEntry(i) == [j \in 1..(Len(DeviceList) - 1) |-> DeviceList[IF j < i THEN j ELSE j + 1]]

\* WnbdDisconnectSync wakes the monitor thread; its caller waits for "gone".
Signal(d) == life' = [life EXCEPT ![d] = "signalled"]

\* IOCTL_WNBD_CREATE: the checks, the insertion and the count are far apart.
CreateCheck(d) ==
  /\ creation[d] = "none" /\ \A e \in Disks : e < d => creation[e] # "none"
  /\ adapter = "present"
  /\ creation' = [creation EXCEPT ![d] =
       IF NewMappingsAllowed /\ \A e \in Listed : NameOf[e] # NameOf[d]
       THEN "checked" ELSE "refused"]
  /\ UNCHANGED <<adapterVars, NewMappingsAllowed, life, DeviceList, PNPDeviceID, rm, all, reset>>

CreateInsert(d) ==
  /\ creation[d] = "checked"
  /\ creation' = [creation EXCEPT ![d] = "listed"]
  /\ life' = [life EXCEPT ![d] = "live"]
  /\ DeviceList' = Append(DeviceList, d)
  /\ UNCHANGED <<adapterVars, NewMappingsAllowed, PNPDeviceID, rm, all, reset>>

CreateCount(d) ==
  /\ creation[d] = "listed"
  /\ creation' = [creation EXCEPT ![d] = "mapped"]
  /\ UNCHANGED <<adapterVars, NewMappingsAllowed, life, DeviceList, PNPDeviceID, rm, all, reset>>

\* IRP_MN_START_DEVICE of the disk p stores its identifier, and its PDO, in the
\* disk that is at its address: another one if p is gone and its address used again.
\* PnP starts no disk of an adapter it stops.
PnpStart(p) ==
  /\ creation[p] = "mapped" /\ adapter = "present"
  /\ \E d \in Disks :
       /\ d = p \/ life[p] \in {"unlinked", "gone"}
       /\ life[d] \in {"live", "signalled"}
       /\ PNPDeviceID' = [PNPDeviceID EXCEPT ![d] = p]
  /\ UNCHANGED <<adapterVars, NewMappingsAllowed, creation, life, DeviceList, rm, all, reset>>

\* WnbdDeviceMonitorThread: wait for the users, unlink, count.
Monitor(d) ==
  /\ \/ /\ life[d] = "signalled"
        /\ life' = [life EXCEPT ![d] = "leaving"]
        /\ UNCHANGED <<DeviceList, PNPDeviceID>>
     \/ /\ life[d] = "leaving"
        /\ life' = [life EXCEPT ![d] = "unlinked"]
        /\ \E i \in DOMAIN DeviceList : DeviceList[i] = d /\ DeviceList' = WithoutEntry(i)
        /\ PNPDeviceID' = [PNPDeviceID EXCEPT ![d] = NoDisk]
     \/ /\ life[d] = "unlinked"
        /\ life' = [life EXCEPT ![d] = "gone"]
        /\ UNCHANGED <<DeviceList, PNPDeviceID>>
  /\ UNCHANGED <<adapterVars, NewMappingsAllowed, creation, rm, all, reset>>

\* Disabling or uninstalling the adapter: PnP removes the disks it started, those
\* it knows of, and stops the adapter, which sets one event for all the others.
StopBegin ==
  /\ adapter = "present"
  /\ adapter' = "stopping"
  /\ removalEvent' = TRUE
  /\ \E known \in SUBSET {d \in Disks : life[d] = "live" /\ PNPDeviceID[d] # NoDisk} :
       life' = [d \in Disks |-> IF d \in known THEN "signalled" ELSE life[d]]
  /\ UNCHANGED <<creation, DeviceList, PNPDeviceID>>

\* The event wakes one monitor thread and resets itself.
StopWake(d) ==
  /\ removalEvent /\ life[d] \in {"live", "signalled"}
  /\ removalEvent' = FALSE
  /\ Signal(d)
  /\ UNCHANGED <<adapter, NewMappingsAllowed, creation, DeviceList, PNPDeviceID, rm, all,
                 reset>>

\* WnbdCleanupAllDevices waits for every disk, for the creations under way and for
\* those that were refused, which never give their reference back.
StopReturns(state) ==
  /\ adapter = "stopping"
  /\ UnderWay = {}
  /\ \A d \in Disks : creation[d] # "refused" /\ life[d] \in {"none", "gone"}
  /\ adapter' = state
  /\ removalEvent' = FALSE
  /\ UNCHANGED diskVars

-----------------------------------------------------------------------------
(* WnbdRemoveEx *)

TimeLeft(timeout, elapsed) == timeout = 0 \/ timeout > elapsed

\* Time is measured after an attempt and passes while sleeping at least; how far
\* beyond the timeout does not matter.
ElapsedAfter(timeout, elapsed) == elapsed..timeout
Slept(timeout, elapsed) == IF elapsed < timeout THEN elapsed + 1 ELSE elapsed

\* The call returns; what it kept in local variables is lost, what matters to the
\* properties stays.
Returned(call, status) ==
  [call EXCEPT !.pc = "done", !.status = status, !.name = "", !.target = NoDisk, !.elapsed = 0,
               !.found = IF status = "SUCCESS" THEN @ ELSE NoDisk]

Return(r, status) == rm' = [rm EXCEPT ![r] = Returned(@, status)]

\* The handle is closed on the last return only.
CloseAndReturn(r, status) ==
  rm' = [rm EXCEPT ![r] = [Returned(@, status) EXCEPT !.Handle = FALSE]]

RmOpen(r) ==
  /\ rm[r].pc = "idle"
  /\ \E options \in Options, d \in Disks :
       IF adapter = "present"
       THEN rm' = [rm EXCEPT ![r] = [IdleRm EXCEPT
                     !.pc = IF options.HardRemove THEN "ioctl" ELSE "show",
                     !.name = NameOf[d], !.options = options, !.Handle = TRUE]]
       ELSE rm' = [rm EXCEPT ![r] = [IdleRm EXCEPT
                     !.pc = "done", !.options = options, !.status = "OPEN_FAILED"]]
  /\ UNCHANGED <<adapterVars, NewMappingsAllowed, diskVars, all, reset>>

\* The identifier is copied as it is now: it is empty until PnP starts the disk,
\* and an empty identifier is the root of the device tree, which is no disk.
RmShow(r) ==
  /\ rm[r].pc = "show"
  /\ LET d == WnbdFindDeviceByInstanceName(rm[r].name) IN
     IF adapter # "present" THEN Return(r, "OPEN_FAILED")
     ELSE IF d = NoDisk THEN Return(r, "FILE_NOT_FOUND")
     ELSE rm' = [rm EXCEPT ![r].pc = "locate", ![r].found = d,
                           ![r].target = PNPDeviceID[d]]
  /\ UNCHANGED <<adapterVars, NewMappingsAllowed, diskVars, all, reset>>

\* Mutation: running out of time is not recorded as a failure.
SoftFailsUnlessTimeout(r, status) ==
  LET call == [rm[r] EXCEPT !.softFailed = TRUE] IN
  rm' = [rm EXCEPT ![r] =
           IF call.options.HardRemoveFallback \/ status = "TIMEOUT"
           THEN [call EXCEPT !.pc = "ioctl"]
           ELSE Returned(call, status)]

\* A soft removal that failed ends the call or falls back to a hard one.
SoftFails(r, status) ==
  LET call == [rm[r] EXCEPT !.softFailed = TRUE] IN
  rm' = [rm EXCEPT ![r] =
           IF call.options.HardRemoveFallback THEN [call EXCEPT !.pc = "ioctl"]
                                              ELSE Returned(call, status)]

\* CM_Locate_DevNode_ExW
RmLocate(r) ==
  /\ rm[r].pc = "locate"
  /\ IF rm[r].target = NoDisk \/ life[rm[r].target] # "gone"
     THEN rm' = [rm EXCEPT ![r].pc = "attempt"]
     ELSE SoftFails(r, "OPEN_FAILED")
  /\ UNCHANGED <<adapterVars, NewMappingsAllowed, diskVars, all, reset>>

\* CM_Query_And_Remove_SubTreeW succeeds: IRP_MN_REMOVE_DEVICE disconnects the
\* disk that was given this PDO, unless it is being removed already.
RmAttemptSucceeds(r) ==
  /\ rm[r].pc = "attempt"
  /\ rm[r].target # NoDisk
  /\ \/ \E d \in Disks :
          /\ PNPDeviceID[d] = rm[r].target /\ life[d] \in {"live", "signalled"}
          /\ Signal(d)
          /\ rm' = [rm EXCEPT ![r].pc = "pnp_wait", ![r].target = d]
     \/ /\ \A d \in Disks : PNPDeviceID[d] = rm[r].target => life[d] \notin {"live", "signalled"}
        /\ rm' = [rm EXCEPT ![r].pc = "ioctl"]
        /\ UNCHANGED life
  /\ UNCHANGED <<adapterVars, NewMappingsAllowed, creation, DeviceList, PNPDeviceID, all, reset>>

RmPnpDone(r) ==
  /\ rm[r].pc = "pnp_wait" /\ life[rm[r].target] = "gone"
  /\ rm' = [rm EXCEPT ![r].pc = "ioctl"]
  /\ UNCHANGED <<adapterVars, NewMappingsAllowed, diskVars, all, reset>>

\* An application, a driver (IRP_MN_QUERY_REMOVE_DEVICE with pending requests)
\* or the system vetoes the removal.
RmAttemptVetoed(r) ==
  /\ rm[r].pc = "attempt"
  /\ \E elapsed \in ElapsedAfter(rm[r].options.Timeout, rm[r].elapsed) :
       IF TimeLeft(rm[r].options.Timeout, elapsed)
       THEN rm' = [rm EXCEPT ![r].pc = "sleep", ![r].elapsed = elapsed]
       ELSE SoftFails(r, "TIMEOUT")
  /\ UNCHANGED <<adapterVars, NewMappingsAllowed, diskVars, all, reset>>

\* Any other error ends the attempts.
RmAttemptFails(r) ==
  /\ rm[r].pc = "attempt"
  /\ SoftFails(r, "REMOVE_FAILED")
  /\ UNCHANGED <<adapterVars, NewMappingsAllowed, diskVars, all, reset>>

\* Mutation: the clock is read before every attempt instead of before the first.
RmSleepRestarts(r) ==
  /\ rm[r].pc = "sleep"
  /\ rm' = [rm EXCEPT ![r].pc = "attempt", ![r].elapsed = 0]
  /\ UNCHANGED <<adapterVars, NewMappingsAllowed, diskVars, all, reset>>

RmSleep(r) ==
  /\ rm[r].pc = "sleep"
  /\ rm' = [rm EXCEPT ![r].pc = "attempt",
                          ![r].elapsed = Slept(rm[r].options.Timeout, rm[r].elapsed)]
  /\ UNCHANGED <<adapterVars, NewMappingsAllowed, diskVars, all, reset>>

\* WnbdIoctlRemove takes the name, on the handle opened first, which works until the
\* adapter is gone.  A disk that was found before may be missing.
RmIoctl(r) ==
  /\ rm[r].pc = "ioctl"
  /\ LET d == WnbdFindDeviceByInstanceName(rm[r].name) IN
     IF adapter \in {"disabled", "removed"}
       THEN CloseAndReturn(r, "NO_SUCH_DEVICE") /\ UNCHANGED life
     ELSE IF d # NoDisk
       THEN rm' = [rm EXCEPT ![r].pc = "ioctl_wait", ![r].removing = d] /\ Signal(d)
     ELSE /\ CloseAndReturn(r, IF rm[r].found # NoDisk THEN "SUCCESS" ELSE "FILE_NOT_FOUND")
          /\ UNCHANGED life
  /\ UNCHANGED <<adapterVars, NewMappingsAllowed, creation, DeviceList, PNPDeviceID, all, reset>>

RmIoctlDone(r) ==
  /\ rm[r].pc = "ioctl_wait" /\ life[rm[r].removing] = "gone"
  /\ CloseAndReturn(r, "SUCCESS")
  /\ UNCHANGED <<adapterVars, NewMappingsAllowed, diskVars, all, reset>>

RmAttempt(r) == RmAttemptSucceeds(r) \/ RmAttemptVetoed(r) \/ RmAttemptFails(r)
RmSteps(r) ==
  \/ RmShow(r) \/ RmLocate(r) \/ RmPnpDone(r) \/ RmSleep(r) \/ RmIoctl(r) \/ RmIoctlDone(r)

-----------------------------------------------------------------------------
(* RemoveAllWnbdDevices: every disk of the adapter, then the adapter *)

\* Mappings are disallowed, in the driver's memory only.  Those that passed the
\* check are not waited for (DeviceCreationLock is acquired shared).
AllDisallow ==
  /\ all.pc = "idle"
  /\ adapter = "present"
  /\ NewMappingsAllowed' = FALSE
  /\ all' = [all EXCEPT !.pc = "list", !.pending = IF UnderWay = {} THEN "none" ELSE "some"]
  /\ UNCHANGED <<adapterVars, diskVars, rm, reset>>

\* The adapter is there but cannot be opened (it is disabled): its disks are not
\* looked for, it is uninstalled as it is.
AllUnavailable ==
  /\ all.pc = "idle"
  /\ adapter = "disabled"
  /\ all' = [all EXCEPT !.pc = "adapter", !.status = "SUCCESS"]
  /\ UNCHANGED <<adapterVars, NewMappingsAllowed, diskVars, rm, reset>>

\* The first list asks for the size of the buffer: DeviceCount entries and the
\* one that WNBD_CONNECTION_LIST itself holds.
AllList ==
  /\ all.pc = "list"
  /\ all' = IF adapter = "present"
            THEN [all EXCEPT !.pc = "relist", !.capacity = DeviceCount + 1]
            ELSE AllAt("done")
  /\ UNCHANGED <<adapterVars, NewMappingsAllowed, diskVars, rm, reset>>

\* The second list.  If the count grew meanwhile the driver writes no list and
\* reports success: the caller finds no disks in its zeroed buffer.  Otherwise it
\* reads the first entry of the list before it takes DeviceListLock ...
AllRelist ==
  /\ all.pc = "relist"
  /\ all' = IF adapter # "present"
              THEN AllAt("done")
            ELSE IF DeviceCount + 1 > all.capacity
              THEN [all EXCEPT !.pc = "remove", !.capacity = 0, !.status = "SUCCESS"]
            ELSE [all EXCEPT !.pc = "walk",
                             !.head = IF DeviceList = <<>> THEN NoDisk ELSE Head(DeviceList)]
  /\ UNCHANGED <<adapterVars, NewMappingsAllowed, diskVars, rm, reset>>

\* ... and walks from there.  If the list was empty then nothing is listed, and if
\* the first disk was unlinked meanwhile it is undefined what is.
AllWalk ==
  /\ all.pc = "walk"
  /\ LET walked == [all EXCEPT !.pc = "remove", !.capacity = 0, !.head = NoDisk] IN
     \/ all.head = NoDisk /\ all' = [walked EXCEPT !.status = "SUCCESS", !.list = <<>>]
     \/ /\ all.head \in Listed /\ Len(DeviceList) <= all.capacity
        /\ all' = [walked EXCEPT !.status = "SUCCESS",
                                 !.list = [i \in DOMAIN DeviceList |-> NameOf[DeviceList[i]]]]
     \/ /\ all.head \in Listed /\ Len(DeviceList) > all.capacity
        /\ all' = [walked EXCEPT !.pc = "adapter", !.status = "MORE_DATA"]
     \/ /\ all.head \notin Listed \cup {NoDisk}
        /\ \E list \in {<<>>} \cup {<<NameOf[d]>> : d \in Disks} :
             all' = [walked EXCEPT !.status = "UNDEFINED", !.list = list]
  /\ UNCHANGED <<adapterVars, NewMappingsAllowed, diskVars, rm, reset>>

\* Mutation: a disk that is missing is skipped and so is the next one.
AllRemoveSkips ==
  /\ all.pc = "remove"
  /\ LET d == IF all.list = <<>> THEN NoDisk ELSE WnbdFindDeviceByInstanceName(Head(all.list)) IN
     IF all.list = <<>> THEN all' = [all EXCEPT !.pc = "adapter"] /\ UNCHANGED life
     ELSE IF adapter # "present" \/ d = NoDisk
       THEN all' = [all EXCEPT !.list = IF Len(@) = 1 THEN <<>> ELSE Tail(Tail(@))]
            /\ UNCHANGED life
     ELSE /\ Signal(d)
          /\ all' = [all EXCEPT !.pc = "remove_wait", !.removing = d, !.list = Tail(@)]
  /\ UNCHANGED <<adapterVars, NewMappingsAllowed, creation, DeviceList, PNPDeviceID, rm, reset>>

\* The disks are removed by name, one after the other; the first error ends it.
AllRemove ==
  /\ all.pc = "remove"
  /\ LET d == IF all.list = <<>> THEN NoDisk ELSE WnbdFindDeviceByInstanceName(Head(all.list)) IN
     IF all.list = <<>> THEN all' = [all EXCEPT !.pc = "adapter"] /\ UNCHANGED life
     ELSE IF adapter # "present" \/ d = NoDisk
       THEN all' = [all EXCEPT !.pc = "adapter", !.status = "FILE_NOT_FOUND"] /\ UNCHANGED life
     ELSE /\ Signal(d)
          /\ all' = [all EXCEPT !.pc = "remove_wait", !.removing = d, !.list = Tail(@)]
  /\ UNCHANGED <<adapterVars, NewMappingsAllowed, creation, DeviceList, PNPDeviceID, rm, reset>>

AllRemoveDone ==
  /\ all.pc = "remove_wait" /\ life[all.removing] = "gone"
  /\ all' = [all EXCEPT !.pc = "remove", !.removing = NoDisk]
  /\ UNCHANGED <<adapterVars, NewMappingsAllowed, diskVars, rm, reset>>

\* The adapter is uninstalled whatever became of the disks; it may fail or need a
\* reboot (DiUninstallDevice).
AllUninstall ==
  /\ all.pc = "adapter"
  /\ \/ /\ StopBegin
        /\ all' = AllAt("stop_wait")
     \/ /\ \/ adapter = "disabled" /\ adapter' = "removed" /\ UNCHANGED removalEvent
           \/ UNCHANGED adapterVars
        /\ UNCHANGED diskVars
        /\ all' = AllAt("done")
  /\ UNCHANGED <<NewMappingsAllowed, rm, reset>>

AllUninstalled ==
  /\ all.pc = "stop_wait"
  /\ StopReturns("removed")
  /\ all' = AllAt("done")
  /\ UNCHANGED <<NewMappingsAllowed, rm, reset>>

AllSteps == AllList \/ AllRelist \/ AllWalk \/ AllRemove \/ AllRemoveDone \/ AllUninstall

-----------------------------------------------------------------------------
(* WnbdResetAdapterEx *)

\* Its status is not kept: nothing below depends on it.
ResetReturn(x, status) == reset' = [reset EXCEPT ![x] = [pc |-> "done", elapsed |-> 0]]

ResetBegin(x) ==
  /\ reset[x].pc = "idle"
  /\ reset' = [reset EXCEPT ![x].pc = "disable"]
  /\ UNCHANGED <<adapterVars, NewMappingsAllowed, diskVars, rm, all>>

\* WnbdGetAdapterDevInst finds no adapter that is disabled or removed.
ResetMissing(x) ==
  /\ reset[x].pc = "disable" /\ adapter # "present"
  /\ ResetReturn(x, "NO_MORE_ITEMS")
  /\ UNCHANGED <<adapterVars, NewMappingsAllowed, diskVars, rm, all>>

\* CM_Disable_DevNode, which returns when the adapter is stopped.
ResetDisables(x) ==
  /\ reset[x].pc = "disable"
  /\ StopBegin
  /\ reset' = [reset EXCEPT ![x].pc = "stopping"]
  /\ UNCHANGED <<NewMappingsAllowed, rm, all>>

ResetDisabled(x) ==
  /\ reset[x].pc = "stopping"
  /\ StopReturns("disabled")
  /\ reset' = [reset EXCEPT ![x].pc = "enable"]
  /\ UNCHANGED <<NewMappingsAllowed, rm, all>>

\* Vetoed: it sleeps and tries again, or is out of time.
ResetVetoed(x) ==
  /\ reset[x].pc = "disable" /\ adapter = "present"
  /\ \E elapsed \in ElapsedAfter(ResetTimeout, reset[x].elapsed) :
       IF TimeLeft(ResetTimeout, elapsed)
       THEN reset' = [reset EXCEPT ![x].elapsed = Slept(ResetTimeout, elapsed)]
       ELSE ResetReturn(x, "BUSY")
  /\ UNCHANGED <<adapterVars, NewMappingsAllowed, diskVars, rm, all>>

ResetFails(x) ==
  /\ reset[x].pc = "disable" /\ adapter = "present"
  /\ ResetReturn(x, "REMOVE_FAILED")
  /\ UNCHANGED <<adapterVars, NewMappingsAllowed, diskVars, rm, all>>

\* The driver may have been unloaded meanwhile; then its options are read again.
\* A failure leaves the adapter disabled, an adapter that was uninstalled stays so.
ResetEnables(x) ==
  /\ reset[x].pc = "enable"
  /\ \/ /\ adapter = "disabled"
        /\ adapter' = "present" /\ UNCHANGED removalEvent
        /\ NewMappingsAllowed' \in {NewMappingsAllowed, TRUE}
        /\ ResetReturn(x, "SUCCESS")
     \/ /\ ResetReturn(x, "NOT_READY")
        /\ UNCHANGED <<adapterVars, NewMappingsAllowed>>
  /\ UNCHANGED <<diskVars, rm, all>>

\* The calls of a reset into PnP.
ResetAttempt(x) ==
  ResetMissing(x) \/ ResetDisables(x) \/ ResetVetoed(x) \/ ResetFails(x) \/ ResetEnables(x)

-----------------------------------------------------------------------------
\* What the threads inside the driver do: a few steps for each disk and each stop.
DriverSteps ==
  \/ \E d \in Disks : CreateInsert(d) \/ CreateCount(d) \/ Monitor(d) \/ StopWake(d)
  \/ \E x \in Resetters : ResetDisabled(x)
  \/ AllUninstalled

Next ==
  \/ \E d \in Disks : CreateCheck(d) \/ PnpStart(d)
  \/ \E r \in Removers : RmOpen(r) \/ RmAttempt(r) \/ RmSteps(r)
  \/ AllDisallow \/ AllUnavailable \/ AllSteps
  \/ \E x \in Resetters : ResetBegin(x) \/ ResetAttempt(x)
  \/ DriverSteps

Spec == Init /\ [][Next]_vars

\* The threads of the driver run and the removals that were called go on.  No disk has
\* to be started and no call into PnP has to return.
Fairness == WF_vars(DriverSteps) /\ \A r \in Removers : WF_vars(RmSteps(r))

FairSpec == Spec /\ Fairness

-----------------------------------------------------------------------------
(* Properties *)

SoftOnly(r) == ~rm[r].options.HardRemove /\ ~rm[r].options.HardRemoveFallback

\* What WnbdRemoveEx reports is what happened to the disk it found, whoever else
\* removes, maps or resets meanwhile.  A success means that the disk is gone or
\* on its way, unless another disk had its name and was removed in its place.
\* Without the fallback a soft removal that failed leaves the disk alone: what
\* is taken by name afterwards is never a disk that vetoed its removal.
RemovalTruthful ==
  \A r \in Removers :
    /\ rm[r].pc = "done" /\ rm[r].status = "SUCCESS" /\ rm[r].found # NoDisk =>
         \/ life[rm[r].found] \notin {"live", "signalled"}
         \/ rm[r].removing \notin {rm[r].found, NoDisk}
    /\ rm[r].softFailed /\ SoftOnly(r) => rm[r].removing = NoDisk /\ rm[r].status # "SUCCESS"

\* When RemoveAllWnbdDevices found no error and is about to uninstall the adapter
\* there is no disk left to lose data of, provided no creation was under way
\* when it disallowed mappings, nobody allowed them again and the disk that was
\* first in the list was not unlinked while the list was read; other removals may
\* go on at the same time otherwise (WnbdRemoveAllDisks).
AllRemoved ==
  all.pc = "adapter" /\ all.status = "SUCCESS" /\ all.pending = "none" /\ ~NewMappingsAllowed
    => \A d \in Listed : life[d] # "live"

\* The adapter is being stopped and nobody can end it: a creation was refused and
\* keeps its reference, or a disk is left that the event, taken by another one, did
\* not reach (WnbdCleanupAllDevices).
StopStuck ==
  /\ adapter = "stopping"
  /\ \E d \in Disks : creation[d] = "refused" \/ (life[d] = "live" /\ ~removalEvent)

\* The calls into PnP return, which takes subscribers that answer and a PnP that is
\* not busy stopping the adapter: the timeouts are looked at only between calls.
PnpReturns ==
  /\ \A r \in Removers : WF_vars(adapter # "stopping" /\ RmAttempt(r))
  /\ \A x \in Resetters : WF_vars(adapter # "stopping" /\ ResetAttempt(x))

\* If PnP returns, every removal and every reset with a timeout returns, however long
\* applications keep their disks and whatever an uninstall does to the adapter
\* meanwhile, unless the adapter is stuck in its stop for good (PnpRemoveDevice,
\* WnbdRemoveEx, WnbdResetAdapterEx).
AdministrationReturns ==
  PnpReturns /\ []<>~StopStuck =>
    /\ \A r \in Removers : (rm[r].pc = "attempt" /\ rm[r].options.Timeout # 0) ~> rm[r].pc = "done"
    /\ ResetTimeout # 0 =>
         \A x \in Resetters : reset[x].pc = "disable" ~> reset[x].pc = "done"
=============================================================================
