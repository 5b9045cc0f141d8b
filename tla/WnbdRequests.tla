---------------------------- MODULE WnbdRequests ----------------------------
(***************************************************************************)
(* The life of the SCSI requests of one WNBD disk inside the driver:       *)
(* driver/scsi_function.c, scsi_operation.c, wnbd_dispatch.c, util.c and   *)
(* the device monitor thread of userspace.c.                               *)
(*                                                                         *)
(* StorPort hands SRBs to HwStartIo, which queues an element for each on   *)
(* the pending list.  Userspace threads blocked in IOCTL_WNBD_FETCH_REQ    *)
(* move elements to the submitted list, and IOCTL_WNBD_SEND_RSP takes them *)
(* off it by tag and completes the SRB.  LUN resets and aborts drain both  *)
(* lists, and a device removal makes the monitor thread wait for every     *)
(* holder of the rundown protection, drain what is left and free the       *)
(* device.  All of these run concurrently.                                 *)
(*                                                                         *)
(* The granularity is one step per section in which a thread touches       *)
(* shared state (a spin lock section, an interlocked operation, a wait).   *)
(* An element taken off a list belongs to one thread until that thread     *)
(* queues, completes or frees it, so what happens to it in between is part *)
(* of the step that ends its ownership; what a fetch does afterwards, the  *)
(* statistics, is a step of its own.                                       *)
(***************************************************************************)
EXTENDS Integers, Sequences, FiniteSets

CONSTANTS
  Srbs,          \* the requests StorPort issues, each once
  CopySrbs,      \* those whose dispatch locks the fetch buffer (WRITE, PR OUT, UNMAP)
  Elements,      \* SRB_QUEUE_ELEMENTs: the memory the elements come from
  PoolElements,  \* the ones preallocated by WnbdPopulateSrbElementPool
  Fetchers,      \* userspace threads calling IOCTL_WNBD_FETCH_REQ
  Responders,    \* userspace threads calling IOCTL_WNBD_SEND_RSP
  Resetters,     \* StorPort threads issuing ABORT_COMMAND / RESET_LOGICAL_UNIT
  Removers,      \* threads in WnbdDisconnectSync (IOCTL_WNBD_REMOVE, PnP remove)
  RemoveStaleConnections, \* the driver option of that name
  MaxBusResets,  \* bound on the bus and target resets StorPort issues
  NoSrb, NoElement

ASSUME ConstantsAssumption ==
  /\ CopySrbs \subseteq Srbs
  /\ PoolElements \subseteq Elements
  /\ RemoveStaleConnections \in BOOLEAN
  /\ MaxBusResets \in Nat
  /\ NoSrb \notin Srbs
  /\ NoElement \notin Elements

\* A thread takes at most one rundown reference at a time, so the set of
\* threads that hold one stands for the EX_RUNDOWN_REF count.
ASSUME ThreadsAssumption ==
  /\ Srbs \cap Fetchers = {} /\ Srbs \cap Responders = {}
  /\ Srbs \cap Resetters = {} /\ Srbs \cap Removers = {}
  /\ Fetchers \cap Responders = {} /\ Fetchers \cap Resetters = {}
  /\ Fetchers \cap Removers = {} /\ Responders \cap Resetters = {}
  /\ Responders \cap Removers = {} /\ Resetters \cap Removers = {}

VARIABLES
  srbPc,        \* where HwStartIo is with each SRB
  completions,  \* RequestComplete notifications the driver sent for each SRB
  timedOut,     \* SRBs StorPort completed by itself (StorPortCompleteRequest)
  SrbStatus,    \* the status each SRB was last given
  Element,      \* the fields of each SRB_QUEUE_ELEMENT
  SrbElementPool,    \* the free list
  heapUsed,          \* directly allocated elements that were not freed yet
  PendingReqList,    \* a sequence of elements
  SubmittedReqList,  \* the submitted list and its tag hash, kept together under one lock
  dropped,           \* elements no list and no thread refers to any more
  DeviceEvent,       \* the semaphore
  HardRemoveDevice, DeviceRemovalEvent,
  GlobalDeviceRemovalEvent,
  RundownRefs, RundownActive,  \* EX_RUNDOWN_REF of the device
  RequestHandle,     \* the static tag counter of WnbdDispatchRequest
  Stats,
  fetchPc, fetchElement, fetchRequest, fetchStatus,  \* locals of WnbdDispatchRequest
  delivered,         \* requests userspace was handed
  rspPc, rspElement, rspRequest,                     \* locals of WnbdHandleResponse
  resetPc, resetStale,                               \* locals of DrainDeviceQueue
  removePc,          \* WnbdDisconnectSync
  monitorPc,         \* WnbdDeviceMonitorThread
  busResets

srbVars     == <<srbPc, completions, timedOut, SrbStatus>>
elementVars == <<Element, SrbElementPool, heapUsed>>
listVars    == <<PendingReqList, SubmittedReqList, dropped>>
removalVars == <<HardRemoveDevice, DeviceRemovalEvent, GlobalDeviceRemovalEvent>>
refVars     == <<RundownRefs, RundownActive>>
fetchVars   == <<fetchPc, fetchElement, fetchRequest, fetchStatus>>
rspVars     == <<rspPc, rspElement, rspRequest>>
resetVars   == <<resetPc, resetStale>>
vars == <<srbVars, elementVars, listVars, DeviceEvent, removalVars, refVars,
          RequestHandle, Stats, fetchVars, delivered, rspVars, resetVars,
          removePc, monitorPc, busResets>>

HeapElements == Elements \ PoolElements

\* WNBD_IO_REQUEST: the handle, and the SRB its other fields were filled from.
Requests    == [RequestHandle : Nat, Srb : Srbs \cup {NoSrb}]
ZeroRequest == [RequestHandle |-> 0, Srb |-> NoSrb]

StatNames ==
  {"TotalReceivedIORequests", "TotalSubmittedIORequests", "TotalReceivedIOReplies",
   "UnsubmittedIORequests", "PendingSubmittedIORequests",
   "AbortedSubmittedIORequests", "AbortedUnsubmittedIORequests",
   "CompletedAbortedIORequests", "OutstandingIOCount"}

Statuses == {"none", "SUCCESS", "IMMEDIATE", "ABORTED", "INVALID_REQUEST",
             "INTERNAL_ERROR", "NO_DEVICE"}

MonitorPcs == {"waiting", "stopping", "rundown", "drain pending",
               "drain submitted", "unlink", "gone"}

FetchPcs == {"user", "loop", "blocked", "woken", "dispatch", "failed", "refused", "submitted",
             "exit"}

SrbTypes ==
  /\ srbPc \in [Srbs -> {"idle", "entered", "queued", "pended", "returned"}]
  /\ completions \in [Srbs -> Nat]
  /\ timedOut \in SUBSET Srbs
  /\ SrbStatus \in [Srbs -> Statuses]
ElementTypes ==
  /\ Element \in [Elements -> [Srb : Srbs \cup {NoSrb}, Tag : Nat,
                               Completed : BOOLEAN, Aborted : BOOLEAN]]
  /\ SrbElementPool \in SUBSET PoolElements
  /\ heapUsed \in SUBSET HeapElements
ListTypes ==
  /\ PendingReqList \in Seq(Elements)
  /\ SubmittedReqList \in SUBSET Elements
  /\ dropped \in SUBSET Elements
DeviceTypes ==
  /\ DeviceEvent \in Nat
  /\ HardRemoveDevice \in BOOLEAN
  /\ DeviceRemovalEvent \in BOOLEAN
  /\ GlobalDeviceRemovalEvent \in BOOLEAN
  /\ RundownRefs \in SUBSET (Srbs \cup Fetchers \cup Responders \cup Resetters \cup Removers)
  /\ RundownActive \in BOOLEAN
  /\ RequestHandle \in Nat
StatTypes == Stats \in [StatNames -> Int]
FetchTypes ==
  /\ fetchPc \in [Fetchers -> FetchPcs]
  /\ fetchElement \in [Fetchers -> Elements \cup {NoElement}]
  /\ fetchRequest \in [Fetchers -> Requests]
  /\ fetchStatus \in [Fetchers -> {"OK", "FAILED"}]
  /\ delivered \in SUBSET Requests
RspTypes ==
  /\ rspPc \in [Responders -> {"user", "acquired", "holding"}]
  /\ rspElement \in [Responders -> Elements \cup {NoElement}]
  /\ rspRequest \in [Responders -> Requests]
ThreadTypes ==
  /\ resetPc \in [Resetters -> {"idle", "drain pending", "drain submitted"}]
  /\ resetStale \in [Resetters -> BOOLEAN]
  /\ removePc \in [Removers -> {"idle", "queried", "acquired", "waiting", "done"}]
  /\ monitorPc \in MonitorPcs
  /\ busResets \in 0..MaxBusResets

TypeOK ==
  /\ SrbTypes /\ ElementTypes /\ ListTypes /\ DeviceTypes /\ StatTypes
  /\ FetchTypes /\ RspTypes /\ ThreadTypes

Init ==
  /\ srbPc = [s \in Srbs |-> "idle"]
  /\ completions = [s \in Srbs |-> 0]
  /\ timedOut = {}
  /\ SrbStatus = [s \in Srbs |-> "none"]
  /\ Element = [e \in Elements |->
       [Srb |-> NoSrb, Tag |-> 0, Completed |-> FALSE, Aborted |-> FALSE]]
  /\ SrbElementPool = PoolElements
  /\ heapUsed = {}
  /\ PendingReqList = <<>>
  /\ SubmittedReqList = {}
  /\ dropped = {}
  /\ DeviceEvent = 0
  /\ HardRemoveDevice = FALSE
  /\ DeviceRemovalEvent = FALSE
  /\ GlobalDeviceRemovalEvent = FALSE
  /\ RundownRefs = {}
  /\ RundownActive = FALSE
  /\ RequestHandle = 0
  /\ Stats = [n \in StatNames |-> 0]
  /\ fetchPc = [f \in Fetchers |-> "user"]
  /\ fetchElement = [f \in Fetchers |-> NoElement]
  /\ fetchRequest = [f \in Fetchers |-> ZeroRequest]
  /\ fetchStatus = [f \in Fetchers |-> "OK"]
  /\ delivered = {}
  /\ rspPc = [r \in Responders |-> "user"]
  /\ rspElement = [r \in Responders |-> NoElement]
  /\ rspRequest = [r \in Responders |-> ZeroRequest]
  /\ resetPc = [x \in Resetters |-> "idle"]
  /\ resetStale = [x \in Resetters |-> FALSE]
  /\ removePc = [d \in Removers |-> "idle"]
  /\ monitorPc = "waiting"
  /\ busResets = 0

-----------------------------------------------------------------------------
(* Helpers shared by the handlers *)

\* A statistics counter or gauge n of S moved by k.
Bump(S, n, k) == [S EXCEPT ![n] = @ + k]

\* WnbdFindDeviceBy...(Acquire) of a device that is not unlinked yet: the
\* reference is refused once the rundown started.
WnbdAcquireDevice(t) ==
  /\ ~RundownActive
  /\ RundownRefs' = RundownRefs \cup {t}
  /\ UNCHANGED RundownActive

WnbdReleaseDevice(t) ==
  /\ RundownRefs' = RundownRefs \ {t}
  /\ UNCHANGED RundownActive

\* Where WnbdAllocSrbElement can take an element from: the pool, and only when
\* it is empty the nonpaged pool.
Allocatable ==
  IF SrbElementPool # {} THEN SrbElementPool ELSE HeapElements \ heapUsed

\* Mutation: the flag Pooled of the element is not looked at.
FreeSrbElementToPool(e) ==
  /\ SrbElementPool' = SrbElementPool \cup {e}
  /\ heapUsed' = heapUsed \ {e}

WnbdFreeSrbElement(e) ==
  /\ SrbElementPool' = IF e \in PoolElements THEN SrbElementPool \cup {e} ELSE SrbElementPool
  /\ heapUsed' = heapUsed \ {e}

\* SrbSetSrbStatus, CompleteRequest and WnbdFreeSrbElement of an element its
\* caller owns.  StorPort is notified only if Completed was not set before.
CompleteRequest(e, status, aborted) ==
  /\ SrbStatus' = [SrbStatus EXCEPT ![Element[e].Srb] = status]
  /\ completions' = [completions EXCEPT
       ![Element[e].Srb] = IF Element[e].Completed THEN @ ELSE @ + 1]
  /\ Element' = [Element EXCEPT ![e].Completed = TRUE, ![e].Aborted = aborted]
  /\ WnbdFreeSrbElement(e)

\* What CompleteRequest adds to OutstandingIOCount.
Settled(e) == IF Element[e].Completed THEN 0 ELSE -1

-----------------------------------------------------------------------------
(* HwStartIo: WnbdExecuteScsiFunction and WnbdHandleSrbOperation *)

StartIo(s) ==
  /\ srbPc[s] = "idle"
  /\ ~HardRemoveDevice
  /\ WnbdAcquireDevice(s)
  /\ srbPc' = [srbPc EXCEPT ![s] = "entered"]
  /\ Stats' = Bump(Stats, "OutstandingIOCount", 1)
  /\ UNCHANGED <<completions, timedOut, SrbStatus, elementVars, listVars, DeviceEvent,
                 removalVars, RequestHandle, fetchVars, delivered, rspVars, resetVars,
                 removePc, monitorPc, busResets>>

\* The SRB is completed by WnbdHwStartIo before it returns.
CompleteSynchronously(s, status) ==
  /\ srbPc' = [srbPc EXCEPT ![s] = "returned"]
  /\ SrbStatus' = [SrbStatus EXCEPT ![s] = status]
  /\ completions' = [completions EXCEPT ![s] = @ + 1]
  /\ UNCHANGED <<timedOut, elementVars, listVars, DeviceEvent, removalVars,
                 RequestHandle, fetchVars, delivered, rspVars, resetVars, removePc,
                 monitorPc, busResets>>

\* No such device, or one that is marked for deletion.
StartIoNoDevice(s) ==
  /\ srbPc[s] = "idle"
  /\ RundownActive \/ HardRemoveDevice
  /\ CompleteSynchronously(s, "NO_DEVICE")
  /\ UNCHANGED <<refVars, Stats>>

\* Mutation: the early return forgets to balance OutstandingIOCount.
HandleRemovedUncounted(s) ==
  /\ srbPc[s] = "entered"
  /\ HardRemoveDevice
  /\ CompleteSynchronously(s, "INVALID_REQUEST")
  /\ WnbdReleaseDevice(s)
  /\ UNCHANGED Stats

\* WnbdHandleSrbOperation checks the flag again.
HandleRemoved(s) ==
  /\ srbPc[s] = "entered"
  /\ HardRemoveDevice
  /\ CompleteSynchronously(s, "INVALID_REQUEST")
  /\ Stats' = Bump(Stats, "OutstandingIOCount", -1)
  /\ WnbdReleaseDevice(s)

\* Commands the driver emulates, and ranges WnbdPendOperation refuses.  The flag
\* may be set at any time after the check, so it guards none of what follows.
\* "IMMEDIATE" stands for whatever status the emulation returns.
HandleImmediate(s) ==
  /\ srbPc[s] = "entered"
  /\ CompleteSynchronously(s, "IMMEDIATE")
  /\ Stats' = Bump(Stats, "OutstandingIOCount", -1)
  /\ WnbdReleaseDevice(s)

\* WnbdPendElement up to the insertion in the pending list.
PendElement(s) ==
  /\ srbPc[s] = "entered"
  /\ \E e \in Allocatable :
       /\ SrbElementPool' = SrbElementPool \ {e}
       /\ heapUsed' = heapUsed \cup ({e} \cap HeapElements)
       /\ Element' = [Element EXCEPT ![e] =
            [Srb |-> s, Tag |-> 0, Completed |-> FALSE, Aborted |-> FALSE]]
       /\ PendingReqList' = Append(PendingReqList, e)
  /\ srbPc' = [srbPc EXCEPT ![s] = "queued"]
  /\ Stats' = Bump(Bump(Stats, "TotalReceivedIORequests", 1), "UnsubmittedIORequests", 1)
  /\ UNCHANGED <<completions, timedOut, SrbStatus, SubmittedReqList, dropped, DeviceEvent,
                 removalVars, refVars, RequestHandle, fetchVars, delivered, rspVars,
                 resetVars, removePc, monitorPc, busResets>>

\* Mutation: an event instead of a semaphore, two insertions wake one thread.
SignalPendedAsEvent(s) ==
  /\ srbPc[s] = "queued"
  /\ srbPc' = [srbPc EXCEPT ![s] = "pended"]
  /\ DeviceEvent' = 1
  /\ WnbdReleaseDevice(s)
  /\ UNCHANGED <<completions, timedOut, SrbStatus, elementVars, listVars, removalVars,
                 RequestHandle, Stats, fetchVars, delivered, rspVars, resetVars, removePc,
                 monitorPc, busResets>>

\* The semaphore is released after the insertion, then the device.
SignalPended(s) ==
  /\ srbPc[s] = "queued"
  /\ srbPc' = [srbPc EXCEPT ![s] = "pended"]
  /\ DeviceEvent' = DeviceEvent + 1
  /\ WnbdReleaseDevice(s)
  /\ UNCHANGED <<completions, timedOut, SrbStatus, elementVars, listVars, removalVars,
                 RequestHandle, Stats, fetchVars, delivered, rspVars, resetVars, removePc,
                 monitorPc, busResets>>

\* The allocation failed: the gauge is balanced, the total is not.
PendNoMemory(s) ==
  /\ srbPc[s] = "entered"
  /\ SrbElementPool = {}
  /\ CompleteSynchronously(s, "ABORTED")
  /\ Stats' = Bump(Bump(Stats, "TotalReceivedIORequests", 1), "OutstandingIOCount", -1)
  /\ WnbdReleaseDevice(s)

\* WnbdHwResetBus and WnbdResetDeviceFunction: StorPort completes what is
\* outstanding by itself, the driver's queues are left alone.
BusReset ==
  /\ busResets < MaxBusResets
  /\ busResets' = busResets + 1
  /\ timedOut' = timedOut \cup {s \in Srbs : srbPc[s] = "pended" /\ completions[s] = 0}
  /\ UNCHANGED <<srbPc, completions, SrbStatus, elementVars, listVars, DeviceEvent,
                 removalVars, refVars, RequestHandle, Stats, fetchVars, delivered, rspVars,
                 resetVars, removePc, monitorPc>>

-----------------------------------------------------------------------------
(* IOCTL_WNBD_FETCH_REQ: WnbdDispatchRequest *)

FetchBegin(f) ==
  /\ fetchPc[f] = "user"
  /\ WnbdAcquireDevice(f)
  /\ fetchPc' = [fetchPc EXCEPT ![f] = "loop"]
  /\ UNCHANGED <<srbVars, elementVars, listVars, DeviceEvent, removalVars, RequestHandle,
                 Stats, fetchElement, fetchRequest, fetchStatus, delivered, rspVars,
                 resetVars, removePc, monitorPc, busResets>>

FetchUnchanged ==
  UNCHANGED <<srbVars, elementVars, listVars, refVars, RequestHandle, Stats, fetchElement,
              fetchRequest, fetchStatus, delivered, rspVars, resetVars, removePc, monitorPc,
              busResets, HardRemoveDevice, GlobalDeviceRemovalEvent>>

\* The loop condition, and entering the wait: the semaphore comes first.
FetchWait(f) ==
  /\ fetchPc[f] = "loop"
  /\ fetchPc' = [fetchPc EXCEPT ![f] =
       IF HardRemoveDevice THEN "exit" ELSE IF DeviceEvent > 0 THEN "woken" ELSE "blocked"]
  /\ DeviceEvent' = IF fetchPc'[f] = "woken" THEN DeviceEvent - 1 ELSE DeviceEvent
  /\ UNCHANGED DeviceRemovalEvent
  /\ FetchUnchanged

FetchWake(f) ==
  /\ fetchPc[f] = "blocked"
  /\ DeviceEvent > 0
  /\ DeviceEvent' = DeviceEvent - 1
  /\ fetchPc' = [fetchPc EXCEPT ![f] = "woken"]
  /\ UNCHANGED DeviceRemovalEvent
  /\ FetchUnchanged

FetchRemoved(f) ==
  /\ fetchPc[f] = "blocked"
  /\ DeviceRemovalEvent
  /\ fetchPc' = [fetchPc EXCEPT ![f] = "exit"]
  /\ UNCHANGED <<DeviceEvent, DeviceRemovalEvent>>
  /\ FetchUnchanged

\* STATUS_ALERTED: the calling thread is terminating.
FetchAlerted(f) ==
  /\ fetchPc[f] = "blocked"
  /\ DeviceRemovalEvent' = TRUE
  /\ fetchPc' = [fetchPc EXCEPT ![f] = "exit"]
  /\ UNCHANGED DeviceEvent
  /\ FetchUnchanged

\* ExInterlockedRemoveHeadList, and only then the check of HardRemoveDevice:
\* the element that was taken is forgotten if the flag is set.
FetchTakeRemoved(f) ==
  /\ fetchPc[f] = "woken"
  /\ HardRemoveDevice
  /\ IF PendingReqList = <<>>
       THEN UNCHANGED <<PendingReqList, dropped>>
       ELSE /\ PendingReqList' = Tail(PendingReqList)
            /\ dropped' = dropped \cup {Head(PendingReqList)}
  /\ fetchPc' = [fetchPc EXCEPT ![f] = "exit"]
  /\ UNCHANGED <<srbVars, elementVars, SubmittedReqList, DeviceEvent, removalVars, refVars,
                 RequestHandle, Stats, fetchElement, fetchRequest, fetchStatus, delivered,
                 rspVars, resetVars, removePc, monitorPc, busResets>>

FetchTakeNone(f) ==
  /\ fetchPc[f] = "woken"
  /\ ~HardRemoveDevice
  /\ PendingReqList = <<>>
  /\ fetchPc' = [fetchPc EXCEPT ![f] = "loop"]
  /\ UNCHANGED <<DeviceEvent, DeviceRemovalEvent>>
  /\ FetchUnchanged

\* Mutation: the tag is not unique.
FetchTakeSameTag(f) ==
  /\ fetchPc[f] = "woken"
  /\ ~HardRemoveDevice
  /\ PendingReqList # <<>>
  /\ PendingReqList' = Tail(PendingReqList)
  /\ Element' = [Element EXCEPT ![Head(PendingReqList)].Tag = RequestHandle + 1]
  /\ fetchElement' = [fetchElement EXCEPT ![f] = Head(PendingReqList)]
  /\ fetchRequest' = [fetchRequest EXCEPT ![f] = ZeroRequest]
  /\ fetchPc' = [fetchPc EXCEPT ![f] = "dispatch"]
  /\ UNCHANGED <<RequestHandle, srbVars, SrbElementPool, heapUsed, SubmittedReqList, dropped,
                 DeviceEvent, removalVars, refVars, Stats, fetchStatus, delivered, rspVars,
                 resetVars, removePc, monitorPc, busResets>>

FetchTake(f) ==
  /\ fetchPc[f] = "woken"
  /\ ~HardRemoveDevice
  /\ PendingReqList # <<>>
  /\ PendingReqList' = Tail(PendingReqList)
  /\ RequestHandle' = RequestHandle + 1
  /\ Element' = [Element EXCEPT ![Head(PendingReqList)].Tag = RequestHandle + 1]
  /\ fetchElement' = [fetchElement EXCEPT ![f] = Head(PendingReqList)]
  /\ fetchRequest' = [fetchRequest EXCEPT ![f] = ZeroRequest]
  /\ fetchPc' = [fetchPc EXCEPT ![f] = "dispatch"]
  /\ UNCHANGED <<srbVars, SrbElementPool, heapUsed, SubmittedReqList, dropped, DeviceEvent,
                 removalVars, refVars, Stats, fetchStatus, delivered, rspVars, resetVars,
                 removePc, monitorPc, busResets>>

\* The request the fields of Command->Request are filled from.
FilledRequest(f) ==
  [RequestHandle |-> Element[fetchElement[f]].Tag, Srb |-> Element[fetchElement[f]].Srb]

\* The element is completed by the dispatch itself, and counted later at pc.
DispatchFails(f, status, pc) ==
  /\ CompleteRequest(fetchElement[f], status, Element[fetchElement[f]].Aborted)
  /\ Stats' = Bump(Stats, "OutstandingIOCount", Settled(fetchElement[f]))
  /\ fetchElement' = [fetchElement EXCEPT ![f] = NoElement]
  /\ fetchPc' = [fetchPc EXCEPT ![f] = pc]
  /\ UNCHANGED <<srbPc, timedOut, listVars, DeviceEvent, removalVars, refVars, RequestHandle,
                 delivered, rspVars, resetVars, removePc, monitorPc, busResets>>

\* ValidateScsiRequest refuses the request.
FetchReject(f) ==
  /\ fetchPc[f] = "dispatch"
  /\ DispatchFails(f, "INVALID_REQUEST", "failed")
  /\ UNCHANGED <<fetchRequest, fetchStatus>>

\* Mutation: the completed request is submitted as well (a missing continue).
FetchLockFailsFallsThrough(f) ==
  /\ fetchPc[f] = "dispatch"
  /\ Element[fetchElement[f]].Srb \in CopySrbs
  /\ CompleteRequest(fetchElement[f], "INTERNAL_ERROR", FALSE)
  /\ Stats' = Bump(Bump(Stats, "OutstandingIOCount", -1), "UnsubmittedIORequests", -1)
  /\ SubmittedReqList' = SubmittedReqList \cup {fetchElement[f]}
  /\ fetchElement' = [fetchElement EXCEPT ![f] = NoElement]
  /\ fetchPc' = [fetchPc EXCEPT ![f] = "submitted"]
  /\ fetchRequest' = [fetchRequest EXCEPT ![f] = FilledRequest(f)]
  /\ UNCHANGED <<srbPc, timedOut, PendingReqList, dropped, DeviceEvent, removalVars, refVars,
                 RequestHandle, delivered, rspVars, resetVars, removePc, monitorPc, busResets,
                 fetchStatus>>

\* LockFetchBuffer fails: Status keeps the error while the loop goes on.
FetchLockFails(f) ==
  /\ fetchPc[f] = "dispatch"
  /\ Element[fetchElement[f]].Srb \in CopySrbs
  /\ DispatchFails(f, "INTERNAL_ERROR", "failed")
  /\ fetchRequest' = [fetchRequest EXCEPT ![f] = FilledRequest(f)]
  /\ fetchStatus' = [fetchStatus EXCEPT ![f] = "FAILED"]

\* StorPortGetSystemAddress fails after LockFetchBuffer succeeded.
FetchSrbBufferFails(f) ==
  /\ fetchPc[f] = "dispatch"
  /\ Element[fetchElement[f]].Srb \in CopySrbs
  /\ DispatchFails(f, "INTERNAL_ERROR", "failed")
  /\ fetchRequest' = [fetchRequest EXCEPT ![f] = FilledRequest(f)]
  /\ fetchStatus' = [fetchStatus EXCEPT ![f] = "OK"]

\* Mutation: the early exit forgets the element.
FetchTooSmallForgets(f) ==
  /\ fetchPc[f] = "dispatch"
  /\ Element[fetchElement[f]].Srb \in CopySrbs
  /\ fetchElement' = [fetchElement EXCEPT ![f] = NoElement]
  /\ fetchPc' = [fetchPc EXCEPT ![f] = "exit"]
  /\ fetchStatus' = [fetchStatus EXCEPT ![f] = "FAILED"]
  /\ UNCHANGED <<srbVars, elementVars, listVars, DeviceEvent, removalVars, refVars,
                 RequestHandle, Stats, fetchRequest, delivered, rspVars, resetVars, removePc,
                 monitorPc, busResets>>

\* The user buffer is too small: the loop is left with an error.
FetchTooSmall(f) ==
  /\ fetchPc[f] = "dispatch"
  /\ Element[fetchElement[f]].Srb \in CopySrbs
  /\ DispatchFails(f, "INTERNAL_ERROR", "refused")
  /\ fetchRequest' = [fetchRequest EXCEPT ![f] = FilledRequest(f)]
  /\ fetchStatus' = [fetchStatus EXCEPT ![f] = "FAILED"]

\* WnbdSubmittedReqInsert.  Status is assigned by LockFetchBuffer only.
FetchSubmit(f) ==
  /\ fetchPc[f] = "dispatch"
  /\ SubmittedReqList' = SubmittedReqList \cup {fetchElement[f]}
  /\ fetchRequest' = [fetchRequest EXCEPT ![f] = FilledRequest(f)]
  /\ fetchStatus' = [fetchStatus EXCEPT ![f] =
       IF Element[fetchElement[f]].Srb \in CopySrbs THEN "OK" ELSE @]
  /\ fetchElement' = [fetchElement EXCEPT ![f] = NoElement]
  /\ fetchPc' = [fetchPc EXCEPT ![f] = "submitted"]
  /\ UNCHANGED <<srbVars, elementVars, PendingReqList, dropped, DeviceEvent, removalVars,
                 refVars, RequestHandle, Stats, delivered, rspVars, resetVars, removePc,
                 monitorPc, busResets>>

\* The statistics follow when others can have the element already: a reply may be
\* counted before its request.
FetchCount(f) ==
  /\ fetchPc[f] \in {"failed", "refused", "submitted"}
  /\ Stats' = LET unsubmitted == Bump(Stats, "UnsubmittedIORequests", -1) IN
              IF fetchPc[f] # "submitted" THEN unsubmitted
              ELSE Bump(Bump(unsubmitted, "TotalSubmittedIORequests", 1),
                        "PendingSubmittedIORequests", 1)
  /\ fetchPc' = [fetchPc EXCEPT ![f] = IF @ = "failed" THEN "loop" ELSE "exit"]
  /\ UNCHANGED <<srbVars, elementVars, listVars, DeviceEvent, removalVars, refVars,
                 RequestHandle, fetchElement, fetchRequest, fetchStatus, delivered, rspVars,
                 resetVars, removePc, monitorPc, busResets>>

\* A removed device turns the request into a disconnect notification; otherwise
\* userspace acts on the request if the status is a success.  The locals get
\* the values the next call starts with.
FetchExit(f) ==
  /\ fetchPc[f] = "exit"
  /\ delivered' = IF ~HardRemoveDevice /\ fetchStatus[f] = "OK"
                    THEN delivered \cup {fetchRequest[f]} ELSE delivered
  /\ fetchPc' = [fetchPc EXCEPT ![f] = "user"]
  /\ fetchRequest' = [fetchRequest EXCEPT ![f] = ZeroRequest]
  /\ fetchStatus' = [fetchStatus EXCEPT ![f] = "OK"]
  /\ WnbdReleaseDevice(f)
  /\ UNCHANGED <<srbVars, elementVars, listVars, DeviceEvent, removalVars, RequestHandle,
                 Stats, fetchElement, rspVars, resetVars, removePc, monitorPc, busResets>>

-----------------------------------------------------------------------------
(* IOCTL_WNBD_SEND_RSP: WnbdHandleResponse.  Userspace answers the requests *)
(* it was handed, late, more than once and in any order.                    *)

RspBegin(r) ==
  /\ rspPc[r] = "user"
  /\ WnbdAcquireDevice(r)
  /\ \E q \in delivered : rspRequest' = [rspRequest EXCEPT ![r] = q]
  /\ rspPc' = [rspPc EXCEPT ![r] = "acquired"]
  /\ UNCHANGED <<srbVars, elementVars, listVars, DeviceEvent, removalVars, RequestHandle,
                 Stats, fetchVars, delivered, rspElement, resetVars, removePc, monitorPc,
                 busResets>>

\* WnbdSubmittedReqRemoveByTag
Tagged(tag) == {e \in SubmittedReqList : Element[e].Tag = tag}

\* Mutation: the element stays on the submitted list while it is answered.
RspPeekByTag(r) ==
  /\ rspPc[r] = "acquired"
  /\ \E e \in Tagged(rspRequest[r].RequestHandle) :
       rspElement' = [rspElement EXCEPT ![r] = e]
  /\ rspPc' = [rspPc EXCEPT ![r] = "holding"]
  /\ UNCHANGED <<srbVars, elementVars, listVars, DeviceEvent, removalVars, refVars,
                 RequestHandle, Stats, fetchVars, delivered, rspRequest, resetVars, removePc,
                 monitorPc, busResets>>

RspRemoveByTag(r) ==
  /\ rspPc[r] = "acquired"
  /\ \E e \in Tagged(rspRequest[r].RequestHandle) :
       /\ SubmittedReqList' = SubmittedReqList \ {e}
       /\ rspElement' = [rspElement EXCEPT ![r] = e]
  /\ rspPc' = [rspPc EXCEPT ![r] = "holding"]
  /\ UNCHANGED <<srbVars, elementVars, PendingReqList, dropped, DeviceEvent, removalVars,
                 refVars, RequestHandle, Stats, fetchVars, delivered, rspRequest, resetVars,
                 removePc, monitorPc, busResets>>

\* Mutation: the early return leaks the device reference.
RspNotFoundLeaks(r) ==
  /\ rspPc[r] = "acquired"
  /\ Tagged(rspRequest[r].RequestHandle) = {}
  /\ rspPc' = [rspPc EXCEPT ![r] = "user"]
  /\ rspRequest' = [rspRequest EXCEPT ![r] = ZeroRequest]
  /\ UNCHANGED <<srbVars, elementVars, listVars, DeviceEvent, removalVars, refVars,
                 RequestHandle, Stats, fetchVars, delivered, rspElement, resetVars, removePc,
                 monitorPc, busResets>>

\* STATUS_NOT_FOUND
RspNotFound(r) ==
  /\ rspPc[r] = "acquired"
  /\ Tagged(rspRequest[r].RequestHandle) = {}
  /\ rspPc' = [rspPc EXCEPT ![r] = "user"]
  /\ rspRequest' = [rspRequest EXCEPT ![r] = ZeroRequest]
  /\ WnbdReleaseDevice(r)
  /\ UNCHANGED <<srbVars, elementVars, listVars, DeviceEvent, removalVars, RequestHandle,
                 Stats, fetchVars, delivered, rspElement, resetVars, removePc, monitorPc,
                 busResets>>

\* Success, or an error: the reply's own (SetSrbStatus) or an internal one when a
\* buffer cannot be mapped, which are not told apart.  An element that was aborted is
\* only freed, and what is written to its SRB before is left out: there is none, for
\* whoever aborts an element has taken it off the list (ElementPerOwedSrb).
RspComplete(r) ==
  LET e == rspElement[r] IN
  /\ rspPc[r] = "holding"
  /\ Stats' = Bump(Bump(Bump(Bump(Stats, "TotalReceivedIOReplies", 1),
                             "PendingSubmittedIORequests", -1),
                        "CompletedAbortedIORequests", IF Element[e].Aborted THEN 1 ELSE 0),
                   "OutstandingIOCount", IF Element[e].Aborted THEN 0 ELSE Settled(e))
  /\ IF Element[e].Aborted
       THEN WnbdFreeSrbElement(e) /\ UNCHANGED <<Element, SrbStatus, completions>>
       ELSE \E status \in {"SUCCESS", "INTERNAL_ERROR"} :
              CompleteRequest(e, status, FALSE)
  /\ rspElement' = [rspElement EXCEPT ![r] = NoElement]
  /\ rspRequest' = [rspRequest EXCEPT ![r] = ZeroRequest]
  /\ rspPc' = [rspPc EXCEPT ![r] = "user"]
  /\ WnbdReleaseDevice(r)
  /\ UNCHANGED <<srbPc, timedOut, listVars, DeviceEvent, removalVars, RequestHandle,
                 fetchVars, delivered, resetVars, removePc, monitorPc, busResets>>

-----------------------------------------------------------------------------
(* DrainDeviceQueue, one removed element per step *)

\* Mutation: the aborted request is reported as done.
AbortElementAsSuccess(e, counter) ==
  /\ CompleteRequest(e, "SUCCESS", TRUE)
  /\ Stats' = Bump(Bump(Stats, "OutstandingIOCount", Settled(e)),
                   counter, IF Element[e].Aborted THEN 0 ELSE 1)

AbortElement(e, counter) ==
  /\ CompleteRequest(e, "ABORTED", TRUE)
  /\ Stats' = Bump(Bump(Stats, "OutstandingIOCount", Settled(e)),
                   counter, IF Element[e].Aborted THEN 0 ELSE 1)

DrainPendingHead ==
  /\ PendingReqList # <<>>
  /\ AbortElement(Head(PendingReqList), "AbortedUnsubmittedIORequests")
  /\ PendingReqList' = Tail(PendingReqList)
  /\ UNCHANGED <<SubmittedReqList, dropped>>

DrainSubmittedHead ==
  \E e \in SubmittedReqList :
    /\ AbortElement(e, "AbortedSubmittedIORequests")
    /\ SubmittedReqList' = SubmittedReqList \ {e}
    /\ UNCHANGED <<PendingReqList, dropped>>

(* SRB_FUNCTION_ABORT_COMMAND and SRB_FUNCTION_RESET_LOGICAL_UNIT *)

ResetBegin(x) ==
  /\ resetPc[x] = "idle"
  /\ WnbdAcquireDevice(x)
  /\ resetPc' = [resetPc EXCEPT ![x] = "drain pending"]
  /\ UNCHANGED <<srbVars, elementVars, listVars, DeviceEvent, removalVars, RequestHandle,
                 Stats, fetchVars, delivered, rspVars, resetStale, removePc, monitorPc,
                 busResets>>

\* How long ago the request and the last reply were is left open; a connection
\* that never sent a reply is never found stale.
ResetDrains(x) ==
  /\ \/ resetPc[x] = "drain pending" /\ DrainPendingHead
     \/ resetPc[x] = "drain submitted" /\ DrainSubmittedHead
  /\ \E old \in BOOLEAN : resetStale' = [resetStale EXCEPT
       ![x] = @ \/ (old /\ Stats["TotalReceivedIOReplies"] > 0)]
  /\ UNCHANGED <<srbPc, timedOut, DeviceEvent, removalVars, refVars, RequestHandle, fetchVars,
                 delivered, rspVars, resetPc, removePc, monitorPc, busResets>>

\* The end of DrainDeviceQueue: a stale connection is disconnected
\* (WnbdDisconnectAsync) if the driver is configured to do so.
ResetDrained(x) ==
  /\ \/ /\ resetPc[x] = "drain pending" /\ PendingReqList = <<>>
        /\ resetPc' = [resetPc EXCEPT ![x] = "drain submitted"]
        /\ UNCHANGED refVars
     \/ /\ resetPc[x] = "drain submitted" /\ SubmittedReqList = {}
        /\ resetPc' = [resetPc EXCEPT ![x] = "idle"]
        /\ WnbdReleaseDevice(x)
  /\ resetStale' = [resetStale EXCEPT ![x] = FALSE]
  /\ IF resetStale[x] /\ RemoveStaleConnections
       THEN HardRemoveDevice' = TRUE /\ DeviceRemovalEvent' = TRUE
       ELSE UNCHANGED <<HardRemoveDevice, DeviceRemovalEvent>>
  /\ UNCHANGED <<srbVars, elementVars, listVars, DeviceEvent, GlobalDeviceRemovalEvent,
                 RequestHandle, Stats, fetchVars, delivered, rspVars, removePc, monitorPc,
                 busResets>>

-----------------------------------------------------------------------------
(* Removal: PnP, WnbdDisconnectSync, WnbdCleanupAllDevices and the monitor *)

RemoveUnchanged ==
  UNCHANGED <<srbVars, elementVars, listVars, DeviceEvent, HardRemoveDevice,
              GlobalDeviceRemovalEvent, RequestHandle, Stats, fetchVars, delivered, rspVars,
              resetVars, monitorPc, busResets>>

HasPendingAsyncRequests == PendingReqList # <<>> \/ SubmittedReqList # {}

\* IRP_MN_QUERY_REMOVE_DEVICE of a soft removal: the device is acquired, asked
\* and released.  A busy device vetoes the removal.
RemoveQuery(d) ==
  /\ removePc[d] = "idle"
  /\ ~RundownActive
  /\ ~HasPendingAsyncRequests
  /\ removePc' = [removePc EXCEPT ![d] = "queried"]
  /\ UNCHANGED <<DeviceRemovalEvent, refVars>>
  /\ RemoveUnchanged

\* IOCTL_WNBD_REMOVE, or IRP_MN_REMOVE_DEVICE after the query.
RemoveBegin(d) ==
  /\ removePc[d] \in {"idle", "queried"}
  /\ WnbdAcquireDevice(d)
  /\ removePc' = [removePc EXCEPT ![d] = "acquired"]
  /\ UNCHANGED DeviceRemovalEvent
  /\ RemoveUnchanged

RemoveSignal(d) ==
  /\ removePc[d] = "acquired"
  /\ DeviceRemovalEvent' = TRUE
  /\ removePc' = [removePc EXCEPT ![d] = "waiting"]
  /\ WnbdReleaseDevice(d)
  /\ RemoveUnchanged

\* KeWaitForSingleObject on the monitor thread.
RemoveDone(d) ==
  /\ removePc[d] = "waiting"
  /\ monitorPc = "gone"
  /\ removePc' = [removePc EXCEPT ![d] = "done"]
  /\ UNCHANGED <<DeviceRemovalEvent, refVars>>
  /\ RemoveUnchanged

\* Only while the monitor thread can still notice it: afterwards the event
\* concerns other devices (module WnbdRegistry).
WnbdCleanupAllDevices ==
  /\ monitorPc = "waiting"
  /\ ~GlobalDeviceRemovalEvent
  /\ GlobalDeviceRemovalEvent' = TRUE
  /\ UNCHANGED <<srbVars, elementVars, listVars, DeviceEvent, HardRemoveDevice,
                 DeviceRemovalEvent, refVars, RequestHandle, Stats, fetchVars, delivered,
                 rspVars, resetVars, removePc, monitorPc, busResets>>

MonitorUnchanged ==
  UNCHANGED <<srbPc, timedOut, DeviceEvent, RequestHandle, fetchVars, delivered, rspVars,
              resetVars, removePc, busResets>>

\* The global event resets itself when it satisfies the wait, the device's
\* event does not.
MonitorWake ==
  /\ monitorPc = "waiting"
  /\ \/ GlobalDeviceRemovalEvent /\ GlobalDeviceRemovalEvent' = FALSE
     \/ DeviceRemovalEvent /\ UNCHANGED GlobalDeviceRemovalEvent
  /\ HardRemoveDevice' = TRUE
  /\ DeviceRemovalEvent' = TRUE
  /\ monitorPc' = "stopping"
  /\ UNCHANGED <<completions, SrbStatus, elementVars, listVars, refVars, Stats>>
  /\ MonitorUnchanged

\* ExWaitForRundownProtectionRelease refuses new references first ...
MonitorRundown ==
  /\ monitorPc = "stopping"
  /\ RundownActive' = TRUE
  /\ monitorPc' = "rundown"
  /\ UNCHANGED <<completions, SrbStatus, elementVars, listVars, removalVars, RundownRefs, Stats>>
  /\ MonitorUnchanged

\* Mutation: the existing references are not waited for.
MonitorRundownSkipped ==
  /\ monitorPc = "rundown"
  /\ monitorPc' = "drain pending"
  /\ UNCHANGED <<completions, SrbStatus, elementVars, listVars, removalVars, refVars, Stats>>
  /\ MonitorUnchanged

\* ... and waits for the ones that exist.
MonitorRundownOver ==
  /\ monitorPc = "rundown"
  /\ RundownRefs = {}
  /\ monitorPc' = "drain pending"
  /\ UNCHANGED <<completions, SrbStatus, elementVars, listVars, removalVars, refVars, Stats>>
  /\ MonitorUnchanged

MonitorDrains ==
  /\ \/ monitorPc = "drain pending" /\ DrainPendingHead
     \/ monitorPc = "drain submitted" /\ DrainSubmittedHead
  /\ UNCHANGED <<removalVars, refVars, monitorPc>>
  /\ MonitorUnchanged

\* Mutation: the submitted list is not drained.
MonitorDrainedPendingOnly ==
  /\ monitorPc = "drain pending" /\ PendingReqList = <<>>
  /\ monitorPc' = "unlink"
  /\ UNCHANGED <<completions, SrbStatus, elementVars, listVars, removalVars, refVars, Stats>>
  /\ MonitorUnchanged

MonitorDrained ==
  /\ \/ /\ monitorPc = "drain pending" /\ PendingReqList = <<>>
        /\ monitorPc' = "drain submitted"
     \/ /\ monitorPc = "drain submitted" /\ SubmittedReqList = {}
        /\ monitorPc' = "unlink"
  /\ UNCHANGED <<completions, SrbStatus, elementVars, listVars, removalVars, refVars, Stats>>
  /\ MonitorUnchanged

\* The device leaves the list, WnbdDrainSrbElementPool frees what is in the
\* pool, the device itself is freed and the thread ends.
MonitorUnlink ==
  /\ monitorPc = "unlink"
  /\ SrbElementPool' = {}
  /\ monitorPc' = "gone"
  /\ UNCHANGED <<completions, SrbStatus, Element, heapUsed, listVars, removalVars, refVars, Stats>>
  /\ MonitorUnchanged

-----------------------------------------------------------------------------
StartIoSteps(s) ==
  \/ HandleRemoved(s) \/ HandleImmediate(s) \/ PendElement(s) \/ SignalPended(s)
  \/ PendNoMemory(s)
FetchSteps(f) ==
  \/ FetchWait(f) \/ FetchWake(f) \/ FetchRemoved(f) \/ FetchTakeRemoved(f)
  \/ FetchTakeNone(f) \/ FetchTake(f) \/ FetchReject(f) \/ FetchLockFails(f)
  \/ FetchSrbBufferFails(f) \/ FetchTooSmall(f) \/ FetchSubmit(f) \/ FetchCount(f)
  \/ FetchExit(f)
RspSteps(r)   == RspRemoveByTag(r) \/ RspNotFound(r) \/ RspComplete(r)
ResetSteps(x) == ResetDrains(x) \/ ResetDrained(x)
MonitorSteps  ==
  \/ MonitorWake \/ MonitorRundown \/ MonitorRundownOver \/ MonitorDrains
  \/ MonitorDrained \/ MonitorUnlink

Next ==
  \/ \E s \in Srbs : StartIo(s) \/ StartIoNoDevice(s) \/ StartIoSteps(s)
  \/ BusReset
  \/ \E f \in Fetchers : FetchBegin(f) \/ FetchAlerted(f) \/ FetchSteps(f)
  \/ \E r \in Responders : RspBegin(r) \/ RspSteps(r)
  \/ \E x \in Resetters : ResetBegin(x) \/ ResetSteps(x)
  \/ \E d \in Removers : RemoveQuery(d) \/ RemoveBegin(d) \/ RemoveSignal(d) \/ RemoveDone(d)
  \/ WnbdCleanupAllDevices
  \/ MonitorSteps

Spec == Init /\ [][Next]_vars

\* Threads that entered the driver keep running; StorPort and userspace owe
\* nothing: no SRB, fetch, reply, reset or removal has to be issued.
Fairness ==
  /\ \A s \in Srbs : WF_vars(StartIoSteps(s))
  /\ \A f \in Fetchers : WF_vars(FetchSteps(f))
  /\ \A r \in Responders : WF_vars(RspSteps(r))
  /\ \A x \in Resetters : WF_vars(ResetSteps(x))
  /\ \A d \in Removers : WF_vars(RemoveSignal(d) \/ RemoveDone(d))
  /\ WF_vars(MonitorSteps)

FairSpec == Spec /\ Fairness

-----------------------------------------------------------------------------
(* Properties *)

PendingElements == {PendingReqList[i] : i \in DOMAIN PendingReqList}
FetchHeld == {fetchElement[f] : f \in Fetchers} \ {NoElement}
RspHeld   == {rspElement[r] : r \in Responders} \ {NoElement}
FreeElements == SrbElementPool \cup (HeapElements \ heapUsed)
LiveElements == PendingElements \cup FetchHeld \cup SubmittedReqList \cup RspHeld \cup dropped

\* StorPort waits for the completion of these SRBs.
Owed(s) == srbPc[s] \in {"queued", "pended"} /\ completions[s] = 0

PendingOnce ==
  \A i, j \in DOMAIN PendingReqList : PendingReqList[i] = PendingReqList[j] => i = j
HeldOnce ==
  /\ \A f, g \in Fetchers : fetchElement[f] = fetchElement[g] /\ fetchElement[f] # NoElement => f = g
  /\ \A r, t \in Responders : rspElement[r] = rspElement[t] /\ rspElement[r] # NoElement => r = t
PlacesDisjoint ==
  /\ PendingElements \cap (FetchHeld \cup SubmittedReqList \cup RspHeld \cup dropped) = {}
  /\ FetchHeld \cap (SubmittedReqList \cup RspHeld \cup dropped) = {}
  /\ SubmittedReqList \cap (RspHeld \cup dropped) = {}
  /\ RspHeld \cap dropped = {}
  /\ FreeElements \cap LiveElements = {}

\* An element is in one place only: once on the pending list, or held by one
\* fetching thread, or on the submitted list, or held by one responder, or
\* forgotten, and none of these is free for reuse.  ExInterlockedRemoveHeadList,
\* WnbdSubmittedReqRemoveByTag and DrainDeviceQueue race for the same elements.
OneOwner == PendingOnce /\ HeldOnce /\ PlacesDisjoint

\* No request is lost and none is queued twice: every SRB that StorPort was
\* told is pending has an element, and every element in use stands for an SRB
\* of its own that was not completed yet (WnbdPendElement, CompleteRequest).
ElementPerOwedSrb ==
  /\ \A s \in Srbs : Owed(s) => \E e \in LiveElements : Element[e].Srb = s
  /\ \A e \in LiveElements :
       /\ Element[e].Srb \in Srbs
       /\ Owed(Element[e].Srb)
       /\ ~Element[e].Completed /\ ~Element[e].Aborted
  /\ \A d, e \in LiveElements : Element[d].Srb = Element[e].Srb => d = e

\* The driver notifies StorPort of an SRB once, and never writes the status of
\* an SRB after that: the memory is StorPort's again (CompleteRequest, the SRB
\* accesses of WnbdDispatchRequest, WnbdHandleResponse and DrainDeviceQueue).
CompletedSrbUntouched ==
  [][\A s \in Srbs : completions[s] > 0 =>
       /\ completions'[s] = completions[s]
       /\ SrbStatus'[s] = SrbStatus[s]]_vars

\* A reply completes the SRB of the request userspace was handed, however late,
\* reordered or repeated it is: tags are never reused (WnbdSubmittedReqRemoveByTag).
ReplyMatchesRequest ==
  \A r \in Responders : rspPc[r] = "holding" =>
    Element[rspElement[r]].Srb = rspRequest[r].Srb

\* The semaphore is released after the insertion and consumed before the
\* removal, and drains do not touch it: it never falls behind the pending list,
\* so no request waits while a fetching thread sleeps (WnbdPendElement).
NoLostWakeup ==
  Len(PendingReqList) <=
    DeviceEvent + Cardinality({f \in Fetchers : fetchPc[f] = "woken"})
                + Cardinality({s \in Srbs : srbPc[s] = "queued"})

\* Threads that are between acquiring and releasing the device.
Inside ==
  {s \in Srbs : srbPc[s] \in {"entered", "queued"}}
  \cup {f \in Fetchers : fetchPc[f] # "user"}
  \cup {r \in Responders : rspPc[r] # "user"}
  \cup {x \in Resetters : resetPc[x] # "idle"}
  \cup {d \in Removers : removePc[d] = "acquired"}

\* The monitor thread drains and frees the device only when no thread is using
\* it, and no thread gets in afterwards (ExWaitForRundownProtectionRelease).
NoUseAfterFree ==
  monitorPc \in {"drain pending", "drain submitted", "unlink", "gone"} => Inside = {}

\* When the device is gone its lists are empty and StorPort is owed nothing but
\* the requests a fetch forgot (WnbdDeviceMonitorThread).
GoneMeansSettled ==
  monitorPc = "gone" =>
    /\ PendingReqList = <<>> /\ SubmittedReqList = {}
    /\ \A s \in Srbs : Owed(s) => \E e \in dropped : Element[e].Srb = s

\* No thread is in the middle of a handler that moves a request and counts it.
AtRest ==
  /\ \A s \in Srbs : srbPc[s] # "entered"
  /\ \A f \in Fetchers : fetchPc[f] \in {"user", "loop", "blocked", "woken", "exit"}
  /\ \A r \in Responders : rspPc[r] # "holding"
  /\ \A x \in Resetters : resetPc[x] = "idle"
  /\ monitorPc \notin {"drain pending", "drain submitted"}

\* At rest the statistics of a disk are off by its aborted requests and by nothing
\* else, whichever error paths its requests took and however late a fetch counted
\* what was answered already: DrainDeviceQueue never takes an aborted request off
\* the gauge of its stage (WnbdPendElement, WnbdDispatchRequest, WnbdHandleResponse).
StatisticsDriftByAborts ==
  AtRest =>
    /\ Stats["OutstandingIOCount"] = Cardinality({s \in Srbs : Owed(s)})
    /\ Stats["UnsubmittedIORequests"] =
         Len(PendingReqList) + Cardinality(dropped) + Stats["AbortedUnsubmittedIORequests"]
    /\ Stats["PendingSubmittedIORequests"] =
         Cardinality(SubmittedReqList) + Stats["AbortedSubmittedIORequests"]
    /\ Stats["CompletedAbortedIORequests"] = 0

\* A removal that was signalled ends: the threads blocked in a fetch notice it
\* and release the device, and the monitor thread frees it.
RemovalCompletes == DeviceRemovalEvent ~> monitorPc = "gone"

\* WnbdDisconnectSync returns.
DisconnectReturns == \A d \in Removers : removePc[d] = "acquired" ~> removePc[d] = "done"

\* Nobody waits for ever for a removal: it ends, and its caller returns, whatever
\* the fetching and responding threads were doing (WnbdDeviceMonitorThread,
\* WnbdDisconnectSync).
RemovalReturns == RemovalCompletes /\ DisconnectReturns

\* What CompleteRequest is "very careful" about, with the SRBs that StorPort
\* completed by itself on a bus or target reset counted too.
SrbCompletedOnce == \A s \in timedOut : completions[s] = 0
=============================================================================
