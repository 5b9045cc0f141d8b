--------------------- MODULE WnbdRequestsServiceProofs ----------------------
(***************************************************************************)
(* TLAPS proof that the request path (WnbdRequests) implements the service *)
(* StorPort relies on (WnbdService) under the mapping of                   *)
(* WnbdRequestsService: the initial states map to initial states, and      *)
(* every step of a thread to a step of the service or to a stutter.        *)
(***************************************************************************)
EXTENDS WnbdRequestsService, WnbdRequestsProofs

USE DEF srbVars, elementVars, listVars, removalVars, refVars, fetchVars, rspVars, resetVars

-----------------------------------------------------------------------------
(* What the mapping needs beyond IInv *)

\* A removal shows in HardRemoveDevice before a reference is refused.
RemovalShows == RundownActive \/ monitorPc # "waiting" => HardRemoveDevice

\* HwStartIo returns only with the SRB pended or completed.
ReturnedIsSettled == \A s \in Srbs : srbPc[s] = "returned" => completions[s] > 0

\* The requests userspace has or a fetch is about to return, and the elements
\* whose request no fetch was given yet.
OutRequests == delivered \cup {fetchRequest[f] : f \in Fetchers}
InElements  == PendingElements \cup FetchHeld \cup dropped

\* A request that is out is one HwStartIo queued, and its element is no longer in.
OutIsQueued ==
  \A q \in OutRequests : q.Srb \in Srbs => srbPc[q.Srb] \in {"queued", "pended"}
OutIsNotIn == \A q \in OutRequests : \A e \in InElements : q.Srb # Element[e].Srb

\* Userspace answers only what it was handed.
RepliesToDelivered == \A r \in Responders : rspPc[r] # "user" => rspRequest[r] \in delivered

MInv ==
  /\ RemovalShows /\ ReturnedIsSettled /\ OutIsQueued /\ OutIsNotIn /\ RepliesToDelivered

\* A step never takes HardRemoveDevice back, and the monitor thread leaves its
\* wait only when it sets it.
LEMMA RemovalShowsStep ==
  ASSUME RemovalShows, [Next]_vars
  PROVE  RemovalShows'
<1>1. ASSUME UNCHANGED <<RundownActive, monitorPc, HardRemoveDevice>> PROVE RemovalShows'
  BY <1>1 DEF RemovalShows
<1>2. ASSUME NEW s \in Srbs, StartIo(s) \/ StartIoNoDevice(s) \/ StartIoSteps(s)
      PROVE  RemovalShows'
  BY <1>1, <1>2 DEF StartIo, StartIoNoDevice, StartIoSteps, HandleRemoved, HandleImmediate,
     PendElement, SignalPended, PendNoMemory, CompleteSynchronously, WnbdAcquireDevice,
     WnbdReleaseDevice
<1>3. ASSUME NEW f \in Fetchers, FetchBegin(f) \/ FetchAlerted(f) \/ FetchSteps(f)
      PROVE  RemovalShows'
  BY <1>1, <1>3 DEF FetchBegin, FetchAlerted, FetchSteps, FetchWait, FetchWake, FetchRemoved,
     FetchTakeRemoved, FetchTakeNone, FetchTake, FetchReject, FetchLockFails,
     FetchSrbBufferFails, FetchTooSmall, FetchSubmit, FetchCount, FetchExit, DispatchFails, FetchUnchanged,
     WnbdAcquireDevice, WnbdReleaseDevice
<1>4. ASSUME NEW r \in Responders, RspBegin(r) \/ RspSteps(r) PROVE RemovalShows'
  BY <1>1, <1>4 DEF RspBegin, RspSteps, RspRemoveByTag, RspNotFound, RspComplete,
     WnbdAcquireDevice, WnbdReleaseDevice
<1>5. ASSUME NEW x \in Resetters, ResetBegin(x) \/ ResetDrains(x) PROVE RemovalShows'
  BY <1>1, <1>5 DEF ResetBegin, ResetDrains, WnbdAcquireDevice
<1>6. ASSUME NEW x \in Resetters, ResetDrained(x) PROVE RemovalShows'
  <2>1. UNCHANGED <<RundownActive, monitorPc>> /\ (HardRemoveDevice => HardRemoveDevice')
    BY <1>6 DEF ResetDrained, WnbdReleaseDevice
  <2> QED
    BY <2>1 DEF RemovalShows
<1>7. ASSUME NEW d \in Removers,
             RemoveQuery(d) \/ RemoveBegin(d) \/ RemoveSignal(d) \/ RemoveDone(d)
      PROVE  RemovalShows'
  BY <1>1, <1>7 DEF RemoveQuery, RemoveBegin, RemoveSignal, RemoveDone, RemoveUnchanged,
     WnbdAcquireDevice, WnbdReleaseDevice
<1>8. ASSUME BusReset \/ WnbdCleanupAllDevices PROVE RemovalShows'
  BY <1>1, <1>8 DEF BusReset, WnbdCleanupAllDevices
<1>9. ASSUME MonitorWake PROVE RemovalShows'
  BY <1>9 DEF MonitorWake, RemovalShows
<1>10. ASSUME MonitorRundown \/ MonitorRundownOver \/ MonitorDrains \/ MonitorDrained
              \/ MonitorUnlink
       PROVE  RemovalShows'
  <2>1. monitorPc # "waiting" /\ HardRemoveDevice' = HardRemoveDevice
    BY <1>10 DEF MonitorRundown, MonitorRundownOver, MonitorDrains, MonitorDrained, MonitorUnlink
  <2> QED
    BY <2>1 DEF RemovalShows
<1>11. ASSUME UNCHANGED vars PROVE RemovalShows'
  BY <1>1, <1>11 DEF vars
<1> QED
  BY <1>2, <1>3, <1>4, <1>5, <1>6, <1>7, <1>8, <1>9, <1>10, <1>11
  DEF Next, ResetSteps, MonitorSteps

\* What a step does to where HwStartIo is with an SRB: it returns only after a
\* completion, and a queued SRB stays queued or pended.
LEMMA SrbPcStep ==
  ASSUME TypeOK, Owners, [Next]_vars, NEW s \in Srbs
  PROVE  /\ srbPc'[s] = srbPc[s] \/ (srbPc'[s] = "returned" => completions'[s] > 0)
         /\ srbPc[s] \in {"queued", "pended"} => srbPc'[s] \in {"queued", "pended"}
<1> DEFINE G == /\ srbPc'[s] = srbPc[s] \/ (srbPc'[s] = "returned" => completions'[s] > 0)
                /\ srbPc[s] \in {"queued", "pended"} => srbPc'[s] \in {"queued", "pended"}
<1>1. ASSUME srbPc' = srbPc PROVE G
  BY <1>1
<1>2. ASSUME NEW t \in Srbs, NEW status, srbPc[t] \in {"idle", "entered"},
             CompleteSynchronously(t, status)
      PROVE  G
  <2>1. completions[t] = 0
    BY <1>2 DEF Owners, Fresh
  <2> QED
    BY <1>2, <2>1 DEF CompleteSynchronously, TypeOK, SrbTypes
<1>3. ASSUME NEW t \in Srbs,
             StartIoNoDevice(t) \/ HandleRemoved(t) \/ HandleImmediate(t) \/ PendNoMemory(t)
      PROVE  G
  <2>1. srbPc[t] \in {"idle", "entered"} /\ \E status : CompleteSynchronously(t, status)
    BY <1>3 DEF StartIoNoDevice, HandleRemoved, HandleImmediate, PendNoMemory
  <2> HIDE DEF G
  <2> QED
    BY <1>2, <2>1
<1>4. ASSUME NEW t \in Srbs, StartIo(t) \/ PendElement(t) \/ SignalPended(t) PROVE G
  BY <1>4 DEF StartIo, PendElement, SignalPended, TypeOK, SrbTypes
<1> HIDE DEF G
<1>5. ASSUME Quiet \/ UNCHANGED vars PROVE G
  BY <1>1, <1>5, QuietSteps
<1>6. ASSUME NEW f \in Fetchers, FetchTakeRemoved(f) \/ FetchTake(f) \/ FetchReject(f)
             \/ FetchLockFails(f) \/ FetchSrbBufferFails(f) \/ FetchTooSmall(f) \/ FetchSubmit(f)
      PROVE  G
  BY <1>1, <1>6 DEF FetchTakeRemoved, FetchTake, FetchReject, FetchLockFails,
     FetchSrbBufferFails, FetchTooSmall, FetchSubmit, DispatchFails
<1>7. ASSUME NEW r \in Responders, RspRemoveByTag(r) \/ RspComplete(r) PROVE G
  BY <1>1, <1>7 DEF RspRemoveByTag, RspComplete
<1>8. ASSUME NEW x \in Resetters, ResetDrains(x) PROVE G
  BY <1>1, <1>8 DEF ResetDrains
<1>9. ASSUME MonitorDrains \/ MonitorUnlink PROVE G
  BY <1>1, <1>9 DEF MonitorDrains, MonitorUnlink, MonitorUnchanged
<1>10. G
  BY <1>3, <1>4, <1>5, <1>6, <1>7, <1>8, <1>9
  DEF Next, Quiet, StartIoSteps, FetchSteps, RspSteps, ResetSteps, MonitorSteps
<1> QED
  BY <1>10 DEF G

\* HwStartIo leaves no SRB behind.
LEMMA ReturnedStep ==
  ASSUME IInv, ReturnedIsSettled, [Next]_vars
  PROVE  ReturnedIsSettled'
<1> SUFFICES ASSUME NEW s \in Srbs, srbPc'[s] = "returned" PROVE completions'[s] > 0
  BY DEF ReturnedIsSettled
<1>1. CASE srbPc'[s] = srbPc[s]
  <2>1. completions[s] > 0
    BY <1>1 DEF ReturnedIsSettled
  <2> QED
    BY <2>1, CompletedStep
<1>2. CASE completions'[s] > 0
  BY <1>2
<1> QED
  BY <1>1, <1>2, SrbPcStep DEF IInv

-----------------------------------------------------------------------------
(* What is out and what is in *)

\* The elements in use are elements.
LEMMA LiveTypes ==
  ASSUME TypeOK
  PROVE  LiveElements \subseteq Elements
  BY DEF LiveElements, PendingElements, FetchHeld, RspHeld, TypeOK, ListTypes, FetchTypes,
         RspTypes

\* The head leaves the pending list, and the list only.
LEMMA HeadLeaves ==
  ASSUME TypeOK, OneOwner, PendingReqList # <<>>, PendingReqList' = Tail(PendingReqList)
  PROVE  /\ PendingElements' = PendingElements \ {Head(PendingReqList)}
         /\ Head(PendingReqList) \in PendingElements
<1>1. PendingElements' = Rng(PendingReqList')
  BY DEF PendingElements, Rng
<1> QED
  BY <1>1, TailRange, Places DEF TypeOK, ListTypes, OneOwner

\* The fetching thread lets go of its element.
LEMMA FetchLetsGo ==
  ASSUME TypeOK, Held, OneOwner, NEW f \in Fetchers, fetchPc[f] = "dispatch",
         fetchElement' = [fetchElement EXCEPT ![f] = NoElement]
  PROVE  /\ FetchHeld' = FetchHeld \ {fetchElement[f]}
         /\ fetchElement[f] \in FetchHeld
<1>1. fetchElement[f] # NoElement
  BY DEF Held
<1>2. fetchElement = [g \in Fetchers |-> fetchElement[g]]
  BY DEF TypeOK, FetchTypes
<1>3. \A u, v \in Fetchers : fetchElement[u] = fetchElement[v] /\ fetchElement[u] # NoElement => u = v
  BY DEF OneOwner, HeldOnce
<1>4. FetchHeld' = Kept([fetchElement EXCEPT ![f] = NoElement], NoElement)
  BY <1>2 DEF FetchHeld, Kept
<1>5. /\ Kept([fetchElement EXCEPT ![f] = NoElement], NoElement)
           = Kept(fetchElement, NoElement) \ {fetchElement[f]}
      /\ fetchElement[f] \in Kept(fetchElement, NoElement)
  BY <1>1, <1>2, <1>3, KeptDrop
<1> QED
  BY <1>4, <1>5, Places

\* No element gets in, and what gets out is blank or the request of an element
\* that is not in any more.
LEMMA OutKept ==
  ASSUME TypeOK, Owners, OutIsQueued, OutIsNotIn, InElements' \subseteq InElements,
         \A e \in InElements : Element'[e].Srb = Element[e].Srb,
         \A s \in Srbs : srbPc[s] \in {"queued", "pended"} => srbPc'[s] \in {"queued", "pended"},
         \A q \in OutRequests' :
           \/ q \in OutRequests \/ q = ZeroRequest
           \/ \E d \in LiveElements : d \notin InElements' /\ q.Srb = Element[d].Srb
  PROVE  OutIsQueued' /\ OutIsNotIn'
<1>1. /\ \A e \in LiveElements : /\ Element[e].Srb \in Srbs
                                 /\ srbPc[Element[e].Srb] \in {"queued", "pended"}
      /\ \A d, e \in LiveElements : Element[d].Srb = Element[e].Srb => d = e
  BY DEF Owners, ElementPerOwedSrb, Owed
<1>2. InElements \subseteq LiveElements
  BY DEF InElements, LiveElements
<1>3. ZeroRequest.Srb \notin Srbs
  BY ConstantsAssumption DEF ZeroRequest
<1>4. \A q \in OutRequests' : q.Srb \in Srbs => srbPc[q.Srb] \in {"queued", "pended"}
  BY <1>1, <1>3 DEF OutIsQueued
<1>5. \A q \in OutRequests' : \A e \in InElements' : q.Srb # Element[e].Srb
  BY <1>1, <1>2, <1>3 DEF OutIsNotIn
<1> QED
  BY <1>4, <1>5 DEF OutIsQueued, OutIsNotIn

\* Every step keeps them apart.
LEMMA OutStep ==
  ASSUME IInv, OutIsQueued, OutIsNotIn, [Next]_vars
  PROVE  OutIsQueued' /\ OutIsNotIn'
<1> DEFINE G == OutIsQueued' /\ OutIsNotIn'
<1>0. TypeOK /\ Held /\ Owners /\ OneOwner /\ LiveElements \subseteq Elements
  BY LiveTypes DEF IInv, Owners
<1>1. \A s \in Srbs : srbPc[s] \in {"queued", "pended"} => srbPc'[s] \in {"queued", "pended"}
  BY <1>0, SrbPcStep
<1>2. InElements \subseteq Elements
  BY <1>0 DEF InElements, LiveElements
<1>3. ASSUME InElements' \subseteq InElements,
             \A e \in Elements : Element'[e].Srb = Element[e].Srb,
             \A q \in OutRequests' :
               \/ q \in OutRequests \/ q = ZeroRequest
               \/ \E d \in LiveElements : d \notin InElements' /\ q.Srb = Element[d].Srb
      PROVE  G
  BY <1>0, <1>1, <1>2, <1>3, OutKept
<1> HIDE DEF G
<1>4. ASSUME UNCHANGED <<PendingReqList, fetchElement, dropped, delivered, fetchRequest, Element>>
      PROVE  G
  <2>1. InElements' = InElements /\ OutRequests' = OutRequests
    BY <1>4 DEF InElements, PendingElements, FetchHeld, OutRequests
  <2> QED
    BY <1>3, <1>4, <2>1
<1>5. ASSUME NEW s \in Srbs, StartIo(s) \/ StartIoNoDevice(s) \/ HandleRemoved(s)
             \/ HandleImmediate(s) \/ PendNoMemory(s) \/ SignalPended(s)
      PROVE  G
  BY <1>4, <1>5 DEF StartIo, StartIoNoDevice, HandleRemoved, HandleImmediate, PendNoMemory,
                    SignalPended, CompleteSynchronously
<1>6. ASSUME NEW s \in Srbs, PendElement(s) PROVE G
  <2>1. PICK e \in Allocatable : PendElement(s)!2!(e)
    BY <1>6 DEF PendElement
  <2>2. e \in Elements
    BY <1>0, ConstantsAssumption DEF Allocatable, TypeOK, ElementTypes, HeapElements
  <2>3. e \notin LiveElements
    BY <1>0 DEF Allocatable, FreeElements, OneOwner, PlacesDisjoint
  <2>4. /\ Element'[e].Srb = s /\ \A d \in Elements \ {e} : Element'[d] = Element[d]
    BY <1>0, <2>1, <2>2 DEF TypeOK, ElementTypes
  <2>5. UNCHANGED <<fetchElement, dropped, delivered, fetchRequest>> /\ srbPc[s] = "entered"
    BY <1>6 DEF PendElement
  <2>6. PendingElements' = PendingElements \cup {e}
    <3>1. PendingElements' = Rng(PendingReqList') /\ PendingReqList' = Append(PendingReqList, e)
      BY <2>1 DEF PendingElements, Rng
    <3> QED
      BY <1>0, <2>2, <3>1, AppendRange, Places DEF TypeOK, ListTypes
  <2>7. InElements' = InElements \cup {e} /\ OutRequests' = OutRequests
    BY <2>5, <2>6 DEF InElements, FetchHeld, OutRequests
  <2>8. \A d \in InElements : d \in Elements \ {e}
    BY <1>2, <2>3 DEF InElements, LiveElements
  <2>9. \A q \in OutRequests : q.Srb # s
    BY <2>5 DEF OutIsQueued
  <2> QED
    BY <1>1, <2>4, <2>7, <2>8, <2>9 DEF G, OutIsQueued, OutIsNotIn
<1>7. ASSUME NEW f \in Fetchers, FetchBegin(f) \/ FetchAlerted(f) \/ FetchWait(f)
             \/ FetchWake(f) \/ FetchRemoved(f) \/ FetchTakeNone(f)
      PROVE  G
  BY <1>4, <1>7 DEF FetchBegin, FetchAlerted, FetchWait, FetchWake, FetchRemoved,
                    FetchTakeNone, FetchUnchanged
<1>8. ASSUME NEW f \in Fetchers, FetchTakeRemoved(f) PROVE G
  <2>1. CASE PendingReqList = <<>>
    BY <1>4, <1>8, <2>1 DEF FetchTakeRemoved
  <2>2. CASE PendingReqList # <<>>
    <3>1. /\ PendingReqList' = Tail(PendingReqList) /\ dropped' = dropped \cup {Head(PendingReqList)}
          /\ UNCHANGED <<fetchElement, delivered, fetchRequest, Element>>
      BY <1>8, <2>2 DEF FetchTakeRemoved
    <3>2. InElements' \subseteq InElements /\ OutRequests' = OutRequests
      BY <1>0, <2>2, <3>1, HeadLeaves DEF InElements, FetchHeld, OutRequests
    <3> QED
      BY <1>3, <3>1, <3>2
  <2> QED
    BY <2>1, <2>2
<1>9. ASSUME NEW f \in Fetchers, FetchTake(f) PROVE G
  <2>1. /\ PendingReqList # <<>> /\ PendingReqList' = Tail(PendingReqList)
        /\ fetchElement' = [fetchElement EXCEPT ![f] = Head(PendingReqList)]
        /\ fetchRequest' = [fetchRequest EXCEPT ![f] = ZeroRequest]
        /\ Element' = [Element EXCEPT ![Head(PendingReqList)].Tag = RequestHandle + 1]
        /\ UNCHANGED <<dropped, delivered>>
    BY <1>9 DEF FetchTake
  <2>2. FetchHeld' \subseteq FetchHeld \cup {Head(PendingReqList)}
    BY <1>0, <2>1 DEF FetchHeld, TypeOK, FetchTypes
  <2>3. InElements' \subseteq InElements
    BY <1>0, <2>1, <2>2, HeadLeaves DEF InElements
  <2>4. \A e \in Elements : Element'[e].Srb = Element[e].Srb
    BY <1>0, <2>1 DEF TypeOK, ElementTypes
  <2>5. \A q \in OutRequests' : q \in OutRequests \/ q = ZeroRequest
    BY <1>0, <2>1 DEF OutRequests, TypeOK, FetchTypes
  <2> QED
    BY <1>3, <2>3, <2>4, <2>5
<1>10. ASSUME NEW f \in Fetchers, fetchPc[f] = "dispatch",
              fetchElement' = [fetchElement EXCEPT ![f] = NoElement],
              \/ fetchRequest' = fetchRequest
              \/ fetchRequest' = [fetchRequest EXCEPT ![f] = FilledRequest(f)],
              UNCHANGED <<PendingReqList, dropped, delivered>>,
              \A e \in Elements : Element'[e].Srb = Element[e].Srb
       PROVE  G
  <2> DEFINE d == fetchElement[f]
  <2>1. FetchHeld' = FetchHeld \ {d} /\ d \in FetchHeld
    BY <1>0, <1>10, FetchLetsGo
  <2>2. d \in LiveElements /\ d \notin PendingElements /\ d \notin dropped
    BY <1>0, <2>1 DEF LiveElements, OneOwner, PlacesDisjoint
  <2>3. InElements' = InElements \ {d}
    BY <1>10, <2>1, <2>2 DEF InElements, PendingElements
  <2>4. \A q \in OutRequests' : q \in OutRequests \/ q.Srb = Element[d].Srb
    <3>1. OutRequests' \subseteq OutRequests \cup {FilledRequest(f)}
      BY <1>0, <1>10 DEF OutRequests, TypeOK, FetchTypes
    <3>2. FilledRequest(f).Srb = Element[d].Srb
      BY DEF FilledRequest
    <3> QED
      BY <3>1, <3>2
  <2> HIDE DEF d
  <2> QED
    BY <1>3, <1>10, <2>2, <2>3, <2>4
<1>11. ASSUME NEW f \in Fetchers, FetchReject(f) \/ FetchLockFails(f) \/ FetchSrbBufferFails(f)
              \/ FetchTooSmall(f)
       PROVE  G
  <2>1. /\ fetchPc[f] = "dispatch" /\ \E status, pc : DispatchFails(f, status, pc)
        /\ \/ fetchRequest' = fetchRequest
           \/ fetchRequest' = [fetchRequest EXCEPT ![f] = FilledRequest(f)]
    BY <1>11 DEF FetchReject, FetchLockFails, FetchSrbBufferFails, FetchTooSmall
  <2>2. /\ fetchElement' = [fetchElement EXCEPT ![f] = NoElement]
        /\ UNCHANGED <<PendingReqList, dropped, delivered>>
        /\ \A e \in Elements : Element'[e].Srb = Element[e].Srb
    BY <1>0, <2>1, CompleteKeepsTags DEF DispatchFails
  <2> QED
    BY <1>10, <2>1, <2>2
<1>12. ASSUME NEW f \in Fetchers, FetchSubmit(f) PROVE G
  BY <1>10, <1>12 DEF FetchSubmit
<1>13. ASSUME NEW f \in Fetchers, FetchExit(f) PROVE G
  <2>1. /\ delivered' \in {delivered, delivered \cup {fetchRequest[f]}}
        /\ fetchRequest' = [fetchRequest EXCEPT ![f] = ZeroRequest]
        /\ UNCHANGED <<PendingReqList, fetchElement, dropped, Element>>
    BY <1>13 DEF FetchExit
  <2>2. InElements' = InElements
    BY <2>1 DEF InElements, PendingElements, FetchHeld
  <2>3. \A q \in OutRequests' : q \in OutRequests \/ q = ZeroRequest
    BY <1>0, <2>1 DEF OutRequests, TypeOK, FetchTypes
  <2> QED
    BY <1>3, <2>1, <2>2, <2>3
<1>23. ASSUME NEW f \in Fetchers, FetchCount(f) PROVE G
  BY <1>4, <1>23 DEF FetchCount
<1>14. ASSUME NEW r \in Responders, RspBegin(r) \/ RspRemoveByTag(r) \/ RspNotFound(r) PROVE G
  BY <1>4, <1>14 DEF RspBegin, RspRemoveByTag, RspNotFound
<1>15. ASSUME NEW e, NEW status, NEW aborted, CompleteRequest(e, status, aborted),
              \/ PendingReqList' = PendingReqList
              \/ PendingReqList # <<>> /\ PendingReqList' = Tail(PendingReqList),
              UNCHANGED <<fetchElement, dropped, delivered, fetchRequest>>
       PROVE  G
  <2>1. \A d \in Elements : Element'[d].Srb = Element[d].Srb
    BY <1>0, <1>15, CompleteKeepsTags
  <2>2. PendingElements' \subseteq PendingElements
    BY <1>0, <1>15, HeadLeaves DEF PendingElements
  <2>3. InElements' \subseteq InElements /\ OutRequests' = OutRequests
    BY <1>15, <2>2 DEF InElements, FetchHeld, OutRequests
  <2> QED
    BY <1>3, <2>1, <2>3
<1>16. ASSUME NEW r \in Responders, RspComplete(r) PROVE G
  <2>1. UNCHANGED <<PendingReqList, fetchElement, dropped, delivered, fetchRequest>>
    BY <1>16 DEF RspComplete
  <2>2. \/ UNCHANGED Element
        \/ \E status : CompleteRequest(rspElement[r], status, FALSE)
    BY <1>16 DEF RspComplete
  <2> QED
    BY <1>4, <1>15, <2>1, <2>2
<1>17. ASSUME DrainPendingHead \/ DrainSubmittedHead,
              UNCHANGED <<fetchElement, delivered, fetchRequest>>
       PROVE  G
  <2>1. \E e : CompleteRequest(e, "ABORTED", TRUE)
    BY <1>17 DEF DrainPendingHead, DrainSubmittedHead, AbortElement
  <2>2. /\ \/ PendingReqList' = PendingReqList
           \/ PendingReqList # <<>> /\ PendingReqList' = Tail(PendingReqList)
        /\ dropped' = dropped
    BY <1>17 DEF DrainPendingHead, DrainSubmittedHead
  <2> QED
    BY <1>15, <1>17, <2>1, <2>2
<1>18. ASSUME NEW x \in Resetters, ResetBegin(x) \/ ResetSteps(x) PROVE G
  BY <1>4, <1>17, <1>18 DEF ResetBegin, ResetSteps, ResetDrains, ResetDrained
<1>19. ASSUME NEW d \in Removers,
              RemoveQuery(d) \/ RemoveBegin(d) \/ RemoveSignal(d) \/ RemoveDone(d)
       PROVE  G
  BY <1>4, <1>19 DEF RemoveQuery, RemoveBegin, RemoveSignal, RemoveDone, RemoveUnchanged
<1>20. ASSUME BusReset \/ WnbdCleanupAllDevices \/ UNCHANGED vars PROVE G
  BY <1>4, <1>20 DEF BusReset, WnbdCleanupAllDevices, vars
<1>21. ASSUME MonitorSteps PROVE G
  BY <1>4, <1>17, <1>21 DEF MonitorSteps, MonitorWake, MonitorRundown, MonitorRundownOver,
     MonitorDrains, MonitorDrained, MonitorUnlink, MonitorUnchanged
<1>22. G
  BY <1>5, <1>6, <1>7, <1>8, <1>9, <1>11, <1>12, <1>13, <1>14, <1>16, <1>18, <1>19, <1>20, <1>21,
     <1>23
  DEF Next, StartIoSteps, FetchSteps, RspSteps
<1> QED
  BY <1>22 DEF G

\* A reply is to a request that was handed out, and stays so.
LEMMA RepliesStep ==
  ASSUME TypeOK, RepliesToDelivered, [Next]_vars
  PROVE  RepliesToDelivered'
<1>1. ASSUME UNCHANGED <<rspPc, rspRequest>>, delivered \subseteq delivered'
      PROVE  RepliesToDelivered'
  BY <1>1 DEF RepliesToDelivered
<1>2. ASSUME NEW s \in Srbs, StartIo(s) \/ StartIoNoDevice(s) \/ StartIoSteps(s)
      PROVE  RepliesToDelivered'
  BY <1>1, <1>2 DEF StartIo, StartIoNoDevice, StartIoSteps, HandleRemoved, HandleImmediate,
     PendElement, SignalPended, PendNoMemory, CompleteSynchronously
<1>3. ASSUME NEW f \in Fetchers, FetchBegin(f) \/ FetchAlerted(f) \/ FetchSteps(f)
      PROVE  RepliesToDelivered'
  BY <1>1, <1>3 DEF FetchBegin, FetchAlerted, FetchSteps, FetchWait, FetchWake, FetchRemoved,
     FetchTakeRemoved, FetchTakeNone, FetchTake, FetchReject, FetchLockFails,
     FetchSrbBufferFails, FetchTooSmall, FetchSubmit, FetchCount, FetchExit, DispatchFails, FetchUnchanged
<1>4. ASSUME NEW r \in Responders, RspBegin(r) \/ RspSteps(r) PROVE RepliesToDelivered'
  BY <1>4 DEF RspBegin, RspSteps, RspRemoveByTag, RspNotFound, RspComplete, RepliesToDelivered,
     TypeOK, RspTypes
<1>5. ASSUME NEW x \in Resetters, ResetBegin(x) \/ ResetSteps(x) PROVE RepliesToDelivered'
  BY <1>1, <1>5 DEF ResetBegin, ResetSteps, ResetDrains, ResetDrained
<1>6. ASSUME NEW d \in Removers,
             RemoveQuery(d) \/ RemoveBegin(d) \/ RemoveSignal(d) \/ RemoveDone(d)
      PROVE  RepliesToDelivered'
  BY <1>1, <1>6 DEF RemoveQuery, RemoveBegin, RemoveSignal, RemoveDone, RemoveUnchanged
<1>7. ASSUME BusReset \/ WnbdCleanupAllDevices \/ UNCHANGED vars PROVE RepliesToDelivered'
  BY <1>1, <1>7 DEF BusReset, WnbdCleanupAllDevices, vars
<1>8. ASSUME MonitorSteps PROVE RepliesToDelivered'
  BY <1>1, <1>8 DEF MonitorSteps, MonitorWake, MonitorRundown, MonitorRundownOver,
     MonitorDrains, MonitorDrained, MonitorUnlink, MonitorUnchanged
<1> QED
  BY <1>2, <1>3, <1>4, <1>5, <1>6, <1>7, <1>8 DEF Next

\* MInv holds initially.
LEMMA MappingInit == Init => MInv
<1> SUFFICES ASSUME Init PROVE MInv
  OBVIOUS
<1>1. RemovalShows
  BY Zenon DEF Init, RemovalShows
<1>2. ReturnedIsSettled /\ RepliesToDelivered
  BY DEF Init, ReturnedIsSettled, RepliesToDelivered
<1>3. InElements = {} /\ \A q \in OutRequests : q = ZeroRequest
  BY DEF Init, InElements, PendingElements, FetchHeld, OutRequests
<1>4. OutIsQueued /\ OutIsNotIn
  BY <1>3, ConstantsAssumption DEF OutIsQueued, OutIsNotIn, ZeroRequest
<1> QED
  BY <1>1, <1>2, <1>4 DEF MInv

\* IInv and MInv together are inductive.
LEMMA MappingInvariant == Spec => [](IInv /\ MInv)
<1>1. IInv /\ MInv /\ [Next]_vars => MInv'
  <2> SUFFICES ASSUME IInv, MInv, [Next]_vars PROVE MInv'
    OBVIOUS
  <2> QED
    BY RemovalShowsStep, ReturnedStep, OutStep, RepliesStep DEF IInv, MInv
<1> QED
  BY <1>1, Invariant, MappingInit, PTL DEF Spec

-----------------------------------------------------------------------------
(* What StorPort sees of a step *)

\* An SRB about which nothing of this changes looks the same.
LEMMA SameRequest ==
  ASSUME NEW s \in Srbs, srbPc'[s] = "idle" <=> srbPc[s] = "idle",
         completions'[s] = completions[s], SrbStatus'[s] = SrbStatus[s],
         Forgotten(s)' <=> Forgotten(s), HandedOut(s)' <=> HandedOut(s)
  PROVE  ServiceRequest(s)' = ServiceRequest(s)
  BY DEF ServiceRequest, Verdict

\* A disk whose removal neither starts nor ends looks the same.
LEMMA SameDisk ==
  ASSUME UNCHANGED <<monitorPc, HardRemoveDevice>>
  PROVE  ServiceDisk' = ServiceDisk
  BY DEF ServiceDisk

\* A step that changes what became of one SRB.
LEMMA OneBecomes ==
  ASSUME NEW s \in Srbs, NEW from, NEW to, ServiceRequest(s) \in from,
         ServiceRequest(s)' = to, ServiceDisk' = ServiceDisk,
         \A t \in Srbs \ {s} : ServiceRequest(t)' = ServiceRequest(t)
  PROVE  Service!Becomes(s, from, to)
<1>1. [t \in Srbs |-> ServiceRequest(t)]' = [[t \in Srbs |-> ServiceRequest(t)] EXCEPT ![s] = to]
  OBVIOUS
<1> QED
  BY <1>1 DEF Service!Becomes

\* A step that StorPort does not see.
LEMMA Unseen ==
  ASSUME ServiceDisk' = ServiceDisk, \A t \in Srbs : ServiceRequest(t)' = ServiceRequest(t)
  PROVE  UNCHANGED Service!vars
<1>1. [t \in Srbs |-> ServiceRequest(t)]' = [t \in Srbs |-> ServiceRequest(t)]
  OBVIOUS
<1> QED
  BY <1>1 DEF Service!vars

\* The steps of an SRB are steps of the service.
LEMMA ServiceSteps ==
  ASSUME NEW s \in Srbs,
         \/ Service!Accept(s) \/ Service!Hand(s) \/ Service!Refuse(s) \/ Service!Answer(s)
         \/ Service!Succeed(s) \/ Service!Fail(s) \/ Service!Lose(s)
  PROVE  Service!Next
  BY DEF Service!Next

\* Where an SRB is, seen from StorPort.
LEMMA WhereSrbIs ==
  ASSUME IInv, MInv, NEW s \in Srbs
  PROVE  /\ srbPc[s] = "idle" => ServiceRequest(s) = "idle" /\ ~Forgotten(s) /\ ~HandedOut(s)
         /\ srbPc[s] = "entered" =>
              ServiceRequest(s) = "accepted" /\ ~Forgotten(s) /\ ~HandedOut(s)
         /\ Owed(s) => ServiceRequest(s) = IF Forgotten(s) THEN "lost"
                                           ELSE IF HandedOut(s) THEN "handed" ELSE "accepted"
<1>1. \A e \in dropped : Owed(Element[e].Srb)
  BY DEF IInv, Owners, ElementPerOwedSrb, LiveElements
<1>2. \A q \in delivered : q.Srb \in Srbs => srbPc[q.Srb] \in {"queued", "pended"}
  BY DEF MInv, OutIsQueued, OutRequests
<1>3. srbPc[s] \in {"idle", "entered"} => completions[s] = 0
  BY DEF IInv, Owners, Fresh
<1>4. Forgotten(s) \/ HandedOut(s) => srbPc[s] \in {"queued", "pended"}
  <2>1. ASSUME NEW e \in dropped, Element[e].Srb = s PROVE srbPc[s] \in {"queued", "pended"}
    BY <1>1, <2>1 DEF Owed
  <2>2. ASSUME NEW q \in delivered, q.Srb = s PROVE srbPc[s] \in {"queued", "pended"}
    BY <1>2, <2>2
  <2> QED
    BY <2>1, <2>2 DEF Forgotten, HandedOut
<1>5. srbPc[s] = "idle" => ServiceRequest(s) = "idle"
  BY DEF ServiceRequest
<1>6. ASSUME srbPc[s] # "idle", completions[s] = 0
      PROVE  ServiceRequest(s) = IF Forgotten(s) THEN "lost"
                                 ELSE IF HandedOut(s) THEN "handed" ELSE "accepted"
  <2>1. ~(completions[s] > 0)
    BY <1>6
  <2> QED
    BY <1>6, <2>1 DEF ServiceRequest
<1> QED
  BY <1>3, <1>4, <1>5, <1>6 DEF Owed

\* Elements keep their SRB, and nothing is forgotten or handed out.
LEMMA SameOutlook ==
  ASSUME TypeOK, UNCHANGED <<dropped, delivered>>,
         \A e \in dropped : Element'[e].Srb = Element[e].Srb, NEW s
  PROVE  (Forgotten(s)' <=> Forgotten(s)) /\ (HandedOut(s)' <=> HandedOut(s))
  BY DEF Forgotten, HandedOut

-----------------------------------------------------------------------------
(* Every step is a step of the service or a stutter *)

\* HwStartIo completes an SRB before it returns.
LEMMA SynchronousService ==
  ASSUME IInv, MInv, NEW s \in Srbs, srbPc[s] \in {"idle", "entered"}, NEW status,
         CompleteSynchronously(s, status), NEW from, ServiceRequest(s) \in from
  PROVE  Service!Becomes(s, from, Verdict(status))
<1>1. TypeOK /\ completions[s] = 0
  BY DEF IInv, Owners, Fresh
<1>2. /\ srbPc'[s] = "returned" /\ completions'[s] = 1 /\ SrbStatus'[s] = status
      /\ \A t \in Srbs \ {s} : /\ srbPc'[t] = srbPc[t] /\ completions'[t] = completions[t]
                               /\ SrbStatus'[t] = SrbStatus[t]
      /\ UNCHANGED <<dropped, delivered, Element, monitorPc, HardRemoveDevice>>
  BY <1>1 DEF CompleteSynchronously, TypeOK, SrbTypes
<1>3. ServiceRequest(s)' = Verdict(status)
  <2>1. completions'[s] > 0
    BY <1>2
  <2> QED
    BY <1>2, <2>1 DEF ServiceRequest, Verdict
<1>4. \A t \in Srbs \ {s} : ServiceRequest(t)' = ServiceRequest(t)
  BY <1>1, <1>2, SameRequest, SameOutlook
<1>5. ServiceDisk' = ServiceDisk
  BY <1>2, SameDisk
<1> QED
  BY <1>3, <1>4, <1>5, OneBecomes

\* An element that was not forgotten is completed.
LEMMA CompleteService ==
  ASSUME IInv, MInv, NEW e \in LiveElements \ dropped, NEW status, NEW aborted,
         CompleteRequest(e, status, aborted),
         UNCHANGED <<srbPc, dropped, delivered, monitorPc, HardRemoveDevice>>,
         NEW s, s = Element[e].Srb
  PROVE  /\ s \in Srbs
         /\ Service!Becomes(s, {"accepted", "handed"}, Verdict(status))
         /\ HandedOut(s) => Service!Becomes(s, {"handed"}, Verdict(status))
<1>1. TypeOK /\ LiveElements \subseteq Elements /\ e \in Elements
  BY LiveTypes DEF IInv
<1>2. s \in Srbs /\ Owed(s) /\ ~Element[e].Completed
  BY DEF IInv, Owners, ElementPerOwedSrb
<1>3. ~Forgotten(s)
  BY DEF IInv, Owners, ElementPerOwedSrb, LiveElements, Forgotten
<1>4. /\ completions'[s] = 1 /\ SrbStatus'[s] = status
      /\ \A t \in Srbs \ {s} : completions'[t] = completions[t] /\ SrbStatus'[t] = SrbStatus[t]
  BY <1>1, <1>2 DEF CompleteRequest, TypeOK, SrbTypes, Owed
<1>5. \A d \in dropped : Element'[d].Srb = Element[d].Srb
  BY <1>1, CompleteKeepsTags DEF TypeOK, ListTypes
<1>6. ServiceRequest(s) = IF HandedOut(s) THEN "handed" ELSE "accepted"
  BY <1>2, <1>3, WhereSrbIs
<1>7. ServiceRequest(s)' = Verdict(status)
  <2>1. completions'[s] > 0 /\ srbPc'[s] # "idle"
    BY <1>2, <1>4 DEF Owed
  <2> QED
    BY <1>4, <2>1 DEF ServiceRequest, Verdict
<1>8. \A t \in Srbs \ {s} : ServiceRequest(t)' = ServiceRequest(t)
  BY <1>1, <1>4, <1>5, SameRequest, SameOutlook
<1>9. ServiceDisk' = ServiceDisk
  BY SameDisk
<1>10. \A from : ServiceRequest(s) \in from => Service!Becomes(s, from, Verdict(status))
  BY <1>2, <1>7, <1>8, <1>9, OneBecomes
<1> QED
  BY <1>2, <1>6, <1>10

\* A completion with an error is a failure of the service.
LEMMA FailService ==
  ASSUME IInv, MInv, NEW e \in LiveElements \ dropped,
         NEW status \in {"ABORTED", "INVALID_REQUEST", "INTERNAL_ERROR"}, NEW aborted,
         CompleteRequest(e, status, aborted),
         UNCHANGED <<srbPc, dropped, delivered, monitorPc, HardRemoveDevice>>
  PROVE  Service!Next
<1>1. Verdict(status) = "failed"
  BY DEF Verdict
<1>2. PICK s : s = Element[e].Srb
  OBVIOUS
<1>3. s \in Srbs /\ Service!Becomes(s, {"accepted", "handed"}, "failed")
  BY <1>1, <1>2, CompleteService
<1>4. Service!Fail(s)
  BY <1>3 DEF Service!Fail, Service!Unsettled
<1> QED
  BY <1>3, <1>4, ServiceSteps

\* DrainDeviceQueue fails what it removes.
LEMMA DrainService ==
  ASSUME IInv, MInv, DrainPendingHead \/ DrainSubmittedHead,
         UNCHANGED <<srbPc, delivered, monitorPc, HardRemoveDevice>>
  PROVE  Service!Next
<1>0. TypeOK /\ OneOwner /\ PlacesDisjoint
  BY DEF IInv, Owners, OneOwner
<1>1. dropped' = dropped
  BY DEF DrainPendingHead, DrainSubmittedHead
<1>2. \E e \in LiveElements \ dropped : CompleteRequest(e, "ABORTED", TRUE)
  <2>1. CASE DrainPendingHead
    <3>1. /\ CompleteRequest(Head(PendingReqList), "ABORTED", TRUE)
          /\ Head(PendingReqList) \in PendingElements
      BY <1>0, <2>1, HeadLeaves DEF DrainPendingHead, AbortElement
    <3> QED
      BY <1>0, <3>1 DEF LiveElements, PlacesDisjoint
  <2>2. CASE DrainSubmittedHead
    BY <1>0, <2>2 DEF DrainSubmittedHead, AbortElement, LiveElements, PlacesDisjoint
  <2> QED
    BY <2>1, <2>2
<1> QED
  BY <1>1, <1>2, FailService

\* The steps HwStartIo takes.
LEMMA StartIoService ==
  ASSUME IInv, MInv, NEW s \in Srbs, StartIo(s) \/ StartIoNoDevice(s) \/ StartIoSteps(s)
  PROVE  Service!Next \/ UNCHANGED Service!vars
<1>0. TypeOK
  BY DEF IInv
<1>1. CASE StartIo(s)
  <2>1. /\ srbPc[s] = "idle" /\ srbPc'[s] = "entered"
        /\ \A t \in Srbs \ {s} : srbPc'[t] = srbPc[t]
        /\ UNCHANGED <<completions, SrbStatus, dropped, delivered, Element, monitorPc, HardRemoveDevice>>
        /\ ~HardRemoveDevice
    BY <1>0, <1>1 DEF StartIo, TypeOK, SrbTypes
  <2>2. ServiceDisk = "serving"
    BY <2>1 DEF ServiceDisk, MInv, RemovalShows
  <2>3. completions[s] = 0 /\ ~Forgotten(s) /\ ~HandedOut(s) /\ ServiceRequest(s) = "idle"
    BY <2>1, WhereSrbIs DEF IInv, Owners, Fresh
  <2>4. \A t : (Forgotten(t)' <=> Forgotten(t)) /\ (HandedOut(t)' <=> HandedOut(t))
    BY <1>0, <2>1, SameOutlook
  <2>5. ServiceRequest(s)' = "accepted"
    <3>1. ~(completions'[s] > 0) /\ srbPc'[s] # "idle"
      BY <2>1, <2>3
    <3> QED
      BY <2>3, <2>4, <3>1 DEF ServiceRequest
  <2>6. \A t \in Srbs \ {s} : ServiceRequest(t)' = ServiceRequest(t)
    BY <2>1, <2>4, SameRequest
  <2>7. Service!Accept(s)
    BY <2>1, <2>2, <2>3, <2>5, <2>6, SameDisk, OneBecomes DEF Service!Accept
  <2> QED
    BY <2>7, ServiceSteps
<1>2. CASE StartIoNoDevice(s)
  <2>1. srbPc[s] = "idle" /\ CompleteSynchronously(s, "NO_DEVICE") /\ HardRemoveDevice
    BY <1>2 DEF StartIoNoDevice, MInv, RemovalShows
  <2>2. ServiceRequest(s) = "idle" /\ ServiceDisk # "serving" /\ Verdict("NO_DEVICE") = "failed"
    BY <2>1, WhereSrbIs DEF ServiceDisk, Verdict
  <2>3. Service!Refuse(s)
    BY <2>1, <2>2, SynchronousService DEF Service!Refuse
  <2> QED
    BY <2>3, ServiceSteps
<1>3. CASE HandleRemoved(s) \/ PendNoMemory(s)
  <2>1. srbPc[s] = "entered" /\ \E st \in {"INVALID_REQUEST", "ABORTED"} : CompleteSynchronously(s, st)
    BY <1>3 DEF HandleRemoved, PendNoMemory
  <2>2. ServiceRequest(s) = "accepted" /\ \A st \in {"INVALID_REQUEST", "ABORTED"} : Verdict(st) = "failed"
    BY <2>1, WhereSrbIs DEF Verdict
  <2>3. Service!Becomes(s, {"accepted"}, "failed")
    BY <2>1, <2>2, SynchronousService
  <2>4. Service!Fail(s)
    BY <2>3 DEF Service!Fail, Service!Becomes, Service!Unsettled
  <2> QED
    BY <2>4, ServiceSteps
<1>4. CASE HandleImmediate(s)
  <2>1. srbPc[s] = "entered" /\ CompleteSynchronously(s, "IMMEDIATE")
    BY <1>4 DEF HandleImmediate
  <2>2. ServiceRequest(s) = "accepted" /\ Verdict("IMMEDIATE") = "answered"
    BY <2>1, WhereSrbIs DEF Verdict
  <2>3. Service!Answer(s)
    BY <2>1, <2>2, SynchronousService DEF Service!Answer
  <2> QED
    BY <2>3, ServiceSteps
<1>5. CASE PendElement(s) \/ SignalPended(s)
  <2>1. /\ \A t \in Srbs : srbPc'[t] = "idle" <=> srbPc[t] = "idle"
        /\ UNCHANGED <<completions, SrbStatus, dropped, delivered, monitorPc, HardRemoveDevice>>
    BY <1>0, <1>5 DEF PendElement, SignalPended, TypeOK, SrbTypes
  <2>2. \A e \in dropped : Element'[e].Srb = Element[e].Srb
    <3>1. ASSUME PendElement(s), NEW e \in dropped PROVE Element'[e] = Element[e]
      <4>1. PICK d \in Allocatable : PendElement(s)!2!(d)
        BY <3>1 DEF PendElement
      <4>2. d # e
        BY <3>1 DEF Allocatable, FreeElements, LiveElements, IInv, Owners, OneOwner, PlacesDisjoint
      <4> QED
        BY <1>0, <3>1, <4>1, <4>2 DEF TypeOK, ElementTypes, ListTypes
    <3> QED
      BY <1>5, <3>1 DEF SignalPended
  <2>3. \A t \in Srbs : ServiceRequest(t)' = ServiceRequest(t)
    BY <1>0, <2>1, <2>2, SameOutlook, SameRequest
  <2> QED
    BY <2>1, <2>3, SameDisk, Unseen
<1> QED
  BY <1>1, <1>2, <1>3, <1>4, <1>5 DEF StartIoSteps

\* Nothing StorPort sees changes.
LEMMA QuietService ==
  ASSUME IInv, UNCHANGED <<srbPc, completions, SrbStatus, dropped, delivered, monitorPc,
                           HardRemoveDevice>>,
         \A e \in dropped : Element'[e].Srb = Element[e].Srb
  PROVE  UNCHANGED Service!vars
<1>1. \A t \in Srbs : ServiceRequest(t)' = ServiceRequest(t)
  BY SameOutlook, SameRequest DEF IInv
<1> QED
  BY <1>1, SameDisk, Unseen

\* The fetch that notices the removal after it took an element loses its request.
LEMMA LoseService ==
  ASSUME IInv, MInv, NEW f \in Fetchers, FetchTakeRemoved(f)
  PROVE  Service!Next \/ UNCHANGED Service!vars
<1>0. TypeOK /\ OneOwner /\ PlacesDisjoint /\ ElementPerOwedSrb
  BY DEF IInv, Owners, OneOwner
<1>1. /\ UNCHANGED <<srbPc, completions, SrbStatus, delivered, monitorPc, HardRemoveDevice, Element>>
      /\ HardRemoveDevice
  BY DEF FetchTakeRemoved
<1>2. CASE PendingReqList = <<>>
  <2>1. dropped' = dropped
    BY <1>2 DEF FetchTakeRemoved
  <2> QED
    BY <1>1, <2>1, QuietService
<1>3. CASE PendingReqList # <<>>
  <2>1. PICK e : e = Head(PendingReqList)
    OBVIOUS
  <2>2. PICK s : s = Element[e].Srb
    OBVIOUS
  <2>3. dropped' = dropped \cup {e} /\ e \in PendingElements
    BY <1>0, <1>3, <2>1, HeadLeaves DEF FetchTakeRemoved
  <2>4. e \in LiveElements /\ e \notin dropped
    BY <1>0, <2>3 DEF LiveElements, PlacesDisjoint
  <2>5. s \in Srbs /\ Owed(s) /\ ~Forgotten(s)
    BY <1>0, <2>2, <2>4 DEF ElementPerOwedSrb, LiveElements, Forgotten
  <2>6. ~HandedOut(s)
    BY <2>2, <2>3 DEF MInv, OutIsNotIn, OutRequests, InElements, HandedOut
  <2>7. ServiceRequest(s) = "accepted"
    BY <2>5, <2>6, WhereSrbIs
  <2>8. Forgotten(s)' /\ \A t : t # s => (Forgotten(t)' <=> Forgotten(t))
    BY <1>1, <2>2, <2>3 DEF Forgotten
  <2>9. \A t : HandedOut(t)' <=> HandedOut(t)
    BY <1>1 DEF HandedOut
  <2>10. ServiceRequest(s)' = "lost"
    <3>1. ~(completions'[s] > 0) /\ srbPc'[s] # "idle"
      BY <1>1, <2>5 DEF Owed
    <3> QED
      BY <2>8, <3>1 DEF ServiceRequest
  <2>11. \A t \in Srbs \ {s} : ServiceRequest(t)' = ServiceRequest(t)
    BY <1>1, <2>8, <2>9, SameRequest
  <2>12. monitorPc # "gone"
    <3>1. f \in Inside
      BY DEF FetchTakeRemoved, Inside
    <3> QED
      BY <3>1 DEF IInv, References, Drains
  <2>13. ServiceDisk = "removing" /\ ServiceDisk' = ServiceDisk
    BY <1>1, <2>12, SameDisk DEF ServiceDisk
  <2>14. Service!Lose(s)
    BY <2>5, <2>7, <2>10, <2>11, <2>13, OneBecomes DEF Service!Lose
  <2> QED
    BY <2>5, <2>14, ServiceSteps
<1> QED
  BY <1>2, <1>3

\* A fetch returns to userspace, with a request or without.
LEMMA HandService ==
  ASSUME IInv, MInv, NEW f \in Fetchers, FetchExit(f)
  PROVE  Service!Next \/ UNCHANGED Service!vars
<1>1. /\ UNCHANGED <<srbPc, completions, SrbStatus, dropped, monitorPc, HardRemoveDevice, Element>>
      /\ delivered' = delivered \/ (delivered' = delivered \cup {fetchRequest[f]} /\ ~HardRemoveDevice)
  BY DEF FetchExit
<1>2. CASE delivered' = delivered
  BY <1>1, <1>2, QuietService
<1>3. CASE delivered' = delivered \cup {fetchRequest[f]} /\ ~HardRemoveDevice
  <2>1. PICK s : s = fetchRequest[f].Srb
    OBVIOUS
  <2>2. HandedOut(s)' /\ \A t : t # s => (HandedOut(t)' <=> HandedOut(t))
    BY <1>3, <2>1 DEF HandedOut
  <2>3. \A t : Forgotten(t)' <=> Forgotten(t)
    BY <1>1 DEF Forgotten
  <2>4. \A t \in Srbs \ {s} : ServiceRequest(t)' = ServiceRequest(t)
    BY <1>1, <2>2, <2>3, SameRequest
  <2>5. ServiceDisk' = ServiceDisk /\ ServiceDisk = "serving"
    BY <1>1, <1>3, SameDisk DEF ServiceDisk, MInv, RemovalShows
  <2>6. CASE s \notin Srbs
    BY <2>4, <2>5, <2>6, Unseen
  <2>7. CASE s \in Srbs /\ (completions[s] > 0 \/ HandedOut(s))
    <3>1. ServiceRequest(s)' = ServiceRequest(s)
      BY <1>1, <2>2, <2>3, <2>7 DEF ServiceRequest, Verdict
    <3> QED
      BY <2>4, <2>5, <3>1, Unseen
  <2>8. CASE s \in Srbs /\ ~(completions[s] > 0) /\ ~HandedOut(s)
    <3>1. srbPc[s] \in {"queued", "pended"}
      BY <2>1, <2>8 DEF MInv, OutIsQueued, OutRequests
    <3>2. completions[s] = 0
      BY <2>8 DEF IInv, TypeOK, SrbTypes
    <3>3. ~Forgotten(s)
      BY <2>1 DEF MInv, OutIsNotIn, OutRequests, InElements, Forgotten
    <3>4. ServiceRequest(s) = "accepted"
      BY <2>8, <3>1, <3>2, <3>3, WhereSrbIs DEF Owed
    <3>5. ServiceRequest(s)' = "handed"
      BY <1>1, <2>2, <2>3, <2>8, <3>1, <3>3 DEF ServiceRequest
    <3>6. Service!Hand(s)
      BY <2>4, <2>5, <2>8, <3>4, <3>5, OneBecomes DEF Service!Hand
    <3> QED
      BY <2>8, <3>6, ServiceSteps
  <2> QED
    BY <2>6, <2>7, <2>8
<1> QED
  BY <1>1, <1>2, <1>3

\* The steps of a fetch.
LEMMA FetchService ==
  ASSUME IInv, MInv, NEW f \in Fetchers, FetchBegin(f) \/ FetchAlerted(f) \/ FetchSteps(f)
  PROVE  Service!Next \/ UNCHANGED Service!vars
<1>0. TypeOK /\ Held /\ OneOwner /\ PlacesDisjoint
  BY DEF IInv, Owners, OneOwner
<1>1. CASE FetchBegin(f) \/ FetchAlerted(f) \/ FetchWait(f) \/ FetchWake(f) \/ FetchRemoved(f)
           \/ FetchTakeNone(f) \/ FetchSubmit(f) \/ FetchCount(f)
  <2>1. UNCHANGED <<srbPc, completions, SrbStatus, dropped, delivered, monitorPc,
                    HardRemoveDevice, Element>>
    BY <1>1 DEF FetchBegin, FetchAlerted, FetchWait, FetchWake, FetchRemoved, FetchTakeNone,
       FetchSubmit, FetchCount, FetchUnchanged
  <2> QED
    BY <2>1, QuietService
<1>2. CASE FetchTake(f)
  <2>1. UNCHANGED <<srbPc, completions, SrbStatus, dropped, delivered, monitorPc, HardRemoveDevice>>
    BY <1>2 DEF FetchTake
  <2>2. \A e \in Elements : Element'[e].Srb = Element[e].Srb
    BY <1>0, <1>2 DEF FetchTake, TypeOK, ElementTypes
  <2>3. dropped \subseteq Elements
    BY <1>0 DEF TypeOK, ListTypes
  <2> QED
    BY <2>1, <2>2, <2>3, QuietService
<1>3. CASE FetchReject(f) \/ FetchLockFails(f) \/ FetchSrbBufferFails(f) \/ FetchTooSmall(f)
  <2>1. PICK status \in {"INVALID_REQUEST", "INTERNAL_ERROR"}, pc \in {"failed", "refused"} :
          fetchPc[f] = "dispatch" /\ DispatchFails(f, status, pc)
    BY <1>3 DEF FetchReject, FetchLockFails, FetchSrbBufferFails, FetchTooSmall
  <2>2. /\ CompleteRequest(fetchElement[f], status, Element[fetchElement[f]].Aborted)
        /\ UNCHANGED <<srbPc, dropped, delivered, monitorPc, HardRemoveDevice>>
    BY <2>1 DEF DispatchFails
  <2>3. fetchElement[f] \in LiveElements \ dropped
    BY <1>0, <2>1 DEF Held, LiveElements, FetchHeld, PlacesDisjoint
  <2> QED
    BY <2>2, <2>3, FailService
<1> QED
  BY <1>1, <1>2, <1>3, LoseService, HandService DEF FetchSteps

\* The steps of a reply: it succeeds only for a request that was handed out.
LEMMA RspService ==
  ASSUME IInv, MInv, NEW r \in Responders, RspBegin(r) \/ RspSteps(r)
  PROVE  Service!Next \/ UNCHANGED Service!vars
<1>0. TypeOK /\ Held /\ OneOwner /\ PlacesDisjoint /\ ElementPerOwedSrb
  BY DEF IInv, Owners, OneOwner
<1>1. CASE RspBegin(r) \/ RspRemoveByTag(r) \/ RspNotFound(r)
  <2>1. UNCHANGED <<srbPc, completions, SrbStatus, dropped, delivered, monitorPc,
                    HardRemoveDevice, Element>>
    BY <1>1 DEF RspBegin, RspRemoveByTag, RspNotFound
  <2> QED
    BY <2>1, QuietService
<1>2. CASE RspComplete(r)
  <2>1. PICK e : e = rspElement[r]
    OBVIOUS
  <2>2. rspPc[r] = "holding" /\ UNCHANGED <<srbPc, dropped, delivered, monitorPc, HardRemoveDevice>>
    BY <1>2 DEF RspComplete
  <2>3. e \in RspHeld /\ e \in LiveElements \ dropped
    BY <1>0, <2>1, <2>2 DEF Held, RspHeld, LiveElements, PlacesDisjoint
  <2>4. PICK status \in {"SUCCESS", "INTERNAL_ERROR"} : CompleteRequest(e, status, FALSE)
    BY <1>0, <1>2, <2>1, <2>3 DEF RspComplete, ElementPerOwedSrb
  <2>5. CASE status = "INTERNAL_ERROR"
    BY <2>2, <2>3, <2>4, <2>5, FailService
  <2>6. CASE status = "SUCCESS"
    <3>1. PICK s : s = Element[e].Srb
      OBVIOUS
    <3>2. rspRequest[r] \in delivered /\ rspRequest[r].Srb = s
      <4>1. rspRequest[r] \in KnownRequests /\ e \in TaggedElements
        BY <2>3 DEF KnownRequests, TaggedElements
      <4>2. Element[e].Tag = rspRequest[r].RequestHandle
        BY <2>1, <2>2 DEF IInv, RspTag
      <4> QED
        BY <2>2, <3>1, <4>1, <4>2 DEF IInv, Tags, MInv, RepliesToDelivered
    <3>3. HandedOut(s) /\ Verdict("SUCCESS") = "succeeded"
      BY <3>2 DEF HandedOut, Verdict
    <3>4. s \in Srbs /\ Service!Becomes(s, {"handed"}, "succeeded")
      BY <2>2, <2>3, <2>4, <2>6, <3>1, <3>3, CompleteService
    <3>5. Service!Succeed(s)
      BY <3>4 DEF Service!Succeed
    <3> QED
      BY <3>4, <3>5, ServiceSteps
  <2> QED
    BY <2>4, <2>5, <2>6
<1> QED
  BY <1>1, <1>2 DEF RspSteps

\* A removal begins with HardRemoveDevice.
LEMMA RemoveService ==
  ASSUME IInv, MInv, UNCHANGED <<srbPc, completions, SrbStatus, dropped, delivered, Element>>,
         HardRemoveDevice' = HardRemoveDevice \/ HardRemoveDevice',
         monitorPc # "gone", monitorPc' # "gone"
  PROVE  Service!Next \/ UNCHANGED Service!vars
<1>1. \A t \in Srbs : ServiceRequest(t)' = ServiceRequest(t)
  BY SameOutlook, SameRequest DEF IInv
<1>2. CASE HardRemoveDevice' = HardRemoveDevice \/ HardRemoveDevice
  <2>1. ServiceDisk' = ServiceDisk
    BY <1>2 DEF ServiceDisk
  <2> QED
    BY <1>1, <2>1, Unseen
<1>3. CASE ~HardRemoveDevice /\ HardRemoveDevice'
  <2>1. ServiceDisk = "serving" /\ ServiceDisk' = "removing"
    BY <1>3 DEF ServiceDisk
  <2>2. [t \in Srbs |-> ServiceRequest(t)]' = [t \in Srbs |-> ServiceRequest(t)]
    BY <1>1
  <2>3. Service!Remove
    BY <2>1, <2>2 DEF Service!Remove
  <2> QED
    BY <2>3 DEF Service!Next
<1> QED
  BY <1>2, <1>3

\* The steps of a reset.
LEMMA ResetService ==
  ASSUME IInv, MInv, NEW x \in Resetters, ResetBegin(x) \/ ResetSteps(x)
  PROVE  Service!Next \/ UNCHANGED Service!vars
<1>1. CASE ResetBegin(x)
  BY <1>1, QuietService DEF ResetBegin
<1>2. CASE ResetDrains(x)
  BY <1>2, DrainService DEF ResetDrains
<1>3. CASE ResetDrained(x)
  <2>1. /\ UNCHANGED <<srbPc, completions, SrbStatus, dropped, delivered, Element, monitorPc>>
        /\ HardRemoveDevice' = HardRemoveDevice \/ HardRemoveDevice'
    BY <1>3 DEF ResetDrained
  <2>2. monitorPc # "gone"
    <3>1. x \in Inside
      BY <1>3 DEF ResetDrained, Inside
    <3> QED
      BY <3>1 DEF IInv, References, Drains
  <2> QED
    BY <2>1, <2>2, RemoveService
<1> QED
  BY <1>1, <1>2, <1>3 DEF ResetSteps

\* The monitor thread frees the device when everything is settled or forgotten.
LEMMA VanishService ==
  ASSUME IInv, MInv, MonitorUnlink
  PROVE  Service!Next
<1>1. /\ monitorPc = "unlink" /\ monitorPc' = "gone"
      /\ UNCHANGED <<srbPc, completions, SrbStatus, dropped, delivered, Element, HardRemoveDevice>>
  BY DEF MonitorUnlink, MonitorUnchanged
<1>2. ServiceDisk = "removing" /\ ServiceDisk' = "gone"
  BY <1>1 DEF ServiceDisk, MInv, RemovalShows
<1>3. Inside = {} /\ PendingReqList = <<>> /\ SubmittedReqList = {}
  BY <1>1 DEF IInv, References, Drains, Drained
<1>4. LiveElements = dropped
  <2>1. FetchHeld = {} /\ RspHeld = {}
    BY <1>3 DEF Inside, IInv, Held, FetchHeld, RspHeld
  <2> QED
    BY <1>3, <2>1 DEF LiveElements, PendingElements
<1>5. ASSUME NEW s \in Srbs PROVE ServiceRequest(s) \notin Service!Unsettled
  <2>1. srbPc[s] \in {"idle", "pended", "returned"}
    BY <1>3 DEF Inside, IInv, TypeOK, SrbTypes
  <2>2. CASE srbPc[s] = "idle"
    BY <2>2, WhereSrbIs DEF Service!Unsettled
  <2>3. CASE completions[s] > 0 /\ srbPc[s] # "idle"
    BY <2>3 DEF ServiceRequest, Verdict, Service!Unsettled
  <2>4. CASE ~(completions[s] > 0) /\ srbPc[s] # "idle"
    <3>1. completions[s] = 0
      BY <2>4 DEF IInv, TypeOK, SrbTypes
    <3>2. Owed(s)
      BY <2>1, <2>4, <3>1 DEF Owed, MInv, ReturnedIsSettled
    <3>3. Forgotten(s)
      BY <1>4, <3>2 DEF IInv, Owners, ElementPerOwedSrb, Forgotten
    <3> QED
      BY <3>2, <3>3, WhereSrbIs DEF Service!Unsettled
  <2> QED
    BY <2>2, <2>3, <2>4
<1>6. \A t \in Srbs : ServiceRequest(t)' = ServiceRequest(t)
  BY <1>1, SameOutlook, SameRequest DEF IInv
<1>7. [t \in Srbs |-> ServiceRequest(t)]' = [t \in Srbs |-> ServiceRequest(t)]
  BY <1>6
<1>8. Service!Vanish
  BY <1>2, <1>5, <1>7 DEF Service!Vanish
<1> QED
  BY <1>8 DEF Service!Next

\* The steps of the monitor thread.
LEMMA MonitorService ==
  ASSUME IInv, MInv, MonitorSteps
  PROVE  Service!Next \/ UNCHANGED Service!vars
<1>1. CASE MonitorWake \/ MonitorRundown \/ MonitorRundownOver \/ MonitorDrained
  <2>1. /\ UNCHANGED <<srbPc, completions, SrbStatus, dropped, delivered, Element>>
        /\ HardRemoveDevice' = HardRemoveDevice \/ HardRemoveDevice'
        /\ monitorPc # "gone" /\ monitorPc' # "gone"
    BY <1>1 DEF MonitorWake, MonitorRundown, MonitorRundownOver, MonitorDrained, MonitorUnchanged
  <2> QED
    BY <2>1, RemoveService
<1>2. CASE MonitorDrains
  BY <1>2, DrainService DEF MonitorDrains, MonitorUnchanged
<1> QED
  BY <1>1, <1>2, VanishService DEF MonitorSteps

\* Every step of the driver is a step of the service or a stutter.
LEMMA ServiceStep ==
  ASSUME IInv, MInv, [Next]_vars
  PROVE  Service!Next \/ UNCHANGED Service!vars
<1>1. CASE BusReset \/ WnbdCleanupAllDevices \/ UNCHANGED vars
  BY <1>1, QuietService DEF BusReset, WnbdCleanupAllDevices, vars
<1>2. ASSUME NEW d \in Removers,
             RemoveQuery(d) \/ RemoveBegin(d) \/ RemoveSignal(d) \/ RemoveDone(d)
      PROVE  UNCHANGED Service!vars
  BY <1>2, QuietService DEF RemoveQuery, RemoveBegin, RemoveSignal, RemoveDone, RemoveUnchanged
<1> QED
  BY <1>1, <1>2, StartIoService, FetchService, RspService, ResetService, MonitorService DEF Next

\* The driver starts as an idle, serving disk.
LEMMA ServiceInit == Init => Service!Init
<1> SUFFICES ASSUME Init PROVE Service!Init
  OBVIOUS
<1>1. \A s \in Srbs : ServiceRequest(s) = "idle"
  BY DEF Init, ServiceRequest
<1>2. ServiceDisk = "serving"
  BY DEF Init, ServiceDisk
<1> QED
  BY <1>1, <1>2 DEF Service!Init

\* The request path of the driver, with any number of requests and threads,
\* implements the service StorPort relies on (WnbdHwStartIo,
\* WnbdDispatchRequest, WnbdHandleResponse, DrainDeviceQueue,
\* WnbdDeviceMonitorThread).
THEOREM Refinement == Spec => ImplementsService
<1>1. IInv /\ MInv /\ [Next]_vars => [Service!Next]_Service!vars
  BY ServiceStep
<1> QED
  BY <1>1, ServiceInit, MappingInvariant, PTL DEF Spec, ImplementsService, Service!Spec
=============================================================================
