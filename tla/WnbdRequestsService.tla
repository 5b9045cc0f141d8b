------------------------ MODULE WnbdRequestsService -------------------------
(***************************************************************************)
(* The request path of the driver (WnbdRequests) implements the service    *)
(* StorPort relies on (WnbdService).                                       *)
(***************************************************************************)
EXTENDS WnbdRequests

\* What an SRB the driver notified StorPort of was told.
Verdict(status) ==
  CASE status = "SUCCESS"   -> "succeeded"
    [] status = "IMMEDIATE" -> "answered"
    [] OTHER                -> "failed"

\* A fetch forgot the element of the SRB; userspace was handed its request.
Forgotten(s) == \E e \in dropped : Element[e].Srb = s
HandedOut(s) == \E q \in delivered : q.Srb = s

\* A fetch hands a request out when it returns it to userspace (FetchExit); the
\* fetch that forgets an element loses its request (FetchTakeRemoved).
ServiceRequest(s) ==
  IF srbPc[s] = "idle"       THEN "idle"
  ELSE IF completions[s] > 0 THEN Verdict(SrbStatus[s])
  ELSE IF Forgotten(s)       THEN "lost"
  ELSE IF HandedOut(s)       THEN "handed"
  ELSE "accepted"

\* A disk is being removed from the moment HardRemoveDevice is set.
ServiceDisk ==
  IF monitorPc = "gone" THEN "gone"
  ELSE IF HardRemoveDevice THEN "removing" ELSE "serving"

Service == INSTANCE WnbdService WITH
             request <- [s \in Srbs |-> ServiceRequest(s)],
             disk    <- ServiceDisk

\* Every step of StorPort, of a fetching, responding, resetting or removing
\* thread or of the monitor thread is a step of the service or invisible to
\* StorPort: each SRB is settled at most once, a queued one is reported as done
\* only if userspace was handed it, nothing is accepted or handed out once the
\* removal began, and the device is freed only when nothing is unsettled
\* (WnbdDispatchRequest, WnbdHandleResponse, DrainDeviceQueue,
\* WnbdDeviceMonitorThread).
ImplementsService == Service!Spec

\* The same, and a disk whose removal began goes away, whoever removes it: a
\* caller, the adapter's cleanup or a reset that found the connection stale.
ImplementsLiveService == Service!LiveSpec
=============================================================================
