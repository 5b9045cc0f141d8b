-------------------------- MODULE NbdDaemonProofs ---------------------------
(***************************************************************************)
(* TLAPS proofs about NbdDaemon, for any sets of requests and dispatcher   *)
(* threads.  IInv is the inductive invariant: the life of the threads, the *)
(* removal of the disk, the requests in the dispatchers' hands, what is    *)
(* known of each request, and the frame that is open.                      *)
(***************************************************************************)
EXTENDS NbdDaemon, TLAPS

\* Where each thread is, and that only a thread that asked for it is in Shutdown.
Life ==
  /\ mainPc = "connect" => workerPc = "none"
  /\ mainPc \in {"connect", "create", "mapped", "start"} =>
       \A d \in Dispatchers : dispatcherPc[d] = "none"
  /\ mainPc = "closed" => workerPc \in {"none", "done"}
  /\ shutdownPc[Worker] # "no" => workerPc = "stopping"
  /\ shutdownPc[Main] # "no" => mainPc \in {"failed", "destroy"}
  /\ \A d \in Dispatchers : shutdownPc[d] # "no" => dispatcherPc[d] = "shutdown"

\* Once the main thread passed a wait, the dispatcher threads it could wait for
\* have ended.
Waited == mainPc \in {"failed", "destroy", "join", "closed"} => WnbdWaitDispatcher

\* Shutdown passes its removal of the disk only if the disk is gone or did not
\* exist when it looked; the destructor returns only after that.
Removal ==
  /\ mainPc \in {"connect", "create"} => disk = "none"
  /\ WnbdDisk => mainPc \notin {"connect", "create", "mapped"}
  /\ \A t \in Threads :
       /\ shutdownPc[t] = "remove" => WnbdDisk
       /\ shutdownPc[t] \in {"terminate", "goodbye", "close"} => early \/ disk = "gone"
       /\ shutdownPc[t] \in {"goodbye", "close"} => Terminated
  /\ Terminated => early \/ disk = "gone"
  /\ mainPc \in {"join", "closed"} \/ (mainPc = "destroy" /\ shutdownPc[Main] = "no") =>
       Terminated \/ removeFailed

\* One thread at a time is past ShutdownLock, and it closes the socket of a
\* terminated daemon before it lets another one in.
InShutdown(t) == shutdownPc[t] \notin {"no", "lock"}
Locked ==
  /\ \A t, u \in Threads : InShutdown(t) /\ InShutdown(u) => t = u
  /\ Terminated /\ socket = "open" =>
       \E t \in Threads : shutdownPc[t] \in {"goodbye", "close"}
  /\ Terminated => mainPc # "connect"
  /\ mainPc \in {"join", "closed"} \/ (mainPc = "destroy" /\ shutdownPc[Main] = "no") =>
       socket = "closed" \/ removeFailed

\* A dispatcher handles a request of its own, which was not sent yet.
Hands ==
  \A d \in Dispatchers :
    /\ dispatching[d] # NoRequest <=> dispatcherPc[d] \in {"insert", "send", "payload"}
    /\ dispatching[d] # NoRequest => dispatching[d] \in fetched \ (sent \cup Unsupported)
    /\ \A e \in Dispatchers : dispatching[d] # NoRequest /\ dispatching[d] = dispatching[e] => d = e

\* A request is fetched, noted, sent, served and answered in this order.
Order ==
  /\ served \subseteq sent /\ sent \subseteq fetched \ Unsupported
  /\ replies \subseteq served
  /\ PendingRequests \subseteq fetched \ Unsupported
  /\ SentIsPending
  /\ \A d \in Dispatchers :
       dispatcherPc[d] \in {"send", "payload"} => dispatching[d] \in PendingRequests
  /\ workerPc = "responding" => replied \in served \ PendingRequests /\ answers[replied] = 0
  /\ \A h \in Requests :
       /\ answers[h] \in {0, 1}
       /\ answers[h] = 1 => /\ h \in fetched \ PendingRequests
                            /\ h \notin Unsupported => h \in served

\* One thread at most is inside a frame, and a frame nobody is inside of belongs
\* to a connection that is lost.
Frames ==
  /\ mainPc = "connect" => openFrame = NoRequest
  /\ \A d, e \in Dispatchers : dispatcherPc[d] = "payload" /\ dispatcherPc[e] = "payload" => d = e
  /\ openFrame # NoRequest /\ Connected => ~SendLockFree
  /\ FramesIntact

IInv == TypeOK /\ Life /\ Waited /\ Removal /\ Locked /\ Hands /\ Order /\ Frames

-----------------------------------------------------------------------------
\* Every step keeps the types.
LEMMA TypeStep ==
  ASSUME TypeOK, Hands, Order, [Next]_vars
  PROVE  TypeOK'
<1> USE DaemonAssumption DEF TypeOK
<1> USE DEF Fails, CallShutdown, MainUnchanged, ShutdownGoes, ShutdownUnchanged, DispatcherGoes,
            DispatchUnchanged, WorkerUnchanged, WorkerFails, ServerUnchanged,
            threadVars, endVars, requestVars, replyVars, historyVars, diskVars, socketVars
<1>1. ASSUME MainSteps PROVE TypeOK'
  <2> USE <1>1 DEF MainSteps, Connect, ConnectFails, CreateDisk, CreateFails, CreateReturns,
        WnbdStartDispatcher, StartDispatcherFails, StartFailed, Destroy, DestroyWaited, Close
  <2>1. ThreadTypes'
    BY DEF ThreadTypes, Threads
  <2>2. FlagTypes'
    <3>1. /\ disk' \in {"none", "mapped", "gone"} /\ socket' \in {"open", "closed"}
          /\ connection' = connection /\ failures' \in 0..MaxFailures
      BY DEF FlagTypes
    <3>2. UNCHANGED <<Stopped, Terminated, TerminateInProgress, torn, early>>
      OBVIOUS
    <3>3. /\ WnbdDisk' \in {WnbdDisk, TRUE} /\ Started' \in {Started, TRUE}
          /\ Stopping' \in {Stopping, TRUE} /\ removeFailed' \in {removeFailed, TRUE}
      OBVIOUS
    <3> QED
      BY ONLY TypeOK, <3>1, <3>2, <3>3 DEF FlagTypes
  <2>3. RequestTypes'
    BY DEF RequestTypes
  <2> QED
    BY <2>1, <2>2, <2>3
<1>2. ASSUME NEW t \in Threads, ShutdownSteps(t) \/ ShutdownGoodbye(t) PROVE TypeOK'
  <2> USE <1>2 DEF ShutdownSteps, ShutdownLock, ShutdownRemove, ShutdownRemoveFails,
        ShutdownTerminate, ShutdownGoodbye, ShutdownClose
  <2>1. ThreadTypes'
    BY DEF ThreadTypes
  <2>2. FlagTypes'
    <3>1. /\ disk' \in {"none", "mapped", "gone"} /\ socket' \in {"open", "closed"}
          /\ connection' = connection /\ failures' \in 0..MaxFailures
      BY DEF FlagTypes
    <3>2. UNCHANGED <<WnbdDisk, Started, Stopped, Stopping, torn>>
      OBVIOUS
    <3>3. /\ Terminated' \in {Terminated, TRUE} /\ TerminateInProgress' \in {TerminateInProgress, TRUE}
          /\ removeFailed' \in {removeFailed, TRUE}
      OBVIOUS
    <3>4. early' = early \/ early' = (early \/ ~WnbdDisk)
      OBVIOUS
    <3>5. early' \in BOOLEAN
      BY ONLY TypeOK, <3>4 DEF FlagTypes
    <3> QED
      BY ONLY TypeOK, <3>1, <3>2, <3>3, <3>5 DEF FlagTypes
  <2>3. RequestTypes'
    BY DEF RequestTypes
  <2> QED
    BY <2>1, <2>2, <2>3
<1>3. ASSUME NEW d \in Dispatchers,
             Fetch(d) \/ FetchUnsupported(d) \/ FetchFails(d) \/ DispatcherSteps(d)
               \/ SendSteps(d)
      PROVE  TypeOK'
  <2> USE <1>3 DEF Fetch, FetchUnsupported, FetchFails, DispatcherSteps, SendSteps, LeaveLoop,
        FetchDisconnect, WnbdStopDispatcher, InsertPending, SendHeader, SendPayload, SendFails,
        SendFailed
  <2>1. ThreadTypes'
    BY DEF ThreadTypes, Threads
  <2>2. FlagTypes'
    <3>1. /\ disk' \in {"none", "mapped", "gone"} /\ UNCHANGED <<socket, connection>>
          /\ failures' \in 0..MaxFailures
      BY DEF FlagTypes
    <3>2. UNCHANGED <<WnbdDisk, Started, Terminated, TerminateInProgress, early>>
      OBVIOUS
    <3>3. /\ Stopped' \in {Stopped, TRUE} /\ Stopping' \in {Stopping, TRUE}
          /\ removeFailed' \in {removeFailed, TRUE}
      OBVIOUS
    <3>4. torn' = torn \/ torn' = (torn \/ (connection = "open" /\ openFrame # NoRequest))
      OBVIOUS
    <3>5. torn' \in BOOLEAN
      BY ONLY TypeOK, <3>4 DEF FlagTypes
    <3> QED
      BY ONLY TypeOK, <3>1, <3>2, <3>3, <3>5 DEF FlagTypes
  <2>3. dispatcherPc[d] \in {"insert", "send", "payload"} => dispatching[d] \in Requests
    BY DEF Hands, RequestTypes
  <2>4. RequestTypes'
    BY <2>3 DEF RequestTypes, Handles
  <2> QED
    BY <2>1, <2>2, <2>4
<1>4. ASSUME WorkerSteps \/ WorkerEventFails \/ WorkerReadMadeUp PROVE TypeOK'
  <2> USE <1>4 DEF WorkerSteps, WorkerLoop, WorkerEventFails, WorkerRead, WorkerReadFails,
        WorkerReadMadeUp, WorkerRespond, WorkerEnds
  <2>1. ThreadTypes'
    BY DEF ThreadTypes, Threads
  <2>2. FlagTypes'
    BY DEF FlagTypes
  <2>3. workerPc = "responding" => replied \in Requests
    BY DEF Order, RequestTypes
  <2>4. RequestTypes'
    BY <2>3 DEF RequestTypes, Handles
  <2> QED
    BY <2>1, <2>2, <2>4
<1>5. ASSUME ServerReplies \/ ServerCloses \/ UnmappedByOther PROVE TypeOK'
  BY <1>5 DEF ServerReplies, ServerCloses, UnmappedByOther, ThreadTypes,
              FlagTypes, RequestTypes, Handles
<1>6. ASSUME UNCHANGED vars PROVE TypeOK'
  BY <1>6 DEF vars, ThreadTypes, FlagTypes, RequestTypes
<1> QED
  BY <1>1, <1>2, <1>3, <1>4, <1>5, <1>6 DEF Next

\* A thread in Shutdown stays where it called it until the call returns, and the
\* destructor waits for the dispatchers and joins the worker.
LEMMA LifeStep ==
  ASSUME TypeOK, Life, [Next]_vars
  PROVE  Life'
<1> USE DaemonAssumption DEF TypeOK, ThreadTypes, Threads, Life
<1> USE DEF CallShutdown, ShutdownGoes, ShutdownUnchanged, DispatcherGoes,
            DispatchUnchanged, WorkerUnchanged, WorkerFails, ServerUnchanged, threadVars
<1>1. ASSUME MainSteps PROVE Life'
  BY <1>1 DEF MainSteps, Connect, ConnectFails, CreateDisk, CreateFails, CreateReturns,
        WnbdStartDispatcher, StartDispatcherFails, StartFailed, Destroy, DestroyWaited, Close
<1>2. ASSUME NEW t \in Threads, ShutdownSteps(t) \/ ShutdownGoodbye(t) PROVE Life'
  BY <1>2 DEF ShutdownSteps, ShutdownLock, ShutdownRemove, ShutdownRemoveFails,
        ShutdownTerminate, ShutdownGoodbye, ShutdownClose
<1>3. ASSUME NEW d \in Dispatchers,
             Fetch(d) \/ FetchUnsupported(d) \/ FetchFails(d) \/ DispatcherSteps(d)
               \/ SendSteps(d)
      PROVE  Life'
  <2>1. UNCHANGED <<mainPc, workerPc>>
    BY <1>3 DEF Fetch, FetchUnsupported, FetchFails, DispatcherSteps, SendSteps, LeaveLoop,
        FetchDisconnect, WnbdStopDispatcher, InsertPending, SendHeader, SendPayload, SendFails,
        SendFailed
  <2>2. dispatcherPc[d] \notin {"none", "done"}
    BY <1>3 DEF Fetch, FetchUnsupported, FetchFails, DispatcherSteps, SendSteps, LeaveLoop,
        FetchDisconnect, WnbdStopDispatcher, InsertPending, SendHeader, SendPayload, SendFails,
        SendFailed
  <2>3. \/ dispatcherPc' = dispatcherPc
        \/ \E pc \in {"loop", "insert", "send", "payload", "shutdown", "stop", "done"} :
             dispatcherPc' = [dispatcherPc EXCEPT ![d] = pc]
    BY <1>3 DEF Fetch, FetchUnsupported, FetchFails, DispatcherSteps, SendSteps, LeaveLoop,
        FetchDisconnect, WnbdStopDispatcher, InsertPending, SendHeader, SendPayload, SendFails,
        SendFailed
  <2>4. \/ UNCHANGED shutdownPc /\ (dispatcherPc' = dispatcherPc \/ shutdownPc[d] = "no")
        \/ /\ shutdownPc' = [shutdownPc EXCEPT ![d] = "lock"]
           /\ dispatcherPc' = [dispatcherPc EXCEPT ![d] = "shutdown"]
    BY <1>3 DEF Fetch, FetchUnsupported, FetchFails, DispatcherSteps, SendSteps, LeaveLoop,
        FetchDisconnect, WnbdStopDispatcher, InsertPending, SendHeader, SendPayload, SendFails,
        SendFailed
  <2> QED
    BY ONLY TypeOK, Life, DaemonAssumption, <2>1, <2>2, <2>3, <2>4
<1>4. ASSUME WorkerSteps \/ WorkerEventFails \/ WorkerReadMadeUp PROVE Life'
  BY <1>4 DEF WorkerSteps, WorkerLoop, WorkerEventFails, WorkerRead, WorkerReadFails,
        WorkerReadMadeUp, WorkerRespond, WorkerEnds
<1>5. ASSUME ServerReplies \/ ServerCloses \/ UnmappedByOther PROVE Life'
  BY <1>5 DEF ServerReplies, ServerCloses, UnmappedByOther
<1>6. ASSUME UNCHANGED vars PROVE Life'
  BY <1>6 DEF vars
<1> QED
  BY <1>1, <1>2, <1>3, <1>4, <1>5, <1>6 DEF Next

\* The main thread passes a wait only when it may, and a dispatcher thread that is
\* done stays so.
LEMMA WaitedStep ==
  ASSUME TypeOK, Life, Waited, [Next]_vars
  PROVE  Waited'
<1> USE DEF Waited
<1>1. ASSUME UNCHANGED dispatcherPc PROVE WnbdWaitDispatcher' <=> WnbdWaitDispatcher
  BY <1>1 DEF WnbdWaitDispatcher, CanWait, Created, DispatchersDone
<1>2. ASSUME UNCHANGED <<mainPc, dispatcherPc>> PROVE Waited'
  BY <1>1, <1>2
<1>3. ASSUME MainSteps PROVE Waited'
  <2>1. CASE ConnectFails \/ CreateFails
    <3>1. UNCHANGED dispatcherPc /\ \A d \in Dispatchers : dispatcherPc[d] = "none"
      BY <2>1 DEF ConnectFails, CreateFails, Life
    <3> QED
      BY <3>1, <1>1 DEF WnbdWaitDispatcher, DispatchersDone
  <2>2. CASE StartFailed \/ Destroy \/ DestroyWaited
    BY <1>1, <2>2 DEF StartFailed, Destroy, DestroyWaited
  <2>3. CASE Close
    BY <1>1, <2>3 DEF Close
  <2>4. CASE Connect \/ CreateDisk \/ CreateReturns \/ WnbdStartDispatcher \/ StartDispatcherFails
    BY <2>4 DEF Connect, CreateDisk, CreateReturns, WnbdStartDispatcher, StartDispatcherFails
  <2> QED
    BY <1>3, <2>1, <2>2, <2>3, <2>4 DEF MainSteps
<1>4. ASSUME NEW t \in Threads, ShutdownSteps(t) \/ ShutdownGoodbye(t) PROVE Waited'
  BY <1>2, <1>4 DEF ShutdownSteps, ShutdownLock, ShutdownRemove, ShutdownRemoveFails,
        ShutdownTerminate, ShutdownGoodbye, ShutdownClose, ShutdownUnchanged
<1>5. ASSUME NEW d \in Dispatchers,
             Fetch(d) \/ FetchUnsupported(d) \/ FetchFails(d) \/ DispatcherSteps(d)
               \/ SendSteps(d)
      PROVE  Waited'
  <2> USE DEF DispatchUnchanged, DispatcherGoes
  <2>1. UNCHANGED mainPc /\ dispatcherPc[d] \notin {"none", "done"}
    BY <1>5 DEF Fetch, FetchUnsupported, FetchFails, DispatcherSteps, SendSteps, LeaveLoop,
        FetchDisconnect, WnbdStopDispatcher, InsertPending, SendHeader, SendPayload, SendFails,
        SendFailed
  <2>2. \/ dispatcherPc' = dispatcherPc
        \/ \E pc \in {"loop", "insert", "send", "payload", "shutdown", "stop", "done"} :
             dispatcherPc' = [dispatcherPc EXCEPT ![d] = pc]
    BY <1>5 DEF Fetch, FetchUnsupported, FetchFails, DispatcherSteps, SendSteps, LeaveLoop,
        FetchDisconnect, WnbdStopDispatcher, InsertPending, SendHeader, SendPayload, SendFails,
        SendFailed
  <2>3. Created' = Created
    BY <2>1, <2>2 DEF Created, TypeOK, ThreadTypes
  <2>4. WnbdWaitDispatcher => ~CanWait
    BY <2>1 DEF WnbdWaitDispatcher, DispatchersDone
  <2>5. CanWait' <=> CanWait
    BY <2>3 DEF CanWait
  <2> QED
    BY <2>1, <2>4, <2>5 DEF WnbdWaitDispatcher
<1>6. ASSUME WorkerSteps \/ WorkerEventFails \/ WorkerReadMadeUp PROVE Waited'
  BY <1>2, <1>6 DEF WorkerSteps, WorkerLoop, WorkerEventFails, WorkerRead, WorkerReadFails,
        WorkerReadMadeUp, WorkerRespond, WorkerEnds, WorkerUnchanged
<1>7. ASSUME ServerReplies \/ ServerCloses \/ UnmappedByOther PROVE Waited'
  BY <1>2, <1>7 DEF ServerReplies, ServerCloses, UnmappedByOther, ServerUnchanged, threadVars
<1>8. ASSUME UNCHANGED vars PROVE Waited'
  BY <1>2, <1>8 DEF vars, threadVars
<1> QED
  BY <1>3, <1>4, <1>5, <1>6, <1>7, <1>8 DEF Next

\* Shutdown removes the disk before it sets Terminated, and the destructor does
\* not pass it unless Terminated is set or the removal failed.
LEMMA RemovalStep ==
  ASSUME TypeOK, Life, Removal, [Next]_vars
  PROVE  Removal'
<1> USE DaemonAssumption DEF TypeOK, ThreadTypes, FlagTypes, Threads, Removal
<1> USE DEF CallShutdown, MainUnchanged, ShutdownGoes, ShutdownUnchanged, DispatchUnchanged,
            WorkerUnchanged, WorkerFails, ServerUnchanged, threadVars, endVars, historyVars, diskVars
<1>1. ASSUME MainSteps PROVE Removal'
  BY <1>1 DEF MainSteps, Connect, ConnectFails, CreateDisk, CreateFails, CreateReturns,
        WnbdStartDispatcher, StartDispatcherFails, StartFailed, Destroy, DestroyWaited, Close, Life
<1>2. ASSUME NEW t \in Threads, ShutdownSteps(t) \/ ShutdownGoodbye(t) PROVE Removal'
  <2>1. CASE ShutdownLock(t)
    BY <2>1 DEF ShutdownLock
  <2>2. CASE ShutdownRemove(t)
    BY <2>2 DEF ShutdownRemove
  <2>3. CASE ShutdownRemoveFails(t)
    BY <2>3 DEF ShutdownRemoveFails
  <2>4. CASE ShutdownTerminate(t)
    BY <2>4 DEF ShutdownTerminate
  <2>5. CASE ShutdownGoodbye(t) \/ ShutdownClose(t)
    BY <2>5 DEF ShutdownGoodbye, ShutdownClose
  <2> QED
    BY <1>2, <2>1, <2>2, <2>3, <2>4, <2>5 DEF ShutdownSteps
<1>3. ASSUME NEW d \in Dispatchers,
             Fetch(d) \/ FetchUnsupported(d) \/ FetchFails(d) \/ DispatcherSteps(d)
               \/ SendSteps(d)
      PROVE  Removal'
  <2>1. CASE SendFails(d)
    BY <2>1 DEF SendFails
  <2>2. CASE WnbdStopDispatcher(d)
    BY <2>2 DEF WnbdStopDispatcher, Life
  <2>3. CASE ~SendFails(d) /\ ~WnbdStopDispatcher(d)
    BY <1>3, <2>3 DEF Fetch, FetchUnsupported, FetchFails, DispatcherSteps, SendSteps, LeaveLoop,
        FetchDisconnect, InsertPending, SendHeader, SendPayload, SendFailed
  <2> QED
    BY <2>1, <2>2, <2>3
<1>4. ASSUME WorkerSteps \/ WorkerEventFails \/ WorkerReadMadeUp PROVE Removal'
  <2>1. \/ UNCHANGED shutdownPc
        \/ shutdownPc' = [shutdownPc EXCEPT ![Worker] = "lock"] /\ workerPc # "stopping"
    BY <1>4 DEF WorkerSteps, WorkerLoop, WorkerEventFails, WorkerRead, WorkerReadFails,
        WorkerReadMadeUp, WorkerRespond, WorkerEnds, WorkerFails, CallShutdown
  <2>2. UNCHANGED <<mainPc, disk, WnbdDisk, Terminated, socket, removeFailed, early>>
    BY <1>4 DEF WorkerSteps, WorkerLoop, WorkerEventFails, WorkerRead, WorkerReadFails,
        WorkerReadMadeUp, WorkerRespond, WorkerEnds, WorkerUnchanged, diskVars, endVars, socketVars, historyVars
  <2> QED
    BY ONLY TypeOK, Removal, DaemonAssumption, <2>1, <2>2 DEF TypeOK, ThreadTypes, Threads, Removal
<1>5. ASSUME ServerReplies \/ ServerCloses \/ UnmappedByOther PROVE Removal'
  BY <1>5 DEF ServerReplies, ServerCloses, UnmappedByOther
<1>6. ASSUME UNCHANGED vars PROVE Removal'
  BY <1>6 DEF vars
<1> QED
  BY <1>1, <1>2, <1>3, <1>4, <1>5, <1>6 DEF Next

\* Shutdown runs under ShutdownLock from its test of Terminated to the closing of
\* the socket.
LEMMA LockedStep ==
  ASSUME TypeOK, Life, Removal, Locked, [Next]_vars
  PROVE  Locked'
<1> USE DaemonAssumption DEF TypeOK, ThreadTypes, FlagTypes, Threads, Locked, InShutdown
<1>1. ASSUME UNCHANGED <<mainPc, Terminated, socket, removeFailed>>,
             \A t \in Threads : \/ shutdownPc'[t] = shutdownPc[t]
                                \/ shutdownPc'[t] = "lock" /\ shutdownPc[t] = "no"
      PROVE  Locked'
  BY <1>1
<1>2. ASSUME MainSteps PROVE Locked'
  BY <1>2 DEF MainSteps, Connect, ConnectFails, CreateDisk, CreateFails, CreateReturns,
        WnbdStartDispatcher, StartDispatcherFails, StartFailed, Destroy, DestroyWaited, Close,
        CallShutdown, MainUnchanged, endVars, historyVars, Life
<1>3. ASSUME NEW t \in Threads, ShutdownSteps(t) \/ ShutdownGoodbye(t) PROVE Locked'
  <2> USE DEF ShutdownGoes, ShutdownUnchanged, endVars, historyVars
  <2>1. CASE ShutdownLock(t)
    <3>1. \A u \in Threads : ~InShutdown(u)
      BY <2>1 DEF ShutdownLock, Holding
    <3>2. \E pc \in {"no", "remove", "terminate"} :
            /\ shutdownPc' = [shutdownPc EXCEPT ![t] = pc]
            /\ pc = "no" <=> Terminated
      BY <2>1 DEF ShutdownLock
    <3>3. UNCHANGED <<mainPc, Terminated, socket, removeFailed>>
      BY <2>1 DEF ShutdownLock
    <3>4. Terminated => socket = "closed"
      BY <3>1
    <3> QED
      BY <3>1, <3>2, <3>3, <3>4 DEF Life
  <2>2. CASE ShutdownRemove(t)
    BY <2>2 DEF ShutdownRemove, Removal
  <2>3. CASE ShutdownRemoveFails(t)
    BY <2>3 DEF ShutdownRemoveFails
  <2>4. CASE ShutdownTerminate(t)
    BY <2>4 DEF ShutdownTerminate, Life
  <2>5. CASE ShutdownGoodbye(t)
    BY <2>5 DEF ShutdownGoodbye
  <2>6. CASE ShutdownClose(t)
    BY <2>6 DEF ShutdownClose, Removal
  <2> QED
    BY <1>3, <2>1, <2>2, <2>3, <2>4, <2>5, <2>6 DEF ShutdownSteps
<1>4. ASSUME NEW d \in Dispatchers,
             Fetch(d) \/ FetchUnsupported(d) \/ FetchFails(d) \/ DispatcherSteps(d)
               \/ SendSteps(d)
      PROVE  Locked'
  <2> USE DEF DispatchUnchanged, endVars
  <2>1. CASE SendFails(d)
    BY <1>1, <2>1 DEF SendFails, CallShutdown, Life
  <2>2. CASE WnbdStopDispatcher(d)
    BY <2>2 DEF WnbdStopDispatcher
  <2>3. CASE ~SendFails(d) /\ ~WnbdStopDispatcher(d)
    BY <1>1, <1>4, <2>3 DEF Fetch, FetchUnsupported, FetchFails, DispatcherSteps, SendSteps,
        LeaveLoop, FetchDisconnect, InsertPending, SendHeader, SendPayload, SendFailed
  <2> QED
    BY <2>1, <2>2, <2>3
<1>5. ASSUME WorkerSteps \/ WorkerEventFails \/ WorkerReadMadeUp PROVE Locked'
  <2>1. \/ UNCHANGED shutdownPc
        \/ shutdownPc' = [shutdownPc EXCEPT ![Worker] = "lock"] /\ workerPc # "stopping"
    BY <1>5 DEF WorkerSteps, WorkerLoop, WorkerEventFails, WorkerRead, WorkerReadFails,
        WorkerReadMadeUp, WorkerRespond, WorkerEnds, WorkerFails, CallShutdown
  <2>2. UNCHANGED <<mainPc, disk, WnbdDisk, Terminated, socket, removeFailed, early>>
    BY <1>5 DEF WorkerSteps, WorkerLoop, WorkerEventFails, WorkerRead, WorkerReadFails,
        WorkerReadMadeUp, WorkerRespond, WorkerEnds, WorkerUnchanged, diskVars, endVars, socketVars, historyVars
  <2>3. \A t \in Threads : \/ shutdownPc'[t] = shutdownPc[t]
                           \/ shutdownPc'[t] = "lock" /\ shutdownPc[t] = "no"
    BY ONLY TypeOK, Life, DaemonAssumption, <2>1 DEF TypeOK, ThreadTypes, Threads, Life
  <2> QED
    BY <1>1, <2>2, <2>3
<1>6. ASSUME ServerReplies \/ ServerCloses \/ UnmappedByOther PROVE Locked'
  BY <1>1, <1>6 DEF ServerReplies, ServerCloses, UnmappedByOther, ServerUnchanged, threadVars,
        endVars, historyVars
<1>7. ASSUME UNCHANGED vars PROVE Locked'
  BY <1>1, <1>7 DEF vars, threadVars, endVars, socketVars, historyVars
<1> QED
  BY <1>2, <1>3, <1>4, <1>5, <1>6, <1>7 DEF Next

\* A dispatcher takes a request nobody was given and lets go of it when it is sent.
LEMMA HandsStep ==
  ASSUME TypeOK, Life, Hands, Order, [Next]_vars
  PROVE  Hands'
<1> USE DaemonAssumption DEF TypeOK, ThreadTypes, RequestTypes, Handles, Hands
<1>1. ASSUME UNCHANGED <<dispatcherPc, dispatching, sent>>, fetched \subseteq fetched'
      PROVE  Hands'
  BY <1>1
<1>2. ASSUME MainSteps PROVE Hands'
  <2>1. UNCHANGED <<dispatching, fetched, sent>>
    BY <1>2 DEF MainSteps, Connect, ConnectFails, CreateDisk, CreateFails, CreateReturns,
        WnbdStartDispatcher, StartDispatcherFails, StartFailed, Destroy, DestroyWaited, Close,
        MainUnchanged, requestVars
  <2>2. \A d \in Dispatchers :
          dispatcherPc'[d] # dispatcherPc[d] => dispatcherPc[d] = "none" /\ dispatcherPc'[d] = "loop"
    BY <1>2 DEF MainSteps, Connect, ConnectFails, CreateDisk, CreateFails, CreateReturns,
        WnbdStartDispatcher, StartDispatcherFails, StartFailed, Destroy, DestroyWaited, Close, Life
  <2> QED
    BY <2>1, <2>2
<1>3. ASSUME NEW t \in Threads, ShutdownSteps(t) \/ ShutdownGoodbye(t) PROVE Hands'
  <2>1. UNCHANGED <<dispatcherPc, dispatching, sent, fetched>>
    BY <1>3 DEF ShutdownSteps, ShutdownLock, ShutdownRemove, ShutdownRemoveFails,
        ShutdownTerminate, ShutdownGoodbye, ShutdownClose, ShutdownUnchanged, requestVars
  <2> QED
    BY <1>1, <2>1
<1>4. ASSUME NEW d \in Dispatchers,
             Fetch(d) \/ FetchUnsupported(d) \/ FetchFails(d) \/ DispatcherSteps(d)
               \/ SendSteps(d)
      PROVE  Hands'
  <2> USE DEF DispatcherGoes, requestVars
  <2>1. CASE Fetch(d)
    <3>1. PICK h \in Requests \ (fetched \cup Unsupported) :
            fetched' = fetched \cup {h} /\ dispatching' = [dispatching EXCEPT ![d] = h]
      BY <2>1 DEF Fetch
    <3>2. h # NoRequest /\ h \notin sent /\ \A e \in Dispatchers : dispatching[e] # h
      BY <3>1 DEF Order
    <3> QED
      BY <2>1, <3>1, <3>2 DEF Fetch
  <2>2. CASE FetchUnsupported(d)
    BY <1>1, <2>2 DEF FetchUnsupported
  <2>3. CASE FetchFails(d) \/ LeaveLoop(d) \/ FetchDisconnect(d) \/ SendFailed(d) \/ WnbdStopDispatcher(d)
    BY <2>3 DEF FetchFails, LeaveLoop, FetchDisconnect, SendFailed, WnbdStopDispatcher
  <2>4. CASE InsertPending(d)
    BY <2>4 DEF InsertPending
  <2>5. CASE SendHeader(d)
    <3>1. CASE dispatching[d] \in Writes
      BY <2>5, <3>1 DEF SendHeader
    <3>2. CASE dispatching[d] \notin Writes
      BY <2>5, <3>2 DEF SendHeader
    <3> QED
      BY <3>1, <3>2
  <2>6. CASE SendPayload(d)
    BY <2>6 DEF SendPayload
  <2>7. CASE SendFails(d)
    BY <2>7 DEF SendFails
  <2> QED
    BY <1>4, <2>1, <2>2, <2>3, <2>4, <2>5, <2>6, <2>7 DEF DispatcherSteps, SendSteps
<1>5. ASSUME WorkerSteps \/ WorkerEventFails \/ WorkerReadMadeUp PROVE Hands'
  BY <1>1, <1>5 DEF WorkerSteps, WorkerLoop, WorkerEventFails, WorkerRead, WorkerReadFails,
        WorkerReadMadeUp, WorkerRespond, WorkerEnds, WorkerUnchanged, socketVars
<1>6. ASSUME ServerReplies \/ ServerCloses \/ UnmappedByOther PROVE Hands'
  BY <1>1, <1>6 DEF ServerReplies, ServerCloses, UnmappedByOther,
        ServerUnchanged, threadVars, requestVars
<1>7. ASSUME UNCHANGED vars PROVE Hands'
  BY <1>1, <1>7 DEF vars, threadVars, requestVars, socketVars
<1> QED
  BY <1>2, <1>3, <1>4, <1>5, <1>6, <1>7 DEF Next

\* A request is noted before it is sent, taken out when its reply is read, and
\* answered only then.
LEMMA OrderStep ==
  ASSUME TypeOK, Life, Hands, Order, [Next]_vars
  PROVE  Order'
<1> USE DaemonAssumption DEF TypeOK, ThreadTypes, RequestTypes, Handles, Order, SentIsPending
<1>1. ASSUME UNCHANGED <<fetched, sent, served, replies, PendingRequests, dispatching, replied, answers>>,
             workerPc' = "responding" => workerPc = "responding",
             \A d \in Dispatchers : dispatcherPc'[d] \in {"send", "payload"} =>
                                      dispatcherPc[d] \in {"send", "payload"}
      PROVE  Order'
  BY <1>1
<1>2. ASSUME MainSteps PROVE Order'
  <2>1. UNCHANGED <<fetched, sent, served, replies, PendingRequests, dispatching, replied, answers>>
    BY <1>2 DEF MainSteps, Connect, ConnectFails, CreateDisk, CreateFails, CreateReturns,
        WnbdStartDispatcher, StartDispatcherFails, StartFailed, Destroy, DestroyWaited, Close,
        MainUnchanged, requestVars, replyVars
  <2>2. /\ workerPc' = "responding" => workerPc = "responding"
        /\ \A d \in Dispatchers : dispatcherPc'[d] \in {dispatcherPc[d], "none", "loop"}
    BY <1>2 DEF MainSteps, Connect, ConnectFails, CreateDisk, CreateFails, CreateReturns,
        WnbdStartDispatcher, StartDispatcherFails, StartFailed, Destroy, DestroyWaited, Close
  <2> QED
    BY <1>1, <2>1, <2>2
<1>3. ASSUME NEW t \in Threads, ShutdownSteps(t) \/ ShutdownGoodbye(t) PROVE Order'
  BY <1>1, <1>3 DEF ShutdownSteps, ShutdownLock, ShutdownRemove, ShutdownRemoveFails,
        ShutdownTerminate, ShutdownGoodbye, ShutdownClose, ShutdownUnchanged, requestVars, replyVars
<1>4. ASSUME NEW d \in Dispatchers,
             Fetch(d) \/ FetchUnsupported(d) \/ FetchFails(d) \/ DispatcherSteps(d)
               \/ SendSteps(d)
      PROVE  Order'
  <2> USE DEF DispatcherGoes, DispatchUnchanged, requestVars, replyVars
  <2>1. CASE Fetch(d)
    BY <2>1 DEF Fetch
  <2>2. CASE FetchUnsupported(d)
    BY <2>2 DEF FetchUnsupported
  <2>3. CASE FetchFails(d) \/ LeaveLoop(d) \/ FetchDisconnect(d) \/ SendFailed(d) \/ WnbdStopDispatcher(d)
    BY <1>1, <2>3 DEF FetchFails, LeaveLoop, FetchDisconnect, SendFailed, WnbdStopDispatcher
  <2>4. CASE InsertPending(d)
    BY <2>4 DEF InsertPending, Hands
  <2>5. CASE SendHeader(d)
    BY <2>5 DEF SendHeader, Hands
  <2>6. CASE SendPayload(d)
    BY <2>6 DEF SendPayload, Hands
  <2>7. CASE SendFails(d)
    BY <2>7 DEF SendFails
  <2> QED
    BY <1>4, <2>1, <2>2, <2>3, <2>4, <2>5, <2>6, <2>7 DEF DispatcherSteps, SendSteps
<1>5. ASSUME WorkerSteps \/ WorkerEventFails \/ WorkerReadMadeUp PROVE Order'
  <2> USE DEF WorkerUnchanged, WorkerFails, socketVars
  <2>1. CASE WorkerLoop \/ WorkerEventFails \/ WorkerEnds
    BY <1>1, <2>1 DEF WorkerLoop, WorkerEventFails, WorkerEnds
  <2>2. CASE WorkerRead
    <3>1. PICK h \in replies \cap PendingRequests :
            replies' = replies \ {h} /\ PendingRequests' = PendingRequests \ {h} /\ replied' = h
      BY <2>2 DEF WorkerRead
    <3>2. h \in served /\ answers[h] = 0
      BY <3>1
    <3>3. \A e \in Dispatchers :
            dispatcherPc[e] \in {"send", "payload"} => dispatching[e] \in PendingRequests \ {h}
      BY <3>1, <3>2 DEF Hands
    <3>4. UNCHANGED <<fetched, sent, served, answers, dispatching, dispatcherPc>>
      BY <2>2 DEF WorkerRead
    <3> QED
      BY <3>1, <3>2, <3>3, <3>4
  <2>3. CASE WorkerReadFails \/ WorkerReadMadeUp
    BY <2>3 DEF WorkerReadFails, WorkerReadMadeUp
  <2>4. CASE WorkerRespond
    BY <2>4 DEF WorkerRespond
  <2> QED
    BY <1>5, <2>1, <2>2, <2>3, <2>4 DEF WorkerSteps
<1>6. ASSUME ServerReplies \/ ServerCloses \/ UnmappedByOther PROVE Order'
  BY <1>6 DEF ServerReplies, ServerCloses, UnmappedByOther,
        ServerUnchanged, threadVars, requestVars
<1>7. ASSUME UNCHANGED vars PROVE Order'
  BY <1>1, <1>7 DEF vars, threadVars, requestVars, socketVars, replyVars
<1> QED
  BY <1>2, <1>3, <1>4, <1>5, <1>6, <1>7 DEF Next

\* A frame is begun under SendLock, which is kept until its payload is sent or the
\* connection is lost.
LEMMA FramesStep ==
  ASSUME TypeOK, Life, Hands, Order, Frames, [Next]_vars
  PROVE  Frames'
<1> USE DaemonAssumption DEF TypeOK, ThreadTypes, RequestTypes, FlagTypes, Handles, Frames,
        FramesIntact, SendLockFree, Connected
<1>1. ASSUME UNCHANGED <<openFrame, torn>>,
             socket' = "open" => socket = "open" \/ openFrame = NoRequest,
             connection' = "open" => connection = "open",
             mainPc' = "connect" => mainPc = "connect",
             \A d \in Dispatchers : dispatcherPc'[d] = "payload" <=> dispatcherPc[d] = "payload"
      PROVE  Frames'
  BY <1>1
<1>2. ASSUME MainSteps PROVE Frames'
  <2>1. /\ UNCHANGED <<openFrame, torn, connection>>
        /\ socket' = socket \/ mainPc = "connect"
        /\ mainPc' # "connect"
    BY <1>2 DEF MainSteps, Connect, ConnectFails, CreateDisk, CreateFails, CreateReturns,
        WnbdStartDispatcher, StartDispatcherFails, StartFailed, Destroy, DestroyWaited, Close,
        MainUnchanged
  <2>2. \A d \in Dispatchers :
          dispatcherPc'[d] # dispatcherPc[d] => dispatcherPc[d] = "none" /\ dispatcherPc'[d] = "loop"
    BY <1>2 DEF MainSteps, Connect, ConnectFails, CreateDisk, CreateFails, CreateReturns,
        WnbdStartDispatcher, StartDispatcherFails, StartFailed, Destroy, DestroyWaited, Close, Life
  <2> QED
    BY <1>1, <2>1, <2>2
<1>3. ASSUME NEW t \in Threads, ShutdownSteps(t) \/ ShutdownGoodbye(t) PROVE Frames'
  BY <1>1, <1>3 DEF ShutdownSteps, ShutdownLock, ShutdownRemove, ShutdownRemoveFails,
        ShutdownTerminate, ShutdownGoodbye, ShutdownClose, ShutdownUnchanged
<1>4. ASSUME NEW d \in Dispatchers,
             Fetch(d) \/ FetchUnsupported(d) \/ FetchFails(d) \/ DispatcherSteps(d)
               \/ SendSteps(d)
      PROVE  Frames'
  <2> USE DEF DispatcherGoes, DispatchUnchanged
  <2>1. mainPc # "connect" /\ mainPc' = mainPc
    BY <1>4 DEF Fetch, FetchUnsupported, FetchFails, DispatcherSteps, SendSteps, LeaveLoop,
        FetchDisconnect, WnbdStopDispatcher, InsertPending, SendHeader, SendPayload, SendFails,
        SendFailed, Life
  <2>2. CASE Fetch(d) \/ FetchUnsupported(d) \/ FetchFails(d) \/ LeaveLoop(d) \/ FetchDisconnect(d)
    BY <1>1, <2>2 DEF Fetch, FetchUnsupported, FetchFails, LeaveLoop, FetchDisconnect
  <2>3. CASE SendFailed(d) \/ WnbdStopDispatcher(d) \/ InsertPending(d)
    BY <1>1, <2>3 DEF SendFailed, WnbdStopDispatcher, InsertPending
  <2>4. CASE SendHeader(d)
    <3>1. ~torn'
      BY <2>4 DEF SendHeader
    <3>2. CASE dispatching[d] \in Writes
      BY <2>1, <2>4, <3>1, <3>2 DEF SendHeader
    <3>3. CASE dispatching[d] \notin Writes
      BY <2>1, <2>4, <3>1, <3>3 DEF SendHeader
    <3> QED
      BY <3>2, <3>3
  <2>5. CASE SendPayload(d)
    BY <2>1, <2>5 DEF SendPayload
  <2>6. CASE SendFails(d)
    BY <2>1, <2>6 DEF SendFails
  <2> QED
    BY <1>4, <2>2, <2>3, <2>4, <2>5, <2>6 DEF DispatcherSteps, SendSteps
<1>5. ASSUME WorkerSteps \/ WorkerEventFails \/ WorkerReadMadeUp PROVE Frames'
  BY <1>1, <1>5 DEF WorkerSteps, WorkerLoop, WorkerEventFails, WorkerRead, WorkerReadFails,
        WorkerReadMadeUp, WorkerRespond, WorkerEnds, WorkerUnchanged, socketVars
<1>6. ASSUME ServerReplies \/ ServerCloses \/ UnmappedByOther PROVE Frames'
  BY <1>1, <1>6 DEF ServerReplies, ServerCloses, UnmappedByOther,
        ServerUnchanged, threadVars
<1>7. ASSUME UNCHANGED vars PROVE Frames'
  BY <1>1, <1>7 DEF vars, threadVars, socketVars
<1> QED
  BY <1>2, <1>3, <1>4, <1>5, <1>6, <1>7 DEF Next

-----------------------------------------------------------------------------
\* IInv holds in every state of every behaviour of Spec.
LEMMA Invariance == Spec => []IInv
<1>1. Init => IInv
  <2> SUFFICES ASSUME Init PROVE IInv
    OBVIOUS
  <2> USE DaemonAssumption DEF Init, Threads
  <2>1. TypeOK
    <3>1. ThreadTypes /\ RequestTypes
      BY DEF ThreadTypes, RequestTypes, Handles
    <3>2. /\ disk \in {"none", "mapped", "gone"} /\ socket \in {"open", "closed"}
          /\ connection \in {"open", "closed"} /\ failures \in 0..MaxFailures
      OBVIOUS
    <3>3. /\ WnbdDisk \in BOOLEAN /\ Started \in BOOLEAN /\ Stopped \in BOOLEAN
          /\ Stopping \in BOOLEAN /\ Terminated \in BOOLEAN /\ TerminateInProgress \in BOOLEAN
          /\ torn \in BOOLEAN /\ removeFailed \in BOOLEAN /\ early \in BOOLEAN
      BY Zenon
    <3> QED
      BY ONLY <3>1, <3>2, <3>3 DEF TypeOK, FlagTypes
  <2>2. Life /\ Waited /\ Removal /\ Locked
    BY DEF Life, Waited, Removal, Locked, InShutdown
  <2>3. Hands /\ Order
    BY DEF Hands, Order, SentIsPending
  <2>4. Frames
    BY DEF Frames, FramesIntact, SendLockFree, Connected
  <2> QED
    BY <2>1, <2>2, <2>3, <2>4 DEF IInv
<1>2. IInv /\ [Next]_vars => IInv'
  BY TypeStep, LifeStep, WaitedStep, RemovalStep, LockedStep, HandsStep, OrderStep, FramesStep DEF IInv
<1> QED
  BY <1>1, <1>2, PTL DEF Spec

\* Every variable of the daemon keeps its type, whatever fails and whatever the
\* server sends: in particular nothing but handles of requests gets into
\* PendingRequests (ProcessNbdReply).
THEOREM TypeCorrect == Spec => []TypeOK
  BY Invariance, PTL DEF IInv

\* No frame is begun between the header and the payload of another one, for any
\* number of dispatcher threads (SendLock in NbdSendWrite and NbdRequest).
THEOREM NoTornFrames == Spec => []FramesIntact
  BY Invariance, PTL DEF IInv, Frames

\* A reply of the server never meets a request that is not in PendingRequests yet
\* (Read, Write, Flush, Unmap).
THEOREM NotedBeforeReply == Spec => []SentIsPending
  BY Invariance, PTL DEF IInv, Order

\* Every request gets at most one response, and only for a reply of the server or
\* because it is unsupported, whatever replies are repeated or made up
\* (ProcessNbdReply).
THEOREM OneAnswer == Spec => []AnsweredOnce
<1>1. IInv => AnsweredOnce
  BY DEF IInv, Order, AnsweredOnce
<1> QED
  BY <1>1, Invariance, PTL

\* The connection is closed before the disk is freed, and every thread that uses the
\* disk has ended by then, for any number of dispatcher threads that can be waited
\* for: up to MaximumWaitObjects, not up to the 255 WnbdStartDispatcher accepts
\* (~NbdDaemon, WnbdWaitDispatcher).
THEOREM QuietAtClose == Spec => []ClosedIsQuiet
<1>1. IInv => ClosedIsQuiet
  <2> SUFFICES ASSUME IInv, mainPc = "closed" PROVE ClosedIsQuiet
    BY DEF ClosedIsQuiet
  <2>1. CanWait => DispatchersDone
    BY DEF IInv, Waited, WnbdWaitDispatcher
  <2>2. DispatchersDone => \A d \in Dispatchers : shutdownPc[d] = "no"
    BY DEF IInv, Life, DispatchersDone
  <2>3. /\ workerPc \in {"none", "done"} /\ shutdownPc[Main] = "no" /\ shutdownPc[Worker] = "no"
        /\ removeFailed \/ socket = "closed"
    BY DEF IInv, Life, Locked
  <2> QED
    BY <2>1, <2>2, <2>3 DEF ClosedIsQuiet
<1> QED
  BY <1>1, Invariance, PTL

\* The daemon leaves no mapped disk behind, unless its removal failed or Shutdown
\* ran before the disk was known (Shutdown, TryStart).
THEOREM NothingOrphaned == Spec => []NoOrphanedDisk
<1>1. IInv => NoOrphanedDisk
  BY DEF IInv, TypeOK, FlagTypes, Removal, NoOrphanedDisk
<1> QED
  BY <1>1, Invariance, PTL
=============================================================================
