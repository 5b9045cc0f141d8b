------------------------------ MODULE NbdDaemon ------------------------------
(***************************************************************************)
(* The userspace side of one NBD mapping: class NbdDaemon                  *)
(* (libwnbd/nbd_daemon.cpp) on top of the request dispatcher of libwnbd    *)
(* (libwnbd/libwnbd.cpp).                                                  *)
(*                                                                         *)
(* The main thread connects, starts the reply worker, maps the disk,       *)
(* starts the dispatcher threads, waits for them and destroys the daemon.  *)
(* Each dispatcher thread fetches requests from the driver and sends them  *)
(* to the NBD server over the one socket; the reply worker receives the    *)
(* server's replies and passes them to the driver.  Any thread that meets  *)
(* an error shuts the daemon down.                                         *)
(*                                                                         *)
(* The driver and the NBD server are external: the driver hands out each   *)
(* request once and ends a removal it was asked for (WnbdRequests), the    *)
(* server may reply in any order, repeat replies, make up handles, stop    *)
(* reading or close the connection.                                        *)
(***************************************************************************)
EXTENDS Naturals, FiniteSets

CONSTANTS
  Requests,     \* handles of the requests the driver hands out
  Writes,       \* those sent as a header and a payload
  Reads,        \* those answered by a header and a payload
  Unsupported,  \* those the daemon's interface has no function for
  Dispatchers,  \* dispatcher threads, numbered in the order they are created
  Main, Worker, \* the other two threads
  MaximumWaitObjects,  \* handles WaitForMultipleObjects accepts: 64 on Windows
  MaxRequests,  \* bound on the requests the driver hands out
  MaxFailures,  \* bound on failing WnbdRemove, fetches, thread creations and waits
  NoRequest     \* no request, and the handle of a reply to none

ASSUME DaemonAssumption ==
  /\ Writes \subseteq Requests /\ Reads \subseteq Requests /\ Unsupported \subseteq Requests
  /\ MaxRequests \in Nat /\ MaxFailures \in Nat /\ MaximumWaitObjects \in Nat
  /\ Dispatchers \subseteq Nat
  /\ NoRequest \notin Requests
  /\ Main # Worker /\ Main \notin Dispatchers /\ Worker \notin Dispatchers

Threads == Dispatchers \cup {Main, Worker}
Handles == Requests \cup {NoRequest}

VARIABLES
  mainPc, workerPc, dispatcherPc,
  shutdownPc,      \* where each thread is in NbdDaemon::Shutdown
  disk,            \* the mapping in the driver
  WnbdDisk,        \* whether the pointer is set
  Started, Stopped, Stopping,      \* of WNBD_DISK
  Terminated, TerminateInProgress,
  socket,          \* whether the local end is open
  connection,      \* whether the server's end is
  openFrame,       \* the write whose payload is still to be sent
  torn,            \* the server received a frame begun inside another one
  sent,            \* requests whose whole frame was sent
  fetched,         \* requests the driver handed out
  PendingRequests,
  dispatching,     \* the request each dispatcher thread handles
  replies,         \* handles of the replies on their way
  served,          \* requests the server replied to
  replied,         \* the request the worker passes on
  answers,         \* responses the driver accepted for each request
  failures,
  removeFailed,    \* WnbdRemove failed
  early            \* Shutdown ran before WnbdDisk was set

threadVars   == <<mainPc, workerPc, dispatcherPc, shutdownPc>>
diskVars     == <<disk, WnbdDisk, Started, Stopped, Stopping>>
endVars      == <<Terminated, TerminateInProgress>>
socketVars   == <<socket, connection, openFrame, torn, sent>>
requestVars  == <<fetched, PendingRequests, dispatching>>
historyVars  == <<removeFailed, early>>
replyVars    == <<replies, served, replied, answers>>
vars == <<threadVars, diskVars, endVars, socketVars, requestVars, replyVars, failures,
          historyVars>>

ThreadTypes ==
  /\ mainPc \in {"connect", "create", "mapped", "start", "unstarted", "failed", "wait",
                 "destroy", "join", "closed"}
  /\ workerPc \in {"none", "loop", "reading", "responding", "stopping", "done"}
  /\ dispatcherPc \in [Dispatchers -> {"none", "loop", "insert", "send", "payload",
                                       "shutdown", "stop", "done"}]
  /\ shutdownPc \in [Threads -> {"no", "lock", "remove", "terminate", "goodbye", "close"}]
FlagTypes ==
  /\ disk \in {"none", "mapped", "gone"}
  /\ socket \in {"open", "closed"} /\ connection \in {"open", "closed"}
  /\ WnbdDisk \in BOOLEAN /\ Started \in BOOLEAN /\ Stopped \in BOOLEAN /\ Stopping \in BOOLEAN
  /\ Terminated \in BOOLEAN /\ TerminateInProgress \in BOOLEAN /\ torn \in BOOLEAN
  /\ removeFailed \in BOOLEAN /\ early \in BOOLEAN
  /\ failures \in 0..MaxFailures
RequestTypes ==
  /\ sent \subseteq Requests /\ fetched \subseteq Requests /\ PendingRequests \subseteq Requests
  /\ served \subseteq Requests /\ replies \subseteq Requests
  /\ openFrame \in Handles /\ replied \in Handles
  /\ dispatching \in [Dispatchers -> Handles]
  /\ answers \in [Requests -> Nat]

TypeOK == ThreadTypes /\ FlagTypes /\ RequestTypes

\* NbdDaemon::NbdDaemon: nothing is connected, mapped or started.
Init ==
  /\ mainPc = "connect" /\ workerPc = "none"
  /\ dispatcherPc = [d \in Dispatchers |-> "none"]
  /\ shutdownPc = [t \in Threads |-> "no"]
  /\ disk = "none" /\ WnbdDisk = FALSE
  /\ Started = FALSE /\ Stopped = FALSE /\ Stopping = FALSE
  /\ Terminated = FALSE /\ TerminateInProgress = FALSE
  /\ socket = "closed" /\ connection = "open"
  /\ openFrame = NoRequest /\ torn = FALSE /\ sent = {}
  /\ fetched = {} /\ PendingRequests = {}
  /\ dispatching = [d \in Dispatchers |-> NoRequest]
  /\ replies = {} /\ served = {} /\ replied = NoRequest
  /\ answers = [h \in Requests |-> 0]
  /\ failures = 0 /\ removeFailed = FALSE /\ early = FALSE

-----------------------------------------------------------------------------
Fails == failures < MaxFailures /\ failures' = failures + 1

\* What was received can still be read, and a send may still seem to succeed,
\* after the server closed the connection.
Connected == socket = "open" /\ connection = "open"

WnbdIsRunning == Started /\ ~Stopped

\* Thread t calls NbdDaemon::Shutdown.
CallShutdown(t) == shutdownPc' = [shutdownPc EXCEPT ![t] = "lock"]

Holding(pcs) == {t \in Threads : shutdownPc[t] \in pcs}

\* SendLock is free: held over both parts of a frame and over NBD_CMD_DISC.
SendLockFree == \A d \in Dispatchers : dispatcherPc[d] # "payload"

-----------------------------------------------------------------------------
(* The main thread: TryStart, Start, Wait and the destructor *)

MainUnchanged ==
  UNCHANGED <<endVars, connection, openFrame, torn, sent, requestVars, replyVars>>

\* ConnectNbdServer and NbdNegotiate succeed, and the reply worker is started.
Connect ==
  /\ mainPc = "connect"
  /\ socket' = "open"
  /\ workerPc' = "loop"
  /\ mainPc' = "create"
  /\ UNCHANGED <<dispatcherPc, shutdownPc, diskVars, failures, historyVars>>
  /\ MainUnchanged

\* The server cannot be reached, or its offer cannot be mapped: then the socket
\* is left to Shutdown.
ConnectFails ==
  /\ mainPc = "connect"
  /\ socket' \in {"open", "closed"}
  /\ mainPc' = "failed"
  /\ CallShutdown(Main)
  /\ UNCHANGED <<workerPc, dispatcherPc, diskVars, failures, historyVars>>
  /\ MainUnchanged

\* WnbdCreate: IOCTL_WNBD_CREATE ...
CreateDisk ==
  /\ mainPc = "create"
  /\ disk' = "mapped"
  /\ mainPc' = "mapped"
  /\ UNCHANGED <<workerPc, dispatcherPc, shutdownPc, WnbdDisk, Started, Stopped, Stopping,
                 socket, failures, historyVars>>
  /\ MainUnchanged

CreateFails ==
  /\ mainPc = "create"
  /\ Fails
  /\ mainPc' = "failed"
  /\ CallShutdown(Main)
  /\ UNCHANGED <<workerPc, dispatcherPc, diskVars, socket, historyVars>>
  /\ MainUnchanged

\* ... and the disk it returns.
CreateReturns ==
  /\ mainPc = "mapped"
  /\ WnbdDisk' = TRUE
  /\ mainPc' = "start"
  /\ UNCHANGED <<workerPc, dispatcherPc, shutdownPc, disk, Started, Stopped, Stopping, socket,
                 failures, historyVars>>
  /\ MainUnchanged

Created == {d \in Dispatchers : dispatcherPc[d] # "none"}
CanWait == Cardinality(Created) <= MaximumWaitObjects
DispatchersDone == \A d \in Dispatchers : dispatcherPc[d] \in {"none", "done"}

\* WaitForMultipleObjects waits for every thread, or fails at once for more
\* handles than it accepts, an error that Wait returns and nobody looks at.
WnbdWaitDispatcher == CanWait => DispatchersDone

\* One thread, or as many as WNBD_DISPATCHER_THREADS says, are created; more than
\* can be waited for count as a failure.
WnbdStartDispatcher ==
  /\ mainPc = "start"
  /\ Started' = TRUE
  /\ \E last \in Dispatchers :
       dispatcherPc' = [d \in Dispatchers |-> IF d <= last THEN "loop" ELSE "none"]
  /\ \/ CanWait' /\ UNCHANGED failures
     \/ ~CanWait' /\ Fails
  /\ mainPc' = "wait"
  /\ UNCHANGED <<workerPc, shutdownPc, disk, WnbdDisk, Stopped, Stopping, socket, historyVars>>
  /\ MainUnchanged

\* No memory for the threads' handles, or one of the threads cannot be created:
\* then WnbdStopDispatcher removes the disk, which may fail as well, and the
\* others are waited for.
StartDispatcherFails ==
  /\ mainPc = "start"
  /\ Fails
  /\ \/ UNCHANGED <<disk, Started, Stopping, dispatcherPc, removeFailed>>
     \/ /\ Started' = TRUE /\ Stopping' = TRUE
        /\ \/ disk' = "gone" /\ UNCHANGED removeFailed
           \/ removeFailed' = TRUE /\ UNCHANGED disk
        /\ \E failed \in Dispatchers :
             dispatcherPc' = [d \in Dispatchers |-> IF d < failed THEN "loop" ELSE "none"]
  /\ mainPc' = "unstarted"
  /\ UNCHANGED <<workerPc, shutdownPc, WnbdDisk, Stopped, socket, early>>
  /\ MainUnchanged

StartFailed ==
  /\ mainPc = "unstarted"
  /\ WnbdWaitDispatcher
  /\ mainPc' = "failed"
  /\ CallShutdown(Main)
  /\ UNCHANGED <<workerPc, dispatcherPc, diskVars, socket, failures, historyVars>>
  /\ MainUnchanged

\* Start gave up, or Wait returned: the destructor shuts down softly ...
Destroy ==
  /\ mainPc \in {"failed", "wait"}
  /\ shutdownPc[Main] = "no"
  /\ WnbdWaitDispatcher
  /\ mainPc' = "destroy"
  /\ CallShutdown(Main)
  /\ UNCHANGED <<workerPc, dispatcherPc, diskVars, socket, failures, historyVars>>
  /\ MainUnchanged

\* ... and waits once more.
DestroyWaited ==
  /\ mainPc = "destroy"
  /\ shutdownPc[Main] = "no"
  /\ WnbdWaitDispatcher
  /\ mainPc' = "join"
  /\ UNCHANGED <<workerPc, dispatcherPc, shutdownPc, diskVars, socket, failures, historyVars>>
  /\ MainUnchanged

\* Mutation: the reply worker is not joined.
CloseUnjoined ==
  /\ mainPc = "join"
  /\ mainPc' = "closed"
  /\ UNCHANGED <<workerPc, dispatcherPc, shutdownPc, diskVars, socket, failures, historyVars>>
  /\ MainUnchanged

\* The reply worker is joined and WnbdClose frees the disk.  A dispatcher thread
\* that was not waited for uses freed memory from here on: the model goes on as if
\* its contents were still there.
Close ==
  /\ mainPc = "join"
  /\ workerPc \in {"none", "done"}
  /\ mainPc' = "closed"
  /\ UNCHANGED <<workerPc, dispatcherPc, shutdownPc, diskVars, socket, failures, historyVars>>
  /\ MainUnchanged

-----------------------------------------------------------------------------
(* NbdDaemon::Shutdown *)

ShutdownUnchanged ==
  UNCHANGED <<mainPc, workerPc, dispatcherPc, WnbdDisk, Started, Stopped, Stopping, connection,
              openFrame, torn, sent, requestVars, replyVars>>

ShutdownGoes(t, pc) == shutdownPc' = [shutdownPc EXCEPT ![t] = pc]

\* ShutdownLock is held until the call returns; a second call finds Terminated set.
ShutdownLock(t) ==
  /\ shutdownPc[t] = "lock"
  /\ Holding({"remove", "terminate", "goodbye", "close"}) = {}
  /\ IF Terminated
       THEN ShutdownGoes(t, "no") /\ UNCHANGED TerminateInProgress
       ELSE /\ TerminateInProgress' = TRUE
            /\ ShutdownGoes(t, IF WnbdDisk THEN "remove" ELSE "terminate")
  /\ early' = (early \/ ~WnbdDisk)
  /\ UNCHANGED <<disk, Terminated, socket, failures, removeFailed>>
  /\ ShutdownUnchanged

\* Mutation: the disk is not removed.
ShutdownKeepsDisk(t) ==
  /\ shutdownPc[t] = "remove"
  /\ ShutdownGoes(t, "terminate")
  /\ UNCHANGED <<disk, endVars, socket, failures, historyVars>>
  /\ ShutdownUnchanged

\* Mutation: ERROR_FILE_NOT_FOUND is an error like any other.
ShutdownRemoveInsists(t) ==
  /\ shutdownPc[t] = "remove"
  /\ disk' = "gone"
  /\ ShutdownGoes(t, IF disk = "gone" THEN "no" ELSE "terminate")
  /\ UNCHANGED <<endVars, socket, failures, historyVars>>
  /\ ShutdownUnchanged

\* WnbdRemove, softly or not, ends with IOCTL_WNBD_REMOVE; a disk that is gone
\* already is no error.
ShutdownRemove(t) ==
  /\ shutdownPc[t] = "remove"
  /\ disk' = "gone"
  /\ ShutdownGoes(t, "terminate")
  /\ UNCHANGED <<endVars, socket, failures, historyVars>>
  /\ ShutdownUnchanged

\* Any other error ends the call, with TerminateInProgress set.
ShutdownRemoveFails(t) ==
  /\ shutdownPc[t] = "remove"
  /\ Fails
  /\ removeFailed' = TRUE
  /\ ShutdownGoes(t, "no")
  /\ UNCHANGED <<disk, endVars, socket, early>>
  /\ ShutdownUnchanged

ShutdownTerminate(t) ==
  /\ shutdownPc[t] = "terminate"
  /\ Terminated' = TRUE
  /\ ShutdownGoes(t, IF socket = "open" THEN "goodbye" ELSE "no")
  /\ UNCHANGED <<disk, TerminateInProgress, socket, failures, historyVars>>
  /\ ShutdownUnchanged

\* DisconnectNbd: NBD_CMD_DISC is sent under SendLock ...
ShutdownGoodbye(t) ==
  /\ shutdownPc[t] = "goodbye"
  /\ SendLockFree
  /\ ShutdownGoes(t, "close")
  /\ UNCHANGED <<disk, endVars, socket, failures, historyVars>>
  /\ ShutdownUnchanged

\* ... and the socket is closed without it.
ShutdownClose(t) ==
  /\ shutdownPc[t] = "close"
  /\ socket' = "closed"
  /\ ShutdownGoes(t, "no")
  /\ UNCHANGED <<disk, endVars, failures, historyVars>>
  /\ ShutdownUnchanged

-----------------------------------------------------------------------------
(* The dispatcher threads: WnbdDispatcherLoop, WnbdHandleRequest and the      *)
(* daemon's Read, Write, Flush and Unmap                                      *)

DispatchUnchanged ==
  UNCHANGED <<mainPc, workerPc, WnbdDisk, Started, endVars, socket, connection, early>>

DispatcherGoes(d, pc) == dispatcherPc' = [dispatcherPc EXCEPT ![d] = pc]

\* IOCTL_WNBD_FETCH_REQ returns a request the daemon can serve.
Fetch(d) ==
  /\ dispatcherPc[d] = "loop"
  /\ WnbdIsRunning
  /\ disk = "mapped"
  /\ Cardinality(fetched) < MaxRequests
  /\ \E h \in Requests \ (fetched \cup Unsupported) :
       /\ fetched' = fetched \cup {h}
       /\ dispatching' = [dispatching EXCEPT ![d] = h]
  /\ DispatcherGoes(d, "insert")
  /\ UNCHANGED <<shutdownPc, disk, Stopped, Stopping, openFrame, torn, sent, PendingRequests,
                 replyVars, failures>>
  /\ UNCHANGED removeFailed /\ DispatchUnchanged

\* It returns one the daemon cannot serve, which is answered at once.
FetchUnsupported(d) ==
  /\ dispatcherPc[d] = "loop"
  /\ WnbdIsRunning
  /\ disk = "mapped"
  /\ Cardinality(fetched) < MaxRequests
  /\ \E h \in Unsupported \ fetched :
       /\ fetched' = fetched \cup {h}
       /\ answers' = [answers EXCEPT ![h] = @ + 1]
  /\ UNCHANGED <<dispatcherPc, shutdownPc, disk, Stopped, Stopping, openFrame, torn, sent,
                 PendingRequests, dispatching, replies, served, replied, failures>>
  /\ UNCHANGED removeFailed /\ DispatchUnchanged

\* It returns "Disconnect", or the disk is gone when the answer to an
\* unsupported request is sent.
FetchDisconnect(d) ==
  /\ dispatcherPc[d] = "loop"
  /\ WnbdIsRunning
  /\ disk = "gone"
  /\ Stopped' = TRUE
  /\ UNCHANGED <<dispatcherPc, shutdownPc, disk, Stopping, openFrame, torn, sent, requestVars,
                 replyVars, failures>>
  /\ UNCHANGED removeFailed /\ DispatchUnchanged

\* The loop ends: another thread stopped it, or the disk is gone.
LeaveLoop(d) ==
  /\ dispatcherPc[d] = "loop"
  /\ ~WnbdIsRunning \/ disk = "gone"
  /\ DispatcherGoes(d, "stop")
  /\ UNCHANGED <<shutdownPc, disk, Stopped, Stopping, openFrame, torn, sent, requestVars,
                 replyVars, failures>>
  /\ UNCHANGED removeFailed /\ DispatchUnchanged

\* The loop ends: the thread has no event or buffer, or the fetch failed.
FetchFails(d) ==
  /\ dispatcherPc[d] = "loop"
  /\ WnbdIsRunning /\ disk = "mapped"
  /\ Fails
  /\ DispatcherGoes(d, "stop")
  /\ UNCHANGED <<shutdownPc, disk, Stopped, Stopping, openFrame, torn, sent, requestVars,
                 replyVars>>
  /\ UNCHANGED removeFailed /\ DispatchUnchanged

\* The first thread that leaves the loop removes the disk; it ends even if that
\* fails.
WnbdStopDispatcher(d) ==
  /\ dispatcherPc[d] = "stop"
  /\ Stopping' = TRUE
  /\ \/ /\ disk' = IF Stopping THEN disk ELSE "gone"
        /\ UNCHANGED <<failures, removeFailed>>
     \/ /\ ~Stopping /\ Fails
        /\ removeFailed' = TRUE
        /\ UNCHANGED disk
  /\ DispatcherGoes(d, "done")
  /\ UNCHANGED <<shutdownPc, Stopped, openFrame, torn, sent, requestVars, replyVars>>
  /\ DispatchUnchanged

\* Mutation: the request is sent without being noted.
InsertLater(d) ==
  /\ dispatcherPc[d] = "insert"
  /\ DispatcherGoes(d, "send")
  /\ UNCHANGED <<shutdownPc, disk, Stopped, Stopping, openFrame, torn, sent, requestVars,
                 replyVars, failures>>
  /\ UNCHANGED removeFailed /\ DispatchUnchanged

\* The request is noted in PendingRequests before it is sent.
InsertPending(d) ==
  /\ dispatcherPc[d] = "insert"
  /\ PendingRequests' = PendingRequests \cup {dispatching[d]}
  /\ DispatcherGoes(d, "send")
  /\ UNCHANGED <<shutdownPc, disk, Stopped, Stopping, openFrame, torn, sent, fetched, dispatching,
                 replyVars, failures>>
  /\ UNCHANGED removeFailed /\ DispatchUnchanged

\* Mutation: without SendLock.
SendHeaderUnlocked(d) ==
  /\ dispatcherPc[d] = "send"
  /\ socket = "open"
  /\ torn' = (torn \/ (connection = "open" /\ openFrame # NoRequest))
  /\ IF dispatching[d] \in Writes
       THEN /\ openFrame' = dispatching[d]
            /\ DispatcherGoes(d, "payload")
            /\ UNCHANGED <<sent, dispatching>>
       ELSE /\ sent' = sent \cup {dispatching[d]}
            /\ dispatching' = [dispatching EXCEPT ![d] = NoRequest]
            /\ DispatcherGoes(d, "loop")
            /\ UNCHANGED openFrame
  /\ UNCHANGED <<shutdownPc, disk, Stopped, Stopping, fetched, PendingRequests, replyVars,
                 failures>>
  /\ UNCHANGED removeFailed /\ DispatchUnchanged

\* NbdRequest, or the first half of NbdSendWrite.
SendHeader(d) ==
  /\ dispatcherPc[d] = "send"
  /\ SendLockFree
  /\ socket = "open"
  /\ torn' = (torn \/ (connection = "open" /\ openFrame # NoRequest))
  /\ IF dispatching[d] \in Writes
       THEN /\ openFrame' = dispatching[d]
            /\ DispatcherGoes(d, "payload")
            /\ UNCHANGED <<sent, dispatching>>
       ELSE /\ sent' = sent \cup {dispatching[d]}
            /\ dispatching' = [dispatching EXCEPT ![d] = NoRequest]
            /\ DispatcherGoes(d, "loop")
            /\ UNCHANGED openFrame
  /\ UNCHANGED <<shutdownPc, disk, Stopped, Stopping, fetched, PendingRequests, replyVars,
                 failures>>
  /\ UNCHANGED removeFailed /\ DispatchUnchanged

\* The second half of NbdSendWrite.
SendPayload(d) ==
  /\ dispatcherPc[d] = "payload"
  /\ socket = "open"
  /\ openFrame' = NoRequest
  /\ sent' = sent \cup {dispatching[d]}
  /\ dispatching' = [dispatching EXCEPT ![d] = NoRequest]
  /\ DispatcherGoes(d, "loop")
  /\ UNCHANGED <<shutdownPc, disk, Stopped, Stopping, torn, fetched, PendingRequests, replyVars,
                 failures>>
  /\ UNCHANGED removeFailed /\ DispatchUnchanged

\* "Couldn't submit request. Closing connection."
SendFails(d) ==
  /\ \/ dispatcherPc[d] = "send" /\ SendLockFree
     \/ dispatcherPc[d] = "payload"
  /\ ~Connected
  /\ dispatching' = [dispatching EXCEPT ![d] = NoRequest]
  /\ DispatcherGoes(d, "shutdown")
  /\ CallShutdown(d)
  /\ UNCHANGED <<disk, Stopped, Stopping, openFrame, torn, sent, fetched, PendingRequests,
                 replyVars, failures>>
  /\ UNCHANGED removeFailed /\ DispatchUnchanged

\* Whatever Shutdown did, the loop goes on.
SendFailed(d) ==
  /\ dispatcherPc[d] = "shutdown"
  /\ shutdownPc[d] = "no"
  /\ DispatcherGoes(d, "loop")
  /\ UNCHANGED <<shutdownPc, disk, Stopped, Stopping, openFrame, torn, sent, requestVars,
                 replyVars, failures>>
  /\ UNCHANGED removeFailed /\ DispatchUnchanged

-----------------------------------------------------------------------------
(* The reply worker: NbdReplyWorker and ProcessNbdReply *)

WorkerUnchanged ==
  UNCHANGED <<mainPc, dispatcherPc, diskVars, endVars, socketVars, fetched, dispatching, served,
              historyVars>>

\* ProcessNbdReply failed: the worker shuts the daemon down and ends.
WorkerFails == workerPc' = "stopping" /\ CallShutdown(Worker)

\* The worker waits for a reply, unless the daemon is terminated.
WorkerLoop ==
  /\ workerPc = "loop"
  /\ workerPc' = IF Terminated THEN "done" ELSE "reading"
  /\ UNCHANGED <<shutdownPc, PendingRequests, replies, replied, answers, failures>>
  /\ WorkerUnchanged

\* The worker's event cannot be created or reset.
WorkerEventFails ==
  /\ workerPc = "loop" /\ ~Terminated
  /\ Fails
  /\ WorkerFails
  /\ UNCHANGED <<PendingRequests, replies, replied, answers>>
  /\ WorkerUnchanged

\* Mutation: the request is looked up with operator[], which adds a missing one.
WorkerReadAdds ==
  /\ workerPc = "reading"
  /\ socket = "open"
  /\ \E h \in replies \cup {NoRequest} :
       /\ replies' = replies \ {h}
       /\ PendingRequests' = IF h \in PendingRequests THEN PendingRequests \ {h}
                             ELSE PendingRequests \cup {h}
       /\ replied' = h
  /\ workerPc' = "responding"
  /\ UNCHANGED <<shutdownPc, answers, failures>>
  /\ WorkerUnchanged

\* Mutation: the request stays in PendingRequests.
WorkerReadKeeps ==
  /\ workerPc = "reading"
  /\ socket = "open"
  /\ \E h \in replies \cap PendingRequests :
       /\ replies' = replies \ {h}
       /\ replied' = h
  /\ workerPc' = "responding"
  /\ UNCHANGED <<shutdownPc, PendingRequests, answers, failures>>
  /\ WorkerUnchanged

\* NbdReadReply, and the request is taken out of PendingRequests.
WorkerRead ==
  /\ workerPc = "reading"
  /\ socket = "open"
  /\ \E h \in replies \cap PendingRequests :
       /\ replies' = replies \ {h}
       /\ PendingRequests' = PendingRequests \ {h}
       /\ replied' = h
  /\ workerPc' = "responding"
  /\ UNCHANGED <<shutdownPc, answers, failures>>
  /\ WorkerUnchanged

\* Mutation: the worker ends without a shutdown.
WorkerReadGivesUp ==
  /\ workerPc = "reading"
  /\ \/ socket = "open" /\ (\E h \in replies \ PendingRequests : replies' = replies \ {h})
     \/ ~Connected /\ UNCHANGED replies
  /\ workerPc' = "done"
  /\ UNCHANGED <<shutdownPc, PendingRequests, replied, answers, failures>>
  /\ WorkerUnchanged

\* A reply to no pending request, the connection is lost, or the payload of a
\* read is: its request was taken out already.
WorkerReadFails ==
  /\ \/ /\ workerPc = "reading" /\ socket = "open"
        /\ \E h \in replies \ PendingRequests : replies' = replies \ {h}
     \/ /\ workerPc = "reading" /\ ~Connected
        /\ UNCHANGED replies
     \/ /\ workerPc = "responding" /\ replied \in Reads /\ ~Connected
        /\ UNCHANGED replies
  /\ replied' = NoRequest
  /\ WorkerFails
  /\ UNCHANGED <<PendingRequests, answers, failures>>
  /\ WorkerUnchanged

\* The server may at any time send a reply with a handle it was never given.  It
\* does not have to, so this step, which also ends a read that would block, is not fair.
WorkerReadMadeUp ==
  /\ workerPc = "reading" /\ socket = "open"
  /\ replied' = NoRequest
  /\ WorkerFails
  /\ UNCHANGED <<PendingRequests, replies, answers, failures>>
  /\ WorkerUnchanged

\* WnbdSendResponseEx.  Errors are ignored once a shutdown began, and so is
\* ERROR_IO_PENDING: the response is then not waited for, which the driver does
\* not notice.
WorkerRespond ==
  /\ workerPc = "responding"
  /\ replied' = NoRequest
  /\ IF WnbdIsRunning /\ disk = "mapped"
       THEN /\ answers' = [answers EXCEPT ![replied] = @ + 1]
            /\ workerPc' = "loop" /\ UNCHANGED shutdownPc
       ELSE /\ UNCHANGED answers
            /\ IF TerminateInProgress
                 THEN workerPc' = "loop" /\ UNCHANGED shutdownPc
                 ELSE WorkerFails
  /\ UNCHANGED <<PendingRequests, replies, failures>>
  /\ WorkerUnchanged

\* Shutdown returned, whatever it did.
WorkerEnds ==
  /\ workerPc = "stopping" /\ shutdownPc[Worker] = "no"
  /\ workerPc' = "done"
  /\ UNCHANGED <<shutdownPc, PendingRequests, replies, replied, answers, failures>>
  /\ WorkerUnchanged

-----------------------------------------------------------------------------
(* The NBD server and other processes *)

ServerUnchanged ==
  UNCHANGED <<threadVars, WnbdDisk, Started, Stopped, Stopping, endVars, socket, openFrame, torn,
              sent, requestVars, replied, answers, failures, historyVars>>

\* A reply to a request it received, perhaps not the first one.
ServerReplies ==
  /\ connection = "open"
  /\ \E h \in sent : replies' = replies \cup {h} /\ served' = served \cup {h}
  /\ UNCHANGED <<disk, connection>>
  /\ ServerUnchanged

ServerCloses ==
  /\ connection = "open"
  /\ mainPc # "connect"
  /\ connection' = "closed"
  /\ UNCHANGED <<disk, replies, served>>
  /\ ServerUnchanged

\* wnbd-client unmap, or the driver removes a stale connection.
UnmappedByOther ==
  /\ disk = "mapped"
  /\ disk' = "gone"
  /\ UNCHANGED <<connection, replies, served>>
  /\ ServerUnchanged

-----------------------------------------------------------------------------
MainSteps ==
  \/ Connect \/ ConnectFails \/ CreateDisk \/ CreateFails \/ CreateReturns
  \/ WnbdStartDispatcher \/ StartDispatcherFails \/ StartFailed \/ Destroy \/ DestroyWaited \/ Close
ShutdownSteps(t) ==
  \/ ShutdownLock(t) \/ ShutdownRemove(t) \/ ShutdownRemoveFails(t) \/ ShutdownTerminate(t)
  \/ ShutdownClose(t)
\* What a dispatcher thread does without waiting for the driver or the server.
DispatcherSteps(d) ==
  \/ LeaveLoop(d) \/ FetchDisconnect(d) \/ WnbdStopDispatcher(d) \/ InsertPending(d)
  \/ SendFails(d) \/ SendFailed(d)
SendSteps(d) == SendHeader(d) \/ SendPayload(d)
WorkerSteps == WorkerLoop \/ WorkerRead \/ WorkerReadFails \/ WorkerRespond \/ WorkerEnds

Next ==
  \/ MainSteps
  \/ \E t \in Threads : ShutdownSteps(t) \/ ShutdownGoodbye(t)
  \/ \E d \in Dispatchers :
       Fetch(d) \/ FetchUnsupported(d) \/ FetchFails(d) \/ DispatcherSteps(d) \/ SendSteps(d)
  \/ WorkerSteps \/ WorkerEventFails \/ WorkerReadMadeUp
  \/ ServerReplies \/ ServerCloses
  \/ UnmappedByOther

Spec == Init /\ [][Next]_vars

\* The threads of the process run on, except in a send: it has no timeout and
\* returns for certain only if the connection is closed.  The driver need not have
\* requests, the server need not read or reply, and nothing has to fail.
Fairness ==
  /\ WF_vars(MainSteps)
  /\ WF_vars(WorkerSteps)
  /\ \A t \in Threads : WF_vars(ShutdownSteps(t) \/ (~Connected /\ ShutdownGoodbye(t)))
  /\ \A d \in Dispatchers : WF_vars(DispatcherSteps(d))

\* Every send returns: the server reads what is sent to it.
SendsReturn ==
  /\ WF_vars(\E t \in Threads : ShutdownGoodbye(t))
  /\ WF_vars(\E d \in Dispatchers : SendSteps(d))

FairSpec == Spec /\ Fairness

-----------------------------------------------------------------------------
(* Properties *)

\* The server never receives a frame begun between the header and the payload of
\* another one, whatever the number of dispatcher threads and however they fail
\* (SendLock).
FramesIntact == ~torn

\* A request that was sent is in PendingRequests until its first reply is read:
\* the server's reply can never overtake the bookkeeping (Read, Write, Flush, Unmap).
SentIsPending == \A h \in sent \ served : h \in PendingRequests

\* The driver gets at most one response to a request, only if the daemon cannot
\* serve it or the server replied to it, even if replies are repeated or made up
\* (ProcessNbdReply).
AnsweredOnce ==
  \A h \in Requests :
    /\ answers[h] <= 1
    /\ answers[h] = 1 /\ h \notin Unsupported => h \in served
    /\ answers[h] = 1 => h \notin PendingRequests

\* When the disk is freed and the daemon destroyed, the connection is closed unless
\* removing the disk failed, and no thread runs any more, except that more
\* dispatcher threads than WaitForMultipleObjects accepts may all run on
\* (NbdDaemon::~NbdDaemon, WnbdWaitDispatcher).
ClosedIsQuiet ==
  mainPc = "closed" =>
    /\ removeFailed \/ socket = "closed"
    /\ workerPc \in {"none", "done"} /\ shutdownPc[Main] = "no" /\ shutdownPc[Worker] = "no"
    /\ CanWait => DispatchersDone /\ \A d \in Dispatchers : shutdownPc[d] = "no"

\* The daemon does not end while its disk is mapped, however starting it failed,
\* unless removing the disk failed or Shutdown ran before WnbdDisk was set.
NoOrphanedDisk == mainPc = "closed" /\ ~removeFailed /\ ~early => disk # "mapped"

\* When the connection is lost while the daemon serves the disk, the disk is
\* removed, unless removing it failed (NbdReplyWorker, Shutdown).
ConnectionLossUnmaps ==
  (connection = "closed" /\ mainPc = "wait" /\ ~TerminateInProgress)
    ~> (disk = "gone" \/ removeFailed)

\* The daemon ends after its disk was removed, by whomever, unless WnbdRemove
\* failed or a send never returns: a server that neither reads nor closes holds
\* the sender, and with it SendLock, for ever.  The reply worker, blocked on the
\* socket, is woken and joined (DisconnectNbd, NbdDaemon::~NbdDaemon).
RemovedDaemonEnds ==
  SendsReturn => (disk = "gone" ~> (mainPc = "closed" \/ removeFailed))

\* "We're requesting the disk to be removed but continue serving IO requests until
\* the driver sends us the Disconnect event": Shutdown sets Terminated after that
\* request, so a terminated daemon does not keep its disk.
TerminatedUnmaps == Terminated ~> disk # "mapped"
=============================================================================
