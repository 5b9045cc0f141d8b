# A TLA+ verification of WNBD

WNBD is a Windows storage driver that presents virtual disks whose I/O is served
by a user-space process, together with the library through which such a process
talks to the driver and an NBD client built on that library. This directory holds
TLA+ models of its concurrent core, of its administration and of the data path of
its SCSI commands, TLC configurations that check them on small
instances, and TLAPS proofs of the central invariants for every instance.

`PROJECT.json` lists the components, runs, mutants, hazards, findings and
theorems, and maps every definition to the source lines it stands for.

## 1. The system

```
 StorPort --HwStartIo/reset--> driver <--ioctl FETCH/SEND/CREATE/REMOVE-- libwnbd <--callbacks-- NbdDaemon <--TCP--> NBD server
 PnP manager ----IRPs--------> driver                                                            (wnbd-client)
```

| Component | State | Operations | What is hard | What makes it correct |
|---|---|---|---|---|
| SRB request path (`driver/scsi_*.c`, `wnbd_dispatch.c`, `util.c`) | per disk: `PendingReqList`, `SubmittedReqList`, `SrbElementPool`, `DeviceEvent`, statistics | HwStartIo, FETCH_REQ, SEND_RSP, resets, drains | StorPort, several fetching and responding threads, resets and the monitor thread share two lists with separate locks | a request is in one place, is completed once, by its own reply, and none is lost |
| Monitor thread and removal (`userspace.c`, `util.c`) | `RundownProtection`, `HardRemoveDevice`, `DeviceRemovalEvent` | disconnect, wake, rundown, drain, unlink, free | removal races every other operation | a disk is freed only when nobody uses it, with nothing owed |
| Mapping registry (`userspace.c`, `util.c`) | `DeviceList`, `ScsiBitMapAddress`, `DeviceCount`, `DeviceCreationLock` | CREATE, REMOVE, SHOW, STATS, SET_DISK_SIZE | creation has many failure paths; names and addresses are reused | one address per disk; a listed or acquired disk is alive |
| Adapter lifecycle (`scsi_driver_extensions.c`) | the extension's rundown, `GlobalDeviceRemovalEvent` | initialise, stop, free | tearing down every disk while creations run | cleanup leaves nothing behind |
| PnP (`driver.c`) | `PDO` of a disk | START, QUERY_REMOVE, REMOVE | a start or a removal may arrive when its SCSI address has been reused | a removal disconnects only its own disk |
| Driver options (`options.c`, `userspace.c`) | a value in force and a registry value per option | get, list, set, reset, reload | memory and registry are written one after the other, by any caller, across restarts | what is in force and stored is what was asked for |
| SCSI emulation (`scsi_operation.c`, `srb_helper.h`) | `BlockCount`, `Flags`, serial number | READ, WRITE, FLUSH, UNMAP, reservations; INQUIRY, MODE SENSE, READ CAPACITY; resize | units and widths change four times between the command and the server | the bytes the host named, and only those, are touched; what the driver tells is served |
| libwnbd (`libwnbd.cpp`) | `WNBD_DISK`: `Started`, `Stopping`, `Stopped`, dispatcher threads | create, close, dispatch, respond | stop, close and dispatch run in different threads | a closed disk has no thread left |
| Removal, reset and uninstall (`libwnbd.cpp`, `wnbd_ioctl.cpp`) | what a call looked up: a name, a PnP id, a list | WnbdRemoveEx, WnbdResetAdapterEx, RemoveAllWnbdDevices | what was looked up is stale when used; vetoes, retries and timeouts race | a call reports what happened, and returns |
| NBD daemon (`nbd_daemon.cpp`) | `PendingRequests`, `TerminateInProgress`, `Terminated`, socket, reply worker | start, shutdown, wait, callbacks | a shutdown may come from any thread, also before the disk exists | frames are never interleaved, each request is answered once, a lost connection unmaps |
| NBD negotiation (`nbd_protocol.cpp`, `nbd_daemon.cpp`) | flags, size, limits | handshake, OPT_GO, EXPORT_NAME fallback | two protocol variants with different message lengths | client and server agree on the position in the stream; the disk is what was exported |
| NBD framing | `SendLock` | header and payload | two sends under one lock | as for the daemon |
| other ioctl wrappers, installation, wnbd-client, logging | none | marshal, parse, print | - | not modelled |

Interactions: the driver and the process share nothing but ioctls; inside the
driver, threads share a disk's lists and the extension's list under the locks named
above; the process's dispatcher threads call the daemon, whose reply worker calls
back into the library.

## 2. Modules

| Module | Models |
|---|---|
| `WnbdRequests` | all requests of one disk, from HwStartIo to completion, with resets and removal |
| `WnbdService` | the abstract specification: what one disk promises StorPort |
| `WnbdRequestsService` | the refinement mapping from `WnbdRequests` to `WnbdService` |
| `WnbdRegistry` | creation, lookup, use and removal of several disks, adapter cleanup, PnP, `NewMappingsAllowed` |
| `WnbdRemoval` | removing disks, resetting and uninstalling the adapter from several processes |
| `WnbdOptions` | runtime and persistent option values, registry, restarts |
| `ScsiDisk` | one command at a time from its CDB to the NBD command, and what the driver answers itself |
| `NbdDaemon` | the NBD daemon with the library's dispatcher, its reply worker and the server |
| `NbdNegotiate` | the handshake message by message and the checks before the disk is created |
| `MC*` | the instances TLC runs |
| `*Proofs` | the inductive invariant of the module they are named after and the theorems that follow (section 4) |

**WnbdRequests.** A step is a lock section, an interlocked operation or a wait of
the code, so every interleaving the locks allow is explored. `srbPc`, `fetchPc`, `rspPc`, `resetPc`,
`removePc` and `monitorPc` say where StorPort's call, each ioctl and the monitor
thread stand; the other variables keep the names of the driver's fields. A request is abstracted to the
SRB it stands for: whether a command is emulated at once, rejected or pended is a
choice, and `CopySrbs` are the SRBs whose dispatch locks the fetch buffer (WRITE, UNMAP, PR OUT). An element belongs to
the pool or the heap, as in `WnbdAllocSrbElement`. `completions` counts the driver's
completions of an SRB and `timedOut` holds those a bus reset completed through StorPort. The
user-space process answers requests it was handed, in any order, as late as it likes, twice, or
never. That it makes up no tags is the client's side of the contract, and libwnbd's: it replies
with the handle of the request it dispatched.
The statistics are interlocked operations of their own: a fetch puts the request on the submitted
list (`FetchSubmit`) and counts it afterwards (`FetchCount`), so that a reply may be counted first and a gauge
be -1 meanwhile; a dispatch that fails leaves the list and the gauges in steps of its own.
The branch of `WnbdHandleResponse` for an aborted element is in `RspComplete`, and no element on
the submitted list is ever marked aborted, so it is never taken (`ElementPerOwedSrb`).

**WnbdService and WnbdRequestsService.** The service knows, per SRB, whether it is idle,
accepted, handed to user space, or settled (answered by the driver, succeeded, failed), and
whether the disk serves, is being removed, or is gone. It settles an SRB once, reports
success for a queued one only after handing it out, accepts and hands out nothing once the
removal began, and vanishes with nothing unsettled. `Lose` is the one promise the
driver breaks: a removal may lose a request that was not handed out yet. The mapping reads
the state of a request off `srbPc`, `completions`, `SrbStatus`, `delivered` and `dropped`, and
that of the disk off `HardRemoveDevice` and `monitorPc`; a reset's drain that returns an
element is `Fail`, a fetch that returns to its caller is `Hand`. SRBs that StorPort completed by itself on a
bus reset are not the disk's to settle.

**WnbdRegistry.** `IOCTL_WNBD_CREATE` is a sequence of steps with each failure
path; a device is identified with the creation that made it, so a freed device is
distinguished from a new one at the same address. Requests are left out: what
removal does with them is the subject of `WnbdRequests`. Any
operation that uses a disk under a reference is `UseDevice` (looked up by
connection id) or `UseNamedDevice`. `WnbdEnumerateActiveConnections` is two steps, because it reads the
list head before it takes the lock: `ListBegin` reads it, and if that disk was unlinked when
`ListWalk` begins the walk may halt the machine (`bugCheck`). PnP's IRPs concern any disk that
was ever listed (`Enumerated`), however late: a start stores its PDO in whatever disk is at the
address then, and `lateStarts` remembers that it was not its own.

**WnbdRemoval.** Each call is a process of its own that keeps what it looked up: the disk
`WnbdShow` found, the one its PnP id stands for (`target`), the one it asked the driver to
remove (`removing`), the list and the count it allocated for. Time is the number of retry intervals (`elapsed`); a
timeout of 0 is none. Whether applications veto a soft removal or a reset is a choice at each
attempt. Stopping the adapter, for a reset or an uninstall, is the driver's cleanup step by step: `StopBegin`
sets the adapter's one event, `StopWake` is a monitor thread that takes it, and `StopReturns` needs every
creation and every disk to be over, so a stop may never end and the call that asked for it never return.
The uninstaller's list is read like the driver reads it, its head before the lock (`AllRelist`, `AllWalk`);
a PnP start may be late (`PnpStart`). Disks of one name, listed while another creation is under way,
are in it, since the driver does not exclude them. The driver's side is cut down to what
the calls see; its details are in `WnbdRegistry`.

**WnbdOptions.** An operation is begun, then touches the registry, then the memory; a
reload reads and applies one option after the other, in any order. The registry may refuse any access, be
edited by others and hold values of another type, and a restart of the driver may
come at any step. A value is the eight bytes that are stored: for a Bool 0 is a zero
byte, 1 a byte that is not, 2 a zero byte followed by something else, which the
code stores whole and reads back as TRUE. `given` is history: what the completed operations asked for.

**ScsiDisk.** A command is followed through `WnbdPendOperation`,
`WnbdPendElement`, `WnbdDispatchRequest`, `WnbdHandleRequest` and the daemon's callback, as blocks
or bytes in the width each of them keeps; `wire` is what the server receives. The host
remembers what the answers `told` it last, and `promised` says that a command is within it. The disk may be resized at any moment, with a
command under way. StorPort's guarantees for reads and writes (a buffer for the blocks of a command and no
transfer above the adapter's limit) are the assumption `SrbsAssumption`; the buffers of the commands the
driver answers itself may have any length.

**NbdDaemon.** Threads are the starter (`Main`), the dispatchers and the reply
`Worker`; each may call `Shutdown`, whose steps are in `shutdownPc`. A write is two
sends under `SendLock`; `torn` records that the server received the parts of two
requests interleaved. The server replies in any order, repeats replies, sends handles that
were never sent (`WorkerReadMadeUp`, which nothing relies on), does not read, or
closes; replies already received stay readable after it closed and sends may still
appear to succeed. Any number of dispatchers may be created; `WnbdWaitDispatcher` waits for them
only if they are at most `MaximumWaitObjects` (64 on Windows), otherwise the wait fails at once and
its result is ignored, as in the code. The removal inside `WnbdStopDispatcher` may fail. `removeFailed` and `early` are history: a removal was refused, or
a shutdown ended before the disk existed. Another process may remove the disk
(`UnmappedByOther`).

**NbdNegotiate.** `stream` is what the server has sent and the client has not read; a
message read as another kind is a loss of synchronisation. A server is honest (it
follows the protocol with some flags, limits, size and refusal) or sends anything.
The block limits and the size are numbers, so that the comparisons of the code are
the ones checked.

Operators next to an action that differ from it in one conjunct (for example
`FreeSrbElementToPool` beside `WnbdFreeSrbElement`) are the mutants of `PROJECT.json`: the
form the code would have with a plausible mistake. None occurs in a specification.

## 3. Runs

| Run | Checks | Instance |
|---|---|---|
| `WnbdRequests` | no element in two places, none lost, replies matched, no lost wake-up, no use after free, nothing owed when the disk is gone, statistics, no second completion; implements `WnbdService` | 2 SRBs, 2 fetchers, 1 responder, 1 LUN reset, adapter cleanup; symmetric |
| `WnbdRequestsLive` | a signalled removal ends and its caller returns; implements `WnbdService` with its liveness | 1 SRB, 1 thread of each kind, 1 bus reset |
| `WnbdRegistry` | addresses, references and counts, reachable disks are alive but for the unlocked read of the list head, PnP, cleanup, teardown of the last disk | 2 creations of one name, 1 address, 1 caller, 2 cleanups, 1 option switch, 1 failing step |
| `WnbdRemoval` | a removal reports what happened, an uninstall leaves no disk, calls with a timeout return if PnP does | 2 disks of one name, 1 remover (soft with timeout, soft with fallback, hard), 1 resetter, 1 uninstaller, timeouts of one interval |
| `WnbdOptions` | values in force and stored are the ones asked for | 1 Bool and 1 Int64 option, 2 callers; symmetric |
| `ScsiDisk` | exact reads and writes, trims within the range, what is advertised is served, answers are true | blocks of 2 bytes, a UCHAR of 4, a ULONG of 16 and a UINT64 of 64 values, sizes 0, 8, 17 and 40 blocks, 3 flag sets |
| `NbdDaemon` | framing, pending set, one answer per request, no thread or disk left behind, unmapping after connection loss, end after removal | 1 write, 1 read, 1 unsupported request, 2 dispatchers, a wait for at most 1 thread, 1 failing step |
| `NbdNegotiate` | synchronisation, agreement with the export and its limits, termination, mapping of a compatible export | 6 property sets, every honest server over the flags, sizes and limits of `MCNbdNegotiate`, dishonest servers of at most 9 messages |

Bounds and why they are enough. Two SRBs and two fetchers are needed for a tag to
be taken for another's and for a wake-up to be consumed by the wrong thread; one of the two
elements is from the heap so both kinds of free happen. The run with a remover has
one SRB because the removal paths treat requests one at a time. In the first run
the removal comes from the adapter's cleanup, which takes the same path through the
monitor thread; the proofs cover removers, several SRBs and any number of
threads together. Two creations that compete for one name and one address exercise collision, address
reuse and a PnP removal that is late; `MaxFailures = 1` lets every single step
fail. Two dispatchers are what interleaved frames need; with `MaximumWaitObjects = 1` waiting for both
fails, and when one is created the wait is a real one, so both cases occur. The negotiation's values
lie on both sides of each comparison: block size 0, 512 and 4096, size below one
block and not a multiple of one, limits of 0, 300, 512 and 1024, and a maximum of
2 MiB and one less; `UllongMax` stands for `ULLONG_MAX`, being out of TLC's reach.
In `WnbdRemoval` two disks of one name are what a stale name needs; one remover, the
uninstaller and the resetter are three independent processes. In `WnbdOptions` two
callers overlap on one option and on different ones, and a third would only repeat that. In
`ScsiDisk` the widths are scaled so that a block count times the block size overflows a
ULONG, a disk is larger than 32-bit addresses reach (40 > 16 blocks), a 64-bit sum wraps, and 17 blocks lie just
above the 32-bit limit; lengths of buffers are on both sides of every comparison.

`CHECK_DEADLOCK FALSE` is in every configuration but those of `WnbdOptions` and `ScsiDisk`,
because each of these systems may stop: nobody must issue a request, a disk may be gone, a
daemon closed. Options and commands can always be given, so there deadlock is checked.

Fairness is weak fairness of the steps a thread takes once it has begun: Windows
schedules a ready thread eventually, a signalled event wakes a waiter, and a free
resource is granted. No process is made to send requests, fetch, reply, reset or
remove, and failures are never fair. Where the code depends on somebody else the assumption is not in
`Fairness` but a premise of the property:

- `RemovedDaemonEnds` assumes `SendsReturn`: `send` has no timeout, so a server that neither reads nor
  closes holds the sender, and `SendLock`, for ever; `ConnectionLossUnmaps` needs no such premise;
- `AdministrationReturns` assumes `PnpReturns`, that subscribers let a call into PnP return (the
  timeouts are looked at only between calls), and that the adapter is not stuck in its stop for good
  (`StopStuck`): a reset that hangs in the cleanup of `WnbdCleanupHangs` does not return. Applications
  need not let go of their disks, so only the timeout ends a vetoed removal.

In `NbdNegotiate` an honest server answers:
an assumption on the peer, without which the client's blocking receive has no end.

### Findings

Runs whose expectation is a violation; each quotes the statement it refutes.

| Run | What the code does |
|---|---|
| `WnbdDoubleCompletion` | a bus reset completes every SRB through StorPort and leaves their elements queued, to be completed again |
| `WnbdCleanupHangs` | with two disks the adapter's one wake-up reaches one monitor thread; the cleanup waits for the other for ever |
| `WnbdCreateFreedAccess` | a creation touches its disk after listing it, without a reference |
| `NbdZombie` | a connection lost before `WnbdDisk` is set terminates the daemon without a disk to remove; the disk is mapped afterwards and stays (`Terminated ~> disk # "mapped"`) |

Without a run of their own, because a passing run's property states the exact exception or
the path is a single step of the model (`PROJECT.json` gives the lines and quotes):

- a fetch that takes an element while the disk is being removed drops it, and no drain returns it (`Lose` of `WnbdService`, `dropped` in `GoneMeansSettled`);
- a soft removal sees only the two lists, not the request a thread is carrying between them (`RemoveQuery`);
- the wait for pending mappings takes shared what the mappings hold shared, so it waits for none (the exception `all.pending` of `AllRemoved`);
- aborted requests are never taken off the pending gauges (`StatisticsDriftByAborts`), refused creations keep their reference of the extension (`CountersDriftByRefusals`);
- an UNMAP of 4 GiB or more succeeds for its remainder only (`TrimWithin`); a serial number of 255 characters is told as empty (`TruthfulAnswers`); the exception for flushes in the length check is always true;
- `WnbdRemoveEx` leaks its adapter handle on two early returns, and its last step, by name, may remove a new disk of that name (`RemovalTruthful`);
- `IOCTL_WNBD_LIST` succeeds without a list when the count grew, and an uninstall then takes the adapter for empty (`AllRelist`);
- the enumeration of the disks reads the head of the list before it takes the lock: the disk may be freed by then (`StaleOnlyIfUnlinked`, `AllWalk`);
- a late `IRP_MN_START_DEVICE` marks the new disk at the address as its own, and the removal that follows disconnects that one (`PnpRemovesItsOwn`);
- INQUIRY and REPORT LUNS write their data without a look at the length of the buffer (`Overrun` in `TruthfulAnswers`);
- more dispatchers are accepted than can be waited for: the daemon is destroyed while they run (`ClosedIsQuiet`);
- a numeric option given as a string is converted from a string of length 0; a persistent reset of an option that is not persisted fails and leaves the runtime value; a Bool is stored with the bytes around it; overlapping sets may leave registry and memory apart (`WnbdOptions`);
- `--block-size` is documented as ignored with the handshake but refused unless 512; `InstallDriver` reports success when the adapter could not be created (not modelled).

The properties of the passing runs are stated so that they are true of this code:
`GoneMeansSettled`, `RemovalTruthful`, `NoOrphanedDisk` and others name the
exception a finding describes, and nothing more.

## 4. Proofs

Every theorem holds for all values of the constants that satisfy the named assumptions of
the module; sets of requests, threads, disks and callers may be infinite.

| Module | Theorem | Statement |
|---|---|---|
| `WnbdRequestsProofs` | `TypeCorrect`, `Invariant` | `TypeOK` and the inductive invariant `IInv` |
| | `OneOwnerHolds` | an element is in one place: pool, heap, pending list, a thread's hands or submitted list |
| | `NoRequestLost` | every SRB the driver owes has an element (`ElementPerOwedSrb`) |
| | `RepliesMatch` | a reply completes the request whose tag it carries |
| | `FreedOnlyWhenUnused` | no thread is inside a disk that is gone |
| | `GoneIsSettled` | nothing is owed when the disk is gone, but for the forgotten requests of the finding |
| | `CompletedOnce` | no step completes an SRB that was already completed by the driver |
| | `CountingInvariant`, `NoWakeupLost` | the semaphore never falls behind the pending list |
| | `StatisticsDrift` | at rest the statistics are off by the aborted requests and nothing else |
| `WnbdRequestsServiceProofs` | `Refinement` | the request path implements `WnbdService` |
| `WnbdRegistryProofs` | `TypeCorrect` | `TypeOK` |
| | `OneAddressEach` | disks never share an address and none is lost |
| | `CountersDrift` | `DeviceCount` and the extension's references are off by what is under way and what was refused |
| | `NothingFreedIsReachable` | no lookup, reference or locked walk leads to freed memory; the unlocked read of the list head does only if its disk was unlinked since |
| | `PnpOwnDisk` | a PnP removal disconnects its own disk, unless its start already came too late |
| | `NothingAfterCleanup` | after the cleanup there is no disk, address or monitor thread |
| `WnbdRemovalProofs` | `Invariant`, `RemovalIsTruthful` | `WnbdRemoveEx` reports what happened to the disk it found |
| | `EveryDiskRemoved` | an uninstall without an error leaves no disk, if no creation was under way and the head of the list stayed while it was read |
| `WnbdOptionsProofs` | `Invariant`, `OptionsInForce` | the values in force and stored are the ones asked for |
| `ScsiDiskProofs` | `Invariant`, `TypeCorrect` | types, and what each stage made of a command's units and widths |
| | `IoIsExact`, `TrimStaysWithin` | the bytes the server is asked for are the ones the host named |
| | `PromisesAreKept` | a command within what the host was told is served |
| | `AnswersAreTrue` | a capacity is within the disk, data within the buffer but for the two unchecked writes, the serial number whole unless it has 255 characters |
| `NbdDaemonProofs` | `TypeCorrect` | `TypeOK` |
| | `NoTornFrames` | frames are never interleaved |
| | `NotedBeforeReply`, `OneAnswer` | a reply finds its request pending, and answers it once |
| | `QuietAtClose`, `NothingOrphaned` | a closed daemon has no reply worker, no dispatcher if they could be waited for and, but for the named exceptions, no disk |
| `NbdNegotiateProofs` | `Invariant`, `TypeCorrect` | `TypeOK`, with any server |
| | `StaysInSync` | with an honest server nothing is left unread or unanswered when the transmission begins |
| | `MapsFaithfully` | the disk has the size, the flags and the limits of the export |

None of the invariants is inductive alone. The arguments, module by module:

**Request path.** `OneOwner` needs to know that an element
being carried by a thread is held by no other (`Held`), and that an element that
is not in use is fresh; `NoUseAfterFree` needs that a thread's position and its
reference agree and that no reference is granted after the rundown began
(`References`); `GoneMeansSettled` needs what each stage of the monitor thread has
emptied, and that nobody can refill it without a reference (`Drained`);
`ReplyMatchesRequest` needs that tags are unique among submitted elements and below the counter
(`Tags`, `RspTag`). `IInv` is the conjunction; the proof has one lemma per action
and part. The wake-ups and the statistics compare counters with cardinalities (`Wakeups`,
`OutstandingCount`, `Gauges`; `CInv` adds them to `IInv`). The sets that are counted are finite
although `Srbs` and `Fetchers` need not be, because they start empty and a step adds
at most one; that is part of the invariant. Between the steps of a handler the gauges differ from the lists
by the requests that are listed and not counted yet, or the reverse: `Gauges` says by which
(`Uncounted`, `Submitting`), and at rest there are none.

**Refinement.** `MInv` is what the mapping needs beyond `IInv`: a removal shows in
`HardRemoveDevice` before a reference is refused, a request that was handed out is a queued one
whose element is no longer among those waiting, and user space answers only what it was given. Each action is
then mapped to the service's action or to a stutter.

**Registry.** The stage of a creation and that of its monitor thread fix what memory, address,
list entry and references the mapping has (`Stages`, `Listing`, `Holds`, `Pnp`, `Cleanup`);
the counters are handled as above (`Counting`).

**Removal.** Both theorems rest on the order of the device list. Disks are appended and
unlinked, so the first disk of a name stays the first of its name until it is unlinked
(`FirstOfName`): a lookup by name that no longer finds the disk means that it is leaving. The
uninstaller walks a list of names that may be stale; `Walk(L)` says that the names stand for a
sequence `L` of disks which contains every listed disk in the order of the list, so that
removing the first disk of the first name never uses up the name of another disk.

**Options.** `Ordered` says of every option what a completed operation would find if it looked,
with at most one operation under way; overlapping operations are `raced` until nobody works on the option.

**SCSI.** One part per stage, from the range check to the NBD command, each relating the
length or offset in the unit and width of that stage to the command; the arithmetic (blocks to
bytes and back, values that fit their field) is in lemmas of its own.

**Daemon.** `Life` and `Removal` tie the stages of the threads to each other and to the
disk, `Hands` gives every dispatcher a request of its own, `Order` says that a request is
fetched, noted, sent, served and answered in this order, `Frames` that only the holder of
`SendLock` is inside a frame of a live connection.

**Negotiation.** `Dialogue` says, for each place of the client, where an honest server is and
which items are on the two streams, position by position: while replies to NBD_OPT_GO are read,
any number of information items and then one acknowledgement, or one error; after the
fallback, the sizes and, if the flags the server received lack NO_ZEROES, the
reserved bytes. The client decides by what the server offered and the server by what the
client asked for; `PropsFit` says that both are the same. `Exported` says that what an honest server put on the
stream is true and that the client has read it, `LimitsArrive` that its limits are known or still on the
stream, which is empty once the disk is mapped.

Assumptions of the constants: the kinds of threads are disjoint and the "no such" values are
none of the others (`ConstantsAssumption`, `ThreadsAssumption`, `RegistryAssumption`,
`DaemonAssumption`, `OptionsAssumption`); options have default values; in `ScsiDisk` a ULONG holds
a whole number of blocks and a UINT64 of ULONGs, the fields of a command are within their widths,
StorPort's buffer covers the blocks of a read or write and is within the adapter's limit, and
the callbacks are those `nbd_daemon.h` gives the library (`WidthsAssumption`,
`SrbsAssumption`, `EmulatedAssumption`, `InterfaceAssumption`, `FlagsAssumption`); in `NbdNegotiate` a
mapping asks for no flag but READ_ONLY, the only one `wnbd-client` sets (`cmd.cpp:147`), and a
dishonest server sends messages the client can parse into some kind, with values within their fields
(`NegotiateAssumption`). TLC evaluates all of them on its instances.

What the proofs changed in the models: `ExactIo` was stated for disks of up to 2^64 bytes
inclusive, for which a read of no blocks at the very end has an offset that wraps to 0;
`Addressable` is now the bound that `IOCTL_WNBD_CREATE` checks. Two CASE expressions with
overlapping guards (`ServiceRequest`, `Emulated`) became IF chains in the order in which the
code tests the conditions: TLC takes the first guard that holds, TLA+ promises none of them.
Lookups and unlinking in `WnbdRegistry` and `WnbdRemoval` are written by list index.

Checked by TLC only: every liveness property (`RemovalReturns`, `ImplementsLiveService`,
`LastDiskTornDown`, `AdministrationReturns`, `ConnectionLossUnmaps`, `RemovedDaemonEnds`,
`NegotiationSettles`), because fairness and `ENABLED` are out of the prover's reach. Every
invariant of a passing run is stated by a theorem.

## 5. Not modelled, and the plan

Not modelled: constant bytes of SCSI responses and byte order on the wire, the configuration
handed to StorPort and the firmware ioctl, driver installation, the command line of
wnbd-client and logging: they keep no state that another component depends on. Time is
counted in retry intervals where calls retry; the two timeouts that declare a
connection stale (`util.c:216`) are a choice of `ResetBegin`. The race on the daemon's socket handle
(`nbd_daemon.cpp:138`) is outside the model, which closes it in one step.
`PROJECT.json` gives the reason for each component.

Next: stale-connection timing with `LastReplyTimestamp`.
