------------------------ MODULE WnbdRequestsProofs ------------------------
(***************************************************************************)
(* TLAPS proofs about WnbdRequests, for any number of SRBs, elements and   *)
(* threads.  IInv is the inductive invariant; the theorems are at the end. *)
(***************************************************************************)
EXTENDS WnbdRequests, FiniteSetTheorems, TLAPS

-----------------------------------------------------------------------------
(* Sequences without repetitions, and what a set of threads holds *)

\* The elements of a sequence, no repetitions in it, what threads hold.
Rng(q) == {q[i] : i \in DOMAIN q}
Once(q) == \A i, j \in DOMAIN q : q[i] = q[j] => i = j
Kept(F, N) == {F[t] : t \in DOMAIN F} \ {N}

\* Appending adds one element, at one place.
LEMMA AppendRange ==
  ASSUME NEW S, NEW q \in Seq(S), NEW e \in S
  PROVE  /\ Rng(Append(q, e)) = Rng(q) \cup {e}
         /\ Once(q) /\ e \notin Rng(q) => Once(Append(q, e))
<1> DEFINE r == Append(q, e)
<1>1. DOMAIN q = 1 .. Len(q) /\ DOMAIN r = 1 .. Len(q) + 1
  OBVIOUS
<1>2. \A i \in DOMAIN q : r[i] = q[i]
  OBVIOUS
<1>3. r[Len(q) + 1] = e
  OBVIOUS
<1>4. Len(q) \in Nat
  OBVIOUS
<1> HIDE DEF r
<1> QED
  BY <1>1, <1>2, <1>3, <1>4 DEF Rng, Once, r

\* Removing the head removes one element from all places.
LEMMA TailRange ==
  ASSUME NEW S, NEW q \in Seq(S), q # <<>>, Once(q)
  PROVE  /\ Rng(Tail(q)) = Rng(q) \ {Head(q)}
         /\ Head(q) \in Rng(q) /\ Head(q) \in S
         /\ Once(Tail(q))
<1> DEFINE r == Tail(q)
<1>0. Len(q) \in Nat /\ Len(q) # 0
  OBVIOUS
<1>1. DOMAIN q = 1 .. Len(q) /\ DOMAIN r = 1 .. Len(q) - 1
  OBVIOUS
<1>2. \A i \in DOMAIN r : r[i] = q[i + 1]
  OBVIOUS
<1>3. Head(q) = q[1] /\ q[1] \in S
  OBVIOUS
<1> HIDE DEF r
<1>4. Once(r)
  BY <1>0, <1>1, <1>2 DEF Once
<1>5. ASSUME NEW x \in Rng(r) PROVE x \in Rng(q) \ {q[1]}
  BY <1>0, <1>1, <1>2 DEF Rng, Once
<1>6. ASSUME NEW x \in Rng(q) \ {q[1]} PROVE x \in Rng(r)
  <2>1. PICK i \in DOMAIN q : x = q[i] /\ i # 1
    BY DEF Rng
  <2>2. i - 1 \in DOMAIN r /\ r[i - 1] = x
    BY <1>0, <1>1, <1>2, <2>1
  <2> QED
    BY <2>2 DEF Rng
<1>7. q[1] \in Rng(q)
  BY <1>0, <1>1 DEF Rng
<1> QED
  BY <1>3, <1>4, <1>5, <1>6, <1>7 DEF r

\* A thread that lets go of what only it holds.
LEMMA KeptDrop ==
  ASSUME NEW T, NEW F, NEW N, F = [t \in T |-> F[t]], NEW t \in T,
         \A u, v \in T : F[u] = F[v] /\ F[u] # N => u = v
  PROVE  /\ Kept([F EXCEPT ![t] = N], N) = Kept(F, N) \ {F[t]}
         /\ F[t] # N => F[t] \in Kept(F, N)
  BY DEF Kept

\* A thread that held nothing takes e.
LEMMA KeptTake ==
  ASSUME NEW T, NEW F, NEW N, F = [t \in T |-> F[t]], NEW t \in T, F[t] = N, NEW e, e # N
  PROVE  Kept([F EXCEPT ![t] = e], N) = Kept(F, N) \cup {e}
  BY DEF Kept

-----------------------------------------------------------------------------
(* Types *)

\* A thread holds an element exactly in the sections that own one.
Held ==
  /\ \A f \in Fetchers : fetchElement[f] # NoElement <=> fetchPc[f] = "dispatch"
  /\ \A r \in Responders : rspElement[r] # NoElement <=> rspPc[r] = "holding"

USE DEF srbVars, elementVars, listVars, removalVars, refVars, fetchVars, rspVars, resetVars,
        FetchPcs

\* Moving a counter keeps the statistics integers.
LEMMA BumpType ==
  ASSUME NEW S \in [StatNames -> Int], NEW n \in StatNames, NEW k \in Int
  PROVE  Bump(S, n, k) \in [StatNames -> Int]
  BY DEF Bump

\* The same for a step of one.
LEMMA BumpUpType ==
  ASSUME NEW S \in [StatNames -> Int], NEW n \in StatNames
  PROVE  Bump(S, n, 1) \in [StatNames -> Int]
  BY DEF Bump

\* The counters the handlers use exist.
LEMMA StatFacts ==
  /\ "OutstandingIOCount" \in StatNames /\ "TotalReceivedIORequests" \in StatNames
  /\ "UnsubmittedIORequests" \in StatNames /\ "TotalSubmittedIORequests" \in StatNames
  /\ "PendingSubmittedIORequests" \in StatNames /\ "TotalReceivedIOReplies" \in StatNames
  /\ "CompletedAbortedIORequests" \in StatNames
  /\ "AbortedSubmittedIORequests" \in StatNames
  /\ "AbortedUnsubmittedIORequests" \in StatNames
  BY DEF StatNames

\* What a completion adds to OutstandingIOCount is a number.
LEMMA SettledInt == \A e : Settled(e) \in Int
  BY DEF Settled

\* A synchronous completion keeps the types.
LEMMA SynchronousTypes ==
  ASSUME TypeOK, NEW s \in Srbs, NEW status \in Statuses, CompleteSynchronously(s, status)
  PROVE  /\ SrbTypes' /\ ElementTypes' /\ ListTypes' /\ FetchTypes' /\ RspTypes'
         /\ ThreadTypes'
<1>1. SrbTypes'
  BY DEF CompleteSynchronously, TypeOK, SrbTypes
<1>2. ElementTypes' /\ ListTypes' /\ FetchTypes' /\ RspTypes' /\ ThreadTypes'
  BY DEF CompleteSynchronously, TypeOK, ElementTypes, ListTypes, FetchTypes, RspTypes,
         ThreadTypes
<1> QED
  BY <1>1, <1>2

\* CompleteRequest keeps the types.
LEMMA CompleteTypes ==
  ASSUME TypeOK, NEW e \in Elements, NEW status \in Statuses, NEW aborted \in BOOLEAN,
         CompleteRequest(e, status, aborted), UNCHANGED <<srbPc, timedOut>>
  PROVE  SrbTypes' /\ ElementTypes'
<1>1. SrbTypes'
  <2>1. completions' \in [Srbs -> Nat]
    <3>1. completions \in [Srbs -> Nat]
      BY DEF TypeOK, SrbTypes
    <3>2. \/ completions' = [completions EXCEPT ![Element[e].Srb] = @]
          \/ completions' = [completions EXCEPT ![Element[e].Srb] = @ + 1]
      BY DEF CompleteRequest
    <3> QED
      BY <3>1, <3>2
  <2>2. SrbStatus' \in [Srbs -> Statuses]
    BY DEF CompleteRequest, TypeOK, SrbTypes
  <2> QED
    BY <2>1, <2>2 DEF TypeOK, SrbTypes
<1>2. ElementTypes'
  BY DEF CompleteRequest, WnbdFreeSrbElement, TypeOK, ElementTypes
<1> QED
  BY <1>1, <1>2

\* An early failure of the dispatch keeps the types.
LEMMA DispatchFailsTypes ==
  ASSUME TypeOK, Held, NEW f \in Fetchers, fetchPc[f] = "dispatch",
         NEW status \in Statuses, NEW pc \in {"failed", "refused"}, DispatchFails(f, status, pc)
  PROVE  /\ SrbTypes' /\ ElementTypes' /\ ListTypes' /\ DeviceTypes' /\ StatTypes'
         /\ RspTypes' /\ ThreadTypes'
         /\ fetchPc' \in [Fetchers -> FetchPcs]
         /\ fetchElement' \in [Fetchers -> Elements \cup {NoElement}]
         /\ delivered' \in SUBSET Requests
         /\ FilledRequest(f) \in Requests
<1>1. fetchElement[f] \in Elements
  BY DEF TypeOK, FetchTypes, Held
<1>2. Element[fetchElement[f]].Aborted \in BOOLEAN /\ FilledRequest(f) \in Requests
  BY <1>1 DEF TypeOK, ElementTypes, FilledRequest, Requests
<1>3. SrbTypes' /\ ElementTypes'
  BY <1>1, <1>2, CompleteTypes DEF DispatchFails
<1>4. StatTypes'
  <2>1. Bump(Stats, "OutstandingIOCount", Settled(fetchElement[f])) \in [StatNames -> Int]
    BY BumpType, StatFacts, SettledInt DEF TypeOK, StatTypes
  <2> QED
    BY <2>1 DEF DispatchFails, StatTypes
<1>5. ListTypes' /\ DeviceTypes' /\ RspTypes' /\ ThreadTypes'
  BY DEF DispatchFails, TypeOK, ListTypes, DeviceTypes, RspTypes, ThreadTypes
<1>6. /\ fetchPc' \in [Fetchers -> FetchPcs]
      /\ fetchElement' \in [Fetchers -> Elements \cup {NoElement}]
      /\ delivered' \in SUBSET Requests
  BY DEF DispatchFails, TypeOK, FetchTypes
<1> QED
  BY <1>2, <1>3, <1>4, <1>5, <1>6

\* Draining one element keeps the types.
LEMMA DrainTypes ==
  ASSUME TypeOK, DrainPendingHead \/ DrainSubmittedHead, UNCHANGED <<srbPc, timedOut>>
  PROVE  SrbTypes' /\ ElementTypes' /\ ListTypes' /\ StatTypes'
<1>1. ASSUME NEW e \in Elements, NEW counter \in StatNames, AbortElement(e, counter)
      PROVE  SrbTypes' /\ ElementTypes' /\ StatTypes'
  <2>1. SrbTypes' /\ ElementTypes'
    BY <1>1, CompleteTypes DEF AbortElement, Statuses
  <2>2. Bump(Stats, "OutstandingIOCount", Settled(e)) \in [StatNames -> Int]
    BY BumpType, StatFacts, SettledInt DEF TypeOK, StatTypes
  <2>3. (IF Element[e].Aborted THEN 0 ELSE 1) \in Int
    OBVIOUS
  <2> QED
    BY <1>1, <2>1, <2>2, <2>3, BumpType DEF AbortElement, StatTypes
<1>2. CASE DrainPendingHead
  <2>1. Head(PendingReqList) \in Elements /\ Tail(PendingReqList) \in Seq(Elements)
    BY <1>2 DEF DrainPendingHead, TypeOK, ListTypes
  <2>2. ListTypes'
    BY <1>2, <2>1 DEF DrainPendingHead, TypeOK, ListTypes
  <2> QED
    BY <1>1, <1>2, <2>1, <2>2, StatFacts DEF DrainPendingHead
<1>3. CASE DrainSubmittedHead
  <2>1. PICK e \in SubmittedReqList : DrainSubmittedHead!(e)
    BY <1>3 DEF DrainSubmittedHead
  <2>2. e \in Elements /\ ListTypes'
    BY <2>1 DEF TypeOK, ListTypes
  <2> QED
    BY <1>1, <2>1, <2>2, StatFacts
<1> QED
  BY <1>2, <1>3

\* Every step keeps the types and Held.
LEMMA TypeStep ==
  ASSUME TypeOK, Held, [Next]_vars
  PROVE  TypeOK' /\ Held'
<1>1. ASSUME NEW s \in Srbs, StartIo(s) PROVE TypeOK' /\ Held'
  <2>1. SrbTypes'
    BY <1>1 DEF StartIo, WnbdAcquireDevice, TypeOK, SrbTypes
  <2>2. DeviceTypes'
    BY <1>1 DEF StartIo, WnbdAcquireDevice, TypeOK, DeviceTypes
  <2>3. StatTypes'
    BY <1>1, BumpUpType, StatFacts DEF StartIo, TypeOK, StatTypes
  <2>4. ElementTypes' /\ ListTypes' /\ FetchTypes' /\ RspTypes' /\ ThreadTypes'
    BY <1>1 DEF StartIo, WnbdAcquireDevice, TypeOK, ElementTypes, ListTypes, FetchTypes,
         RspTypes, ThreadTypes
  <2>5. Held'
    BY <1>1 DEF StartIo, WnbdAcquireDevice, Held, TypeOK, FetchTypes, RspTypes
  <2> QED
    BY <2>1, <2>2, <2>3, <2>4, <2>5 DEF TypeOK
<1>2. ASSUME NEW s \in Srbs, StartIoNoDevice(s) PROVE TypeOK' /\ Held'
  <2>1. SrbTypes' /\ ElementTypes' /\ ListTypes' /\ FetchTypes' /\ RspTypes' /\ ThreadTypes'
    BY <1>2, SynchronousTypes DEF StartIoNoDevice, Statuses
  <2>2. DeviceTypes' /\ StatTypes'
    BY <1>2 DEF StartIoNoDevice, CompleteSynchronously, TypeOK, DeviceTypes, StatTypes
  <2>3. Held'
    BY <1>2 DEF StartIoNoDevice, CompleteSynchronously, CompleteSynchronously, Held,
         TypeOK, FetchTypes, RspTypes
  <2> QED
    BY <2>1, <2>2, <2>3 DEF TypeOK
<1>3. ASSUME NEW s \in Srbs, HandleRemoved(s) PROVE TypeOK' /\ Held'
  <2>1. SrbTypes' /\ ElementTypes' /\ ListTypes' /\ FetchTypes' /\ RspTypes' /\ ThreadTypes'
    BY <1>3, SynchronousTypes DEF HandleRemoved, Statuses
  <2>2. DeviceTypes'
    BY <1>3 DEF HandleRemoved, CompleteSynchronously, WnbdReleaseDevice, TypeOK,
         DeviceTypes
  <2>3. StatTypes'
    BY <1>3, BumpType, StatFacts DEF HandleRemoved, TypeOK, StatTypes
  <2>4. Held'
    BY <1>3 DEF HandleRemoved, CompleteSynchronously, WnbdReleaseDevice,
         CompleteSynchronously, Held, TypeOK, FetchTypes, RspTypes
  <2> QED
    BY <2>1, <2>2, <2>3, <2>4 DEF TypeOK
<1>4. ASSUME NEW s \in Srbs, HandleImmediate(s) PROVE TypeOK' /\ Held'
  <2>1. SrbTypes' /\ ElementTypes' /\ ListTypes' /\ FetchTypes' /\ RspTypes' /\ ThreadTypes'
    BY <1>4, SynchronousTypes DEF HandleImmediate, Statuses
  <2>2. DeviceTypes'
    BY <1>4 DEF HandleImmediate, CompleteSynchronously, WnbdReleaseDevice, TypeOK,
         DeviceTypes
  <2>3. StatTypes'
    BY <1>4, BumpType, StatFacts DEF HandleImmediate, TypeOK, StatTypes
  <2>4. Held'
    BY <1>4 DEF HandleImmediate, CompleteSynchronously, WnbdReleaseDevice,
         CompleteSynchronously, Held, TypeOK, FetchTypes, RspTypes
  <2> QED
    BY <2>1, <2>2, <2>3, <2>4 DEF TypeOK
<1>5. ASSUME NEW s \in Srbs, PendElement(s) PROVE TypeOK' /\ Held'
  <2>1. PICK e \in Allocatable : PendElement(s)!2!(e)
    BY <1>5 DEF PendElement
  <2>2. e \in Elements
    BY ConstantsAssumption DEF Allocatable, TypeOK, ElementTypes, HeapElements
  <2>3. ElementTypes'
    BY <2>1, <2>2 DEF ElementTypes, TypeOK, HeapElements
  <2>4. ListTypes'
    BY <1>5, <2>1, <2>2 DEF PendElement, ListTypes, TypeOK
  <2>5. StatTypes'
    <3>1. Stats \in [StatNames -> Int]
      BY DEF TypeOK, StatTypes
    <3>2. Bump(Stats, "TotalReceivedIORequests", 1) \in [StatNames -> Int]
      BY <3>1, BumpUpType, StatFacts
    <3> QED
      BY <1>5, <3>2, BumpUpType, StatFacts DEF PendElement, StatTypes
  <2>6. SrbTypes'
    BY <1>5 DEF PendElement, TypeOK, SrbTypes
  <2>7. DeviceTypes' /\ FetchTypes' /\ RspTypes' /\ ThreadTypes' /\ Held'
    BY <1>5 DEF PendElement, TypeOK, DeviceTypes, FetchTypes, RspTypes, ThreadTypes, Held
  <2> QED
    BY <2>3, <2>4, <2>5, <2>6, <2>7 DEF TypeOK
<1>6. ASSUME NEW s \in Srbs, SignalPended(s) PROVE TypeOK' /\ Held'
  <2>1. SrbTypes'
    BY <1>6 DEF SignalPended, WnbdReleaseDevice, TypeOK, SrbTypes
  <2>2. DeviceTypes'
    BY <1>6 DEF SignalPended, WnbdReleaseDevice, TypeOK, DeviceTypes
  <2>3. ElementTypes' /\ ListTypes' /\ StatTypes' /\ FetchTypes' /\ RspTypes' /\ ThreadTypes'
    BY <1>6 DEF SignalPended, WnbdReleaseDevice, TypeOK, ElementTypes, ListTypes,
         StatTypes, FetchTypes, RspTypes, ThreadTypes
  <2>4. Held'
    BY <1>6 DEF SignalPended, WnbdReleaseDevice, Held, TypeOK, FetchTypes, RspTypes
  <2> QED
    BY <2>1, <2>2, <2>3, <2>4 DEF TypeOK
<1>7. ASSUME NEW s \in Srbs, PendNoMemory(s) PROVE TypeOK' /\ Held'
  <2>1. SrbTypes' /\ ElementTypes' /\ ListTypes' /\ FetchTypes' /\ RspTypes' /\ ThreadTypes'
    BY <1>7, SynchronousTypes DEF PendNoMemory, Statuses
  <2>2. DeviceTypes'
    BY <1>7 DEF PendNoMemory, CompleteSynchronously, WnbdReleaseDevice, TypeOK,
         DeviceTypes
  <2>3. StatTypes'
    <3>1. Stats \in [StatNames -> Int]
      BY DEF TypeOK, StatTypes
    <3>2. Bump(Stats, "TotalReceivedIORequests", 1) \in [StatNames -> Int]
      BY <3>1, BumpUpType, StatFacts
    <3> QED
      BY <1>7, <3>2, BumpType, StatFacts DEF PendNoMemory, StatTypes
  <2>4. Held'
    BY <1>7 DEF PendNoMemory, CompleteSynchronously, WnbdReleaseDevice,
         CompleteSynchronously, Held, TypeOK, FetchTypes, RspTypes
  <2> QED
    BY <2>1, <2>2, <2>3, <2>4 DEF TypeOK
<1>8. ASSUME BusReset PROVE TypeOK' /\ Held'
  <2>1. SrbTypes'
    BY <1>8 DEF BusReset, TypeOK, SrbTypes
  <2>2. busResets' \in 0..MaxBusResets
    <3>1. busResets \in 0..MaxBusResets
      BY DEF TypeOK, ThreadTypes
    <3>2. busResets < MaxBusResets /\ busResets' = busResets + 1
      BY <1>8 DEF BusReset
    <3> QED
      BY <3>1, <3>2, ConstantsAssumption
  <2>3. ThreadTypes'
    BY <1>8, <2>2 DEF BusReset, TypeOK, ThreadTypes
  <2>4. ElementTypes' /\ ListTypes' /\ DeviceTypes' /\ StatTypes' /\ FetchTypes' /\ RspTypes'
    BY <1>8 DEF BusReset, TypeOK, ElementTypes, ListTypes, DeviceTypes, StatTypes, FetchTypes,
         RspTypes
  <2>5. Held'
    BY <1>8 DEF BusReset, Held
  <2> QED
    BY <2>1, <2>3, <2>4, <2>5 DEF TypeOK
<1>9. ASSUME NEW f \in Fetchers, FetchBegin(f) PROVE TypeOK' /\ Held'
  <2>1. DeviceTypes'
    BY <1>9 DEF FetchBegin, WnbdAcquireDevice, TypeOK, DeviceTypes
  <2>2. FetchTypes'
    BY <1>9 DEF FetchBegin, WnbdAcquireDevice, TypeOK, FetchTypes
  <2>3. SrbTypes' /\ ElementTypes' /\ ListTypes' /\ StatTypes' /\ RspTypes' /\ ThreadTypes'
    BY <1>9 DEF FetchBegin, WnbdAcquireDevice, TypeOK, SrbTypes, ElementTypes, ListTypes,
         StatTypes, RspTypes, ThreadTypes
  <2>4. Held'
    BY <1>9 DEF FetchBegin, WnbdAcquireDevice, Held, TypeOK, FetchTypes, RspTypes
  <2> QED
    BY <2>1, <2>2, <2>3, <2>4 DEF TypeOK
<1>10. ASSUME NEW f \in Fetchers, FetchWait(f) PROVE TypeOK' /\ Held'
  <2>1. DeviceTypes'
    BY <1>10 DEF FetchWait, FetchUnchanged, TypeOK, DeviceTypes
  <2>2. FetchTypes'
    BY <1>10 DEF FetchWait, FetchUnchanged, TypeOK, FetchTypes
  <2>3. SrbTypes' /\ ElementTypes' /\ ListTypes' /\ StatTypes' /\ RspTypes' /\ ThreadTypes'
    BY <1>10 DEF FetchWait, FetchUnchanged, TypeOK, SrbTypes, ElementTypes, ListTypes,
         StatTypes, RspTypes, ThreadTypes
  <2>4. Held'
    BY <1>10 DEF FetchWait, FetchUnchanged, Held, TypeOK, FetchTypes, RspTypes
  <2> QED
    BY <2>1, <2>2, <2>3, <2>4 DEF TypeOK
<1>11. ASSUME NEW f \in Fetchers, FetchWake(f) PROVE TypeOK' /\ Held'
  <2>1. DeviceTypes'
    BY <1>11 DEF FetchWake, FetchUnchanged, TypeOK, DeviceTypes
  <2>2. FetchTypes'
    BY <1>11 DEF FetchWake, FetchUnchanged, TypeOK, FetchTypes
  <2>3. SrbTypes' /\ ElementTypes' /\ ListTypes' /\ StatTypes' /\ RspTypes' /\ ThreadTypes'
    BY <1>11 DEF FetchWake, FetchUnchanged, TypeOK, SrbTypes, ElementTypes, ListTypes,
         StatTypes, RspTypes, ThreadTypes
  <2>4. Held'
    BY <1>11 DEF FetchWake, FetchUnchanged, Held, TypeOK, FetchTypes, RspTypes
  <2> QED
    BY <2>1, <2>2, <2>3, <2>4 DEF TypeOK
<1>12. ASSUME NEW f \in Fetchers, FetchRemoved(f) PROVE TypeOK' /\ Held'
  <2>1. DeviceTypes'
    BY <1>12 DEF FetchRemoved, FetchUnchanged, TypeOK, DeviceTypes
  <2>2. FetchTypes'
    BY <1>12 DEF FetchRemoved, FetchUnchanged, TypeOK, FetchTypes
  <2>3. SrbTypes' /\ ElementTypes' /\ ListTypes' /\ StatTypes' /\ RspTypes' /\ ThreadTypes'
    BY <1>12 DEF FetchRemoved, FetchUnchanged, TypeOK, SrbTypes, ElementTypes, ListTypes,
         StatTypes, RspTypes, ThreadTypes
  <2>4. Held'
    BY <1>12 DEF FetchRemoved, FetchUnchanged, Held, TypeOK, FetchTypes, RspTypes
  <2> QED
    BY <2>1, <2>2, <2>3, <2>4 DEF TypeOK
<1>13. ASSUME NEW f \in Fetchers, FetchAlerted(f) PROVE TypeOK' /\ Held'
  <2>1. DeviceTypes'
    BY <1>13 DEF FetchAlerted, FetchUnchanged, TypeOK, DeviceTypes
  <2>2. FetchTypes'
    BY <1>13 DEF FetchAlerted, FetchUnchanged, TypeOK, FetchTypes
  <2>3. SrbTypes' /\ ElementTypes' /\ ListTypes' /\ StatTypes' /\ RspTypes' /\ ThreadTypes'
    BY <1>13 DEF FetchAlerted, FetchUnchanged, TypeOK, SrbTypes, ElementTypes, ListTypes,
         StatTypes, RspTypes, ThreadTypes
  <2>4. Held'
    BY <1>13 DEF FetchAlerted, FetchUnchanged, Held, TypeOK, FetchTypes, RspTypes
  <2> QED
    BY <2>1, <2>2, <2>3, <2>4 DEF TypeOK
<1>14. ASSUME NEW f \in Fetchers, FetchTakeNone(f) PROVE TypeOK' /\ Held'
  <2>1. DeviceTypes'
    BY <1>14 DEF FetchTakeNone, FetchUnchanged, TypeOK, DeviceTypes
  <2>2. FetchTypes'
    BY <1>14 DEF FetchTakeNone, FetchUnchanged, TypeOK, FetchTypes
  <2>3. SrbTypes' /\ ElementTypes' /\ ListTypes' /\ StatTypes' /\ RspTypes' /\ ThreadTypes'
    BY <1>14 DEF FetchTakeNone, FetchUnchanged, TypeOK, SrbTypes, ElementTypes, ListTypes,
         StatTypes, RspTypes, ThreadTypes
  <2>4. Held'
    BY <1>14 DEF FetchTakeNone, FetchUnchanged, Held, TypeOK, FetchTypes, RspTypes
  <2> QED
    BY <2>1, <2>2, <2>3, <2>4 DEF TypeOK
<1>15. ASSUME NEW f \in Fetchers, FetchTakeRemoved(f) PROVE TypeOK' /\ Held'
  <2>1. ListTypes'
    BY <1>15 DEF FetchTakeRemoved, TypeOK, ListTypes
  <2>2. FetchTypes'
    BY <1>15 DEF FetchTakeRemoved, TypeOK, FetchTypes
  <2>3. SrbTypes' /\ ElementTypes' /\ DeviceTypes' /\ StatTypes' /\ RspTypes' /\ ThreadTypes'
    BY <1>15 DEF FetchTakeRemoved, TypeOK, SrbTypes, ElementTypes, DeviceTypes, StatTypes,
         RspTypes, ThreadTypes
  <2>4. Held'
    BY <1>15 DEF FetchTakeRemoved, Held, TypeOK, FetchTypes, RspTypes
  <2> QED
    BY <2>1, <2>2, <2>3, <2>4 DEF TypeOK
<1>16. ASSUME NEW f \in Fetchers, FetchTake(f) PROVE TypeOK' /\ Held'
  <2>1. Head(PendingReqList) \in Elements /\ Tail(PendingReqList) \in Seq(Elements)
    BY <1>16 DEF FetchTake, TypeOK, ListTypes
  <2>2. ElementTypes'
    <3>1. RequestHandle + 1 \in Nat
      BY DEF TypeOK, DeviceTypes
    <3>2. Element' = [Element EXCEPT ![Head(PendingReqList)].Tag = RequestHandle + 1]
      BY <1>16 DEF FetchTake
    <3> QED
      BY <1>16, <2>1, <3>1, <3>2 DEF FetchTake, TypeOK, ElementTypes
  <2>3. FetchTypes'
    BY <1>16, <2>1 DEF FetchTake, TypeOK, FetchTypes, ZeroRequest, Requests
  <2>4. ListTypes' /\ DeviceTypes'
    BY <1>16, <2>1 DEF FetchTake, TypeOK, ListTypes, DeviceTypes
  <2>5. SrbTypes' /\ StatTypes' /\ RspTypes' /\ ThreadTypes'
    BY <1>16 DEF FetchTake, TypeOK, SrbTypes, StatTypes, RspTypes, ThreadTypes
  <2>6. Held'
    BY <1>16, <2>1, ConstantsAssumption DEF FetchTake, TypeOK, FetchTypes, Held
  <2> QED
    BY <2>2, <2>3, <2>4, <2>5, <2>6 DEF TypeOK
<1>17. ASSUME NEW f \in Fetchers, FetchReject(f) PROVE TypeOK' /\ Held'
  <2>1. /\ SrbTypes' /\ ElementTypes' /\ ListTypes' /\ DeviceTypes' /\ StatTypes'
        /\ RspTypes' /\ ThreadTypes'
    BY <1>17, DispatchFailsTypes DEF FetchReject, Statuses
  <2>2. FetchTypes'
    BY <1>17, DispatchFailsTypes DEF FetchReject, Statuses, TypeOK, FetchTypes
  <2>3. Held'
    BY <1>17 DEF FetchReject, DispatchFails, TypeOK, FetchTypes, Held
  <2> QED
    BY <2>1, <2>2, <2>3 DEF TypeOK
<1>18. ASSUME NEW f \in Fetchers, FetchLockFails(f) PROVE TypeOK' /\ Held'
  <2>1. /\ SrbTypes' /\ ElementTypes' /\ ListTypes' /\ DeviceTypes' /\ StatTypes'
        /\ RspTypes' /\ ThreadTypes'
    BY <1>18, DispatchFailsTypes DEF FetchLockFails, Statuses
  <2>2. FetchTypes'
    BY <1>18, DispatchFailsTypes DEF FetchLockFails, Statuses, TypeOK, FetchTypes
  <2>3. Held'
    BY <1>18 DEF FetchLockFails, DispatchFails, TypeOK, FetchTypes, Held
  <2> QED
    BY <2>1, <2>2, <2>3 DEF TypeOK
<1>19. ASSUME NEW f \in Fetchers, FetchSrbBufferFails(f) PROVE TypeOK' /\ Held'
  <2>1. /\ SrbTypes' /\ ElementTypes' /\ ListTypes' /\ DeviceTypes' /\ StatTypes'
        /\ RspTypes' /\ ThreadTypes'
    BY <1>19, DispatchFailsTypes DEF FetchSrbBufferFails, Statuses
  <2>2. FetchTypes'
    BY <1>19, DispatchFailsTypes DEF FetchSrbBufferFails, Statuses, TypeOK, FetchTypes
  <2>3. Held'
    BY <1>19 DEF FetchSrbBufferFails, DispatchFails, TypeOK, FetchTypes, Held
  <2> QED
    BY <2>1, <2>2, <2>3 DEF TypeOK
<1>20. ASSUME NEW f \in Fetchers, FetchTooSmall(f) PROVE TypeOK' /\ Held'
  <2>1. /\ SrbTypes' /\ ElementTypes' /\ ListTypes' /\ DeviceTypes' /\ StatTypes'
        /\ RspTypes' /\ ThreadTypes'
    BY <1>20, DispatchFailsTypes DEF FetchTooSmall, Statuses
  <2>2. FetchTypes'
    BY <1>20, DispatchFailsTypes DEF FetchTooSmall, Statuses, TypeOK, FetchTypes
  <2>3. Held'
    BY <1>20 DEF FetchTooSmall, DispatchFails, TypeOK, FetchTypes, Held
  <2> QED
    BY <2>1, <2>2, <2>3 DEF TypeOK
<1>21. ASSUME NEW f \in Fetchers, FetchSubmit(f) PROVE TypeOK' /\ Held'
  <2>1. fetchElement[f] \in Elements
    BY <1>21 DEF FetchSubmit, TypeOK, FetchTypes, Held
  <2>2. FilledRequest(f) \in Requests
    BY <2>1 DEF TypeOK, ElementTypes, FilledRequest, Requests
  <2>3. FetchTypes'
    BY <1>21, <2>2 DEF FetchSubmit, TypeOK, FetchTypes
  <2>5. ListTypes'
    BY <1>21, <2>1 DEF FetchSubmit, TypeOK, ListTypes
  <2>6. SrbTypes' /\ ElementTypes' /\ DeviceTypes' /\ StatTypes' /\ RspTypes' /\ ThreadTypes'
    BY <1>21 DEF FetchSubmit, TypeOK, SrbTypes, ElementTypes, DeviceTypes, StatTypes, RspTypes,
       ThreadTypes
  <2>7. Held'
    BY <1>21 DEF FetchSubmit, TypeOK, FetchTypes, Held
  <2> QED
    BY <2>3, <2>5, <2>6, <2>7 DEF TypeOK
<1>22. ASSUME NEW f \in Fetchers, FetchExit(f) PROVE TypeOK' /\ Held'
  <2>1. DeviceTypes'
    BY <1>22 DEF FetchExit, WnbdReleaseDevice, Requests, ZeroRequest, TypeOK, DeviceTypes
  <2>2. FetchTypes'
    BY <1>22 DEF FetchExit, WnbdReleaseDevice, Requests, ZeroRequest, TypeOK, FetchTypes
  <2>3. SrbTypes' /\ ElementTypes' /\ ListTypes' /\ StatTypes' /\ RspTypes' /\ ThreadTypes'
    BY <1>22 DEF FetchExit, WnbdReleaseDevice, Requests, ZeroRequest, TypeOK, SrbTypes,
         ElementTypes, ListTypes, StatTypes, RspTypes, ThreadTypes
  <2>4. Held'
    BY <1>22 DEF FetchExit, WnbdReleaseDevice, Requests, ZeroRequest, Held, TypeOK,
         FetchTypes, RspTypes
  <2> QED
    BY <2>1, <2>2, <2>3, <2>4 DEF TypeOK
<1>23. ASSUME NEW r \in Responders, RspBegin(r) PROVE TypeOK' /\ Held'
  <2>1. DeviceTypes'
    BY <1>23 DEF RspBegin, WnbdAcquireDevice, FetchTypes, TypeOK, DeviceTypes
  <2>2. RspTypes'
    BY <1>23 DEF RspBegin, WnbdAcquireDevice, FetchTypes, TypeOK, RspTypes
  <2>3. SrbTypes' /\ ElementTypes' /\ ListTypes' /\ StatTypes' /\ FetchTypes' /\ ThreadTypes'
    BY <1>23 DEF RspBegin, WnbdAcquireDevice, FetchTypes, TypeOK, SrbTypes, ElementTypes,
         ListTypes, StatTypes, FetchTypes, ThreadTypes
  <2>4. Held'
    BY <1>23 DEF RspBegin, WnbdAcquireDevice, FetchTypes, Held, TypeOK, FetchTypes,
         RspTypes
  <2> QED
    BY <2>1, <2>2, <2>3, <2>4 DEF TypeOK
<1>24. ASSUME NEW r \in Responders, RspRemoveByTag(r) PROVE TypeOK' /\ Held'
  <2>1. PICK e \in Tagged(rspRequest[r].RequestHandle) : RspRemoveByTag(r)!2!(e)
    BY <1>24 DEF RspRemoveByTag
  <2>2. e \in Elements /\ e # NoElement
    BY ConstantsAssumption DEF Tagged, TypeOK, ListTypes
  <2>3. RspTypes' /\ ListTypes'
    BY <1>24, <2>1, <2>2 DEF RspRemoveByTag, TypeOK, RspTypes, ListTypes
  <2>4. SrbTypes' /\ ElementTypes' /\ DeviceTypes' /\ StatTypes' /\ FetchTypes' /\ ThreadTypes'
    BY <1>24 DEF RspRemoveByTag, TypeOK, SrbTypes, ElementTypes, DeviceTypes, StatTypes,
         FetchTypes, ThreadTypes
  <2>5. Held'
    BY <1>24, <2>1, <2>2 DEF RspRemoveByTag, TypeOK, RspTypes, Held
  <2> QED
    BY <2>3, <2>4, <2>5 DEF TypeOK
<1>25. ASSUME NEW r \in Responders, RspNotFound(r) PROVE TypeOK' /\ Held'
  <2>1. DeviceTypes'
    BY <1>25 DEF RspNotFound, WnbdReleaseDevice, Requests, ZeroRequest, TypeOK,
         DeviceTypes
  <2>2. RspTypes'
    BY <1>25 DEF RspNotFound, WnbdReleaseDevice, Requests, ZeroRequest, TypeOK, RspTypes
  <2>3. SrbTypes' /\ ElementTypes' /\ ListTypes' /\ StatTypes' /\ FetchTypes' /\ ThreadTypes'
    BY <1>25 DEF RspNotFound, WnbdReleaseDevice, Requests, ZeroRequest, TypeOK, SrbTypes,
         ElementTypes, ListTypes, StatTypes, FetchTypes, ThreadTypes
  <2>4. Held'
    BY <1>25 DEF RspNotFound, WnbdReleaseDevice, Requests, ZeroRequest, Held, TypeOK,
         FetchTypes, RspTypes
  <2> QED
    BY <2>1, <2>2, <2>3, <2>4 DEF TypeOK
<1>26. ASSUME NEW r \in Responders, RspComplete(r) PROVE TypeOK' /\ Held'
  <2> DEFINE e == rspElement[r]
  <2>1. e \in Elements
    BY <1>26 DEF RspComplete, TypeOK, RspTypes, Held
  <2>2. SrbTypes' /\ ElementTypes'
    <3>1. CASE Element[e].Aborted
      BY <1>26, <3>1, <2>1 DEF RspComplete, WnbdFreeSrbElement, TypeOK, SrbTypes, ElementTypes
    <3>2. CASE ~Element[e].Aborted
      BY <1>26, <3>2, <2>1, CompleteTypes DEF RspComplete, Statuses
    <3> QED
      BY <3>1, <3>2
  <2>3. StatTypes'
    <3> DEFINE a == IF Element[e].Aborted THEN 1 ELSE 0
               o == IF Element[e].Aborted THEN 0 ELSE Settled(e)
               S1 == Bump(Stats, "TotalReceivedIOReplies", 1)
               S2 == Bump(S1, "PendingSubmittedIORequests", -1)
               S3 == Bump(S2, "CompletedAbortedIORequests", a)
               S4 == Bump(S3, "OutstandingIOCount", o)
    <3>1. a \in Int /\ o \in Int
      BY SettledInt
    <3>2. Stats' = S4
      BY <1>26 DEF RspComplete
    <3> HIDE DEF a, o
    <3>0. Stats \in [StatNames -> Int] /\ -1 \in Int
      BY DEF TypeOK, StatTypes
    <3>3. S1 \in [StatNames -> Int]
      BY <3>0, BumpUpType, StatFacts
    <3> HIDE DEF S1
    <3>4. S2 \in [StatNames -> Int]
      BY <3>0, <3>3, BumpType, StatFacts
    <3> HIDE DEF S2
    <3>5. S3 \in [StatNames -> Int]
      BY <3>1, <3>4, BumpType, StatFacts
    <3> HIDE DEF S3
    <3> QED
      BY <3>1, <3>2, <3>5, BumpType, StatFacts DEF StatTypes
  <2>4. DeviceTypes' /\ RspTypes'
    BY <1>26 DEF RspComplete, WnbdReleaseDevice, TypeOK, DeviceTypes, RspTypes, Requests, ZeroRequest
  <2>5. ListTypes' /\ FetchTypes' /\ ThreadTypes'
    BY <1>26 DEF RspComplete, TypeOK, ListTypes, FetchTypes, ThreadTypes
  <2>6. Held'
    BY <1>26 DEF RspComplete, TypeOK, RspTypes, Held
  <2> QED
    BY <2>2, <2>3, <2>4, <2>5, <2>6 DEF TypeOK
<1>27. ASSUME NEW x \in Resetters, ResetBegin(x) PROVE TypeOK' /\ Held'
  <2>1. DeviceTypes'
    BY <1>27 DEF ResetBegin, WnbdAcquireDevice, TypeOK, DeviceTypes
  <2>2. ThreadTypes'
    BY <1>27 DEF ResetBegin, WnbdAcquireDevice, TypeOK, ThreadTypes
  <2>3. SrbTypes' /\ ElementTypes' /\ ListTypes' /\ StatTypes' /\ FetchTypes' /\ RspTypes'
    BY <1>27 DEF ResetBegin, WnbdAcquireDevice, TypeOK, SrbTypes, ElementTypes, ListTypes,
         StatTypes, FetchTypes, RspTypes
  <2>4. Held'
    BY <1>27 DEF ResetBegin, WnbdAcquireDevice, Held, TypeOK, FetchTypes, RspTypes
  <2> QED
    BY <2>1, <2>2, <2>3, <2>4 DEF TypeOK
<1>28. ASSUME NEW x \in Resetters, ResetDrains(x) PROVE TypeOK' /\ Held'
  <2>1. SrbTypes' /\ ElementTypes' /\ ListTypes' /\ StatTypes'
    BY <1>28, DrainTypes DEF ResetDrains
  <2>2. DeviceTypes' /\ FetchTypes' /\ RspTypes' /\ Held'
    BY <1>28 DEF ResetDrains, TypeOK, DeviceTypes, FetchTypes, RspTypes, Held
  <2>3. ThreadTypes'
    BY <1>28 DEF ResetDrains, TypeOK, ThreadTypes
  <2> QED
    BY <2>1, <2>2, <2>3 DEF TypeOK
<1>29. ASSUME NEW x \in Resetters, ResetDrained(x) PROVE TypeOK' /\ Held'
  <2>1. DeviceTypes'
    BY <1>29 DEF ResetDrained, WnbdReleaseDevice, TypeOK, DeviceTypes
  <2>2. ThreadTypes'
    BY <1>29 DEF ResetDrained, WnbdReleaseDevice, TypeOK, ThreadTypes
  <2>3. SrbTypes' /\ ElementTypes' /\ ListTypes' /\ StatTypes' /\ FetchTypes' /\ RspTypes'
    BY <1>29 DEF ResetDrained, WnbdReleaseDevice, TypeOK, SrbTypes, ElementTypes,
         ListTypes, StatTypes, FetchTypes, RspTypes
  <2>4. Held'
    BY <1>29 DEF ResetDrained, WnbdReleaseDevice, Held, TypeOK, FetchTypes, RspTypes
  <2> QED
    BY <2>1, <2>2, <2>3, <2>4 DEF TypeOK
<1>30. ASSUME NEW d \in Removers, RemoveQuery(d) PROVE TypeOK' /\ Held'
  <2>1. DeviceTypes'
    BY <1>30 DEF RemoveQuery, RemoveUnchanged, TypeOK, DeviceTypes
  <2>2. ThreadTypes'
    BY <1>30 DEF RemoveQuery, RemoveUnchanged, TypeOK, ThreadTypes
  <2>3. SrbTypes' /\ ElementTypes' /\ ListTypes' /\ StatTypes' /\ FetchTypes' /\ RspTypes'
    BY <1>30 DEF RemoveQuery, RemoveUnchanged, TypeOK, SrbTypes, ElementTypes, ListTypes,
         StatTypes, FetchTypes, RspTypes
  <2>4. Held'
    BY <1>30 DEF RemoveQuery, RemoveUnchanged, Held, TypeOK, FetchTypes, RspTypes
  <2> QED
    BY <2>1, <2>2, <2>3, <2>4 DEF TypeOK
<1>31. ASSUME NEW d \in Removers, RemoveBegin(d) PROVE TypeOK' /\ Held'
  <2>1. DeviceTypes'
    BY <1>31 DEF RemoveBegin, RemoveUnchanged, WnbdAcquireDevice, TypeOK, DeviceTypes
  <2>2. ThreadTypes'
    BY <1>31 DEF RemoveBegin, RemoveUnchanged, WnbdAcquireDevice, TypeOK, ThreadTypes
  <2>3. SrbTypes' /\ ElementTypes' /\ ListTypes' /\ StatTypes' /\ FetchTypes' /\ RspTypes'
    BY <1>31 DEF RemoveBegin, RemoveUnchanged, WnbdAcquireDevice, TypeOK, SrbTypes,
         ElementTypes, ListTypes, StatTypes, FetchTypes, RspTypes
  <2>4. Held'
    BY <1>31 DEF RemoveBegin, RemoveUnchanged, WnbdAcquireDevice, Held, TypeOK,
         FetchTypes, RspTypes
  <2> QED
    BY <2>1, <2>2, <2>3, <2>4 DEF TypeOK
<1>32. ASSUME NEW d \in Removers, RemoveSignal(d) PROVE TypeOK' /\ Held'
  <2>1. DeviceTypes'
    BY <1>32 DEF RemoveSignal, RemoveUnchanged, WnbdReleaseDevice, TypeOK, DeviceTypes
  <2>2. ThreadTypes'
    BY <1>32 DEF RemoveSignal, RemoveUnchanged, WnbdReleaseDevice, TypeOK, ThreadTypes
  <2>3. SrbTypes' /\ ElementTypes' /\ ListTypes' /\ StatTypes' /\ FetchTypes' /\ RspTypes'
    BY <1>32 DEF RemoveSignal, RemoveUnchanged, WnbdReleaseDevice, TypeOK, SrbTypes,
         ElementTypes, ListTypes, StatTypes, FetchTypes, RspTypes
  <2>4. Held'
    BY <1>32 DEF RemoveSignal, RemoveUnchanged, WnbdReleaseDevice, Held, TypeOK,
         FetchTypes, RspTypes
  <2> QED
    BY <2>1, <2>2, <2>3, <2>4 DEF TypeOK
<1>33. ASSUME NEW d \in Removers, RemoveDone(d) PROVE TypeOK' /\ Held'
  <2>1. DeviceTypes'
    BY <1>33 DEF RemoveDone, RemoveUnchanged, TypeOK, DeviceTypes
  <2>2. ThreadTypes'
    BY <1>33 DEF RemoveDone, RemoveUnchanged, TypeOK, ThreadTypes
  <2>3. SrbTypes' /\ ElementTypes' /\ ListTypes' /\ StatTypes' /\ FetchTypes' /\ RspTypes'
    BY <1>33 DEF RemoveDone, RemoveUnchanged, TypeOK, SrbTypes, ElementTypes, ListTypes,
         StatTypes, FetchTypes, RspTypes
  <2>4. Held'
    BY <1>33 DEF RemoveDone, RemoveUnchanged, Held, TypeOK, FetchTypes, RspTypes
  <2> QED
    BY <2>1, <2>2, <2>3, <2>4 DEF TypeOK
<1>34. ASSUME WnbdCleanupAllDevices PROVE TypeOK' /\ Held'
  <2>1. DeviceTypes'
    BY <1>34 DEF WnbdCleanupAllDevices, TypeOK, DeviceTypes
  <2>2. SrbTypes' /\ ElementTypes' /\ ListTypes' /\ StatTypes' /\ FetchTypes' /\ RspTypes' /\ ThreadTypes'
    BY <1>34 DEF WnbdCleanupAllDevices, TypeOK, SrbTypes, ElementTypes, ListTypes,
         StatTypes, FetchTypes, RspTypes, ThreadTypes
  <2>3. Held'
    BY <1>34 DEF WnbdCleanupAllDevices, Held, TypeOK, FetchTypes, RspTypes
  <2> QED
    BY <2>1, <2>2, <2>3 DEF TypeOK
<1>35. ASSUME MonitorWake PROVE TypeOK' /\ Held'
  <2>1. DeviceTypes'
    BY <1>35 DEF MonitorWake, MonitorUnchanged, MonitorPcs, TypeOK, DeviceTypes
  <2>2. ThreadTypes'
    BY <1>35 DEF MonitorWake, MonitorUnchanged, MonitorPcs, TypeOK, ThreadTypes
  <2>3. SrbTypes' /\ ElementTypes' /\ ListTypes' /\ StatTypes' /\ FetchTypes' /\ RspTypes'
    BY <1>35 DEF MonitorWake, MonitorUnchanged, MonitorPcs, TypeOK, SrbTypes,
         ElementTypes, ListTypes, StatTypes, FetchTypes, RspTypes
  <2>4. Held'
    BY <1>35 DEF MonitorWake, MonitorUnchanged, MonitorPcs, Held, TypeOK, FetchTypes,
         RspTypes
  <2> QED
    BY <2>1, <2>2, <2>3, <2>4 DEF TypeOK
<1>36. ASSUME MonitorRundown PROVE TypeOK' /\ Held'
  <2>1. DeviceTypes'
    BY <1>36 DEF MonitorRundown, MonitorUnchanged, MonitorPcs, TypeOK, DeviceTypes
  <2>2. ThreadTypes'
    BY <1>36 DEF MonitorRundown, MonitorUnchanged, MonitorPcs, TypeOK, ThreadTypes
  <2>3. SrbTypes' /\ ElementTypes' /\ ListTypes' /\ StatTypes' /\ FetchTypes' /\ RspTypes'
    BY <1>36 DEF MonitorRundown, MonitorUnchanged, MonitorPcs, TypeOK, SrbTypes,
         ElementTypes, ListTypes, StatTypes, FetchTypes, RspTypes
  <2>4. Held'
    BY <1>36 DEF MonitorRundown, MonitorUnchanged, MonitorPcs, Held, TypeOK, FetchTypes,
         RspTypes
  <2> QED
    BY <2>1, <2>2, <2>3, <2>4 DEF TypeOK
<1>37. ASSUME MonitorRundownOver PROVE TypeOK' /\ Held'
  <2>1. DeviceTypes'
    BY <1>37 DEF MonitorRundownOver, MonitorUnchanged, MonitorPcs, TypeOK, DeviceTypes
  <2>2. ThreadTypes'
    BY <1>37 DEF MonitorRundownOver, MonitorUnchanged, MonitorPcs, TypeOK, ThreadTypes
  <2>3. SrbTypes' /\ ElementTypes' /\ ListTypes' /\ StatTypes' /\ FetchTypes' /\ RspTypes'
    BY <1>37 DEF MonitorRundownOver, MonitorUnchanged, MonitorPcs, TypeOK, SrbTypes,
         ElementTypes, ListTypes, StatTypes, FetchTypes, RspTypes
  <2>4. Held'
    BY <1>37 DEF MonitorRundownOver, MonitorUnchanged, MonitorPcs, Held, TypeOK,
         FetchTypes, RspTypes
  <2> QED
    BY <2>1, <2>2, <2>3, <2>4 DEF TypeOK
<1>38. ASSUME MonitorDrained PROVE TypeOK' /\ Held'
  <2>1. DeviceTypes'
    BY <1>38 DEF MonitorDrained, MonitorUnchanged, MonitorPcs, TypeOK, DeviceTypes
  <2>2. ThreadTypes'
    BY <1>38 DEF MonitorDrained, MonitorUnchanged, MonitorPcs, TypeOK, ThreadTypes
  <2>3. SrbTypes' /\ ElementTypes' /\ ListTypes' /\ StatTypes' /\ FetchTypes' /\ RspTypes'
    BY <1>38 DEF MonitorDrained, MonitorUnchanged, MonitorPcs, TypeOK, SrbTypes,
         ElementTypes, ListTypes, StatTypes, FetchTypes, RspTypes
  <2>4. Held'
    BY <1>38 DEF MonitorDrained, MonitorUnchanged, MonitorPcs, Held, TypeOK, FetchTypes,
         RspTypes
  <2> QED
    BY <2>1, <2>2, <2>3, <2>4 DEF TypeOK
<1>39. ASSUME MonitorDrains PROVE TypeOK' /\ Held'
  <2>1. SrbTypes' /\ ElementTypes' /\ ListTypes' /\ StatTypes'
    BY <1>39, DrainTypes DEF MonitorDrains, MonitorUnchanged
  <2>2. DeviceTypes' /\ FetchTypes' /\ RspTypes' /\ ThreadTypes' /\ Held'
    BY <1>39 DEF MonitorDrains, MonitorUnchanged, TypeOK, DeviceTypes, FetchTypes, RspTypes,
         ThreadTypes, Held
  <2> QED
    BY <2>1, <2>2 DEF TypeOK
<1>40. ASSUME MonitorUnlink PROVE TypeOK' /\ Held'
  <2>1. ElementTypes'
    BY <1>40 DEF MonitorUnlink, MonitorUnchanged, MonitorPcs, TypeOK, ElementTypes
  <2>2. ThreadTypes'
    BY <1>40 DEF MonitorUnlink, MonitorUnchanged, MonitorPcs, TypeOK, ThreadTypes
  <2>3. SrbTypes' /\ ListTypes' /\ DeviceTypes' /\ StatTypes' /\ FetchTypes' /\ RspTypes'
    BY <1>40 DEF MonitorUnlink, MonitorUnchanged, MonitorPcs, TypeOK, SrbTypes, ListTypes,
         DeviceTypes, StatTypes, FetchTypes, RspTypes
  <2>4. Held'
    BY <1>40 DEF MonitorUnlink, MonitorUnchanged, MonitorPcs, Held, TypeOK, FetchTypes,
         RspTypes
  <2> QED
    BY <2>1, <2>2, <2>3, <2>4 DEF TypeOK
<1>42. ASSUME NEW f \in Fetchers, FetchCount(f) PROVE TypeOK' /\ Held'
  <2>1. FetchTypes'
    BY <1>42 DEF FetchCount, TypeOK, FetchTypes
  <2>2. StatTypes'
    <3>0. Stats \in [StatNames -> Int]
      BY DEF TypeOK, StatTypes
    <3>1. PICK S \in [StatNames -> Int] : S = Bump(Stats, "UnsubmittedIORequests", -1)
      <4>1. PICK k \in Int : k = -1
        OBVIOUS
      <4>2. Bump(Stats, "UnsubmittedIORequests", k) \in [StatNames -> Int]
        BY <3>0, BumpType, StatFacts
      <4> QED
        BY <4>1, <4>2
    <3>2. PICK T \in [StatNames -> Int] : T = Bump(S, "TotalSubmittedIORequests", 1)
      BY BumpUpType, StatFacts
    <3>3. PICK U \in [StatNames -> Int] : U = Bump(T, "PendingSubmittedIORequests", 1)
      BY BumpUpType, StatFacts
    <3>4. Stats' = S \/ Stats' = U
      BY <1>42, <3>1, <3>2, <3>3 DEF FetchCount
    <3> QED
      BY <3>4 DEF StatTypes
  <2>3. SrbTypes' /\ ElementTypes' /\ ListTypes' /\ DeviceTypes' /\ RspTypes' /\ ThreadTypes'
    BY <1>42 DEF FetchCount, TypeOK, SrbTypes, ElementTypes, ListTypes, DeviceTypes, RspTypes,
       ThreadTypes
  <2>4. Held'
    BY <1>42 DEF FetchCount, TypeOK, FetchTypes, Held
  <2> QED
    BY <2>1, <2>2, <2>3, <2>4 DEF TypeOK
<1>41. CASE UNCHANGED vars
  BY <1>41 DEF vars, Held, TypeOK, SrbTypes, ElementTypes, ListTypes, DeviceTypes, StatTypes,
         FetchTypes, RspTypes, ThreadTypes
<1> QED
  BY <1>1, <1>2, <1>3, <1>4, <1>5, <1>6, <1>7, <1>8, <1>9, <1>10, <1>11, <1>12,
         <1>13, <1>14, <1>15, <1>16, <1>17, <1>18, <1>19, <1>20, <1>21, <1>22, <1>23,
         <1>24, <1>25, <1>26, <1>27, <1>28, <1>29, <1>30, <1>31, <1>32, <1>33, <1>34,
         <1>35, <1>36, <1>37, <1>38, <1>39, <1>40, <1>41, <1>42
  DEF Next, StartIoSteps, FetchSteps, RspSteps, ResetSteps, MonitorSteps

\* Type correctness of the request path: every variable of the driver keeps the
\* range its C declaration or its handler gives it.
THEOREM TypeCorrect == Spec => []TypeOK
<1>1. Init => TypeOK /\ Held
  <2> SUFFICES ASSUME Init PROVE TypeOK /\ Held
    OBVIOUS
  <2>1. SrbTypes /\ ElementTypes /\ ListTypes
    BY DEF Init, SrbTypes, ElementTypes, ListTypes, Statuses
  <2>2. DeviceTypes
    BY DEF Init, DeviceTypes
  <2>4. StatTypes
    BY DEF Init, StatTypes
  <2>5. ThreadTypes
    BY ConstantsAssumption DEF Init, ThreadTypes, MonitorPcs
  <2>3. FetchTypes /\ RspTypes /\ Held
    BY DEF Init, FetchTypes, RspTypes, Held, Requests, ZeroRequest
  <2> QED
    BY <2>1, <2>2, <2>3, <2>4, <2>5 DEF TypeOK
<1>2. (TypeOK /\ Held) /\ [Next]_vars => (TypeOK /\ Held)'
  BY TypeStep
<1> QED
  BY <1>1, <1>2, PTL DEF Spec

-----------------------------------------------------------------------------
(* Owners: OneOwner and ElementPerOwedSrb *)

\* An SRB that was not queued was not completed either.
Fresh == \A s \in Srbs : srbPc[s] \in {"idle", "entered"} => completions[s] = 0

Owners == OneOwner /\ ElementPerOwedSrb /\ Fresh

placeVars == <<PendingReqList, SubmittedReqList, dropped, SrbElementPool, heapUsed,
               fetchElement, rspElement>>

\* The three places that are functions, as the lemmas above see them.
LEMMA Places ==
  ASSUME TypeOK
  PROVE  /\ PendingElements = Rng(PendingReqList) /\ PendingOnce = Once(PendingReqList)
         /\ FetchHeld = Kept(fetchElement, NoElement)
         /\ RspHeld = Kept(rspElement, NoElement)
  BY DEF TypeOK, FetchTypes, RspTypes, PendingElements, PendingOnce, Rng, Once, FetchHeld,
         RspHeld, Kept

\* The same in the next state.
LEMMA PlacesNext ==
  ASSUME TypeOK'
  PROVE  /\ PendingElements' = Rng(PendingReqList') /\ PendingOnce' = Once(PendingReqList')
         /\ FetchHeld' = Kept(fetchElement', NoElement)
         /\ RspHeld' = Kept(rspElement', NoElement)
  BY DEF TypeOK, FetchTypes, RspTypes, PendingElements, PendingOnce, Rng, Once, FetchHeld,
         RspHeld, Kept

\* A step that moves no element keeps OneOwner and the places.
LEMMA SamePlaces ==
  ASSUME UNCHANGED placeVars
  PROVE  /\ PendingElements' = PendingElements /\ FetchHeld' = FetchHeld
         /\ RspHeld' = RspHeld /\ LiveElements' = LiveElements /\ FreeElements' = FreeElements
         /\ OneOwner => OneOwner'
<1>1. /\ PendingElements' = PendingElements /\ FetchHeld' = FetchHeld
      /\ RspHeld' = RspHeld /\ LiveElements' = LiveElements /\ FreeElements' = FreeElements
  BY DEF placeVars, PendingElements, FetchHeld, RspHeld, LiveElements, FreeElements
<1>2. PlacesDisjoint => PlacesDisjoint'
  BY <1>1 DEF placeVars, PlacesDisjoint
<1>3. PendingOnce /\ HeldOnce => PendingOnce' /\ HeldOnce'
  BY DEF placeVars, PendingOnce, HeldOnce
<1> QED
  BY <1>1, <1>2, <1>3 DEF OneOwner

\* A step that keeps the elements in use and what is owed keeps their match.
LEMMA SameElements ==
  ASSUME ElementPerOwedSrb, LiveElements' = LiveElements,
         \A s \in Srbs : Owed(s)' <=> Owed(s),
         \A e \in LiveElements : /\ Element'[e].Srb = Element[e].Srb
                                 /\ Element'[e].Completed = Element[e].Completed
                                 /\ Element'[e].Aborted = Element[e].Aborted
  PROVE  ElementPerOwedSrb'
<1>1. \A s \in Srbs : Owed(s)' => \E e \in LiveElements' : Element'[e].Srb = s
  BY DEF ElementPerOwedSrb
<1>2. \A e \in LiveElements' :
        /\ Element'[e].Srb \in Srbs
        /\ \A s \in Srbs : s = Element'[e].Srb => Owed(s)'
        /\ ~Element'[e].Completed /\ ~Element'[e].Aborted
  BY DEF ElementPerOwedSrb
<1>3. \A d, e \in LiveElements' : Element'[d].Srb = Element'[e].Srb => d = e
  BY DEF ElementPerOwedSrb
<1>4. \A e \in LiveElements' : Owed(Element[e].Srb)'
  BY <1>2 DEF Owed
<1> QED
  BY <1>1, <1>2, <1>3, <1>4 DEF ElementPerOwedSrb, Owed

\* CompleteRequest of an element in use that thereby leaves its place.
LEMMA Completing ==
  ASSUME TypeOK, OneOwner, ElementPerOwedSrb, NEW e \in LiveElements,
         NEW status, NEW aborted, CompleteRequest(e, status, aborted),
         srbPc' = srbPc, e \notin LiveElements', LiveElements \ {e} \subseteq LiveElements',
         PendingElements' \subseteq PendingElements, FetchHeld' \subseteq FetchHeld,
         SubmittedReqList' \subseteq SubmittedReqList, RspHeld' \subseteq RspHeld,
         dropped' \subseteq dropped
  PROVE  PlacesDisjoint' /\ ElementPerOwedSrb'
<1>1. LiveElements' = LiveElements \ {e}
  BY DEF LiveElements
<1>2. LiveElements \subseteq Elements
  BY DEF LiveElements, PendingElements, FetchHeld, RspHeld, TypeOK, ListTypes, FetchTypes,
         RspTypes
<1>3. FreeElements' \subseteq FreeElements \cup {e}
  BY <1>2 DEF CompleteRequest, WnbdFreeSrbElement, FreeElements
<1>4. PlacesDisjoint'
  <2>1. PlacesDisjoint
    BY DEF OneOwner
  <2>2. FreeElements' \cap LiveElements' = {}
    BY <2>1, <1>1, <1>3 DEF PlacesDisjoint
  <2> QED
    BY <2>1, <2>2 DEF PlacesDisjoint
<1> DEFINE t == Element[e].Srb
<1>5. t \in Srbs /\ Owed(t) /\ ~Element[e].Completed
  BY DEF ElementPerOwedSrb
<1>6. completions'[t] = 1 /\ \A s \in Srbs \ {t} : completions'[s] = completions[s]
  BY <1>5 DEF CompleteRequest, TypeOK, SrbTypes, Owed
<1>7. \A s \in Srbs : Owed(s)' <=> Owed(s) /\ s # t
  BY <1>5, <1>6 DEF Owed
<1>8. \A d \in Elements \ {e} : Element'[d] = Element[d]
  BY DEF CompleteRequest, TypeOK, ElementTypes
<1> HIDE DEF t
<1>9. \A s \in Srbs : Owed(s)' => \E d \in LiveElements' : Element'[d].Srb = s
  BY <1>1, <1>2, <1>7, <1>8 DEF ElementPerOwedSrb, t
<1>10. \A d \in LiveElements' :
         /\ Element'[d].Srb \in Srbs
         /\ \A s \in Srbs : s = Element'[d].Srb => Owed(s)'
         /\ ~Element'[d].Completed /\ ~Element'[d].Aborted
  BY <1>1, <1>2, <1>7, <1>8 DEF ElementPerOwedSrb, t
<1>11. \A c, d \in LiveElements' : Element'[c].Srb = Element'[d].Srb => c = d
  BY <1>1, <1>2, <1>8 DEF ElementPerOwedSrb
<1>12. \A d \in LiveElements' : /\ srbPc'[Element'[d].Srb] \in {"queued", "pended"}
                               /\ completions'[Element'[d].Srb] = 0
  BY <1>10 DEF Owed
<1> QED
  BY <1>4, <1>9, <1>10, <1>11, <1>12 DEF ElementPerOwedSrb, Owed

\* The steps that neither move nor change an element, nor touch an SRB.
Quiet ==
  \/ \E f \in Fetchers : \/ FetchBegin(f) \/ FetchAlerted(f) \/ FetchWait(f) \/ FetchWake(f)
                         \/ FetchRemoved(f) \/ FetchTakeNone(f) \/ FetchCount(f)
                         \/ FetchExit(f)
  \/ \E r \in Responders : RspBegin(r) \/ RspNotFound(r)
  \/ \E x \in Resetters : ResetBegin(x) \/ ResetDrained(x)
  \/ \E d \in Removers : RemoveQuery(d) \/ RemoveBegin(d) \/ RemoveSignal(d) \/ RemoveDone(d)
  \/ BusReset \/ WnbdCleanupAllDevices
  \/ MonitorWake \/ MonitorRundown \/ MonitorRundownOver \/ MonitorDrained

\* They leave these variables alone.
LEMMA QuietSteps ==
  ASSUME Quiet \/ UNCHANGED vars
  PROVE  UNCHANGED <<placeVars, srbPc, completions, SrbStatus, Element>>
<1>1. ASSUME NEW f \in Fetchers,
             FetchBegin(f) \/ FetchAlerted(f) \/ FetchWait(f) \/ FetchWake(f)
             \/ FetchRemoved(f) \/ FetchTakeNone(f) \/ FetchCount(f) \/ FetchExit(f)
      PROVE  UNCHANGED <<placeVars, srbPc, completions, SrbStatus, Element>>
  BY <1>1 DEF placeVars, FetchBegin, FetchAlerted, FetchWait, FetchWake, FetchRemoved,
              FetchTakeNone, FetchCount, FetchExit, FetchUnchanged
<1>2. ASSUME NEW r \in Responders, RspBegin(r) \/ RspNotFound(r)
      PROVE  UNCHANGED <<placeVars, srbPc, completions, SrbStatus, Element>>
  BY <1>2 DEF placeVars, RspBegin, RspNotFound
<1>3. ASSUME NEW x \in Resetters, ResetBegin(x) \/ ResetDrained(x)
      PROVE  UNCHANGED <<placeVars, srbPc, completions, SrbStatus, Element>>
  BY <1>3 DEF placeVars, ResetBegin, ResetDrained
<1>4. ASSUME NEW d \in Removers,
             RemoveQuery(d) \/ RemoveBegin(d) \/ RemoveSignal(d) \/ RemoveDone(d)
      PROVE  UNCHANGED <<placeVars, srbPc, completions, SrbStatus, Element>>
  BY <1>4 DEF placeVars, RemoveQuery, RemoveBegin, RemoveSignal, RemoveDone, RemoveUnchanged
<1>5. ASSUME BusReset \/ WnbdCleanupAllDevices
      PROVE  UNCHANGED <<placeVars, srbPc, completions, SrbStatus, Element>>
  BY <1>5 DEF placeVars, BusReset, WnbdCleanupAllDevices
<1>6. ASSUME MonitorWake \/ MonitorRundown \/ MonitorRundownOver \/ MonitorDrained
      PROVE  UNCHANGED <<placeVars, srbPc, completions, SrbStatus, Element>>
  BY <1>6 DEF placeVars, MonitorWake, MonitorRundown, MonitorRundownOver, MonitorDrained,
              MonitorUnchanged
<1>7. ASSUME UNCHANGED vars
      PROVE  UNCHANGED <<placeVars, srbPc, completions, SrbStatus, Element>>
  BY <1>7 DEF placeVars, vars
<1> QED
  BY <1>1, <1>2, <1>3, <1>4, <1>5, <1>6, <1>7 DEF Quiet

\* An SRB enters or leaves HwStartIo, completed or not, and no element moves.
LEMMA SrbOnlyOwners ==
  ASSUME Owners, UNCHANGED placeVars, UNCHANGED Element, NEW s \in Srbs,
         Owed(s)' <=> Owed(s),
         srbPc'[s] \in {"idle", "entered"} => completions'[s] = 0,
         \A t \in Srbs \ {s} : srbPc'[t] = srbPc[t] /\ completions'[t] = completions[t]
  PROVE  Owners'
<1>1. \A t \in Srbs : Owed(t)' <=> Owed(t)
  BY DEF Owed
<1>2. ElementPerOwedSrb'
  BY <1>1, SamePlaces, SameElements DEF Owners
<1>3. Fresh'
  BY DEF Owners, Fresh
<1> QED
  BY <1>2, <1>3, SamePlaces DEF Owners

\* A synchronous completion.
LEMMA SynchronousOwners ==
  ASSUME TypeOK, Owners, NEW s \in Srbs, srbPc[s] \in {"idle", "entered"}, NEW status,
         CompleteSynchronously(s, status)
  PROVE  Owners'
<1>1. UNCHANGED placeVars /\ UNCHANGED Element
  BY DEF CompleteSynchronously, placeVars
<1>2. /\ srbPc'[s] = "returned"
      /\ \A t \in Srbs \ {s} : srbPc'[t] = srbPc[t] /\ completions'[t] = completions[t]
  BY DEF CompleteSynchronously, TypeOK, SrbTypes
<1>3. Owed(s)' <=> Owed(s)
  BY <1>2 DEF Owed
<1>4. srbPc'[s] \in {"idle", "entered"} => completions'[s] = 0
  BY <1>2
<1> QED
  BY <1>1, <1>2, <1>3, <1>4, SrbOnlyOwners

\* WnbdPendElement: a free element starts to stand for a new SRB.
LEMMA PendElementOwners ==
  ASSUME TypeOK, TypeOK', Owners, NEW s \in Srbs, PendElement(s)
  PROVE  Owners'
<1>1. PICK e \in Allocatable : PendElement(s)!2!(e)
  BY DEF PendElement
<1>2. e \in FreeElements /\ e \in Elements
  BY ConstantsAssumption DEF Allocatable, TypeOK, ElementTypes, HeapElements, FreeElements
<1>3. e \notin LiveElements
  BY <1>2 DEF Owners, OneOwner, PlacesDisjoint
<1>4. PendingElements' = PendingElements \cup {e} /\ PendingOnce'
  <2>1. e \notin Rng(PendingReqList)
    BY <1>3, Places DEF LiveElements
  <2>2. PendingReqList \in Seq(Elements) /\ Once(PendingReqList)
    BY Places DEF TypeOK, ListTypes, Owners, OneOwner
  <2> QED
    BY <1>1, <1>2, <2>1, <2>2, AppendRange, Places, PlacesNext
<1>5. UNCHANGED <<SubmittedReqList, dropped, fetchElement, rspElement>>
  BY DEF PendElement
<1>6. FetchHeld' = FetchHeld /\ RspHeld' = RspHeld
  BY <1>5 DEF FetchHeld, RspHeld
<1>7. LiveElements' = LiveElements \cup {e}
  BY <1>4, <1>5, <1>6 DEF LiveElements
<1>8. FreeElements' = FreeElements \ {e}
  <2>1. e \in SrbElementPool \/ e \in HeapElements \ heapUsed
    BY <1>2 DEF FreeElements
  <2>2. SrbElementPool \cap HeapElements = {}
    BY DEF TypeOK, ElementTypes, HeapElements
  <2> QED
    BY <1>1, <2>1, <2>2 DEF FreeElements
<1>9. PlacesDisjoint'
  <2>1. PlacesDisjoint
    BY DEF Owners, OneOwner
  <2>2. e \notin FetchHeld /\ e \notin SubmittedReqList /\ e \notin RspHeld /\ e \notin dropped
    BY <1>3 DEF LiveElements
  <2> QED
    BY <1>4, <1>5, <1>6, <1>7, <1>8, <2>1, <2>2 DEF PlacesDisjoint
<1>10. OneOwner'
  BY <1>4, <1>5, <1>9 DEF Owners, OneOwner, HeldOnce
<1>11. /\ srbPc'[s] = "queued" /\ completions'[s] = 0 /\ ~Owed(s)
       /\ \A t \in Srbs \ {s} : srbPc'[t] = srbPc[t] /\ completions'[t] = completions[t]
  BY DEF PendElement, TypeOK, SrbTypes, Owners, Fresh, Owed
<1>12. \A t \in Srbs : Owed(t)' <=> Owed(t) \/ t = s
  BY <1>11 DEF Owed
<1>13. /\ Element'[e] = [Srb |-> s, Tag |-> 0, Completed |-> FALSE, Aborted |-> FALSE]
       /\ \A d \in Elements \ {e} : Element'[d] = Element[d]
  BY <1>1, <1>2 DEF TypeOK, ElementTypes
<1>14. \A d \in LiveElements : d \in Elements \ {e} /\ Element[d].Srb # s
  <2>1. LiveElements \subseteq Elements
    BY DEF LiveElements, PendingElements, FetchHeld, RspHeld, TypeOK, ListTypes, FetchTypes,
           RspTypes
  <2> QED
    BY <1>3, <1>11, <2>1 DEF Owners, ElementPerOwedSrb
<1>15. ElementPerOwedSrb'
  <2>1. \A t \in Srbs : Owed(t)' => \E d \in LiveElements' : Element'[d].Srb = t
    BY <1>7, <1>12, <1>13, <1>14 DEF Owners, ElementPerOwedSrb
  <2>2. \A d \in LiveElements' :
          /\ Element'[d].Srb \in Srbs
          /\ \A t \in Srbs : t = Element'[d].Srb => Owed(t)'
          /\ ~Element'[d].Completed /\ ~Element'[d].Aborted
    BY <1>7, <1>12, <1>13, <1>14 DEF Owners, ElementPerOwedSrb
  <2>3. \A c, d \in LiveElements' : Element'[c].Srb = Element'[d].Srb => c = d
    BY <1>7, <1>13, <1>14 DEF Owners, ElementPerOwedSrb
  <2>4. \A d \in LiveElements' : /\ srbPc'[Element'[d].Srb] \in {"queued", "pended"}
                                /\ completions'[Element'[d].Srb] = 0
    BY <2>2 DEF Owed
  <2> QED
    BY <2>1, <2>2, <2>3, <2>4 DEF ElementPerOwedSrb, Owed
<1>16. Fresh'
  BY <1>11 DEF Owners, Fresh
<1> QED
  BY <1>10, <1>15, <1>16 DEF Owners

\* An element moves from one place to another: the SRBs are not concerned.
LEMMA MoveOwners ==
  ASSUME Owners, PendingOnce', HeldOnce', PlacesDisjoint', LiveElements' = LiveElements,
         UNCHANGED <<srbPc, completions>>,
         \A e \in LiveElements : /\ Element'[e].Srb = Element[e].Srb
                                 /\ Element'[e].Completed = Element[e].Completed
                                 /\ Element'[e].Aborted = Element[e].Aborted
  PROVE  Owners'
<1>1. \A s \in Srbs : Owed(s)' <=> Owed(s)
  BY DEF Owed
<1>2. ElementPerOwedSrb'
  BY <1>1, SameElements DEF Owners
<1>3. Fresh'
  BY DEF Owners, Fresh
<1> QED
  BY <1>2, <1>3 DEF Owners, OneOwner

\* An element in use is completed, freed and leaves its place.
LEMMA CompleteOwners ==
  ASSUME TypeOK, Owners, NEW e \in LiveElements, NEW status, NEW aborted,
         CompleteRequest(e, status, aborted), srbPc' = srbPc,
         PendingOnce', HeldOnce',
         e \notin LiveElements', LiveElements \ {e} \subseteq LiveElements',
         PendingElements' \subseteq PendingElements, FetchHeld' \subseteq FetchHeld,
         SubmittedReqList' \subseteq SubmittedReqList, RspHeld' \subseteq RspHeld,
         dropped' \subseteq dropped
  PROVE  Owners'
<1>1. OneOwner' /\ ElementPerOwedSrb'
  BY Completing DEF Owners, OneOwner
<1>2. Element[e].Srb \in Srbs /\ srbPc[Element[e].Srb] \in {"queued", "pended"}
  BY DEF Owners, ElementPerOwedSrb, Owed
<1>3. \A s \in Srbs \ {Element[e].Srb} : completions'[s] = completions[s]
  BY DEF CompleteRequest, TypeOK, SrbTypes
<1>4. Fresh'
  BY <1>2, <1>3 DEF Owners, Fresh
<1> QED
  BY <1>1, <1>4 DEF Owners

\* DispatchFails: the fetching thread completes the element it holds.
LEMMA DispatchFailsOwners ==
  ASSUME TypeOK, TypeOK', Held, Owners, NEW f \in Fetchers, fetchPc[f] = "dispatch",
         NEW status, NEW pc, DispatchFails(f, status, pc)
  PROVE  Owners'
<1> DEFINE e == fetchElement[f]
<1>1. e # NoElement
  BY DEF Held
<1>2. fetchElement' = [fetchElement EXCEPT ![f] = NoElement]
  BY DEF DispatchFails
<1>3. FetchHeld' = FetchHeld \ {e} /\ e \in FetchHeld
  <2>1. fetchElement = [g \in Fetchers |-> fetchElement[g]]
    BY DEF TypeOK, FetchTypes
  <2>2. \A u, v \in Fetchers : fetchElement[u] = fetchElement[v] /\ fetchElement[u] # NoElement => u = v
    BY DEF Owners, OneOwner, HeldOnce
  <2> QED
    BY <1>1, <1>2, <2>1, <2>2, KeptDrop, Places, PlacesNext
<1>4. UNCHANGED <<PendingReqList, SubmittedReqList, dropped, rspElement, srbPc>>
  BY DEF DispatchFails
<1>5. PendingElements' = PendingElements /\ RspHeld' = RspHeld
  BY <1>4 DEF PendingElements, RspHeld
<1>6. PendingOnce' /\ HeldOnce'
  BY <1>2, <1>4 DEF Owners, OneOwner, PendingOnce, HeldOnce, TypeOK, FetchTypes
<1>7. e \in LiveElements /\ e \notin LiveElements' /\ LiveElements \ {e} \subseteq LiveElements'
  BY <1>3, <1>4, <1>5 DEF LiveElements, Owners, OneOwner, PlacesDisjoint
<1>8. CompleteRequest(e, status, Element[e].Aborted)
  BY DEF DispatchFails
<1> HIDE DEF e
<1> QED
  BY <1>3, <1>4, <1>5, <1>6, <1>7, <1>8, CompleteOwners

\* DrainDeviceQueue completes the element it removes.
LEMMA DrainOwners ==
  ASSUME TypeOK, TypeOK', Owners, DrainPendingHead \/ DrainSubmittedHead,
         UNCHANGED <<srbPc, fetchElement, rspElement>>
  PROVE  Owners'
<1>1. FetchHeld' = FetchHeld /\ RspHeld' = RspHeld /\ HeldOnce'
  BY DEF FetchHeld, RspHeld, Owners, OneOwner, HeldOnce
<1>2. CASE DrainPendingHead
  <2> DEFINE e == Head(PendingReqList)
  <2>1. PendingElements' = PendingElements \ {e} /\ e \in PendingElements /\ PendingOnce'
    BY <1>2, TailRange, Places, PlacesNext
    DEF DrainPendingHead, TypeOK, ListTypes, Owners, OneOwner
  <2>2. UNCHANGED <<SubmittedReqList, dropped>>
    BY <1>2 DEF DrainPendingHead
  <2>3. e \in LiveElements /\ e \notin LiveElements' /\ LiveElements \ {e} \subseteq LiveElements'
    BY <1>1, <2>1, <2>2 DEF LiveElements, Owners, OneOwner, PlacesDisjoint
  <2>4. CompleteRequest(e, "ABORTED", TRUE)
    BY <1>2 DEF DrainPendingHead, AbortElement
  <2> HIDE DEF e
  <2> QED
    BY <1>1, <2>1, <2>2, <2>3, <2>4, CompleteOwners
<1>3. CASE DrainSubmittedHead
  <2>1. PICK e \in SubmittedReqList : DrainSubmittedHead!(e)
    BY <1>3 DEF DrainSubmittedHead
  <2>2. PendingElements' = PendingElements /\ PendingOnce'
    BY <2>1 DEF PendingElements, Owners, OneOwner, PendingOnce
  <2>3. e \in LiveElements /\ e \notin LiveElements' /\ LiveElements \ {e} \subseteq LiveElements'
    BY <1>1, <2>1, <2>2 DEF LiveElements, Owners, OneOwner, PlacesDisjoint
  <2>4. CompleteRequest(e, "ABORTED", TRUE)
    BY <2>1 DEF AbortElement
  <2> QED
    BY <1>1, <2>1, <2>2, <2>3, <2>4, CompleteOwners
<1> QED
  BY <1>2, <1>3

\* WnbdHandleResponse completes the element it removed.
LEMMA RspCompleteOwners ==
  ASSUME TypeOK, TypeOK', Held, Owners, NEW r \in Responders, RspComplete(r)
  PROVE  Owners'
<1> DEFINE e == rspElement[r]
<1>1. e # NoElement
  BY DEF Held, RspComplete
<1>2. rspElement' = [rspElement EXCEPT ![r] = NoElement]
  BY DEF RspComplete
<1>3. RspHeld' = RspHeld \ {e} /\ e \in RspHeld
  <2>1. rspElement = [g \in Responders |-> rspElement[g]]
    BY DEF TypeOK, RspTypes
  <2>2. \A u, v \in Responders : rspElement[u] = rspElement[v] /\ rspElement[u] # NoElement => u = v
    BY DEF Owners, OneOwner, HeldOnce
  <2> QED
    BY <1>1, <1>2, <2>1, <2>2, KeptDrop, Places, PlacesNext
<1>4. UNCHANGED <<PendingReqList, SubmittedReqList, dropped, fetchElement, srbPc>>
  BY DEF RspComplete
<1>5. PendingElements' = PendingElements /\ FetchHeld' = FetchHeld
  BY <1>4 DEF PendingElements, FetchHeld
<1>6. PendingOnce' /\ HeldOnce'
  BY <1>2, <1>4 DEF Owners, OneOwner, PendingOnce, HeldOnce, TypeOK, RspTypes
<1>7. e \in LiveElements /\ e \notin LiveElements' /\ LiveElements \ {e} \subseteq LiveElements'
  BY <1>3, <1>4, <1>5 DEF LiveElements, Owners, OneOwner, PlacesDisjoint
<1>8. \E status : CompleteRequest(e, status, FALSE)
  BY <1>7 DEF RspComplete, Owners, ElementPerOwedSrb
<1> HIDE DEF e
<1> QED
  BY <1>3, <1>4, <1>5, <1>6, <1>7, <1>8, CompleteOwners

\* Every step keeps Owners.
LEMMA OwnersStep ==
  ASSUME TypeOK, Held, Owners, [Next]_vars
  PROVE  Owners'
<1>0. TypeOK'
  BY TypeStep
<1>1. ASSUME Quiet \/ UNCHANGED vars PROVE Owners'
  <2>1. UNCHANGED <<placeVars, srbPc, completions, Element>>
    BY <1>1, QuietSteps
  <2>2. /\ OneOwner' /\ LiveElements' = LiveElements
    BY <2>1, SamePlaces DEF Owners
  <2> QED
    BY <2>1, <2>2, MoveOwners DEF OneOwner
<1>2. ASSUME NEW s \in Srbs, StartIo(s) PROVE Owners'
  <2>1. UNCHANGED placeVars /\ UNCHANGED Element /\ UNCHANGED completions
    BY <1>2 DEF StartIo, placeVars
  <2>2. /\ srbPc[s] = "idle" /\ srbPc'[s] = "entered"
        /\ \A t \in Srbs \ {s} : srbPc'[t] = srbPc[t]
    BY <1>2 DEF StartIo, TypeOK, SrbTypes
  <2>3. (Owed(s)' <=> Owed(s)) /\ completions[s] = 0
    BY <2>2 DEF Owed, Owners, Fresh
  <2>4. srbPc'[s] \in {"idle", "entered"} => completions'[s] = 0
    BY <2>1, <2>3
  <2> QED
    BY <2>1, <2>2, <2>3, <2>4, SrbOnlyOwners
<1>3. ASSUME NEW s \in Srbs, StartIoNoDevice(s) \/ HandleRemoved(s) \/ HandleImmediate(s)
                             \/ PendNoMemory(s)
      PROVE  Owners'
  BY <1>3, SynchronousOwners DEF StartIoNoDevice, HandleRemoved, HandleImmediate, PendNoMemory
<1>4. ASSUME NEW s \in Srbs, PendElement(s) PROVE Owners'
  BY <1>0, <1>4, PendElementOwners
<1>5. ASSUME NEW s \in Srbs, SignalPended(s) PROVE Owners'
  <2>1. UNCHANGED placeVars /\ UNCHANGED Element /\ UNCHANGED completions
    BY <1>5 DEF SignalPended, placeVars
  <2>2. /\ srbPc[s] = "queued" /\ srbPc'[s] = "pended"
        /\ \A t \in Srbs \ {s} : srbPc'[t] = srbPc[t]
    BY <1>5 DEF SignalPended, TypeOK, SrbTypes
  <2>3. Owed(s)' <=> Owed(s)
    BY <2>1, <2>2 DEF Owed
  <2>4. srbPc'[s] \in {"idle", "entered"} => completions'[s] = 0
    BY <2>2
  <2> QED
    BY <2>1, <2>2, <2>3, <2>4, SrbOnlyOwners
<1>6. ASSUME NEW f \in Fetchers, FetchTakeRemoved(f) PROVE Owners'
  <2>1. CASE PendingReqList = <<>>
    <3>1. UNCHANGED <<placeVars, srbPc, completions, Element>>
      BY <1>6, <2>1 DEF FetchTakeRemoved, placeVars
    <3>2. OneOwner' /\ LiveElements' = LiveElements
      BY <3>1, SamePlaces DEF Owners
    <3> QED
      BY <3>1, <3>2, MoveOwners DEF OneOwner
  <2>2. CASE PendingReqList # <<>>
    <3> DEFINE e == Head(PendingReqList)
    <3>1. PendingElements' = PendingElements \ {e} /\ e \in PendingElements /\ PendingOnce'
      BY <1>0, <1>6, <2>2, TailRange, Places, PlacesNext
      DEF FetchTakeRemoved, TypeOK, ListTypes, Owners, OneOwner
    <3>2. /\ UNCHANGED <<SubmittedReqList, SrbElementPool, heapUsed, fetchElement, rspElement,
                         srbPc, completions, Element>>
          /\ dropped' = dropped \cup {e}
      BY <1>6, <2>2 DEF FetchTakeRemoved
    <3>3. FetchHeld' = FetchHeld /\ RspHeld' = RspHeld /\ FreeElements' = FreeElements /\ HeldOnce'
      BY <3>2 DEF FetchHeld, RspHeld, FreeElements, HeldOnce, Owners, OneOwner
    <3> HIDE DEF e
    <3>4. LiveElements' = LiveElements
      BY <3>1, <3>2, <3>3 DEF LiveElements
    <3>5. PlacesDisjoint'
      BY <3>1, <3>2, <3>3, <3>4 DEF PlacesDisjoint, Owners, OneOwner
    <3> QED
      BY <3>1, <3>2, <3>3, <3>4, <3>5, MoveOwners
  <2> QED
    BY <2>1, <2>2
<1>7. ASSUME NEW f \in Fetchers, FetchTake(f) PROVE Owners'
  <2> DEFINE e == Head(PendingReqList)
  <2>1. PendingElements' = PendingElements \ {e} /\ e \in PendingElements /\ PendingOnce'
    BY <1>0, <1>7, TailRange, Places, PlacesNext
    DEF FetchTake, TypeOK, ListTypes, Owners, OneOwner
  <2>2. e \in Elements /\ e # NoElement /\ fetchElement[f] = NoElement
    BY <1>7, ConstantsAssumption DEF FetchTake, TypeOK, ListTypes, Held
  <2>3. /\ UNCHANGED <<SubmittedReqList, dropped, SrbElementPool, heapUsed, rspElement, srbPc,
                       completions>>
        /\ fetchElement' = [fetchElement EXCEPT ![f] = e]
        /\ Element' = [Element EXCEPT ![e].Tag = RequestHandle + 1]
    BY <1>7 DEF FetchTake
  <2> HIDE DEF e
  <2>4. FetchHeld' = FetchHeld \cup {e}
    <3>1. fetchElement = [g \in Fetchers |-> fetchElement[g]]
      BY DEF TypeOK, FetchTypes
    <3> QED
      BY <1>0, <2>2, <2>3, <3>1, KeptTake, Places, PlacesNext
  <2>5. RspHeld' = RspHeld /\ FreeElements' = FreeElements
    BY <2>3 DEF RspHeld, FreeElements
  <2>6. e \notin FetchHeld
    BY <2>1 DEF Owners, OneOwner, PlacesDisjoint
  <2>7. HeldOnce'
    BY <2>2, <2>3, <2>6 DEF HeldOnce, Owners, OneOwner, FetchHeld, TypeOK, FetchTypes
  <2>8. LiveElements' = LiveElements
    BY <2>1, <2>3, <2>4, <2>5 DEF LiveElements
  <2>9. PlacesDisjoint'
    BY <2>1, <2>3, <2>4, <2>5, <2>8 DEF PlacesDisjoint, Owners, OneOwner
  <2>10. \A d \in Elements : /\ Element'[d].Srb = Element[d].Srb
                            /\ Element'[d].Completed = Element[d].Completed
                            /\ Element'[d].Aborted = Element[d].Aborted
    BY <2>2, <2>3 DEF TypeOK, ElementTypes
  <2>11. LiveElements \subseteq Elements
    BY DEF LiveElements, PendingElements, FetchHeld, RspHeld, TypeOK, ListTypes, FetchTypes,
           RspTypes
  <2> QED
    BY <2>1, <2>3, <2>7, <2>8, <2>9, <2>10, <2>11, MoveOwners
<1>8. ASSUME NEW f \in Fetchers, FetchReject(f) \/ FetchLockFails(f)
                                 \/ FetchSrbBufferFails(f) \/ FetchTooSmall(f)
      PROVE  Owners'
  BY <1>0, <1>8, DispatchFailsOwners
  DEF FetchReject, FetchLockFails, FetchSrbBufferFails, FetchTooSmall
<1>9. ASSUME NEW f \in Fetchers, FetchSubmit(f) PROVE Owners'
  <2> DEFINE e == fetchElement[f]
  <2>1. e # NoElement
    BY <1>9 DEF Held, FetchSubmit
  <2>2. /\ UNCHANGED <<PendingReqList, dropped, SrbElementPool, heapUsed, rspElement, srbPc,
                       completions, Element>>
        /\ fetchElement' = [fetchElement EXCEPT ![f] = NoElement]
        /\ SubmittedReqList' = SubmittedReqList \cup {e}
    BY <1>9 DEF FetchSubmit
  <2>3. FetchHeld' = FetchHeld \ {e} /\ e \in FetchHeld
    <3>1. fetchElement = [g \in Fetchers |-> fetchElement[g]]
      BY DEF TypeOK, FetchTypes
    <3>2. \A u, v \in Fetchers :
            fetchElement[u] = fetchElement[v] /\ fetchElement[u] # NoElement => u = v
      BY DEF Owners, OneOwner, HeldOnce
    <3> QED
      BY <1>0, <2>1, <2>2, <3>1, <3>2, KeptDrop, Places, PlacesNext
  <2>4. HeldOnce'
    BY <2>2 DEF HeldOnce, Owners, OneOwner, TypeOK, FetchTypes
  <2> HIDE DEF e
  <2>5. /\ RspHeld' = RspHeld /\ FreeElements' = FreeElements
        /\ PendingElements' = PendingElements /\ PendingOnce'
    BY <2>2 DEF RspHeld, FreeElements, PendingElements, PendingOnce, Owners, OneOwner
  <2>6. LiveElements' = LiveElements
    BY <2>2, <2>3, <2>5 DEF LiveElements
  <2>7. PlacesDisjoint'
    BY <2>2, <2>3, <2>5, <2>6 DEF PlacesDisjoint, Owners, OneOwner
  <2> QED
    BY <2>2, <2>4, <2>5, <2>6, <2>7, MoveOwners
<1>10. ASSUME NEW r \in Responders, RspRemoveByTag(r) PROVE Owners'
  <2>1. PICK e \in Tagged(rspRequest[r].RequestHandle) : RspRemoveByTag(r)!2!(e)
    BY <1>10 DEF RspRemoveByTag
  <2>2. e \in SubmittedReqList /\ e # NoElement /\ rspElement[r] = NoElement
    BY <1>10, ConstantsAssumption DEF Tagged, TypeOK, ListTypes, Held, RspRemoveByTag
  <2>3. /\ UNCHANGED <<PendingReqList, dropped, SrbElementPool, heapUsed, fetchElement, srbPc,
                       completions, Element>>
        /\ rspElement' = [rspElement EXCEPT ![r] = e]
        /\ SubmittedReqList' = SubmittedReqList \ {e}
    BY <1>10, <2>1 DEF RspRemoveByTag
  <2>4. RspHeld' = RspHeld \cup {e}
    <3>1. rspElement = [g \in Responders |-> rspElement[g]]
      BY DEF TypeOK, RspTypes
    <3> QED
      BY <1>0, <2>2, <2>3, <3>1, KeptTake, Places, PlacesNext
  <2>5. e \notin RspHeld
    BY <2>2 DEF Owners, OneOwner, PlacesDisjoint
  <2>6. HeldOnce'
    BY <2>2, <2>3, <2>5 DEF HeldOnce, Owners, OneOwner, RspHeld, TypeOK, RspTypes
  <2>7. /\ FetchHeld' = FetchHeld /\ FreeElements' = FreeElements
        /\ PendingElements' = PendingElements /\ PendingOnce'
    BY <2>3 DEF FetchHeld, FreeElements, PendingElements, PendingOnce, Owners, OneOwner
  <2>8. LiveElements' = LiveElements
    BY <2>2, <2>3, <2>4, <2>7 DEF LiveElements
  <2>9. PlacesDisjoint'
    BY <2>2, <2>3, <2>4, <2>7, <2>8 DEF PlacesDisjoint, Owners, OneOwner
  <2> QED
    BY <2>3, <2>6, <2>7, <2>8, <2>9, MoveOwners
<1>11. ASSUME NEW r \in Responders, RspComplete(r) PROVE Owners'
  BY <1>0, <1>11, RspCompleteOwners
<1>12. ASSUME NEW x \in Resetters, ResetDrains(x) PROVE Owners'
  BY <1>0, <1>12, DrainOwners DEF ResetDrains
<1>13. ASSUME MonitorDrains PROVE Owners'
  BY <1>0, <1>13, DrainOwners DEF MonitorDrains, MonitorUnchanged
<1>14. ASSUME MonitorUnlink PROVE Owners'
  <2>1. /\ SrbElementPool' = {}
        /\ UNCHANGED <<PendingReqList, SubmittedReqList, dropped, heapUsed, fetchElement,
                       rspElement, srbPc, completions, Element>>
    BY <1>14 DEF MonitorUnlink, MonitorUnchanged
  <2>2. /\ PendingElements' = PendingElements /\ FetchHeld' = FetchHeld /\ RspHeld' = RspHeld
        /\ FreeElements' \subseteq FreeElements
    BY <2>1 DEF PendingElements, FetchHeld, RspHeld, FreeElements
  <2>3. LiveElements' = LiveElements
    BY <2>1, <2>2 DEF LiveElements
  <2>4. PendingOnce' /\ HeldOnce'
    BY <2>1 DEF Owners, OneOwner, PendingOnce, HeldOnce
  <2>5. PlacesDisjoint'
    BY <2>1, <2>2, <2>3 DEF PlacesDisjoint, Owners, OneOwner
  <2> QED
    BY <2>1, <2>3, <2>4, <2>5, MoveOwners
<1> QED
  BY <1>1, <1>2, <1>3, <1>4, <1>5, <1>6, <1>7, <1>8, <1>9, <1>10, <1>11, <1>12, <1>13, <1>14
  DEF Next, Quiet, StartIoSteps, FetchSteps, RspSteps, ResetSteps, MonitorSteps

-----------------------------------------------------------------------------
(* References: the rundown protection *)

Drains == {"drain pending", "drain submitted", "unlink", "gone"}

\* Every thread that uses the device holds a reference, references are refused
\* from the rundown on, and the drains start when there is none left.
References ==
  /\ Inside \subseteq RundownRefs
  /\ monitorPc \notin {"waiting", "stopping"} => RundownActive
  /\ monitorPc \in Drains => RundownRefs = {}

\* What the monitor thread drained stays empty.
Drained ==
  /\ monitorPc \in {"drain submitted", "unlink", "gone"} => PendingReqList = <<>>
  /\ monitorPc \in {"unlink", "gone"} => SubmittedReqList = {}

\* Every step keeps References.
LEMMA ReferencesStep ==
  ASSUME TypeOK, References, [Next]_vars
  PROVE  References'
<1> USE DEF References, Inside, Drains
<1>1. ASSUME NEW s \in Srbs, StartIo(s) PROVE References'
  BY <1>1, ThreadsAssumption DEF StartIo, WnbdAcquireDevice, TypeOK, SrbTypes
<1>2. ASSUME NEW s \in Srbs, StartIoNoDevice(s) PROVE References'
  BY <1>2, ThreadsAssumption DEF StartIoNoDevice, CompleteSynchronously, TypeOK, SrbTypes
<1>3. ASSUME NEW s \in Srbs, HandleRemoved(s) \/ HandleImmediate(s) \/ PendNoMemory(s)
      PROVE  References'
  BY <1>3, ThreadsAssumption DEF HandleRemoved, HandleImmediate, PendNoMemory,
         CompleteSynchronously, WnbdReleaseDevice, TypeOK, SrbTypes
<1>4. ASSUME NEW s \in Srbs, PendElement(s) PROVE References'
  <2>1. /\ srbPc[s] = "entered" /\ srbPc' = [srbPc EXCEPT ![s] = "queued"]
        /\ UNCHANGED <<fetchPc, rspPc, resetPc, removePc, RundownRefs, RundownActive, monitorPc>>
    BY <1>4 DEF PendElement
  <2>2. Inside' = Inside
    BY <2>1 DEF TypeOK, SrbTypes
  <2> QED
    BY <2>1, <2>2
<1>5. ASSUME NEW s \in Srbs, SignalPended(s) PROVE References'
  BY <1>5, ThreadsAssumption DEF SignalPended, WnbdReleaseDevice, TypeOK, SrbTypes
<1>6. ASSUME BusReset \/ WnbdCleanupAllDevices PROVE References'
  BY <1>6 DEF BusReset, WnbdCleanupAllDevices
<1>7. ASSUME NEW f \in Fetchers, FetchBegin(f) PROVE References'
  BY <1>7, ThreadsAssumption DEF FetchBegin, WnbdAcquireDevice, TypeOK, FetchTypes
<1>8. ASSUME NEW f \in Fetchers, FetchAlerted(f) \/ FetchWait(f) \/ FetchWake(f)
                                 \/ FetchRemoved(f) \/ FetchTakeNone(f) \/ FetchCount(f)
      PROVE  References'
  BY <1>8 DEF FetchAlerted, FetchWait, FetchWake, FetchRemoved, FetchTakeNone, FetchCount, FetchUnchanged,
              TypeOK, FetchTypes
<1>9. ASSUME NEW f \in Fetchers, FetchTakeRemoved(f) \/ FetchTake(f) \/ FetchSubmit(f)
      PROVE  References'
  BY <1>9 DEF FetchTakeRemoved, FetchTake, FetchSubmit, TypeOK, FetchTypes
<1>10. ASSUME NEW f \in Fetchers, FetchReject(f) \/ FetchLockFails(f)
                                  \/ FetchSrbBufferFails(f) \/ FetchTooSmall(f)
       PROVE  References'
  BY <1>10 DEF FetchReject, FetchLockFails, FetchSrbBufferFails, FetchTooSmall, DispatchFails,
               TypeOK, FetchTypes
<1>11. ASSUME NEW f \in Fetchers, FetchExit(f) PROVE References'
  BY <1>11, ThreadsAssumption DEF FetchExit, WnbdReleaseDevice, TypeOK, FetchTypes
<1>12. ASSUME NEW r \in Responders, RspBegin(r) PROVE References'
  BY <1>12, ThreadsAssumption DEF RspBegin, WnbdAcquireDevice, TypeOK, RspTypes
<1>13. ASSUME NEW r \in Responders, RspRemoveByTag(r) PROVE References'
  BY <1>13 DEF RspRemoveByTag, TypeOK, RspTypes
<1>14. ASSUME NEW r \in Responders, RspNotFound(r) \/ RspComplete(r) PROVE References'
  BY <1>14, ThreadsAssumption DEF RspNotFound, RspComplete, WnbdReleaseDevice, TypeOK, RspTypes
<1>15. ASSUME NEW x \in Resetters, ResetBegin(x) PROVE References'
  BY <1>15, ThreadsAssumption DEF ResetBegin, WnbdAcquireDevice, TypeOK, ThreadTypes
<1>16. ASSUME NEW x \in Resetters, ResetDrains(x) PROVE References'
  BY <1>16 DEF ResetDrains
<1>17. ASSUME NEW x \in Resetters, ResetDrained(x) PROVE References'
  <2>1. UNCHANGED <<srbPc, fetchPc, rspPc, removePc, RundownActive, monitorPc>>
    BY <1>17 DEF ResetDrained, WnbdReleaseDevice
  <2>2. CASE /\ resetPc[x] = "drain pending" /\ UNCHANGED refVars
             /\ resetPc' = [resetPc EXCEPT ![x] = "drain submitted"]
    <3>1. \A y \in Resetters : resetPc'[y] # "idle" => resetPc[y] # "idle"
      BY <2>2 DEF TypeOK, ThreadTypes
    <3>2. Inside' \subseteq Inside
      BY <2>1, <3>1
    <3>3. UNCHANGED <<RundownRefs, RundownActive, monitorPc>>
      BY <2>1, <2>2 DEF refVars
    <3> HIDE DEF Inside
    <3> QED
      BY <3>2, <3>3
  <2>3. CASE /\ resetPc[x] = "drain submitted" /\ WnbdReleaseDevice(x)
             /\ resetPc' = [resetPc EXCEPT ![x] = "idle"]
    <3>1. \A y \in Resetters : resetPc'[y] # "idle" => resetPc[y] # "idle" /\ y # x
      BY <2>3 DEF TypeOK, ThreadTypes
    <3>2. Inside' \subseteq Inside \ {x}
      BY <2>1, <3>1, ThreadsAssumption
    <3>3. RundownRefs' = RundownRefs \ {x} /\ UNCHANGED <<RundownActive, monitorPc>>
      BY <2>1, <2>3 DEF WnbdReleaseDevice
    <3> HIDE DEF Inside
    <3> QED
      BY <3>2, <3>3
  <2> QED
    BY <1>17, <2>2, <2>3 DEF ResetDrained
<1>18. ASSUME NEW d \in Removers, RemoveQuery(d) \/ RemoveDone(d) PROVE References'
  <2>1. /\ UNCHANGED <<srbPc, fetchPc, rspPc, resetPc, RundownRefs, RundownActive, monitorPc>>
        /\ \E pc \in {"queried", "done"} : removePc' = [removePc EXCEPT ![d] = pc]
    BY <1>18 DEF RemoveQuery, RemoveDone, RemoveUnchanged
  <2>2. \A c \in Removers : removePc'[c] = "acquired" => removePc[c] = "acquired"
    BY <2>1 DEF TypeOK, ThreadTypes
  <2>3. Inside' \subseteq Inside
    BY <2>1, <2>2
  <2> QED
    BY <2>1, <2>3
<1>19. ASSUME NEW d \in Removers, RemoveBegin(d) PROVE References'
  BY <1>19, ThreadsAssumption DEF RemoveBegin, WnbdAcquireDevice, RemoveUnchanged, TypeOK,
         ThreadTypes
<1>20. ASSUME NEW d \in Removers, RemoveSignal(d) PROVE References'
  <2>1. /\ UNCHANGED <<srbPc, fetchPc, rspPc, resetPc, RundownActive, monitorPc>>
        /\ RundownRefs' = RundownRefs \ {d} /\ removePc[d] = "acquired"
        /\ removePc' = [removePc EXCEPT ![d] = "waiting"]
    BY <1>20 DEF RemoveSignal, WnbdReleaseDevice, RemoveUnchanged
  <2>2. Inside' \subseteq Inside \ {d}
    BY <2>1, ThreadsAssumption DEF TypeOK, ThreadTypes
  <2> QED
    BY <2>1, <2>2
<1>21. ASSUME MonitorWake \/ MonitorRundown \/ MonitorRundownOver PROVE References'
  <2>0. UNCHANGED <<srbPc, fetchPc, rspPc, resetPc, removePc>>
    BY <1>21 DEF MonitorWake, MonitorRundown, MonitorRundownOver, MonitorUnchanged
  <2>1. Inside' = Inside
    BY <2>0
  <2>2. CASE MonitorWake
    BY <2>1, <2>2 DEF MonitorWake
  <2>3. CASE MonitorRundown
    BY <2>1, <2>3 DEF MonitorRundown
  <2>4. CASE MonitorRundownOver
    BY <2>1, <2>4 DEF MonitorRundownOver
  <2> QED
    BY <1>21, <2>2, <2>3, <2>4
<1>22. ASSUME MonitorDrains \/ MonitorDrained \/ MonitorUnlink PROVE References'
  <2>1. /\ UNCHANGED <<srbPc, fetchPc, rspPc, resetPc, removePc, RundownRefs, RundownActive>>
        /\ monitorPc \in Drains
    BY <1>22 DEF MonitorDrains, MonitorDrained, MonitorUnlink, MonitorUnchanged
  <2>2. Inside' = Inside
    BY <2>1
  <2> QED
    BY <2>1, <2>2
<1>23. ASSUME UNCHANGED vars PROVE References'
  BY <1>23 DEF vars
<1> QED
  BY <1>1, <1>2, <1>3, <1>4, <1>5, <1>6, <1>7, <1>8, <1>9, <1>10, <1>11, <1>12, <1>13, <1>14,
     <1>15, <1>16, <1>17, <1>18, <1>19, <1>20, <1>21, <1>22, <1>23
  DEF Next, StartIoSteps, FetchSteps, RspSteps, ResetSteps, MonitorSteps

\* Every step keeps Drained: a list grows only while a thread is inside.
LEMMA DrainedStep ==
  ASSUME TypeOK, References, Drained, [Next]_vars
  PROVE  Drained'
<1>1. ASSUME Inside # {} PROVE monitorPc \notin Drains
  BY <1>1 DEF References
<1>2. ASSUME UNCHANGED monitorPc, monitorPc \notin Drains PROVE Drained'
  BY <1>2 DEF Drained, Drains
<1>3. ASSUME UNCHANGED monitorPc, PendingReqList' = PendingReqList,
             SubmittedReqList' \subseteq SubmittedReqList
      PROVE  Drained'
  BY <1>3 DEF Drained
<1>4. ASSUME NEW s \in Srbs, StartIo(s) \/ StartIoNoDevice(s) \/ HandleRemoved(s)
             \/ HandleImmediate(s) \/ PendNoMemory(s) \/ SignalPended(s)
      PROVE  Drained'
  BY <1>3, <1>4 DEF StartIo, StartIoNoDevice, HandleRemoved, HandleImmediate, PendNoMemory,
                    SignalPended, CompleteSynchronously
<1>5. ASSUME NEW s \in Srbs, PendElement(s) PROVE Drained'
  <2>1. Inside # {}
    BY <1>5 DEF PendElement, Inside
  <2> QED
    BY <1>1, <1>2, <1>5, <2>1 DEF PendElement
<1>6. ASSUME NEW f \in Fetchers, FetchBegin(f) \/ FetchAlerted(f) \/ FetchWait(f)
             \/ FetchWake(f) \/ FetchRemoved(f) \/ FetchTakeNone(f) \/ FetchCount(f)
             \/ FetchExit(f)
      PROVE  Drained'
  BY <1>3, <1>6 DEF FetchBegin, FetchAlerted, FetchWait, FetchWake, FetchRemoved,
                    FetchTakeNone, FetchCount, FetchExit, FetchUnchanged
<1>7. ASSUME NEW f \in Fetchers, FetchTakeRemoved(f) \/ FetchTake(f) \/ FetchSubmit(f)
      PROVE  Drained'
  <2>1. Inside # {}
    BY <1>7 DEF FetchTakeRemoved, FetchTake, FetchSubmit, Inside
  <2> QED
    BY <1>1, <1>2, <1>7, <2>1 DEF FetchTakeRemoved, FetchTake, FetchSubmit
<1>8. ASSUME NEW f \in Fetchers, FetchReject(f) \/ FetchLockFails(f)
             \/ FetchSrbBufferFails(f) \/ FetchTooSmall(f)
      PROVE  Drained'
  BY <1>3, <1>8 DEF FetchReject, FetchLockFails, FetchSrbBufferFails, FetchTooSmall,
                    DispatchFails
<1>9. ASSUME NEW r \in Responders, RspBegin(r) \/ RspRemoveByTag(r) \/ RspNotFound(r)
             \/ RspComplete(r)
      PROVE  Drained'
  BY <1>3, <1>9 DEF RspBegin, RspRemoveByTag, RspNotFound, RspComplete
<1>10. ASSUME NEW x \in Resetters, ResetBegin(x) \/ ResetDrained(x) PROVE Drained'
  BY <1>3, <1>10 DEF ResetBegin, ResetDrained
<1>11. ASSUME NEW x \in Resetters, ResetDrains(x) PROVE Drained'
  <2>1. Inside # {}
    BY <1>11 DEF ResetDrains, Inside
  <2> QED
    BY <1>1, <1>2, <1>11, <2>1 DEF ResetDrains
<1>12. ASSUME NEW d \in Removers, RemoveQuery(d) \/ RemoveBegin(d) \/ RemoveSignal(d)
              \/ RemoveDone(d)
       PROVE  Drained'
  BY <1>3, <1>12 DEF RemoveQuery, RemoveBegin, RemoveSignal, RemoveDone, RemoveUnchanged
<1>13. ASSUME BusReset \/ WnbdCleanupAllDevices PROVE Drained'
  BY <1>3, <1>13 DEF BusReset, WnbdCleanupAllDevices
<1>14. ASSUME MonitorWake \/ MonitorRundown \/ MonitorRundownOver PROVE Drained'
  BY <1>14 DEF MonitorWake, MonitorRundown, MonitorRundownOver, Drained
<1>15. ASSUME MonitorDrains PROVE Drained'
  BY <1>15 DEF MonitorDrains, DrainPendingHead, DrainSubmittedHead, Drained
<1>16. ASSUME MonitorDrained \/ MonitorUnlink PROVE Drained'
  BY <1>16 DEF MonitorDrained, MonitorUnlink, Drained
<1>17. ASSUME UNCHANGED vars PROVE Drained'
  BY <1>3, <1>17 DEF vars
<1> QED
  BY <1>4, <1>5, <1>6, <1>7, <1>8, <1>9, <1>10, <1>11, <1>12, <1>13, <1>14, <1>15, <1>16, <1>17
  DEF Next, StartIoSteps, FetchSteps, RspSteps, ResetSteps, MonitorSteps

-----------------------------------------------------------------------------
(* Tags *)

\* The elements that were given a tag, and the requests userspace or a thread
\* of the driver knows of.
TaggedElements == FetchHeld \cup SubmittedReqList \cup RspHeld
KnownRequests ==
  delivered \cup {fetchRequest[f] : f \in Fetchers} \cup {rspRequest[r] : r \in Responders}

\* Tags in use are distinct, and a request that carries the tag of an element
\* stands for the SRB of that element.
Tags ==
  /\ \A e \in TaggedElements : Element[e].Tag \in 1..RequestHandle
  /\ \A d, e \in TaggedElements : Element[d].Tag = Element[e].Tag => d = e
  /\ \A q \in KnownRequests :
       /\ q.RequestHandle \in 0..RequestHandle
       /\ \A e \in TaggedElements : Element[e].Tag = q.RequestHandle => Element[e].Srb = q.Srb

\* A responder holds the element it was asked for.
RspTag ==
  \A r \in Responders : rspPc[r] = "holding" =>
    Element[rspElement[r]].Tag = rspRequest[r].RequestHandle

\* No new tag: the elements keep theirs, a new request is blank or filled from
\* an element that is in use.
LEMMA TagsKept ==
  ASSUME TypeOK, Tags, TaggedElements' \subseteq TaggedElements, RequestHandle' = RequestHandle,
         \A e \in TaggedElements : /\ Element'[e].Tag = Element[e].Tag
                                   /\ Element'[e].Srb = Element[e].Srb,
         \A q \in KnownRequests' :
           \/ q \in KnownRequests \/ q = ZeroRequest
           \/ \E e \in TaggedElements : /\ q.RequestHandle = Element[e].Tag
                                        /\ q.Srb = Element[e].Srb
  PROVE  Tags'
<1>0. RequestHandle \in Nat
  BY DEF TypeOK, DeviceTypes
<1>1. /\ \A e \in TaggedElements' : Element'[e].Tag \in 1..RequestHandle'
      /\ \A d, e \in TaggedElements' : Element'[d].Tag = Element'[e].Tag => d = e
  BY DEF Tags
<1>2. ASSUME NEW q \in KnownRequests'
      PROVE  /\ q.RequestHandle \in 0..RequestHandle'
             /\ \A e \in TaggedElements' :
                  Element'[e].Tag = q.RequestHandle => Element'[e].Srb = q.Srb
  <2>1. CASE q \in KnownRequests
    BY <2>1 DEF Tags
  <2>2. CASE q = ZeroRequest
    <3>1. q.RequestHandle = 0
      BY <2>2 DEF ZeroRequest
    <3> QED
      BY <1>0, <3>1 DEF Tags
  <2>3. CASE \E e \in TaggedElements : q.RequestHandle = Element[e].Tag /\ q.Srb = Element[e].Srb
    BY <1>0, <2>3 DEF Tags
  <2> QED
    BY <1>2, <2>1, <2>2, <2>3
<1> QED
  BY <1>1, <1>2 DEF Tags

\* The sets of Tags depend on these variables only.
LEMMA SameTags ==
  ASSUME UNCHANGED <<fetchElement, SubmittedReqList, rspElement>>
  PROVE  TaggedElements' = TaggedElements
  BY DEF TaggedElements, FetchHeld, RspHeld

\* CompleteRequest leaves the tag and the SRB of the elements alone.
LEMMA CompleteKeepsTags ==
  ASSUME TypeOK, NEW e, NEW status, NEW aborted, CompleteRequest(e, status, aborted)
  PROVE  \A d \in Elements : /\ Element'[d].Tag = Element[d].Tag
                             /\ Element'[d].Srb = Element[d].Srb
  BY DEF CompleteRequest, TypeOK, ElementTypes

\* Tagged elements are elements.
LEMMA TaggedTypes ==
  ASSUME TypeOK
  PROVE  TaggedElements \subseteq Elements
  BY DEF TypeOK, FetchTypes, ListTypes, RspTypes, TaggedElements, FetchHeld, RspHeld

\* DrainDeviceQueue
LEMMA DrainKeepsTags ==
  ASSUME TypeOK, Tags, DrainPendingHead \/ DrainSubmittedHead,
         UNCHANGED <<fetchElement, rspElement, delivered, fetchRequest, rspRequest, RequestHandle>>
  PROVE  /\ Tags'
         /\ \A d \in Elements : Element'[d].Tag = Element[d].Tag
<1>1. SubmittedReqList' \subseteq SubmittedReqList
  BY DEF DrainPendingHead, DrainSubmittedHead
<1>2. TaggedElements' \subseteq TaggedElements /\ KnownRequests' = KnownRequests
  BY <1>1 DEF TaggedElements, FetchHeld, RspHeld, KnownRequests
<1>3. \A d \in Elements : Element'[d].Tag = Element[d].Tag /\ Element'[d].Srb = Element[d].Srb
  <2>1. \E e : CompleteRequest(e, "ABORTED", TRUE)
    BY DEF DrainPendingHead, DrainSubmittedHead, AbortElement
  <2> QED
    BY <2>1, CompleteKeepsTags
<1> QED
  BY <1>2, <1>3, TaggedTypes, TagsKept

\* The dispatch gives up an element; the request may have been filled from it.
LEMMA DispatchFailsTags ==
  ASSUME TypeOK, TypeOK', Held, Owners, Tags, NEW f \in Fetchers, fetchPc[f] = "dispatch",
         NEW status, NEW pc, DispatchFails(f, status, pc),
         \/ fetchRequest' = fetchRequest
         \/ fetchRequest' = [fetchRequest EXCEPT ![f] = FilledRequest(f)]
  PROVE  Tags' /\ \A d \in Elements : Element'[d].Tag = Element[d].Tag
<1> DEFINE e == fetchElement[f]
<1>1. e # NoElement /\ e \in FetchHeld /\ e \in TaggedElements
  BY DEF Held, FetchHeld, TaggedElements
<1>2. TaggedElements' \subseteq TaggedElements
  BY DEF DispatchFails, TaggedElements, FetchHeld, RspHeld, TypeOK, FetchTypes
<1>3. \A d \in Elements : Element'[d].Tag = Element[d].Tag /\ Element'[d].Srb = Element[d].Srb
  BY CompleteKeepsTags DEF DispatchFails
<1>4. RequestHandle' = RequestHandle /\ delivered' = delivered /\ rspRequest' = rspRequest
  BY DEF DispatchFails
<1>5. KnownRequests' \subseteq KnownRequests \cup {FilledRequest(f)}
  BY <1>4 DEF KnownRequests, TypeOK, FetchTypes
<1>6. FilledRequest(f).RequestHandle = Element[e].Tag /\ FilledRequest(f).Srb = Element[e].Srb
  BY DEF FilledRequest
<1> HIDE DEF e
<1> QED
  BY <1>1, <1>2, <1>3, <1>4, <1>5, <1>6, TaggedTypes, TagsKept

\* Every step keeps Tags and RspTag.
LEMMA TagsStep ==
  ASSUME TypeOK, Held, Owners, Tags, RspTag, [Next]_vars
  PROVE  Tags' /\ RspTag'
<1>0. TypeOK' /\ TaggedElements \subseteq Elements
  BY TypeStep, TaggedTypes
<1>1. ASSUME UNCHANGED <<fetchElement, SubmittedReqList, rspElement, rspPc, delivered,
                         fetchRequest, rspRequest, RequestHandle, Element>>
      PROVE  Tags' /\ RspTag'
  <2>1. KnownRequests' = KnownRequests /\ TaggedElements' = TaggedElements
    BY <1>1, SameTags DEF KnownRequests
  <2> QED
    BY <1>1, <2>1 DEF Tags, RspTag
<1>2. ASSUME UNCHANGED <<rspPc, rspElement, rspRequest>>,
             \A d \in Elements : Element'[d].Tag = Element[d].Tag
      PROVE  RspTag'
  BY <1>2 DEF RspTag, Held, TypeOK, RspTypes
<1>3. ASSUME NEW s \in Srbs, StartIo(s) \/ StartIoNoDevice(s) \/ HandleRemoved(s)
             \/ HandleImmediate(s) \/ PendNoMemory(s) \/ SignalPended(s)
      PROVE  Tags' /\ RspTag'
  BY <1>1, <1>3 DEF StartIo, StartIoNoDevice, HandleRemoved, HandleImmediate, PendNoMemory,
                    SignalPended, CompleteSynchronously
<1>4. ASSUME NEW s \in Srbs, PendElement(s) PROVE Tags' /\ RspTag'
  <2>1. PICK e \in Allocatable : PendElement(s)!2!(e)
    BY <1>4 DEF PendElement
  <2>2. e \notin LiveElements
    BY DEF Allocatable, FreeElements, Owners, OneOwner, PlacesDisjoint
  <2>3. \A d \in Elements \ {e} : Element'[d] = Element[d]
    BY <2>1 DEF TypeOK, ElementTypes
  <2>4. /\ UNCHANGED <<fetchElement, SubmittedReqList, rspElement, rspPc, delivered,
                       fetchRequest, rspRequest, RequestHandle>>
    BY <1>4 DEF PendElement
  <2>5. TaggedElements' = TaggedElements /\ KnownRequests' = KnownRequests
    BY <2>4, SameTags DEF KnownRequests
  <2>6. \A d \in TaggedElements : d \in Elements \ {e}
    BY <1>0, <2>2 DEF TaggedElements, LiveElements
  <2>7. Tags'
    BY <2>3, <2>4, <2>5, <2>6, TagsKept
  <2>8. \A r \in Responders : rspPc[r] = "holding" => rspElement[r] \in TaggedElements
    BY DEF Held, TaggedElements, RspHeld
  <2>9. RspTag'
    BY <2>3, <2>4, <2>6, <2>8 DEF RspTag
  <2> QED
    BY <2>7, <2>9
<1>5. ASSUME NEW f \in Fetchers, FetchBegin(f) \/ FetchAlerted(f) \/ FetchWait(f)
             \/ FetchWake(f) \/ FetchRemoved(f) \/ FetchTakeNone(f) \/ FetchCount(f)
      PROVE  Tags' /\ RspTag'
  BY <1>1, <1>5 DEF FetchBegin, FetchAlerted, FetchWait, FetchWake, FetchRemoved,
                    FetchTakeNone, FetchCount, FetchUnchanged
<1>6. ASSUME NEW f \in Fetchers, FetchTakeRemoved(f) PROVE Tags' /\ RspTag'
  BY <1>1, <1>6 DEF FetchTakeRemoved
<1>7. ASSUME NEW f \in Fetchers, FetchTake(f) PROVE Tags' /\ RspTag'
  <2> DEFINE e == Head(PendingReqList)
  <2>1. e \in PendingElements /\ e \in Elements
    BY <1>7 DEF FetchTake, PendingElements, TypeOK, ListTypes
  <2>2. e \notin TaggedElements
    BY <2>1 DEF TaggedElements, Owners, OneOwner, PlacesDisjoint
  <2>3. /\ Element' = [Element EXCEPT ![e].Tag = RequestHandle + 1]
        /\ fetchElement' = [fetchElement EXCEPT ![f] = e]
        /\ fetchRequest' = [fetchRequest EXCEPT ![f] = ZeroRequest]
        /\ RequestHandle' = RequestHandle + 1
        /\ UNCHANGED <<SubmittedReqList, rspElement, rspPc, rspRequest, delivered>>
    BY <1>7 DEF FetchTake
  <2> HIDE DEF e
  <2>4. /\ Element'[e].Tag = RequestHandle + 1
        /\ \A d \in Elements \ {e} : Element'[d] = Element[d]
    BY <2>1, <2>3 DEF TypeOK, ElementTypes
  <2>5. TaggedElements' \subseteq TaggedElements \cup {e}
    BY <2>3 DEF TaggedElements, FetchHeld, RspHeld, TypeOK, FetchTypes
  <2>6. KnownRequests' \subseteq KnownRequests \cup {ZeroRequest}
    BY <2>3 DEF KnownRequests, TypeOK, FetchTypes
  <2>7. RequestHandle \in Nat /\ ZeroRequest.RequestHandle = 0
    BY DEF TypeOK, DeviceTypes, ZeroRequest
  <2>8. \A d \in TaggedElements : Element'[d] = Element[d] /\ Element[d].Tag \in 1..RequestHandle
    BY <1>0, <2>2, <2>4 DEF Tags
  <2>9. \A d \in TaggedElements' : Element'[d].Tag \in 1..RequestHandle'
    BY <2>3, <2>4, <2>5, <2>7, <2>8
  <2>10. \A c, d \in TaggedElements' : Element'[c].Tag = Element'[d].Tag => c = d
    BY <2>4, <2>5, <2>7, <2>8 DEF Tags
  <2>11. ASSUME NEW q \in KnownRequests'
         PROVE  /\ q.RequestHandle \in 0..RequestHandle'
                /\ \A d \in TaggedElements' :
                     Element'[d].Tag = q.RequestHandle => Element'[d].Srb = q.Srb
    <3>1. q.RequestHandle \in 0..RequestHandle
      BY <2>6, <2>7, <2>11 DEF Tags
    <3>2. ASSUME NEW d \in TaggedElements', Element'[d].Tag = q.RequestHandle
          PROVE  Element'[d].Srb = q.Srb
      <4>1. d \in TaggedElements
        BY <2>4, <2>5, <2>7, <3>1, <3>2
      <4>2. q \in KnownRequests
        BY <2>6, <2>7, <2>8, <3>2, <4>1
      <4> QED
        BY <2>8, <3>2, <4>1, <4>2 DEF Tags
    <3> QED
      BY <2>3, <2>7, <3>1, <3>2
  <2>12. Tags'
    BY <2>9, <2>10, <2>11 DEF Tags
  <2>13. \A r \in Responders : rspPc[r] = "holding" => rspElement[r] \in TaggedElements
    BY DEF Held, TaggedElements, RspHeld
  <2>14. RspTag'
    BY <2>3, <2>8, <2>13 DEF RspTag
  <2> QED
    BY <2>12, <2>14
<1>8. ASSUME NEW f \in Fetchers, FetchReject(f) \/ FetchLockFails(f)
             \/ FetchSrbBufferFails(f) \/ FetchTooSmall(f)
      PROVE  Tags' /\ RspTag'
  <2>1. /\ fetchPc[f] = "dispatch" /\ \E status, pc : DispatchFails(f, status, pc)
        /\ \/ fetchRequest' = fetchRequest
           \/ fetchRequest' = [fetchRequest EXCEPT ![f] = FilledRequest(f)]
    BY <1>8 DEF FetchReject, FetchLockFails, FetchSrbBufferFails, FetchTooSmall
  <2>2. UNCHANGED <<rspPc, rspElement, rspRequest>>
    BY <2>1 DEF DispatchFails
  <2>3. Tags' /\ \A d \in Elements : Element'[d].Tag = Element[d].Tag
    BY <1>0, <2>1, DispatchFailsTags
  <2> QED
    BY <1>2, <2>2, <2>3
<1>9. ASSUME NEW f \in Fetchers, FetchSubmit(f) PROVE Tags' /\ RspTag'
  <2> DEFINE e == fetchElement[f]
  <2>1. e # NoElement /\ e \in FetchHeld /\ e \in TaggedElements
    BY <1>9 DEF FetchSubmit, Held, FetchHeld, TaggedElements
  <2>2. /\ UNCHANGED <<Element, delivered, rspRequest, rspPc, rspElement, RequestHandle>>
        /\ fetchRequest' = [fetchRequest EXCEPT ![f] = FilledRequest(f)]
        /\ SubmittedReqList' = SubmittedReqList \cup {e}
        /\ fetchElement' = [fetchElement EXCEPT ![f] = NoElement]
    BY <1>9 DEF FetchSubmit
  <2>3. FilledRequest(f).RequestHandle = Element[e].Tag /\ FilledRequest(f).Srb = Element[e].Srb
    BY DEF FilledRequest
  <2>4. FetchHeld' \subseteq FetchHeld
    BY <2>2 DEF FetchHeld, TypeOK, FetchTypes
  <2> HIDE DEF e
  <2>5. TaggedElements' \subseteq TaggedElements
    BY <2>1, <2>2, <2>4 DEF TaggedElements, RspHeld
  <2>6. KnownRequests' \subseteq KnownRequests \cup {FilledRequest(f)}
    BY <2>2 DEF KnownRequests, TypeOK, FetchTypes
  <2>7. Tags'
    BY <2>1, <2>2, <2>3, <2>5, <2>6, TagsKept
  <2> QED
    BY <1>2, <2>2, <2>7
<1>10. ASSUME NEW f \in Fetchers, FetchExit(f) PROVE Tags' /\ RspTag'
  <2>1. /\ UNCHANGED <<Element, rspRequest, rspPc, rspElement, RequestHandle, fetchElement,
                       SubmittedReqList>>
        /\ delivered' \subseteq delivered \cup {fetchRequest[f]}
        /\ fetchRequest' = [fetchRequest EXCEPT ![f] = ZeroRequest]
    BY <1>10 DEF FetchExit
  <2>2. KnownRequests' \subseteq KnownRequests \cup {ZeroRequest}
    BY <2>1 DEF KnownRequests, TypeOK, FetchTypes
  <2>3. TaggedElements' = TaggedElements
    BY <2>1, SameTags
  <2>4. Tags'
    BY <2>1, <2>2, <2>3, TagsKept
  <2> QED
    BY <1>2, <2>1, <2>4
<1>11. ASSUME NEW r \in Responders, RspBegin(r) \/ RspNotFound(r) PROVE Tags' /\ RspTag'
  <2>1. /\ UNCHANGED <<Element, RequestHandle, fetchElement, fetchRequest, delivered, rspElement,
                       SubmittedReqList>>
        /\ \E q \in delivered \cup {ZeroRequest} : rspRequest' = [rspRequest EXCEPT ![r] = q]
        /\ \E pc \in {"acquired", "user"} : rspPc' = [rspPc EXCEPT ![r] = pc]
        /\ rspPc[r] # "holding"
    BY <1>11 DEF RspBegin, RspNotFound
  <2>2. KnownRequests' \subseteq KnownRequests \cup {ZeroRequest}
    BY <2>1 DEF KnownRequests, TypeOK, RspTypes
  <2>3. TaggedElements' = TaggedElements
    BY <2>1, SameTags
  <2>4. Tags'
    BY <2>1, <2>2, <2>3, TagsKept
  <2>5. RspTag'
    BY <2>1 DEF RspTag, TypeOK, RspTypes
  <2> QED
    BY <2>4, <2>5
<1>12. ASSUME NEW r \in Responders, RspRemoveByTag(r) PROVE Tags' /\ RspTag'
  <2>1. PICK e \in Tagged(rspRequest[r].RequestHandle) : RspRemoveByTag(r)!2!(e)
    BY <1>12 DEF RspRemoveByTag
  <2>2. e \in SubmittedReqList /\ Element[e].Tag = rspRequest[r].RequestHandle
    BY DEF Tagged
  <2>3. UNCHANGED <<Element, RequestHandle, fetchElement, fetchRequest, delivered, rspRequest>>
    BY <1>12 DEF RspRemoveByTag
  <2>4. TaggedElements' \subseteq TaggedElements /\ KnownRequests' = KnownRequests
    BY <2>1, <2>2, <2>3 DEF TaggedElements, FetchHeld, RspHeld, KnownRequests, TypeOK, RspTypes
  <2>5. Tags'
    BY <2>3, <2>4, TagsKept
  <2>6. RspTag'
    BY <1>12, <2>1, <2>2, <2>3 DEF RspTag, RspRemoveByTag, TypeOK, RspTypes
  <2> QED
    BY <2>5, <2>6
<1>13. ASSUME NEW r \in Responders, RspComplete(r) PROVE Tags' /\ RspTag'
  <2>1. /\ UNCHANGED <<RequestHandle, fetchElement, fetchRequest, delivered, SubmittedReqList>>
        /\ rspPc' = [rspPc EXCEPT ![r] = "user"]
        /\ rspElement' = [rspElement EXCEPT ![r] = NoElement]
        /\ rspRequest' = [rspRequest EXCEPT ![r] = ZeroRequest]
    BY <1>13 DEF RspComplete
  <2>2. \A d \in Elements : Element'[d].Tag = Element[d].Tag /\ Element'[d].Srb = Element[d].Srb
    <3>1. UNCHANGED Element \/ \E status : CompleteRequest(rspElement[r], status, FALSE)
      BY <1>13 DEF RspComplete
    <3> QED
      BY <3>1, CompleteKeepsTags
  <2>3. TaggedElements' \subseteq TaggedElements
    BY <2>1 DEF TaggedElements, FetchHeld, RspHeld, TypeOK, RspTypes
  <2>4. KnownRequests' \subseteq KnownRequests \cup {ZeroRequest}
    BY <2>1 DEF KnownRequests, TypeOK, RspTypes
  <2>5. Tags'
    BY <1>0, <2>1, <2>2, <2>3, <2>4, TagsKept
  <2>6. RspTag'
    BY <2>1, <2>2 DEF RspTag, Held, TypeOK, RspTypes
  <2> QED
    BY <2>5, <2>6
<1>14. ASSUME (\E x \in Resetters : ResetDrains(x)) \/ MonitorDrains PROVE Tags' /\ RspTag'
  <2>1. /\ DrainPendingHead \/ DrainSubmittedHead
        /\ UNCHANGED <<fetchElement, rspElement, delivered, fetchRequest, rspRequest,
                       RequestHandle, rspPc>>
    BY <1>14 DEF ResetDrains, MonitorDrains, MonitorUnchanged
  <2> QED
    BY <1>2, <2>1, DrainKeepsTags
<1>15. ASSUME NEW x \in Resetters, ResetBegin(x) \/ ResetDrained(x) PROVE Tags' /\ RspTag'
  BY <1>1, <1>15 DEF ResetBegin, ResetDrained
<1>16. ASSUME NEW d \in Removers, RemoveQuery(d) \/ RemoveBegin(d) \/ RemoveSignal(d)
              \/ RemoveDone(d)
       PROVE  Tags' /\ RspTag'
  BY <1>1, <1>16 DEF RemoveQuery, RemoveBegin, RemoveSignal, RemoveDone, RemoveUnchanged
<1>17. ASSUME BusReset \/ WnbdCleanupAllDevices \/ MonitorWake \/ MonitorRundown
              \/ MonitorRundownOver \/ MonitorDrained \/ MonitorUnlink
       PROVE  Tags' /\ RspTag'
  BY <1>1, <1>17 DEF BusReset, WnbdCleanupAllDevices, MonitorWake, MonitorRundown,
     MonitorRundownOver, MonitorDrained, MonitorUnlink, MonitorUnchanged
<1>18. ASSUME UNCHANGED vars PROVE Tags' /\ RspTag'
  BY <1>1, <1>18 DEF vars
<1> QED
  BY <1>3, <1>4, <1>5, <1>6, <1>7, <1>8, <1>9, <1>10, <1>11, <1>12, <1>13, <1>14, <1>15, <1>16,
     <1>17, <1>18
  DEF Next, StartIoSteps, FetchSteps, RspSteps, ResetSteps, MonitorSteps

-----------------------------------------------------------------------------
(* The theorems *)

IInv ==
  /\ TypeOK /\ Held /\ Owners /\ References /\ Drained /\ Tags /\ RspTag

\* IInv holds initially.
LEMMA InvariantInit == Init => IInv
<1> SUFFICES ASSUME Init PROVE IInv
  OBVIOUS
<1>1. TypeOK /\ Held
  <2>1. SrbTypes /\ ElementTypes /\ ListTypes
    BY DEF Init, SrbTypes, ElementTypes, ListTypes, Statuses
  <2>2. DeviceTypes
    BY DEF Init, DeviceTypes
  <2>3. StatTypes
    BY DEF Init, StatTypes
  <2>4. ThreadTypes
    BY ConstantsAssumption DEF Init, ThreadTypes, MonitorPcs
  <2>5. FetchTypes /\ RspTypes /\ Held
    BY DEF Init, FetchTypes, RspTypes, Held, Requests, ZeroRequest
  <2> QED
    BY <2>1, <2>2, <2>3, <2>4, <2>5 DEF TypeOK
<1>2. PendingElements = {} /\ FetchHeld = {} /\ RspHeld = {} /\ LiveElements = {}
  BY DEF Init, PendingElements, FetchHeld, RspHeld, LiveElements
<1>3. OneOwner
  <2>1. PendingOnce /\ HeldOnce
    BY DEF Init, PendingOnce, HeldOnce
  <2>2. PlacesDisjoint
    BY <1>2 DEF Init, PlacesDisjoint
  <2> QED
    BY <2>1, <2>2 DEF OneOwner
<1>4. ElementPerOwedSrb /\ Fresh
  BY <1>2 DEF Init, ElementPerOwedSrb, Fresh, Owed
<1>5. References
  BY DEF Init, References, Inside, Drains
<1>6. Drained /\ RspTag
  BY DEF Init, Drained, RspTag
<1>7. Tags
  <2>1. TaggedElements = {}
    BY <1>2 DEF Init, TaggedElements
  <2>2. \A q \in KnownRequests : q.RequestHandle = 0
    BY DEF Init, KnownRequests, ZeroRequest
  <2> QED
    BY <2>1, <2>2 DEF Init, Tags
<1> QED
  BY <1>1, <1>3, <1>4, <1>5, <1>6, <1>7 DEF IInv, Owners

\* IInv is inductive.
THEOREM Invariant == Spec => []IInv
<1>1. IInv /\ [Next]_vars => IInv'
  BY TypeStep, OwnersStep, ReferencesStep, DrainedStep, TagsStep DEF IInv
<1> QED
  BY <1>1, InvariantInit, PTL DEF Spec

\* However fetches, replies, resets and the removal race for the elements, each
\* element has one owner.
THEOREM OneOwnerHolds == Spec => []OneOwner
<1>1. IInv => OneOwner
  BY DEF IInv, Owners
<1> QED
  BY <1>1, Invariant, PTL

\* No SRB is lost or queued twice, except that a removal may forget one.
THEOREM NoRequestLost == Spec => []ElementPerOwedSrb
<1>1. IInv => ElementPerOwedSrb
  BY DEF IInv, Owners
<1> QED
  BY <1>1, Invariant, PTL

\* A reply reaches the SRB its request was made from.
THEOREM RepliesMatch == Spec => []ReplyMatchesRequest
<1>1. IInv => ReplyMatchesRequest
  <2> SUFFICES ASSUME IInv, NEW r \in Responders, rspPc[r] = "holding"
               PROVE  Element[rspElement[r]].Srb = rspRequest[r].Srb
    BY DEF ReplyMatchesRequest
  <2>1. rspElement[r] \in TaggedElements /\ rspRequest[r] \in KnownRequests
    BY DEF IInv, Held, TaggedElements, RspHeld, KnownRequests
  <2> QED
    BY <2>1 DEF IInv, Tags, RspTag
<1> QED
  BY <1>1, Invariant, PTL

\* The device is drained and freed only when no thread uses it.
THEOREM FreedOnlyWhenUnused == Spec => []NoUseAfterFree
<1>1. IInv => NoUseAfterFree
  BY DEF IInv, References, NoUseAfterFree, Drains
<1> QED
  BY <1>1, Invariant, PTL

\* A device that is gone owes StorPort at most what a fetch forgot.
THEOREM GoneIsSettled == Spec => []GoneMeansSettled
<1>1. IInv => GoneMeansSettled
  <2> SUFFICES ASSUME IInv, monitorPc = "gone"
               PROVE  /\ PendingReqList = <<>> /\ SubmittedReqList = {}
                      /\ \A s \in Srbs : Owed(s) => \E e \in dropped : Element[e].Srb = s
    BY DEF GoneMeansSettled
  <2>1. PendingReqList = <<>> /\ SubmittedReqList = {}
    BY DEF IInv, Drained
  <2>2. Inside = {}
    BY DEF IInv, References, Drains
  <2>3. FetchHeld = {} /\ RspHeld = {}
    BY <2>2 DEF Inside, IInv, Held, FetchHeld, RspHeld
  <2>4. LiveElements = dropped
    BY <2>1, <2>3 DEF LiveElements, PendingElements
  <2> QED
    BY <2>1, <2>4 DEF IInv, Owners, ElementPerOwedSrb
<1> QED
  BY <1>1, Invariant, PTL

\* What a step does to an SRB that was completed before: nothing.
LEMMA CompletedStep ==
  ASSUME IInv, [Next]_vars, NEW s \in Srbs, completions[s] > 0
  PROVE  completions'[s] = completions[s] /\ SrbStatus'[s] = SrbStatus[s]
<1>1. TypeOK /\ Held /\ Owners
  BY DEF IInv
<1>2. ASSUME NEW t \in Srbs, completions[t] = 0, NEW status, CompleteSynchronously(t, status)
      PROVE  completions'[s] = completions[s] /\ SrbStatus'[s] = SrbStatus[s]
  <2>1. s # t
    BY <1>2
  <2> QED
    BY <1>1, <1>2, <2>1 DEF CompleteSynchronously, TypeOK, SrbTypes
<1>3. ASSUME NEW e \in LiveElements, NEW status, NEW aborted, CompleteRequest(e, status, aborted)
      PROVE  completions'[s] = completions[s] /\ SrbStatus'[s] = SrbStatus[s]
  <2>1. Element[e].Srb \in Srbs /\ completions[Element[e].Srb] = 0
    BY <1>1, <1>3 DEF Owners, ElementPerOwedSrb, Owed
  <2>2. s # Element[e].Srb
    BY <2>1
  <2> QED
    BY <1>1, <1>3, <2>2 DEF CompleteRequest, TypeOK, SrbTypes
<1>4. ASSUME UNCHANGED <<completions, SrbStatus>>
      PROVE  completions'[s] = completions[s] /\ SrbStatus'[s] = SrbStatus[s]
  BY <1>4
<1>5. ASSUME DrainPendingHead \/ DrainSubmittedHead
      PROVE  completions'[s] = completions[s] /\ SrbStatus'[s] = SrbStatus[s]
  <2>1. \E e \in LiveElements : CompleteRequest(e, "ABORTED", TRUE)
    <3>1. CASE DrainPendingHead
      <4>1. PendingReqList # <<>> /\ CompleteRequest(Head(PendingReqList), "ABORTED", TRUE)
        BY <3>1 DEF DrainPendingHead, AbortElement
      <4>2. 1 \in DOMAIN PendingReqList /\ Head(PendingReqList) = PendingReqList[1]
        BY <1>1, <4>1 DEF TypeOK, ListTypes
      <4>3. Head(PendingReqList) \in LiveElements
        BY <4>2 DEF LiveElements, PendingElements
      <4> QED
        BY <4>1, <4>3
    <3>2. CASE DrainSubmittedHead
      <4>1. PICK e \in SubmittedReqList : CompleteRequest(e, "ABORTED", TRUE)
        BY <3>2 DEF DrainSubmittedHead, AbortElement
      <4> QED
        BY <4>1 DEF LiveElements
    <3> QED
      BY <1>5, <3>1, <3>2
  <2> QED
    BY <1>3, <2>1
<1>6. CASE Quiet \/ UNCHANGED vars
  BY <1>4, <1>6, QuietSteps
<1>7. ASSUME NEW t \in Srbs, StartIo(t) \/ PendElement(t) \/ SignalPended(t)
      PROVE  completions'[s] = completions[s] /\ SrbStatus'[s] = SrbStatus[s]
  BY <1>4, <1>7 DEF StartIo, PendElement, SignalPended
<1>8. ASSUME NEW t \in Srbs,
             StartIoNoDevice(t) \/ HandleRemoved(t) \/ HandleImmediate(t) \/ PendNoMemory(t)
      PROVE  completions'[s] = completions[s] /\ SrbStatus'[s] = SrbStatus[s]
  <2>1. srbPc[t] \in {"idle", "entered"} /\ \E status : CompleteSynchronously(t, status)
    BY <1>8 DEF StartIoNoDevice, HandleRemoved, HandleImmediate, PendNoMemory
  <2> QED
    BY <1>1, <1>2, <2>1 DEF Owners, Fresh
<1>9. ASSUME NEW f \in Fetchers, FetchTakeRemoved(f) \/ FetchTake(f) \/ FetchSubmit(f)
      PROVE  completions'[s] = completions[s] /\ SrbStatus'[s] = SrbStatus[s]
  BY <1>4, <1>9 DEF FetchTakeRemoved, FetchTake, FetchSubmit
<1>10. ASSUME NEW f \in Fetchers, FetchReject(f) \/ FetchLockFails(f)
              \/ FetchSrbBufferFails(f) \/ FetchTooSmall(f)
       PROVE  completions'[s] = completions[s] /\ SrbStatus'[s] = SrbStatus[s]
  <2>1. /\ fetchPc[f] = "dispatch"
        /\ \E status, aborted : CompleteRequest(fetchElement[f], status, aborted)
    BY <1>10 DEF FetchReject, FetchLockFails, FetchSrbBufferFails, FetchTooSmall, DispatchFails
  <2>2. fetchElement[f] \in LiveElements
    BY <1>1, <2>1 DEF Held, LiveElements, FetchHeld
  <2> QED
    BY <1>3, <2>1, <2>2
<1>11. ASSUME NEW r \in Responders, RspRemoveByTag(r)
       PROVE  completions'[s] = completions[s] /\ SrbStatus'[s] = SrbStatus[s]
  BY <1>4, <1>11 DEF RspRemoveByTag
<1>12. ASSUME NEW r \in Responders, RspComplete(r)
       PROVE  completions'[s] = completions[s] /\ SrbStatus'[s] = SrbStatus[s]
  <2>1. rspElement[r] \in LiveElements
    BY <1>1, <1>12 DEF RspComplete, Held, LiveElements, RspHeld
  <2>2. \/ UNCHANGED <<completions, SrbStatus>>
        \/ \E status : CompleteRequest(rspElement[r], status, FALSE)
    BY <1>12 DEF RspComplete
  <2> QED
    BY <1>3, <1>4, <2>1, <2>2
<1>13. ASSUME NEW x \in Resetters, ResetDrains(x)
       PROVE  completions'[s] = completions[s] /\ SrbStatus'[s] = SrbStatus[s]
  BY <1>5, <1>13 DEF ResetDrains
<1>14. ASSUME MonitorDrains \/ MonitorUnlink
       PROVE  completions'[s] = completions[s] /\ SrbStatus'[s] = SrbStatus[s]
  BY <1>4, <1>5, <1>14 DEF MonitorDrains, MonitorUnlink
<1> QED
  BY <1>6, <1>7, <1>8, <1>9, <1>10, <1>11, <1>12, <1>13, <1>14
  DEF Next, Quiet, StartIoSteps, FetchSteps, RspSteps, ResetSteps, MonitorSteps

\* The driver completes an SRB once and does not write to it afterwards.
THEOREM CompletedOnce == Spec => CompletedSrbUntouched
<1>1. IInv /\ [Next]_vars =>
        [\A s \in Srbs : completions[s] > 0 =>
           /\ completions'[s] = completions[s]
           /\ SrbStatus'[s] = SrbStatus[s]]_vars
  BY CompletedStep
<1> QED
  BY <1>1, Invariant, PTL DEF Spec, CompletedSrbUntouched

-----------------------------------------------------------------------------
(* Counting: the semaphore and the statistics.  What is counted is finite    *)
(* because it starts empty and a step adds at most one.                      *)

\* Counting a set that gains or loses an element.
LEMMA CountOf ==
  ASSUME NEW S, IsFiniteSet(S), NEW x
  PROVE  /\ Cardinality(S) \in Nat
         /\ IsFiniteSet(S \cup {x}) /\ IsFiniteSet(S \ {x})
         /\ x \notin S => Cardinality(S \cup {x}) = Cardinality(S) + 1
         /\ x \in S => Cardinality(S \ {x}) = Cardinality(S) - 1
<1>1. Cardinality(S) \in Nat
  BY FS_CardinalityType
<1>2. /\ IsFiniteSet(S \cup {x}) /\ IsFiniteSet(S \ {x})
      /\ Cardinality(S \cup {x}) = IF x \in S THEN Cardinality(S) ELSE Cardinality(S) + 1
      /\ Cardinality(S \ {x}) = IF x \in S THEN Cardinality(S) - 1 ELSE Cardinality(S)
  BY FS_AddElement, FS_RemoveElement
<1> QED
  BY <1>1, <1>2

\* Lengths of lists.
LEMMA Lengths ==
  ASSUME TypeOK
  PROVE  /\ Len(PendingReqList) \in Nat
         /\ \A e \in Elements : Len(Append(PendingReqList, e)) = Len(PendingReqList) + 1
         /\ PendingReqList # <<>> => Len(Tail(PendingReqList)) = Len(PendingReqList) - 1
         /\ PendingReqList = <<>> => Len(PendingReqList) = 0
  BY DEF TypeOK, ListTypes

Woken == {f \in Fetchers : fetchPc[f] = "woken"}
Queued == {s \in Srbs : srbPc[s] = "queued"}

Wakeups ==
  /\ IsFiniteSet(Woken) /\ IsFiniteSet(Queued)
  /\ Len(PendingReqList) <= DeviceEvent + Cardinality(Woken) + Cardinality(Queued)

\* A thread that gets a count of the semaphore, or gives its place up.
LEMMA WokenStep ==
  ASSUME TypeOK, NEW f \in Fetchers, NEW pc, fetchPc' = [fetchPc EXCEPT ![f] = pc]
  PROVE  /\ pc = "woken" => Woken' = Woken \cup {f}
         /\ pc # "woken" => Woken' = Woken \ {f}
  BY DEF TypeOK, FetchTypes, Woken

\* The same of an SRB that is queued.
LEMMA QueuedStep ==
  ASSUME TypeOK, NEW s \in Srbs, NEW pc, srbPc' = [srbPc EXCEPT ![s] = pc]
  PROVE  /\ pc = "queued" => Queued' = Queued \cup {s}
         /\ pc # "queued" => Queued' = Queued \ {s}
  BY DEF TypeOK, SrbTypes, Queued

\* No step makes the semaphore fall behind the list.
LEMMA WakeupsStep ==
  ASSUME TypeOK, Wakeups, [Next]_vars
  PROVE  Wakeups'
<1>0. /\ IsFiniteSet(Woken) /\ IsFiniteSet(Queued) /\ DeviceEvent \in Nat
      /\ Cardinality(Woken) \in Nat /\ Cardinality(Queued) \in Nat /\ Len(PendingReqList) \in Nat
      /\ Len(PendingReqList) <= DeviceEvent + Cardinality(Woken) + Cardinality(Queued)
  BY CountOf, Lengths DEF Wakeups, TypeOK, DeviceTypes
<1>1. ASSUME Woken' = Woken, Queued' = Queued, DeviceEvent' = DeviceEvent,
             \/ PendingReqList' = PendingReqList
             \/ PendingReqList # <<>> /\ PendingReqList' = Tail(PendingReqList)
      PROVE  Wakeups'
  BY <1>0, <1>1, Lengths DEF Wakeups
<1>2. ASSUME NEW s \in Srbs, PendElement(s) PROVE Wakeups'
  <2>1. Woken' = Woken /\ Queued' = Queued \cup {s} /\ s \notin Queued /\ DeviceEvent' = DeviceEvent
    BY <1>2, QueuedStep DEF PendElement, Woken, Queued
  <2>2. Len(PendingReqList') = Len(PendingReqList) + 1
    BY <1>2, Lengths, ConstantsAssumption
    DEF PendElement, Allocatable, TypeOK, ElementTypes, HeapElements
  <2>3. IsFiniteSet(Queued \cup {s}) /\ Cardinality(Queued \cup {s}) = Cardinality(Queued) + 1
    BY <1>0, <2>1, CountOf
  <2> QED
    BY <1>0, <2>1, <2>2, <2>3 DEF Wakeups
<1>3. ASSUME NEW s \in Srbs, SignalPended(s) PROVE Wakeups'
  <2>0. srbPc[s] = "queued" /\ srbPc' = [srbPc EXCEPT ![s] = "pended"]
        /\ fetchPc' = fetchPc /\ DeviceEvent' = DeviceEvent + 1 /\ PendingReqList' = PendingReqList
    BY <1>3 DEF SignalPended
  <2>1. /\ Woken' = Woken /\ Queued' = Queued \ {s} /\ s \in Queued
        /\ DeviceEvent' = DeviceEvent + 1 /\ PendingReqList' = PendingReqList
    <3>1. Queued' = Queued \ {s}
      BY <2>0 DEF TypeOK, SrbTypes, Queued
    <3> QED
      BY <2>0, <3>1 DEF Woken, Queued
  <2>2. IsFiniteSet(Queued \ {s}) /\ Cardinality(Queued \ {s}) = Cardinality(Queued) - 1
    BY <1>0, <2>1, CountOf
  <2> QED
    BY <1>0, <2>1, <2>2 DEF Wakeups
<1>4. ASSUME NEW s \in Srbs, StartIo(s) \/ StartIoNoDevice(s) \/ HandleRemoved(s)
                             \/ HandleImmediate(s) \/ PendNoMemory(s)
      PROVE  Wakeups'
  <2>1. Woken' = Woken /\ DeviceEvent' = DeviceEvent /\ PendingReqList' = PendingReqList
    BY <1>4 DEF StartIo, StartIoNoDevice, HandleRemoved, HandleImmediate, PendNoMemory,
       CompleteSynchronously, Woken
  <2>2. \E pc \in {"entered", "returned"} :
          srbPc' = [srbPc EXCEPT ![s] = pc] /\ s \notin Queued
    BY <1>4 DEF StartIo, StartIoNoDevice, HandleRemoved, HandleImmediate, PendNoMemory,
       CompleteSynchronously, Queued
  <2>3. Queued' = Queued
    BY <2>2, QueuedStep
  <2> QED
    BY <1>1, <2>1, <2>3
<1>5. ASSUME NEW f \in Fetchers, FetchWait(f) \/ FetchWake(f) PROVE Wakeups'
  <2>1. Queued' = Queued /\ PendingReqList' = PendingReqList /\ f \notin Woken
    BY <1>5 DEF FetchWait, FetchWake, FetchUnchanged, Queued, Woken
  <2>2. \/ /\ fetchPc' = [fetchPc EXCEPT ![f] = "woken"] /\ DeviceEvent > 0
           /\ DeviceEvent' = DeviceEvent - 1
        \/ /\ \E pc \in {"exit", "blocked"} : fetchPc' = [fetchPc EXCEPT ![f] = pc]
           /\ DeviceEvent' = DeviceEvent
    BY <1>5 DEF FetchWait, FetchWake, TypeOK, FetchTypes
  <2>3. \/ Woken' = Woken \cup {f} /\ DeviceEvent > 0 /\ DeviceEvent' = DeviceEvent - 1
        \/ Woken' = Woken /\ DeviceEvent' = DeviceEvent
    BY <2>1, <2>2, WokenStep
  <2>4. IsFiniteSet(Woken \cup {f}) /\ Cardinality(Woken \cup {f}) = Cardinality(Woken) + 1
    BY <1>0, <2>1, CountOf
  <2> QED
    <3>1. CASE Woken' = Woken \cup {f} /\ DeviceEvent > 0 /\ DeviceEvent' = DeviceEvent - 1
      BY <1>0, <2>1, <2>4, <3>1 DEF Wakeups
    <3>2. CASE Woken' = Woken /\ DeviceEvent' = DeviceEvent
      BY <1>1, <2>1, <3>2
    <3> QED
      BY <2>3, <3>1, <3>2
<1>6. ASSUME NEW f \in Fetchers, FetchTakeRemoved(f) \/ FetchTakeNone(f) \/ FetchTake(f)
      PROVE  Wakeups'
  <2>1. /\ Queued' = Queued /\ DeviceEvent' = DeviceEvent /\ f \in Woken
        /\ \/ PendingReqList = <<>> /\ PendingReqList' = PendingReqList
           \/ PendingReqList # <<>> /\ PendingReqList' = Tail(PendingReqList)
    BY <1>6 DEF FetchTakeRemoved, FetchTakeNone, FetchTake, FetchUnchanged, Queued, Woken
  <2>2. Woken' = Woken \ {f}
    BY <1>6, WokenStep DEF FetchTakeRemoved, FetchTakeNone, FetchTake
  <2>3. IsFiniteSet(Woken \ {f}) /\ Cardinality(Woken \ {f}) = Cardinality(Woken) - 1
        /\ Cardinality(Woken \ {f}) \in Nat
    BY <1>0, <2>1, CountOf
  <2> QED
    BY <1>0, <2>1, <2>2, <2>3, Lengths DEF Wakeups
<1>7. ASSUME NEW f \in Fetchers,
             \/ FetchBegin(f) \/ FetchAlerted(f) \/ FetchRemoved(f) \/ FetchReject(f)
             \/ FetchLockFails(f) \/ FetchSrbBufferFails(f) \/ FetchTooSmall(f)
             \/ FetchSubmit(f) \/ FetchCount(f) \/ FetchExit(f)
      PROVE  Wakeups'
  <2>1. Queued' = Queued /\ DeviceEvent' = DeviceEvent /\ PendingReqList' = PendingReqList
    BY <1>7 DEF FetchBegin, FetchAlerted, FetchRemoved, FetchReject, FetchLockFails,
       FetchSrbBufferFails, FetchTooSmall, FetchSubmit, FetchCount, FetchExit, DispatchFails, FetchUnchanged,
       Queued
  <2>2. /\ f \notin Woken
        /\ \E pc \in {"loop", "exit", "user", "failed", "refused", "submitted"} :
             fetchPc' = [fetchPc EXCEPT ![f] = pc]
    BY <1>7 DEF FetchBegin, FetchAlerted, FetchRemoved, FetchReject, FetchLockFails,
       FetchSrbBufferFails, FetchTooSmall, FetchSubmit, FetchCount, FetchExit, DispatchFails, Woken, TypeOK,
       FetchTypes
  <2>3. Woken' = Woken
    BY <2>2, WokenStep
  <2> QED
    BY <1>1, <2>1, <2>3
<1>8. ASSUME NEW r \in Responders, RspBegin(r) \/ RspSteps(r) PROVE Wakeups'
  BY <1>1, <1>8 DEF RspBegin, RspSteps, RspRemoveByTag, RspNotFound, RspComplete, Queued, Woken
<1>9. ASSUME NEW x \in Resetters, ResetBegin(x) \/ ResetSteps(x) PROVE Wakeups'
  BY <1>1, <1>9 DEF ResetBegin, ResetSteps, ResetDrains, ResetDrained, DrainPendingHead,
     DrainSubmittedHead, Queued, Woken
<1>10. ASSUME NEW d \in Removers,
              RemoveQuery(d) \/ RemoveBegin(d) \/ RemoveSignal(d) \/ RemoveDone(d)
       PROVE  Wakeups'
  BY <1>1, <1>10 DEF RemoveQuery, RemoveBegin, RemoveSignal, RemoveDone, RemoveUnchanged, Queued,
     Woken
<1>11. ASSUME MonitorSteps PROVE Wakeups'
  BY <1>1, <1>11 DEF MonitorSteps, MonitorWake, MonitorRundown, MonitorRundownOver, MonitorDrains,
     MonitorDrained, MonitorUnlink, MonitorUnchanged, DrainPendingHead, DrainSubmittedHead,
     Queued, Woken
<1>12. ASSUME BusReset \/ WnbdCleanupAllDevices \/ UNCHANGED vars PROVE Wakeups'
  BY <1>1, <1>12 DEF BusReset, WnbdCleanupAllDevices, vars, Queued, Woken
<1> QED
  BY <1>2, <1>3, <1>4, <1>5, <1>6, <1>7, <1>8, <1>9, <1>10, <1>11, <1>12
  DEF Next, StartIoSteps, FetchSteps
\* The SRBs in HwStartIo and the ones StorPort is owed.
Outstanding == {s \in Srbs : srbPc[s] = "entered" \/ Owed(s)}
OutstandingCount ==
  IsFiniteSet(Outstanding) /\ Stats["OutstandingIOCount"] = Cardinality(Outstanding)

\* Steps that leave both alone.
LEMMA OutstandingSame ==
  ASSUME OutstandingCount, Outstanding' = Outstanding,
         Stats'["OutstandingIOCount"] = Stats["OutstandingIOCount"]
  PROVE  OutstandingCount'
  BY DEF OutstandingCount

\* An SRB stops to be outstanding and is counted off.
LEMMA OutstandingLess ==
  ASSUME OutstandingCount, NEW s \in Outstanding, Outstanding' = Outstanding \ {s},
         Stats'["OutstandingIOCount"] = Stats["OutstandingIOCount"] - 1
  PROVE  OutstandingCount'
<1>1. IsFiniteSet(Outstanding) /\ Stats["OutstandingIOCount"] = Cardinality(Outstanding)
  BY DEF OutstandingCount
<1>2. /\ IsFiniteSet(Outstanding \ {s})
      /\ Cardinality(Outstanding \ {s}) = Cardinality(Outstanding) - 1
  BY <1>1, CountOf
<1> QED
  BY <1>1, <1>2 DEF OutstandingCount

\* A completion before HwStartIo returns.
LEMMA SynchronousCount ==
  ASSUME TypeOK, Owners, NEW s \in Srbs, NEW status, CompleteSynchronously(s, status)
  PROVE  /\ srbPc[s] = "idle" => Outstanding' = Outstanding
         /\ srbPc[s] = "entered" => Outstanding' = Outstanding \ {s} /\ s \in Outstanding
<1>1. /\ srbPc'[s] = "returned"
      /\ \A t \in Srbs \ {s} : srbPc'[t] = srbPc[t] /\ completions'[t] = completions[t]
  BY DEF CompleteSynchronously, TypeOK, SrbTypes
<1> QED
  BY <1>1 DEF Outstanding, Owed

\* CompleteRequest of an element in use settles the SRB it stands for.
LEMMA CompleteCount ==
  ASSUME TypeOK, Owners, NEW e \in LiveElements, NEW status, NEW aborted,
         CompleteRequest(e, status, aborted), srbPc' = srbPc
  PROVE  /\ Element[e].Srb \in Outstanding
         /\ Outstanding' = Outstanding \ {Element[e].Srb}
<1> DEFINE t == Element[e].Srb
<1>1. t \in Srbs /\ Owed(t) /\ ~Element[e].Completed
  BY DEF Owners, ElementPerOwedSrb
<1>2. completions'[t] = 1 /\ \A s \in Srbs \ {t} : completions'[s] = completions[s]
  BY <1>1 DEF CompleteRequest, TypeOK, SrbTypes, Owed
<1> HIDE DEF t
<1>3. srbPc[t] \in {"queued", "pended"} /\ completions[t] = 0
  BY <1>1 DEF Owed
<1>4. t \in Outstanding /\ Outstanding' = Outstanding \ {t}
  BY <1>1, <1>2, <1>3 DEF Outstanding, Owed
<1> QED
  BY <1>4 DEF t

\* An element in use was neither completed nor aborted.
LEMMA LiveFlags ==
  ASSUME Owners, NEW e \in LiveElements
  PROVE  Settled(e) = -1 /\ ~Element[e].Aborted
  BY DEF Owners, ElementPerOwedSrb, Settled

\* Elements the handlers complete are in use.
LEMMA HeldIsLive ==
  ASSUME TypeOK, Held
  PROVE  /\ \A f \in Fetchers : fetchPc[f] = "dispatch" => fetchElement[f] \in LiveElements
         /\ \A r \in Responders : rspPc[r] = "holding" => rspElement[r] \in LiveElements
         /\ PendingReqList # <<>> => Head(PendingReqList) \in LiveElements
         /\ \A e \in SubmittedReqList : e \in LiveElements
<1>1. PendingReqList # <<>> => Head(PendingReqList) \in PendingElements
  <2>1. PendingReqList \in Seq(Elements)
    BY DEF TypeOK, ListTypes
  <2>2. PendingReqList # <<>> => 1 \in DOMAIN PendingReqList /\ Head(PendingReqList) = PendingReqList[1]
    BY <2>1
  <2> QED
    BY <2>2 DEF PendingElements
<1> QED
  BY <1>1 DEF Held, FetchHeld, RspHeld, LiveElements

\* The statistics of an aborted element.
LEMMA DrainCount ==
  ASSUME TypeOK, Held, Owners, OutstandingCount, DrainPendingHead \/ DrainSubmittedHead,
         srbPc' = srbPc
  PROVE  OutstandingCount'
<1>1. PICK e \in LiveElements, n \in {"AbortedUnsubmittedIORequests", "AbortedSubmittedIORequests"} :
        AbortElement(e, n)
  BY HeldIsLive DEF DrainPendingHead, DrainSubmittedHead
<1>2. CompleteRequest(e, "ABORTED", TRUE)
  BY <1>1 DEF AbortElement
<1>3. Stats'["OutstandingIOCount"] = Stats["OutstandingIOCount"] - 1
  BY <1>1, LiveFlags DEF AbortElement, Bump, TypeOK, StatTypes, StatNames
<1> QED
  BY <1>2, <1>3, CompleteCount, OutstandingLess

\* OutstandingIOCount stays exact, whatever path a request takes.
LEMMA OutstandingStep ==
  ASSUME TypeOK, Held, Owners, OutstandingCount, [Next]_vars
  PROVE  OutstandingCount'
<1> USE DEF TypeOK, StatTypes, StatNames, Bump
<1>1. ASSUME NEW s \in Srbs, StartIo(s) PROVE OutstandingCount'
  <2>1. /\ srbPc[s] = "idle" /\ srbPc'[s] = "entered" /\ completions' = completions
        /\ \A t \in Srbs \ {s} : srbPc'[t] = srbPc[t]
        /\ Stats'["OutstandingIOCount"] = Stats["OutstandingIOCount"] + 1
    BY <1>1 DEF StartIo, SrbTypes
  <2>2. Outstanding' = Outstanding \cup {s} /\ s \notin Outstanding
    BY <2>1 DEF Outstanding, Owed
  <2>3. IsFiniteSet(Outstanding) /\ Stats["OutstandingIOCount"] = Cardinality(Outstanding)
    BY DEF OutstandingCount
  <2>4. /\ IsFiniteSet(Outstanding \cup {s})
        /\ Cardinality(Outstanding \cup {s}) = Cardinality(Outstanding) + 1
    BY <2>2, <2>3, CountOf
  <2> QED
    BY <2>1, <2>2, <2>3, <2>4 DEF OutstandingCount
<1>2. ASSUME NEW s \in Srbs, StartIoNoDevice(s) PROVE OutstandingCount'
  <2>1. srbPc[s] = "idle" /\ CompleteSynchronously(s, "NO_DEVICE") /\ Stats' = Stats
    BY <1>2 DEF StartIoNoDevice
  <2> QED
    BY ONLY TypeOK, Owners, OutstandingCount, <2>1, SynchronousCount, OutstandingSame
<1>3. ASSUME NEW s \in Srbs, HandleRemoved(s) \/ HandleImmediate(s) \/ PendNoMemory(s)
      PROVE OutstandingCount'
  <2>1. PICK status : srbPc[s] = "entered" /\ CompleteSynchronously(s, status)
    BY <1>3 DEF HandleRemoved, HandleImmediate, PendNoMemory
  <2>2. Stats'["OutstandingIOCount"] = Stats["OutstandingIOCount"] - 1
    BY <1>3 DEF HandleRemoved, HandleImmediate, PendNoMemory
  <2>3. s \in Outstanding /\ Outstanding' = Outstanding \ {s}
    BY <2>1, SynchronousCount
  <2> QED
    BY <2>2, <2>3, OutstandingLess
<1>4. ASSUME NEW s \in Srbs, PendElement(s) \/ SignalPended(s) PROVE OutstandingCount'
  <2>1. /\ \/ srbPc[s] = "entered" /\ srbPc'[s] = "queued"
           \/ srbPc[s] = "queued" /\ srbPc'[s] = "pended"
        /\ completions' = completions /\ \A t \in Srbs \ {s} : srbPc'[t] = srbPc[t]
    BY <1>4 DEF PendElement, SignalPended, SrbTypes
  <2>2. srbPc[s] = "entered" => completions[s] = 0
    BY DEF Owners, Fresh
  <2>3. Outstanding' = Outstanding
    BY <2>1, <2>2 DEF Outstanding, Owed
  <2>4. Stats'["OutstandingIOCount"] = Stats["OutstandingIOCount"]
    BY <1>4 DEF PendElement, SignalPended
  <2> QED
    BY <2>3, <2>4, OutstandingSame
<1>5. ASSUME NEW f \in Fetchers, FetchReject(f) \/ FetchLockFails(f) \/ FetchSrbBufferFails(f)
                                 \/ FetchTooSmall(f)
      PROVE  OutstandingCount'
  <2>1. PICK status, pc : fetchPc[f] = "dispatch" /\ DispatchFails(f, status, pc)
    BY <1>5 DEF FetchReject, FetchLockFails, FetchSrbBufferFails, FetchTooSmall
  <2>2. PICK e \in LiveElements : e = fetchElement[f]
    BY <2>1, HeldIsLive
  <2>3. CompleteRequest(e, status, Element[e].Aborted) /\ srbPc' = srbPc
    BY <2>1, <2>2 DEF DispatchFails
  <2>4. Stats'["OutstandingIOCount"] = Stats["OutstandingIOCount"] - 1
    BY <2>1, <2>2, LiveFlags DEF DispatchFails
  <2> QED
    BY <2>3, <2>4, CompleteCount, OutstandingLess
<1>6. ASSUME NEW r \in Responders, RspComplete(r) PROVE OutstandingCount'
  <2>1. rspPc[r] = "holding" /\ srbPc' = srbPc
    BY <1>6 DEF RspComplete
  <2>2. PICK e \in LiveElements : e = rspElement[r]
    BY <2>1, HeldIsLive
  <2>3. Settled(e) = -1 /\ ~Element[e].Aborted
    BY LiveFlags
  <2>4. PICK status : CompleteRequest(e, status, FALSE)
    BY <1>6, <2>2, <2>3 DEF RspComplete
  <2>5. Stats'["OutstandingIOCount"] = Stats["OutstandingIOCount"] - 1
    BY <1>6, <2>2, <2>3 DEF RspComplete
  <2> QED
    BY <2>1, <2>4, <2>5, CompleteCount, OutstandingLess
<1>7. ASSUME NEW x \in Resetters, ResetDrains(x) PROVE OutstandingCount'
  BY <1>7, DrainCount DEF ResetDrains
<1>8. ASSUME MonitorDrains PROVE OutstandingCount'
  BY <1>8, DrainCount DEF MonitorDrains, MonitorUnchanged
<1>9. ASSUME \/ Quiet \/ UNCHANGED vars \/ MonitorUnlink
             \/ \E f \in Fetchers : FetchTakeRemoved(f) \/ FetchTake(f) \/ FetchSubmit(f)
             \/ \E r \in Responders : RspRemoveByTag(r)
      PROVE  OutstandingCount'
  <2>1. UNCHANGED <<srbPc, completions>>
    BY <1>9, QuietSteps DEF MonitorUnlink, MonitorUnchanged, FetchTakeRemoved, FetchTake,
       FetchSubmit, RspRemoveByTag
  <2>2. Outstanding' = Outstanding
    BY <2>1 DEF Outstanding, Owed
  <2>3. CASE Quiet
    BY <2>2, <2>3, OutstandingSame DEF Quiet, FetchBegin, FetchAlerted, FetchWait, FetchWake,
       FetchRemoved, FetchTakeNone, FetchCount, FetchExit, FetchUnchanged, RspBegin, RspNotFound, ResetBegin,
       ResetDrained, RemoveQuery, RemoveBegin, RemoveSignal, RemoveDone, RemoveUnchanged, BusReset,
       WnbdCleanupAllDevices, MonitorWake, MonitorRundown, MonitorRundownOver, MonitorDrained
  <2>4. CASE \E f \in Fetchers : FetchSubmit(f)
    BY <2>2, <2>4, OutstandingSame DEF FetchSubmit
  <2> QED
    BY <1>9, <2>2, <2>3, <2>4, OutstandingSame
    DEF vars, MonitorUnlink, FetchTakeRemoved, FetchTake, RspRemoveByTag
<1> QED
  BY <1>1, <1>2, <1>3, <1>4, <1>5, <1>6, <1>7, <1>8, <1>9
  DEF Next, Quiet, StartIoSteps, FetchSteps, RspSteps, ResetSteps, MonitorSteps

\* The fetches that have still to count what they did with their element, and the
\* ones among them that submitted it.
Uncounted == {f \in Fetchers : fetchPc[f] \in {"failed", "refused", "submitted"}}
Submitting == {f \in Fetchers : fetchPc[f] = "submitted"}

\* The gauges as they are once these fetches have counted.
Unsubmitted == Stats["UnsubmittedIORequests"] - Cardinality(Uncounted)
PendingSubmitted == Stats["PendingSubmittedIORequests"] + Cardinality(Submitting)

\* They count the elements of their stage and every element that was aborted in it.
GaugesDriftByAborts ==
  /\ Unsubmitted =
       Len(PendingReqList) + Cardinality(FetchHeld) + Cardinality(dropped)
       + Stats["AbortedUnsubmittedIORequests"]
  /\ PendingSubmitted =
       Cardinality(SubmittedReqList) + Cardinality(RspHeld)
       + Stats["AbortedSubmittedIORequests"]
  /\ Stats["CompletedAbortedIORequests"] = 0

FiniteLate == IsFiniteSet(Uncounted) /\ IsFiniteSet(Submitting)

\* The gauges, and the stages they count are finite.
Gauges ==
  /\ IsFiniteSet(FetchHeld) /\ IsFiniteSet(dropped)
  /\ IsFiniteSet(SubmittedReqList) /\ IsFiniteSet(RspHeld)
  /\ FiniteLate
  /\ GaugesDriftByAborts

\* What a step of one fetch does to the fetches that have still to count.
LEMMA UncountedStep ==
  ASSUME TypeOK, NEW f \in Fetchers, NEW pc, fetchPc' = [fetchPc EXCEPT ![f] = pc]
  PROVE  /\ Uncounted' = IF pc \in {"failed", "refused", "submitted"}
                           THEN Uncounted \cup {f} ELSE Uncounted \ {f}
         /\ Submitting' = IF pc = "submitted" THEN Submitting \cup {f} ELSE Submitting \ {f}
  BY DEF TypeOK, FetchTypes, Uncounted, Submitting

\* A fetch that is not among them before or after its step.
LEMMA UncountedSame ==
  ASSUME TypeOK, NEW f \in Fetchers, NEW pc, fetchPc' = [fetchPc EXCEPT ![f] = pc],
         fetchPc[f] \notin {"failed", "refused", "submitted"},
         pc \notin {"failed", "refused", "submitted"}
  PROVE  Uncounted' = Uncounted /\ Submitting' = Submitting
  BY DEF TypeOK, FetchTypes, Uncounted, Submitting

\* A step that leaves them alone moves the gauges by what it counts.
LEMMA GaugesMove ==
  ASSUME TypeOK, TypeOK', FiniteLate, Uncounted' = Uncounted, Submitting' = Submitting
  PROVE  /\ FiniteLate'
         /\ Unsubmitted \in Int /\ PendingSubmitted \in Int
         /\ Unsubmitted' =
              Unsubmitted + (Stats'["UnsubmittedIORequests"] - Stats["UnsubmittedIORequests"])
         /\ PendingSubmitted' =
              PendingSubmitted
              + (Stats'["PendingSubmittedIORequests"] - Stats["PendingSubmittedIORequests"])
<1>1. Cardinality(Uncounted) \in Nat /\ Cardinality(Submitting) \in Nat
  BY CountOf DEF FiniteLate
<1>2. /\ Stats["UnsubmittedIORequests"] \in Int /\ Stats["PendingSubmittedIORequests"] \in Int
      /\ Stats'["UnsubmittedIORequests"] \in Int /\ Stats'["PendingSubmittedIORequests"] \in Int
  BY StatFacts DEF TypeOK, StatTypes
<1> QED
  BY <1>1, <1>2 DEF FiniteLate, Unsubmitted, PendingSubmitted

\* A step that leaves the places and the gauges alone.
LEMMA GaugesSame ==
  ASSUME TypeOK, TypeOK', Gauges, Uncounted' = Uncounted, Submitting' = Submitting,
         UNCHANGED <<PendingReqList, SubmittedReqList, dropped, fetchElement, rspElement>>,
         \A n \in {"UnsubmittedIORequests", "PendingSubmittedIORequests",
                   "AbortedUnsubmittedIORequests", "AbortedSubmittedIORequests",
                   "CompletedAbortedIORequests"} : Stats'[n] = Stats[n]
  PROVE  Gauges'
<1>1. FetchHeld' = FetchHeld /\ RspHeld' = RspHeld
  BY DEF FetchHeld, RspHeld
<1>2. FiniteLate' /\ Unsubmitted' = Unsubmitted /\ PendingSubmitted' = PendingSubmitted
  <2>1. /\ Stats'["UnsubmittedIORequests"] = Stats["UnsubmittedIORequests"]
        /\ Stats'["PendingSubmittedIORequests"] = Stats["PendingSubmittedIORequests"]
    OBVIOUS
  <2> QED
    BY <2>1, GaugesMove DEF Gauges, FiniteLate, Unsubmitted, PendingSubmitted
<1> QED
  BY <1>1, <1>2 DEF Gauges, GaugesDriftByAborts

\* What the held elements become when a thread lets one go or takes one.
LEMMA HeldMoves ==
  ASSUME TypeOK, TypeOK', Held, Owners
  PROVE  /\ \A f \in Fetchers :
              fetchPc[f] = "dispatch" /\ fetchElement' = [fetchElement EXCEPT ![f] = NoElement]
              => FetchHeld' = FetchHeld \ {fetchElement[f]} /\ fetchElement[f] \in FetchHeld
         /\ \A f \in Fetchers, e \in Elements :
              fetchPc[f] = "woken" /\ fetchElement' = [fetchElement EXCEPT ![f] = e]
              => FetchHeld' = FetchHeld \cup {e}
         /\ \A r \in Responders :
              rspPc[r] = "holding" /\ rspElement' = [rspElement EXCEPT ![r] = NoElement]
              => RspHeld' = RspHeld \ {rspElement[r]} /\ rspElement[r] \in RspHeld
         /\ \A r \in Responders, e \in Elements :
              rspPc[r] = "acquired" /\ rspElement' = [rspElement EXCEPT ![r] = e]
              => RspHeld' = RspHeld \cup {e}
<1>1. /\ fetchElement = [g \in Fetchers |-> fetchElement[g]]
      /\ rspElement = [g \in Responders |-> rspElement[g]]
  BY DEF TypeOK, FetchTypes, RspTypes
<1>2. HeldOnce /\ NoElement \notin Elements
  BY ConstantsAssumption DEF Owners, OneOwner
<1>3. ASSUME NEW f \in Fetchers, fetchPc[f] = "dispatch",
             fetchElement' = [fetchElement EXCEPT ![f] = NoElement]
      PROVE  FetchHeld' = FetchHeld \ {fetchElement[f]} /\ fetchElement[f] \in FetchHeld
  <2>1. \A u, v \in Fetchers :
          fetchElement[u] = fetchElement[v] /\ fetchElement[u] # NoElement => u = v
    BY <1>2 DEF HeldOnce
  <2>2. fetchElement[f] # NoElement
    BY <1>3 DEF Held
  <2> QED
    BY <1>1, <1>3, <2>1, <2>2, KeptDrop, Places, PlacesNext
<1>4. ASSUME NEW f \in Fetchers, NEW e \in Elements, fetchPc[f] = "woken",
             fetchElement' = [fetchElement EXCEPT ![f] = e]
      PROVE  FetchHeld' = FetchHeld \cup {e}
  <2>1. fetchElement[f] = NoElement
    BY <1>4 DEF Held
  <2> QED
    BY <1>1, <1>2, <1>4, <2>1, KeptTake, Places, PlacesNext
<1>5. ASSUME NEW r \in Responders, rspPc[r] = "holding",
             rspElement' = [rspElement EXCEPT ![r] = NoElement]
      PROVE  RspHeld' = RspHeld \ {rspElement[r]} /\ rspElement[r] \in RspHeld
  <2>1. \A u, v \in Responders :
          rspElement[u] = rspElement[v] /\ rspElement[u] # NoElement => u = v
    BY <1>2 DEF HeldOnce
  <2>2. rspElement[r] # NoElement
    BY <1>5 DEF Held
  <2> QED
    BY <1>1, <1>5, <2>1, <2>2, KeptDrop, Places, PlacesNext
<1>6. ASSUME NEW r \in Responders, NEW e \in Elements, rspPc[r] = "acquired",
             rspElement' = [rspElement EXCEPT ![r] = e]
      PROVE  RspHeld' = RspHeld \cup {e}
  <2>1. rspElement[r] = NoElement
    BY <1>6 DEF Held
  <2> QED
    BY <1>1, <1>2, <1>6, <2>1, KeptTake, Places, PlacesNext
<1> QED
  BY <1>3, <1>4, <1>5, <1>6

\* The head of the pending list is in none of the other places.
LEMMA HeadIsPending ==
  ASSUME TypeOK, Owners, PendingReqList # <<>>
  PROVE  /\ Head(PendingReqList) \in Elements
         /\ Head(PendingReqList) \notin FetchHeld /\ Head(PendingReqList) \notin dropped
<1>1. PendingReqList \in Seq(Elements)
  BY DEF TypeOK, ListTypes
<1>2. 1 \in DOMAIN PendingReqList /\ Head(PendingReqList) = PendingReqList[1]
      /\ Head(PendingReqList) \in Elements
  BY <1>1
<1>3. Head(PendingReqList) \in PendingElements
  BY <1>2 DEF PendingElements
<1> QED
  BY <1>2, <1>3 DEF Owners, OneOwner, PlacesDisjoint

\* An aborted request leaves its stage and stays on the stage's gauge.
LEMMA DrainGauges ==
  ASSUME TypeOK, TypeOK', Held, Owners, Gauges, DrainPendingHead \/ DrainSubmittedHead,
         UNCHANGED <<fetchPc, fetchElement, rspElement>>
  PROVE  Gauges'
<1> USE DEF TypeOK, StatTypes, StatNames, Bump
<1>1. FetchHeld' = FetchHeld /\ RspHeld' = RspHeld
  BY DEF FetchHeld, RspHeld
<1>0. Uncounted' = Uncounted /\ Submitting' = Submitting
  BY DEF Uncounted, Submitting
<1>2. CASE DrainPendingHead
  <2>1. /\ PendingReqList # <<>> /\ PendingReqList' = Tail(PendingReqList)
        /\ UNCHANGED <<SubmittedReqList, dropped>>
    BY <1>2 DEF DrainPendingHead
  <2>2. PICK e \in LiveElements : AbortElement(e, "AbortedUnsubmittedIORequests")
    BY <1>2, <2>1, HeldIsLive DEF DrainPendingHead
  <2>3. /\ Stats'["AbortedUnsubmittedIORequests"] = Stats["AbortedUnsubmittedIORequests"] + 1
        /\ \A n \in {"UnsubmittedIORequests", "PendingSubmittedIORequests",
                     "AbortedSubmittedIORequests", "CompletedAbortedIORequests"} :
             Stats'[n] = Stats[n]
    BY <2>2, LiveFlags DEF AbortElement
  <2>4. Len(PendingReqList') = Len(PendingReqList) - 1 /\ Len(PendingReqList) \in Nat
    BY <2>1, Lengths
  <2>5. Cardinality(FetchHeld) \in Nat /\ Cardinality(dropped) \in Nat
    BY CountOf DEF Gauges
  <2>6. \A n \in StatNames : Stats[n] \in Int
    OBVIOUS
  <2>8. /\ FiniteLate' /\ Unsubmitted \in Int /\ PendingSubmitted \in Int
        /\ Unsubmitted' = Unsubmitted /\ PendingSubmitted' = PendingSubmitted
    BY <1>0, <2>3, <2>6, GaugesMove DEF Gauges
  <2>7. GaugesDriftByAborts'
    <3>1. /\ GaugesDriftByAborts /\ Stats["AbortedUnsubmittedIORequests"] \in Int
      BY <2>6, StatFacts DEF Gauges
    <3>2. Unsubmitted =
            (Len(PendingReqList) - 1) + Cardinality(FetchHeld) + Cardinality(dropped)
            + (Stats["AbortedUnsubmittedIORequests"] + 1)
      BY ONLY <2>4, <2>5, <2>8, <3>1 DEF GaugesDriftByAborts
    <3> QED
      BY ONLY <1>1, <2>1, <2>3, <2>4, <2>8, <3>1, <3>2 DEF GaugesDriftByAborts
  <2> QED
    BY <1>1, <2>1, <2>7, <2>8 DEF Gauges
<1>3. CASE DrainSubmittedHead
  <2>1. PICK e \in SubmittedReqList :
          /\ AbortElement(e, "AbortedSubmittedIORequests")
          /\ SubmittedReqList' = SubmittedReqList \ {e}
          /\ UNCHANGED <<PendingReqList, dropped>>
    BY <1>3 DEF DrainSubmittedHead
  <2>2. /\ Stats'["AbortedSubmittedIORequests"] = Stats["AbortedSubmittedIORequests"] + 1
        /\ \A n \in {"UnsubmittedIORequests", "PendingSubmittedIORequests",
                     "AbortedUnsubmittedIORequests", "CompletedAbortedIORequests"} :
             Stats'[n] = Stats[n]
    BY <2>1, HeldIsLive, LiveFlags DEF AbortElement
  <2>3. /\ IsFiniteSet(SubmittedReqList \ {e}) /\ Cardinality(SubmittedReqList) \in Nat
        /\ Cardinality(SubmittedReqList \ {e}) = Cardinality(SubmittedReqList) - 1
    BY <2>1, CountOf DEF Gauges
  <2>4. Cardinality(RspHeld) \in Nat
    BY CountOf DEF Gauges
  <2>5. \A n \in StatNames : Stats[n] \in Int
    OBVIOUS
  <2>6. /\ FiniteLate' /\ Unsubmitted \in Int /\ PendingSubmitted \in Int
        /\ Unsubmitted' = Unsubmitted /\ PendingSubmitted' = PendingSubmitted
    BY <1>0, <2>2, <2>5, GaugesMove DEF Gauges
  <2>7. GaugesDriftByAborts'
    <3>1. /\ GaugesDriftByAborts /\ Stats["AbortedSubmittedIORequests"] \in Int
      BY <2>5, StatFacts DEF Gauges
    <3>2. PendingSubmitted =
            (Cardinality(SubmittedReqList) - 1) + Cardinality(RspHeld)
            + (Stats["AbortedSubmittedIORequests"] + 1)
      BY ONLY <2>3, <2>4, <2>6, <3>1 DEF GaugesDriftByAborts
    <3> QED
      BY ONLY <1>1, <2>1, <2>2, <2>3, <2>6, <3>1, <3>2 DEF GaugesDriftByAborts
  <2> QED
    BY <1>1, <2>1, <2>3, <2>6, <2>7 DEF Gauges
<1> QED
  BY <1>2, <1>3

\* Every step keeps the gauges: they count their stage and what was aborted in it.
LEMMA GaugesStep ==
  ASSUME TypeOK, TypeOK', Held, Owners, Gauges, [Next]_vars
  PROVE  Gauges'
<1>0. /\ Stats \in [StatNames -> Int]
      /\ IsFiniteSet(FetchHeld) /\ IsFiniteSet(dropped)
      /\ IsFiniteSet(SubmittedReqList) /\ IsFiniteSet(RspHeld)
      /\ FiniteLate
  BY DEF Gauges, TypeOK, StatTypes
<1>00. /\ Unsubmitted \in Int /\ PendingSubmitted \in Int
       /\ Stats["AbortedUnsubmittedIORequests"] \in Int
       /\ Stats["AbortedSubmittedIORequests"] \in Int
       /\ Cardinality(FetchHeld) \in Nat /\ Cardinality(dropped) \in Nat
       /\ Cardinality(SubmittedReqList) \in Nat /\ Cardinality(RspHeld) \in Nat
       /\ Len(PendingReqList) \in Nat
  <2>1. Cardinality(Uncounted) \in Nat /\ Cardinality(Submitting) \in Nat
    BY <1>0, CountOf DEF FiniteLate
  <2> QED
    <3>1. \A n \in StatNames : Stats[n] \in Int
      BY <1>0
    <3>2. Unsubmitted \in Int /\ PendingSubmitted \in Int
      BY <2>1, <3>1, StatFacts DEF Unsubmitted, PendingSubmitted
    <3> QED
      BY <1>0, <3>1, <3>2, CountOf, Lengths, StatFacts
<1>000. ASSUME UNCHANGED fetchPc PROVE Uncounted' = Uncounted /\ Submitting' = Submitting
  BY <1>000 DEF Uncounted, Submitting
<1>1. ASSUME NEW s \in Srbs, PendElement(s) PROVE Gauges'
  <2>1. /\ Len(PendingReqList') = Len(PendingReqList) + 1
        /\ UNCHANGED <<SubmittedReqList, dropped, fetchPc, fetchElement, rspElement>>
    BY <1>1, Lengths, ConstantsAssumption
    DEF PendElement, Allocatable, TypeOK, ElementTypes, HeapElements
  <2>20. /\ Stats'["UnsubmittedIORequests"] = Stats["UnsubmittedIORequests"] + 1
         /\ Stats'["PendingSubmittedIORequests"] = Stats["PendingSubmittedIORequests"]
         /\ Stats'["AbortedUnsubmittedIORequests"] = Stats["AbortedUnsubmittedIORequests"]
         /\ Stats'["AbortedSubmittedIORequests"] = Stats["AbortedSubmittedIORequests"]
         /\ Stats'["CompletedAbortedIORequests"] = Stats["CompletedAbortedIORequests"]
    BY <1>0, <1>1 DEF PendElement, Bump, StatNames
  <2>2. /\ FiniteLate' /\ Unsubmitted' = Unsubmitted + 1 /\ PendingSubmitted' = PendingSubmitted
        /\ Stats'["AbortedUnsubmittedIORequests"] = Stats["AbortedUnsubmittedIORequests"]
        /\ Stats'["AbortedSubmittedIORequests"] = Stats["AbortedSubmittedIORequests"]
        /\ Stats'["CompletedAbortedIORequests"] = Stats["CompletedAbortedIORequests"]
    BY <1>0, <1>000, <2>1, <2>20, GaugesMove, StatFacts
  <2>3. FetchHeld' = FetchHeld /\ RspHeld' = RspHeld
    BY <2>1 DEF FetchHeld, RspHeld
  <2>8. /\ Cardinality(FetchHeld') = Cardinality(FetchHeld) /\ Cardinality(dropped') = Cardinality(dropped)
        /\ Cardinality(SubmittedReqList') = Cardinality(SubmittedReqList)
        /\ Cardinality(RspHeld') = Cardinality(RspHeld)
    BY <1>00, <2>1, <2>2, <2>3
  <2>10. GaugesDriftByAborts'
    <3>1. Len(PendingReqList') = Len(PendingReqList) + 1
      BY ONLY <1>00, <2>1, <2>2, <2>8
    <3>2. GaugesDriftByAborts
      BY DEF Gauges
    <3>3. Unsubmitted' =
            Len(PendingReqList') + Cardinality(FetchHeld') + Cardinality(dropped')
            + Stats'["AbortedUnsubmittedIORequests"]
      <4>1. Unsubmitted + 1 =
              (Len(PendingReqList) + 1) + Cardinality(FetchHeld) + Cardinality(dropped)
              + Stats["AbortedUnsubmittedIORequests"]
        BY ONLY <1>00, <3>2 DEF GaugesDriftByAborts
      <4> QED
        BY ONLY <2>2, <2>8, <3>1, <4>1
    <3>4. PendingSubmitted' =
            Cardinality(SubmittedReqList') + Cardinality(RspHeld')
            + Stats'["AbortedSubmittedIORequests"]
      BY ONLY <1>00, <2>1, <2>2, <2>8, <3>2 DEF GaugesDriftByAborts
    <3> QED
      BY ONLY <1>00, <2>1, <2>2, <2>8, <3>2, <3>3, <3>4 DEF GaugesDriftByAborts
  <2> QED
    BY <1>0, <2>1, <2>2, <2>3, <2>10 DEF Gauges
<1>2. ASSUME NEW s \in Srbs,
             \/ StartIo(s) \/ StartIoNoDevice(s) \/ HandleRemoved(s) \/ HandleImmediate(s)
             \/ SignalPended(s) \/ PendNoMemory(s)
      PROVE  Gauges'
  <2>1. UNCHANGED <<PendingReqList, SubmittedReqList, dropped, fetchPc, fetchElement, rspElement>>
    BY <1>2 DEF StartIo, StartIoNoDevice, HandleRemoved, HandleImmediate, SignalPended,
       PendNoMemory, CompleteSynchronously
  <2>2. \A n \in {"UnsubmittedIORequests", "PendingSubmittedIORequests",
                  "AbortedUnsubmittedIORequests", "AbortedSubmittedIORequests",
                  "CompletedAbortedIORequests"} : Stats'[n] = Stats[n]
    BY <1>0, <1>2 DEF StartIo, StartIoNoDevice, HandleRemoved, HandleImmediate, SignalPended,
       PendNoMemory, Bump, StatNames
  <2> QED
    BY <1>000, <2>1, <2>2, GaugesSame
<1>3. ASSUME NEW f \in Fetchers, FetchTake(f) PROVE Gauges'
  <2>1. PICK e \in Elements : e = Head(PendingReqList) /\ e \notin FetchHeld
    BY <1>3, HeadIsPending DEF FetchTake
  <2>2. /\ PendingReqList # <<>> /\ PendingReqList' = Tail(PendingReqList) /\ fetchPc[f] = "woken"
        /\ fetchElement' = [fetchElement EXCEPT ![f] = e]
        /\ UNCHANGED <<SubmittedReqList, dropped, rspElement, Stats>>
    BY <1>3, <2>1 DEF FetchTake
  <2>6. Uncounted' = Uncounted /\ Submitting' = Submitting
    BY <1>3, UncountedSame DEF FetchTake
  <2>7. FiniteLate' /\ Unsubmitted' = Unsubmitted /\ PendingSubmitted' = PendingSubmitted
    BY <1>0, <2>2, <2>6 DEF FiniteLate, Unsubmitted, PendingSubmitted
  <2>3. FetchHeld' = FetchHeld \cup {e}
    BY <2>2, HeldMoves
  <2>9. RspHeld' = RspHeld
    BY <2>2, <2>3 DEF RspHeld
  <2>4. /\ IsFiniteSet(FetchHeld \cup {e})
        /\ Cardinality(FetchHeld \cup {e}) = Cardinality(FetchHeld) + 1
    BY <1>0, <2>1, CountOf
  <2>5. Len(PendingReqList') = Len(PendingReqList) - 1
    BY <2>2, Lengths
  <2>10. GaugesDriftByAborts'
    BY ONLY <1>00, <2>2, <2>3, <2>4, <2>5, <2>7, <2>9, Gauges
    DEF Gauges, GaugesDriftByAborts
  <2> QED
    BY <1>0, <2>2, <2>3, <2>4, <2>5, <2>7, <2>9, <2>10 DEF Gauges
<1>4. ASSUME NEW f \in Fetchers, FetchTakeRemoved(f) PROVE Gauges'
  <2>1. UNCHANGED <<SubmittedReqList, fetchElement, rspElement, Stats>>
    BY <1>4 DEF FetchTakeRemoved
  <2>4. Uncounted' = Uncounted /\ Submitting' = Submitting
    BY <1>4, UncountedSame DEF FetchTakeRemoved
  <2>5. FiniteLate' /\ Unsubmitted' = Unsubmitted /\ PendingSubmitted' = PendingSubmitted
    BY <1>0, <2>1, <2>4 DEF FiniteLate, Unsubmitted, PendingSubmitted
  <2>2. CASE PendingReqList = <<>>
    BY <1>4, <2>1, <2>2, <2>4, GaugesSame DEF FetchTakeRemoved
  <2>3. CASE PendingReqList # <<>>
    <3>1. PICK e \in Elements : e = Head(PendingReqList) /\ e \notin dropped
      BY <2>3, HeadIsPending
    <3>2. PendingReqList' = Tail(PendingReqList) /\ dropped' = dropped \cup {e}
      BY <1>4, <2>3, <3>1 DEF FetchTakeRemoved
    <3>3. FetchHeld' = FetchHeld /\ RspHeld' = RspHeld
      BY <2>1 DEF FetchHeld, RspHeld
    <3>4. /\ IsFiniteSet(dropped \cup {e})
          /\ Cardinality(dropped \cup {e}) = Cardinality(dropped) + 1
      BY <1>0, <3>1, CountOf
    <3>5. Len(PendingReqList') = Len(PendingReqList) - 1
      BY <2>3, <3>2, Lengths
    <3>8. /\ Cardinality(FetchHeld') = Cardinality(FetchHeld) /\ Cardinality(dropped') = Cardinality(dropped) + 1
          /\ Cardinality(SubmittedReqList') = Cardinality(SubmittedReqList)
          /\ Cardinality(RspHeld') = Cardinality(RspHeld)
      BY <1>00, <2>1, <3>2, <3>3, <3>4, <3>5
    <3>10. GaugesDriftByAborts'
      BY ONLY <1>00, <2>1, <2>5, <3>5, <3>8, Gauges
      DEF Gauges, GaugesDriftByAborts
    <3> QED
      BY <1>0, <2>1, <2>5, <3>2, <3>3, <3>4, <3>5, <3>10 DEF Gauges
  <2> QED
    BY <2>2, <2>3
<1>5. ASSUME NEW f \in Fetchers, FetchReject(f) \/ FetchLockFails(f) \/ FetchSrbBufferFails(f)
                                 \/ FetchTooSmall(f)
      PROVE  Gauges'
  <2>1. PICK status \in Statuses, pc \in {"failed", "refused"} : fetchPc[f] = "dispatch" /\ DispatchFails(f, status, pc)
    BY <1>5 DEF FetchReject, FetchLockFails, FetchSrbBufferFails, FetchTooSmall, Statuses
  <2>2. PICK e : e = fetchElement[f]
    OBVIOUS
  <2>3. /\ UNCHANGED <<PendingReqList, SubmittedReqList, dropped, rspElement>>
        /\ fetchElement' = [fetchElement EXCEPT ![f] = NoElement]
    BY <2>1 DEF DispatchFails
  <2>40. /\ Stats'["UnsubmittedIORequests"] = Stats["UnsubmittedIORequests"]
         /\ Stats'["PendingSubmittedIORequests"] = Stats["PendingSubmittedIORequests"]
         /\ Stats'["AbortedUnsubmittedIORequests"] = Stats["AbortedUnsubmittedIORequests"]
         /\ Stats'["AbortedSubmittedIORequests"] = Stats["AbortedSubmittedIORequests"]
         /\ Stats'["CompletedAbortedIORequests"] = Stats["CompletedAbortedIORequests"]
    BY <1>0, <2>1 DEF DispatchFails, Bump, StatNames
  <2>4. /\ FiniteLate' /\ Unsubmitted' = Unsubmitted - 1 /\ PendingSubmitted' = PendingSubmitted
        /\ Stats'["AbortedUnsubmittedIORequests"] = Stats["AbortedUnsubmittedIORequests"]
        /\ Stats'["AbortedSubmittedIORequests"] = Stats["AbortedSubmittedIORequests"]
        /\ Stats'["CompletedAbortedIORequests"] = Stats["CompletedAbortedIORequests"]
    <3>1. /\ Uncounted' = Uncounted \cup {f} /\ f \notin Uncounted
          /\ Submitting' = Submitting /\ f \notin Submitting
      <4>1. fetchPc' = [fetchPc EXCEPT ![f] = pc] /\ fetchPc[f] = "dispatch"
        BY <2>1 DEF DispatchFails
      <4> QED
        BY <4>1 DEF TypeOK, FetchTypes, Uncounted, Submitting
    <3>2. /\ IsFiniteSet(Uncounted \cup {f}) /\ Cardinality(Uncounted) \in Nat
          /\ Cardinality(Submitting) \in Nat
          /\ Cardinality(Uncounted \cup {f}) = Cardinality(Uncounted) + 1
      BY <1>0, <3>1, CountOf DEF FiniteLate
    <3>3. Stats["UnsubmittedIORequests"] \in Int /\ Stats["PendingSubmittedIORequests"] \in Int
      BY <1>0, StatFacts
    <3> QED
      BY <1>0, <2>40, <3>1, <3>2, <3>3 DEF FiniteLate, Unsubmitted, PendingSubmitted
  <2>5. FetchHeld' = FetchHeld \ {e} /\ e \in FetchHeld
    BY <2>1, <2>2, <2>3, HeldMoves
  <2>9. RspHeld' = RspHeld
    BY <2>2, <2>3 DEF RspHeld
  <2>6. /\ IsFiniteSet(FetchHeld \ {e})
        /\ Cardinality(FetchHeld \ {e}) = Cardinality(FetchHeld) - 1
    BY <1>0, <2>5, CountOf
  <2>8. /\ Cardinality(FetchHeld') = Cardinality(FetchHeld) - 1 /\ Cardinality(dropped') = Cardinality(dropped)
        /\ Cardinality(SubmittedReqList') = Cardinality(SubmittedReqList)
        /\ Cardinality(RspHeld') = Cardinality(RspHeld)
    BY <1>00, <2>3, <2>4, <2>5, <2>6, <2>9
  <2>10. GaugesDriftByAborts'
    <3>1. Len(PendingReqList') = Len(PendingReqList)
      BY ONLY <2>3
    <3>2. GaugesDriftByAborts
      BY DEF Gauges
    <3>3. Unsubmitted - 1 =
            Len(PendingReqList) + (Cardinality(FetchHeld) - 1) + Cardinality(dropped)
            + Stats["AbortedUnsubmittedIORequests"]
      BY ONLY <1>00, <3>2 DEF GaugesDriftByAborts
    <3> QED
      BY ONLY <2>4, <2>8, <3>1, <3>2, <3>3 DEF GaugesDriftByAborts
  <2> QED
    BY <1>0, <2>3, <2>4, <2>5, <2>6, <2>9, <2>10 DEF Gauges
<1>6. ASSUME NEW f \in Fetchers, FetchSubmit(f) PROVE Gauges'
  <2>1. PICK e : e = fetchElement[f]
    OBVIOUS
  <2>2. /\ fetchPc[f] = "dispatch" /\ UNCHANGED <<PendingReqList, dropped, rspElement>>
        /\ fetchElement' = [fetchElement EXCEPT ![f] = NoElement]
        /\ SubmittedReqList' = SubmittedReqList \cup {e}
    BY <1>6, <2>1 DEF FetchSubmit
  <2>30. Stats' = Stats
    BY <1>6 DEF FetchSubmit
  <2>3. /\ FiniteLate' /\ Unsubmitted' = Unsubmitted - 1 /\ PendingSubmitted' = PendingSubmitted + 1
        /\ Stats'["AbortedUnsubmittedIORequests"] = Stats["AbortedUnsubmittedIORequests"]
        /\ Stats'["AbortedSubmittedIORequests"] = Stats["AbortedSubmittedIORequests"]
        /\ Stats'["CompletedAbortedIORequests"] = Stats["CompletedAbortedIORequests"]
    <3>1. /\ Uncounted' = Uncounted \cup {f} /\ f \notin Uncounted
          /\ Submitting' = Submitting \cup {f} /\ f \notin Submitting
      <4>1. /\ fetchPc' = [fetchPc EXCEPT ![f] = "submitted"] /\ f \notin Uncounted
            /\ f \notin Submitting
        BY <1>6 DEF FetchSubmit, Uncounted, Submitting
      <4> QED
        BY <4>1, UncountedStep
    <3>2. /\ IsFiniteSet(Uncounted \cup {f}) /\ IsFiniteSet(Submitting \cup {f})
          /\ Cardinality(Uncounted) \in Nat /\ Cardinality(Submitting) \in Nat
          /\ Cardinality(Uncounted \cup {f}) = Cardinality(Uncounted) + 1
          /\ Cardinality(Submitting \cup {f}) = Cardinality(Submitting) + 1
      BY <1>0, <3>1, CountOf DEF FiniteLate
    <3>3. Stats["UnsubmittedIORequests"] \in Int /\ Stats["PendingSubmittedIORequests"] \in Int
      BY <1>0, StatFacts
    <3> QED
      BY <2>30, <3>1, <3>2, <3>3 DEF FiniteLate, Unsubmitted, PendingSubmitted
  <2>4. FetchHeld' = FetchHeld \ {e} /\ e \in FetchHeld
    BY <2>1, <2>2, HeldMoves
  <2>9. RspHeld' = RspHeld
    BY <2>2, <2>3 DEF RspHeld
  <2>5. e \notin SubmittedReqList
    BY <2>4 DEF Owners, OneOwner, PlacesDisjoint
  <2>6. /\ IsFiniteSet(FetchHeld \ {e}) /\ IsFiniteSet(SubmittedReqList \cup {e})
        /\ Cardinality(FetchHeld \ {e}) = Cardinality(FetchHeld) - 1
        /\ Cardinality(SubmittedReqList \cup {e}) = Cardinality(SubmittedReqList) + 1
    BY <1>0, <2>4, <2>5, CountOf
  <2>8. /\ Cardinality(FetchHeld') = Cardinality(FetchHeld) - 1 /\ Cardinality(dropped') = Cardinality(dropped)
        /\ Cardinality(SubmittedReqList') = Cardinality(SubmittedReqList) + 1
        /\ Cardinality(RspHeld') = Cardinality(RspHeld)
    BY <1>00, <2>2, <2>3, <2>4, <2>6, <2>9
  <2>10. GaugesDriftByAborts'
    <3>1. Len(PendingReqList') = Len(PendingReqList)
      BY ONLY <1>00, <2>2, <2>3, <2>8
    <3>2. GaugesDriftByAborts
      BY DEF Gauges
    <3>3. Unsubmitted - 1 =
            Len(PendingReqList) + (Cardinality(FetchHeld) - 1) + Cardinality(dropped)
            + Stats["AbortedUnsubmittedIORequests"]
      BY ONLY <1>00, <3>2 DEF GaugesDriftByAborts
    <3>4. PendingSubmitted + 1 =
            (Cardinality(SubmittedReqList) + 1) + Cardinality(RspHeld)
            + Stats["AbortedSubmittedIORequests"]
      BY ONLY <1>00, <3>2 DEF GaugesDriftByAborts
    <3> QED
      BY ONLY <2>3, <2>8, <3>1, <3>2, <3>3, <3>4 DEF GaugesDriftByAborts
  <2> QED
    BY <1>0, <2>2, <2>3, <2>4, <2>6, <2>9, <2>10 DEF Gauges
<1>7. ASSUME NEW r \in Responders, RspRemoveByTag(r) PROVE Gauges'
  <2>1. PICK e \in Tagged(rspRequest[r].RequestHandle) : RspRemoveByTag(r)!2!(e)
    BY <1>7 DEF RspRemoveByTag
  <2>2. e \in SubmittedReqList /\ e \in Elements
    BY DEF Tagged, TypeOK, ListTypes
  <2>3. /\ rspPc[r] = "acquired" /\ UNCHANGED <<PendingReqList, dropped, fetchPc, fetchElement, Stats>>
        /\ rspElement' = [rspElement EXCEPT ![r] = e]
        /\ SubmittedReqList' = SubmittedReqList \ {e}
    BY <1>7, <2>1 DEF RspRemoveByTag
  <2>7. FiniteLate' /\ Unsubmitted' = Unsubmitted /\ PendingSubmitted' = PendingSubmitted
    BY <1>0, <1>000, <2>3 DEF FiniteLate, Unsubmitted, PendingSubmitted
  <2>4. RspHeld' = RspHeld \cup {e}
    BY <2>2, <2>3, HeldMoves
  <2>9. FetchHeld' = FetchHeld
    BY <2>2, <2>3 DEF FetchHeld
  <2>5. e \notin RspHeld
    BY <2>2 DEF Owners, OneOwner, PlacesDisjoint
  <2>6. /\ IsFiniteSet(RspHeld \cup {e}) /\ IsFiniteSet(SubmittedReqList \ {e})
        /\ Cardinality(RspHeld \cup {e}) = Cardinality(RspHeld) + 1
        /\ Cardinality(SubmittedReqList \ {e}) = Cardinality(SubmittedReqList) - 1
    BY <1>0, <2>2, <2>5, CountOf
  <2>10. GaugesDriftByAborts'
    BY ONLY <1>00, <2>3, <2>4, <2>6, <2>7, <2>9, Gauges
    DEF Gauges, GaugesDriftByAborts
  <2> QED
    BY <1>0, <2>3, <2>4, <2>6, <2>7, <2>9, <2>10 DEF Gauges
<1>8. ASSUME NEW r \in Responders, RspComplete(r) PROVE Gauges'
  <2>1. rspPc[r] = "holding" /\ rspElement[r] \in LiveElements
    BY <1>8, HeldIsLive DEF RspComplete
  <2>2. PICK e \in LiveElements : e = rspElement[r]
    BY <2>1
  <2>3. /\ UNCHANGED <<PendingReqList, SubmittedReqList, dropped, fetchPc, fetchElement>>
        /\ rspElement' = [rspElement EXCEPT ![r] = NoElement]
    BY <1>8 DEF RspComplete
  <2>4. ~Element[e].Aborted
    BY LiveFlags
  <2>50. /\ Stats'["PendingSubmittedIORequests"] = Stats["PendingSubmittedIORequests"] - 1
         /\ Stats'["UnsubmittedIORequests"] = Stats["UnsubmittedIORequests"]
         /\ Stats'["AbortedUnsubmittedIORequests"] = Stats["AbortedUnsubmittedIORequests"]
         /\ Stats'["AbortedSubmittedIORequests"] = Stats["AbortedSubmittedIORequests"]
         /\ Stats'["CompletedAbortedIORequests"] = Stats["CompletedAbortedIORequests"]
    BY <1>0, <1>8, <2>2, <2>4 DEF RspComplete, Bump, StatNames
  <2>5. /\ FiniteLate' /\ Unsubmitted' = Unsubmitted /\ PendingSubmitted' = PendingSubmitted - 1
        /\ Stats'["AbortedUnsubmittedIORequests"] = Stats["AbortedUnsubmittedIORequests"]
        /\ Stats'["AbortedSubmittedIORequests"] = Stats["AbortedSubmittedIORequests"]
        /\ Stats'["CompletedAbortedIORequests"] = Stats["CompletedAbortedIORequests"]
    BY <1>0, <1>000, <2>3, <2>50, GaugesMove, StatFacts
  <2>6. RspHeld' = RspHeld \ {e} /\ e \in RspHeld
    BY <2>1, <2>2, <2>3, HeldMoves
  <2>9. FetchHeld' = FetchHeld
    BY <2>2, <2>3 DEF FetchHeld
  <2>7. /\ IsFiniteSet(RspHeld \ {e})
        /\ Cardinality(RspHeld \ {e}) = Cardinality(RspHeld) - 1
    BY <1>0, <2>6, CountOf
  <2>8. /\ Cardinality(FetchHeld') = Cardinality(FetchHeld) /\ Cardinality(dropped') = Cardinality(dropped)
        /\ Cardinality(SubmittedReqList') = Cardinality(SubmittedReqList)
        /\ Cardinality(RspHeld') = Cardinality(RspHeld) - 1
    BY <1>00, <2>3, <2>5, <2>6, <2>7, <2>9
  <2>10. GaugesDriftByAborts'
    BY ONLY <1>00, <2>3, <2>5, <2>8, Gauges
    DEF Gauges, GaugesDriftByAborts
  <2> QED
    BY <1>0, <2>3, <2>5, <2>6, <2>7, <2>9, <2>10 DEF Gauges
<1>9. ASSUME NEW x \in Resetters, ResetDrains(x) PROVE Gauges'
  BY <1>9, DrainGauges DEF ResetDrains
<1>10. ASSUME MonitorDrains PROVE Gauges'
  BY <1>10, DrainGauges DEF MonitorDrains, MonitorUnchanged
<1>11. ASSUME NEW f \in Fetchers, FetchCount(f) PROVE Gauges'
  <2>1. /\ UNCHANGED <<PendingReqList, SubmittedReqList, dropped, fetchElement, rspElement>>
        /\ fetchPc[f] \in {"failed", "refused", "submitted"}
        /\ \E pc \in {"loop", "exit"} : fetchPc' = [fetchPc EXCEPT ![f] = pc]
    BY <1>11 DEF FetchCount, TypeOK, FetchTypes
  <2>2. Uncounted' = Uncounted \ {f} /\ f \in Uncounted /\ Submitting' = Submitting \ {f}
    BY <2>1, UncountedStep DEF Uncounted
  <2>3. f \in Submitting <=> fetchPc[f] = "submitted"
    BY DEF Submitting
  <2>4. /\ IsFiniteSet(Uncounted \ {f}) /\ IsFiniteSet(Submitting \ {f})
        /\ Cardinality(Uncounted) \in Nat /\ Cardinality(Submitting) \in Nat
        /\ Cardinality(Uncounted \ {f}) = Cardinality(Uncounted) - 1
        /\ f \in Submitting => Cardinality(Submitting \ {f}) = Cardinality(Submitting) - 1
        /\ f \notin Submitting => Submitting \ {f} = Submitting
    BY <1>0, <2>2, CountOf DEF FiniteLate
  <2>5. /\ Stats'["UnsubmittedIORequests"] = Stats["UnsubmittedIORequests"] - 1
        /\ Stats'["PendingSubmittedIORequests"] =
             IF fetchPc[f] = "submitted" THEN Stats["PendingSubmittedIORequests"] + 1
             ELSE Stats["PendingSubmittedIORequests"]
        /\ Stats'["AbortedUnsubmittedIORequests"] = Stats["AbortedUnsubmittedIORequests"]
        /\ Stats'["AbortedSubmittedIORequests"] = Stats["AbortedSubmittedIORequests"]
        /\ Stats'["CompletedAbortedIORequests"] = Stats["CompletedAbortedIORequests"]
    BY <1>0, <1>11 DEF FetchCount, Bump, StatNames
  <2>6. Stats["UnsubmittedIORequests"] \in Int /\ Stats["PendingSubmittedIORequests"] \in Int
    BY <1>0, StatFacts
  <2>7. FiniteLate' /\ Unsubmitted' = Unsubmitted
    BY <2>2, <2>4, <2>5, <2>6 DEF FiniteLate, Unsubmitted
  <2>8. PendingSubmitted' = PendingSubmitted
    <3>1. CASE f \in Submitting
      BY <2>2, <2>3, <2>4, <2>5, <2>6, <3>1 DEF PendingSubmitted
    <3>2. CASE f \notin Submitting
      BY <2>2, <2>3, <2>4, <2>5, <2>6, <3>2 DEF PendingSubmitted
    <3> QED
      BY <3>1, <3>2
  <2>9. FetchHeld' = FetchHeld /\ RspHeld' = RspHeld
    BY <2>1 DEF FetchHeld, RspHeld
  <2> QED
    BY <2>1, <2>5, <2>7, <2>8, <2>9 DEF Gauges, GaugesDriftByAborts
<1>12. ASSUME NEW f \in Fetchers,
              \/ FetchBegin(f) \/ FetchAlerted(f) \/ FetchWait(f) \/ FetchWake(f)
              \/ FetchRemoved(f) \/ FetchTakeNone(f) \/ FetchExit(f)
       PROVE  Gauges'
  <2>1. /\ UNCHANGED <<PendingReqList, SubmittedReqList, dropped, fetchElement, rspElement>>
        /\ Stats' = Stats /\ fetchPc[f] \notin {"failed", "refused", "submitted"}
        /\ \E pc \in {"user", "loop", "blocked", "woken", "exit"} :
             fetchPc' = [fetchPc EXCEPT ![f] = pc]
    BY <1>12 DEF FetchBegin, FetchAlerted, FetchWait, FetchWake, FetchRemoved, FetchTakeNone,
       FetchExit, FetchUnchanged, TypeOK, FetchTypes
  <2>2. Uncounted' = Uncounted /\ Submitting' = Submitting
    BY <2>1, UncountedSame
  <2> QED
    BY <2>1, <2>2, GaugesSame
<1>13. ASSUME \/ UNCHANGED vars \/ MonitorUnlink
              \/ \E r \in Responders : RspBegin(r) \/ RspNotFound(r)
              \/ \E x \in Resetters : ResetBegin(x) \/ ResetDrained(x)
              \/ \E d \in Removers :
                   RemoveQuery(d) \/ RemoveBegin(d) \/ RemoveSignal(d) \/ RemoveDone(d)
              \/ BusReset \/ WnbdCleanupAllDevices
              \/ MonitorWake \/ MonitorRundown \/ MonitorRundownOver \/ MonitorDrained
       PROVE  Gauges'
  <2>1. /\ UNCHANGED <<PendingReqList, SubmittedReqList, dropped, fetchElement, rspElement>>
        /\ Stats' = Stats /\ fetchPc' = fetchPc
    BY <1>13 DEF RspBegin, RspNotFound, ResetBegin, ResetDrained, RemoveQuery, RemoveBegin,
       RemoveSignal, RemoveDone, RemoveUnchanged, BusReset, WnbdCleanupAllDevices, MonitorWake,
       MonitorRundown, MonitorRundownOver, MonitorDrained, MonitorUnlink, MonitorUnchanged, vars
  <2> QED
    BY <1>000, <2>1, GaugesSame
<1> QED
  BY <1>1, <1>2, <1>3, <1>4, <1>5, <1>6, <1>7, <1>8, <1>9, <1>10, <1>11,
     <1>12, <1>13
  DEF Next, StartIoSteps, FetchSteps, RspSteps, ResetSteps, MonitorSteps

\* IInv with the counts.
CInv == IInv /\ Wakeups /\ OutstandingCount /\ Gauges

\* CInv is inductive.
THEOREM CountingInvariant == Spec => []CInv
<1>1. Init => CInv
  <2> SUFFICES ASSUME Init PROVE CInv
    OBVIOUS
  <2>1. Woken = {} /\ Queued = {} /\ Outstanding = {}
    BY DEF Init, Woken, Queued, Outstanding, Owed
  <2>2. FetchHeld = {} /\ RspHeld = {} /\ Uncounted = {} /\ Submitting = {}
    BY DEF Init, FetchHeld, RspHeld, Uncounted, Submitting
  <2>3. IsFiniteSet({}) /\ Cardinality({}) = 0
    BY FS_EmptySet
  <2>4. \A n \in StatNames : Stats[n] = 0
    BY DEF Init
  <2>5. /\ PendingReqList = <<>> /\ Len(PendingReqList) = 0 /\ SubmittedReqList = {}
        /\ dropped = {} /\ DeviceEvent = 0
    BY DEF Init
  <2>6. Wakeups
    BY <2>1, <2>3, <2>5 DEF Wakeups
  <2>7. OutstandingCount
    BY <2>1, <2>3, <2>4 DEF OutstandingCount, StatNames
  <2>8. Gauges
    BY <2>2, <2>3, <2>4, <2>5 DEF Gauges, GaugesDriftByAborts, FiniteLate, Unsubmitted,
       PendingSubmitted, StatNames
  <2> QED
    BY <2>6, <2>7, <2>8, InvariantInit DEF CInv
<1>2. CInv /\ [Next]_vars => CInv'
  <2> SUFFICES ASSUME CInv, [Next]_vars PROVE CInv'
    OBVIOUS
  <2>1. IInv'
    BY TypeStep, OwnersStep, ReferencesStep, DrainedStep, TagsStep DEF IInv, CInv
  <2> QED
    BY <2>1, WakeupsStep, OutstandingStep, GaugesStep DEF IInv, CInv
<1> QED
  BY <1>1, <1>2, PTL DEF Spec

\* The semaphore never falls behind the pending list, for any number of requests
\* and threads.
THEOREM NoWakeupLost == Spec => []NoLostWakeup
<1>1. CInv => NoLostWakeup
  BY DEF CInv, Wakeups, NoLostWakeup, Woken, Queued
<1> QED
  BY <1>1, CountingInvariant, PTL

\* At rest the statistics are off by the aborted requests only, whichever error
\* paths the requests took and whenever the fetches counted them.
THEOREM StatisticsDrift == Spec => []StatisticsDriftByAborts
<1>1. CInv => StatisticsDriftByAborts
  <2> SUFFICES ASSUME CInv, AtRest PROVE StatisticsDriftByAborts
    BY DEF StatisticsDriftByAborts
  <2>1. FetchHeld = {} /\ RspHeld = {}
    BY DEF CInv, IInv, Held, AtRest, FetchHeld, RspHeld
  <2>2. Uncounted = {} /\ Submitting = {}
    BY DEF AtRest, Uncounted, Submitting
  <2>3. Outstanding = {s \in Srbs : Owed(s)}
    BY DEF AtRest, Outstanding
  <2>4. Cardinality({}) = 0 /\ Cardinality(dropped) \in Nat
        /\ Cardinality(SubmittedReqList) \in Nat /\ Len(PendingReqList) \in Nat
    BY FS_EmptySet, CountOf, Lengths DEF CInv, IInv, Gauges
  <2>5. \A n \in StatNames : Stats[n] \in Int
    BY DEF CInv, IInv, TypeOK, StatTypes
  <2>6. Unsubmitted = Stats["UnsubmittedIORequests"]
        /\ PendingSubmitted = Stats["PendingSubmittedIORequests"]
    BY <2>2, <2>4, <2>5, StatFacts DEF Unsubmitted, PendingSubmitted
  <2>7. Stats["AbortedUnsubmittedIORequests"] \in Int /\ Stats["AbortedSubmittedIORequests"] \in Int
    BY <2>5, StatFacts
  <2> QED
    BY <2>1, <2>3, <2>4, <2>6, <2>7
    DEF CInv, OutstandingCount, Gauges, GaugesDriftByAborts, StatisticsDriftByAborts
<1> QED
  BY <1>1, CountingInvariant, PTL
=============================================================================
