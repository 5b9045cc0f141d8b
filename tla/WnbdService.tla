---------------------------- MODULE WnbdService -----------------------------
(***************************************************************************)
(* What one WNBD disk promises StorPort, without lists, threads, elements  *)
(* or references: every SRB it accepts is settled once, a queued one       *)
(* succeeds only if userspace was handed it, and a disk that is removed    *)
(* settles everything before it vanishes.  The one promise the driver does *)
(* not keep is part of the specification: a removal may lose a request     *)
(* that userspace was not handed yet.  The SRBs that StorPort completes by *)
(* itself on a bus reset are not the disk's to settle (SrbCompletedOnce).  *)
(*                                                                         *)
(* Module WnbdRequests implements this one (module WnbdRequestsService).   *)
(***************************************************************************)
CONSTANT Srbs

VARIABLES
  request,  \* what became of each SRB
  disk      \* "serving", "removing" or "gone"

vars == <<request, disk>>

Unsettled == {"accepted", "handed"}
Settled   == {"answered", "succeeded", "failed"}
States    == {"idle", "lost"} \cup Unsettled \cup Settled

TypeOK ==
  /\ request \in [Srbs -> States]
  /\ disk \in {"serving", "removing", "gone"}

Init ==
  /\ request = [s \in Srbs |-> "idle"]
  /\ disk = "serving"

Becomes(s, from, to) ==
  /\ request[s] \in from
  /\ request' = [request EXCEPT ![s] = to]
  /\ UNCHANGED disk

\* A disk that is being removed accepts nothing and hands nothing out.
Accept(s)  == disk = "serving" /\ Becomes(s, {"idle"}, "accepted")
Hand(s)    == disk = "serving" /\ Becomes(s, {"accepted"}, "handed")
Refuse(s)  == disk # "serving" /\ Becomes(s, {"idle"}, "failed")

\* A command the driver emulates is answered without userspace; a command that
\* was queued succeeds through userspace only.
Answer(s)  == Becomes(s, {"accepted"}, "answered")
Succeed(s) == Becomes(s, {"handed"}, "succeeded")
Fail(s)    == Becomes(s, Unsettled, "failed")
Lose(s)    == disk = "removing" /\ Becomes(s, {"accepted"}, "lost")

Remove ==
  /\ disk = "serving"
  /\ disk' = "removing"
  /\ UNCHANGED request

Vanish ==
  /\ disk = "removing"
  /\ \A s \in Srbs : request[s] \notin Unsettled
  /\ disk' = "gone"
  /\ UNCHANGED request

Next ==
  \/ \E s \in Srbs : \/ Accept(s) \/ Hand(s) \/ Refuse(s) \/ Answer(s)
                     \/ Succeed(s) \/ Fail(s) \/ Lose(s)
  \/ Remove \/ Vanish

Spec == Init /\ [][Next]_vars

\* A removal that started ends.
RemovalEnds == disk = "removing" ~> disk = "gone"

LiveSpec == Spec /\ RemovalEnds
=============================================================================
