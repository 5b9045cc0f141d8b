----------------------------- MODULE WnbdOptions -----------------------------
(***************************************************************************)
(* The driver options (options.c): every option has a value in force, in   *)
(* the driver's memory, and may have a persistent one, in the registry.    *)
(* Setting, resetting and reloading them touches the two one after the     *)
(* other, without a lock, on behalf of any number of processes; the        *)
(* registry may refuse, may be edited by others, and outlives the driver.  *)
(*                                                                         *)
(* A value is the eight bytes of the WNBD_OPTION_VALUE union that reach    *)
(* the registry: an integer for an Int64 option; 0, 1 and 2 for a Bool     *)
(* option are a zero byte AsBool, a byte that is not zero, and a zero byte *)
(* with something else in the seven bytes after it.                        *)
(***************************************************************************)
EXTENDS Naturals, FiniteSets

CONSTANTS
  BoolOptions, IntOptions, \* the names in WnbdDriverOptions, by type
  UnknownNames,            \* names that are not in it
  Default,                 \* the default value of each option
  IntValues,               \* integers a caller may pass
  Callers                  \* processes with an ioctl under way

DrvOptions == BoolOptions \cup IntOptions
BoolValues == 0..2

ASSUME OptionsAssumption ==
  /\ BoolOptions \cap IntOptions = {} /\ UnknownNames \cap DrvOptions = {}
  /\ IntValues \subseteq Nat
  /\ Default \in [DrvOptions -> Nat] /\ "" \notin DrvOptions
  /\ \A o \in BoolOptions : Default[o] \in 0..1
  /\ \A o \in IntOptions : Default[o] \in IntValues

VARIABLES
  Value,      \* the value in force of each option
  registry,   \* [kind, data] of each option in the driver's registry key
  keyOpen,    \* GlobalDrvRegHandle is valid
  call,       \* what each caller is doing
  given       \* history: what the completed operations asked for

vars == <<Value, registry, keyOpen, call, given>>

Unset == [kind |-> "absent", data |-> 0]    \* no such registry value
Foreign == [kind |-> "foreign", data |-> 0] \* of another type or size
Qword(n) == [kind |-> "qword", data |-> n]
Idle == [pc |-> "idle", option |-> "", data |-> 0, persistent |-> FALSE, todo |-> {}]

\* The option a caller is working on right now, if any.
Touches(c, o) == call[c].pc # "idle" /\ call[c].option = o
Quiet(o) == \A c \in Callers : ~Touches(c, o)

(***************************************************************************)
(* Reading and converting values.                                          *)
(***************************************************************************)
AsBool(n) == IF n = 1 THEN 1 ELSE 0

\* What a reader makes of the value in force.
Meaning(o, n) == IF o \in BoolOptions THEN AsBool(n) ELSE n

\* The registry is always read as eight bytes, so any of them makes a Bool
\* TRUE; a type or size other than REG_QWORD and 8 is refused.
ReadKey(o) ==
  IF registry[o].kind # "qword" THEN {}
  ELSE IF o \in BoolOptions /\ registry[o].data # 0 THEN {1}
  ELSE {registry[o].data}

WnbdGetPersistentOpt(o) == IF keyOpen THEN ReadKey(o) ELSE {}

\* The answer to IOCTL_WNBD_GET_DRV_OPT: no value is an error.
WnbdGetDrvOpt(o, persistent) ==
  IF persistent THEN WnbdGetPersistentOpt(o) ELSE {Meaning(o, Value[o])}

\* The answer to IOCTL_WNBD_LIST_DRV_OPT.
WnbdListDrvOpt(persistent) ==
  {o \in DrvOptions : WnbdGetDrvOpt(o, persistent) # {}}

\* The outcomes of WnbdProcessOptionValue, none for a value it rejects.
\* RtlUnicodeStringToInt64 is given a UNICODE_STRING whose Length is 0: it
\* may read the text regardless, or nothing.
WnbdProcessOptionValue(o, v) ==
  CASE v.type = "bool"  -> IF o \in BoolOptions THEN {v.data} ELSE {}
    [] v.type = "int64" -> IF o \in IntOptions THEN {v.data} ELSE {}
    [] v.type = "wstr"  -> IF o \in BoolOptions
                           THEN (IF v.data \in {0, 1} THEN {v.data} ELSE {})
                           ELSE {0, v.data}

\* Values a caller may pass: typed ones, and strings that spell a number.
Inputs == [type : {"bool"}, data : BoolValues] \cup
          [type : {"int64", "wstr"}, data : IntValues]

(***************************************************************************)
(* What the completed operations asked for.  Operations on an option that  *)
(* overlap have no defined outcome: once they are over, what they left is  *)
(* taken as given.                                                         *)
(***************************************************************************)
Init ==
  /\ Value = Default
  /\ registry = [o \in DrvOptions |-> Unset]
  /\ keyOpen = TRUE
  /\ call = [c \in Callers |-> Idle]
  /\ given = [o \in DrvOptions |-> [runtime |-> Default[o], stored |-> Unset, raced |-> FALSE]]

Raced == [runtime |-> 0, stored |-> Unset, raced |-> TRUE]

\* The caller c returns from its work on o; g is what it asked for.
Settle(c, o, g) ==
  given' = [given EXCEPT ![o] =
    IF ~given[o].raced THEN g
    ELSE IF \A b \in Callers \ {c} : ~Touches(b, o)
         THEN [runtime |-> Meaning(o, Value'[o]), stored |-> registry'[o], raced |-> FALSE]
         ELSE Raced]

\* A caller starts its work on o.
Enter(o) ==
  given' = [given EXCEPT ![o] = IF Quiet(o) THEN @ ELSE Raced]

Return(c) == call' = [call EXCEPT ![c] = Idle]

(***************************************************************************)
(* WnbdSetDrvOpt.                                                          *)
(***************************************************************************)
\* WnbdFindOpt fails, or the value is of another type: nothing changes.
SetRejected(c, name, v) ==
  /\ call[c].pc = "idle"
  /\ name \notin DrvOptions \/ WnbdProcessOptionValue(name, v) = {}
  /\ UNCHANGED vars

SetBegin(c, o, v, persistent) ==
  /\ call[c].pc = "idle" /\ o \in DrvOptions
  /\ \E n \in WnbdProcessOptionValue(o, v) :
       call' = [call EXCEPT ![c] =
         [pc |-> IF persistent THEN "setPersistent" ELSE "setRuntime",
          option |-> o, data |-> n, persistent |-> persistent, todo |-> {}]]
  /\ Enter(o)
  /\ UNCHANGED <<Value, registry, keyOpen>>

\* ZwSetValueKey succeeds.
SetPersistent(c) ==
  /\ call[c].pc = "setPersistent" /\ keyOpen
  /\ registry' = [registry EXCEPT ![call[c].option] = Qword(call[c].data)]
  /\ call' = [call EXCEPT ![c].pc = "setRuntime"]
  /\ UNCHANGED <<Value, keyOpen, given>>

\* Mutant: the value in force is assigned before the registry is written.
SetPersistentFailsLate(c) ==
  LET o == call[c].option IN
  /\ call[c].pc = "setPersistent"
  /\ Value' = [Value EXCEPT ![o] = call[c].data]
  /\ UNCHANGED <<registry, keyOpen>>
  /\ Return(c) /\ Settle(c, o, given[o])

\* ZwSetValueKey fails: the value in force stays.
SetPersistentFails(c) ==
  LET o == call[c].option IN
  /\ call[c].pc = "setPersistent"
  /\ UNCHANGED <<Value, registry, keyOpen>>
  /\ Return(c) /\ Settle(c, o, given[o])

SetRuntime(c) ==
  LET o == call[c].option n == call[c].data IN
  /\ call[c].pc = "setRuntime"
  /\ Value' = [Value EXCEPT ![o] = n]
  /\ UNCHANGED <<registry, keyOpen>>
  /\ Return(c)
  /\ Settle(c, o, [given[o] EXCEPT !.runtime = Meaning(o, n),
                                   !.stored = IF call[c].persistent THEN Qword(n) ELSE @])

(***************************************************************************)
(* WnbdResetDrvOpt.                                                        *)
(***************************************************************************)
ResetBegin(c, o, persistent) ==
  /\ call[c].pc = "idle" /\ o \in DrvOptions
  /\ call' = [call EXCEPT ![c] =
       [pc |-> IF persistent THEN "resetPersistent" ELSE "resetRuntime",
        option |-> o, data |-> 0, persistent |-> persistent, todo |-> {}]]
  /\ Enter(o)
  /\ UNCHANGED <<Value, registry, keyOpen>>

\* ZwDeleteValueKey succeeds.
ResetPersistent(c) ==
  LET o == call[c].option IN
  /\ call[c].pc = "resetPersistent" /\ keyOpen /\ registry[o] # Unset
  /\ registry' = [registry EXCEPT ![o] = Unset]
  /\ call' = [call EXCEPT ![c].pc = "resetRuntime"]
  /\ UNCHANGED <<Value, keyOpen, given>>

\* ZwDeleteValueKey fails, as it does when there is no such value: the value
\* in force is not reset either.
ResetPersistentFails(c) ==
  LET o == call[c].option IN
  /\ call[c].pc = "resetPersistent"
  /\ UNCHANGED <<Value, registry, keyOpen>>
  /\ Return(c) /\ Settle(c, o, given[o])

ResetRuntime(c) ==
  LET o == call[c].option IN
  /\ call[c].pc = "resetRuntime"
  /\ Value' = [Value EXCEPT ![o] = Default[o]]
  /\ UNCHANGED <<registry, keyOpen>>
  /\ Return(c)
  /\ Settle(c, o, [given[o] EXCEPT !.runtime = Default[o],
                                   !.stored = IF call[c].persistent THEN Unset ELSE @])

(***************************************************************************)
(* WnbdReloadPersistentOptions, by ioctl: option after option, each read   *)
(* from the registry and then put in force.  The order is the table's; it  *)
(* does not matter, as no option depends on another.                       *)
(***************************************************************************)
ReloadBegin(c) ==
  /\ call[c].pc = "idle"
  /\ call' = [call EXCEPT ![c] = [Idle EXCEPT !.pc = "reload", !.todo = DrvOptions]]
  /\ UNCHANGED <<Value, registry, keyOpen, given>>

\* WnbdGetPersistentOpt fails: the option keeps its value.
ReloadSkip(c, o) ==
  /\ call[c].pc = "reload" /\ o \in call[c].todo
  /\ WnbdGetPersistentOpt(o) = {}
  /\ call' = [call EXCEPT ![c].todo = @ \ {o}]
  /\ UNCHANGED <<Value, registry, keyOpen, given>>

ReloadRead(c, o) ==
  /\ call[c].pc = "reload" /\ o \in call[c].todo
  /\ \E n \in WnbdGetPersistentOpt(o) :
       call' = [call EXCEPT ![c].pc = "reloadApply", ![c].option = o, ![c].data = n]
  /\ Enter(o)
  /\ UNCHANGED <<Value, registry, keyOpen>>

ReloadApply(c) ==
  LET o == call[c].option n == call[c].data IN
  /\ call[c].pc = "reloadApply"
  /\ Value' = [Value EXCEPT ![o] = n]
  /\ UNCHANGED <<registry, keyOpen>>
  /\ call' = [call EXCEPT ![c].pc = "reload", ![c].option = "", ![c].data = 0,
                          ![c].todo = @ \ {o}]
  /\ Settle(c, o, [given[o] EXCEPT !.runtime = n])

ReloadReturn(c) ==
  /\ call[c].pc = "reload" /\ call[c].todo = {}
  /\ Return(c)
  /\ UNCHANGED <<Value, registry, keyOpen, given>>

(***************************************************************************)
(* The registry key is edited by somebody else, and the machine restarts.  *)
(***************************************************************************)
RegistryEdited(o) ==
  /\ registry' = [registry EXCEPT ![o] = Foreign]
  /\ given' = [given EXCEPT ![o] = IF Quiet(o) THEN [@ EXCEPT !.stored = Foreign] ELSE Raced]
  /\ UNCHANGED <<Value, keyOpen, call>>

\* What a restart makes of an option whose registry value is r.
Survives(o, r) ==
  IF r.kind # "qword" THEN Default[o]
  ELSE IF o \in IntOptions \/ r.data = 0 THEN r.data
  ELSE 1

\* The operations that were under way are lost.  Those that were alone on
\* their option leave the registry as it was or as they asked; of the others
\* nothing is said.
AfterRestart(o) ==
  LET alone == {c \in Callers : Touches(c, o)}
      asked == {IF call[c].pc \in {"resetPersistent", "resetRuntime"} THEN Unset
                ELSE Qword(call[c].data) : c \in {b \in alone : call[b].persistent}}
      kept  == IF given[o].raced \/ registry[o] \in asked THEN registry[o]
               ELSE given[o].stored
  IN [runtime |-> Survives(o, kept), stored |-> kept, raced |-> FALSE]

\* DriverEntry: the table holds the defaults; with the registry key open the
\* persistent values are loaded before anyone can reach the driver.
DriverEntry ==
  /\ keyOpen' = TRUE
  /\ Value' = [o \in DrvOptions |->
       IF ReadKey(o) = {} THEN Default[o] ELSE CHOOSE n \in ReadKey(o) : TRUE]
  /\ registry' = registry
  /\ call' = [c \in Callers |-> Idle]
  /\ given' = [o \in DrvOptions |-> AfterRestart(o)]

\* IoOpenDriverRegistryKey fails: the driver runs on the defaults.
DriverEntryNoKey ==
  /\ keyOpen' = FALSE
  /\ Value' = Default
  /\ registry' = registry
  /\ call' = [c \in Callers |-> Idle]
  /\ given' = [o \in DrvOptions |-> [AfterRestart(o) EXCEPT !.runtime = Default[o]]]

Next ==
  \/ \E c \in Callers :
       \/ \E v \in Inputs, name \in DrvOptions \cup UnknownNames : SetRejected(c, name, v)
       \/ \E v \in Inputs, o \in DrvOptions, p \in BOOLEAN : SetBegin(c, o, v, p)
       \/ \E o \in DrvOptions, p \in BOOLEAN : ResetBegin(c, o, p)
       \/ SetPersistent(c) \/ SetPersistentFails(c) \/ SetRuntime(c)
       \/ ResetPersistent(c) \/ ResetPersistentFails(c) \/ ResetRuntime(c)
       \/ ReloadBegin(c) \/ ReloadApply(c) \/ ReloadReturn(c)
       \/ \E o \in DrvOptions : ReloadSkip(c, o) \/ ReloadRead(c, o)
  \/ \E o \in DrvOptions : RegistryEdited(o)
  \/ DriverEntry \/ DriverEntryNoKey

Spec == Init /\ [][Next]_vars

-----------------------------------------------------------------------------
(***************************************************************************)
(* Properties.                                                             *)
(***************************************************************************)
\* While nobody works on an option, its value in force and its persistent
\* value are the ones the completed operations asked for: an operation that
\* failed half way (the registry refused, there was nothing to delete, the
\* stored value is of another type) changed neither; a persistent set
\* survives every restart and reload, a transient one masks it until then;
\* and a restart in the middle of an operation leaves its old or its new
\* state, in force and stored alike.  The readers (WnbdGetDrvOpt and
\* WnbdListDrvOpt) see exactly that.  Operations on one option that overlap
\* are outside this: the code does not order them.
InForce ==
  \A o \in DrvOptions : Quiet(o) =>
    /\ WnbdGetDrvOpt(o, FALSE) = {given[o].runtime}
    /\ keyOpen => (o \in WnbdListDrvOpt(TRUE) <=> given[o].stored.kind = "qword")
    /\ o \in WnbdListDrvOpt(TRUE) => WnbdGetDrvOpt(o, TRUE) = {Survives(o, given[o].stored)}
=============================================================================
