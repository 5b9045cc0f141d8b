------------------------- MODULE WnbdOptionsProofs -------------------------
(***************************************************************************)
(* InForce for any options, values and number of callers.                  *)
(*                                                                         *)
(* The invariant says of every option what a completed operation would     *)
(* find if it looked: with at most one operation under way, the value in   *)
(* force is the one given, and the registry is the one given or the one    *)
(* that operation already wrote.  Overlapping operations are marked as     *)
(* raced, and an option stays so only while somebody works on it.          *)
(***************************************************************************)
EXTENDS WnbdOptions, TLAPS

Stored == [kind : {"absent", "foreign", "qword"}, data : Nat]
Busy == {"setPersistent", "setRuntime", "resetPersistent", "resetRuntime", "reloadApply"}
Calls == [pc : Busy \cup {"idle", "reload"}, option : DrvOptions \cup {""}, data : Nat,
          persistent : BOOLEAN, todo : SUBSET DrvOptions]

Types ==
  /\ Value \in [DrvOptions -> Nat]
  /\ registry \in [DrvOptions -> Stored]
  /\ keyOpen \in BOOLEAN
  /\ call \in [Callers -> Calls]
  /\ given \in [DrvOptions -> [runtime : Nat, stored : Stored, raced : BOOLEAN]]

\* A caller names an option exactly while it works on one, the registry is
\* written first by persistent operations only, and what a reload read is what
\* readers will make of it.
CallsInOrder ==
  \A c \in Callers :
    /\ call[c].option = "" <=> call[c].pc \in {"idle", "reload"}
    /\ call[c].pc \in {"setPersistent", "resetPersistent"} => call[c].persistent
    /\ call[c].pc = "reloadApply" => Meaning(call[c].option, call[c].data) = call[c].data

\* What the registry holds when c is the only one at work and old was given.
Written(c, old) ==
  IF call[c].persistent /\ call[c].pc = "setRuntime" THEN Qword(call[c].data)
  ELSE IF call[c].persistent /\ call[c].pc = "resetRuntime" THEN Unset
  ELSE old

Alone(o) == \A b, c \in Callers : Touches(b, o) /\ Touches(c, o) => b = c

AsGiven(o) ==
  /\ Meaning(o, Value[o]) = given[o].runtime
  /\ Alone(o)
  /\ Quiet(o) => registry[o] = given[o].stored
  /\ \A c \in Callers : Touches(c, o) => registry[o] = Written(c, given[o].stored)

Ordered(o) ==
  /\ Quiet(o) => ~given[o].raced
  /\ ~given[o].raced => AsGiven(o)

IInv == Types /\ CallsInOrder /\ \A o \in DrvOptions : Ordered(o)

-----------------------------------------------------------------------------
(* One option at a time *)

\* The option an action does not concern.
LEMMA OtherOption ==
  ASSUME NEW o \in DrvOptions, Ordered(o),
         Value'[o] = Value[o], registry'[o] = registry[o], given'[o] = given[o],
         \A b \in Callers : Touches(b, o)' <=> Touches(b, o),
         \A b \in Callers : Touches(b, o) => call'[b] = call[b]
  PROVE  Ordered(o)'
<1>1. Quiet(o)' <=> Quiet(o)
  BY DEF Quiet
<1>2. Alone(o) => Alone(o)'
  BY DEF Alone
<1>3. \A c \in Callers : Touches(c, o) /\ registry[o] = Written(c, given[o].stored)
        => registry'[o] = Written(c, given[o].stored)'
  BY DEF Written
<1>4. AsGiven(o) => AsGiven(o)'
  BY <1>1, <1>2, <1>3 DEF AsGiven, Meaning
<1> QED
  BY <1>1, <1>4 DEF Ordered

\* A caller starts its work on an option: it is alone or it races.
LEMMA Entering ==
  ASSUME Types, NEW o \in DrvOptions, Ordered(o), NEW c \in Callers, ~Touches(c, o), Enter(o),
         Value'[o] = Value[o], registry'[o] = registry[o],
         call'[c].option = o, call'[c].pc \in Busy,
         call'[c].pc \in {"setRuntime", "resetRuntime"} => ~call'[c].persistent,
         \A b \in Callers \ {c} : call'[b] = call[b]
  PROVE  Ordered(o)'
<1>1. Touches(c, o)' /\ \A b \in Callers \ {c} : Touches(b, o)' <=> Touches(b, o)
  BY DEF Touches, Busy
<1>2. ~Quiet(o)'
  BY <1>1 DEF Quiet
<1>3. CASE Quiet(o)
  <2>1. given'[o] = given[o] /\ ~given[o].raced /\ AsGiven(o)
    BY <1>3 DEF Enter, Types, Ordered
  <2>2. \A b \in Callers : Touches(b, o)' => b = c
    BY <1>1, <1>3 DEF Quiet
  <2>3. Written(c, given[o].stored)' = given[o].stored
    BY <2>1 DEF Written, Busy
  <2>4. registry'[o] = given[o].stored
    BY <1>3, <2>1 DEF AsGiven
  <2>5. Meaning(o, Value[o])' = given'[o].runtime
    BY <2>1 DEF AsGiven, Meaning
  <2>6. Alone(o)'
    BY <2>2 DEF Alone
  <2>7. \A b \in Callers : Touches(b, o)' => registry'[o] = Written(b, given[o].stored)'
    BY <2>2, <2>3, <2>4
  <2>8. AsGiven(o)'
    BY <1>2, <2>5, <2>6, <2>7 DEF AsGiven
  <2> QED
    BY <1>2, <2>8 DEF Ordered
<1>4. CASE ~Quiet(o)
  <2>1. given'[o].raced
    BY <1>4 DEF Enter, Types, Raced
  <2> QED
    BY <1>2, <2>1 DEF Ordered
<1> QED
  BY <1>3, <1>4

\* A caller ends its work on an option; g is what it asked for.
LEMMA Leaving ==
  ASSUME Types, NEW o \in DrvOptions, Ordered(o), NEW c \in Callers, Touches(c, o),
         NEW g, Settle(c, o, g), ~Touches(c, o)',
         ~given[o].raced => /\ ~g.raced
                            /\ Meaning(o, Value'[o]) = g.runtime /\ registry'[o] = g.stored,
         \A b \in Callers \ {c} : call'[b] = call[b]
  PROVE  Ordered(o)'
<1>1. \A b \in Callers \ {c} : Touches(b, o)' <=> Touches(b, o)
  BY DEF Touches
<1>2. CASE ~given[o].raced
  <2>1. given'[o] = g
    BY <1>2 DEF Settle, Types
  <2>2. Alone(o)
    BY <1>2 DEF Ordered, AsGiven
  <2>3. \A b \in Callers : ~Touches(b, o)'
    BY <1>1, <2>2 DEF Alone
  <2>4. Alone(o)' /\ Quiet(o)'
    BY <2>3 DEF Alone, Quiet
  <2> QED
    BY <1>2, <2>1, <2>3, <2>4 DEF Ordered, AsGiven, Meaning
<1>3. CASE given[o].raced /\ \A b \in Callers \ {c} : ~Touches(b, o)
  <2>1. given'[o] = [runtime |-> Meaning(o, Value'[o]), stored |-> registry'[o], raced |-> FALSE]
    BY <1>3 DEF Settle, Types
  <2>2. \A b \in Callers : ~Touches(b, o)'
    BY <1>1, <1>3
  <2>3. Alone(o)' /\ Quiet(o)'
    BY <2>2 DEF Alone, Quiet
  <2> QED
    BY <2>1, <2>2, <2>3 DEF Ordered, AsGiven, Meaning
<1>4. CASE given[o].raced /\ ~\A b \in Callers \ {c} : ~Touches(b, o)
  <2>1. given'[o] = Raced
    BY <1>4 DEF Settle, Types
  <2>2. ~Quiet(o)'
    BY <1>1, <1>4 DEF Quiet
  <2> QED
    BY <2>1, <2>2 DEF Ordered, Raced
<1> QED
  BY <1>2, <1>3, <1>4

\* A persistent operation has written the registry and goes on.
LEMMA Writing ==
  ASSUME Types, NEW o \in DrvOptions, Ordered(o), NEW c \in Callers, Touches(c, o), Touches(c, o)',
         given'[o] = given[o], Value'[o] = Value[o],
         registry'[o] = Written(c, given[o].stored)',
         \A b \in Callers \ {c} : call'[b] = call[b]
  PROVE  Ordered(o)'
<1>1. \A b \in Callers \ {c} : Touches(b, o)' <=> Touches(b, o)
  BY DEF Touches
<1>2. ~Quiet(o)'
  BY DEF Quiet
<1>3. CASE ~given[o].raced
  <2>1. AsGiven(o)
    BY <1>3 DEF Ordered
  <2>2. \A b \in Callers : Touches(b, o)' => b = c
    BY <1>1, <2>1 DEF AsGiven, Alone
  <2>3. Alone(o)'
    BY <2>2 DEF Alone
  <2>4. \A b \in Callers : Touches(b, o)' => registry'[o] = Written(b, given[o].stored)'
    BY <2>2
  <2>5. Meaning(o, Value[o])' = given'[o].runtime
    BY <2>1 DEF AsGiven, Meaning
  <2> QED
    BY <1>2, <2>3, <2>4, <2>5 DEF Ordered, AsGiven
<1> QED
  BY <1>2, <1>3 DEF Ordered

-----------------------------------------------------------------------------
(* Values *)

\* What WnbdProcessOptionValue and the registry yield are values of the option,
\* and readers make of a value from the registry what it is.
LEMMA Values ==
  ASSUME Types, NEW o \in DrvOptions
  PROVE  /\ \A v \in Inputs : WnbdProcessOptionValue(o, v) \subseteq Nat
         /\ \A n : Meaning(o, n) \in Nat \/ ~(n \in Nat)
         /\ Default[o] \in Nat /\ Meaning(o, Default[o]) = Default[o]
         /\ \A n \in ReadKey(o) : n \in Nat /\ Meaning(o, n) = n
         /\ WnbdGetPersistentOpt(o) \subseteq ReadKey(o)
<1>1. /\ o \in BoolOptions \/ o \in IntOptions
      /\ ~(o \in BoolOptions /\ o \in IntOptions)
      /\ IntValues \subseteq Nat /\ Default[o] \in Nat
      /\ o \in BoolOptions => Default[o] \in 0..1
  BY OptionsAssumption DEF DrvOptions
<1>2. ASSUME NEW v \in Inputs PROVE WnbdProcessOptionValue(o, v) \subseteq Nat
  <2>1. v.type \in {"bool", "int64", "wstr"} /\ v.data \in Nat
    <3>1. CASE v \in [type : {"bool"}, data : 0..2]
      BY <3>1
    <3>2. CASE v \in [type : {"int64", "wstr"}, data : IntValues]
      BY <1>1, <3>2
    <3> QED
      BY <3>1, <3>2 DEF Inputs, BoolValues
  <2> QED
    BY <1>1, <2>1 DEF WnbdProcessOptionValue
<1>3. registry[o].kind \in {"absent", "foreign", "qword"} /\ registry[o].data \in Nat
  BY DEF Types, Stored
<1>4. \A n \in ReadKey(o) : n \in Nat /\ Meaning(o, n) = n
  BY <1>1, <1>3 DEF ReadKey, Meaning, AsBool
<1> QED
  BY <1>1, <1>2, <1>4 DEF Meaning, AsBool, WnbdGetPersistentOpt

\* A caller that works on an option does so on one of the table.
LEMMA BusyOption ==
  ASSUME Types, CallsInOrder, NEW c \in Callers, call[c].pc \in Busy
  PROVE  call[c].option \in DrvOptions /\ Touches(c, call[c].option)
  BY DEF Types, Calls, CallsInOrder, Busy, Touches

\* What Settle leaves is well typed.
LEMMA SettleTypes ==
  ASSUME Types, NEW c \in Callers, NEW o \in DrvOptions,
         NEW g \in [runtime : Nat, stored : Stored, raced : BOOLEAN], Settle(c, o, g),
         Value' \in [DrvOptions -> Nat], registry' \in [DrvOptions -> Stored]
  PROVE  given' \in [DrvOptions -> [runtime : Nat, stored : Stored, raced : BOOLEAN]]
<1>1. Raced \in [runtime : Nat, stored : Stored, raced : BOOLEAN]
  BY DEF Raced, Unset, Stored
<1>2. Meaning(o, Value'[o]) \in Nat /\ registry'[o] \in Stored
  BY DEF Meaning, AsBool
<1>3. [runtime |-> Meaning(o, Value'[o]), stored |-> registry'[o], raced |-> FALSE]
        \in [runtime : Nat, stored : Stored, raced : BOOLEAN]
  BY <1>2
<1> QED
  BY <1>1, <1>3 DEF Settle, Types

\* The same for Enter.
LEMMA EnterTypes ==
  ASSUME Types, NEW o \in DrvOptions, Enter(o)
  PROVE  given' \in [DrvOptions -> [runtime : Nat, stored : Stored, raced : BOOLEAN]]
<1>1. Raced \in [runtime : Nat, stored : Stored, raced : BOOLEAN]
  BY DEF Raced, Unset, Stored
<1> QED
  BY <1>1 DEF Enter, Types

\* What a call that returns leaves behind.
LEMMA Returning ==
  ASSUME Types, CallsInOrder, NEW c \in Callers, Return(c)
  PROVE  /\ call' \in [Callers -> Calls] /\ CallsInOrder'
         /\ \A o \in DrvOptions : ~Touches(c, o)'
         /\ \A b \in Callers \ {c} : call'[b] = call[b]
<1>1. Idle \in Calls /\ Idle.pc = "idle" /\ Idle.option = ""
  BY DEF Idle, Calls
<1>2. call'[c] = Idle /\ \A b \in Callers \ {c} : call'[b] = call[b]
  BY DEF Return, Types
<1>3. call' \in [Callers -> Calls]
  BY <1>1 DEF Return, Types
<1>4. CallsInOrder'
  BY <1>1, <1>2 DEF CallsInOrder, Meaning
<1> QED
  BY <1>1, <1>2, <1>3, <1>4 DEF Touches

-----------------------------------------------------------------------------
(* The three kinds of steps *)

\* A step that starts the work of c on o with the call record k.
LEMMA BeginStep ==
  ASSUME IInv, NEW c \in Callers, NEW o \in DrvOptions, NEW k \in Calls,
         call[c].pc \in {"idle", "reload"}, call' = [call EXCEPT ![c] = k],
         k.option = o, k.pc \in Busy,
         k.pc \in {"setRuntime", "resetRuntime"} => ~k.persistent,
         k.pc \in {"setPersistent", "resetPersistent"} => k.persistent,
         k.pc = "reloadApply" => Meaning(o, k.data) = k.data,
         Enter(o), UNCHANGED <<Value, registry, keyOpen>>
  PROVE  IInv'
<1>1. Types /\ CallsInOrder /\ \A p \in DrvOptions : Ordered(p)
  BY DEF IInv
<1>2. call'[c] = k /\ \A b \in Callers \ {c} : call'[b] = call[b]
  BY <1>1 DEF Types
<1>3. \A p \in DrvOptions : ~Touches(c, p)
  BY <1>1, OptionsAssumption DEF CallsInOrder, Touches
<1>4. Types'
  BY <1>1, EnterTypes DEF Types
<1>5. CallsInOrder'
  <2>1. k.pc \notin {"idle", "reload"} /\ k.option # ""
    BY OptionsAssumption DEF Busy
  <2> QED
    BY <1>1, <1>2, <2>1 DEF CallsInOrder, Meaning
<1>6. ASSUME NEW p \in DrvOptions PROVE Ordered(p)'
  <2>1. CASE p = o
    BY <1>1, <1>2, <1>3, <2>1, Entering
  <2>2. CASE p # o
    <3>1. given'[p] = given[p] /\ Value'[p] = Value[p] /\ registry'[p] = registry[p]
      BY <1>1, <2>2 DEF Enter, Types
    <3>2. \A b \in Callers : Touches(b, p)' <=> Touches(b, p)
      BY <1>2, <1>3, <2>2 DEF Touches
    <3>3. \A b \in Callers : Touches(b, p) => call'[b] = call[b]
      BY <1>2, <1>3
    <3> QED
      BY <1>1, <3>1, <3>2, <3>3, OtherOption
  <2> QED
    BY <2>1, <2>2
<1> QED
  BY <1>4, <1>5, <1>6 DEF IInv

\* A step that ends the work of c on o, for which g was asked.
LEMMA EndStep ==
  ASSUME IInv, NEW c \in Callers, NEW o \in DrvOptions, Touches(c, o),
         NEW g \in [runtime : Nat, stored : Stored, raced : BOOLEAN], Settle(c, o, g),
         call' \in [Callers -> Calls], CallsInOrder', \A p \in DrvOptions : ~Touches(c, p)',
         \A b \in Callers \ {c} : call'[b] = call[b],
         UNCHANGED <<registry, keyOpen>>, Value' \in [DrvOptions -> Nat],
         \A p \in DrvOptions \ {o} : Value'[p] = Value[p],
         ~given[o].raced => /\ ~g.raced
                            /\ Meaning(o, Value'[o]) = g.runtime /\ registry[o] = g.stored
  PROVE  IInv'
<1>1. Types /\ CallsInOrder /\ \A p \in DrvOptions : Ordered(p)
  BY DEF IInv
<1>2. Types'
  BY <1>1, SettleTypes DEF Types
<1>3. \A p \in DrvOptions \ {o} : ~Touches(c, p)
  BY DEF Touches
<1>4. ASSUME NEW p \in DrvOptions PROVE Ordered(p)'
  <2>1. CASE p = o
    BY <1>1, <2>1, Leaving
  <2>2. CASE p # o
    <3>1. given'[p] = given[p] /\ Value'[p] = Value[p] /\ registry'[p] = registry[p]
      BY <1>1, <2>2 DEF Settle, Types
    <3>2. \A b \in Callers : Touches(b, p)' <=> Touches(b, p)
      BY <1>3, <2>2 DEF Touches
    <3>3. \A b \in Callers : Touches(b, p) => call'[b] = call[b]
      BY <1>3, <2>2
    <3> QED
      BY <1>1, <3>1, <3>2, <3>3, OtherOption
  <2> QED
    BY <2>1, <2>2
<1> QED
  BY <1>2, <1>4 DEF IInv

\* A step that writes the registry for c and leaves the rest of its work to do.
LEMMA WriteStep ==
  ASSUME IInv, NEW c \in Callers, NEW o \in DrvOptions, NEW r \in Stored, NEW pc \in Busy,
         call[c].option = o, call[c].pc \in {"setPersistent", "resetPersistent"},
         \/ pc = "setRuntime" /\ r = Qword(call[c].data)
         \/ pc = "resetRuntime" /\ r = Unset,
         registry' = [registry EXCEPT ![o] = r], call' = [call EXCEPT ![c].pc = pc],
         UNCHANGED <<Value, keyOpen, given>>
  PROVE  IInv'
<1>1. Types /\ CallsInOrder /\ \A p \in DrvOptions : Ordered(p)
  BY DEF IInv
<1>2. /\ call[c] \in Calls /\ call'[c] = [call[c] EXCEPT !.pc = pc] /\ call[c].persistent
      /\ \A b \in Callers \ {c} : call'[b] = call[b]
  BY <1>1 DEF Types, CallsInOrder
<1>3. /\ call'[c].pc = pc /\ call'[c].option = o /\ call'[c].data = call[c].data
      /\ call'[c].persistent = call[c].persistent /\ call'[c] \in Calls
  <2>1. PICK k \in Calls : k = call[c]
    BY <1>2
  <2>2. /\ [k EXCEPT !.pc = pc].pc = pc /\ [k EXCEPT !.pc = pc].option = k.option
        /\ [k EXCEPT !.pc = pc].data = k.data
        /\ [k EXCEPT !.pc = pc].persistent = k.persistent
    BY DEF Calls
  <2>3. [k EXCEPT !.pc = pc] \in Calls
    BY DEF Calls
  <2> QED
    BY <1>2, <2>1, <2>2, <2>3
<1>4. call' \in [Callers -> Calls]
  BY <1>1, <1>2, <1>3 DEF Types
<1>5. Types'
  BY <1>1, <1>4 DEF Types
<1>6. CallsInOrder'
  <2>1. o # "" /\ pc \notin {"idle", "reload", "setPersistent", "resetPersistent", "reloadApply"}
    BY OptionsAssumption
  <2> QED
    BY <1>1, <1>2, <1>3, <2>1 DEF CallsInOrder, Meaning
<1>7. Touches(c, o) /\ Touches(c, o)' /\ \A p \in DrvOptions \ {o} : ~Touches(c, p)
  BY <1>3 DEF Touches
<1>8. ASSUME NEW p \in DrvOptions PROVE Ordered(p)'
  <2>1. CASE p = o
    <3>1. registry'[o] = r
      BY <1>1 DEF Types
    <3>2. Written(c, given[o].stored)' = r
      BY <1>2, <1>3 DEF Written, Qword
    <3> QED
      BY <1>1, <1>2, <1>7, <2>1, <3>1, <3>2, Writing
  <2>2. CASE p # o
    <3>1. registry'[p] = registry[p]
      BY <1>1, <2>2 DEF Types
    <3>2. \A b \in Callers : Touches(b, p)' <=> Touches(b, p)
      BY <1>2, <1>3, <1>7, <2>2 DEF Touches
    <3>3. \A b \in Callers : Touches(b, p) => call'[b] = call[b]
      BY <1>2, <1>7, <2>2
    <3> QED
      BY <1>1, <3>1, <3>2, <3>3, OtherOption
  <2> QED
    BY <2>1, <2>2
<1> QED
  BY <1>5, <1>6, <1>8 DEF IInv

-----------------------------------------------------------------------------
(* Every step *)

\* Of a caller that works on nothing: its other fields do not matter.
LEMMA FreeStep ==
  ASSUME IInv, NEW c \in Callers, call[c].pc \in {"idle", "reload"},
         NEW k \in Calls, k.pc \in {"idle", "reload"}, k.option = "",
         call' = [call EXCEPT ![c] = k], UNCHANGED <<Value, registry, keyOpen, given>>
  PROVE  IInv'
<1>1. Types /\ CallsInOrder /\ \A p \in DrvOptions : Ordered(p)
  BY DEF IInv
<1>2. call'[c] = k /\ \A b \in Callers \ {c} : call'[b] = call[b]
  BY <1>1 DEF Types
<1>3. Types'
  BY <1>1 DEF Types
<1>4. CallsInOrder'
  BY <1>1, <1>2 DEF CallsInOrder, Meaning
<1>5. \A p \in DrvOptions : ~Touches(c, p) /\ ~Touches(c, p)'
  BY <1>1, <1>2, OptionsAssumption DEF CallsInOrder, Touches
<1>6. ASSUME NEW p \in DrvOptions PROVE Ordered(p)'
  <2>1. \A b \in Callers : Touches(b, p)' <=> Touches(b, p)
    BY <1>2, <1>5 DEF Touches
  <2>2. \A b \in Callers : Touches(b, p) => call'[b] = call[b]
    BY <1>2, <1>5
  <2> QED
    BY <1>1, <2>1, <2>2, OtherOption
<1> QED
  BY <1>3, <1>4, <1>6 DEF IInv

\* WnbdSetDrvOpt.
LEMMA SetStep ==
  ASSUME IInv, NEW c \in Callers,
         \/ \E v \in Inputs, o \in DrvOptions, p \in BOOLEAN : SetBegin(c, o, v, p)
         \/ SetPersistent(c) \/ SetPersistentFails(c) \/ SetRuntime(c)
  PROVE  IInv'
<1>1. Types /\ CallsInOrder /\ \A p \in DrvOptions : Ordered(p)
  BY DEF IInv
<1>2. ASSUME NEW v \in Inputs, NEW o \in DrvOptions, NEW p \in BOOLEAN, SetBegin(c, o, v, p)
      PROVE  IInv'
  <2>1. PICK n \in WnbdProcessOptionValue(o, v) :
          call' = [call EXCEPT ![c] =
            [pc |-> IF p THEN "setPersistent" ELSE "setRuntime",
             option |-> o, data |-> n, persistent |-> p, todo |-> {}]]
    BY <1>2 DEF SetBegin
  <2>2. PICK k : k = [pc |-> IF p THEN "setPersistent" ELSE "setRuntime",
                      option |-> o, data |-> n, persistent |-> p, todo |-> {}]
    OBVIOUS
  <2>3. n \in Nat
    BY <1>1, Values
  <2>4. /\ k \in Calls /\ k.option = o /\ k.pc \in Busy /\ k.pc # "reloadApply"
        /\ k.pc \in {"setRuntime", "resetRuntime"} => ~k.persistent
        /\ k.pc \in {"setPersistent", "resetPersistent"} => k.persistent
    BY <2>2, <2>3 DEF Calls, Busy
  <2> QED
    BY <1>2, <2>1, <2>2, <2>4, BeginStep DEF SetBegin
<1>3. ASSUME SetPersistent(c) PROVE IInv'
  <2>1. PICK o \in DrvOptions : call[c].option = o /\ call[c].pc = "setPersistent"
    BY <1>1, <1>3, BusyOption DEF SetPersistent, Busy
  <2>2. Qword(call[c].data) \in Stored
    BY <1>1 DEF Types, Calls, Qword, Stored
  <2> QED
    BY <1>3, <2>1, <2>2, WriteStep DEF SetPersistent, Busy
<1>4. ASSUME SetPersistentFails(c) PROVE IInv'
  <2>1. PICK o \in DrvOptions : call[c].option = o /\ Touches(c, o) /\ call[c].pc = "setPersistent"
    BY <1>1, <1>4, BusyOption DEF SetPersistentFails, Busy
  <2>2. Settle(c, o, given[o]) /\ Return(c) /\ UNCHANGED <<Value, registry, keyOpen>>
    BY <1>4, <2>1 DEF SetPersistentFails
  <2>3. ~given[o].raced => Meaning(o, Value[o]) = given[o].runtime /\ registry[o] = given[o].stored
    BY <1>1, <2>1 DEF Ordered, AsGiven, Written
  <2>4. given[o] \in [runtime : Nat, stored : Stored, raced : BOOLEAN] /\ Value \in [DrvOptions -> Nat]
    BY <1>1 DEF Types
  <2> QED
    BY <1>1, <2>1, <2>2, <2>3, <2>4, Returning, EndStep
<1>5. ASSUME SetRuntime(c) PROVE IInv'
  <2>1. PICK o \in DrvOptions : call[c].option = o /\ Touches(c, o) /\ call[c].pc = "setRuntime"
    BY <1>1, <1>5, BusyOption DEF SetRuntime, Busy
  <2>2. PICK n \in Nat : n = call[c].data
    BY <1>1 DEF Types, Calls
  <2>3. PICK g : g = [given[o] EXCEPT !.runtime = Meaning(o, n),
                                      !.stored = IF call[c].persistent THEN Qword(n) ELSE @]
    OBVIOUS
  <2>4. /\ Settle(c, o, g) /\ Return(c) /\ UNCHANGED <<registry, keyOpen>>
        /\ Value' = [Value EXCEPT ![o] = n]
    BY <1>5, <2>1, <2>2, <2>3 DEF SetRuntime
  <2>5. PICK h \in [runtime : Nat, stored : Stored, raced : BOOLEAN] : h = given[o]
    BY <1>1 DEF Types
  <2>6. Meaning(o, n) \in Nat /\ Qword(n) \in Stored
    BY DEF Meaning, AsBool, Qword, Stored
  <2>7. /\ g \in [runtime : Nat, stored : Stored, raced : BOOLEAN]
        /\ g.runtime = Meaning(o, n) /\ g.raced = h.raced
        /\ g.stored = IF call[c].persistent THEN Qword(n) ELSE h.stored
    BY <2>3, <2>5, <2>6
  <2>8. Value' \in [DrvOptions -> Nat] /\ Value'[o] = n /\ \A p \in DrvOptions \ {o} : Value'[p] = Value[p]
    BY <1>1, <2>4 DEF Types
  <2>9. ~given[o].raced => registry[o] = g.stored
    BY <1>1, <2>1, <2>2, <2>5, <2>7 DEF Ordered, AsGiven, Written
  <2> QED
    BY <1>1, <2>1, <2>4, <2>5, <2>7, <2>8, <2>9, Returning, EndStep
<1> QED
  BY <1>2, <1>3, <1>4, <1>5

\* WnbdResetDrvOpt.
LEMMA ResetStep ==
  ASSUME IInv, NEW c \in Callers,
         \/ \E o \in DrvOptions, p \in BOOLEAN : ResetBegin(c, o, p)
         \/ ResetPersistent(c) \/ ResetPersistentFails(c) \/ ResetRuntime(c)
  PROVE  IInv'
<1>1. Types /\ CallsInOrder /\ \A p \in DrvOptions : Ordered(p)
  BY DEF IInv
<1>2. ASSUME NEW o \in DrvOptions, NEW p \in BOOLEAN, ResetBegin(c, o, p)
      PROVE  IInv'
  <2>1. PICK k : k = [pc |-> IF p THEN "resetPersistent" ELSE "resetRuntime",
                      option |-> o, data |-> 0, persistent |-> p, todo |-> {}]
    OBVIOUS
  <2>2. /\ k \in Calls /\ k.option = o /\ k.pc \in Busy /\ k.pc # "reloadApply"
        /\ k.pc \in {"setRuntime", "resetRuntime"} => ~k.persistent
        /\ k.pc \in {"setPersistent", "resetPersistent"} => k.persistent
    BY <2>1 DEF Calls, Busy
  <2> QED
    BY <1>2, <2>1, <2>2, BeginStep DEF ResetBegin
<1>3. ASSUME ResetPersistent(c) PROVE IInv'
  <2>1. PICK o \in DrvOptions : call[c].option = o /\ call[c].pc = "resetPersistent"
    BY <1>1, <1>3, BusyOption DEF ResetPersistent, Busy
  <2>2. Unset \in Stored
    BY DEF Unset, Stored
  <2> QED
    BY <1>3, <2>1, <2>2, WriteStep DEF ResetPersistent, Busy
<1>4. ASSUME ResetPersistentFails(c) PROVE IInv'
  <2>1. PICK o \in DrvOptions : call[c].option = o /\ Touches(c, o) /\ call[c].pc = "resetPersistent"
    BY <1>1, <1>4, BusyOption DEF ResetPersistentFails, Busy
  <2>2. Settle(c, o, given[o]) /\ Return(c) /\ UNCHANGED <<Value, registry, keyOpen>>
    BY <1>4, <2>1 DEF ResetPersistentFails
  <2>3. ~given[o].raced => Meaning(o, Value[o]) = given[o].runtime /\ registry[o] = given[o].stored
    BY <1>1, <2>1 DEF Ordered, AsGiven, Written
  <2>4. given[o] \in [runtime : Nat, stored : Stored, raced : BOOLEAN] /\ Value \in [DrvOptions -> Nat]
    BY <1>1 DEF Types
  <2> QED
    BY <1>1, <2>1, <2>2, <2>3, <2>4, Returning, EndStep
<1>5. ASSUME ResetRuntime(c) PROVE IInv'
  <2>1. PICK o \in DrvOptions : call[c].option = o /\ Touches(c, o) /\ call[c].pc = "resetRuntime"
    BY <1>1, <1>5, BusyOption DEF ResetRuntime, Busy
  <2>2. PICK n \in Nat : n = Default[o]
    BY <1>1, Values
  <2>3. PICK g : g = [given[o] EXCEPT !.runtime = n,
                                      !.stored = IF call[c].persistent THEN Unset ELSE @]
    OBVIOUS
  <2>4. /\ Settle(c, o, g) /\ Return(c) /\ UNCHANGED <<registry, keyOpen>>
        /\ Value' = [Value EXCEPT ![o] = n]
    BY <1>5, <2>1, <2>2, <2>3 DEF ResetRuntime
  <2>5. PICK h \in [runtime : Nat, stored : Stored, raced : BOOLEAN] : h = given[o]
    BY <1>1 DEF Types
  <2>6. Meaning(o, n) = n /\ Unset \in Stored
    BY <1>1, <2>2, Values DEF Unset, Stored
  <2>7. /\ g \in [runtime : Nat, stored : Stored, raced : BOOLEAN]
        /\ g.runtime = n /\ g.raced = h.raced
        /\ g.stored = IF call[c].persistent THEN Unset ELSE h.stored
    BY <2>3, <2>5, <2>6
  <2>8. Value' \in [DrvOptions -> Nat] /\ Value'[o] = n /\ \A p \in DrvOptions \ {o} : Value'[p] = Value[p]
    BY <1>1, <2>4 DEF Types
  <2>9. ~given[o].raced => registry[o] = g.stored
    BY <1>1, <2>1, <2>5, <2>7 DEF Ordered, AsGiven, Written
  <2> QED
    BY <1>1, <2>1, <2>4, <2>5, <2>6, <2>7, <2>8, <2>9, Returning, EndStep
<1> QED
  BY <1>2, <1>3, <1>4, <1>5

\* WnbdReloadPersistentOptions.
LEMMA ReloadStep ==
  ASSUME IInv, NEW c \in Callers,
         \/ ReloadBegin(c) \/ ReloadApply(c) \/ ReloadReturn(c)
         \/ \E o \in DrvOptions : ReloadSkip(c, o) \/ ReloadRead(c, o)
  PROVE  IInv'
<1>1. Types /\ CallsInOrder /\ \A p \in DrvOptions : Ordered(p)
  BY DEF IInv
<1>2. PICK k \in Calls : k = call[c]
  BY <1>1 DEF Types
<1>3. ASSUME ReloadBegin(c) PROVE IInv'
  <2>1. PICK j : j = [Idle EXCEPT !.pc = "reload", !.todo = DrvOptions]
    OBVIOUS
  <2>2. j \in Calls /\ j.pc = "reload" /\ j.option = ""
    BY <2>1 DEF Idle, Calls
  <2> QED
    BY <1>3, <2>1, <2>2, FreeStep DEF ReloadBegin
<1>4. ASSUME ReloadReturn(c) PROVE IInv'
  <2>1. Idle \in Calls /\ Idle.pc = "idle" /\ Idle.option = ""
    BY DEF Idle, Calls
  <2> QED
    BY <1>4, <2>1, FreeStep DEF ReloadReturn, Return
<1>5. ASSUME NEW o \in DrvOptions, ReloadSkip(c, o) PROVE IInv'
  <2>1. PICK j : j = [k EXCEPT !.todo = @ \ {o}]
    OBVIOUS
  <2>2. k.pc = "reload" /\ k.option = ""
    BY <1>1, <1>2, <1>5 DEF ReloadSkip, CallsInOrder
  <2>3. j \in Calls /\ j.pc = "reload" /\ j.option = ""
    BY <2>1, <2>2 DEF Calls
  <2>4. call' = [call EXCEPT ![c] = j]
    BY <1>1, <1>2, <1>5, <2>1 DEF ReloadSkip, Types
  <2> QED
    BY <1>2, <1>5, <2>2, <2>3, <2>4, FreeStep DEF ReloadSkip
<1>6. ASSUME NEW o \in DrvOptions, ReloadRead(c, o) PROVE IInv'
  <2>1. PICK n \in WnbdGetPersistentOpt(o) :
          call' = [call EXCEPT ![c].pc = "reloadApply", ![c].option = o, ![c].data = n]
    BY <1>6 DEF ReloadRead
  <2>2. n \in Nat /\ Meaning(o, n) = n
    BY <1>1, Values
  <2>3. PICK j : j = [k EXCEPT !.pc = "reloadApply", !.option = o, !.data = n]
    OBVIOUS
  <2>4. j \in Calls /\ j.pc = "reloadApply" /\ j.option = o /\ j.data = n /\ k.pc = "reload"
    BY <1>2, <1>6, <2>2, <2>3 DEF ReloadRead, Calls, Busy
  <2>5. call' = [call EXCEPT ![c] = j]
    BY <1>1, <1>2, <2>1, <2>3 DEF Types
  <2> QED
    BY <1>2, <1>6, <2>2, <2>4, <2>5, BeginStep DEF ReloadRead, Busy
<1>7. ASSUME ReloadApply(c) PROVE IInv'
  <2>1. PICK o \in DrvOptions : call[c].option = o /\ Touches(c, o) /\ call[c].pc = "reloadApply"
    BY <1>1, <1>7, BusyOption DEF ReloadApply, Busy
  <2>2. PICK n \in Nat : n = call[c].data /\ Meaning(o, n) = n
    BY <1>1, <2>1 DEF Types, Calls, CallsInOrder
  <2>3. PICK j : j = [k EXCEPT !.pc = "reload", !.option = "", !.data = 0, !.todo = @ \ {o}]
    OBVIOUS
  <2>4. j \in Calls /\ j.pc = "reload" /\ j.option = ""
    BY <2>3 DEF Calls
  <2>5. call' = [call EXCEPT ![c] = j]
    BY <1>1, <1>2, <1>7, <2>1, <2>3 DEF ReloadApply, Types
  <2>6. /\ call' \in [Callers -> Calls] /\ call'[c] = j
        /\ \A b \in Callers \ {c} : call'[b] = call[b]
    BY <1>1, <2>4, <2>5 DEF Types
  <2>7. CallsInOrder'
    BY <1>1, <2>4, <2>6 DEF CallsInOrder, Meaning
  <2>8. \A p \in DrvOptions : ~Touches(c, p)'
    BY <2>4, <2>6, OptionsAssumption DEF Touches
  <2>9. PICK g : g = [given[o] EXCEPT !.runtime = n]
    OBVIOUS
  <2>10. /\ Settle(c, o, g) /\ UNCHANGED <<registry, keyOpen>>
         /\ Value' = [Value EXCEPT ![o] = n]
    BY <1>7, <2>1, <2>2, <2>9 DEF ReloadApply
  <2>11. PICK h \in [runtime : Nat, stored : Stored, raced : BOOLEAN] : h = given[o]
    BY <1>1 DEF Types
  <2>12. /\ g \in [runtime : Nat, stored : Stored, raced : BOOLEAN]
         /\ g.runtime = n /\ g.raced = h.raced /\ g.stored = h.stored
    BY <2>9, <2>11
  <2>13. /\ Value' \in [DrvOptions -> Nat] /\ Value'[o] = n
         /\ \A p \in DrvOptions \ {o} : Value'[p] = Value[p]
    BY <1>1, <2>10 DEF Types
  <2>14. ~given[o].raced => registry[o] = g.stored
    BY <1>1, <2>1, <2>11, <2>12 DEF Ordered, AsGiven, Written
  <2> QED
    BY <2>1, <2>2, <2>6, <2>7, <2>8, <2>10, <2>11, <2>12, <2>13, <2>14, EndStep
<1> QED
  BY <1>3, <1>4, <1>5, <1>6, <1>7

\* Somebody else edits the registry.
LEMMA EditStep ==
  ASSUME IInv, NEW o \in DrvOptions, RegistryEdited(o)
  PROVE  IInv'
<1>1. Types /\ CallsInOrder /\ \A p \in DrvOptions : Ordered(p)
  BY DEF IInv
<1>2. PICK h \in [runtime : Nat, stored : Stored, raced : BOOLEAN] : h = given[o]
  BY <1>1 DEF Types
<1>3. /\ [h EXCEPT !.stored = Foreign] \in [runtime : Nat, stored : Stored, raced : BOOLEAN]
      /\ [h EXCEPT !.stored = Foreign].stored = Foreign
      /\ [h EXCEPT !.stored = Foreign].runtime = h.runtime
      /\ [h EXCEPT !.stored = Foreign].raced = h.raced
      /\ Raced \in [runtime : Nat, stored : Stored, raced : BOOLEAN] /\ Raced.raced
      /\ Foreign \in Stored
  BY DEF Foreign, Stored, Raced, Unset
<1>4. /\ UNCHANGED <<Value, keyOpen, call>>
      /\ registry' = [registry EXCEPT ![o] = Foreign]
      /\ given' = [given EXCEPT ![o] =
                     IF Quiet(o) THEN [h EXCEPT !.stored = Foreign] ELSE Raced]
  BY <1>1, <1>2 DEF RegistryEdited, Types
<1>5. Types'
  BY <1>1, <1>3, <1>4 DEF Types
<1>6. CallsInOrder'
  BY <1>1, <1>4 DEF CallsInOrder, Meaning
<1>7. \A p \in DrvOptions, b \in Callers : Touches(b, p)' <=> Touches(b, p)
  BY <1>4 DEF Touches
<1>8. ASSUME NEW p \in DrvOptions PROVE Ordered(p)'
  <2>1. CASE p # o
    <3>1. registry'[p] = registry[p] /\ given'[p] = given[p]
      BY <1>1, <1>4, <2>1 DEF Types
    <3> QED
      BY <1>1, <1>4, <1>7, <3>1, OtherOption
  <2>2. CASE p = o /\ Quiet(o)
    <3>1. registry'[o] = Foreign /\ given'[o] = [h EXCEPT !.stored = Foreign]
      BY <1>1, <1>4, <2>2 DEF Types
    <3>2. ~h.raced /\ Meaning(o, Value[o]) = h.runtime
      BY <1>1, <1>2, <2>2 DEF Ordered, AsGiven
    <3>3. \A b \in Callers : ~Touches(b, o)'
      BY <1>7, <2>2 DEF Quiet
    <3>4. Alone(o)'
      BY <3>3 DEF Alone
    <3> QED
      BY <1>3, <1>4, <2>2, <3>1, <3>2, <3>3, <3>4 DEF Ordered, AsGiven, Meaning
  <2>3. CASE p = o /\ ~Quiet(o)
    <3>1. given'[o] = Raced
      BY <1>1, <1>4, <2>3 DEF Types
    <3>2. ~Quiet(o)'
      BY <1>7, <2>3 DEF Quiet
    <3> QED
      BY <1>3, <2>3, <3>1, <3>2 DEF Ordered
  <2> QED
    BY <2>1, <2>2, <2>3
<1> QED
  BY <1>5, <1>6, <1>8 DEF IInv

\* Whatever was under way, a restart finds the registry as it is accounted for.
LEMMA Kept ==
  ASSUME IInv, NEW o \in DrvOptions
  PROVE  AfterRestart(o) = [runtime |-> Survives(o, registry[o]), stored |-> registry[o],
                            raced |-> FALSE]
<1> DEFINE asked == {IF call[c].pc \in {"resetPersistent", "resetRuntime"} THEN Unset
                     ELSE Qword(call[c].data) :
                       c \in {b \in {a \in Callers : Touches(a, o)} : call[b].persistent}}
           kept == IF given[o].raced \/ registry[o] \in asked THEN registry[o]
                   ELSE given[o].stored
<1>1. Types /\ CallsInOrder /\ Ordered(o)
  BY DEF IInv
<1>2. AfterRestart(o) = [runtime |-> Survives(o, kept), stored |-> kept, raced |-> FALSE]
  BY DEF AfterRestart
<1>3. CASE given[o].raced \/ registry[o] = given[o].stored
  BY <1>2, <1>3
<1>4. CASE ~given[o].raced /\ registry[o] # given[o].stored
  <2>1. PICK c \in Callers : Touches(c, o) /\ registry[o] = Written(c, given[o].stored)
    BY <1>1, <1>4 DEF Ordered, AsGiven, Quiet
  <2>2. /\ call[c].persistent
        /\ \/ call[c].pc = "setRuntime" /\ registry[o] = Qword(call[c].data)
           \/ call[c].pc = "resetRuntime" /\ registry[o] = Unset
    BY <1>4, <2>1 DEF Written
  <2>3. registry[o] = IF call[c].pc \in {"resetPersistent", "resetRuntime"} THEN Unset
                      ELSE Qword(call[c].data)
    BY <2>2
  <2>4. registry[o] \in asked
    BY <2>1, <2>2, <2>3
  <2> QED
    BY <1>2, <2>4
<1> QED
  BY <1>3, <1>4

\* DriverEntry, with and without the registry key.
LEMMA RestartStep ==
  ASSUME IInv, DriverEntry \/ DriverEntryNoKey
  PROVE  IInv'
<1>1. Types /\ CallsInOrder /\ \A p \in DrvOptions : Ordered(p)
  BY DEF IInv
<1>2. /\ Idle \in Calls /\ Idle.pc = "idle" /\ Idle.option = ""
      /\ call' = [c \in Callers |-> Idle] /\ registry' = registry /\ keyOpen' \in BOOLEAN
  BY DEF Idle, Calls, DriverEntry, DriverEntryNoKey
<1>3. ASSUME NEW o \in DrvOptions
      PROVE  /\ given'[o].stored = registry[o] /\ given'[o].raced = FALSE
             /\ given'[o].runtime = Value'[o] /\ Meaning(o, Value'[o]) = Value'[o]
             /\ Value'[o] \in Nat
             /\ given'[o] \in [runtime : Nat, stored : Stored, raced : BOOLEAN]
  <2>1. PICK r \in Stored : r = registry[o]
    BY <1>1 DEF Types
  <2>2. AfterRestart(o) = [runtime |-> Survives(o, r), stored |-> r, raced |-> FALSE]
    BY <2>1, Kept
  <2>3. Default[o] \in Nat /\ Meaning(o, Default[o]) = Default[o]
    BY <1>1, Values
  <2>4. CASE DriverEntry
    <3>1. /\ given'[o] = [runtime |-> Survives(o, r), stored |-> r, raced |-> FALSE]
          /\ Value'[o] = IF ReadKey(o) = {} THEN Default[o] ELSE CHOOSE n \in ReadKey(o) : TRUE
      BY <2>2, <2>4 DEF DriverEntry
    <3>2. /\ o \in BoolOptions \/ o \in IntOptions
          /\ ~(o \in BoolOptions /\ o \in IntOptions) /\ r.data \in Nat
      BY OptionsAssumption DEF DrvOptions, Stored
    <3>3. Value'[o] = Survives(o, r)
      <4>1. CASE r.kind # "qword"
        BY <2>1, <3>1, <4>1 DEF ReadKey, Survives
      <4>2. CASE r.kind = "qword" /\ o \in BoolOptions /\ r.data # 0
        <5>1. ReadKey(o) = {1} /\ Survives(o, r) = 1
          BY <2>1, <3>2, <4>2 DEF ReadKey, Survives
        <5> QED
          BY <3>1, <5>1
      <4>3. CASE r.kind = "qword" /\ ~(o \in BoolOptions /\ r.data # 0)
        <5>1. ReadKey(o) = {r.data} /\ Survives(o, r) = r.data
          BY <2>1, <3>2, <4>3 DEF ReadKey, Survives
        <5> QED
          BY <3>1, <5>1
      <4> QED
        BY <4>1, <4>2, <4>3
    <3>4. Survives(o, r) \in Nat /\ Meaning(o, Survives(o, r)) = Survives(o, r)
      BY <2>3, <3>2 DEF Survives, Meaning, AsBool
    <3> QED
      BY <2>1, <3>1, <3>3, <3>4
  <2>5. CASE DriverEntryNoKey
    <3>1. Value'[o] = Default[o]
      BY <2>5 DEF DriverEntryNoKey
    <3>2. PICK a : a = AfterRestart(o)
      OBVIOUS
    <3>3. given'[o] = [a EXCEPT !.runtime = Default[o]]
      BY <2>5, <3>2 DEF DriverEntryNoKey
    <3>4. PICK n : a = [runtime |-> n, stored |-> r, raced |-> FALSE]
      BY <2>2, <3>2
    <3>5. given'[o] = [runtime |-> Default[o], stored |-> r, raced |-> FALSE]
      BY ONLY <3>3, <3>4
    <3> QED
      BY ONLY <2>1, <2>3, <3>1, <3>5
  <2> QED
    BY <2>4, <2>5
<1>4. Types'
  <2>1. Value' \in [DrvOptions -> Nat]
    BY <1>3, OptionsAssumption DEF DriverEntry, DriverEntryNoKey
  <2>2. given' \in [DrvOptions -> [runtime : Nat, stored : Stored, raced : BOOLEAN]]
    BY <1>3 DEF DriverEntry, DriverEntryNoKey
  <2> QED
    BY <1>1, <1>2, <2>1, <2>2 DEF Types
<1>5. CallsInOrder'
  BY <1>2 DEF CallsInOrder
<1>6. ASSUME NEW o \in DrvOptions PROVE Ordered(o)'
  <2>1. \A b \in Callers : ~Touches(b, o)'
    BY <1>2 DEF Touches
  <2>2. Alone(o)'
    BY <2>1 DEF Alone
  <2> QED
    BY <1>2, <1>3, <2>1, <2>2 DEF Ordered, AsGiven, Meaning
<1> QED
  BY <1>4, <1>5, <1>6 DEF IInv

-----------------------------------------------------------------------------
(* The theorem *)

\* IInv is inductive.
THEOREM Invariant == Spec => []IInv
<1>1. Init => IInv
  <2> SUFFICES ASSUME Init PROVE IInv
    OBVIOUS
  <2>1. Idle \in Calls /\ Idle.pc = "idle" /\ Idle.option = "" /\ Unset \in Stored
    BY DEF Idle, Calls, Unset, Stored
  <2>2. Types
    BY <2>1, OptionsAssumption DEF Init, Types
  <2>3. CallsInOrder
    BY <2>1 DEF Init, CallsInOrder
  <2>4. ASSUME NEW o \in DrvOptions PROVE Ordered(o)
    <3>1. \A c \in Callers : ~Touches(c, o)
      BY <2>1 DEF Init, Touches
    <3>2. Meaning(o, Value[o]) = given[o].runtime /\ ~given[o].raced /\ registry[o] = given[o].stored
      BY <2>2, Values DEF Init
    <3>3. Alone(o)
      BY <3>1 DEF Alone
    <3> QED
      BY <3>1, <3>2, <3>3 DEF Ordered, AsGiven
  <2> QED
    BY <2>2, <2>3, <2>4 DEF IInv
<1>2. IInv /\ [Next]_vars => IInv'
  <2> SUFFICES ASSUME IInv, [Next]_vars PROVE IInv'
    OBVIOUS
  <2>1. CASE UNCHANGED vars
    <3>1. UNCHANGED <<Value, registry, keyOpen, call, given>>
      BY <2>1 DEF vars
    <3>2. \A o \in DrvOptions : Ordered(o)'
      BY <3>1 DEF IInv, Ordered, AsGiven, Alone, Quiet, Touches, Written, Meaning
    <3> QED
      BY <3>1, <3>2 DEF IInv, Types, CallsInOrder, Meaning
  <2>2. ASSUME NEW c \in Callers, NEW v \in Inputs, NEW name \in DrvOptions \cup UnknownNames,
               SetRejected(c, name, v)
        PROVE  IInv'
    BY <2>1, <2>2 DEF SetRejected
  <2> QED
    BY <2>1, <2>2, SetStep, ResetStep, ReloadStep, EditStep, RestartStep DEF Next
<1> QED
  BY <1>1, <1>2, PTL DEF Spec

\* While nobody works on an option its value in force and its persistent value
\* are the ones the completed operations asked for, whatever failed, was edited
\* or restarted half way.
THEOREM OptionsInForce == Spec => []InForce
<1>1. IInv => InForce
  <2> SUFFICES ASSUME IInv, NEW o \in DrvOptions, Quiet(o)
               PROVE  /\ WnbdGetDrvOpt(o, FALSE) = {given[o].runtime}
                      /\ keyOpen => (o \in WnbdListDrvOpt(TRUE) <=> given[o].stored.kind = "qword")
                      /\ o \in WnbdListDrvOpt(TRUE) =>
                           WnbdGetDrvOpt(o, TRUE) = {Survives(o, given[o].stored)}
    BY DEF InForce
  <2>1. Meaning(o, Value[o]) = given[o].runtime /\ registry[o] = given[o].stored
    BY DEF IInv, Ordered, AsGiven
  <2>2. o \in BoolOptions \/ o \in IntOptions
    BY DEF DrvOptions
  <2>3. ~(o \in BoolOptions /\ o \in IntOptions)
    BY OptionsAssumption
  <2> QED
    BY <2>1, <2>2, <2>3 DEF WnbdGetDrvOpt, WnbdListDrvOpt, WnbdGetPersistentOpt, ReadKey, Survives
<1> QED
  BY <1>1, Invariant, PTL
=============================================================================
