---------------------------- MODULE Breakpoints ----------------------------
(***************************************************************************)
(* Breakpoints and watchpoints of a group of RISC-V harts: the lists of    *)
(* breakpoints.c, and under them the hardware triggers and the             *)
(* instructions in memory that riscv.c puts in place of the program's.     *)
(*                                                                         *)
(* Either every hart has a target of its own and the targets form an SMP   *)
(* group, or one target stands for all harts (-rtos riscv).  Harts run and *)
(* halt together; the registers of a running hart cannot be accessed, and  *)
(* with faults an operation may find any hart out of reach from its start  *)
(* to its end.                                                             *)
(***************************************************************************)
EXTENDS Naturals, FiniteSets, FiniteSetsExt

CONSTANTS NumHarts, NumSlots,
          CodeAddrs, DataAddrs,   \* where break- and watchpoints may be
          RamAddrs,               \* code that memory writes can change
          Environments            \* what is around: see EnvironmentsAssumption

Harts == 1 .. NumHarts
Slots == 0 .. NumSlots - 1
Addrs == CodeAddrs \cup DataAddrs
None == "none"
Gone == "gone"      \* owner of a slot: a breakpoint that was freed

\* What a trigger accepts: anything, execute only, load and store only, or a
\* type that is neither mcontrol nor the legacy one.
Kinds == {"full", "exec", "data", "other"}

ASSUME SizesAssumption == NumHarts \in Nat \ {0} /\ NumSlots \in Nat
ASSUME AddrsAssumption ==
  /\ IsFiniteSet(DataAddrs)
  /\ CodeAddrs \cap DataAddrs = {} /\ RamAddrs \subseteq CodeAddrs
  /\ {None, Gone} \cap Addrs = {}
ASSUME EnvironmentsAssumption ==
  \A e \in Environments : /\ e.rtos \in BOOLEAN /\ e.faults \in BOOLEAN
                          /\ e.kind \in [Harts -> [Slots -> Kinds]]

VARIABLES
  env,        \* the environment
  running,    \* TRUE: the harts run
  bps,        \* target->breakpoints
  wps,        \* target->watchpoints
  used,       \* trigger_unique_id: who has the slot
  armed,      \* the address a hart's trigger fires on
  mem,        \* instruction memory: the program's instruction, or a breakpoint
  accepted,   \* addresses asked for, answered ERROR_OK and not removed since
  unwritten,  \* code addresses where a write failed
  hit         \* targets whose debug_reason is DBG_REASON_WATCHPOINT

vars == <<env, running, bps, wps, used, armed, mem, accepted, unwritten, hit>>

Targets == IF env.rtos THEN {1} ELSE Harts
HartsOf(t) == IF env.rtos THEN Harts ELSE {t}
First(t) == Min(HartsOf(t))     \* first_hart
Last(t) == Max(HartsOf(t))
Head == 1                       \* target->head->target

Breakpoints == [addr: CodeAddrs, type: {"soft", "hard"}, orig: {"program", "ebreak"}]
Watchpoints == [addr: DataAddrs, set: BOOLEAN]

TypeOK ==
  /\ env \in Environments /\ running \in BOOLEAN
  /\ bps \in [Harts -> SUBSET Breakpoints] /\ wps \in [Harts -> SUBSET Watchpoints]
  /\ used \in [Harts -> [Slots -> Addrs \cup {None, Gone}]]
  /\ armed \in [Harts -> [Slots -> Addrs \cup {None}]]
  /\ mem \in [RamAddrs -> {"program", "ebreak"}]
  /\ accepted \subseteq Addrs /\ unwritten \subseteq RamAddrs /\ hit \subseteq Harts
  /\ \A t \in Harts : /\ \A b, c \in bps[t] : b.addr = c.addr => b = c
                      /\ \A v, w \in wps[t] : v.addr = w.addr => v = w
                      /\ t \notin Targets => bps[t] = {} /\ wps[t] = {}

Init ==
  /\ env \in Environments /\ running \in BOOLEAN
  /\ bps = [t \in Harts |-> {}] /\ wps = [t \in Harts |-> {}]
  /\ used = [t \in Harts |-> [i \in Slots |-> None]] /\ armed = used
  /\ mem = [a \in RamAddrs |-> "program"]
  /\ accepted = {} /\ unwritten = {} /\ hit = {}

\* The harts that one operation can reach.
Reaches == IF running THEN {{}} ELSE IF env.faults THEN SUBSET Harts ELSE {Harts}

-----------------------------------------------------------------------------
(* Triggers.  S is a record of the slots' owners and the harts' triggers.  *)

Fits(kind, a) == kind \in {"full", IF a \in CodeAddrs THEN "exec" ELSE "data"}

\* maybe_add_trigger_t1, _t2: tdata1, read by the caller from the first hart, says
\* whether the slot is free; what the hart does not accept is switched off again.
Accepts(S, t, h, i, a) == S.armed[First(t)][i] = None /\ Fits(env.kind[h][i], a)

\* add_trigger tries every slot without an owner.  The result of the last hart is
\* the result, and a type it does not know counts as success.
AlwaysClaims(S, t, i, a) == TRUE        \* seeded fault
Claims(S, t, i, a) ==
  env.kind[First(t)][i] = "other" \/ Accepts(S, t, Last(t), i, a)
Tried(S, t, a) ==
  {i \in Slots : S.used[t][i] = None
                 /\ \A j \in 0 .. i - 1 : S.used[t][j] = None => ~Claims(S, t, j, a)}
FirstHartOnly(S, t, h, i, a) ==         \* seeded fault
  IF h = First(t) THEN a ELSE S.armed[h][i]
Trigger(S, t, h, i, a) ==
  IF S.armed[First(t)][i] # None \/ env.kind[First(t)][i] = "other" THEN S.armed[h][i]
  ELSE IF Accepts(S, t, h, i, a) THEN a ELSE None
AddsTrigger(S, t, a, ok) ==
  HartsOf(t) \subseteq ok /\ \E i \in Tried(S, t, a) : Claims(S, t, i, a)
AddTrigger(S, t, a, ok) ==
  IF ~(HartsOf(t) \subseteq ok) THEN S
  ELSE [used |-> [S.used EXCEPT ![t] = [i \in Slots |->
                   IF i \in Tried(S, t, a) /\ Claims(S, t, i, a) THEN a ELSE @[i]]],
        armed |-> [h \in Harts |-> [i \in Slots |->
                   IF h \in HartsOf(t) /\ i \in Tried(S, t, a)
                   THEN Trigger(S, t, h, i, a) ELSE S.armed[h][i]]]]

\* remove_trigger: hart after hart, up to the first one that cannot be reached;
\* the slot is given up only after the last.
Owned(S, t, a) == {i \in Slots : S.used[t][i] = a}
DisarmedFirst(t, ok) == {First(t)} \cap ok   \* seeded fault
Disarmed(t, ok) == {h \in HartsOf(t) : \A g \in HartsOf(t) : g <= h => g \in ok}
\* What is set owns slots of its own, so that the order within A does not matter.
Found(S, t, A) == {Min(Owned(S, t, a)) : a \in {b \in A : Owned(S, t, b) # {}}}
RemoveTriggers(S, t, A, ok) ==
  [used |-> IF HartsOf(t) \subseteq ok
            THEN [S.used EXCEPT ![t] = [i \in Slots |-> IF i \in Found(S, t, A) THEN None ELSE @[i]]]
            ELSE S.used,
   armed |-> [h \in Harts |-> [i \in Slots |->
               IF h \in Disarmed(t, ok) /\ i \in Found(S, t, A) THEN None ELSE S.armed[h][i]]]]

Now == [used |-> used, armed |-> armed]
\* op on every target of T.  They have harts of their own, so that the order does not matter.
TargetOf(h) == IF env.rtos THEN 1 ELSE h
OnAll(op(_), T) ==
  /\ used' = [t \in Harts |-> IF t \in T THEN op(t).used[t] ELSE used[t]]
  /\ armed' = [h \in Harts |-> IF TargetOf(h) \in T THEN op(TargetOf(h)).armed[h] ELSE armed[h]]

\* breakpoint_free forgets the breakpoint: a slot it still has has no owner any more.
Forget(S, t, A) ==
  [S EXCEPT !.used[t] = [i \in Slots |-> IF @[i] \in A THEN Gone ELSE @[i]]]
FreePoints(t, A, ok) == Forget(RemoveTriggers(Now, t, A, ok), t, A)

-----------------------------------------------------------------------------
(* Breakpoints. *)

HasNever(t, a) == FALSE                 \* seeded fault
Has(t, a) == \E b \in bps[t] : b.addr = a
Hards(t) == {b.addr : b \in {c \in bps[t] : c.type = "hard"}}
Record(a, type, orig) == [addr |-> a, type |-> type, orig |-> orig]

\* breakpoint_add for a hardware breakpoint: one target after the other, up to the
\* first that fails, which has a breakpoint there already or finds no trigger.
AddHard(a) ==
  \E ok \in Reaches :
    LET fails(t) == Has(t, a) \/ ~AddsTrigger(Now, t, a, ok)
        reached == {t \in Targets : \A u \in Targets : u < t => ~fails(u)}
        tried == {t \in reached : ~Has(t, a)}
        done == {t \in reached : ~fails(t)}
    IN  /\ OnAll(LAMBDA t : AddTrigger(Now, t, a, ok), tried)
        /\ bps' = [t \in Harts |->
                    IF t \in done THEN bps[t] \cup {Record(a, "hard", "program")} ELSE bps[t]]
        /\ accepted' = IF done = Targets THEN accepted \cup {a} ELSE accepted
        /\ UNCHANGED <<env, running, wps, mem, unwritten, hit>>

\* For a software breakpoint, the first target only: its memory is everybody's.
\* The write may fail and still have happened; a read that fails changes nothing.
AddSoft(a) ==
  /\ ~Has(Head, a) /\ ~running
  /\ \/ /\ bps' = [bps EXCEPT ![Head] = @ \cup {Record(a, "soft", mem[a])}]
        /\ mem' = [mem EXCEPT ![a] = "ebreak"]
        /\ accepted' = accepted \cup {a} /\ UNCHANGED unwritten
     \/ /\ env.faults
        /\ mem' \in {mem, [mem EXCEPT ![a] = "ebreak"]}
        /\ unwritten' = unwritten \cup {a} /\ UNCHANGED <<bps, accepted>>
  /\ UNCHANGED <<env, running, wps, used, armed, hit>>

\* What breakpoint_free does to memory: the write back may fail, or fail and have
\* happened, and the breakpoint goes anyway.
Softs(A) == {b \in bps[Head] : b.type = "soft" /\ b.addr \in A}
NotOriginal(b) == mem[b.addr]           \* seeded fault
Original(b) == b.orig
WriteBack(A) ==
  LET softs == Softs(A)
      back(F) == [a \in RamAddrs |->
                   IF \E b \in softs \ F : b.addr = a
                   THEN Original(CHOOSE b \in softs : b.addr = a) ELSE mem[a]]
  IN  \E failed \in (IF env.faults \/ running THEN SUBSET softs ELSE {{}}) :
        /\ mem' \in {back(failed), back({})}
        /\ unwritten' = unwritten \cup {b.addr : b \in failed}

\* breakpoint_remove
RemoveBreakpoint(a) ==
  /\ \E t \in Targets : Has(t, a)
  /\ \E ok \in Reaches :
       OnAll(LAMBDA t : FreePoints(t, {a}, ok), {t \in Targets : a \in Hards(t)})
  /\ WriteBack({a})
  /\ bps' = [t \in Harts |-> {b \in bps[t] : b.addr # a}]
  /\ accepted' = accepted \ {a}
  /\ UNCHANGED <<env, running, wps, hit>>

-----------------------------------------------------------------------------
(* Watchpoints. *)

Watched(t, a) == \E w \in wps[t] : w.addr = a

\* watchpoint_add: a target that has the same watchpoint is passed over.
AddWatchpoint(a) ==
  \E ok \in Reaches :
    LET fails(t) == ~Watched(t, a) /\ ~AddsTrigger(Now, t, a, ok)
        reached == {t \in Targets : \A u \in Targets : u < t => ~fails(u)}
        tried == {t \in reached : ~Watched(t, a)}
    IN  /\ OnAll(LAMBDA t : AddTrigger(Now, t, a, ok), tried)
        /\ wps' = [t \in Harts |->
                    IF t \in tried /\ ~fails(t)
                    THEN wps[t] \cup {[addr |-> a, set |-> TRUE]} ELSE wps[t]]
        /\ accepted' = IF \A t \in Targets : ~fails(t) THEN accepted \cup {a} ELSE accepted
        /\ UNCHANGED <<env, running, bps, mem, unwritten, hit>>

\* watchpoint_remove
RemoveWatchpoint(a) ==
  /\ \E t \in Targets : Watched(t, a)
  /\ \E ok \in Reaches :
       OnAll(LAMBDA t : FreePoints(t, {a}, ok), {t \in Targets : Watched(t, a)})
  /\ wps' = [t \in Harts |-> {w \in wps[t] : w.addr # a}]
  /\ accepted' = accepted \ {a}
  /\ UNCHANGED <<env, running, bps, mem, unwritten, hit>>

\* A new GDB session on target t (or its R packet): breakpoint_clear_target clears
\* the group, watchpoint_clear_target one target.
ClearTarget(t) ==
  /\ \E ok \in Reaches :
       OnAll(LAMBDA u : FreePoints(u, Hards(u) \cup (IF u = t THEN {w.addr : w \in wps[u]} ELSE {}), ok),
             Targets)
  /\ WriteBack({b.addr : b \in bps[Head]})
  /\ bps' = [u \in Harts |-> {}] /\ wps' = [wps EXCEPT ![t] = {}]
  /\ accepted' = {}
  /\ UNCHANGED <<env, running, hit>>

-----------------------------------------------------------------------------
(* Running. *)

\* resume_prep, to step off a watchpoint: the triggers that are set are removed
\* until one fails, a step, and those it tried are added again.  (The order is one of
\* the addresses, for wps is a set and not a list.)
SetWatches(t) == {w.addr : w \in {v \in wps[t] : v.set}}
Tries(t, ok) ==
  IF HartsOf(t) \subseteq ok \/ SetWatches(t) = {} THEN SetWatches(t)
  ELSE {CHOOSE a \in SetWatches(t) : TRUE}
Cleared(t, ok) == RemoveTriggers(Now, t, Tries(t, ok), ok)
AddedAgain(t, ok1, ok2) ==
  FoldSet(LAMBDA a, S : AddTrigger(S, t, a, ok2), Cleared(t, ok1), Tries(t, ok1))
StaysSet(t, a, ok1, ok2) ==
  ~(HartsOf(t) \subseteq ok1) \/ Owned(AddedAgain(t, ok1, ok2), t, a) # Owned(Cleared(t, ok1), t, a)
SteppedOff(T, ok1, ok2) ==
  /\ OnAll(LAMBDA t : AddedAgain(t, ok1, ok2), T)
  /\ wps' = [t \in Harts |->
              IF t \in T THEN {[w EXCEPT !.set = @ /\ StaysSet(t, w.addr, ok1, ok2)] : w \in wps[t]}
              ELSE wps[t]]

\* riscv_resume of the group.  resume_finish sets the state of every target to running,
\* also of one whose resume_prep failed and whose hart was not resumed.
Resume ==
  /\ ~running
  /\ \E ok1, ok2 \in Reaches : SteppedOff(hit \cap Targets, ok1, ok2)
  /\ running' = TRUE /\ hit' = {}
  /\ UNCHANGED <<env, bps, mem, accepted, unwritten>>

\* The harts halt, some of them on a watchpoint.
Halt ==
  /\ running /\ running' = FALSE
  /\ \E T \in SUBSET {t \in Targets : \E w \in wps[t] : w.set} : hit' = T
  /\ UNCHANGED <<env, bps, wps, used, armed, mem, accepted, unwritten>>

Next ==
  \/ \E a \in CodeAddrs : AddHard(a) \/ RemoveBreakpoint(a)
  \/ \E a \in RamAddrs : AddSoft(a)
  \/ \E a \in DataAddrs : AddWatchpoint(a) \/ RemoveWatchpoint(a)
  \/ \E t \in Targets : ClearTarget(t)
  \/ Resume \/ Halt

Spec == Init /\ [][Next]_vars

-----------------------------------------------------------------------------
(* Properties. *)

Fires(t, a) == \A h \in HartsOf(t) : \E i \in Slots : armed[h][i] = a
SetPoints(t) == Hards(t) \cup SetWatches(t)

\* "In RTOS mode, we need to set the same trigger in the same slot on every hart, to
\* keep up the illusion that each hart is a thread running on the same core"
\* (riscv.c:659): whatever is set in a list fires on every hart of its target, from
\* one slot, through failed additions, removals and steps off a watchpoint.
SameSlotOnEveryHart ==
  \A t \in Targets : \A a \in SetPoints(t) :
    \E i \in Slots : used[t][i] = a /\ \A h \in HartsOf(t) : armed[h][i] = a

\* A trigger that fires is one riscv.c remembers, or one whose removal failed and
\* whose slot is lost: never one in a slot it believes to be free.
ArmedIsUsed ==
  \A t \in Targets : \A h \in HartsOf(t), i \in Slots :
    armed[h][i] # None => used[t][i] \in {armed[h][i], Gone}

\* What was answered ERROR_OK is there on every hart, until it is removed: the
\* group's lists agree on it, and no hart runs past it.
AcceptedIsThere ==
  \A a \in accepted :
    \/ \E b \in bps[Head] : b.addr = a /\ b.type = "soft" /\ mem[a] = "ebreak"
    \/ \A t \in Targets : Fires(t, a)
    \/ env.faults /\ \A t \in Targets : Watched(t, a)

\* The program's instructions: one is replaced only while a breakpoint is there to
\* put it back, and what the breakpoint would put back is the instruction, as long
\* as no write at that address failed.
ProgramIntact ==
  \A a \in RamAddrs \ unwritten :
    IF \E b \in bps[Head] : b.addr = a /\ b.type = "soft"
    THEN \A b \in bps[Head] : b.addr = a => b.orig = "program"
    ELSE mem[a] = "program"

\* "a set of hardware breakpoint sets the same breakpoint on all targets in the
\* list" (openocd.texi:1794).
SameOnAllTargets == \A t, u \in Targets : Hards(t) = Hards(u)

\* "we must remove all breakpoints registered to the target as a previous GDB
\* session could leave dangling breakpoints" (gdb_server.c:959): with nothing in the
\* lists, no trigger fires and no instruction is replaced.
NothingDangles ==
  (\A t \in Targets : bps[t] = {} /\ wps[t] = {}) =>
    /\ \A h \in Harts, i \in Slots : armed[h][i] = None
    /\ \A a \in RamAddrs : mem[a] = "program"
=============================================================================
