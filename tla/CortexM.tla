------------------------------ MODULE CortexM ------------------------------
(***************************************************************************)
(* Breakpoints, watchpoints and single steps on Cortex-M                   *)
(* (target/cortex_m.c, with breakpoints.c as far as one target needs it).  *)
(*                                                                         *)
(* The flash patch unit has comparators for code addresses, the DWT for    *)
(* data addresses.  The host keeps which are used and what they hold, and  *)
(* each breakpoint the comparator it is set in.  A step with automatic     *)
(* interrupt masking sets a breakpoint at the program counter for a while, *)
(* lets the core run so that pending interrupts are served, waits for it   *)
(* to come back, and only then steps, interrupts masked.                   *)
(*                                                                         *)
(* The core is a process of its own: it executes a loop of instructions,   *)
(* takes interrupts, and need not come back from a handler.  Operations    *)
(* that find the core halted are single steps; a step is cut where event   *)
(* handlers are called and where it waits.  An operator gives the set of   *)
(* worlds an operation may leave, for any access may fail, a write also    *)
(* after it took effect.  The choices of a behaviour are fixed at its      *)
(* start, by an environment.                                               *)
(***************************************************************************)
EXTENDS Integers, FiniteSets, FiniteSetsExt

CONSTANTS
  Last,         \* the program is a loop of the instructions 1 .. Last
  Code,         \* where breakpoints are asked for
  High,         \* code the comparators of a first revision unit cannot hold
  Watch,        \* data addresses; 0 stands for a comparator that is off
  Comparators,  \* fp_num_code
  Dwts,         \* dwt_num_comp
  MaxReads,     \* reads of the status after which 500 ms are over
  Environments

Handler == Last + 1
Program == 1 .. Handler

ASSUME LoopAssumption == Last \in Nat \ {0} /\ Code \subseteq Program /\ High \subseteq Program
ASSUME UnitAssumption == Comparators \in Nat /\ Dwts \in Nat /\ MaxReads \in Nat
ASSUME WatchAssumption == IsFiniteSet(Watch) /\ 0 \notin Watch
ASSUME EnvironmentAssumption ==
  Environments \subseteq
    [fails : SUBSET {"unit", "memory", "core"},  \* which accesses may fail
     mode : {"auto", "off", "on", "steponly"},   \* cortex_m maskisr
     handlers : SUBSET {"add", "remove", "removeFound"},  \* what handlers of RESUMED do
     enabled : BOOLEAN,                          \* the FPB was on from the start
     resets : BOOLEAN,                           \* the chip may reset
     reexamined : BOOLEAN,                       \* a failed poll leads to an examination
     own : SUBSET Program,                       \* BKPT instructions of the program
     code : SUBSET Code, watch : SUBSET Watch]   \* what the user asks for

VARIABLES
  env,
  \* breakpoints and comparators, in the host (bps, used, fpcr, enabled) and in the
  \* target (comp, on, mem),
  b,
  \* watchpoints and their comparators likewise (wps, available; comp), and how many
  \* removals the target refused since it was examined (refused, of the model only),
  w,
  \* the core: program counter, the place a handler returns to, whether it is halted,
  \* masks interrupts, met a breakpoint (DFSR), was reset since the last look
  core,
  \* the host's view: target->state, debug_reason, the program counter in its cache,
  state, reason, pc,
  \* a step: where it is, the breakpoint found, where it began, reads and result of the wait,
  at, found, from, reads, timedOut,
  \* the breakpoints asked for and accepted
  asked

step == <<at, found, from, reads, timedOut>>
view == <<state, reason, pc>>
vars == <<env, b, w, core, view, step, asked>>

-----------------------------------------------------------------------------
(* Breakpoints.  A world is a value of b. *)

NoBreak == [type |-> "none", set |-> 0, orig |-> "code"]
Listed(x) == {a \in Program : x.bps[a].type # "none"}
Ok(x) == [b |-> x, ok |-> TRUE]
Bad(x) == [b |-> x, ok |-> FALSE]
IfFails(what, S) == IF what \in env.fails THEN S ELSE {}

EnableFpb(x) ==
  IF x.enabled THEN {Ok(x)}
  ELSE {Ok([x EXCEPT !.enabled = TRUE, !.on = TRUE])}
         \cup IfFails("unit", {Bad(x), Bad([x EXCEPT !.on = TRUE])})

\* The results of writes to a comparator are ignored.
WriteComparator(x, c) ==
  {[x EXCEPT !.comp[c] = x.fpcr[c]]} \cup IfFails("unit", {x})

SetHard(x, a) ==
  LET free == {c \in 1 .. Comparators : ~x.used[c]}
      c == Min(free)
      x1 == [x EXCEPT !.bps[a].set = c, !.used[c] = TRUE, !.fpcr[c] = a]
  IN CASE free = {} -> {Bad(x)}
       [] free # {} /\ a \in High -> {Bad([x EXCEPT !.bps[a].set = c])}
       [] OTHER -> UNION {EnableFpb(x2) : x2 \in WriteComparator(x1, c)}

SetSoft(x, a) ==
  LET x1 == [x EXCEPT !.bps[a].orig = x.mem[a]]
      x2 == [x1 EXCEPT !.mem[a] = "bkpt"]
  IN {Ok([x2 EXCEPT !.bps[a].set = 1])} \cup IfFails("memory", {Bad(x), Bad(x1), Bad(x2)})

SetBreakpoint(x, a) ==
  CASE x.bps[a].set # 0 -> {Ok(x)}
    [] x.bps[a].set = 0 /\ x.bps[a].type = "hard" -> SetHard(x, a)
    [] OTHER -> SetSoft(x, a)

\* Seeded fault: the comparator stays used.
UnsetKeepsUsed(x, a) ==
  LET c == x.bps[a].set IN
  CASE c = 0 -> {x}
    [] c # 0 /\ x.bps[a].type = "hard" ->
         WriteComparator([x EXCEPT !.fpcr[c] = 0, !.bps[a].set = 0], c)
    [] OTHER -> {[x EXCEPT !.mem[a] = x.bps[a].orig, !.bps[a].set = 0]}
UnsetBreakpoint(x, a) ==
  LET c == x.bps[a].set
      restored == [x EXCEPT !.mem[a] = x.bps[a].orig]
  IN CASE c = 0 -> {x}
       [] c # 0 /\ x.bps[a].type = "hard" ->
            WriteComparator([x EXCEPT !.used[c] = FALSE, !.fpcr[c] = 0, !.bps[a].set = 0], c)
       [] OTHER -> {[restored EXCEPT !.bps[a].set = 0]} \cup IfFails("memory", {x, restored})

Drop(x, a) == [x EXCEPT !.bps[a] = NoBreak]

\* breakpoint_add: what could not be set is forgotten, the comparator it took is not.
AddBreakpoint(x, a, type) ==
  IF a \in Listed(x) THEN {Bad(x)}
  ELSE {IF r.ok THEN r ELSE Bad(Drop(r.b, a)) :
          r \in SetBreakpoint([x EXCEPT !.bps[a] = [NoBreak EXCEPT !.type = type]], a)}

RemoveBreakpoint(x, a) == {Drop(y, a) : y \in UnsetBreakpoint(x, a)}

\* Whatever is not set; in the order of the addresses, not of the list.
SetIn(X, a) == UNION {{r.b : r \in SetBreakpoint(y, a)} : y \in X}
Unset(x) == {a \in Listed(x) : x.bps[a].set = 0}
EnableBreakpoints(x) == FoldSet(LAMBDA a, X : SetIn(X, a), {x}, Unset(x))

-----------------------------------------------------------------------------
(* Watchpoints.  They are counted when they are added and set when the core is resumed. *)

NotListed == -1
SetWatchpoint(x, a) ==
  LET free == {c \in 1 .. Dwts : x.comp[c] = 0}
      c == Min(free)
  IN IF free = {} THEN x ELSE [x EXCEPT !.wps[a] = c, !.comp[c] = a]
Pending(x) == {a \in Watch : x.wps[a] = 0}
EnableWatchpoints(x) == FoldSet(LAMBDA a, y : SetWatchpoint(y, a), x, Pending(x))

\* A watchpoint that was set needs its comparator no more.
UnsetWatchpoint(x, a) ==
  IF x.wps[a] > 0 THEN [x EXCEPT !.comp[x.wps[a]] = 0] ELSE x

-----------------------------------------------------------------------------
(* The core. *)

Armed(x, a) == \E c \in 1 .. Comparators : x.on /\ x.comp[c] = a
Stops(x, a) == Armed(x, a) \/ x.mem[a] # "code"
After(c) == IF c.pc = Handler THEN c.ret ELSE (c.pc % Last) + 1
Executed(c) == [c EXCEPT !.pc = After(c), !.ret = IF c.pc = Handler THEN 0 ELSE c.ret]
Interrupted(c) == [c EXCEPT !.pc = Handler, !.ret = c.pc]

\* One step with C_STEP.
Stepped(x, c, masked) ==
  LET halted == [c EXCEPT !.halted = TRUE] IN
  IF Stops(x, c.pc) THEN {[halted EXCEPT !.met = TRUE]}
  ELSE {Executed(halted)} \cup (IF ~masked /\ c.ret = 0 THEN {Interrupted(halted)} ELSE {})
         \cup IfFails("core", {c})

CoreRuns ==
  /\ ~core.halted
  /\ core' = IF Stops(b, core.pc) THEN [core EXCEPT !.halted = TRUE, !.met = TRUE]
                                  ELSE Executed(core)
  /\ UNCHANGED <<env, b, w, view, step, asked>>

CoreInterrupted ==
  /\ ~core.halted /\ ~core.masked /\ core.ret = 0
  /\ core' = Interrupted(core)
  /\ UNCHANGED <<env, b, w, view, step, asked>>

\* A watchdog, say.  Some chips keep the comparators, some do not.
CoreReset ==
  /\ env.resets /\ at = "idle" /\ state = "running" /\ ~core.halted
  /\ core' = [core EXCEPT !.pc = 1, !.ret = 0, !.wasReset = TRUE, !.masked = FALSE]
  /\ \/ UNCHANGED b
     \/ b' = [b EXCEPT !.on = FALSE, !.comp = [c \in 1 .. Comparators |-> 0]]
  /\ UNCHANGED <<env, w, view, step, asked>>

-----------------------------------------------------------------------------
(* Requests of the user. *)

\* target_add_breakpoint: software breakpoints only while the target is halted.
Add(a, type) ==
  /\ type = "hard" \/ state = "halted"
  /\ \E r \in AddBreakpoint(b, a, type) :
       b' = r.b /\ asked' = IF r.ok THEN asked \cup {a} ELSE asked

Remove(a) ==
  /\ a \in Listed(b)
  /\ b' \in RemoveBreakpoint(b, a)
  /\ asked' = asked \ {a}

Break ==
  /\ at = "idle"
  /\ \E a \in env.code : Remove(a) \/ \E type \in {"hard", "soft"} : Add(a, type)
  /\ UNCHANGED <<env, w, core, view, step>>

\* Seeded fault: comparators are not counted.
AddUncounted ==
  /\ at = "idle" /\ state = "halted"
  /\ \E a \in env.watch :
       /\ w.wps[a] = NotListed
       /\ w' = [w EXCEPT !.wps[a] = 0, !.available = @ - 1]
  /\ UNCHANGED <<env, b, core, view, step, asked>>
AddWatchpoint ==
  /\ at = "idle" /\ state = "halted"
  /\ w.available >= 1
  /\ \E a \in env.watch :
       /\ w.wps[a] = NotListed
       /\ w' = [w EXCEPT !.wps[a] = 0, !.available = @ - 1]
  /\ UNCHANGED <<env, b, core, view, step, asked>>

\* Seeded fault: only a watchpoint that was set counts.
RemoveSetWatchpoint ==
  /\ at = "idle"
  /\ \E a \in {v \in Watch : w.wps[v] # NotListed} :
       w' = IF state = "halted"
            THEN [UnsetWatchpoint(w, a) EXCEPT !.wps[a] = NotListed,
                                               !.available = IF w.wps[a] > 0 THEN @ + 1 ELSE @]
            ELSE [w EXCEPT !.wps[a] = NotListed, !.refused = @ + 1]
  /\ UNCHANGED <<env, b, core, view, step, asked>>
\* The target refuses while it is not halted, but watchpoint_free drops the record.
RemoveWatchpoint ==
  /\ at = "idle"
  /\ \E a \in {v \in Watch : w.wps[v] # NotListed} :
       w' = IF state = "halted"
            THEN [UnsetWatchpoint(w, a) EXCEPT !.wps[a] = NotListed, !.available = @ + 1]
            ELSE [w EXCEPT !.wps[a] = NotListed, !.refused = @ + 1]
  /\ UNCHANGED <<env, b, core, view, step, asked>>

Halt ==
  /\ at = "idle" /\ state \in {"running", "unknown"}
  /\ core' \in {[core EXCEPT !.halted = TRUE]} \cup IfFails("core", {core})
  /\ reason' = "request"
  /\ UNCHANGED <<env, b, w, state, pc, step, asked>>

\* cortex_m_set_maskints_for_run and _for_step.
MaskedRun == env.mode = "on"
MaskedStep == env.mode # "off"

\* armv7m_maybe_skip_bkpt_inst: a BKPT instruction the core halted at is skipped.
Skips(x) == reason = "breakpoint" /\ x.mem[pc] # "code"
Skipped(c) == [Executed([c EXCEPT !.pc = pc]) EXCEPT !.halted = c.halted]

\* cortex_m_resume.  A breakpoint at the program counter is stepped over.
Resume ==
  /\ at = "idle" /\ state = "halted"
  /\ \E handle \in BOOLEAN, x \in EnableBreakpoints(b) :
       LET skip == pc \notin Listed(x) /\ Skips(x)
           c == IF skip THEN Skipped(core) ELSE core
           here == IF skip THEN c.pc ELSE pc
           Run(y, d) ==
             /\ b' = y
             /\ core' \in {[d EXCEPT !.halted = FALSE, !.masked = MaskedRun]} \cup IfFails("core", {d})
       IN /\ pc' = here
          /\ IF handle /\ here \in Listed(x)
             THEN \E y \in UnsetBreakpoint(x, here) : \E d \in Stepped(y, c, TRUE) :
                    \E r \in SetBreakpoint(y, here) : Run(r.b, [d EXCEPT !.met = FALSE])
             ELSE Run(x, c)
  /\ w' = EnableWatchpoints(w)
  /\ state' = "running" /\ reason' = "none"
  /\ UNCHANGED <<env, step, asked>>

-----------------------------------------------------------------------------
(* cortex_m_step *)

Idle == at = "idle" /\ found = 0 /\ from = 0 /\ reads = 0 /\ timedOut = FALSE
Returns == at' = "idle" /\ found' = 0 /\ from' = 0 /\ reads' = 0 /\ timedOut' = FALSE

StepBegins ==
  /\ at = "idle" /\ state = "halted"
  /\ \E handle \in BOOLEAN :
       LET hit == handle /\ pc \in Listed(b) IN
       /\ found' = IF hit THEN pc ELSE 0
       /\ b' \in IF hit THEN UnsetBreakpoint(b, pc) ELSE {b}
       /\ IF Skips(b')
          THEN at' = "event, skipped" /\ core' = Skipped(core) /\ pc' = core'.pc
          ELSE at' = "event" /\ UNCHANGED <<core, pc>>
  /\ from' = pc /\ reads' = 0 /\ timedOut' = FALSE
  /\ reason' = "step"
  /\ UNCHANGED <<env, w, state, asked>>

\* The handlers of TARGET_EVENT_RESUMED may do what a user may do.  When they remove
\* the breakpoint found, the step is left with a pointer to a freed record: -found.
EventHandler ==
  /\ at \in {"event", "event, skipped"}
  /\ \E a \in env.code :
       \/ "add" \in env.handlers /\ Add(a, "hard") /\ UNCHANGED found
       \/ "remove" \in env.handlers /\ a # found /\ Remove(a) /\ UNCHANGED found
       \/ "removeFound" \in env.handlers /\ a = found /\ Remove(a) /\ found' = -found
  /\ UNCHANGED <<env, w, core, view, at, from, reads, timedOut>>

StepSkipped ==
  /\ at = "event, skipped" /\ at' = "end"
  /\ UNCHANGED <<env, b, w, core, view, found, from, reads, timedOut, asked>>

\* A breakpoint on the lower half word hides one on the upper half.
Shadowed == pc % 2 = 0 /\ pc - 1 \in Listed(b)

StepPlain ==
  /\ at = "event" /\ (env.mode # "auto" \/ Shadowed)
  /\ at' = "end"
  /\ core' \in Stepped(b, core, MaskedStep)
  /\ UNCHANGED <<env, b, w, view, found, from, reads, timedOut, asked>>

\* The freed record of a hardware breakpoint may have its contents yet: a comparator
\* is taken and given back for it.  Or it looks as if it were set already.
SetFreed(x) ==
  {Ok(x)} \cup {[r EXCEPT !.b.bps = x.bps] :
                  r \in SetHard([x EXCEPT !.bps[-found].type = "hard"], -found)}
UnsetFreed(x) ==
  {x} \cup UNION {WriteComparator([x EXCEPT !.used[c] = FALSE, !.fpcr[c] = 0], c) :
                    c \in {d \in 1 .. Comparators : x.fpcr[d] = -found}}

\* The breakpoint found is set again for the wait, else there is a temporary one.
Temporary ==
  CASE found = 0 -> AddBreakpoint(b, pc, IF pc \in High THEN "soft" ELSE "hard")
    [] found > 0 -> SetBreakpoint(b, found)
    [] OTHER     -> SetFreed(b)

StepAuto ==
  /\ at = "event" /\ env.mode = "auto" /\ ~Shadowed
  /\ \E r \in Temporary :
       /\ b' = r.b
       /\ IF r.ok
          THEN /\ at' = "wait"
               /\ core' \in {[core EXCEPT !.halted = FALSE, !.masked = FALSE]} \cup IfFails("core", {core})
          ELSE /\ at' = "end"
               /\ core' \in Stepped(r.b, core, MaskedStep)
  /\ UNCHANGED <<env, w, view, found, from, reads, timedOut, asked>>

\* The loop ends when the core is halted or 500 ms are over, or both.  Seeded fault:
\* it waits for the core.
WaitForCore ==
  /\ at = "wait"
  /\ reads' = Min({reads + 1, MaxReads})
  /\ timedOut' = FALSE
  /\ at' = IF core.halted THEN "waited" ELSE "wait"
  /\ UNCHANGED <<env, b, w, core, view, found, from, asked>>
Wait ==
  /\ at = "wait"
  /\ reads' = Min({reads + 1, MaxReads})
  /\ timedOut' \in {TRUE} \cup (IF reads < MaxReads THEN {FALSE} ELSE {})
  /\ at' = IF core.halted \/ timedOut' THEN "waited" ELSE "wait"
  /\ core' = [core EXCEPT !.wasReset = FALSE]
  /\ UNCHANGED <<env, b, w, view, found, from, asked>>

\* The status cannot be read: the step is given up where it is.
WaitFails ==
  /\ at = "wait" /\ "core" \in env.fails
  /\ Returns /\ state' = "unknown"
  /\ UNCHANGED <<env, b, w, core, reason, pc, asked>>

\* Seeded faults: the temporary breakpoint is kept if the core did not come back;
\* interrupts are not masked.
KeepTemporary == IF timedOut THEN {b} ELSE RemoveBreakpoint(b, from)
RemoveTemporary ==
  CASE found = 0 -> RemoveBreakpoint(b, from)
    [] found > 0 -> UnsetBreakpoint(b, found)
    [] OTHER     -> UnsetFreed(b)
UnmaskedLast(x) == Stepped(x, core, FALSE)
LastStep(x) == Stepped(x, core, TRUE)

Waited ==
  /\ at = "waited" /\ at' = "end"
  /\ b' \in RemoveTemporary
  /\ IF timedOut THEN UNCHANGED core ELSE core' \in LastStep(b')
  /\ UNCHANGED <<env, w, view, found, from, reads, timedOut, asked>>

SetAgain ==
  CASE found = 0 -> {b}
    [] found > 0 -> {r.b : r \in SetBreakpoint(b, found)}
    [] OTHER     -> {r.b : r \in SetFreed(b)}

StepEnds ==
  /\ at = "end" /\ Returns
  /\ b' \in SetAgain
  /\ state' = IF timedOut THEN "running" ELSE "halted"
  /\ reason' = IF timedOut THEN "none" ELSE reason
  /\ core' = [core EXCEPT !.met = core.met /\ timedOut, !.wasReset = FALSE]
  /\ pc' = IF timedOut THEN pc ELSE core.pc
  /\ UNCHANGED <<env, w, asked>>

\* The state stays halted, the program counter stale, and when it is the status that
\* cannot be read the breakpoint found is left pending.
StepEndFails ==
  /\ at = "end" /\ "core" \in env.fails /\ Returns
  /\ b' \in {b} \cup (IF timedOut THEN {} ELSE SetAgain)
  /\ UNCHANGED <<env, w, core, view, asked>>

-----------------------------------------------------------------------------
(* cortex_m_poll *)

\* cortex_m_endreset_event.  Seeded fault: the comparators are not restored.
NotRestored == {[b EXCEPT !.on = TRUE, !.enabled = TRUE]}
Restored ==
  {[b EXCEPT !.on = TRUE, !.enabled = TRUE, !.comp = b.fpcr]}

\* cortex_m_debug_entry.  A reason that is known already is not asked for.
DebugEntry ==
  /\ reason' = IF reason \in {"request", "step"} THEN reason
               ELSE IF core.met THEN "breakpoint" ELSE "undefined"
  /\ core' = [core EXCEPT !.met = FALSE]
  /\ pc' = core.pc

\* The core halts while the host believes it runs: debug entry, which is not tried
\* again when it fails.
Enter ==
  \/ DebugEntry
  \/ "core" \in env.fails /\ UNCHANGED <<core, reason, pc>>

PollState ==
  /\ at = "idle" /\ ~core.wasReset /\ state # "reset"
  /\ state' \in IF core.halted THEN {"halted"}
               ELSE {"running"} \cup (IF state = "unknown" THEN {"unknown"} ELSE {})
  /\ IF core.halted /\ state = "running" THEN Enter ELSE UNCHANGED <<core, reason, pc>>
  /\ UNCHANGED <<env, b, w, step, asked>>

PollReset ==
  /\ at = "idle" /\ core.wasReset
  /\ state' = "reset"
  /\ core' = [core EXCEPT !.wasReset = FALSE]
  /\ UNCHANGED <<env, b, w, reason, pc, step, asked>>

PollEndReset ==
  /\ at = "idle" /\ ~core.wasReset /\ state = "reset"
  /\ b' \in Restored
  /\ state' = IF core.halted THEN "halted" ELSE "running"
  /\ IF core.halted THEN Enter ELSE UNCHANGED <<core, reason, pc>>
  /\ UNCHANGED <<env, w, step, asked>>

EndResetFails ==
  /\ at = "idle" /\ "unit" \in env.fails /\ ~core.wasReset /\ state = "reset"
  /\ state' = "unknown"
  /\ \/ b' \in {b, [b EXCEPT !.on = TRUE]}
     \/ \E n \in 0 .. Comparators - 1 :
          b' = [b EXCEPT !.on = TRUE, !.enabled = TRUE,
                         !.comp = [c \in 1 .. Comparators |-> IF c <= n THEN b.fpcr[c] ELSE @[c]]]
  /\ UNCHANGED <<env, w, core, reason, pc, step, asked>>

\* After a failed poll handle_target examines the target anew: all comparators are
\* free and clear.
Examined ==
  /\ b' = [b EXCEPT !.used = [c \in 1 .. Comparators |-> FALSE],
                    !.fpcr = [c \in 1 .. Comparators |-> 0],
                    !.comp = [c \in 1 .. Comparators |-> 0],
                    !.enabled = b.on]
  /\ w' = [w EXCEPT !.available = Dwts, !.comp = [c \in 1 .. Dwts |-> 0],
                    !.refused = 0]

PollFails ==
  /\ at = "idle" /\ ("core" \in env.fails \/ env.reexamined)
  /\ state' = "unknown"
  /\ IF env.reexamined THEN Examined ELSE UNCHANGED <<b, w>>
  /\ UNCHANGED <<env, core, reason, pc, step, asked>>

-----------------------------------------------------------------------------
Init ==
  /\ env \in Environments
  /\ b = [bps |-> [a \in Program |-> NoBreak],
          used |-> [c \in 1 .. Comparators |-> FALSE],
          fpcr |-> [c \in 1 .. Comparators |-> 0],
          enabled |-> env.enabled,
          comp |-> [c \in 1 .. Comparators |-> 0],
          on |-> env.enabled,
          mem |-> [a \in Program |-> IF a \in env.own THEN "own" ELSE "code"]]
  /\ w = [wps |-> [a \in Watch |-> NotListed], available |-> Dwts,
          comp |-> [c \in 1 .. Dwts |-> 0], refused |-> 0]
  /\ core = [pc |-> 1, ret |-> 0, halted |-> FALSE, masked |-> FALSE, met |-> FALSE,
             wasReset |-> FALSE]
  /\ state = "running" /\ reason = "none" /\ pc = 1
  /\ Idle
  /\ asked = {}

Core == CoreRuns \/ CoreInterrupted \/ CoreReset
User == Break \/ AddWatchpoint \/ RemoveWatchpoint \/ Halt \/ Resume \/ StepBegins
Step ==
  StepSkipped \/ StepPlain \/ StepAuto \/ Wait \/ WaitFails \/ Waited \/ StepEnds \/ StepEndFails
Poll == PollState \/ PollReset \/ PollEndReset \/ EndResetFails \/ PollFails

Next == Core \/ User \/ EventHandler \/ Step \/ Poll

Spec == Init /\ [][Next]_vars
\* The server thread runs a step to its end, whatever the core does.
FairSpec == Spec /\ WF_vars(Step)
-----------------------------------------------------------------------------
TypeOK ==
  /\ env \in Environments
  /\ b.bps \in [Program -> [type : {"none", "hard", "soft"}, set : 0 .. Comparators + 1,
                           orig : {"code", "own", "bkpt"}]]
  /\ b.used \in [1 .. Comparators -> BOOLEAN]
  /\ b.fpcr \in [1 .. Comparators -> Program \cup {0}]
  /\ b.comp \in [1 .. Comparators -> Program \cup {0}]
  /\ b.enabled \in BOOLEAN /\ b.on \in BOOLEAN
  /\ b.mem \in [Program -> {"code", "own", "bkpt"}]
  /\ w.wps \in [Watch -> NotListed .. Dwts] /\ w.available \in Nat /\ w.refused \in Nat
  /\ w.comp \in [1 .. Dwts -> Watch \cup {0}]
  /\ core \in [pc : Program, ret : 0 .. Last, halted : BOOLEAN, masked : BOOLEAN,
               met : BOOLEAN, wasReset : BOOLEAN]
  /\ state \in {"running", "halted", "unknown", "reset"}
  /\ reason \in {"none", "request", "step", "breakpoint", "undefined"}
  /\ pc \in Program
  /\ at \in {"idle", "event", "event, skipped", "wait", "waited", "end"}
  /\ found \in -Handler .. Handler /\ from \in Program \cup {0}
  /\ reads \in 0 .. MaxReads /\ timedOut \in BOOLEAN
  /\ asked \subseteq Code

\* Every comparator in use belongs to one breakpoint, which knows it, and a hardware
\* breakpoint that is set has one to itself.
InHard(a) == b.bps[a].type = "hard" /\ b.bps[a].set # 0
BreakpointsFit ==
  \A c \in 1 .. Comparators :
    LET owners == {a \in Program : InHard(a) /\ b.bps[a].set = c}
    IN IF b.used[c] THEN owners = {b.fpcr[c]} ELSE owners = {} /\ b.fpcr[c] = 0

\* A watchpoint that is set has a comparator to itself, and a comparator is gone only
\* with a watchpoint that was removed while the target was not halted (cortex_m.c:1567
\* refuses, breakpoints.c:496 does not care): the count of free ones is short by those,
\* and no others watch for a watchpoint that is gone.  So one that was accepted gets a
\* comparator when the core is resumed.
Orphans(x) == {c \in 1 .. Dwts : x.comp[c] # 0 /\ x.wps[x.comp[c]] # c}
WatchpointsFit ==
  /\ \A a \in Watch : w.wps[a] > 0 => w.comp[w.wps[a]] = a
  /\ w.available + Cardinality({a \in Watch : w.wps[a] # NotListed}) + w.refused = Dwts
  /\ Cardinality(Orphans(w)) <= w.refused

\* The comparators of both units stay accounted for: none has two owners, none is lost
\* but those of watchpoints whose removal the target refused.
ComparatorsOwned == BreakpointsFit /\ WatchpointsFit

\* doc/openocd.texi: bp "With no parameters, lists all active breakpoints."  Where
\* nothing fails every breakpoint listed stops the running program, also after a reset
\* (once the host has seen it).
Stopping(a) ==
  IF b.bps[a].type = "hard" THEN b.on /\ b.bps[a].set # 0 /\ b.comp[b.bps[a].set] = a
  ELSE b.bps[a].set # 0 /\ b.mem[a] = "bkpt"
ListedIsActive ==
  env.fails = {} /\ at = "idle" /\ state = "running" /\ ~core.wasReset =>
    \A a \in Listed(b) : Stopping(a)

\* Between operations the list is what the user asked for: no temporary breakpoint of
\* a step is left (unless the wait for the core failed), none of the user's is lost.
ListedIsAsked ==
  at = "idle" => /\ asked \subseteq Listed(b)
                 /\ env.fails = {} => Listed(b) = asked

\* Where nothing fails and interrupts are masked automatically, a step from outside a
\* handler and a BKPT of the program ends on the next instruction or at a breakpoint,
\* never in a handler that happened to be pending.
StepOne ==
  [][StepEnds /\ env.mode = "auto" /\ env.fails = {} /\ ~timedOut /\ from \notin env.own \cup {Handler} =>
       \/ core.pc = (from % Last) + 1
       \/ core.pc # found /\ Stops(b, core.pc)]_vars

\* A step ends, also when an interrupt handler does not.
StepReturns == at # "idle" ~> at = "idle"
=============================================================================
