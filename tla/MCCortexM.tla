----------------------------- MODULE MCCortexM -----------------------------
(***************************************************************************)
(* CortexM for TLC: what may go wrong together.                            *)
(***************************************************************************)
EXTENDS CortexM

Environment(modes, own) ==
  [fails : {{}}, mode : modes, handlers : {{}}, enabled : {FALSE}, resets : {FALSE},
   reexamined : {FALSE}, own : own, code : {Code}, watch : {Watch}]
With(E, feature, value) == {[e EXCEPT ![feature] = value] : e \in E}

\* Nothing fails; an instruction of the program may be a BKPT.
Perfect == Environment({"auto"}, {{}, {2}})
\* Accesses fail: to the comparators, to memory, to the core's registers.
Failing ==
  LET E == With(With(Environment({"auto"}, {{}}), "enabled", TRUE), "watch", {})
  IN With(With(E, "code", {1, 2}), "fails", {"unit", "memory"})
       \cup With(With(E, "code", {1, 2}), "fails", {"core"})
       \cup With(With(E, "code", {1}), "fails", {"unit", "core"})
\* The chip resets.
Resetting ==
  LET E == With(With(Environment({"on"}, {{}}), "resets", TRUE), "watch", {})
  IN E \cup With(With(With(E, "enabled", TRUE), "fails", {"unit"}), "code", {1, 2})
\* Event handlers remove breakpoints, but not the one a step has just unset.
Removing == With(Environment({"auto"}, {{}}), "handlers", {"remove"})
\* They remove that one, or add one, which takes its comparator if there is only one.
RemovingAny == With(Environment({"auto"}, {{}}), "handlers", {"removeFound"})
Adding == With(Environment({"auto"}, {{}}), "handlers", {"add"})
\* The FPB cannot be enabled at first.
FpbFails == With(Environment({"off"}, {{}}), "fails", {"unit"})
\* A poll fails and the target is examined anew.
Reexamined == With(Environment({"off"}, {{}}), "reexamined", TRUE)

Usual == Perfect \cup Failing \cup Resetting \cup Removing

\* For environments that break a promise:
\* cortex_m.c:1016 "Remove the temporary breakpoint": none outlives its step, also when
\* the status cannot be read while the core is awaited (Failing).
NoTemporaryLeft == at = "idle" => Listed(b) \subseteq asked
\* cortex_m.c:832: "if we halted last time due to a bkpt instruction then we have to
\* manually step over it": a step does not end where it began (Perfect; a step to a
\* BKPT leaves debug_reason at single step, so that the next one does not skip it).
StepMoves == [][StepEnds /\ ~timedOut /\ from \notin Listed(b) => core.pc # from]_vars
\* doc/openocd.texi:8037 rwp: "Remove data watchpoint on address": no comparator watches
\* for a watchpoint that was removed (Perfect; rwp while the core runs).
RemovedIsGone == Orphans(w) = {}
=============================================================================
