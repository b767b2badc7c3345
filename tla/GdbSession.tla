----------------------------- MODULE GdbSession -----------------------------
(***************************************************************************)
(* One GDB session: the GDB server (server/gdb_server.c) between a GDB     *)
(* client and one target (target/target.c, with Cortex-M's poll, halt,     *)
(* resume and step).  The server is one thread: it handles a packet, a     *)
(* telnet command or a poll to its end.  GDB, the network and the CPU run  *)
(* beside it.                                                              *)
(*                                                                         *)
(* GDB sends a request and waits.  A continue or a step is answered by a   *)
(* stop reply whenever the target halts ("lingering reply"); meanwhile GDB *)
(* may send the interrupt byte, and the log is forwarded as O packets.     *)
(*                                                                         *)
(* A handler is an operator from a world (connection, target, channels) to *)
(* the set of worlds it may leave; one that returns an error code leaves   *)
(* records [ok, w].                                                        *)
(***************************************************************************)
EXTENDS Naturals, Sequences, FiniteSets, SequencesExt

CONSTANTS Environments, \* what a session may meet; one is chosen at the start
          HaltPolls,    \* polls before a halt request times out (1 s in the code)
          MaxOut        \* bound on log packets on their way to GDB

Requests == {"c", "s", "vCont;c", "vCont;s", "X", "x", "other", "gdb_sync"}

\* packets: the requests GDB makes; stops: why the CPU halts by itself;
\* linkFails: an access to the target may fail; telnet: a telnet session halts
\* and resumes the target too; slowStep: a step may leave the core running;
\* ack: packets are acknowledged (no QStartNoAckMode)
Switches == [packets: SUBSET Requests, stops: SUBSET {"code", "call", "exit"},
             linkFails: BOOLEAN, telnet: BOOLEAN, slowStep: BOOLEAN, ack: BOOLEAN]

ASSUME EnvironmentsAssumption == Environments \subseteq Switches
ASSUME BoundsAssumption == HaltPolls \in Nat /\ MaxOut \in Nat \ {0}

Resuming == {"c", "s", "vCont;c", "vCont;s"}    \* answered by a stop reply
StopReplies == {"T", "F", "W"}

VARIABLES
  env,       \* the environment of this session; never changes
  gdb,       \* what the client is doing
  asked,     \* TRUE: it has sent the interrupt byte since it last resumed
  toServer, toGdb,
  con,       \* struct gdb_connection, its log callback, gdb_running_type
  tgt        \* struct target as the server sees it, and the CPU itself

vars == <<env, gdb, asked, toServer, toGdb, con, tgt>>

Connections ==
  [open: BOOLEAN, ctrl_c: BOOLEAN, frontend_state: {"halted", "running"},
   sync: BOOLEAN, mem_write_error: BOOLEAN, forward: BOOLEAN,
   running_type: {"none", "c", "s"}]

Targets ==
  [state: {"halted", "running", "unknown"}, halt_issued: BOOLEAN,
   age: 0 .. HaltPolls, hit: {"none", "call", "exit"},
   cpu: {"halted", "running"}, at: {"code", "call", "exit"}]

TypeOK ==
  /\ env \in Environments
  /\ gdb \in {"off", "idle", "reply", "run", "syscall", "exited"}
  /\ asked \in BOOLEAN
  /\ toServer \in Seq(Requests \cup {"F", "intr", "eof"})
  /\ toGdb \in Seq(StopReplies \cup {"OK", "O"})
  /\ con \in Connections
  /\ tgt \in Targets

NoConnection == [open |-> FALSE, ctrl_c |-> FALSE, frontend_state |-> "halted",
                 sync |-> FALSE, mem_write_error |-> FALSE, forward |-> FALSE,
                 running_type |-> "none"]

Init ==
  /\ env \in Environments
  /\ gdb = "off" /\ asked = FALSE /\ toServer = <<>> /\ toGdb = <<>>
  /\ con = NoConnection
  /\ tgt = [state |-> "halted", halt_issued |-> FALSE, age |-> 0, hit |-> "none",
            cpu |-> "halted", at |-> "code"]

World == [con |-> con, tgt |-> tgt, in |-> toServer, out |-> toGdb]
Become(w) == UNCHANGED env /\ con' = w.con /\ tgt' = w.tgt /\ toServer' = w.in /\ toGdb' = w.out

Good(w) == [ok |-> TRUE,  w |-> w]
Bad(w)  == [ok |-> FALSE, w |-> w]

-----------------------------------------------------------------------------
(* Sending to GDB. *)

\* Seeded faults.
NotRemoved(w) == w
StillRunning(w) == w
ErrorKept(w) == w
TypeNotSet(t, w) == w
NeverAnnounces(w) == FALSE
RestartedAge(w) == 0
DoubledAge(w) == w.tgt.age + 2

\* gdb_put_packet: without noack mode it then reads GDB's answer, and an
\* interrupt byte ahead of the '+' is read on the way.
Put(w, packet) ==
  LET eaten == env.ack /\ "intr" \in ToSet(w.in) IN
  [w EXCEPT !.out = Append(@, packet),
            !.in = IF eaten THEN RemoveFirst(@, "intr") ELSE @,
            !.con.ctrl_c = @ \/ eaten]

\* log_add_callback, log_remove_callback
Forward(w)   == [w EXCEPT !.con.forward = TRUE]
Unforward(w) == [w EXCEPT !.con.forward = FALSE]

FrontendRuns(w)  == [w EXCEPT !.con.frontend_state = "running"]
FrontendStops(w) == [w EXCEPT !.con.frontend_state = "halted"]

\* gdb_signal_reply
SignalReply(w) == FrontendStops(Put([w EXCEPT !.con.ctrl_c = FALSE], "T"))

-----------------------------------------------------------------------------
(* The target. *)

Failing(w) == IF env.linkFails THEN {Bad(w)} ELSE {}

\* The CPU leaves the debug state.
Leave(w) == [w EXCEPT !.tgt.state = "running", !.tgt.cpu = "running", !.tgt.at = "code",
                      !.tgt.hit = IF @ = "exit" THEN "none" ELSE @]

\* target_resume: the CPU may halt before anyone polls.
Resume(w) ==
  IF w.tgt.state # "halted" THEN {Bad(w)} ELSE {Good(Leave(w))} \cup Failing(w)

\* gdb_fileio_reply: a system call goes to GDB, which answers with F; an exit
\* is reported and the target goes on to its own exit handler.
FileioReply(w) ==
  IF w.tgt.hit = "call" THEN {FrontendStops(Put(w, "F"))}
  ELSE {r.w : r \in Resume(FrontendRuns(Put(w, "W")))}

\* gdb_frontend_halted, on TARGET_EVENT_GDB_HALT
FrontendHalted(w) ==
  IF w.con.frontend_state # "running" THEN {w}
  ELSE IF w.tgt.state = "halted" /\ w.tgt.hit # "none" THEN FileioReply(Unforward(w))
  ELSE {SignalReply(Unforward(w))}

\* Whether poll raises the event for a halt it sees: not if it had lost track.
Announces(w) == w.tgt.state = "running"

\* What debug entry finds: a new call is noted unless one is still pending.
Entry(w) == [w EXCEPT !.tgt.state = "halted",
                      !.tgt.hit = IF @ = "none" /\ w.tgt.at # "code" THEN w.tgt.at ELSE @]

SeenHalted(w) ==
  IF Announces(w)
    THEN {Good(u) : u \in FrontendHalted(Entry(w))}
         \cup Failing([w EXCEPT !.tgt.state = "halted"])     \* debug entry fails
    ELSE {Good([w EXCEPT !.tgt.state = "halted"])}
SeenRunning(w) ==
  {Good([w EXCEPT !.tgt.state = "running"])}
  \cup (IF w.tgt.state = "unknown" THEN {Good(w)} ELSE {})

\* cortex_m_poll
TypePoll(w) ==
  (IF w.tgt.cpu = "halted" THEN SeenHalted(w) ELSE SeenRunning(w))
  \cup Failing([w EXCEPT !.tgt.state = "unknown"])

NextAge(w) == w.tgt.age + 1

\* target_poll: an outstanding halt request is settled or times out.
HaltTimer(w) ==
  IF ~w.tgt.halt_issued THEN {w}
  ELSE IF w.tgt.state = "halted" THEN {[w EXCEPT !.tgt.halt_issued = FALSE]}
  ELSE IF w.tgt.age < HaltPolls THEN {[w EXCEPT !.tgt.age = NextAge(w)]}
  ELSE FrontendHalted([w EXCEPT !.tgt.halt_issued = FALSE])

TargetPoll(w) ==
  UNION {IF r.ok THEN {Good(u) : u \in HaltTimer(r.w)} ELSE {r} : r \in TypePoll(w)}

\* target_halt: nothing says when, or whether, the CPU obeys.
TargetHalt(w) ==
  LET issued == [w EXCEPT !.tgt.halt_issued = TRUE, !.tgt.age = 0]
  IN  {Good(issued), Good([issued EXCEPT !.tgt.cpu = "halted"])} \cup Failing(w)

\* target_step: the CPU executes an instruction and halts; the event is raised
\* inside.  When an interrupt handler does not end in time it is left running.  The
\* status may be unreadable while the CPU runs, then the state is unknown, or after
\* it, then the state is halted still and no event is raised.
StepFails(w, stepped) ==
  Failing(w) \cup Failing([Leave(w) EXCEPT !.tgt.state = "unknown"]) \cup Failing(stepped)
TargetStep(w) ==
  LET ran     == Leave(w)
      stepped == [ran EXCEPT !.tgt.state = "halted", !.tgt.cpu = "halted"]
  IN  IF w.tgt.state # "halted" THEN {Bad(w)}
      ELSE {Good(u) : u \in FrontendHalted(stepped)} \cup StepFails(w, stepped)
           \cup (IF env.slowStep THEN {Good(ran)} ELSE {})

-----------------------------------------------------------------------------
(* The packets. *)

\* gdb_running_type, which F goes by
SetType(t, w) == [w EXCEPT !.con.running_type = t]

\* "now that we have reported the memory write error, we can clear the condition"
ClearError(w) == [w EXCEPT !.con.mem_write_error = FALSE]

\* c and s
StepOrContinue(p, w) ==
  LET noted   == ClearError(Forward(w))
      nostep  == \/ w.tgt.state = "unknown"
                 \/ w.tgt.state = "halted" /\ p = "s" /\ w.con.sync
      synced  == [noted EXCEPT !.con.sync = FALSE]
      running == FrontendRuns(synced)
      typed   == SetType(p, running)
      moved   == IF p = "c" THEN Resume(typed) ELSE TargetStep(typed)
  IN  IF nostep THEN {Good(Unforward(Put(synced, "T")))}
      ELSE IF w.tgt.state = "running" THEN {Good(running)}   \* already running
      ELSE UNION {IF r.ok THEN {r} ELSE {Bad(u) : u \in FrontendHalted(r.w)} : r \in moved}

\* vCont;c: the outcome of the resume is not looked at
VContC(w) ==
  LET typed == Forward(SetType("c", w))
      after == UNION {IF r.ok THEN {r} ELSE TargetPoll(r.w) : r \in Resume(typed)}
  IN  {Good(FrontendRuns(r.w)) : r \in after}

\* vCont;s
VContS(w) ==
  LET typed  == Forward(SetType("s", w))
      synced == [typed EXCEPT !.con.sync = FALSE]
      Reply(r) == {Good(Unforward(SignalReply(q.w))) : q \in TargetPoll(r.w)}
  IN  IF w.con.sync
        THEN IF w.tgt.state = "halted" THEN {Good(Unforward(Put(synced, "T")))}
             ELSE {Good(FrontendRuns(synced))}
        ELSE UNION {IF r.ok THEN Reply(r) ELSE {Good(FrontendRuns(r.w))} :
                    r \in TargetStep(typed)}

\* X: a large write is answered before it is done, a small one (fewer than 8
\* bytes) after; a pending error is reported first.
WriteBinary(p, w) ==
  LET first == IF w.con.mem_write_error THEN ClearError(Put(w, "OK"))
               ELSE IF p = "X" THEN Put(w, "OK") ELSE w
      failed == [first EXCEPT !.con.mem_write_error = TRUE]
      written == {first} \cup (IF env.linkFails THEN {failed} ELSE {})
  IN  {Good(IF p = "X" THEN u ELSE ClearError(Put(u, "OK"))) : u \in written}

\* F: target_gdb_fileio_end, then resume or step; no failure is reported
Fileio(w) ==
  LET running == Forward(FrontendRuns(w))
      ended   == [running EXCEPT !.tgt.hit = "none"]
  IN  IF w.tgt.state # "halted" THEN {Good(running)}
      ELSE {Good(r.w) : r \in CASE w.con.running_type = "c" -> Resume(ended)
                                [] w.con.running_type = "s" -> TargetStep(ended)
                                [] OTHER -> {Bad(ended)}}

Handle(p, w) ==
  CASE p \in {"c", "s"}   -> StepOrContinue(p, w)
    [] p = "vCont;c"      -> VContC(w)
    [] p = "vCont;s"      -> VContS(w)
    [] p \in {"X", "x"}   -> WriteBinary(p, w)
    [] p = "F"            -> Fileio(w)
    [] p = "gdb_sync"     -> {Good(Put([w EXCEPT !.con.sync = TRUE], "OK"))}
    [] p = "other"        -> {Good(Put(w, "OK"))}
    [] p = "intr"         -> {Good([w EXCEPT !.con.ctrl_c = TRUE])}

\* After a packet that did not fail: the interrupt, if one was read.
CtrlC(w) ==
  LET halted == UNION {IF h.ok THEN TargetPoll(h.w) ELSE {h} : h \in TargetHalt(w)}
      told   == UNION {IF r.ok THEN {r.w} ELSE FrontendHalted(r.w) : r \in halted}
  IN  IF ~w.con.ctrl_c THEN {w}
      ELSE IF w.tgt.state = "running"
        THEN {[u EXCEPT !.con.ctrl_c = FALSE] : u \in told}
        ELSE FrontendHalted(w)

-----------------------------------------------------------------------------
(* The server thread. *)

\* One turn of the loop in gdb_input_inner.
Input ==
  /\ con.open /\ toServer # <<>> /\ Head(toServer) # "eof"
  /\ LET read == [World EXCEPT !.in = Tail(@)]
     IN  \E r \in Handle(Head(toServer), read) :
           \E w \in (IF r.ok THEN CtrlC(r.w) ELSE {r.w}) : Become(w)
  /\ UNCHANGED <<gdb, asked>>

\* handle_target, when the server loop has nothing else to do.
Poll ==
  /\ toServer = <<>>
  /\ \E r \in TargetPoll(World) :
       \E w \in (IF r.ok THEN {r.w} ELSE FrontendHalted(r.w)) : Become(w)
  /\ UNCHANGED <<gdb, asked>>

\* Something is logged while the log goes to GDB.
LogCallback ==
  /\ con.forward /\ Len(toGdb) < MaxOut
  /\ Become(Put(World, "O"))
  /\ UNCHANGED <<gdb, asked>>

\* gdb_connection_closed; gdb_running_type is a global
Closed ==
  /\ con.open /\ toServer # <<>> /\ Head(toServer) = "eof"
  /\ con' = [NoConnection EXCEPT !.running_type = con.running_type]
  /\ toServer' = <<>> /\ toGdb' = <<>>
  /\ UNCHANGED <<env, gdb, asked, tgt>>

\* gdb_new_connection; max_connections is 1
NewConnection ==
  /\ ~con.open /\ gdb = "off"
  /\ con' = [con EXCEPT !.open = TRUE] /\ gdb' = "idle" /\ asked' = FALSE
  /\ UNCHANGED <<env, toServer, toGdb, tgt>>

\* halt, which waits for the halt (target_wait_state); halt 0, which does not
HaltCommand ==
  /\ env.telnet
  /\ \E h \in TargetHalt(World) :
       \/ Become(h.w)
       \/ h.ok /\ \E r \in TargetPoll(h.w) : Become(r.w)
  /\ UNCHANGED <<gdb, asked>>

ResumeCommand ==
  /\ env.telnet /\ \E r \in Resume(World) : Become(r.w)
  /\ UNCHANGED <<gdb, asked>>

-----------------------------------------------------------------------------
(* The CPU and GDB. *)

CpuHalts ==
  /\ tgt.cpu = "running"
  /\ \E why \in env.stops : tgt' = [tgt EXCEPT !.cpu = "halted", !.at = why]
  /\ UNCHANGED <<env, gdb, asked, toServer, toGdb, con>>

GdbRequest ==
  /\ gdb = "idle"
  /\ \E p \in env.packets :
       toServer' = Append(toServer, p) /\ gdb' = IF p \in Resuming THEN "run" ELSE "reply"
  /\ asked' = FALSE
  /\ UNCHANGED <<env, toGdb, con, tgt>>

GdbInterrupt ==
  /\ gdb = "run" /\ ~asked /\ asked' = TRUE
  /\ toServer' = Append(toServer, "intr")
  /\ UNCHANGED <<env, gdb, toGdb, con, tgt>>

GdbReceive ==
  /\ gdb # "off" /\ toGdb # <<>>
  /\ toGdb' = Tail(toGdb)
  /\ gdb' = CASE Head(toGdb) = "O" -> gdb
              [] Head(toGdb) = "F" -> "syscall"
              [] Head(toGdb) = "W" -> "exited"
              [] OTHER -> "idle"
  /\ UNCHANGED <<env, asked, toServer, con, tgt>>

GdbFileio ==
  /\ gdb = "syscall" /\ gdb' = "run" /\ asked' = FALSE
  /\ toServer' = Append(toServer, "F")
  /\ UNCHANGED <<env, toGdb, con, tgt>>

GdbLeaves ==
  /\ gdb # "off" /\ gdb' = "off" /\ asked' = FALSE
  /\ toServer' = Append(toServer, "eof")
  /\ UNCHANGED <<env, toGdb, con, tgt>>

Server == Input \/ Poll \/ LogCallback \/ Closed \/ NewConnection
Client == GdbRequest \/ GdbInterrupt \/ GdbReceive \/ GdbFileio \/ GdbLeaves
Next == Server \/ HaltCommand \/ ResumeCommand \/ CpuHalts \/ Client

Spec == Init /\ [][Next]_vars

\* The server loop reads its sockets and polls when there is nothing to read;
\* GDB reads what it is sent.
FairSpec == Spec /\ WF_vars(Input) /\ WF_vars(Poll) /\ WF_vars(GdbReceive)

-----------------------------------------------------------------------------
(* Properties. *)

Attached == con.open /\ gdb # "off"
Count(S, q) == Cardinality({i \in DOMAIN q : q[i] \in S})
Owed == Count(Requests \cup {"F"}, toServer) + Count(StopReplies \cup {"OK"}, toGdb)
        + (IF con.frontend_state = "running" THEN 1 ELSE 0)

\* The lingering reply: GDB and server agree on who owes whom.  A waiting GDB has
\* exactly one of: its request on the way, a server that will answer a halt, an
\* answer of the right kind on the way back; any other GDB has none of them.
RepliesOwed ==
  Attached =>
    /\ Owed = IF gdb \in {"reply", "run"} THEN 1 ELSE 0
    /\ gdb = "reply" => Count(StopReplies, toGdb) = 0
    /\ gdb = "run"   => Count({"OK"}, toGdb) = 0

\* The log goes to GDB while it waits for a stop reply, never after one, and
\* never to a closed connection.
LogOnlyWhileWaiting ==
  /\ con.forward => con.open /\ con.frontend_state = "running"
  /\ Attached /\ "O" \in ToSet(toGdb) => gdb = "run"
  /\ \A i \in DOMAIN toGdb : toGdb[i] # "O" => i = Len(toGdb)

\* GDB and server are in step: neither sends what the other does not expect.
InSync == RepliesOwed /\ LogOnlyWhileWaiting

\* A server that owes GDB a stop reply does not see the target halted: the halt
\* it would answer would already be past.  (Lost over a failing link: a halt that a
\* telnet command waits for, and the failure of the resume after a system call.)
NoLostStop ==
  ~(env.linkFails /\ (env.telnet \/ "call" \in env.stops)) =>
    (con.frontend_state = "running" => tgt.state # "halted")

\* A failed write that was answered too early is reported at the next step or
\* continue, or the next binary write (comment at gdb_server.c:83).  vCont forgets it.
WriteErrorSettled ==
  env.packets \cap {"vCont;c", "vCont;s"} = {} =>
    (con.frontend_state = "running" => ~con.mem_write_error)

\* An interrupt gets GDB out of its wait, whatever the target does.  (A telnet
\* halt starts the halt timer anew, as often as the user likes.)
InterruptAnswered ==
  (gdb = "run" /\ asked /\ ~env.telnet) ~> (gdb # "run" \/ ~asked)
=============================================================================
