---------------------------- MODULE MCGdbSession ----------------------------
(***************************************************************************)
(* GdbSession for TLC: the environments of the runs.                       *)
(***************************************************************************)
EXTENDS GdbSession

Quiet == [packets |-> {"c"}, stops |-> {"code"}, linkFails |-> FALSE,
          telnet |-> FALSE, slowStep |-> FALSE, ack |-> FALSE]

\* c and s over a link that fails
Failing_c_s == [Quiet EXCEPT !.packets = {"c", "s", "X", "other", "gdb_sync"},
                             !.linkFails = TRUE, !.slowStep = TRUE]
\* system calls forwarded to GDB
Calls == [Quiet EXCEPT !.packets = {"c", "s", "vCont;s"}, !.stops = {"code", "call"},
                       !.slowStep = TRUE]
\* a telnet session halts and resumes the same target
Shared == [Quiet EXCEPT !.packets = {"c", "s", "vCont;s", "gdb_sync"}, !.telnet = TRUE]

Separate == {Failing_c_s, Calls, Shared}

\* everything at once, acknowledged or not
Together == {[packets |-> {"c", "s", "vCont;c", "vCont;s", "X", "gdb_sync"},
              stops |-> {"code", "call"}, linkFails |-> TRUE, telnet |-> TRUE,
              slowStep |-> TRUE, ack |-> a] : a \in BOOLEAN}

Usual == Separate \cup Together

\* vCont;c, with a telnet session
VcontShared == {[Quiet EXCEPT !.packets = {"vCont;c", "other"}, !.telnet = TRUE]}

\* a small binary write after one that failed
SmallWrites == {[Quiet EXCEPT !.packets = {"X", "x"}, !.linkFails = TRUE]}

\* acknowledged packets
Acknowledged == {[Quiet EXCEPT !.ack = TRUE]}
=============================================================================
