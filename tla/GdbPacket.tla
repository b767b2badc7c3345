------------------------------ MODULE GdbPacket ------------------------------
(***************************************************************************)
(* The packet layer between GDB and the server (server/gdb_server.c:       *)
(* gdb_put_packet, gdb_get_packet and the reading of characters).          *)
(*                                                                         *)
(* A packet is $data#sum.  Unless both agreed not to ("noack"), the one    *)
(* who gets it answers + or -.  The server waits for the answer inside     *)
(* gdb_put_packet, a second at most, and whatever arrives instead of it    *)
(* must be dealt with there: the interrupt byte, the start of a packet, an *)
(* answer that is late.  A packet of GDB whose sum is wrong is dropped     *)
(* without a word; GDB sends it again when nothing comes.                  *)
(*                                                                         *)
(* A channel holds tokens: a sign, the $ of a packet, its body.  The       *)
(* server's handlers are there as the packets they put.                    *)
(***************************************************************************)
EXTENDS Naturals, Sequences, FiniteSetsExt

CONSTANTS
  Environments, \* what a session may meet; one is chosen at the start
  MaxRequests,  \* requests GDB makes
  MaxOut,       \* log packets while the target runs
  MaxNoise,     \* packets that are spoiled, or arrive in two parts
  MaxExtra      \* bound on what a resent packet is too long by, in four bytes

Kinds == {"query", "continue", "noack"}

ASSUME BoundsAssumption ==
  MaxRequests \in Nat /\ MaxOut \in Nat /\ MaxNoise \in Nat /\ MaxExtra \in Nat \ {0}
ASSUME EnvironmentsAssumption ==
  Environments \subseteq
    [kinds : SUBSET Kinds,    \* requests GDB makes
     large : BOOLEAN,         \* the server's packets have more than 1020 bytes
     noise : BOOLEAN,         \* the line spoils packets
     interrupts : 0 .. 2,     \* how often GDB interrupts a run
     slow : BOOLEAN,          \* GDB may take more than a second to answer
     split : BOOLEAN,         \* a packet may arrive in two parts, a second apart
     impatient : BOOLEAN]     \* GDB sends a packet again while the server is busy

VARIABLES
  env,
  \* GDB: what it does, its request, how many it made, packets it took, interrupts sent
  gdb, request, requests, accepted, asked,
  toServer, toGdb, spoiled,
  \* the server: where it is, the packet it puts, how many it put, which it has yet to put,
  pc, packet, puts, todo,
  \* the requests it took, struct gdb_connection and its log callback, whether the target
  \* runs, log packets of this run
  served, noack, ctrl_c, forward, running, out

gdbVars == <<gdb, request, requests, accepted, asked>>
sending == <<packet, puts, todo>>
session == <<served, noack, ctrl_c, forward, running, out>>
server == <<pc, sending, session>>
vars == <<env, gdbVars, toServer, toGdb, spoiled, server>>

Sign(k) == [k |-> k, id |-> 0, kind |-> "none", good |-> TRUE, extra |-> 0]
Body(n, kind) == [k |-> "body", id |-> n, kind |-> kind, good |-> TRUE, extra |-> 0]
NoPacket == Sign("none")

-----------------------------------------------------------------------------
(* The server: reading. *)

Here == Head(toServer)
Reads == toServer' = Tail(toServer)
GdbRest == UNCHANGED <<env, gdbVars, spoiled>>

\* A second without a character.
Silence == toServer = <<>> /\ (env.slow \/ (toGdb = <<>> /\ gdb # "sending"))

\* server_loop calls gdb_input.
Input ==
  /\ pc = "idle" /\ toServer # <<>> /\ pc' = "get"
  /\ GdbRest /\ UNCHANGED <<toServer, toGdb, sending, session>>

\* gdb_get_packet_inner waits for a $.
SkipSign ==
  /\ pc = "get" /\ toServer # <<>> /\ Here.k \in {"+", "-", "body"}
  /\ Reads
  /\ GdbRest /\ UNCHANGED <<toGdb, server>>

GetStart ==
  /\ pc = "get" /\ toServer # <<>> /\ Here.k = "$" /\ Reads
  /\ pc' = "body"
  /\ GdbRest /\ UNCHANGED <<toGdb, sending, session>>

GetTimeout ==
  /\ pc \in {"get", "body"} /\ Silence
  /\ pc' = "idle"
  /\ GdbRest /\ UNCHANGED <<toServer, toGdb, sending, session>>

\* The target is halted, if it runs, the stop reply is put and ctrl_c cleared; else
\* nothing is.
CtrlC == IF ctrl_c' /\ running' THEN <<"stop", "clear">> ELSE <<>>

GetInterrupt ==
  /\ pc = "get" /\ toServer # <<>> /\ Here.k = "intr" /\ Reads
  /\ ctrl_c' = TRUE
  /\ running' = running
  /\ todo' = CtrlC /\ pc' = "handled"
  /\ GdbRest /\ UNCHANGED <<toGdb, packet, puts, served, noack, forward, out>>

\* A packet with a wrong sum is dropped.
GetBad ==
  /\ pc = "body" /\ toServer # <<>> /\ ~noack /\ ~Here.good /\ Reads
  /\ pc' = "get"
  /\ GdbRest /\ UNCHANGED <<toGdb, sending, session>>

\* Seeded fault: the packet is taken, but GDB is not told.
NotAcknowledged == <<>>
Acknowledged == IF noack THEN <<>> ELSE <<Sign("+")>>
\* Seeded fault: the interrupt is forgotten.
Forgotten == FALSE
Remembered == TRUE

\* The handlers of the packets, and ctrl_c after them.
GetPacket ==
  /\ pc = "body" /\ toServer # <<>> /\ (noack \/ Here.good) /\ Reads
  /\ toGdb' = toGdb \o Acknowledged
  /\ served' = Append(served, Here.id)
  /\ running' = (running \/ Here.kind = "continue")
  /\ forward' = (forward \/ Here.kind = "continue")
  /\ noack' = (noack \/ Here.kind = "noack")
  /\ out' = IF Here.kind = "continue" THEN 0 ELSE out
  /\ UNCHANGED ctrl_c
  /\ todo' = (IF Here.kind = "continue" THEN <<>> ELSE <<"reply">>) \o CtrlC
  /\ pc' = "handled"
  /\ GdbRest /\ UNCHANGED <<packet, puts>>

-----------------------------------------------------------------------------
(* The server: sending. *)

\* The next packet a handler puts, or back to the loop.
Handled ==
  /\ pc = "handled" /\ todo = <<>> /\ pc' = "idle"
  /\ GdbRest /\ UNCHANGED <<toServer, toGdb, sending, session>>

\* gdb_signal_reply clears ctrl_c, gdb_frontend_halted stops the log.
Put ==
  /\ pc = "handled" /\ todo # <<>> /\ Head(todo) # "clear" /\ pc' = "send"
  /\ packet' = Body(puts + 1, Head(todo)) /\ puts' = puts + 1
  /\ todo' = Tail(todo)
  /\ LET stop == Head(todo) = "stop" IN
       /\ ctrl_c' = (ctrl_c /\ ~stop)
       /\ forward' = (forward /\ ~stop)
       /\ running' = (running /\ ~stop)
  /\ GdbRest /\ UNCHANGED <<toServer, toGdb, served, noack, out>>

ClearCtrlC ==
  /\ pc = "handled" /\ todo # <<>> /\ Head(todo) = "clear"
  /\ todo' = Tail(todo) /\ ctrl_c' = FALSE
  /\ GdbRest
  /\ UNCHANGED <<toServer, toGdb, pc, packet, puts, served, noack, forward, running, out>>

\* While the target runs: it stops, or something is logged.
Poll ==
  /\ pc = "idle" /\ pc' = "handled" /\ running /\ toServer = <<>>
  /\ \/ todo' = <<"stop">> /\ UNCHANGED out
     \/ forward /\ out < MaxOut /\ todo' = <<"out">> /\ out' = out + 1
  /\ GdbRest /\ UNCHANGED <<toServer, toGdb, packet, puts, served, noack, ctrl_c, forward, running>>

\* A small packet is put together in a buffer, and len counts what was added, so
\* that the next time len is too large, and more than the packet is sent.  (A packet
\* of more than 1020 bytes is written from where it is.)
NextLength == IF env.large THEN packet.extra ELSE Min({packet.extra + 1, MaxExtra})

\* Seeded fault: without acknowledgements the server waits for one.
SendAwaits ==
  /\ pc = "send"
  /\ toGdb' = Append(toGdb, packet)
  /\ packet' = [packet EXCEPT !.extra = NextLength]
  /\ pc' = "answer"
  /\ GdbRest /\ UNCHANGED <<toServer, puts, todo, session>>

Send ==
  /\ pc = "send"
  /\ toGdb' = Append(toGdb, packet)
  /\ packet' = [packet EXCEPT !.extra = NextLength]
  /\ pc' = IF noack THEN "handled" ELSE "answer"
  /\ GdbRest /\ UNCHANGED <<toServer, puts, todo, session>>

\* What is read where the answer is expected.  Seeded fault: a refused packet counts
\* as delivered.
RefusedIsGood(k) == IF k \in {"+", "-", "$"} THEN "handled" ELSE "closed"
After(k) == CASE k \in {"+", "$"} -> "handled" [] k = "-" -> "send" [] OTHER -> "closed"

Answer ==
  /\ pc \in {"answer", "answer after interrupt"} /\ toServer # <<>>
  /\ Here.k # "intr" \/ pc = "answer after interrupt"
  /\ IF Here.k = "$" THEN UNCHANGED toServer ELSE Reads      \* gdb_putback_char
  /\ pc' = After(Here.k)
  /\ forward' = (forward /\ Here.k # "-")
  /\ GdbRest /\ UNCHANGED <<toGdb, served, noack, ctrl_c, running, out, sending>>

AnswerInterrupt ==
  /\ pc = "answer" /\ toServer # <<>> /\ Here.k = "intr" /\ Reads
  /\ ctrl_c' = Remembered
  /\ pc' = "answer after interrupt"
  /\ GdbRest /\ UNCHANGED <<toGdb, served, noack, forward, running, out, sending>>

\* The handlers go on; an answer that comes yet is taken for another packet's.
AnswerTimeout ==
  /\ pc \in {"answer", "answer after interrupt"} /\ Silence
  /\ pc' = "handled"
  /\ GdbRest /\ UNCHANGED <<toServer, toGdb, sending, session>>

Server ==
  \/ Input \/ SkipSign \/ GetStart \/ GetTimeout \/ GetInterrupt \/ GetBad \/ GetPacket
  \/ Handled \/ Put \/ ClearCtrlC \/ Poll \/ Send \/ Answer \/ AnswerInterrupt \/ AnswerTimeout

-----------------------------------------------------------------------------
(* GDB. *)

ServerRest == UNCHANGED <<env, spoiled, server>>

GdbRequest ==
  /\ gdb = "idle" /\ requests < MaxRequests
  /\ requests' = requests + 1 /\ asked' = 0
  /\ \E kind \in env.kinds : request' = kind /\ ~(noack /\ kind = "noack")
  /\ gdb' = "sending"
  /\ UNCHANGED <<toServer, toGdb, accepted>> /\ ServerRest

\* GDB stops acknowledging when it has the answer to its request to do so.
Silent == noack /\ ~(request = "noack" /\ gdb \in {"unanswered", "waiting"})
Written == IF Silent THEN "waiting" ELSE "unanswered"

GdbWrites ==
  /\ gdb = "sending"
  /\ \/ /\ toServer' = toServer \o <<Sign("$"), Body(requests, request)>> /\ gdb' = Written
        /\ UNCHANGED spoiled
     \/ /\ env.split /\ spoiled < MaxNoise /\ spoiled' = spoiled + 1
        /\ toServer' = Append(toServer, Sign("$")) /\ gdb' = "sending body"
  /\ UNCHANGED <<env, request, requests, accepted, asked, toGdb, server>>

GdbWritesBody ==
  /\ gdb = "sending body" /\ gdb' = Written
  /\ toServer' = Append(toServer, Body(requests, request))
  /\ UNCHANGED <<request, requests, accepted, asked, toGdb>> /\ ServerRest

\* Nothing came for a while.
GdbSendsAgain ==
  /\ gdb = "unanswered" /\ toGdb = <<>>
  /\ env.impatient \/ (toServer = <<>> /\ pc = "idle")
  /\ gdb' = "sending"
  /\ UNCHANGED <<request, requests, accepted, asked, toServer, toGdb>> /\ ServerRest

GdbAnswered ==
  /\ toGdb # <<>> /\ Head(toGdb).k = "+"
  /\ toGdb' = Tail(toGdb)
  /\ gdb' = IF gdb = "unanswered" THEN "waiting" ELSE gdb
  /\ UNCHANGED <<request, requests, accepted, asked, toServer>> /\ ServerRest

Says(k) == toServer' = IF Silent THEN toServer ELSE Append(toServer, Sign(k))

\* A packet that is too long may have the right sum by chance.
GdbTakes ==
  /\ gdb \in {"waiting", "idle"} /\ toGdb # <<>> /\ Head(toGdb).k = "body" /\ Head(toGdb).good
  /\ toGdb' = Tail(toGdb)
  /\ Says("+")
  /\ accepted' = Append(accepted, IF Head(toGdb).extra = 0 THEN Head(toGdb).id ELSE 0)
  /\ gdb' = IF Head(toGdb).kind = "out" THEN gdb ELSE "idle"
  /\ UNCHANGED <<request, requests, asked>> /\ ServerRest

GdbRefuses ==
  /\ gdb \in {"waiting", "idle"} /\ toGdb # <<>> /\ Head(toGdb).k = "body"
  /\ ~Head(toGdb).good \/ Head(toGdb).extra > 0
  /\ toGdb' = Tail(toGdb)
  /\ Says("-")
  /\ UNCHANGED gdbVars /\ ServerRest

GdbInterrupts ==
  /\ gdb = "waiting" /\ request = "continue" /\ asked < env.interrupts
  /\ asked' = asked + 1
  /\ toServer' = Append(toServer, Sign("intr"))
  /\ UNCHANGED <<gdb, request, requests, accepted, toGdb>> /\ ServerRest

Gdb ==
  \/ GdbRequest \/ GdbWrites \/ GdbWritesBody \/ GdbSendsAgain \/ GdbAnswered
  \/ GdbTakes \/ GdbRefuses \/ GdbInterrupts

\* The line spoils the body of a packet.
Spoils(c) == {[c EXCEPT ![i].good = FALSE] : i \in {j \in DOMAIN c : c[j].k = "body"}}
Noise ==
  /\ env.noise /\ ~noack /\ spoiled < MaxNoise /\ spoiled' = spoiled + 1
  /\ \/ toGdb' \in Spoils(toGdb) /\ UNCHANGED toServer
     \/ toServer' \in Spoils(toServer) /\ UNCHANGED toGdb
  /\ UNCHANGED <<env, gdbVars, server>>

Init ==
  /\ env \in Environments
  /\ gdb = "idle" /\ request = "query" /\ requests = 0 /\ accepted = <<>> /\ asked = 0
  /\ toServer = <<>> /\ toGdb = <<>> /\ spoiled = 0
  /\ pc = "idle" /\ packet = NoPacket /\ puts = 0 /\ served = <<>> /\ todo = <<>>
  /\ noack = FALSE /\ ctrl_c = FALSE /\ forward = FALSE /\ running = FALSE /\ out = 0

Next == Server \/ Gdb \/ Noise

Spec == Init /\ [][Next]_vars
\* The server's loop goes on, GDB reads what it is sent and sends again what is not
\* answered.
FairSpec ==
  Spec /\ WF_vars(Server) /\ WF_vars(GdbWrites \/ GdbWritesBody) /\ WF_vars(GdbSendsAgain)
       /\ WF_vars(GdbAnswered) /\ WF_vars(GdbTakes \/ GdbRefuses)
-----------------------------------------------------------------------------
Tokens == [k : {"+", "-", "$", "intr", "body"}, id : Nat,
           kind : Kinds \cup {"reply", "stop", "out", "none"}, good : BOOLEAN,
           extra : 0 .. MaxExtra]
Todo == {"reply", "stop", "clear", "out"}

TypeOK ==
  /\ env \in Environments
  /\ gdb \in {"idle", "sending", "sending body", "unanswered", "waiting"}
  /\ request \in Kinds /\ requests \in 0 .. MaxRequests
  /\ accepted \in Seq(Nat) /\ asked \in 0 .. 2
  /\ toServer \in Seq(Tokens) /\ toGdb \in Seq(Tokens) /\ spoiled \in 0 .. MaxNoise
  /\ pc \in {"idle", "get", "body", "handled", "send", "answer", "answer after interrupt",
             "closed"}
  /\ packet \in Tokens \cup {NoPacket} /\ puts \in Nat /\ served \in Seq(Nat)
  /\ todo \in Seq(Todo)
  /\ noack \in BOOLEAN /\ ctrl_c \in BOOLEAN /\ forward \in BOOLEAN /\ running \in BOOLEAN
  /\ out \in 0 .. MaxOut
  /\ pc \in {"answer", "answer after interrupt"} => ~noack

\* Replies arrive: whatever packet the line spoils, however late GDB answers, it
\* takes each packet the server puts once, unaltered, in order, and in the end.
Replies == INSTANCE PacketChannel WITH sent <- puts, received <- accepted
RepliesArrive == Replies!FairSpec

\* Requests arrive: each is handled once, in order, and in the end, although a spoiled
\* one is dropped without a word.
Asked == INSTANCE PacketChannel WITH sent <- requests, received <- served
RequestsArrive == Asked!FairSpec

\* An interrupt is on its way or remembered until the stop reply is due, wherever it is
\* read: between packets or in place of an answer.
InterruptKept ==
  running /\ asked > 0 /\ gdb = "waiting" =>
    ctrl_c \/ \E i \in DOMAIN toServer : toServer[i].k = "intr"
=============================================================================
