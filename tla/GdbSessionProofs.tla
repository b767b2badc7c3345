-------------------------- MODULE GdbSessionProofs --------------------------
(***************************************************************************)
(* GdbSession: its types, that GDB and the server stay in step, that no    *)
(* stop is lost, and that a write error is settled, for every environment  *)
(* in which these hold.                                                    *)
(***************************************************************************)
EXTENDS GdbSession, TLAPS, FiniteSetTheorems, SequenceTheorems, WellFoundedInduction

(* The invariant speaks of worlds, because the handlers do. *)

Incoming == Requests \cup {"F", "intr", "eof"}
Outgoing == StopReplies \cup {"OK", "O"}
Worlds == [con : Connections, tgt : Targets, in : Seq(Incoming), out : Seq(Outgoing)]

\* What GDB has to be answered.
Owing == Requests \cup {"F"}
Pending(q) == \E i \in DOMAIN q : q[i] \in Owing

Running(w) == w.con.frontend_state = "running"

\* No environment forwards an exit (GDB is told twice), and none has a small binary
\* write after a large one that failed (it is answered twice).
Orderly ==
  /\ "exit" \notin env.stops
  /\ ~(env.linkFails /\ {"X", "x"} \subseteq env.packets)

Has(q, x) == \E i \in DOMAIN q : q[i] = x

Once(q) == \A i, j \in DOMAIN q : q[i] \in Owing /\ q[j] \in Owing => i = j
EndsWithEof(q) == \A i \in DOMAIN q : q[i] = "eof" => i = Len(q)

\* The server owes GDB an answer, or it has answered, or GDB's request is on its way,
\* and only one of these.
Turns(w) ==
  /\ w.con.forward => Running(w)
  /\ Running(w) => ~Pending(w.in) /\ \A i \in DOMAIN w.out : w.out[i] = "O"
  /\ Pending(w.in) => w.out = <<>>
  /\ Once(w.in)
  /\ \A i \in DOMAIN w.out : w.out[i] # "O" => i = Len(w.out)

\* g is what GDB does.
Closing(g, w) ==
  /\ ~w.con.open => /\ g = "off" /\ w.in = <<>> /\ w.out = <<>>
                    /\ ~Running(w) /\ ~w.con.forward /\ ~w.con.mem_write_error
  /\ EndsWithEof(w.in) /\ (Has(w.in, "eof") => g = "off")

\* What GDB waits for.
Expected(g, w) ==
  /\ g \in {"idle", "syscall"} => ~Pending(w.in) /\ ~Running(w) /\ w.out = <<>>
  /\ g \in {"reply", "run"} => Pending(w.in) \/ Running(w) \/ \E i \in DOMAIN w.out : w.out[i] # "O"
  /\ g = "reply" => /\ ~Running(w) /\ \A x \in Resuming \cup {"F"} : ~Has(w.in, x)
                    /\ \A i \in DOMAIN w.out : w.out[i] = "OK"
  /\ g = "run" => /\ \A x \in Owing \ (Resuming \cup {"F"}) : ~Has(w.in, x)
                  /\ \A i \in DOMAIN w.out : w.out[i] \in {"T", "F", "O"}
  /\ g # "exited"

NoExit(w) == w.tgt.hit # "exit" /\ w.tgt.at # "exit"
ErrorPossible(w) == w.con.mem_write_error => env.linkFails /\ "X" \in env.packets
Asks(w) == \A x \in Requests : Has(w.in, x) => x \in env.packets

InStep(g, w) == Turns(w) /\ Closing(g, w) /\ Expected(g, w) /\ NoExit(w) /\ ErrorPossible(w) /\ Asks(w)

\* Environments in which no stop is lost.
Watchful ==
  /\ Orderly
  /\ "vCont;c" \notin env.packets /\ ~(env.linkFails /\ "vCont;s" \in env.packets)
  /\ ~("call" \in env.stops /\ (env.linkFails \/ env.telnet)) /\ ~(env.linkFails /\ env.telnet)

\* Neither a system call nor a resume before GDB has made one.
NoCall(g, w) == w.tgt.hit = "none" /\ g # "syscall" /\ ~Has(w.in, "F") /\ ~Has(w.out, "F")
Fresh(w) == w.con.running_type = "none" =>
  /\ ~Running(w) /\ w.tgt.state = "halted" /\ w.tgt.cpu = "halted" /\ w.tgt.hit = "none"
  /\ ~Has(w.in, "F") /\ ~Has(w.out, "F")

\* Watched: a server that owes a stop reply believes that the target runs.
Watched(w) == Running(w) => w.tgt.state = "running"

Seen(g, w) ==
  Watchful =>
    /\ Watched(w)
    /\ ~env.linkFails => w.tgt.state # "unknown"
    /\ "call" \notin env.stops => w.tgt.at = "code" /\ NoCall(g, w)
    /\ ~env.telnet /\ ~env.linkFails => Fresh(w) /\ (w.con.running_type = "none" => g # "syscall")

Settled(g, w) ==
  env.packets \cap {"vCont;c", "vCont;s"} = {} /\ w.con.mem_write_error =>
    ~Running(w) /\ g # "syscall" /\ ~Has(w.in, "F") /\ ~Has(w.out, "F")

Sound(g, w) == InStep(g, w) /\ Seen(g, w) /\ Settled(g, w)
Inv == TypeOK /\ (Orderly => Sound(gdb, World))

-----------------------------------------------------------------------------
(* Channels. *)

\* q without one interrupt byte, or q.
Thinned(q, r) ==
  \/ r = q
  \/ \E k \in DOMAIN q :
       /\ q[k] = "intr" /\ Len(r) = Len(q) - 1
       /\ \A i \in DOMAIN r : r[i] = IF i < k THEN q[i] ELSE q[i + 1]

\* Two channels that differ in interrupts only.
Alike(q, r) ==
  /\ \A x \in Incoming \ {"intr"} : Has(r, x) <=> Has(q, x)
  /\ Pending(r) <=> Pending(q)
  /\ Once(q) => Once(r)
  /\ EndsWithEof(q) => EndsWithEof(r)
  /\ q = <<>> => r = <<>>

\* A nonempty set of naturals has a least element.
LEMMA LeastNat ==
  ASSUME NEW S \in SUBSET Nat, S # {}
  PROVE  \E m \in S : \A n \in S : m <= n
<1> DEFINE T == {0 .. n : n \in S}
<1>1. T \subseteq FiniteSubsetsOf(Nat) /\ T # {}
  <2>1. \A n \in S : (0 .. n) \in SUBSET Nat /\ IsFiniteSet(0 .. n)
    BY FS_Interval
  <2> QED BY <2>1 DEF FiniteSubsetsOf
<1>2. IsWellFoundedOn(StrictSubsetOrdering(Nat), FiniteSubsetsOf(Nat))
  BY FS_StrictSubsetOrderingWellFounded
<1>3. \E x \in T : \A y \in T : ~(<<y, x>> \in StrictSubsetOrdering(Nat))
  <2> HIDE DEF T
  <2> QED BY <1>1, <1>2, WFMin
<1>4. PICK m \in S : \A n \in S : ~(<<0 .. n, 0 .. m>> \in StrictSubsetOrdering(Nat))
  BY <1>3
<1>5. ASSUME NEW n \in S, n < m PROVE FALSE
  <2>1. (0 .. n) \subseteq (0 .. m) /\ m \in 0 .. m /\ m \notin 0 .. n
    BY <1>5
  <2>2. <<0 .. n, 0 .. m>> \in StrictSubsetOrdering(Nat)
    BY <2>1 DEF StrictSubsetOrdering
  <2> QED BY <1>4, <2>2
<1> QED BY <1>5

\* RemoveFirst takes out one element.
LEMMA RemoveFirstElements ==
  ASSUME NEW q \in Seq(Incoming), NEW n \in DOMAIN q, q[n] = "intr"
  PROVE  /\ RemoveFirst(q, "intr") \in Seq(Incoming)
         /\ Thinned(q, RemoveFirst(q, "intr"))
<1> DEFINE I == {i \in 1 .. Len(q) : q[i] = "intr"}
           k == Min(I)
<1>1. k \in I
  <2>1. I \in SUBSET Nat /\ I # {}
    OBVIOUS
  <2>2. \E m \in I : \A i \in I : m <= i
    BY <2>1, LeastNat
  <2> QED BY <2>2 DEF Min
<1>2. RemoveFirst(q, "intr") = SubSeq(q, 1, k - 1) \o SubSeq(q, k + 1, Len(q))
  <2>1. n \in 1 .. Len(q) /\ I # {}
    OBVIOUS
  <2> QED BY <2>1 DEF RemoveFirst, RemoveAt, SelectInSeq
<1> HIDE DEF k
<1> DEFINE a == SubSeq(q, 1, k - 1)
           b == SubSeq(q, k + 1, Len(q))
<1>3. /\ a \in Seq(Incoming) /\ Len(a) = k - 1 /\ \A i \in 1 .. Len(a) : a[i] = q[i]
      /\ b \in Seq(Incoming) /\ Len(b) = Len(q) - k /\ \A i \in 1 .. Len(b) : b[i] = q[k + i]
  BY <1>1
<1>4. RemoveFirst(q, "intr") = a \o b
  BY <1>2
<1> HIDE DEF a, b
<1> DEFINE c == a \o b
<1>5. /\ c \in Seq(Incoming) /\ Len(c) = Len(a) + Len(b)
      /\ \A i \in 1 .. Len(a) + Len(b) : c[i] = IF i <= Len(a) THEN a[i] ELSE b[i - Len(a)]
  BY <1>3, ConcatProperties
<1> HIDE DEF c
<1>6. Len(q) \in Nat /\ k \in 1 .. Len(q) /\ q[k] = "intr" /\ DOMAIN q = 1 .. Len(q)
  BY <1>1
<1>7. Len(c) = Len(q) - 1
  BY <1>3, <1>5, <1>6
<1>8. \A i \in 1 .. Len(q) - 1 : c[i] = IF i < k THEN q[i] ELSE q[i + 1]
  <2> SUFFICES ASSUME NEW i \in 1 .. Len(q) - 1
               PROVE  c[i] = IF i < k THEN q[i] ELSE q[i + 1]
    OBVIOUS
  <2>1. CASE i < k
    BY <2>1, <1>3, <1>5, <1>6
  <2>2. CASE i >= k
    <3> DEFINE j == i - Len(a)
    <3>1. i \in 1 .. Len(a) + Len(b) /\ ~(i <= Len(a)) /\ j \in 1 .. Len(b) /\ k + j = i + 1
      BY <2>2, <1>3, <1>6
    <3>2. c[i] = b[j]
      BY <3>1, <1>5
    <3> HIDE DEF j
    <3>3. b[j] = q[k + j]
      BY <3>1, <1>3
    <3> QED BY <2>2, <3>1, <3>2, <3>3, <1>6
  <2> QED BY <2>1, <2>2, <1>6
<1>9. DOMAIN c = 1 .. Len(c)
  BY <1>5
<1>10. Thinned(q, c)
  BY <1>6, <1>7, <1>8, <1>9 DEF Thinned
<1> QED
  BY <1>4, <1>5, <1>10 DEF c

\* What is left has the same elements but for the interrupt, in the same order.
LEMMA ThinnedKeeps ==
  ASSUME NEW q \in Seq(Incoming), NEW r \in Seq(Incoming), Thinned(q, r)
  PROVE  Alike(q, r)
<1>1. CASE r = q
  BY <1>1 DEF Alike
<1>2. CASE r # q
  <2>1. PICK k \in DOMAIN q : /\ q[k] = "intr" /\ Len(r) = Len(q) - 1
                              /\ \A i \in DOMAIN r : r[i] = IF i < k THEN q[i] ELSE q[i + 1]
    BY <1>2 DEF Thinned
  <2>2. /\ Len(q) \in Nat /\ DOMAIN q = 1 .. Len(q) /\ DOMAIN r = 1 .. Len(q) - 1
        /\ \A i \in 1 .. Len(q) - 1 : r[i] = IF i < k THEN q[i] ELSE q[i + 1]
    BY <2>1
  <2>3. \A j \in DOMAIN q : j # k => \E i \in DOMAIN r : r[i] = q[j]
    <3> TAKE j \in DOMAIN q
    <3>1. j < k => j \in DOMAIN r /\ r[j] = q[j]
      BY <2>2
    <3>2. j > k => j - 1 \in DOMAIN r /\ r[j - 1] = q[j]
      BY <2>2
    <3> QED BY <3>1, <3>2, <2>2
  <2>4. \A i \in DOMAIN r : \E j \in DOMAIN q : r[i] = q[j]
    BY <2>2
  <2>5. \A x \in Incoming \ {"intr"} : Has(r, x) <=> Has(q, x)
    BY <2>1, <2>3, <2>4 DEF Has
  <2>6. Pending(r) <=> Pending(q)
    BY <2>1, <2>3, <2>4 DEF Pending, Owing, Requests
  <2>7. Once(q) => Once(r)
    BY <2>2, SMTT(20) DEF Once
  <2>8. EndsWithEof(q) => EndsWithEof(r)
    BY <2>2, SMTT(20) DEF EndsWithEof
  <2>9. q # <<>>
    BY <2>1
  <2> QED BY <2>5, <2>6, <2>7, <2>8, <2>9 DEF Alike
<1> QED BY <1>1, <1>2

LEMMA AlikeReflexive == ASSUME NEW q PROVE Alike(q, q)
BY DEF Alike

LEMMA AlikeTransitive ==
  ASSUME NEW q, NEW r, NEW s, Alike(q, r), Alike(r, s) PROVE Alike(q, s)
BY DEF Alike

-----------------------------------------------------------------------------
(* Worlds.  An operation that only sees what happened may report a halt to GDB, and  *)
(* changes nothing else between the two.                                             *)

Kept(w, v) ==
  /\ v.con.open = w.con.open /\ v.con.mem_write_error = w.con.mem_write_error
  /\ v.con.running_type = w.con.running_type

Reported(w, v) ==
  /\ Running(w) /\ ~Running(v) /\ ~v.con.forward
  /\ Alike(w.in, v.in)
  /\ \/ v.out = Append(w.out, "T")
     \/ v.out = Append(w.out, "F") /\ "call" \in {w.tgt.hit, w.tgt.at}

Untold(w, v) ==
  /\ v.con.frontend_state = w.con.frontend_state /\ v.con.forward = w.con.forward
  /\ Alike(w.in, v.in) /\ v.out = w.out

Moved(w, v) ==
  /\ v.tgt.at \in {w.tgt.at, "code"} /\ v.tgt.hit \in {w.tgt.hit, "none", w.tgt.at}
  /\ v.tgt.state = "unknown" => env.linkFails \/ w.tgt.state = "unknown"

Resting(w, v) ==
  w.tgt.state = "halted" /\ w.tgt.cpu = "halted" /\ ~env.linkFails =>
    v.tgt.state = "halted" /\ v.tgt.cpu = "halted" /\ v.tgt.hit = w.tgt.hit

Passive(w, v) ==
  /\ v \in Worlds /\ Kept(w, v) /\ (Reported(w, v) \/ Untold(w, v))
  /\ Moved(w, v) /\ Resting(w, v)

LEMMA PassiveReflexive == ASSUME NEW w \in Worlds PROVE Passive(w, w)
BY AlikeReflexive DEF Passive, Kept, Untold, Moved, Resting

LEMMA PassiveNoExit ==
  ASSUME NEW w, NEW v, Passive(w, v), NoExit(w) PROVE NoExit(v)
BY DEF Passive, Moved, NoExit

LEMMA PassiveTransitive ==
  ASSUME NEW u \in Worlds, NEW v \in Worlds, NEW w \in Worlds, NoExit(u),
         Passive(u, v), Passive(v, w)
  PROVE  Passive(u, w)
<1>1. Kept(u, w)
  BY DEF Passive, Kept
<1>2. Moved(u, w)
  <2>1. w.tgt.hit # "code"
    BY DEF Worlds, Targets
  <2> QED BY <2>1 DEF Passive, Moved
<1>3. Resting(u, w)
  BY DEF Passive, Resting
<1>4. Reported(u, w) \/ Untold(u, w)
  <2>1. Alike(u.in, v.in) /\ Alike(v.in, w.in)
    BY DEF Passive, Reported, Untold
  <2>2. Alike(u.in, w.in)
    BY <2>1, AlikeTransitive
  <2>3. "call" \in {v.tgt.hit, v.tgt.at} => "call" \in {u.tgt.hit, u.tgt.at}
    BY DEF Passive, Moved
  <2> QED BY <2>2, <2>3 DEF Passive, Reported, Untold, Running
<1> QED BY <1>1, <1>2, <1>3, <1>4 DEF Passive

LEMMA PutWorld ==
  ASSUME NEW w \in Worlds, NEW p \in Outgoing
  PROVE  LET v == Put(w, p)
         IN  /\ v \in Worlds /\ v.tgt = w.tgt /\ v.out = Append(w.out, p) /\ Alike(w.in, v.in)
             /\ Kept(w, v) /\ v.con.frontend_state = w.con.frontend_state
             /\ v.con.forward = w.con.forward
<1> DEFINE eaten == env.ack /\ "intr" \in ToSet(w.in)
           v == Put(w, p)
<1>1. /\ w.con \in Connections /\ w.in \in Seq(Incoming) /\ Append(w.out, p) \in Seq(Outgoing)
  BY DEF Worlds
<1>2. ASSUME NEW q \in Seq(Incoming), Alike(w.in, q), NEW c \in BOOLEAN, NEW o \in Seq(Outgoing),
             v = [w EXCEPT !.out = o, !.in = q, !.con.ctrl_c = c]
      PROVE  /\ v \in Worlds /\ v.tgt = w.tgt /\ v.out = o /\ v.in = q
             /\ Kept(w, v) /\ v.con.frontend_state = w.con.frontend_state
             /\ v.con.forward = w.con.forward
  <2>1. v = [con |-> [w.con EXCEPT !.ctrl_c = c], tgt |-> w.tgt, in |-> q, out |-> o]
    BY <1>2 DEF Worlds
  <2>2. [w.con EXCEPT !.ctrl_c = c] \in Connections
    BY <1>1 DEF Connections
  <2> HIDE DEF v
  <2>3. v \in Worlds /\ v.con = [w.con EXCEPT !.ctrl_c = c]
    BY <2>1, <2>2 DEF Worlds
  <2> QED BY <1>1, <2>1, <2>3 DEF Connections, Kept
<1>3. CASE eaten
  <2>1. PICK n \in DOMAIN w.in : w.in[n] = "intr"
    BY <1>3 DEF ToSet
  <2>2. RemoveFirst(w.in, "intr") \in Seq(Incoming) /\ Alike(w.in, RemoveFirst(w.in, "intr"))
    BY <1>1, <2>1, RemoveFirstElements, ThinnedKeeps
  <2>3. v = [w EXCEPT !.out = Append(w.out, p), !.in = RemoveFirst(w.in, "intr"), !.con.ctrl_c = TRUE]
    BY <1>3 DEF Put, Worlds, Connections
  <2> DEFINE q == RemoveFirst(w.in, "intr")
  <2>4. PICK c \in BOOLEAN : v = [w EXCEPT !.out = Append(w.out, p), !.in = q, !.con.ctrl_c = c]
    BY <2>3, Zenon
  <2> HIDE DEF v, q
  <2> QED BY <1>1, <1>2, <2>2, <2>4 DEF q, v
<1>4. CASE ~eaten
  <2>1. v = [w EXCEPT !.out = Append(w.out, p), !.in = w.in, !.con.ctrl_c = w.con.ctrl_c]
    BY <1>4 DEF Put, Worlds, Connections
  <2>2. Alike(w.in, w.in) /\ w.con.ctrl_c \in BOOLEAN
    BY <1>1, AlikeReflexive DEF Connections
  <2> QED BY <1>1, <1>2, <2>1, <2>2
<1> QED BY <1>3, <1>4

LEMMA FlagWorlds ==
  ASSUME NEW w \in Worlds
  PROVE  /\ Forward(w) \in Worlds /\ Unforward(w) \in Worlds
         /\ FrontendRuns(w) \in Worlds /\ FrontendStops(w) \in Worlds
         /\ [w EXCEPT !.con.ctrl_c = FALSE] \in Worlds
BY DEF Forward, Unforward, FrontendRuns, FrontendStops, Worlds, Connections

LEMMA UnforwardWorld ==
  ASSUME NEW w \in Worlds
  PROVE  LET v == Unforward(w)
         IN  /\ v \in Worlds /\ v.tgt = w.tgt /\ v.out = w.out /\ v.in = w.in /\ Kept(w, v)
             /\ v.con.frontend_state = w.con.frontend_state /\ ~v.con.forward
BY FlagWorlds DEF Unforward, Worlds, Connections, Kept

LEMMA SignalReplyWorld ==
  ASSUME NEW w \in Worlds
  PROVE  LET v == SignalReply(w)
         IN  /\ v \in Worlds /\ v.tgt = w.tgt /\ v.out = Append(w.out, "T") /\ Alike(w.in, v.in)
             /\ Kept(w, v) /\ v.con.frontend_state = "halted" /\ v.con.forward = w.con.forward
<1> DEFINE u == [w EXCEPT !.con.ctrl_c = FALSE]
           x == Put(u, "T")
<1>1. u \in Worlds /\ "T" \in Outgoing
  BY FlagWorlds DEF Outgoing, StopReplies
<1>2. /\ u.tgt = w.tgt /\ u.out = w.out /\ u.in = w.in
      /\ Kept(w, u) /\ u.con.forward = w.con.forward
  BY DEF Worlds, Connections, Kept
<1> HIDE DEF u
<1>3. /\ x \in Worlds /\ x.tgt = u.tgt /\ x.out = Append(u.out, "T") /\ Alike(u.in, x.in)
      /\ Kept(u, x) /\ x.con.forward = u.con.forward
  BY <1>1, PutWorld
<1> HIDE DEF x
<1>4. FrontendStops(x) \in Worlds
  BY <1>3, FlagWorlds
<1>5. /\ FrontendStops(x).con.frontend_state = "halted"
      /\ FrontendStops(x).tgt = x.tgt /\ FrontendStops(x).out = x.out /\ FrontendStops(x).in = x.in
      /\ Kept(x, FrontendStops(x)) /\ FrontendStops(x).con.forward = x.con.forward
  BY <1>3 DEF FrontendStops, Worlds, Connections, Kept
<1>6. SignalReply(w) = FrontendStops(x)
  BY DEF SignalReply, x, u
<1> QED BY <1>2, <1>3, <1>4, <1>5, <1>6 DEF Kept

LEMMA LeaveWorld ==
  ASSUME NEW w \in Worlds
  PROVE  LET v == Leave(w)
         IN  /\ v \in Worlds /\ v.con = w.con /\ v.in = w.in /\ v.out = w.out
             /\ v.tgt.state = "running" /\ v.tgt.cpu = "running" /\ v.tgt.at = "code"
             /\ v.tgt.hit = IF w.tgt.hit = "exit" THEN "none" ELSE w.tgt.hit
BY DEF Leave, Worlds, Targets

LEMMA ResumeWorlds ==
  ASSUME NEW w \in Worlds, NEW r \in Resume(w)
  PROVE  \/ r.ok = TRUE /\ w.tgt.state = "halted" /\ r.w = Leave(w)
         \/ r.ok = FALSE /\ r.w = w /\ (w.tgt.state # "halted" \/ env.linkFails)
BY DEF Resume, Good, Bad, Failing

LEMMA ResumeTypes ==
  ASSUME NEW w \in Worlds, NEW r \in Resume(w) PROVE r.w \in Worlds /\ r.ok \in BOOLEAN
BY ResumeWorlds, LeaveWorld

LEMMA FrontendHaltedPassive ==
  ASSUME NEW w \in Worlds, NoExit(w), NEW v \in FrontendHalted(w)
  PROVE  Passive(w, v) /\ ~Running(v)
<1>1. CASE ~Running(w)
  BY <1>1, PassiveReflexive DEF FrontendHalted, Running
<1> DEFINE u == Unforward(w)
<1>2. /\ u \in Worlds /\ u.tgt = w.tgt /\ u.in = w.in /\ u.out = w.out
      /\ Kept(w, u) /\ ~u.con.forward
  BY FlagWorlds DEF Unforward, Worlds, Connections, Kept
<1> HIDE DEF u
<1>3. CASE Running(w) /\ w.tgt.state = "halted" /\ w.tgt.hit # "none"
  <2>1. w.tgt.hit = "call"
    BY <1>3 DEF NoExit, Worlds, Targets
  <2>2. v = FrontendStops(Put(u, "F"))
    BY <1>2, <1>3, <2>1 DEF FrontendHalted, FileioReply, u, Running
  <2> DEFINE x == Put(u, "F")
  <2>3. /\ x \in Worlds /\ x.tgt = u.tgt /\ x.out = Append(u.out, "F") /\ Alike(u.in, x.in)
        /\ Kept(u, x) /\ x.con.forward = u.con.forward
    BY <1>2, PutWorld DEF Outgoing, StopReplies
  <2> HIDE DEF x
  <2>4. /\ v \in Worlds /\ v.tgt = x.tgt /\ v.out = x.out /\ v.in = x.in /\ Kept(x, v)
        /\ v.con.frontend_state = "halted" /\ v.con.forward = x.con.forward
    <3>1. v = FrontendStops(x)
      BY <2>2 DEF x
    <3> QED BY <2>3, <3>1, FlagWorlds DEF FrontendStops, Worlds, Connections, Kept
  <2>5. v.out = Append(w.out, "F") /\ Alike(w.in, v.in) /\ Kept(w, v) /\ v.tgt = w.tgt
    BY <1>2, <2>3, <2>4 DEF Kept
  <2>6. Reported(w, v)
    BY <1>2, <1>3, <2>1, <2>3, <2>4, <2>5 DEF Reported, Running
  <2> QED BY <2>4, <2>5, <2>6 DEF Passive, Moved, Resting, Running
<1>4. CASE Running(w) /\ ~(w.tgt.state = "halted" /\ w.tgt.hit # "none")
  <2>1. v = SignalReply(u)
    BY <1>4 DEF FrontendHalted, u, Running
  <2>2. /\ v \in Worlds /\ v.tgt = u.tgt /\ v.out = Append(u.out, "T") /\ Alike(u.in, v.in)
        /\ Kept(u, v) /\ v.con.frontend_state = "halted" /\ v.con.forward = u.con.forward
    BY <1>2, <2>1, SignalReplyWorld
  <2>3. Reported(w, v) /\ Kept(w, v) /\ v.tgt = w.tgt
    BY <1>2, <1>4, <2>2 DEF Reported, Kept, Running
  <2> QED BY <2>2, <2>3 DEF Passive, Moved, Resting, Running
<1> QED BY <1>1, <1>3, <1>4

LEMMA TargetWorld ==
  ASSUME NEW w \in Worlds, NEW t \in Targets
  PROVE  LET v == [w EXCEPT !.tgt = t]
         IN  v \in Worlds /\ v.tgt = t /\ v.con = w.con /\ Kept(w, v) /\ Untold(w, v)
BY AlikeReflexive DEF Worlds, Kept, Untold

LEMMA EntryPassive ==
  ASSUME NEW w \in Worlds, w.tgt.state = "running"
  PROVE  Passive(w, Entry(w))
<1> DEFINE hit == IF w.tgt.hit = "none" /\ w.tgt.at # "code" THEN w.tgt.at ELSE w.tgt.hit
           t == [[w.tgt EXCEPT !.state = "halted"] EXCEPT !.hit = hit]
           v == Entry(w)
<1>1. v = [w EXCEPT !.tgt = t]
  BY DEF Entry, Worlds, Targets
<1>2. t \in Targets /\ t.state = "halted" /\ t.hit = hit /\ t.at = w.tgt.at
  BY DEF Worlds, Targets
<1> HIDE DEF t
<1>3. v \in Worlds /\ v.tgt = t /\ Kept(w, v) /\ Untold(w, v)
  BY <1>1, <1>2, TargetWorld
<1> HIDE DEF v
<1> QED BY <1>2, <1>3 DEF Passive, Moved, Resting, v

\* Only the target's view of the CPU changes.
LEMMA StatePassive ==
  ASSUME NEW w \in Worlds, NEW s \in {"halted", "running", "unknown"},
         s = "unknown" => env.linkFails,
         s = "running" => w.tgt.cpu = "running"
  PROVE  LET v == [w EXCEPT !.tgt.state = s]
         IN  Passive(w, v) /\ v.tgt.state = s /\ v.con = w.con
<1> DEFINE t == [w.tgt EXCEPT !.state = s]
           v == [w EXCEPT !.tgt.state = s]
<1>1. v = [w EXCEPT !.tgt = t]
  BY DEF Worlds
<1>2. t \in Targets /\ t.state = s /\ t.hit = w.tgt.hit /\ t.at = w.tgt.at /\ t.cpu = w.tgt.cpu
  BY DEF Worlds, Targets
<1> HIDE DEF t
<1>3. v \in Worlds /\ v.tgt = t /\ v.con = w.con /\ Kept(w, v) /\ Untold(w, v)
  BY <1>1, <1>2, TargetWorld, ZenonT(30)
<1> HIDE DEF v
<1> QED BY <1>2, <1>3 DEF Passive, Moved, Resting, v

\* A poll.  One that fails may have missed the halt; one that does not leaves no owed
\* reply behind.
LEMMA TypePollPassive ==
  ASSUME NEW w \in Worlds, NoExit(w), NEW r \in TypePoll(w)
  PROVE  /\ Passive(w, r.w) /\ r.ok \in BOOLEAN
         /\ Watched(w) /\ r.ok => Watched(r.w)
         /\ ~r.ok => env.linkFails
<1> USE DEF Good, Bad
<1>1. ASSUME NEW v, v = [w EXCEPT !.tgt.state = "halted"], w.tgt.cpu = "halted", env.linkFails, r = Bad(v)
      PROVE  Passive(w, r.w) /\ r.ok = FALSE /\ env.linkFails
  BY <1>1, StatePassive
<1>2. CASE w.tgt.cpu = "halted" /\ r \in SeenHalted(w) /\ Announces(w)
  <2>1. CASE r \in Failing([w EXCEPT !.tgt.state = "halted"])
    BY <1>1, <1>2, <2>1 DEF Failing
  <2>2. CASE \E u \in FrontendHalted(Entry(w)) : r = Good(u)
    <3>1. PICK u \in FrontendHalted(Entry(w)) : r = Good(u)
      BY <2>2
    <3>2. Passive(w, Entry(w)) /\ Entry(w) \in Worlds /\ NoExit(Entry(w))
      BY <1>2, EntryPassive, PassiveNoExit DEF Announces, Passive
    <3>3. Passive(Entry(w), u) /\ ~Running(u) /\ u \in Worlds
      BY <3>2, FrontendHaltedPassive DEF Passive
    <3> QED BY <3>1, <3>2, <3>3, PassiveTransitive DEF Watched
  <2> QED BY <1>2, <2>1, <2>2 DEF SeenHalted
<1>3. CASE w.tgt.cpu = "halted" /\ r \in SeenHalted(w) /\ ~Announces(w)
  <2>1. r = Good([w EXCEPT !.tgt.state = "halted"])
    BY <1>3 DEF SeenHalted
  <2>2. Passive(w, r.w) /\ r.ok = TRUE /\ r.w.con = w.con
    BY <2>1, StatePassive
  <2> QED BY <1>3, <2>2 DEF Watched, Running, Announces
<1>4. CASE w.tgt.cpu # "halted" /\ r \in SeenRunning(w)
  <2>1. w.tgt.cpu = "running"
    BY <1>4 DEF Worlds, Targets
  <2>2. CASE r = Good([w EXCEPT !.tgt.state = "running"])
    <3>1. Passive(w, r.w) /\ r.ok = TRUE /\ r.w.tgt.state = "running"
      BY <2>1, <2>2, StatePassive
    <3> QED BY <3>1 DEF Watched
  <2>3. CASE r = Good(w)
    BY <2>3, PassiveReflexive
  <2> QED BY <1>4, <2>2, <2>3 DEF SeenRunning
<1>5. CASE r \in Failing([w EXCEPT !.tgt.state = "unknown"])
  <2>1. env.linkFails /\ r = Bad([w EXCEPT !.tgt.state = "unknown"])
    BY <1>5 DEF Failing
  <2>2. Passive(w, r.w) /\ r.ok = FALSE
    BY <2>1, StatePassive
  <2> QED BY <2>1, <2>2
<1> QED BY <1>2, <1>3, <1>4, <1>5 DEF TypePoll

LEMMA HaltTimerPassive ==
  ASSUME NEW w \in Worlds, NoExit(w), NEW v \in HaltTimer(w)
  PROVE  Passive(w, v) /\ (Watched(w) => Watched(v))
<1>1. CASE ~w.tgt.halt_issued
  BY <1>1, PassiveReflexive DEF HaltTimer
<1> DEFINE t == [w.tgt EXCEPT !.halt_issued = FALSE]
           u == [w EXCEPT !.tgt.halt_issued = FALSE]
<1>2. /\ t \in Targets /\ t.state = w.tgt.state /\ t.hit = w.tgt.hit /\ t.at = w.tgt.at /\ t.cpu = w.tgt.cpu
      /\ u = [w EXCEPT !.tgt = t]
  BY DEF Worlds, Targets
<1> HIDE DEF t
<1>3. u \in Worlds /\ u.tgt = t /\ u.con = w.con /\ Kept(w, u) /\ Untold(w, u)
  BY <1>2, TargetWorld
<1> HIDE DEF u
<1>4. Passive(w, u) /\ (Watched(w) => Watched(u)) /\ NoExit(u)
  BY <1>2, <1>3 DEF Passive, Moved, Resting, Watched, Running, NoExit
<1>5. CASE w.tgt.halt_issued /\ w.tgt.state = "halted"
  BY <1>4, <1>5 DEF HaltTimer, u
<1>6. CASE w.tgt.halt_issued /\ w.tgt.state # "halted" /\ w.tgt.age < HaltPolls
  <2> DEFINE a == [w.tgt EXCEPT !.age = NextAge(w)]
             x == [w EXCEPT !.tgt.age = NextAge(w)]
  <2>1. NextAge(w) \in 0 .. HaltPolls
    BY <1>6, BoundsAssumption DEF NextAge, Worlds, Targets
  <2>2. /\ a \in Targets /\ a.state = w.tgt.state /\ a.hit = w.tgt.hit /\ a.at = w.tgt.at /\ a.cpu = w.tgt.cpu
        /\ x = [w EXCEPT !.tgt = a]
    BY <2>1 DEF Worlds, Targets
  <2> HIDE DEF a
  <2>3. x \in Worlds /\ x.tgt = a /\ x.con = w.con /\ Kept(w, x) /\ Untold(w, x)
    BY <2>2, TargetWorld
  <2> HIDE DEF x
  <2>4. Passive(w, x) /\ (Watched(w) => Watched(x))
    BY <2>2, <2>3 DEF Passive, Moved, Resting, Watched, Running
  <2>5. v = x
    BY <1>6 DEF HaltTimer, x
  <2> QED BY <2>4, <2>5
<1>7. CASE w.tgt.halt_issued /\ w.tgt.state # "halted" /\ ~(w.tgt.age < HaltPolls)
  <2>1. v \in FrontendHalted(u)
    BY <1>7 DEF HaltTimer, u
  <2>2. Passive(u, v) /\ ~Running(v) /\ v \in Worlds
    BY <1>3, <1>4, <2>1, FrontendHaltedPassive DEF Passive
  <2> QED BY <1>3, <1>4, <2>2, PassiveTransitive DEF Watched
<1> QED BY <1>1, <1>5, <1>6, <1>7

LEMMA TargetPollPassive ==
  ASSUME NEW w \in Worlds, NoExit(w), NEW r \in TargetPoll(w)
  PROVE  /\ Passive(w, r.w) /\ r.ok \in BOOLEAN
         /\ Watched(w) /\ r.ok => Watched(r.w)
         /\ ~r.ok => env.linkFails
<1>1. PICK p \in TypePoll(w) : r \in IF p.ok THEN {Good(u) : u \in HaltTimer(p.w)} ELSE {p}
  BY DEF TargetPoll
<1>2. /\ Passive(w, p.w) /\ p.ok \in BOOLEAN /\ (Watched(w) /\ p.ok => Watched(p.w))
      /\ ~p.ok => env.linkFails
  BY TypePollPassive
<1>3. p.w \in Worlds /\ NoExit(p.w)
  BY <1>2, PassiveNoExit DEF Passive
<1>4. CASE ~p.ok
  BY <1>1, <1>2, <1>4
<1>5. CASE p.ok
  <2>1. PICK u \in HaltTimer(p.w) : r = Good(u)
    BY <1>1, <1>5
  <2>2. Passive(p.w, u) /\ (Watched(p.w) => Watched(u)) /\ u \in Worlds
    BY <1>3, HaltTimerPassive DEF Passive
  <2> QED BY <1>2, <1>3, <1>5, <2>1, <2>2, PassiveTransitive DEF Good
<1> QED BY <1>2, <1>4, <1>5

LEMMA TargetHaltPassive ==
  ASSUME NEW w \in Worlds, NEW r \in TargetHalt(w)
  PROVE  /\ Passive(w, r.w) /\ r.ok \in BOOLEAN
         /\ Watched(w) => Watched(r.w)
         /\ ~r.ok => env.linkFails
<1> DEFINE t == [[w.tgt EXCEPT !.halt_issued = TRUE] EXCEPT !.age = 0]
           u == [[w EXCEPT !.tgt.halt_issued = TRUE] EXCEPT !.tgt.age = 0]
           s == [t EXCEPT !.cpu = "halted"]
           h == [u EXCEPT !.tgt.cpu = "halted"]
<1>1. t \in Targets /\ t.state = w.tgt.state /\ t.hit = w.tgt.hit /\ t.at = w.tgt.at /\ t.cpu = w.tgt.cpu
  <2>1. [w.tgt EXCEPT !.halt_issued = TRUE] \in Targets
    BY DEF Worlds, Targets
  <2>2. 0 \in 0 .. HaltPolls
    BY BoundsAssumption
  <2>3. \A x \in Targets : [x EXCEPT !.age = 0] \in Targets
    BY <2>2 DEF Targets
  <2> QED BY <2>1, <2>3 DEF Worlds, Targets
<1>2. u = [w EXCEPT !.tgt = t]
  BY DEF Worlds, Targets
<1> HIDE DEF t
<1>3. s \in Targets /\ s.state = t.state /\ s.hit = t.hit /\ s.at = t.at /\ s.cpu = "halted"
  BY <1>1 DEF Targets
<1> HIDE DEF s
<1>4. u \in Worlds /\ u.tgt = t /\ u.con = w.con /\ Kept(w, u) /\ Untold(w, u)
  BY <1>1, <1>2, TargetWorld
<1> HIDE DEF u
<1>5. h = [u EXCEPT !.tgt = s]
  BY <1>4 DEF s, Worlds
<1>6. h \in Worlds /\ h.tgt = s /\ h.con = u.con /\ Kept(u, h) /\ Untold(u, h)
  BY <1>3, <1>4, <1>5, TargetWorld, ZenonT(30)
<1> HIDE DEF h
<1>7. Passive(w, u) /\ (Watched(w) => Watched(u))
  BY <1>1, <1>4 DEF Passive, Moved, Resting, Watched, Running
<1>8. Passive(w, h) /\ (Watched(w) => Watched(h))
  <2>1. /\ h.con = w.con /\ h.in = w.in /\ h.out = w.out
        /\ h.tgt.state = w.tgt.state /\ h.tgt.hit = w.tgt.hit /\ h.tgt.at = w.tgt.at /\ h.tgt.cpu = "halted"
    BY <1>1, <1>3, <1>4, <1>6 DEF h, u, Worlds
  <2>2. Kept(w, h) /\ Untold(w, h)
    BY <2>1, AlikeReflexive DEF Kept, Untold
  <2> QED BY <1>6, <2>1, <2>2 DEF Passive, Moved, Resting, Watched, Running
<1>9. r = Good(u) \/ r = Good(h) \/ (env.linkFails /\ r = Bad(w))
  BY DEF TargetHalt, Failing, u, h
<1>10. CASE r = Good(u)
  BY <1>7, <1>10 DEF Good
<1>11. CASE r = Good(h)
  BY <1>8, <1>11 DEF Good
<1>12. CASE env.linkFails /\ r = Bad(w)
  BY <1>12, PassiveReflexive DEF Bad
<1> QED BY <1>9, <1>10, <1>11, <1>12

LEMMA CtrlCPassive ==
  ASSUME NEW w \in Worlds, NoExit(w), NEW v \in CtrlC(w)
  PROVE  Passive(w, v) /\ (Watched(w) => Watched(v))
<1>1. CASE ~w.con.ctrl_c
  BY <1>1, PassiveReflexive DEF CtrlC
<1>2. CASE w.con.ctrl_c /\ w.tgt.state # "running"
  BY <1>2, FrontendHaltedPassive DEF CtrlC, Watched
<1>3. CASE w.con.ctrl_c /\ w.tgt.state = "running"
  <2>1. PICK h \in TargetHalt(w) :
          \E r \in IF h.ok THEN TargetPoll(h.w) ELSE {h} :
            \E u \in IF r.ok THEN {r.w} ELSE FrontendHalted(r.w) :
              v = [u EXCEPT !.con.ctrl_c = FALSE]
    BY <1>3 DEF CtrlC
  <2>2. PICK r \in IF h.ok THEN TargetPoll(h.w) ELSE {h} :
            \E u \in IF r.ok THEN {r.w} ELSE FrontendHalted(r.w) :
              v = [u EXCEPT !.con.ctrl_c = FALSE]
    BY <2>1
  <2>3. PICK u \in IF r.ok THEN {r.w} ELSE FrontendHalted(r.w) : v = [u EXCEPT !.con.ctrl_c = FALSE]
    BY <2>2
  <2>4. Passive(w, h.w) /\ h.ok \in BOOLEAN /\ (Watched(w) => Watched(h.w))
    BY <2>1, TargetHaltPassive
  <2>5. h.w \in Worlds /\ NoExit(h.w)
    BY <2>4, PassiveNoExit DEF Passive
  <2>6. Passive(w, r.w) /\ r.ok \in BOOLEAN /\ (Watched(w) /\ r.ok => Watched(r.w))
    <3>1. CASE ~h.ok
      BY <2>2, <2>4, <3>1
    <3>2. CASE h.ok
      <4>1. Passive(h.w, r.w) /\ r.ok \in BOOLEAN /\ (Watched(h.w) /\ r.ok => Watched(r.w))
        BY <2>2, <2>5, <3>2, TargetPollPassive
      <4> QED BY <2>4, <2>5, <4>1, PassiveTransitive DEF Passive
    <3> QED BY <2>4, <3>1, <3>2
  <2>7. r.w \in Worlds /\ NoExit(r.w)
    BY <2>6, PassiveNoExit DEF Passive
  <2>8. Passive(w, u) /\ (Watched(w) => Watched(u))
    <3>1. CASE r.ok
      BY <2>3, <2>6, <3>1
    <3>2. CASE ~r.ok
      <4>1. Passive(r.w, u) /\ ~Running(u) /\ u \in Worlds
        BY <2>3, <2>7, <3>2, FrontendHaltedPassive DEF Passive
      <4> QED BY <2>6, <2>7, <4>1, PassiveTransitive DEF Watched
    <3> QED BY <2>6, <3>1, <3>2
  <2>9. u \in Worlds
    BY <2>8 DEF Passive
  <2>10. Passive(u, v) /\ (Watched(u) => Watched(v)) /\ v \in Worlds
    <3>1. v \in Worlds
      BY <2>3, <2>9, FlagWorlds
    <3>2. /\ v.tgt = u.tgt /\ v.in = u.in /\ v.out = u.out /\ Kept(u, v)
          /\ v.con.frontend_state = u.con.frontend_state /\ v.con.forward = u.con.forward
      BY <2>3, <2>9 DEF Worlds, Connections, Kept
    <3> QED BY <3>1, <3>2, AlikeReflexive DEF Passive, Untold, Moved, Resting, Watched, Running
  <2> QED BY <2>8, <2>9, <2>10, PassiveTransitive
<1> QED BY <1>1, <1>2, <1>3

-----------------------------------------------------------------------------
(* Types, in every environment. *)

Outcome(r) == r.ok \in BOOLEAN /\ r.w \in Worlds

LEMMA OutcomeOf ==
  ASSUME NEW v \in Worlds PROVE Outcome(Good(v)) /\ Outcome(Bad(v))
<1>1. Good(v).ok = TRUE /\ Good(v).w = v
  BY DEF Good
<1>2. Bad(v).ok = FALSE /\ Bad(v).w = v
  BY DEF Bad
<1> QED BY <1>1, <1>2 DEF Outcome

LEMMA FieldWorlds ==
  ASSUME NEW w \in Worlds
  PROVE  /\ ClearError(w) \in Worlds /\ [w EXCEPT !.con.mem_write_error = TRUE] \in Worlds
         /\ [w EXCEPT !.con.sync = FALSE] \in Worlds /\ [w EXCEPT !.con.sync = TRUE] \in Worlds
         /\ [w EXCEPT !.con.ctrl_c = TRUE] \in Worlds
         /\ [w EXCEPT !.tgt.hit = "none"] \in Worlds
         /\ \A t \in {"c", "s"} : SetType(t, w) \in Worlds
<1>1. /\ ClearError(w) \in Worlds /\ [w EXCEPT !.con.mem_write_error = TRUE] \in Worlds
      /\ [w EXCEPT !.con.sync = FALSE] \in Worlds /\ [w EXCEPT !.con.sync = TRUE] \in Worlds
      /\ [w EXCEPT !.con.ctrl_c = TRUE] \in Worlds
  BY DEF ClearError, Worlds, Connections
<1>2. \A t \in {"c", "s"} : SetType(t, w) \in Worlds
  BY DEF SetType, Worlds, Connections
<1>3. [w EXCEPT !.tgt.hit = "none"] \in Worlds
  BY DEF Worlds, Targets
<1> QED BY <1>1, <1>2, <1>3

LEMMA FrontendHaltedTypes ==
  ASSUME NEW w \in Worlds, NEW v \in FrontendHalted(w) PROVE v \in Worlds
<1> DEFINE u == Unforward(w)
<1>1. u \in Worlds
  BY FlagWorlds
<1> HIDE DEF u
<1>2. CASE v = w
  BY <1>2
<1>3. CASE v = SignalReply(u)
  BY <1>1, <1>3, SignalReplyWorld
<1>4. CASE v \in FileioReply(u)
  <2>1. CASE v = FrontendStops(Put(u, "F"))
    <3>1. Put(u, "F") \in Worlds
      BY <1>1, PutWorld DEF Outgoing, StopReplies
    <3> QED BY <2>1, <3>1, FlagWorlds
  <2>2. CASE \E r \in Resume(FrontendRuns(Put(u, "W"))) : v = r.w
    <3>1. Put(u, "W") \in Worlds
      BY <1>1, PutWorld DEF Outgoing, StopReplies
    <3>2. FrontendRuns(Put(u, "W")) \in Worlds
      BY <3>1, FlagWorlds
    <3> QED BY <2>2, <3>2, ResumeTypes
  <2> QED BY <1>4, <2>1, <2>2 DEF FileioReply
<1> QED BY <1>2, <1>3, <1>4 DEF FrontendHalted, u

LEMMA TypePollTypes ==
  ASSUME NEW w \in Worlds, NEW r \in TypePoll(w) PROVE Outcome(r)
<1>1. \A s \in {"halted", "running", "unknown"} : [w EXCEPT !.tgt.state = s] \in Worlds
  BY DEF Worlds, Targets
<1>2. CASE \E v \in Worlds : r = Good(v) \/ r = Bad(v)
  BY <1>2, OutcomeOf
<1>3. CASE Announces(w) /\ \E u \in FrontendHalted(Entry(w)) : r = Good(u)
  <2>1. Entry(w) \in Worlds
    BY <1>3, EntryPassive DEF Announces, Passive
  <2> QED BY <1>2, <1>3, <2>1, FrontendHaltedTypes
<1>4. \/ Announces(w) /\ \E u \in FrontendHalted(Entry(w)) : r = Good(u)
      \/ r \in {Good([w EXCEPT !.tgt.state = "halted"]), Bad([w EXCEPT !.tgt.state = "halted"]),
                Good([w EXCEPT !.tgt.state = "running"]), Good(w), Bad([w EXCEPT !.tgt.state = "unknown"])}
  BY DEF TypePoll, SeenHalted, SeenRunning, Failing
<1> QED BY <1>1, <1>2, <1>3, <1>4

LEMMA HaltTimerTypes ==
  ASSUME NEW w \in Worlds, NEW v \in HaltTimer(w) PROVE v \in Worlds
<1>1. [w EXCEPT !.tgt.halt_issued = FALSE] \in Worlds
  BY DEF Worlds, Targets
<1>2. CASE v = [w EXCEPT !.tgt.age = NextAge(w)] /\ w.tgt.age < HaltPolls
  <2>1. NextAge(w) \in 0 .. HaltPolls
    BY <1>2, BoundsAssumption DEF NextAge, Worlds, Targets
  <2> QED BY <1>2, <2>1 DEF Worlds, Targets
<1> QED BY <1>1, <1>2, FrontendHaltedTypes DEF HaltTimer

LEMMA TargetPollTypes ==
  ASSUME NEW w \in Worlds, NEW r \in TargetPoll(w) PROVE Outcome(r)
<1>1. PICK p \in TypePoll(w) : r \in IF p.ok THEN {Good(u) : u \in HaltTimer(p.w)} ELSE {p}
  BY DEF TargetPoll
<1>2. Outcome(p)
  BY TypePollTypes
<1>3. CASE ~p.ok
  BY <1>1, <1>2, <1>3
<1>4. CASE p.ok
  <2>1. PICK u \in HaltTimer(p.w) : r = Good(u)
    BY <1>1, <1>4
  <2> QED BY <1>2, <2>1, HaltTimerTypes DEF Good, Outcome
<1> QED BY <1>3, <1>4

LEMMA TargetHaltTypes ==
  ASSUME NEW w \in Worlds, NEW r \in TargetHalt(w) PROVE Outcome(r)
BY TargetHaltPassive DEF Passive, Outcome

LEMMA SteppedWorld ==
  ASSUME NEW w \in Worlds
  PROVE  LET v == [Leave(w) EXCEPT !.tgt.state = "halted", !.tgt.cpu = "halted"]
         IN  /\ v \in Worlds /\ v.con = w.con /\ v.in = w.in /\ v.out = w.out
             /\ v.tgt.state = "halted" /\ v.tgt.cpu = "halted" /\ v.tgt.at = "code"
             /\ v.tgt.hit = IF w.tgt.hit = "exit" THEN "none" ELSE w.tgt.hit
<1> DEFINE u == Leave(w)
<1>1. /\ u \in Worlds /\ u.con = w.con /\ u.in = w.in /\ u.out = w.out /\ u.tgt.at = "code"
      /\ u.tgt.hit = IF w.tgt.hit = "exit" THEN "none" ELSE w.tgt.hit
  BY LeaveWorld
<1> HIDE DEF u
<1>2. LET v == [u EXCEPT !.tgt.state = "halted", !.tgt.cpu = "halted"]
      IN  /\ v \in Worlds /\ v.con = u.con /\ v.in = u.in /\ v.out = u.out
          /\ v.tgt.state = "halted" /\ v.tgt.cpu = "halted" /\ v.tgt.at = u.tgt.at /\ v.tgt.hit = u.tgt.hit
  BY <1>1 DEF Worlds, Targets
<1> QED BY <1>1, <1>2 DEF u

\* A step whose wait failed has lost track of the target.
LEMMA LostWorld ==
  ASSUME NEW w \in Worlds
  PROVE  LET v == [Leave(w) EXCEPT !.tgt.state = "unknown"]
         IN  /\ v \in Worlds /\ v.con = w.con /\ v.in = w.in /\ v.out = w.out
             /\ v.tgt.at = "code"
             /\ v.tgt.hit = IF w.tgt.hit = "exit" THEN "none" ELSE w.tgt.hit
<1> DEFINE u == Leave(w)
<1>1. /\ u \in Worlds /\ u.con = w.con /\ u.in = w.in /\ u.out = w.out /\ u.tgt.at = "code"
      /\ u.tgt.hit = IF w.tgt.hit = "exit" THEN "none" ELSE w.tgt.hit
  BY LeaveWorld
<1> HIDE DEF u
<1>2. LET v == [u EXCEPT !.tgt.state = "unknown"]
      IN  /\ v \in Worlds /\ v.con = u.con /\ v.in = u.in /\ v.out = u.out
          /\ v.tgt.at = u.tgt.at /\ v.tgt.hit = u.tgt.hit
  BY <1>1 DEF Worlds, Targets
<1> QED BY <1>1, <1>2 DEF u

LEMMA TargetStepWorlds ==
  ASSUME NEW w \in Worlds, NEW r \in TargetStep(w)
  PROVE  LET stepped == [Leave(w) EXCEPT !.tgt.state = "halted", !.tgt.cpu = "halted"]
             lost    == [Leave(w) EXCEPT !.tgt.state = "unknown"]
         IN  \/ w.tgt.state = "halted" /\ \E u \in FrontendHalted(stepped) : r.ok = TRUE /\ r.w = u
             \/ w.tgt.state = "halted" /\ env.slowStep /\ r.ok = TRUE /\ r.w = Leave(w)
             \/ r.ok = FALSE /\ r.w = w /\ (w.tgt.state # "halted" \/ env.linkFails)
             \/ r.ok = FALSE /\ r.w \in {stepped, lost} /\ env.linkFails
BY DEF TargetStep, StepFails, Good, Bad, Failing

LEMMA TargetStepTypes ==
  ASSUME NEW w \in Worlds, NEW r \in TargetStep(w) PROVE Outcome(r)
<1> DEFINE stepped == [Leave(w) EXCEPT !.tgt.state = "halted", !.tgt.cpu = "halted"]
           lost    == [Leave(w) EXCEPT !.tgt.state = "unknown"]
<1>1. \/ \E u \in FrontendHalted(stepped) : r.ok = TRUE /\ r.w = u
      \/ r.ok = TRUE /\ r.w = Leave(w)
      \/ r.ok = FALSE /\ r.w \in {w, stepped, lost}
  BY TargetStepWorlds
<1>2. stepped \in Worlds /\ Leave(w) \in Worlds /\ lost \in Worlds
  BY SteppedWorld, LeaveWorld, LostWorld
<1> HIDE DEF stepped, lost
<1> QED BY <1>1, <1>2, FrontendHaltedTypes DEF Outcome

LEMMA CtrlCTypes ==
  ASSUME NEW w \in Worlds, NEW v \in CtrlC(w) PROVE v \in Worlds
<1>1. CASE v = w \/ v \in FrontendHalted(w)
  BY <1>1, FrontendHaltedTypes
<1>2. CASE \E h \in TargetHalt(w) :
          \E r \in IF h.ok THEN TargetPoll(h.w) ELSE {h} :
            \E u \in IF r.ok THEN {r.w} ELSE FrontendHalted(r.w) :
              v = [u EXCEPT !.con.ctrl_c = FALSE]
  <2>1. PICK h \in TargetHalt(w) :
          \E r \in IF h.ok THEN TargetPoll(h.w) ELSE {h} :
            \E u \in IF r.ok THEN {r.w} ELSE FrontendHalted(r.w) :
              v = [u EXCEPT !.con.ctrl_c = FALSE]
    BY <1>2
  <2>2. PICK r \in IF h.ok THEN TargetPoll(h.w) ELSE {h} :
            \E u \in IF r.ok THEN {r.w} ELSE FrontendHalted(r.w) :
              v = [u EXCEPT !.con.ctrl_c = FALSE]
    BY <2>1
  <2>3. PICK u \in IF r.ok THEN {r.w} ELSE FrontendHalted(r.w) : v = [u EXCEPT !.con.ctrl_c = FALSE]
    BY <2>2
  <2>4. Outcome(h)
    BY <2>1, TargetHaltTypes
  <2>5. Outcome(r)
    BY <2>2, <2>4, TargetPollTypes DEF Outcome
  <2>6. u \in Worlds
    BY <2>3, <2>5, FrontendHaltedTypes DEF Outcome
  <2> QED BY <2>3, <2>6, FlagWorlds
<1>3. \/ v = w \/ v \in FrontendHalted(w)
      \/ \E h \in TargetHalt(w) :
          \E r \in IF h.ok THEN TargetPoll(h.w) ELSE {h} :
            \E u \in IF r.ok THEN {r.w} ELSE FrontendHalted(r.w) :
              v = [u EXCEPT !.con.ctrl_c = FALSE]
  BY DEF CtrlC
<1> QED BY <1>1, <1>2, <1>3

LEMMA OutgoingPackets == {"OK", "O", "T", "F", "W"} \subseteq Outgoing
BY DEF Outgoing, StopReplies

LEMMA StepOrContinueTypes ==
  ASSUME NEW w \in Worlds, NEW p \in {"c", "s"}, NEW r \in StepOrContinue(p, w)
  PROVE  Outcome(r)
<1> DEFINE noted   == ClearError(Forward(w))
           synced  == [noted EXCEPT !.con.sync = FALSE]
           running == FrontendRuns(synced)
           typed   == SetType(p, running)
           moved   == IF p = "c" THEN Resume(typed) ELSE TargetStep(typed)
           told    == Unforward(Put(synced, "T"))
<1>1. noted \in Worlds
  BY FlagWorlds, FieldWorlds
<1> HIDE DEF noted
<1>2. synced \in Worlds
  BY <1>1, FieldWorlds
<1> HIDE DEF synced
<1>3. running \in Worlds
  BY <1>2, FlagWorlds
<1> HIDE DEF running
<1>4. typed \in Worlds
  BY <1>3, FieldWorlds
<1> HIDE DEF typed
<1>5. told \in Worlds
  <2>1. Put(synced, "T") \in Worlds
    BY <1>2, PutWorld, OutgoingPackets
  <2> QED BY <2>1, FlagWorlds
<1> HIDE DEF told
<1>6. \A q \in moved : Outcome(q)
  BY <1>4, ResumeTypes, TargetStepTypes DEF Outcome
<1> HIDE DEF moved
<1>7. \A q \in moved : \A u \in FrontendHalted(q.w) : Outcome(Bad(u))
  BY <1>6, FrontendHaltedTypes, OutcomeOf DEF Outcome
<1>8. \/ r = Good(told) \/ r = Good(running) \/ r \in moved
      \/ \E q \in moved : \E u \in FrontendHalted(q.w) : r = Bad(u)
  BY DEF StepOrContinue, told, moved, typed, running, synced, noted
<1> QED BY <1>3, <1>5, <1>6, <1>7, <1>8, OutcomeOf

LEMMA VContCTypes ==
  ASSUME NEW w \in Worlds, NEW r \in VContC(w) PROVE Outcome(r)
<1> DEFINE typed == Forward(SetType("c", w))
<1>1. typed \in Worlds
  BY FlagWorlds, FieldWorlds
<1> HIDE DEF typed
<1>2. PICK q \in Resume(typed) : \E x \in IF q.ok THEN {q} ELSE TargetPoll(q.w) : r = Good(FrontendRuns(x.w))
  BY DEF VContC, typed
<1>3. Outcome(q)
  BY <1>1, ResumeTypes DEF Outcome
<1>4. PICK x \in IF q.ok THEN {q} ELSE TargetPoll(q.w) : r = Good(FrontendRuns(x.w))
  BY <1>2
<1>5. Outcome(x)
  BY <1>3, <1>4, TargetPollTypes DEF Outcome
<1> QED BY <1>4, <1>5, FlagWorlds, OutcomeOf DEF Outcome

LEMMA VContSTypes ==
  ASSUME NEW w \in Worlds, NEW r \in VContS(w) PROVE Outcome(r)
<1> DEFINE typed  == Forward(SetType("s", w))
           synced == [typed EXCEPT !.con.sync = FALSE]
           told   == Unforward(Put(synced, "T"))
<1>1. typed \in Worlds
  BY FlagWorlds, FieldWorlds
<1> HIDE DEF typed
<1>2. synced \in Worlds
  BY <1>1, FieldWorlds
<1> HIDE DEF synced
<1>3. told \in Worlds
  <2>1. Put(synced, "T") \in Worlds
    BY <1>2, PutWorld, OutgoingPackets
  <2> QED BY <2>1, FlagWorlds
<1> HIDE DEF told
<1>4. \A x \in TargetStep(typed) : x.w \in Worlds
  BY <1>1, TargetStepTypes DEF Outcome
<1>5. \A x \in TargetStep(typed) : \A q \in TargetPoll(x.w) : Unforward(SignalReply(q.w)) \in Worlds
  <2> TAKE x \in TargetStep(typed)
  <2> TAKE q \in TargetPoll(x.w)
  <2>1. q.w \in Worlds
    BY <1>4, TargetPollTypes DEF Outcome
  <2>2. SignalReply(q.w) \in Worlds
    BY <2>1, SignalReplyWorld
  <2> QED BY <2>2, FlagWorlds
<1>6. \/ r = Good(told) \/ r = Good(FrontendRuns(synced))
      \/ \E x \in TargetStep(typed) : r = Good(FrontendRuns(x.w))
      \/ \E x \in TargetStep(typed) : \E q \in TargetPoll(x.w) : r = Good(Unforward(SignalReply(q.w)))
  BY DEF VContS, told, synced, typed
<1> QED BY <1>2, <1>3, <1>4, <1>5, <1>6, FlagWorlds, OutcomeOf

LEMMA WriteBinaryTypes ==
  ASSUME NEW w \in Worlds, NEW p \in {"X", "x"}, NEW r \in WriteBinary(p, w)
  PROVE  Outcome(r)
<1> DEFINE first == IF w.con.mem_write_error THEN ClearError(Put(w, "OK"))
                    ELSE IF p = "X" THEN Put(w, "OK") ELSE w
           failed == [first EXCEPT !.con.mem_write_error = TRUE]
<1>1. first \in Worlds
  BY PutWorld, FieldWorlds, OutgoingPackets
<1> HIDE DEF first
<1>2. failed \in Worlds
  BY <1>1, FieldWorlds
<1> HIDE DEF failed
<1>3. \E u \in {first, failed} : r = Good(IF p = "X" THEN u ELSE ClearError(Put(u, "OK")))
  BY DEF WriteBinary, failed, first
<1>4. \A u \in {first, failed} : u \in Worlds /\ ClearError(Put(u, "OK")) \in Worlds
  BY <1>1, <1>2, PutWorld, FieldWorlds, OutgoingPackets
<1> QED BY <1>3, <1>4, OutcomeOf

LEMMA FileioTypes ==
  ASSUME NEW w \in Worlds, NEW r \in Fileio(w) PROVE Outcome(r)
<1> DEFINE running == Forward(FrontendRuns(w))
           ended   == [running EXCEPT !.tgt.hit = "none"]
<1>1. running \in Worlds
  BY FlagWorlds
<1> HIDE DEF running
<1>2. ended \in Worlds
  BY <1>1, FieldWorlds
<1> HIDE DEF ended
<1>3. \/ r = Good(running)
      \/ \E q \in Resume(ended) \cup TargetStep(ended) \cup {Bad(ended)} : r = Good(q.w)
  BY DEF Fileio, ended, running
<1>4. \A q \in Resume(ended) \cup TargetStep(ended) \cup {Bad(ended)} : q.w \in Worlds
  BY <1>2, ResumeTypes, TargetStepTypes, OutcomeOf DEF Outcome
<1> QED BY <1>1, <1>3, <1>4, OutcomeOf

LEMMA HandleTypes ==
  ASSUME NEW w \in Worlds, NEW p \in Requests \cup {"F", "intr"}, NEW r \in Handle(p, w)
  PROVE  Outcome(r)
<1>1. CASE p \in {"c", "s"}
  BY <1>1, StepOrContinueTypes DEF Handle
<1>2. CASE p = "vCont;c"
  BY <1>2, VContCTypes DEF Handle
<1>3. CASE p = "vCont;s"
  BY <1>3, VContSTypes DEF Handle
<1>4. CASE p \in {"X", "x"}
  BY <1>4, WriteBinaryTypes DEF Handle
<1>5. CASE p = "F"
  BY <1>5, FileioTypes DEF Handle
<1>6. CASE p = "gdb_sync"
  <2>1. [w EXCEPT !.con.sync = TRUE] \in Worlds
    BY FieldWorlds
  <2>2. Put([w EXCEPT !.con.sync = TRUE], "OK") \in Worlds
    BY <2>1, PutWorld, OutgoingPackets
  <2> QED BY <1>6, <2>2, OutcomeOf DEF Handle
<1>7. CASE p = "other"
  BY <1>7, PutWorld, OutgoingPackets, OutcomeOf DEF Handle
<1>8. CASE p = "intr"
  BY <1>8, FieldWorlds, OutcomeOf DEF Handle
<1> QED BY <1>1, <1>2, <1>3, <1>4, <1>5, <1>6, <1>7, <1>8 DEF Requests

LEMMA WorldType == TypeOK => World \in Worlds
BY DEF TypeOK, World, Worlds, Incoming, Outgoing

LEMMA BecomeTypes ==
  ASSUME TypeOK, NEW w \in Worlds, Become(w), UNCHANGED <<gdb, asked>>
  PROVE  TypeOK'
BY DEF TypeOK, Become, Worlds, Incoming, Outgoing

\* What Input reads: a packet, and the world without it.
LEMMA ReadWorld ==
  ASSUME NEW w \in Worlds, w.in # <<>>
  PROVE  LET v == [w EXCEPT !.in = Tail(@)]
         IN  /\ v \in Worlds /\ v.con = w.con /\ v.tgt = w.tgt /\ v.out = w.out /\ v.in = Tail(w.in)
             /\ Head(w.in) \in Incoming
<1>1. w.in \in Seq(Incoming) /\ w.in # <<>>
  BY DEF Worlds
<1>2. Tail(w.in) \in Seq(Incoming) /\ Head(w.in) \in Incoming
  BY <1>1
<1> QED BY <1>2 DEF Worlds

LEMMA InputTypes == ASSUME TypeOK, Input PROVE TypeOK'
<1> DEFINE read == [World EXCEPT !.in = Tail(@)]
           p == Head(toServer)
<1>1. World \in Worlds /\ World.in = toServer
  BY WorldType DEF World
<1>2. read \in Worlds /\ p \in Requests \cup {"F", "intr"}
  BY <1>1, ReadWorld DEF Input, Incoming
<1>3. PICK r \in Handle(p, read) : \E w \in (IF r.ok THEN CtrlC(r.w) ELSE {r.w}) : Become(w)
  BY DEF Input
<1> HIDE DEF read, p
<1>4. Outcome(r)
  BY <1>2, <1>3, HandleTypes
<1>5. PICK w \in (IF r.ok THEN CtrlC(r.w) ELSE {r.w}) : Become(w)
  BY <1>3
<1>6. w \in Worlds
  BY <1>4, <1>5, CtrlCTypes DEF Outcome
<1> QED BY <1>5, <1>6, BecomeTypes DEF Input

LEMMA PollTypes == ASSUME TypeOK, Poll PROVE TypeOK'
<1>1. PICK r \in TargetPoll(World) : \E w \in (IF r.ok THEN {r.w} ELSE FrontendHalted(r.w)) : Become(w)
  BY DEF Poll
<1>2. PICK w \in (IF r.ok THEN {r.w} ELSE FrontendHalted(r.w)) : Become(w)
  BY <1>1
<1>3. Outcome(r)
  BY <1>1, WorldType, TargetPollTypes
<1>4. w \in Worlds
  BY <1>2, <1>3, FrontendHaltedTypes DEF Outcome
<1> QED BY <1>2, <1>4, BecomeTypes DEF Poll

LEMMA CommandTypes == ASSUME TypeOK, HaltCommand \/ ResumeCommand PROVE TypeOK'
<1>1. World \in Worlds
  BY WorldType
<1>2. CASE HaltCommand
  <2>1. PICK h \in TargetHalt(World) :
          Become(h.w) \/ (h.ok /\ \E r \in TargetPoll(h.w) : Become(r.w))
    BY <1>2 DEF HaltCommand
  <2>2. Outcome(h)
    BY <1>1, <2>1, TargetHaltTypes
  <2>3. \A r \in TargetPoll(h.w) : r.w \in Worlds
    BY <2>2, TargetPollTypes DEF Outcome
  <2> QED BY <1>2, <2>1, <2>2, <2>3, BecomeTypes DEF HaltCommand, Outcome
<1>3. CASE ResumeCommand
  BY <1>1, <1>3, ResumeTypes, BecomeTypes DEF ResumeCommand
<1> QED BY <1>2, <1>3

LEMMA LogTypes == ASSUME TypeOK, LogCallback PROVE TypeOK'
<1>1. Put(World, "O") \in Worlds
  BY WorldType, PutWorld, OutgoingPackets
<1> QED BY <1>1, BecomeTypes DEF LogCallback

LEMMA ConnectionTypes == ASSUME TypeOK, Closed \/ NewConnection PROVE TypeOK'
<1>1. CASE Closed
  <2>1. con' \in Connections
    BY <1>1 DEF TypeOK, Closed, NoConnection, Connections
  <2> QED BY <1>1, <2>1 DEF TypeOK, Closed
<1>2. CASE NewConnection
  <2>1. con' \in Connections
    BY <1>2 DEF TypeOK, NewConnection, Connections
  <2> QED BY <1>2, <2>1 DEF TypeOK, NewConnection
<1> QED BY <1>1, <1>2

LEMMA CpuTypes == ASSUME TypeOK, CpuHalts PROVE TypeOK'
<1>1. PICK why \in env.stops : tgt' = [tgt EXCEPT !.cpu = "halted", !.at = why]
  BY DEF CpuHalts
<1>2. why \in {"code", "call", "exit"}
  BY <1>1, EnvironmentsAssumption DEF TypeOK, Switches
<1>3. tgt' \in Targets
  BY <1>1, <1>2 DEF TypeOK, Targets
<1> QED BY <1>3 DEF TypeOK, CpuHalts

LEMMA AppendTypes ==
  ASSUME TypeOK, NEW x \in Incoming PROVE Append(toServer, x) \in Seq(Incoming)
BY DEF TypeOK, Incoming

LEMMA ClientTypes == ASSUME TypeOK, Client PROVE TypeOK'
<1>1. CASE GdbRequest
  <2>1. PICK p \in env.packets :
          toServer' = Append(toServer, p) /\ gdb' = IF p \in Resuming THEN "run" ELSE "reply"
    BY <1>1 DEF GdbRequest
  <2>2. p \in Requests
    BY <2>1, EnvironmentsAssumption DEF TypeOK, Switches
  <2>3. toServer' \in Seq(Incoming)
    BY <2>1, <2>2, AppendTypes DEF Incoming
  <2>4. gdb' \in {"run", "reply"}
    BY <2>1
  <2> QED BY <1>1, <2>3, <2>4 DEF TypeOK, GdbRequest, Incoming
<1>2. CASE GdbInterrupt \/ GdbFileio \/ GdbLeaves
  <2>1. PICK x \in {"intr", "F", "eof"} : toServer' = Append(toServer, x)
    BY <1>2 DEF GdbInterrupt, GdbFileio, GdbLeaves
  <2>2. toServer' \in Seq(Incoming)
    BY <2>1, AppendTypes DEF Incoming
  <2>3. gdb' \in {gdb, "run", "off"} /\ asked' \in BOOLEAN /\ UNCHANGED <<env, toGdb, con, tgt>>
    BY <1>2 DEF GdbInterrupt, GdbFileio, GdbLeaves
  <2> QED BY <2>2, <2>3 DEF TypeOK, Incoming
<1>3. CASE GdbReceive
  <2>1. gdb' \in {gdb, "syscall", "exited", "idle"} /\ toGdb' = Tail(toGdb) /\ toGdb # <<>>
    BY <1>3 DEF GdbReceive
  <2> QED BY <1>3, <2>1 DEF TypeOK, GdbReceive
<1> QED BY <1>1, <1>2, <1>3 DEF Client

LEMMA NextTypes == TypeOK /\ [Next]_vars => TypeOK'
<1> SUFFICES ASSUME TypeOK, [Next]_vars PROVE TypeOK'
  OBVIOUS
<1>1. CASE UNCHANGED vars
  BY <1>1 DEF TypeOK, vars
<1> QED
  BY <1>1, InputTypes, PollTypes, CommandTypes, LogTypes, ConnectionTypes, CpuTypes, ClientTypes
  DEF Next, Server

\* Every variable keeps its type, whatever the session meets: a handler never leaves a
\* channel with a packet the protocol does not have, nor a poll count beyond its limit.
THEOREM TypeCorrect == Spec => []TypeOK
<1>1. Init => TypeOK
  <2> SUFFICES ASSUME Init PROVE TypeOK
    OBVIOUS
  <2>1. con \in Connections
    BY DEF Init, NoConnection, Connections
  <2>2. tgt \in Targets
    BY BoundsAssumption DEF Init, Targets
  <2>3. toServer \in Seq(Requests \cup {"F", "intr", "eof"}) /\ toGdb \in Seq(StopReplies \cup {"OK", "O"})
    BY DEF Init
  <2> QED BY <2>1, <2>2, <2>3 DEF Init, TypeOK
<1> QED BY <1>1, NextTypes, PTL DEF Spec

-----------------------------------------------------------------------------
(* Packets: what a handler makes of one from a GDB that waits for its answer only. *)

\* Nothing is owed and nothing is on its way to GDB.
Silent(w) == ~Running(w) /\ ~w.con.forward /\ w.out = <<>> /\ ~Pending(w.in)

\* GDB is left waiting for a stop reply.
Started(w, v) ==
  /\ v \in Worlds /\ Running(v) /\ v.con.open = w.con.open
  /\ v.con.mem_write_error => w.con.mem_write_error
  /\ v.con.running_type = "none" => w.con.running_type = "none"
  /\ v.in = w.in /\ v.out = w.out /\ Moved(w, v)

\* A handler that resumes the target does not take a halted one for running.
Sure(p, w) ==
  /\ p # "vCont;c"
  /\ p \in {"vCont;s", "F"} => ~env.linkFails /\ w.tgt.state # "unknown"
  /\ p = "F" => w.con.running_type # "none"

Stop(w, v) == \/ v.out = <<"T">>
              \/ v.out = <<"F">> /\ "call" \in {w.tgt.hit, w.tgt.at}

Answered(p, w, v) ==
  /\ v \in Worlds /\ v.con.open = w.con.open /\ Alike(w.in, v.in) /\ Moved(w, v)
  /\ v.con.mem_write_error =>
       p \notin {"c", "s"} /\ (w.con.mem_write_error \/ (env.linkFails /\ p = "X"))
  /\ v.con.running_type = "none" => w.con.running_type = "none"
  /\ p \in Resuming \cup {"F"} =>
       \/ Running(v) /\ v.out = <<>>
       \/ ~Running(v) /\ ~v.con.forward /\ Stop(w, v)
  /\ p \notin Resuming \cup {"F"} => ~Running(v) /\ ~v.con.forward /\ v.out = <<"OK">>
  /\ Sure(p, w) => Watched(v)
  /\ p # "F" /\ Fresh(w) /\ ~env.linkFails => Fresh(v)

LEMMA MovedTransitive ==
  ASSUME NEW u \in Worlds, NEW v \in Worlds, NEW w \in Worlds, Moved(u, v), Moved(v, w)
  PROVE  Moved(u, w)
<1>1. w.tgt.hit # "code"
  BY DEF Worlds, Targets
<1> QED BY <1>1 DEF Moved

LEMMA MovedReflexive == ASSUME NEW w PROVE Moved(w, w)
BY DEF Moved

LEMMA PassiveFresh ==
  ASSUME NEW w \in Worlds, NEW v, Passive(w, v), ~env.linkFails, Fresh(w) PROVE Fresh(v)
<1> SUFFICES ASSUME v.con.running_type = "none"
             PROVE  /\ ~Running(v) /\ v.tgt.state = "halted" /\ v.tgt.cpu = "halted" /\ v.tgt.hit = "none"
                    /\ ~Has(v.in, "F") /\ ~Has(v.out, "F")
  BY DEF Fresh
<1>1. w.con.running_type = "none"
  BY DEF Passive, Kept
<1>2. Untold(w, v)
  BY <1>1 DEF Passive, Reported, Fresh
<1>3. ~Has(v.in, "F") /\ ~Has(v.out, "F")
  BY <1>1, <1>2 DEF Untold, Alike, Fresh, Incoming
<1> QED BY <1>1, <1>2, <1>3 DEF Passive, Resting, Fresh, Untold, Running

\* What happens after the handler does not take the answer back.
LEMMA AnsweredPassive ==
  ASSUME NEW p \in Owing, NEW w \in Worlds, NEW u, NEW v, NoExit(w), Answered(p, w, u), Passive(u, v),
         Watched(u) => Watched(v)
  PROVE  Answered(p, w, v)
<1>1. /\ u \in Worlds /\ v \in Worlds /\ v.con.open = w.con.open /\ Kept(u, v)
      /\ v.con.mem_write_error = u.con.mem_write_error
      /\ v.con.running_type = "none" => w.con.running_type = "none"
  BY DEF Answered, Passive, Kept
<1>2. Alike(w.in, v.in)
  <2>1. Alike(w.in, u.in) /\ Alike(u.in, v.in)
    BY DEF Answered, Passive, Reported, Untold
  <2> QED BY <2>1, AlikeTransitive
<1>3. Moved(w, v)
  BY <1>1, MovedTransitive DEF Answered, Passive
<1>4. ASSUME p \in Resuming \cup {"F"}
      PROVE  (Running(v) /\ v.out = <<>>) \/ (~Running(v) /\ ~v.con.forward /\ Stop(w, v))
  <2>1. CASE Untold(u, v)
    BY <1>4, <2>1 DEF Answered, Untold, Running, Stop
  <2>2. CASE Reported(u, v)
    <3>1. u.out = <<>>
      BY <1>4, <2>2 DEF Answered, Reported
    <3>2. v.out = <<"T">> \/ (v.out = <<"F">> /\ "call" \in {u.tgt.hit, u.tgt.at})
      BY <2>2, <3>1 DEF Reported
    <3>3. "call" \in {u.tgt.hit, u.tgt.at} => "call" \in {w.tgt.hit, w.tgt.at}
      BY DEF Answered, Moved
    <3> QED BY <2>2, <3>2, <3>3 DEF Reported, Stop
  <2> QED BY <2>1, <2>2 DEF Passive
<1>5. ASSUME p \notin Resuming \cup {"F"}
      PROVE  ~Running(v) /\ ~v.con.forward /\ v.out = <<"OK">>
  BY <1>5 DEF Answered, Passive, Reported, Untold, Running
<1>6. p # "F" /\ Fresh(w) /\ ~env.linkFails => Fresh(v)
  BY <1>1, PassiveFresh DEF Answered
<1> QED BY <1>1, <1>2, <1>3, <1>4, <1>5, <1>6 DEF Answered

LEMMA StartedAnswers ==
  ASSUME NEW p \in Resuming \cup {"F"}, NEW w \in Worlds, Silent(w), NoExit(w),
         NEW u, NEW v, Started(w, u), Passive(u, v),
         p \in {"c", "s"} => ~u.con.mem_write_error,
         Sure(p, w) => Watched(v),
         \/ p = "F" \/ u.con.running_type # "none"
         \/ u.con.running_type = w.con.running_type /\ w.tgt.state = "running"
  PROVE  Answered(p, w, v)
<1>1. /\ u \in Worlds /\ v \in Worlds /\ v.con.open = w.con.open /\ Kept(u, v)
      /\ v.con.mem_write_error => p \notin {"c", "s"} /\ w.con.mem_write_error
      /\ v.con.running_type = u.con.running_type
      /\ v.con.running_type = "none" => w.con.running_type = "none"
  BY DEF Started, Passive, Kept
<1>2. Alike(w.in, v.in)
  BY DEF Started, Passive, Reported, Untold
<1>3. Moved(w, v)
  BY <1>1, MovedTransitive DEF Started, Passive
<1>4. (Running(v) /\ v.out = <<>>) \/ (~Running(v) /\ ~v.con.forward /\ Stop(w, v))
  <2>1. u.out = <<>>
    BY DEF Started, Silent
  <2>2. CASE Untold(u, v)
    BY <2>1, <2>2 DEF Started, Untold, Running
  <2>3. CASE Reported(u, v)
    <3>1. v.out = <<"T">> \/ (v.out = <<"F">> /\ "call" \in {u.tgt.hit, u.tgt.at})
      BY <2>1, <2>3 DEF Reported
    <3>2. "call" \in {u.tgt.hit, u.tgt.at} => "call" \in {w.tgt.hit, w.tgt.at}
      BY DEF Started, Moved
    <3> QED BY <2>3, <3>1, <3>2 DEF Reported, Stop
  <2> QED BY <2>2, <2>3 DEF Passive
<1>5. p # "F" /\ Fresh(w) => Fresh(v)
  BY <1>1 DEF Fresh
<1> QED BY <1>1, <1>2, <1>3, <1>4, <1>5 DEF Answered

LEMMA LeaveStarted ==
  ASSUME NEW w \in Worlds, NEW u, Started(w, u), NoExit(w)
  PROVE  Started(w, Leave(u)) /\ Leave(u).con = u.con /\ Watched(Leave(u))
<1> DEFINE v == Leave(u)
<1>1. /\ v \in Worlds /\ v.con = u.con /\ v.in = u.in /\ v.out = u.out
      /\ v.tgt.state = "running" /\ v.tgt.cpu = "running" /\ v.tgt.at = "code"
      /\ v.tgt.hit = IF u.tgt.hit = "exit" THEN "none" ELSE u.tgt.hit
  BY LeaveWorld DEF Started
<1> HIDE DEF v
<1>2. Moved(w, v)
  BY <1>1 DEF Started, Moved
<1> QED BY <1>1, <1>2 DEF Started, Running, Watched, v

LEMMA StartedResumes ==
  ASSUME NEW w \in Worlds, NEW u, Started(w, u), NoExit(w), NEW r \in Resume(u)
  PROVE  /\ Started(w, r.w) /\ r.w.con = u.con /\ r.ok \in BOOLEAN
         /\ r.ok => Watched(r.w)
         /\ ~r.ok => r.w = u /\ (u.tgt.state # "halted" \/ env.linkFails)
<1>1. u \in Worlds
  BY DEF Started
<1>2. CASE r.ok = TRUE /\ r.w = Leave(u)
  BY <1>2, LeaveStarted
<1>3. CASE r.ok = FALSE /\ r.w = u /\ (u.tgt.state # "halted" \/ env.linkFails)
  BY <1>3
<1> QED BY <1>1, <1>2, <1>3, ResumeWorlds

LEMMA StartedSteps ==
  ASSUME NEW w \in Worlds, NEW u, Started(w, u), NoExit(w), NEW r \in TargetStep(u)
  PROVE  /\ r.ok \in BOOLEAN
         /\ \E x \in Worlds : Started(w, x) /\ x.con = u.con /\ Passive(x, r.w)
         /\ r.ok => Watched(r.w)
         /\ ~r.ok => /\ Started(w, r.w) /\ r.w.con = u.con
                     /\ u.tgt.state # "halted" \/ env.linkFails
<1> DEFINE x == [Leave(u) EXCEPT !.tgt.state = "halted", !.tgt.cpu = "halted"]
           y == [Leave(u) EXCEPT !.tgt.state = "unknown"]
<1>1. u \in Worlds
  BY DEF Started
<1>2. /\ x \in Worlds /\ x.con = u.con /\ x.in = u.in /\ x.out = u.out
      /\ x.tgt.state = "halted" /\ x.tgt.at = "code"
      /\ x.tgt.hit = IF u.tgt.hit = "exit" THEN "none" ELSE u.tgt.hit
  BY <1>1, SteppedWorld
<1>2a. /\ y \in Worlds /\ y.con = u.con /\ y.in = u.in /\ y.out = u.out
      /\ y.tgt.at = "code" /\ y.tgt.hit = IF u.tgt.hit = "exit" THEN "none" ELSE u.tgt.hit
  BY <1>1, LostWorld
<1>3. \/ \E v \in FrontendHalted(x) : r.ok = TRUE /\ r.w = v
      \/ r.ok = TRUE /\ r.w = Leave(u)
      \/ r.ok = FALSE /\ r.w = u /\ (u.tgt.state # "halted" \/ env.linkFails)
      \/ r.ok = FALSE /\ r.w \in {x, y} /\ env.linkFails
  BY <1>1, TargetStepWorlds
<1> HIDE DEF x, y
<1>4. Started(w, x)
  <2>1. Moved(w, x)
    BY <1>2 DEF Started, Moved
  <2> QED BY <1>2, <2>1 DEF Started, Running
<1>5. NoExit(x)
  BY <1>4 DEF Started, Moved, NoExit
<1>6. CASE \E v \in FrontendHalted(x) : r.ok = TRUE /\ r.w = v
  BY <1>2, <1>4, <1>5, <1>6, FrontendHaltedPassive DEF Watched
<1>7. CASE r.ok = TRUE /\ r.w = Leave(u)
  <2>1. Started(w, Leave(u)) /\ Leave(u).con = u.con /\ Watched(Leave(u)) /\ Leave(u) \in Worlds
    BY LeaveStarted DEF Started
  <2> QED BY <1>7, <2>1, PassiveReflexive
<1>8. CASE r.ok = FALSE /\ r.w = u /\ (u.tgt.state # "halted" \/ env.linkFails)
  BY <1>1, <1>8, PassiveReflexive
<1>9. CASE r.ok = FALSE /\ r.w \in {x, y} /\ env.linkFails
  <2>1. Started(w, y)
    <3>1. Moved(w, y)
      BY <1>2a, <1>9 DEF Started, Moved
    <3> QED BY <1>2a, <3>1 DEF Started, Running
  <2>2. r.w \in Worlds /\ Started(w, r.w) /\ r.w.con = u.con
    BY <1>2, <1>4, <1>2a, <1>9, <2>1
  <2> QED BY <1>9, <2>2, PassiveReflexive
<1> QED BY <1>3, <1>6, <1>7, <1>8, <1>9

\* An answer that is sent at once.
LEMMA ToldAnswers ==
  ASSUME NEW p \in Owing, NEW w \in Worlds, Silent(w), NEW u \in Worlds, NEW v \in Worlds,
         u.con.open = w.con.open, u.in = w.in, u.out = w.out, Moved(w, u),
         v.con.mem_write_error =>
           p \notin {"c", "s"} /\ (w.con.mem_write_error \/ (env.linkFails /\ p = "X")),
         v.tgt = u.tgt, Alike(u.in, v.in), ~Running(v), ~v.con.forward,
         v.con.open = u.con.open, v.con.running_type = u.con.running_type,
         v.out = Append(u.out, IF p \in Resuming \cup {"F"} THEN "T" ELSE "OK"),
         u.con.running_type = "none" => w.con.running_type = "none" /\ (u.tgt = w.tgt \/ p = "F")
  PROVE  Answered(p, w, v)
<1>1. /\ p \in Resuming \cup {"F"} => v.out = <<"T">>
      /\ p \notin Resuming \cup {"F"} => v.out = <<"OK">>
  BY DEF Silent
<1>2. p # "F" /\ Fresh(w) => Fresh(v)
  <2> SUFFICES ASSUME p # "F", Fresh(w), v.con.running_type = "none" PROVE Fresh(v)
    BY DEF Fresh
  <2>1. ~Has(v.in, "F")
    BY DEF Alike, Fresh, Incoming
  <2>2. ~Has(v.out, "F")
    <3>1. CASE p \in Resuming \cup {"F"}
      BY <1>1, <3>1 DEF Has
    <3>2. CASE p \notin Resuming \cup {"F"}
      BY <1>1, <3>2 DEF Has
    <3> QED BY <3>1, <3>2
  <2> QED BY <2>1, <2>2 DEF Fresh
<1>3. Moved(w, v)
  BY DEF Moved
<1> QED BY <1>1, <1>2, <1>3 DEF Answered, Stop, Watched

LEMMA StepOrContinueAnswers ==
  ASSUME NEW w \in Worlds, Silent(w), NoExit(w), NEW p \in {"c", "s"}, NEW r \in StepOrContinue(p, w)
  PROVE  Answered(p, w, r.w)
<1> DEFINE noted   == ClearError(Forward(w))
           synced  == [noted EXCEPT !.con.sync = FALSE]
           running == FrontendRuns(synced)
           typed   == SetType(p, running)
           moved   == IF p = "c" THEN Resume(typed) ELSE TargetStep(typed)
           told    == Unforward(Put(synced, "T"))
<1>1. /\ noted \in Worlds /\ noted.tgt = w.tgt /\ noted.in = w.in /\ noted.out = w.out
      /\ noted.con.open = w.con.open /\ ~noted.con.mem_write_error
      /\ noted.con.running_type = w.con.running_type
      /\ noted.con.frontend_state = w.con.frontend_state
  <2>1. noted \in Worlds
    BY FlagWorlds, FieldWorlds
  <2> QED BY <2>1 DEF ClearError, Forward, Worlds, Connections
<1> HIDE DEF noted
<1>2. /\ synced \in Worlds /\ synced.tgt = w.tgt /\ synced.in = w.in /\ synced.out = w.out
      /\ synced.con.open = w.con.open /\ ~synced.con.mem_write_error
      /\ synced.con.running_type = w.con.running_type
      /\ synced.con.frontend_state = w.con.frontend_state
  BY <1>1, FieldWorlds, ZenonT(30) DEF Worlds, Connections
<1> HIDE DEF synced
<1>3. /\ running \in Worlds /\ running.tgt = w.tgt /\ running.in = w.in /\ running.out = w.out
      /\ running.con.open = w.con.open /\ ~running.con.mem_write_error
      /\ running.con.running_type = w.con.running_type /\ Running(running)
  BY <1>2, FlagWorlds DEF Worlds, Connections, FrontendRuns, Running
<1> HIDE DEF running
<1>4. /\ typed \in Worlds /\ typed.tgt = w.tgt /\ typed.in = w.in /\ typed.out = w.out
      /\ typed.con.open = w.con.open /\ ~typed.con.mem_write_error
      /\ typed.con.running_type = p /\ Running(typed)
  <2>1. typed \in Worlds
    BY <1>3, FieldWorlds
  <2>2. typed = [running EXCEPT !.con = [@ EXCEPT !.running_type = p]]
    BY Zenon DEF SetType
  <2>3. running \in [con : Connections, tgt : Targets, in : Seq(Incoming), out : Seq(Outgoing)]
    BY <1>3 DEF Worlds
  <2>4. /\ typed.tgt = running.tgt /\ typed.in = running.in /\ typed.out = running.out
        /\ typed.con = [running.con EXCEPT !.running_type = p]
    <3> HIDE DEF typed
    <3> QED BY <2>2, <2>3
  <2> HIDE DEF typed
  <2>5. /\ typed.con.open = running.con.open /\ typed.con.running_type = p
        /\ typed.con.mem_write_error = running.con.mem_write_error
        /\ typed.con.frontend_state = running.con.frontend_state
    BY <2>3, <2>4 DEF Connections
  <2> QED BY <1>3, <2>1, <2>4, <2>5 DEF Running
<1> HIDE DEF typed
<1>5. Started(w, running) /\ Started(w, typed) /\ p \in Resuming \cup {"F"} /\ p \in Owing
  BY <1>3, <1>4 DEF Started, Moved, Resuming, Owing, Requests
<1>6. CASE r = Good(told)
  <2> DEFINE x == Put(synced, "T")
  <2>1. /\ x \in Worlds /\ x.tgt = synced.tgt /\ x.out = Append(synced.out, "T") /\ Alike(synced.in, x.in)
        /\ Kept(synced, x) /\ x.con.frontend_state = synced.con.frontend_state
    BY <1>2, PutWorld, OutgoingPackets
  <2> HIDE DEF x
  <2>2. /\ told \in Worlds /\ told.tgt = x.tgt /\ told.out = x.out /\ told.in = x.in /\ Kept(x, told)
        /\ told.con.frontend_state = x.con.frontend_state /\ ~told.con.forward
    <3>1. told = Unforward(x)
      BY DEF x
    <3> QED BY <2>1, <3>1, UnforwardWorld
  <2> HIDE DEF told
  <2>3. ~Running(told) /\ ~told.con.mem_write_error /\ Moved(w, synced)
    BY <1>2, <2>1, <2>2 DEF Silent, Running, Kept, Moved
  <2>4. told.con.open = synced.con.open /\ told.con.running_type = synced.con.running_type
    BY <2>1, <2>2 DEF Kept
  <2>5. Answered(p, w, told)
    BY <1>2, <1>5, <2>1, <2>2, <2>3, <2>4, ToldAnswers
  <2> QED BY <1>6, <2>5 DEF Good
<1>7. CASE r = Good(running) /\ w.tgt.state = "running"
  <2>1. Passive(running, running) /\ Watched(running)
    BY <1>3, <1>7, PassiveReflexive DEF Watched
  <2>2. Answered(p, w, running)
    BY <1>3, <1>5, <1>7, <2>1, StartedAnswers
  <2> QED BY <1>7, <2>2 DEF Good
<1>8. ASSUME NEW q \in moved
      PROVE  \/ q.ok = TRUE /\ Answered(p, w, q.w)
             \/ q.ok = FALSE /\ Started(w, q.w) /\ q.w.con = typed.con
  <2>1. /\ q.ok \in BOOLEAN /\ (q.ok => Watched(q.w))
        /\ ~q.ok => Started(w, q.w) /\ q.w.con = typed.con
        /\ \E x \in Worlds : Started(w, x) /\ x.con = typed.con /\ Passive(x, q.w)
    <3>1. CASE p = "c"
      <4>1. q \in Resume(typed)
        BY <1>8, <3>1
      <4>2. /\ Started(w, q.w) /\ q.w.con = typed.con /\ q.ok \in BOOLEAN
            /\ (q.ok => Watched(q.w)) /\ (~q.ok => q.w = typed)
        BY <1>5, <4>1, StartedResumes
      <4>3. q.w \in Worlds /\ Passive(q.w, q.w)
        BY <4>2, PassiveReflexive DEF Started
      <4> QED BY <4>2, <4>3
    <3>2. CASE p = "s"
      <4>1. q \in TargetStep(typed)
        BY <1>8, <3>2
      <4> QED BY <1>5, <4>1, StartedSteps
    <3> QED BY <3>1, <3>2
  <2>2. PICK x \in Worlds : Started(w, x) /\ x.con = typed.con /\ Passive(x, q.w)
    BY <2>1
  <2>3. ~x.con.mem_write_error /\ x.con.running_type # "none"
    BY <1>4, <2>2
  <2>4. q.ok => Answered(p, w, q.w)
    BY <1>5, <2>1, <2>2, <2>3, StartedAnswers
  <2> QED BY <2>1, <2>4
<1>9. CASE r \in moved /\ r.ok = TRUE
  BY <1>8, <1>9
<1>10. CASE \E q \in moved : q.ok = FALSE /\ \E u \in FrontendHalted(q.w) : r = Bad(u)
  <2>1. PICK q \in moved : q.ok = FALSE /\ \E u \in FrontendHalted(q.w) : r = Bad(u)
    BY <1>10
  <2>2. PICK u \in FrontendHalted(q.w) : r = Bad(u)
    BY <2>1
  <2> DEFINE x == q.w
  <2>3. /\ Started(w, x) /\ x \in Worlds /\ Running(x)
        /\ ~x.con.mem_write_error /\ x.con.running_type # "none"
    BY <1>4, <1>8, <2>1 DEF Started
  <2> HIDE DEF x
  <2>4. NoExit(x)
    BY <2>3 DEF Started, Moved, NoExit
  <2>5. Passive(x, u) /\ ~Running(u)
    BY <2>2, <2>3, <2>4, FrontendHaltedPassive DEF x
  <2>6. Answered(p, w, u)
    BY <1>5, <2>3, <2>5, StartedAnswers DEF Watched
  <2> QED BY <2>2, <2>6 DEF Bad
<1>11. \A q \in moved : q.ok \in BOOLEAN
  BY <1>8
<1>12. \/ r = Good(told) \/ (r = Good(running) /\ w.tgt.state = "running")
       \/ \E q \in moved : r \in IF q.ok THEN {q} ELSE {Bad(u) : u \in FrontendHalted(q.w)}
  BY DEF StepOrContinue, told, moved, typed, running, synced, noted
<1> QED BY <1>6, <1>7, <1>9, <1>10, <1>11, <1>12

LEMMA VContSAnswers ==
  ASSUME NEW w \in Worlds, Silent(w), NoExit(w), NEW r \in VContS(w)
  PROVE  Answered("vCont;s", w, r.w)
<1> DEFINE p      == "vCont;s"
           typed  == Forward(SetType("s", w))
           synced == [typed EXCEPT !.con.sync = FALSE]
           told   == Unforward(Put(synced, "T"))
<1>1. /\ typed \in Worlds /\ typed.tgt = w.tgt /\ typed.in = w.in /\ typed.out = w.out
      /\ typed.con.open = w.con.open /\ typed.con.mem_write_error = w.con.mem_write_error
      /\ typed.con.running_type = "s" /\ ~Running(typed)
  <2>1. typed \in Worlds
    BY FlagWorlds, FieldWorlds
  <2> QED BY <2>1 DEF SetType, Forward, Worlds, Connections, Silent, Running
<1> HIDE DEF typed
<1>2. /\ synced \in Worlds /\ synced.tgt = w.tgt /\ synced.in = w.in /\ synced.out = w.out
      /\ synced.con.open = w.con.open /\ synced.con.mem_write_error = w.con.mem_write_error
      /\ synced.con.running_type = "s" /\ ~Running(synced)
  <2>1. synced \in Worlds
    BY <1>1, FieldWorlds
  <2> QED BY <1>1, <2>1 DEF Worlds, Connections, Running
<1> HIDE DEF synced
<1>3. p \in Resuming \cup {"F"} /\ p \in Owing /\ Moved(w, synced) /\ Moved(w, typed) /\ NoExit(typed)
  BY <1>1, <1>2 DEF Resuming, Owing, Requests, Moved, NoExit
<1>4. CASE r = Good(told)
  <2> DEFINE x == Put(synced, "T")
  <2>1. /\ x \in Worlds /\ x.tgt = synced.tgt /\ x.out = Append(synced.out, "T") /\ Alike(synced.in, x.in)
        /\ Kept(synced, x) /\ x.con.frontend_state = synced.con.frontend_state
    BY <1>2, PutWorld, OutgoingPackets
  <2> HIDE DEF x
  <2>2. /\ told \in Worlds /\ told.tgt = x.tgt /\ told.out = x.out /\ told.in = x.in /\ Kept(x, told)
        /\ told.con.frontend_state = x.con.frontend_state /\ ~told.con.forward
    <3>1. told = Unforward(x)
      BY DEF x
    <3> QED BY <2>1, <3>1, UnforwardWorld
  <2> HIDE DEF told
  <2>3. ~Running(told) /\ (told.con.mem_write_error => w.con.mem_write_error)
    BY <1>2, <2>1, <2>2 DEF Running, Kept
  <2>4. told.con.open = synced.con.open /\ told.con.running_type = synced.con.running_type
    BY <2>1, <2>2 DEF Kept
  <2>5. Answered(p, w, told)
    BY <1>2, <1>3, <2>1, <2>2, <2>3, <2>4, ToldAnswers
  <2> QED BY <1>4, <2>5 DEF Good
\* The target runs already.
<1>5. ASSUME NEW u \in Worlds, u.con = synced.con \/ u.con = typed.con,
             u.in = w.in, u.out = w.out, Moved(w, u),
             Sure(p, w) => u.tgt.state = "running", r = Good(FrontendRuns(u))
      PROVE  Answered(p, w, r.w)
  <2> DEFINE x == FrontendRuns(u)
  <2>1. /\ x \in Worlds /\ x.tgt = u.tgt /\ x.in = w.in /\ x.out = w.out /\ Running(x)
        /\ x.con.open = w.con.open /\ x.con.mem_write_error = w.con.mem_write_error
        /\ x.con.running_type = "s"
    <3>1. /\ u.in = w.in /\ u.out = w.out
          /\ u.con.open = w.con.open /\ u.con.mem_write_error = w.con.mem_write_error
          /\ u.con.running_type = "s"
      BY <1>1, <1>2, <1>5
    <3>2. x \in Worlds
      BY <1>5, FlagWorlds
    <3> HIDE <1>5
    <3> QED BY <3>1, <3>2 DEF FrontendRuns, Worlds, Connections, Running
  <2> HIDE DEF x
  <2>2. Started(w, x) /\ Passive(x, x)
    BY <1>5, <2>1, PassiveReflexive DEF Started, Moved
  <2>3. Answered(p, w, x)
    BY <1>3, <1>5, <2>1, <2>2, StartedAnswers DEF Watched
  <2> QED BY <1>5, <2>3 DEF Good, x
\* The step failed, or it was taken.
<1>6. ASSUME NEW x \in TargetStep(typed)
      PROVE  /\ x.ok \in BOOLEAN
             /\ ~x.ok => \/ x.w = typed /\ w.tgt.state # "halted"
                         \/ env.linkFails
             /\ x.w \in Worlds /\ x.w.con = typed.con /\ x.w.in = w.in /\ x.w.out = w.out
             /\ Moved(w, x.w)
  <2> DEFINE stepped == [Leave(typed) EXCEPT !.tgt.state = "halted", !.tgt.cpu = "halted"]
             ran == Leave(typed)
             lost == [Leave(typed) EXCEPT !.tgt.state = "unknown"]
  <2>1. \/ \E u \in FrontendHalted(stepped) : x.ok = TRUE /\ x.w = u
        \/ x.ok = TRUE /\ x.w = ran
        \/ x.ok = FALSE /\ x.w = typed /\ (typed.tgt.state # "halted" \/ env.linkFails)
        \/ x.ok = FALSE /\ x.w \in {stepped, lost} /\ env.linkFails
    BY <1>1, TargetStepWorlds
  <2>2. /\ stepped \in Worlds /\ stepped.con = typed.con /\ stepped.in = typed.in /\ stepped.out = typed.out
        /\ Moved(w, stepped)
    BY <1>1, SteppedWorld DEF Moved
  <2>3. ran \in Worlds /\ ran.con = typed.con /\ ran.in = typed.in /\ ran.out = typed.out /\ Moved(w, ran)
    BY <1>1, LeaveWorld DEF Moved
  <2>3a. CASE x.w = lost /\ x.ok = FALSE /\ env.linkFails
    <3>1. /\ lost \in Worlds /\ lost.con = typed.con /\ lost.in = typed.in /\ lost.out = typed.out
          /\ Moved(w, lost)
      BY <1>1, <2>3a, LostWorld DEF Moved
    <3> HIDE DEF lost
    <3> QED BY <1>1, <2>3a, <3>1
  <2> HIDE DEF stepped, ran, lost
  <2>4. FrontendHalted(stepped) = {stepped}
    BY <1>1, <2>2 DEF FrontendHalted, Running
  <2>5. Moved(w, typed)
    BY <1>3
  <2> QED BY <1>1, <2>1, <2>2, <2>3, <2>3a, <2>4, <2>5
<1>7. CASE \E x \in TargetStep(typed) : x.ok = FALSE /\ r = Good(FrontendRuns(x.w))
  <2>1. PICK x \in TargetStep(typed) : x.ok = FALSE /\ r = Good(FrontendRuns(x.w))
    BY <1>7
  <2> DEFINE u == x.w
  <2>2. /\ u \in Worlds /\ u.con = typed.con /\ u.in = w.in /\ u.out = w.out /\ Moved(w, u)
        /\ (u = typed /\ w.tgt.state # "halted") \/ env.linkFails
    BY <1>6, <2>1
  <2> HIDE DEF u
  <2>3. Sure(p, w) => u.tgt.state = "running"
    BY <1>1, <2>2 DEF Sure, Worlds, Targets
  <2>4. r = Good(FrontendRuns(u))
    BY <2>1 DEF u
  <2> QED BY <1>5, <2>2, <2>3, <2>4
<1>8. CASE \E x \in TargetStep(typed) : x.ok = TRUE /\ \E q \in TargetPoll(x.w) : r = Good(Unforward(SignalReply(q.w)))
  <2>1. PICK x \in TargetStep(typed) : x.ok = TRUE /\ \E q \in TargetPoll(x.w) : r = Good(Unforward(SignalReply(q.w)))
    BY <1>8
  <2>2. PICK q \in TargetPoll(x.w) : r = Good(Unforward(SignalReply(q.w)))
    BY <2>1
  <2>3. x.w \in Worlds /\ x.w.con = typed.con /\ x.w.in = w.in /\ x.w.out = w.out /\ Moved(w, x.w) /\ NoExit(x.w)
    BY <1>6, <2>1 DEF Moved, NoExit
  <2>4. Passive(x.w, q.w) /\ q.w \in Worlds
    BY <2>3, TargetPollPassive DEF Passive
  <2>5. Untold(x.w, q.w) /\ Kept(x.w, q.w)
    BY <1>1, <2>3, <2>4 DEF Passive, Reported, Running
  <2> DEFINE u == SignalReply(q.w)
             v == Unforward(u)
  <2>6. /\ u \in Worlds /\ u.tgt = q.w.tgt /\ u.out = Append(q.w.out, "T") /\ Alike(q.w.in, u.in)
        /\ Kept(q.w, u) /\ u.con.frontend_state = "halted"
    BY <2>4, SignalReplyWorld
  <2> HIDE DEF u
  <2>7. /\ v \in Worlds /\ v.tgt = u.tgt /\ v.out = u.out /\ v.in = u.in /\ Kept(u, v)
        /\ v.con.frontend_state = u.con.frontend_state /\ ~v.con.forward
    BY <2>6, UnforwardWorld
  <2> HIDE DEF v
  <2>8. /\ v.con.open = w.con.open /\ v.con.mem_write_error = w.con.mem_write_error
        /\ v.con.running_type = "s"
    BY <1>1, <2>3, <2>5, <2>6, <2>7 DEF Kept
  <2>9. Moved(w, v)
    <3>1. Moved(x.w, q.w)
      BY <2>4 DEF Passive
    <3>2. Moved(w, q.w)
      BY <2>3, <2>4, <3>1, MovedTransitive
    <3> QED BY <2>6, <2>7, <3>2 DEF Moved
  <2>10. Alike(w.in, v.in)
    <3>1. Alike(w.in, q.w.in) /\ Alike(q.w.in, v.in)
      BY <2>3, <2>5, <2>6, <2>7 DEF Untold
    <3> QED BY <3>1, AlikeTransitive
  <2>11. v.out = <<"T">> /\ ~Running(v)
    BY <2>3, <2>5, <2>6, <2>7 DEF Untold, Silent, Running
  <2>12. Answered(p, w, v)
    BY <1>3, <2>7, <2>8, <2>9, <2>10, <2>11 DEF Answered, Stop, Watched, Fresh
  <2> QED BY <2>2, <2>12 DEF Good, v, u
<1>9. \/ r = Good(told) \/ (r = Good(FrontendRuns(synced)) /\ w.tgt.state # "halted")
      \/ \E x \in TargetStep(typed) :
           \/ ~x.ok /\ r = Good(FrontendRuns(x.w))
           \/ x.ok /\ \E q \in TargetPoll(x.w) : r = Good(Unforward(SignalReply(q.w)))
  BY DEF VContS, told, synced, typed
<1>10. \A x \in TargetStep(typed) : x.ok \in BOOLEAN
  BY <1>1, TargetStepTypes DEF Outcome
<1>11. CASE r = Good(FrontendRuns(synced)) /\ w.tgt.state # "halted"
  <2>1. Sure(p, w) => synced.tgt.state = "running"
    BY <1>2, <1>11 DEF Sure, Worlds, Targets
  <2> QED BY <1>2, <1>3, <1>5, <1>11, <2>1
<1> QED BY <1>4, <1>7, <1>8, <1>9, <1>10, <1>11

LEMMA VContCAnswers ==
  ASSUME NEW w \in Worlds, Silent(w), NoExit(w), NEW r \in VContC(w)
  PROVE  Answered("vCont;c", w, r.w)
<1> DEFINE p     == "vCont;c"
           typed == Forward(SetType("c", w))
<1>1. /\ typed \in Worlds /\ typed.tgt = w.tgt /\ typed.in = w.in /\ typed.out = w.out
      /\ typed.con.open = w.con.open /\ typed.con.mem_write_error = w.con.mem_write_error
      /\ typed.con.running_type = "c" /\ ~Running(typed)
  <2>1. typed \in Worlds
    BY FlagWorlds, FieldWorlds
  <2> QED BY <2>1 DEF SetType, Forward, Worlds, Connections, Silent, Running
<1> HIDE DEF typed
<1>2. p \in Resuming \cup {"F"} /\ NoExit(typed) /\ ~Sure(p, w)
  BY <1>1 DEF Resuming, NoExit, Sure
<1>3. PICK q \in Resume(typed) : \E x \in IF q.ok THEN {q} ELSE TargetPoll(q.w) : r = Good(FrontendRuns(x.w))
  BY DEF VContC, typed
<1>4. PICK x \in IF q.ok THEN {q} ELSE TargetPoll(q.w) : r = Good(FrontendRuns(x.w))
  BY <1>3
<1>5. /\ x.w \in Worlds /\ x.w.con.open = w.con.open /\ x.w.con.mem_write_error = w.con.mem_write_error
      /\ x.w.con.running_type = "c" /\ Alike(w.in, x.w.in) /\ x.w.out = <<>> /\ Moved(w, x.w)
  <2>1. CASE q.ok = TRUE /\ q.w = Leave(typed)
    <3>1. x.w = Leave(typed)
      BY <1>4, <2>1
    <3>2. /\ x.w \in Worlds /\ x.w.con = typed.con /\ x.w.in = w.in /\ x.w.out = <<>> /\ Moved(w, x.w)
      BY <1>1, <3>1, LeaveWorld DEF Moved, Silent
    <3> QED BY <1>1, <3>2, AlikeReflexive
  <2>2. CASE q.ok = FALSE /\ q.w = typed
    <3>1. x \in TargetPoll(typed)
      BY <1>4, <2>2
    <3>2. Passive(typed, x.w) /\ x.w \in Worlds
      BY <1>1, <1>2, <3>1, TargetPollPassive DEF Passive
    <3>3. Untold(typed, x.w) /\ Kept(typed, x.w) /\ Moved(typed, x.w)
      BY <1>1, <3>2 DEF Passive, Reported
    <3> QED BY <1>1, <3>2, <3>3 DEF Untold, Kept, Moved, Silent
  <2> QED BY <1>1, <1>3, <2>1, <2>2, ResumeWorlds
<1> DEFINE u == x.w
           v == FrontendRuns(u)
<1>6. /\ v \in Worlds /\ v.tgt = u.tgt /\ v.in = u.in /\ v.out = u.out /\ Running(v)
      /\ v.con.open = u.con.open /\ v.con.mem_write_error = u.con.mem_write_error
      /\ v.con.running_type = u.con.running_type
  <2> HIDE DEF u
  <2>1. u \in Worlds
    BY <1>5 DEF u
  <2> QED BY <2>1, FlagWorlds DEF FrontendRuns, Worlds, Connections, Running
<1> HIDE DEF v
<1>7. Moved(w, v)
  BY <1>5, <1>6 DEF Moved
<1>8. Answered(p, w, v)
  BY <1>2, <1>5, <1>6, <1>7 DEF Answered, Fresh
<1> QED BY <1>4, <1>8 DEF Good, v

\* A write that failed is remembered; none is before a small one.
LEMMA WriteBinaryAnswers ==
  ASSUME NEW w \in Worlds, Silent(w), NoExit(w), NEW p \in {"X", "x"}, NEW r \in WriteBinary(p, w),
         p = "x" => ~w.con.mem_write_error
  PROVE  Answered(p, w, r.w)
<1>1. p \in Owing /\ p \notin Resuming \cup {"F"}
  BY DEF Owing, Requests, Resuming
<1>2. ASSUME NEW v \in Worlds, v.tgt = w.tgt, v.out = Append(w.out, "OK"), Alike(w.in, v.in),
             v.con.open = w.con.open, v.con.running_type = w.con.running_type,
             v.con.frontend_state = w.con.frontend_state, v.con.forward = w.con.forward,
             v.con.mem_write_error => w.con.mem_write_error \/ (env.linkFails /\ p = "X")
      PROVE  Answered(p, w, v)
  BY <1>1, <1>2, ToldAnswers, MovedReflexive DEF Running, Silent
<1>3. CASE p = "X"
  <2> DEFINE x     == Put(w, "OK")
             first == IF w.con.mem_write_error THEN ClearError(x) ELSE x
             failed == [first EXCEPT !.con.mem_write_error = TRUE]
  <2>1. /\ x \in Worlds /\ x.tgt = w.tgt /\ x.out = Append(w.out, "OK") /\ Alike(w.in, x.in)
        /\ x.con.open = w.con.open /\ x.con.running_type = w.con.running_type
        /\ x.con.frontend_state = w.con.frontend_state /\ x.con.forward = w.con.forward
        /\ x.con.mem_write_error = w.con.mem_write_error
    BY PutWorld, OutgoingPackets DEF Kept
  <2> HIDE DEF x
  <2>2. /\ first \in Worlds /\ first.tgt = w.tgt /\ first.out = Append(w.out, "OK") /\ Alike(w.in, first.in)
        /\ first.con.open = w.con.open /\ first.con.running_type = w.con.running_type
        /\ first.con.frontend_state = w.con.frontend_state /\ first.con.forward = w.con.forward
        /\ ~first.con.mem_write_error
    <3>1. CASE w.con.mem_write_error
      <4>1. ClearError(x) \in Worlds
        BY <2>1, FieldWorlds
      <4>2. /\ ClearError(x).tgt = x.tgt /\ ClearError(x).out = x.out /\ ClearError(x).in = x.in
            /\ ClearError(x).con = [x.con EXCEPT !.mem_write_error = FALSE]
        BY <2>1 DEF ClearError, Worlds
      <4>3. x.con \in Connections
        BY <2>1 DEF Worlds
      <4> QED BY <2>1, <3>1, <4>1, <4>2, <4>3 DEF Connections
    <3>2. CASE ~w.con.mem_write_error
      BY <2>1, <3>2
    <3> QED BY <3>1, <3>2
  <2> HIDE DEF first
  <2>3. env.linkFails => Answered(p, w, failed)
    <3>1. failed \in Worlds
      BY <2>2, FieldWorlds
    <3>2. /\ failed.tgt = first.tgt /\ failed.out = first.out /\ failed.in = first.in
          /\ failed.con = [first.con EXCEPT !.mem_write_error = TRUE] /\ first.con \in Connections
      BY <2>2 DEF Worlds
    <3>3. /\ failed.con.open = w.con.open /\ failed.con.running_type = w.con.running_type
          /\ failed.con.frontend_state = w.con.frontend_state /\ failed.con.forward = w.con.forward
      BY <2>2, <3>2 DEF Connections
    <3> HIDE DEF failed
    <3> QED BY <1>2, <1>3, <2>2, <3>1, <3>2, <3>3
  <2>4. Answered(p, w, first)
    BY <1>2, <2>2
  <2>5. r = Good(first) \/ (env.linkFails /\ r = Good(failed))
    BY <1>3 DEF WriteBinary, failed, first, x
  <2> HIDE DEF failed
  <2>6. CASE r = Good(first)
    BY <2>4, <2>6 DEF Good
  <2>7. CASE env.linkFails /\ r = Good(failed)
    BY <2>3, <2>7 DEF Good
  <2> QED BY <2>5, <2>6, <2>7
<1>4. CASE p = "x"
  <2> DEFINE failed == [w EXCEPT !.con.mem_write_error = TRUE]
  <2>1. PICK u \in {w, failed} : r = Good(ClearError(Put(u, "OK")))
    BY <1>4 DEF WriteBinary
  <2>2. /\ u \in Worlds /\ u.tgt = w.tgt /\ u.out = w.out /\ u.in = w.in
        /\ u.con.open = w.con.open /\ u.con.running_type = w.con.running_type
        /\ u.con.frontend_state = w.con.frontend_state /\ u.con.forward = w.con.forward
    <3>1. CASE u = w
      BY <3>1
    <3>2. CASE u = failed
      <4>1. u \in Worlds
        BY <3>2, FieldWorlds
      <4>2. /\ u.tgt = w.tgt /\ u.out = w.out /\ u.in = w.in
            /\ u.con = [w.con EXCEPT !.mem_write_error = TRUE] /\ w.con \in Connections
        BY <3>2 DEF Worlds
      <4>3. /\ u.con.open = w.con.open /\ u.con.running_type = w.con.running_type
            /\ u.con.frontend_state = w.con.frontend_state /\ u.con.forward = w.con.forward
        BY <4>2 DEF Connections
      <4> QED BY <4>1, <4>2, <4>3
    <3> QED BY <2>1, <3>1, <3>2
  <2> HIDE DEF failed
  <2> DEFINE x == Put(u, "OK")
             v == ClearError(x)
  <2>3. /\ x \in Worlds /\ x.tgt = u.tgt /\ x.out = Append(u.out, "OK") /\ Alike(u.in, x.in)
        /\ x.con.open = u.con.open /\ x.con.running_type = u.con.running_type
        /\ x.con.frontend_state = u.con.frontend_state /\ x.con.forward = u.con.forward
    BY <2>2, PutWorld, OutgoingPackets DEF Kept
  <2> HIDE DEF x
  <2>4. /\ v \in Worlds /\ v.tgt = x.tgt /\ v.out = x.out /\ v.in = x.in
        /\ v.con = [x.con EXCEPT !.mem_write_error = FALSE] /\ x.con \in Connections
    <3>1. v \in Worlds
      BY <2>3, FieldWorlds
    <3> QED BY <2>3, <3>1 DEF ClearError, Worlds
  <2> HIDE DEF v
  <2>5. /\ v.con.open = w.con.open /\ v.con.running_type = w.con.running_type
        /\ v.con.frontend_state = w.con.frontend_state /\ v.con.forward = w.con.forward
        /\ ~v.con.mem_write_error
    BY <2>2, <2>3, <2>4 DEF Connections
  <2>6. Answered(p, w, v)
    BY <1>2, <2>2, <2>3, <2>4, <2>5
  <2> QED BY <2>1, <2>6 DEF Good, v, x
<1> QED BY <1>3, <1>4

LEMMA FileioAnswers ==
  ASSUME NEW w \in Worlds, Silent(w), NoExit(w), NEW r \in Fileio(w)
  PROVE  Answered("F", w, r.w)
<1> DEFINE running == Forward(FrontendRuns(w))
           ended   == [running EXCEPT !.tgt.hit = "none"]
<1>1. /\ running \in Worlds /\ running.tgt = w.tgt /\ running.in = w.in /\ running.out = w.out
      /\ running.con.open = w.con.open /\ running.con.mem_write_error = w.con.mem_write_error
      /\ running.con.running_type = w.con.running_type /\ Running(running)
  <2>1. running \in Worlds
    BY FlagWorlds
  <2> QED BY <2>1 DEF FrontendRuns, Forward, Worlds, Connections, Running
<1> HIDE DEF running
<1>2. /\ ended \in Worlds /\ ended.in = w.in /\ ended.out = w.out /\ ended.con = running.con
      /\ ended.tgt.state = w.tgt.state /\ ended.tgt.at = w.tgt.at /\ ended.tgt.hit = "none"
  <2>1. ended \in Worlds
    BY <1>1, FieldWorlds
  <2> QED BY <1>1, <2>1 DEF Worlds, Targets
<1> HIDE DEF ended
<1>3. Started(w, running) /\ Started(w, ended)
  BY <1>1, <1>2 DEF Started, Moved, Running
<1>4. CASE r = Good(running) /\ w.tgt.state # "halted"
  <2>1. Sure("F", w) => Watched(running)
    BY <1>1, <1>4 DEF Sure, Watched, Worlds, Targets
  <2>2. Passive(running, running)
    BY <1>1, PassiveReflexive
  <2>3. Answered("F", w, running)
    BY <1>3, <2>1, <2>2, StartedAnswers
  <2> QED BY <1>4, <2>3 DEF Good
<1>5. CASE w.tgt.state = "halted" /\ \E q \in Resume(ended) : r = Good(q.w)
  <2>1. PICK q \in Resume(ended) : r = Good(q.w)
    BY <1>5
  <2>2. /\ Started(w, q.w) /\ q.ok \in BOOLEAN /\ (q.ok => Watched(q.w))
        /\ (~q.ok => ended.tgt.state # "halted" \/ env.linkFails)
    BY <1>3, <2>1, StartedResumes
  <2>3. Sure("F", w) => Watched(q.w)
    BY <1>2, <1>5, <2>2 DEF Sure
  <2>4. Passive(q.w, q.w)
    BY <2>2, PassiveReflexive DEF Started
  <2>5. Answered("F", w, q.w)
    BY <2>2, <2>3, <2>4, StartedAnswers
  <2> QED BY <2>1, <2>5 DEF Good
<1>6. CASE w.tgt.state = "halted" /\ \E q \in TargetStep(ended) : r = Good(q.w)
  <2>1. PICK q \in TargetStep(ended) : r = Good(q.w)
    BY <1>6
  <2>2. /\ q.ok \in BOOLEAN /\ (q.ok => Watched(q.w))
        /\ \E x \in Worlds : Started(w, x) /\ x.con = ended.con /\ Passive(x, q.w)
        /\ (~q.ok => ended.tgt.state # "halted" \/ env.linkFails)
    BY <1>3, <2>1, StartedSteps
  <2>3. Sure("F", w) => Watched(q.w)
    BY <1>2, <1>6, <2>2 DEF Sure
  <2>4. PICK x \in Worlds : Started(w, x) /\ Passive(x, q.w)
    BY <2>2
  <2>5. Answered("F", w, q.w)
    BY <2>3, <2>4, StartedAnswers
  <2> QED BY <2>1, <2>5 DEF Good
<1>7. CASE w.con.running_type = "none" /\ r = Good(ended)
  <2>1. Passive(ended, ended) /\ ~Sure("F", w)
    BY <1>2, <1>7, PassiveReflexive DEF Sure
  <2>2. Answered("F", w, ended)
    BY <1>3, <2>1, StartedAnswers
  <2> QED BY <1>7, <2>2 DEF Good
<1>8. \/ r = Good(running) /\ w.tgt.state # "halted"
      \/ w.tgt.state = "halted" /\ \E q \in (CASE w.con.running_type = "c" -> Resume(ended)
                                              [] w.con.running_type = "s" -> TargetStep(ended)
                                              [] OTHER -> {Bad(ended)}) : r = Good(q.w)
  BY DEF Fileio, ended, running
<1>9. w.con.running_type \in {"none", "c", "s"} /\ Bad(ended).w = ended
  BY DEF Worlds, Connections, Bad
<1> QED BY <1>4, <1>5, <1>6, <1>7, <1>8, <1>9

LEMMA HandleAnswers ==
  ASSUME NEW w \in Worlds, Silent(w), NoExit(w), NEW p \in Owing, NEW r \in Handle(p, w),
         p = "x" => ~w.con.mem_write_error
  PROVE  Answered(p, w, r.w)
<1>1. CASE p \in {"c", "s"}
  BY <1>1, StepOrContinueAnswers DEF Handle
<1>2. CASE p = "vCont;c"
  BY <1>2, VContCAnswers DEF Handle
<1>3. CASE p = "vCont;s"
  BY <1>3, VContSAnswers DEF Handle
<1>4. CASE p \in {"X", "x"}
  BY <1>4, WriteBinaryAnswers DEF Handle
<1>5. CASE p = "F"
  BY <1>5, FileioAnswers DEF Handle
<1>6. CASE p \in {"gdb_sync", "other"}
  <2>1. p \notin Resuming \cup {"F"}
    BY <1>6 DEF Resuming
  <2> DEFINE u == IF p = "other" THEN w ELSE [w EXCEPT !.con.sync = TRUE]
             v == Put(u, "OK")
  <2>2. /\ u \in Worlds /\ u.tgt = w.tgt /\ u.in = w.in /\ u.out = w.out
        /\ u.con.open = w.con.open /\ u.con.mem_write_error = w.con.mem_write_error
        /\ u.con.running_type = w.con.running_type /\ u.con.forward = w.con.forward
        /\ u.con.frontend_state = w.con.frontend_state
    BY FieldWorlds, ZenonT(30) DEF Worlds, Connections
  <2>3. r = Good(v)
    BY <1>6 DEF Handle
  <2> HIDE DEF u
  <2>4. /\ v \in Worlds /\ v.tgt = u.tgt /\ v.out = Append(u.out, "OK") /\ Alike(u.in, v.in)
        /\ Kept(u, v) /\ v.con.frontend_state = u.con.frontend_state /\ v.con.forward = u.con.forward
    BY <2>2, PutWorld, OutgoingPackets
  <2> HIDE DEF v
  <2>5. ~Running(v) /\ ~v.con.forward /\ Moved(w, u)
    BY <2>2, <2>4 DEF Silent, Running, Moved
  <2>6. /\ v.con.open = u.con.open /\ v.con.running_type = u.con.running_type
        /\ v.con.mem_write_error = w.con.mem_write_error
    BY <2>2, <2>4 DEF Kept
  <2>7. Answered(p, w, v)
    BY <1>6, <2>1, <2>2, <2>4, <2>5, <2>6, ToldAnswers
  <2> QED BY <2>3, <2>7 DEF Good
<1> QED BY <1>1, <1>2, <1>3, <1>4, <1>5, <1>6 DEF Owing, Requests

-----------------------------------------------------------------------------
(* The invariant, world by world: g is what GDB does, and does not change. *)

\* A step that only sees what happened.
LEMMA PassiveSound ==
  ASSUME NEW g, NEW w \in Worlds, NEW v, Passive(w, v), Sound(g, w), Watchful => Watched(v)
  PROVE  Sound(g, v)
<1> DEFINE Os(q) == \A i \in DOMAIN q : q[i] = "O"
<1>1. /\ v \in Worlds /\ Kept(w, v) /\ Moved(w, v) /\ Alike(w.in, v.in)
      /\ v.con.open = w.con.open /\ v.con.mem_write_error = w.con.mem_write_error
      /\ v.con.running_type = w.con.running_type
  BY DEF Passive, Kept, Reported, Untold
<1>2. \A x \in Owing \cup {"F", "eof"} : Has(v.in, x) <=> Has(w.in, x)
  BY <1>1 DEF Alike, Incoming, Owing, Requests
<1>3. /\ Pending(v.in) <=> Pending(w.in)
      /\ Once(w.in) => Once(v.in)
      /\ EndsWithEof(w.in) => EndsWithEof(v.in)
      /\ w.in = <<>> => v.in = <<>>
  BY <1>1 DEF Alike
\* Either GDB is told of a halt, or nothing is sent.
<1>4. \/ /\ Running(w) /\ ~Running(v) /\ ~v.con.forward /\ ~Pending(w.in) /\ Os(w.out)
         /\ \/ v.out = Append(w.out, "T")
            \/ v.out = Append(w.out, "F") /\ "call" \in {w.tgt.hit, w.tgt.at}
      \/ /\ (Running(v) <=> Running(w)) /\ v.con.forward = w.con.forward /\ v.out = w.out
  BY DEF Passive, Reported, Untold, Sound, InStep, Turns, Running
<1>5. CASE Running(w) /\ ~Running(v) /\ ~v.con.forward /\ ~Pending(w.in) /\ Os(w.out)
           /\ \/ v.out = Append(w.out, "T")
              \/ v.out = Append(w.out, "F") /\ "call" \in {w.tgt.hit, w.tgt.at}
  <2>1. PICK x \in {"T", "F"} : v.out = Append(w.out, x) /\ (x = "F" => "call" \in {w.tgt.hit, w.tgt.at})
    BY <1>5
  <2>2. /\ \A i \in DOMAIN v.out : v.out[i] # "O" => i = Len(v.out)
        /\ \A i \in DOMAIN v.out : v.out[i] \in {"T", "F", "O"}
        /\ \E i \in DOMAIN v.out : v.out[i] # "O"
        /\ Has(v.out, "F") => "call" \in {w.tgt.hit, w.tgt.at}
    <3>1. w.out \in Seq(Outgoing) /\ Os(w.out)
      BY <1>5 DEF Worlds
    <3>2. /\ Len(v.out) = Len(w.out) + 1 /\ Len(w.out) \in Nat
          /\ DOMAIN v.out = 1 .. Len(w.out) + 1 /\ v.out[Len(w.out) + 1] = x
          /\ \A i \in 1 .. Len(w.out) : v.out[i] = "O"
      BY <2>1, <3>1
    <3> QED BY <2>1, <3>2 DEF Has
  <2>3. Turns(v)
    BY <1>3, <1>5, <2>2 DEF Sound, InStep, Turns
  <2>4. \/ w.con.open /\ g \in {"run", "off"}
       \/ g \notin {"run", "off", "idle", "syscall", "reply", "exited"}
    BY <1>5 DEF Sound, InStep, Closing, Expected
  <2>5. Closing(g, v)
    BY <1>1, <1>2, <1>3, <2>4, <1>5 DEF Sound, InStep, Closing
  <2>6. Expected(g, v)
    BY <1>2, <2>2, <2>4, <1>5 DEF Sound, InStep, Expected
  <2>7. NoExit(v) /\ ErrorPossible(v) /\ Asks(v)
    BY <1>1, <1>2 DEF Sound, InStep, NoExit, Moved, ErrorPossible, Asks, Owing
  <2>8. Seen(g, v)
    <3> SUFFICES ASSUME Watchful PROVE Seen(g, v)
      BY DEF Seen
    <3>1. ~env.linkFails => v.tgt.state # "unknown"
      BY <1>1 DEF Sound, Seen, Moved
    <3>2. "call" \notin env.stops => v.tgt.at = "code" /\ NoCall(g, v)
      <4>1. v.tgt.hit # "code"
        BY <1>1 DEF Worlds, Targets
      <4> QED BY <1>1, <1>2, <2>2, <4>1 DEF Sound, Seen, Moved, NoCall
    <3>3. ~env.telnet /\ ~env.linkFails => Fresh(v) /\ (v.con.running_type = "none" => g # "syscall")
      BY <1>1, PassiveFresh DEF Sound, Seen
    <3> QED BY <3>1, <3>2, <3>3 DEF Seen
  <2>9. Settled(g, v)
    BY <1>1, <1>5 DEF Sound, Settled
  <2> QED BY <2>3, <2>5, <2>6, <2>7, <2>8, <2>9 DEF Sound, InStep
<1>6. CASE (Running(v) <=> Running(w)) /\ v.con.forward = w.con.forward /\ v.out = w.out
  <2>1. Turns(v)
    BY <1>3, <1>6 DEF Sound, InStep, Turns
  <2>2. Closing(g, v)
    BY <1>1, <1>2, <1>3, <1>6 DEF Sound, InStep, Closing
  <2>3. Expected(g, v)
    <3>1. Resuming \cup {"F"} \subseteq Owing
      BY DEF Resuming, Owing, Requests
    <3> QED BY <1>2, <1>3, <1>6, <3>1 DEF Sound, InStep, Expected
  <2>4. NoExit(v) /\ ErrorPossible(v) /\ Asks(v)
    BY <1>1, <1>2 DEF Sound, InStep, NoExit, Moved, ErrorPossible, Asks, Owing
  <2>5. Seen(g, v)
    <3> SUFFICES ASSUME Watchful PROVE Seen(g, v)
      BY DEF Seen
    <3>1. ~env.linkFails => v.tgt.state # "unknown"
      BY <1>1 DEF Sound, Seen, Moved
    <3>2. "call" \notin env.stops => v.tgt.at = "code" /\ NoCall(g, v)
      <4>1. v.tgt.hit # "code"
        BY <1>1 DEF Worlds, Targets
      <4> QED BY <1>1, <1>2, <1>6, <4>1 DEF Sound, Seen, Moved, NoCall
    <3>3. ~env.telnet /\ ~env.linkFails => Fresh(v) /\ (v.con.running_type = "none" => g # "syscall")
      BY <1>1, PassiveFresh DEF Sound, Seen
    <3> QED BY <3>1, <3>2, <3>3 DEF Seen
  <2>6. Settled(g, v)
    BY <1>1, <1>2, <1>6 DEF Sound, Settled
  <2> QED BY <2>1, <2>2, <2>3, <2>4, <2>5, <2>6 DEF Sound, InStep
<1> QED BY <1>4, <1>5, <1>6

\* The packet that is read next, and what is behind it.
LEMMA HeadAndTail ==
  ASSUME NEW q \in Seq(Incoming), q # <<>>
  PROVE  /\ Head(q) \in Incoming /\ Tail(q) \in Seq(Incoming) /\ Has(q, Head(q))
         /\ \A x \in Incoming : Has(Tail(q), x) => Has(q, x)
         /\ \A x \in Incoming : Has(q, x) => x = Head(q) \/ Has(Tail(q), x)
         /\ Once(q) => Once(Tail(q))
         /\ EndsWithEof(q) => EndsWithEof(Tail(q))
         /\ Head(q) \in Owing => Pending(q) /\ (Once(q) => ~Pending(Tail(q)))
<1> DEFINE t == Tail(q)
<1>1. /\ Head(q) = q[1] /\ Len(q) \in Nat \ {0} /\ DOMAIN q = 1 .. Len(q) /\ q[1] \in Incoming
      /\ t \in Seq(Incoming) /\ Len(t) = Len(q) - 1 /\ DOMAIN t = 1 .. Len(q) - 1
      /\ \A i \in 1 .. Len(q) - 1 : t[i] = q[i + 1]
  OBVIOUS
<1> HIDE DEF t
<1>2. \A i \in DOMAIN t : i + 1 \in DOMAIN q /\ t[i] = q[i + 1]
  BY <1>1
<1>3. \A i \in DOMAIN q : i = 1 \/ (i - 1 \in DOMAIN t /\ t[i - 1] = q[i])
  BY <1>1
<1>4. 1 \in DOMAIN q
  BY <1>1
<1>5. \A x \in Incoming : Has(t, x) => Has(q, x)
  BY <1>2 DEF Has
<1>6. \A x \in Incoming : Has(q, x) => x = q[1] \/ Has(t, x)
  BY <1>3 DEF Has
<1>7. Once(q) => Once(t)
  BY <1>1, <1>2 DEF Once
<1>8. EndsWithEof(q) => EndsWithEof(t)
  BY <1>1, <1>2 DEF EndsWithEof
<1>9. ASSUME q[1] \in Owing, Once(q), Pending(t) PROVE FALSE
  <2>1. PICK i \in DOMAIN t : t[i] \in Owing
    BY <1>9 DEF Pending
  <2>2. i + 1 \in DOMAIN q /\ q[i + 1] \in Owing /\ i + 1 # 1
    BY <1>1, <1>2, <2>1
  <2> QED BY <1>4, <1>9, <2>2 DEF Once
<1> QED BY <1>1, <1>4, <1>5, <1>6, <1>7, <1>8, <1>9 DEF t, Has, Pending

LEMMA InterruptSound ==
  ASSUME NEW g, NEW w \in Worlds, Sound(g, w), w.in # <<>>, Head(w.in) = "intr",
         NEW u, u = [w EXCEPT !.in = Tail(@)]
  PROVE  Sound(g, [u EXCEPT !.con.ctrl_c = TRUE])
<1> DEFINE v == [u EXCEPT !.con.ctrl_c = TRUE]
<1>1. w.in \in Seq(Incoming)
  BY DEF Worlds
<1>2. /\ v \in Worlds /\ v.tgt = w.tgt /\ v.in = Tail(w.in) /\ v.out = w.out
      /\ v.con.open = w.con.open /\ v.con.mem_write_error = w.con.mem_write_error
      /\ v.con.running_type = w.con.running_type /\ v.con.forward = w.con.forward
      /\ v.con.frontend_state = w.con.frontend_state
  <2>1. u \in Worlds /\ u.con = w.con /\ u.tgt = w.tgt /\ u.out = w.out /\ u.in = Tail(w.in)
    BY ReadWorld
  <2>2. v \in Worlds
    BY <2>1, FieldWorlds
  <2>3. v.con = [w.con EXCEPT !.ctrl_c = TRUE] /\ w.con \in Connections
    BY <2>1 DEF Worlds
  <2> QED BY <2>1, <2>2, <2>3 DEF Worlds, Connections
<1> HIDE DEF v
<1>3. Alike(w.in, v.in)
  <2>2. \A x \in Incoming \ {"intr"} : Has(Tail(w.in), x) <=> Has(w.in, x)
    BY <1>1, HeadAndTail
  <2>3. Pending(Tail(w.in)) <=> Pending(w.in)
    <3>1. \A q \in Seq(Incoming) : Pending(q) <=> \E x \in Owing : Has(q, x)
      BY DEF Pending, Has
    <3>2. Owing \subseteq Incoming \ {"intr"} /\ Tail(w.in) \in Seq(Incoming)
      BY <1>1, HeadAndTail DEF Owing, Incoming, Requests
    <3> QED BY <1>1, <2>2, <3>1, <3>2
  <2> QED BY <1>1, <1>2, <2>2, <2>3, HeadAndTail DEF Alike
<1>4. Passive(w, v)
  BY <1>2, <1>3 DEF Passive, Kept, Untold, Moved, Resting
<1>5. Watchful => Watched(v)
  BY <1>2 DEF Sound, Seen, Watched, Running
<1> QED BY <1>4, <1>5, PassiveSound DEF v

\* A packet that GDB wants answered.
LEMMA AnsweredSound ==
  ASSUME NEW g, NEW w \in Worlds, Sound(g, w), w.in # <<>>, Head(w.in) \in Owing, w.con.open,
         NEW u, u = [w EXCEPT !.in = Tail(@)], NEW v, Answered(Head(w.in), u, v)
  PROVE  Sound(g, v)
<1> DEFINE p == Head(w.in)
           Stopping == p \in Resuming \cup {"F"}
<1>1. /\ u \in Worlds /\ u.con = w.con /\ u.tgt = w.tgt /\ u.out = w.out /\ u.in = Tail(w.in)
      /\ w.in \in Seq(Incoming)
  BY ReadWorld DEF Worlds
<1>2. /\ Has(w.in, p) /\ Pending(w.in) /\ ~Pending(u.in) /\ p \in Incoming
      /\ \A x \in Incoming : Has(u.in, x) => Has(w.in, x)
      /\ \A x \in Incoming : Has(w.in, x) => x = p \/ Has(u.in, x)
      /\ Once(u.in) /\ EndsWithEof(u.in)
  BY <1>1, HeadAndTail DEF Sound, InStep, Turns, Closing
<1>3. ~Running(w) /\ ~w.con.forward /\ w.out = <<>>
  BY <1>2 DEF Sound, InStep, Turns
<1>4. /\ v \in Worlds /\ v.con.open /\ Moved(w, v)
      /\ ~Pending(v.in) /\ Once(v.in) /\ EndsWithEof(v.in)
      /\ \A x \in Incoming \ {"intr"} : Has(v.in, x) => Has(w.in, x)
  BY <1>1, <1>2 DEF Answered, Alike, Moved
<1>5. \A x \in Owing : ~Has(v.in, x)
  BY <1>4 DEF Has, Pending
<1>6. \/ Stopping /\ Running(v) /\ v.out = <<>>
      \/ Stopping /\ ~Running(v) /\ ~v.con.forward /\ v.out = <<"T">>
      \/ Stopping /\ ~Running(v) /\ ~v.con.forward /\ v.out = <<"F">> /\ "call" \in {w.tgt.hit, w.tgt.at}
      \/ ~Stopping /\ ~Running(v) /\ ~v.con.forward /\ v.out = <<"OK">>
  BY <1>1 DEF Answered, Stop
<1> HIDE DEF Stopping
<1>7. /\ v.out \in {<<>>, <<"T">>, <<"F">>, <<"OK">>}
      /\ ~Running(v) => ~v.con.forward /\ v.out # <<>>
      /\ Running(v) => Stopping /\ v.out = <<>>
      /\ Stopping => v.out # <<"OK">>
      /\ ~Stopping => v.out = <<"OK">>
      /\ v.out = <<"F">> => "call" \in {w.tgt.hit, w.tgt.at}
  <2>1. /\ <<"T">> # <<>> /\ <<"F">> # <<>> /\ <<"OK">> # <<>>
        /\ <<"T">> # <<"F">> /\ <<"T">> # <<"OK">> /\ <<"F">> # <<"OK">>
    <3>1. /\ <<"T">>[1] = "T" /\ <<"F">>[1] = "F" /\ <<"OK">>[1] = "OK"
          /\ Len(<<"T">>) = 1 /\ Len(<<"F">>) = 1 /\ Len(<<"OK">>) = 1 /\ Len(<<>>) = 0
      OBVIOUS
    <3> QED BY <3>1
  <2>2. CASE Stopping /\ Running(v) /\ v.out = <<>>
    BY <2>1, <2>2
  <2>3. CASE Stopping /\ ~Running(v) /\ ~v.con.forward /\ v.out = <<"T">>
    BY <2>1, <2>3
  <2>4. CASE Stopping /\ ~Running(v) /\ ~v.con.forward /\ v.out = <<"F">> /\ "call" \in {w.tgt.hit, w.tgt.at}
    BY <2>1, <2>4
  <2>5. CASE ~Stopping /\ ~Running(v) /\ ~v.con.forward /\ v.out = <<"OK">>
    BY <2>1, <2>5
  <2> QED BY <1>6, <2>2, <2>3, <2>4, <2>5
<1>8. /\ \A i \in DOMAIN v.out : i = Len(v.out) /\ v.out[i] \in {"T", "F", "OK"}
      /\ v.out # <<"OK">> => \A i \in DOMAIN v.out : v.out[i] \in {"T", "F"}
      /\ v.out = <<"OK">> => \A i \in DOMAIN v.out : v.out[i] = "OK"
      /\ v.out # <<>> => \E i \in DOMAIN v.out : v.out[i] # "O"
      /\ Has(v.out, "F") => v.out = <<"F">>
  <2>1. CASE v.out = <<>>
    BY <2>1 DEF Has
  <2>2. CASE v.out = <<"T">>
    BY <2>2 DEF Has
  <2>3. CASE v.out = <<"F">>
    BY <2>3 DEF Has
  <2>4. CASE v.out = <<"OK">>
    BY <2>4 DEF Has
  <2> QED BY <1>7, <2>1, <2>2, <2>3, <2>4
<1>9. Turns(v)
  <2>1. Running(v) => \A i \in DOMAIN v.out : v.out[i] = "O"
    BY <1>7
  <2> QED BY <1>4, <1>7, <1>8, <2>1 DEF Turns
\* Who is waiting: GDB's request tells.
<1>10. g \in {"reply", "run"} \/ g = "off" \/ g \notin {"off", "idle", "syscall", "reply", "run", "exited"}
  BY <1>2 DEF Sound, InStep, Expected
<1>11. (g = "reply" => ~Stopping) /\ (g = "run" => Stopping)
  BY <1>2 DEF Sound, InStep, Expected, Stopping
<1>12. Closing(g, v)
  <2>1. Has(v.in, "eof") => Has(w.in, "eof")
    BY <1>4 DEF Incoming
  <2> QED BY <1>4, <2>1 DEF Sound, InStep, Closing
<1>13. Expected(g, v)
  <2>1. Resuming \cup {"F"} \subseteq Owing
    BY DEF Resuming, Owing, Requests
  <2> QED BY <1>5, <1>7, <1>8, <1>10, <1>11, <2>1 DEF Expected
<1>14. NoExit(v)
  BY <1>4 DEF Sound, InStep, NoExit, Moved
<1>15. ErrorPossible(v)
  <2>1. v.con.mem_write_error => w.con.mem_write_error \/ (env.linkFails /\ p = "X")
    BY <1>1 DEF Answered
  <2>2. p = "X" => "X" \in env.packets
    BY <1>2 DEF Sound, InStep, Asks, Requests
  <2> QED BY <2>1, <2>2 DEF Sound, InStep, ErrorPossible
<1>16. Asks(v)
  BY <1>5 DEF Asks, Owing
<1>17. Seen(g, v)
  <2> SUFFICES ASSUME Watchful PROVE Seen(g, v)
    BY DEF Seen
  <2>1. p # "F" => p \in env.packets
    BY <1>2 DEF Sound, InStep, Asks, Owing
  <2>2. p = "F" => "call" \in env.stops
    BY <1>2 DEF Sound, Seen, NoCall
  <2>3. Sure(p, u)
    <3>1. p = "F" => ~env.linkFails /\ ~env.telnet /\ u.con.running_type # "none"
      BY <1>1, <1>2, <2>2 DEF Sound, Seen, Fresh, Watchful
    <3>2. p = "vCont;s" => ~env.linkFails
      BY <2>1 DEF Watchful
    <3>3. ~env.linkFails => u.tgt.state # "unknown"
      BY <1>1 DEF Sound, Seen
    <3> QED BY <2>1, <3>1, <3>2, <3>3 DEF Sure, Watchful
  <2>4. Watched(v)
    BY <2>3 DEF Answered
  <2>5. ~env.linkFails => v.tgt.state # "unknown"
    BY <1>4 DEF Sound, Seen, Moved
  <2>6. "call" \notin env.stops => v.tgt.at = "code" /\ NoCall(g, v)
    <3> SUFFICES ASSUME "call" \notin env.stops PROVE v.tgt.at = "code" /\ NoCall(g, v)
      OBVIOUS
    <3>1. w.tgt.at = "code" /\ w.tgt.hit = "none" /\ g # "syscall"
      BY DEF Sound, Seen, NoCall
    <3>2. v.tgt.hit # "code"
      BY <1>4 DEF Worlds, Targets
    <3>3. v.tgt.at = "code" /\ v.tgt.hit = "none"
      BY <1>4, <3>1, <3>2 DEF Moved
    <3> QED BY <1>5, <1>7, <1>8, <3>1, <3>3 DEF NoCall, Owing
  <2>7. ~env.telnet /\ ~env.linkFails => Fresh(v) /\ (v.con.running_type = "none" => g # "syscall")
    <3> SUFFICES ASSUME ~env.telnet, ~env.linkFails
                 PROVE  Fresh(v) /\ (v.con.running_type = "none" => g # "syscall")
      OBVIOUS
    <3>1. g # "syscall"
      BY <1>10
    <3>2. Fresh(w)
      BY DEF Sound, Seen
    <3>3. Fresh(u)
      BY <1>1, <1>2, <3>2 DEF Fresh, Running, Incoming
    <3>4. CASE p # "F"
      BY <3>1, <3>3, <3>4 DEF Answered
    <3>5. CASE p = "F" /\ v.con.running_type # "none"
      BY <3>1, <3>5 DEF Fresh
    <3>6. CASE p = "F" /\ v.con.running_type = "none"
      <4>1. w.con.running_type # "none"
        BY <1>2, <3>2, <3>6 DEF Fresh
      <4> QED BY <1>1, <3>6, <4>1 DEF Answered
    <3> QED BY <3>4, <3>5, <3>6
  <2> QED BY <2>4, <2>5, <2>6, <2>7 DEF Seen
<1>18. Settled(g, v)
  <2> SUFFICES ASSUME env.packets \cap {"vCont;c", "vCont;s"} = {}, v.con.mem_write_error
               PROVE  ~Running(v) /\ g # "syscall" /\ ~Has(v.in, "F") /\ ~Has(v.out, "F")
    BY DEF Settled
  <2>1. p \notin {"c", "s"} /\ (w.con.mem_write_error \/ p = "X")
    BY <1>1 DEF Answered
  <2>2. p # "F"
    <3>1. w.con.mem_write_error => ~Has(w.in, "F")
      BY DEF Sound, Settled
    <3> QED BY <1>2, <2>1, <3>1
  <2>3. p \notin {"vCont;c", "vCont;s"}
    BY <1>2 DEF Sound, InStep, Asks, Requests
  <2>4. ~Stopping
    BY <2>1, <2>2, <2>3 DEF Stopping, Resuming
  <2>5. ~Running(v) /\ v.out = <<"OK">> /\ ~Has(v.out, "F")
    <3>1. v.out = <<"OK">> /\ ~Running(v)
      BY <1>6, <2>4
    <3>2. \A i \in DOMAIN v.out : v.out[i] = "OK"
      BY <1>8, <3>1
    <3> QED BY <3>1, <3>2 DEF Has
  <2> QED BY <1>5, <1>10, <2>5 DEF Owing
<1> QED BY <1>9, <1>12, <1>13, <1>14, <1>15, <1>16, <1>17, <1>18 DEF Sound, InStep

-----------------------------------------------------------------------------
(* The invariant, action by action. *)

LEMMA WorldNext == ASSUME NEW w \in Worlds, Become(w) PROVE World' = w /\ env' = env
BY DEF Become, World, Worlds

LEMMA SoundNext ==
  ASSUME TypeOK', NEW w, World' = w, env' = env, NEW g, gdb' = g, Orderly => Sound(g, w)
  PROVE  Inv'
<1>1. Orderly' <=> Orderly
  BY DEF Orderly
<1>2. Sound(g, w) => Sound(gdb, World)'
  <2> SUFFICES ASSUME Sound(g, w) PROVE Sound(gdb, World)'
    OBVIOUS
  <2>1. Turns(World)' /\ NoExit(World)' /\ ErrorPossible(World)' /\ Asks(World)'
    BY DEF Sound, InStep, Turns, NoExit, ErrorPossible, Asks, Running
  <2>2. Closing(gdb, World)' /\ Expected(gdb, World)'
    BY DEF Sound, InStep, Closing, Expected, Running
  <2>3. Seen(gdb, World)'
    <3>1. Watchful' <=> Watchful
      BY DEF Watchful, Orderly
    <3> QED BY <3>1 DEF Sound, Seen, Watched, NoCall, Fresh, Running
  <2>4. Settled(gdb, World)'
    BY DEF Sound, Settled, Running
  <2> QED BY <2>1, <2>2, <2>3, <2>4 DEF Sound, InStep
<1> QED BY <1>1, <1>2 DEF Inv

LEMMA InputSound == ASSUME Inv, Input PROVE Inv'
<1> DEFINE u == [World EXCEPT !.in = Tail(@)]
           p == Head(toServer)
<1>1. TypeOK' /\ World \in Worlds /\ World.in = toServer /\ World.con = con
  BY InputTypes, WorldType DEF Inv, World
<1>2. /\ u \in Worlds /\ u.con = con /\ u.tgt = World.tgt /\ p \in Owing \cup {"intr"}
      /\ p # "eof" /\ toServer # <<>> /\ con.open
  BY <1>1, ReadWorld DEF Input, Incoming, Owing
<1>3. PICK r \in Handle(p, u) : \E v \in (IF r.ok THEN CtrlC(r.w) ELSE {r.w}) : Become(v)
  BY DEF Input
<1>4. PICK v \in (IF r.ok THEN CtrlC(r.w) ELSE {r.w}) : Become(v)
  BY <1>3
<1> HIDE DEF u
<1>5. Outcome(r)
  BY <1>2, <1>3, HandleTypes DEF Owing
<1>6. v \in Worlds
  BY <1>4, <1>5, CtrlCTypes DEF Outcome
<1>7. ASSUME Orderly PROVE Sound(gdb, v)
  <2>1. Sound(gdb, World) /\ NoExit(u)
    BY <1>2, <1>7 DEF Inv, Sound, InStep, NoExit
  <2>2. CASE p = "intr"
    <3>1. r = Good([u EXCEPT !.con.ctrl_c = TRUE])
      BY <1>3, <2>2 DEF Handle
    <3>2. Sound(gdb, [u EXCEPT !.con.ctrl_c = TRUE])
      BY <1>1, <1>2, <2>1, <2>2, InterruptSound DEF u
    <3>3. r.ok = TRUE /\ r.w = [u EXCEPT !.con.ctrl_c = TRUE]
      BY <3>1 DEF Good
    <3>4. Sound(gdb, r.w) /\ v \in CtrlC(r.w) /\ r.w \in Worlds
      BY <1>4, <1>5, <3>2, <3>3 DEF Outcome
    <3>5. NoExit(r.w) /\ (Watchful => Watched(r.w))
      BY <3>4 DEF Sound, InStep, Seen
    <3>6. Passive(r.w, v) /\ (Watched(r.w) => Watched(v))
      BY <3>4, <3>5, CtrlCPassive
    <3> QED BY <3>4, <3>5, <3>6, PassiveSound
  <2>3. CASE p \in Owing
    <3>1. Silent(u)
      <4>1. /\ World.in \in Seq(Incoming) /\ Pending(World.in) /\ ~Pending(Tail(World.in))
        BY <1>1, <1>2, <2>1, <2>3, HeadAndTail DEF Worlds, Sound, InStep, Turns
      <4>2. u.in = Tail(World.in) /\ u.out = World.out /\ u.con = World.con
        BY <1>1, <1>2, ReadWorld DEF u
      <4> QED BY <2>1, <4>1, <4>2 DEF Silent, Sound, InStep, Turns, Running
    <3>2. p = "x" => ~u.con.mem_write_error
      <4>1. Has(World.in, p)
        BY <1>1, <1>2, HeadAndTail DEF Worlds
      <4>2. p = "x" => "x" \in env.packets
        BY <2>1, <4>1 DEF Sound, InStep, Asks, Requests
      <4> QED BY <1>1, <1>2, <1>7, <2>1, <4>2 DEF Sound, InStep, ErrorPossible, Orderly
    <3>3. Answered(p, u, r.w)
      BY <1>2, <1>3, <2>1, <2>3, <3>1, <3>2, HandleAnswers
    <3>4. Answered(p, u, v)
      <4>1. CASE ~r.ok
        BY <1>4, <3>3, <4>1
      <4>2. CASE r.ok
        <5>1. v \in CtrlC(r.w) /\ r.w \in Worlds
          BY <1>4, <1>5, <4>2 DEF Outcome
        <5>2. NoExit(r.w)
          BY <2>1, <3>3 DEF Answered, Moved, NoExit
        <5>3. Passive(r.w, v) /\ (Watched(r.w) => Watched(v))
          BY <5>1, <5>2, CtrlCPassive
        <5> QED BY <1>2, <2>1, <2>3, <3>3, <5>3, AnsweredPassive
      <4> QED BY <4>1, <4>2
    <3> QED BY <1>1, <1>2, <2>1, <2>3, <3>4, AnsweredSound DEF u
  <2> QED BY <1>2, <2>2, <2>3
<1>8. World' = v /\ env' = env
  BY <1>4, <1>6, WorldNext
<1>9. gdb' = gdb
  BY DEF Input
<1> QED BY <1>1, <1>7, <1>8, <1>9, SoundNext

LEMMA PollSound == ASSUME Inv, Poll PROVE Inv'
<1>1. PICK r \in TargetPoll(World) : \E v \in (IF r.ok THEN {r.w} ELSE FrontendHalted(r.w)) : Become(v)
  BY DEF Poll
<1>2. PICK v \in (IF r.ok THEN {r.w} ELSE FrontendHalted(r.w)) : Become(v)
  BY <1>1
<1>3. World \in Worlds /\ TypeOK' /\ gdb' = gdb
  BY WorldType, PollTypes DEF Inv, Poll
<1>4. Outcome(r)
  BY <1>1, <1>3, TargetPollTypes
<1>5. v \in Worlds
  BY <1>2, <1>4, FrontendHaltedTypes DEF Outcome
<1>6. ASSUME Orderly PROVE Sound(gdb, v)
  <2>1. Sound(gdb, World) /\ NoExit(World) /\ (Watchful => Watched(World))
    BY <1>6 DEF Inv, Sound, InStep, Seen
  <2>2. Passive(World, r.w) /\ (Watched(World) /\ r.ok => Watched(r.w)) /\ r.w \in Worlds
    BY <1>1, <1>3, <2>1, TargetPollPassive DEF Passive
  <2>3. CASE r.ok
    BY <1>2, <1>3, <2>1, <2>2, <2>3, PassiveSound
  <2>4. CASE ~r.ok
    <3>1. v \in FrontendHalted(r.w) /\ NoExit(r.w)
      BY <1>2, <2>1, <2>2, <2>4, PassiveNoExit
    <3>2. Passive(r.w, v) /\ ~Running(v)
      BY <2>2, <3>1, FrontendHaltedPassive
    <3>3. Passive(World, v)
      BY <1>3, <1>5, <2>1, <2>2, <3>2, PassiveTransitive
    <3> QED BY <1>3, <2>1, <3>2, <3>3, PassiveSound DEF Watched
  <2> QED BY <2>3, <2>4
<1> QED BY <1>2, <1>3, <1>5, <1>6, WorldNext, SoundNext

LEMMA HaltCommandSound == ASSUME Inv, HaltCommand PROVE Inv'
<1>1. PICK h \in TargetHalt(World) :
        Become(h.w) \/ (h.ok /\ \E r \in TargetPoll(h.w) : Become(r.w))
  BY DEF HaltCommand
<1>2. World \in Worlds /\ TypeOK' /\ gdb' = gdb
  BY WorldType, CommandTypes DEF Inv, HaltCommand
<1>3. Outcome(h)
  BY <1>1, <1>2, TargetHaltTypes
<1>4. PICK v \in Worlds :
        Become(v) /\ (v = h.w \/ \E r \in TargetPoll(h.w) : v = r.w)
  BY <1>1, <1>3, TargetPollTypes DEF Outcome
<1>5. ASSUME Orderly PROVE Sound(gdb, v)
  <2>1. Sound(gdb, World) /\ NoExit(World) /\ (Watchful => Watched(World) /\ ~env.linkFails)
    BY <1>5 DEF Inv, Sound, InStep, Seen, Watchful, HaltCommand
  <2>2. Passive(World, h.w) /\ (Watched(World) => Watched(h.w)) /\ h.w \in Worlds
    BY <1>1, <1>2, TargetHaltPassive DEF Passive
  <2>3. CASE v = h.w
    BY <1>2, <2>1, <2>2, <2>3, PassiveSound
  <2>4. CASE \E r \in TargetPoll(h.w) : v = r.w
    <3>1. PICK r \in TargetPoll(h.w) : v = r.w
      BY <2>4
    <3>2. NoExit(h.w)
      BY <2>1, <2>2, PassiveNoExit
    <3>3. /\ Passive(h.w, v) /\ (Watched(h.w) /\ r.ok => Watched(v)) /\ (~r.ok => env.linkFails)
          /\ r.ok \in BOOLEAN
      BY <2>2, <3>1, <3>2, TargetPollPassive
    <3>4. Passive(World, v)
      BY <1>2, <1>4, <2>1, <2>2, <3>3, PassiveTransitive
    <3> QED BY <1>2, <2>1, <2>2, <3>3, <3>4, PassiveSound
  <2> QED BY <1>4, <2>3, <2>4
<1> QED BY <1>2, <1>4, <1>5, WorldNext, SoundNext

\* Telnet takes a target out of the debug state that GDB may know as halted.
LEMMA ResumeCommandSound == ASSUME Inv, ResumeCommand PROVE Inv'
<1>1. PICK r \in Resume(World) : Become(r.w)
  BY DEF ResumeCommand
<1>2. World \in Worlds /\ TypeOK' /\ gdb' = gdb /\ env.telnet
  BY WorldType, CommandTypes DEF Inv, ResumeCommand
<1> DEFINE v == r.w
<1>3. v = World \/ v = Leave(World)
  BY <1>1, <1>2, ResumeWorlds
<1>4. v \in Worlds
  BY <1>2, <1>3, LeaveWorld
<1>5. ASSUME Orderly PROVE Sound(gdb, v)
  <2>1. Sound(gdb, World)
    BY <1>5 DEF Inv
  <2>2. CASE v = Leave(World)
    <3>1. /\ v.con = World.con /\ v.in = World.in /\ v.out = World.out
          /\ v.tgt.state = "running" /\ v.tgt.at = "code"
          /\ v.tgt.hit \in {World.tgt.hit, "none"}
      BY <1>2, <2>2, LeaveWorld
    <3> HIDE DEF v
    <3>2. InStep(gdb, v)
      BY <2>1, <3>1
      DEF Sound, InStep, Turns, Closing, Expected, NoExit, ErrorPossible, Asks, Running
    <3>3. Seen(gdb, v)
      BY <1>2, <2>1, <3>1 DEF Sound, Seen, Watched, NoCall
    <3>4. Settled(gdb, v)
      BY <2>1, <3>1 DEF Sound, Settled, Running
    <3> QED BY <3>2, <3>3, <3>4 DEF Sound
  <2> QED BY <1>3, <2>1, <2>2
<1> QED BY <1>1, <1>2, <1>4, <1>5, WorldNext, SoundNext

LEMMA LogSound == ASSUME Inv, LogCallback PROVE Inv'
<1> DEFINE v == Put(World, "O")
<1>1. World \in Worlds /\ TypeOK' /\ gdb' = gdb /\ Become(v) /\ World.con.forward
  BY WorldType, LogTypes DEF Inv, LogCallback, World
<1>2. /\ v \in Worlds /\ v.tgt = World.tgt /\ v.out = Append(World.out, "O") /\ Alike(World.in, v.in)
      /\ Kept(World, v) /\ v.con.frontend_state = World.con.frontend_state
      /\ v.con.forward = World.con.forward
  BY <1>1, PutWorld, OutgoingPackets
<1> HIDE DEF v
<1>3. ASSUME Orderly PROVE Sound(gdb, v)
  <2>1. Sound(gdb, World)
    BY <1>3 DEF Inv
  <2>2. /\ \A x \in Owing \cup {"F", "eof"} : Has(v.in, x) <=> Has(World.in, x)
        /\ Pending(v.in) <=> Pending(World.in)
        /\ Once(World.in) => Once(v.in)
        /\ EndsWithEof(World.in) => EndsWithEof(v.in)
        /\ World.in = <<>> => v.in = <<>>
    BY <1>2 DEF Alike, Incoming, Owing, Requests
  <2>3. Running(World) /\ Running(v) /\ World.con.open /\ v.con.open
    BY <1>1, <1>2, <2>1 DEF Sound, InStep, Turns, Closing, Running, Kept
  <2>4. /\ ~Pending(World.in) /\ \A i \in DOMAIN v.out : v.out[i] = "O"
        /\ ~Has(v.out, "F")
    <3>1. World.out \in Seq(Outgoing) /\ \A i \in DOMAIN World.out : World.out[i] = "O"
      BY <1>1, <2>1, <2>3 DEF Worlds, Sound, InStep, Turns
    <3>2. \A i \in DOMAIN v.out : v.out[i] = "O"
      BY <1>2, <3>1
    <3> QED BY <2>1, <2>3, <3>2 DEF Sound, InStep, Turns, Has
  <2>5. Turns(v)
    BY <2>1, <2>2, <2>3, <2>4 DEF Sound, InStep, Turns
  <2>6. Closing(gdb, v)
    BY <2>1, <2>2, <2>3 DEF Sound, InStep, Closing
  <2>7. Expected(gdb, v)
    BY <2>1, <2>2, <2>3, <2>4 DEF Sound, InStep, Expected
  <2>8. NoExit(v) /\ ErrorPossible(v) /\ Asks(v)
    BY <1>2, <2>1, <2>2 DEF Sound, InStep, NoExit, ErrorPossible, Asks, Owing, Kept
  <2>9. Seen(gdb, v)
    BY <1>2, <2>1, <2>2, <2>3, <2>4 DEF Sound, Seen, Watched, NoCall, Fresh, Kept
  <2>10. Settled(gdb, v)
    BY <1>2, <2>1, <2>3 DEF Sound, Settled, Kept
  <2> QED BY <2>5, <2>6, <2>7, <2>8, <2>9, <2>10 DEF Sound, InStep
<1> QED BY <1>1, <1>2, <1>3, WorldNext, SoundNext

LEMMA ClosedSound == ASSUME Inv, Closed PROVE Inv'
<1> DEFINE n == [NoConnection EXCEPT !.running_type = con.running_type]
           w == [con |-> n, tgt |-> tgt, in |-> <<>>, out |-> <<>>]
<1>1. /\ w.con = n /\ w.tgt = World.tgt /\ w.in = <<>> /\ w.out = <<>>
      /\ World' = w /\ env' = env /\ gdb' = gdb /\ TypeOK'
  <2>1. con' = n /\ toServer' = <<>> /\ toGdb' = <<>> /\ tgt' = tgt /\ env' = env /\ gdb' = gdb
    BY DEF Closed
  <2>2. World' = w
    BY <2>1 DEF World
  <2> QED BY <2>1, <2>2, ConnectionTypes DEF Inv, World
<1> HIDE DEF w
<1>2. /\ ~n.open /\ n.frontend_state = "halted" /\ ~n.forward /\ ~n.mem_write_error
      /\ n.running_type = con.running_type
  BY DEF NoConnection
<1> HIDE DEF n
<1>3. ASSUME Orderly PROVE Sound(gdb, w)
  <2>1. Sound(gdb, World) /\ World.in = toServer /\ World.con = con
    BY <1>3 DEF Inv, World
  <2>2. gdb = "off"
    <3>1. toServer \in Seq(Incoming) /\ toServer # <<>> /\ Head(toServer) = "eof"
      BY DEF Inv, TypeOK, Incoming, Closed
    <3>2. Has(toServer, "eof")
      BY <3>1, HeadAndTail
    <3> QED BY <2>1, <3>2 DEF Sound, InStep, Closing
  <2>3. ~Running(w) /\ (\A x : ~Has(w.in, x) /\ ~Has(w.out, x)) /\ ~Pending(w.in)
    BY <1>1, <1>2 DEF Running, Has, Pending
  <2>4. Once(w.in) /\ EndsWithEof(w.in)
    BY <1>1 DEF Once, EndsWithEof
  <2>5. Turns(w) /\ Closing(gdb, w) /\ Expected(gdb, w)
    BY <1>1, <1>2, <2>2, <2>3, <2>4 DEF Turns, Closing, Expected
  <2>6. NoExit(w) /\ ErrorPossible(w) /\ Asks(w)
    BY <1>1, <1>2, <2>1, <2>3 DEF Sound, InStep, NoExit, ErrorPossible, Asks
  <2>7. Seen(gdb, w)
    BY <1>1, <1>2, <2>1, <2>2, <2>3 DEF Sound, Seen, Watched, NoCall, Fresh
  <2>8. Settled(gdb, w)
    BY <1>1, <1>2 DEF Settled
  <2> QED BY <2>5, <2>6, <2>7, <2>8 DEF Sound, InStep
<1> QED BY <1>1, <1>3, SoundNext

LEMMA NewConnectionSound == ASSUME Inv, NewConnection PROVE Inv'
<1> DEFINE n == [con EXCEPT !.open = TRUE]
           w == [con |-> n, tgt |-> tgt, in |-> toServer, out |-> toGdb]
<1>1. /\ w.con = n /\ w.tgt = World.tgt /\ w.in = World.in /\ w.out = World.out
      /\ World' = w /\ env' = env /\ gdb' = "idle" /\ TypeOK'
  <2>1. con' = n /\ gdb' = "idle" /\ UNCHANGED <<env, tgt, toServer, toGdb>>
    BY DEF NewConnection
  <2>2. World' = w
    BY <2>1 DEF World
  <2> QED BY <2>1, <2>2, ConnectionTypes DEF Inv, World
<1> HIDE DEF w
<1>2. /\ n.open /\ n.frontend_state = con.frontend_state /\ n.forward = con.forward
      /\ n.mem_write_error = con.mem_write_error /\ n.running_type = con.running_type
  BY DEF Inv, TypeOK, Connections
<1> HIDE DEF n
<1>3. ASSUME Orderly PROVE Sound("idle", w)
  <2>1. Sound("off", World) /\ World.con = con /\ ~con.open
    BY <1>3 DEF Inv, World, NewConnection
  <2>2. w.in = <<>> /\ w.out = <<>> /\ ~Running(w) /\ ~w.con.forward /\ ~w.con.mem_write_error
    BY <1>1, <1>2, <2>1 DEF Sound, InStep, Closing, Running
  <2>3. (\A x : ~Has(w.in, x) /\ ~Has(w.out, x)) /\ ~Pending(w.in) /\ Once(w.in) /\ EndsWithEof(w.in)
    BY <2>2 DEF Has, Pending, Once, EndsWithEof
  <2>4. Turns(w) /\ Closing("idle", w) /\ Expected("idle", w)
    BY <1>1, <1>2, <2>2, <2>3 DEF Turns, Closing, Expected
  <2>5. NoExit(w) /\ ErrorPossible(w) /\ Asks(w)
    BY <1>1, <2>1, <2>2, <2>3 DEF Sound, InStep, NoExit, ErrorPossible, Asks
  <2>6. Seen("idle", w)
    BY <1>1, <1>2, <2>1, <2>2, <2>3 DEF Sound, Seen, Watched, NoCall, Fresh
  <2>7. Settled("idle", w)
    BY <2>2 DEF Settled
  <2> QED BY <2>4, <2>5, <2>6, <2>7 DEF Sound, InStep
<1> QED BY <1>1, <1>3, SoundNext

LEMMA CpuSound == ASSUME Inv, CpuHalts PROVE Inv'
<1>1. PICK why \in env.stops : tgt' = [tgt EXCEPT !.cpu = "halted", !.at = why]
  BY DEF CpuHalts
<1> DEFINE t == [tgt EXCEPT !.cpu = "halted", !.at = why]
           w == [con |-> con, tgt |-> t, in |-> toServer, out |-> toGdb]
<1>2. /\ w.con = World.con /\ w.tgt = t /\ w.in = World.in /\ w.out = World.out
      /\ World' = w /\ env' = env /\ gdb' = gdb /\ TypeOK'
  <2>1. tgt' = t /\ UNCHANGED <<env, gdb, con, toServer, toGdb>>
    BY <1>1 DEF CpuHalts
  <2>2. World' = w
    BY <2>1 DEF World
  <2> QED BY <2>1, <2>2, CpuTypes DEF Inv, World
<1> HIDE DEF w
<1>3. t.at = why /\ t.hit = tgt.hit /\ t.state = tgt.state /\ tgt.cpu = "running" /\ why \in {"code", "call", "exit"}
  BY EnvironmentsAssumption DEF Inv, TypeOK, Targets, CpuHalts, Switches
<1> HIDE DEF t
<1>4. ASSUME Orderly PROVE Sound(gdb, w)
  <2>1. Sound(gdb, World) /\ World.tgt = tgt
    BY <1>4 DEF Inv, World
  <2>2. Turns(w) /\ Closing(gdb, w) /\ Expected(gdb, w)
    BY <1>2, <2>1 DEF Sound, InStep, Turns, Closing, Expected, Running
  <2>3. NoExit(w) /\ ErrorPossible(w) /\ Asks(w)
    BY <1>2, <1>3, <1>4, <2>1 DEF Sound, InStep, NoExit, ErrorPossible, Asks, Orderly
  <2>4. Seen(gdb, w)
    BY <1>2, <1>3, <2>1 DEF Sound, Seen, Watched, NoCall, Fresh, Running, Watchful, Orderly
  <2>5. Settled(gdb, w)
    BY <1>2, <2>1 DEF Sound, Settled, Running
  <2> QED BY <2>2, <2>3, <2>4, <2>5 DEF Sound, InStep
<1> QED BY <1>2, <1>4, SoundNext

\* GDB sends.
LEMMA AppendFacts ==
  ASSUME NEW q \in Seq(Incoming), NEW x \in Incoming
  PROVE  LET r == Append(q, x)
         IN  /\ r \in Seq(Incoming)
             /\ \A y : Has(r, y) <=> Has(q, y) \/ y = x
             /\ Pending(r) <=> Pending(q) \/ x \in Owing
             /\ Once(q) /\ (~Pending(q) \/ x \notin Owing) => Once(r)
             /\ ~Has(q, "eof") => EndsWithEof(r)
<1> DEFINE r == Append(q, x)
<1>1. /\ Len(q) \in Nat /\ DOMAIN q = 1 .. Len(q) /\ DOMAIN r = 1 .. Len(q) + 1 /\ Len(r) = Len(q) + 1
      /\ r[Len(q) + 1] = x /\ (\A i \in 1 .. Len(q) : r[i] = q[i]) /\ r \in Seq(Incoming)
  OBVIOUS
<1> HIDE DEF r
<1>2. /\ \A i \in DOMAIN q : i \in DOMAIN r /\ r[i] = q[i]
      /\ \A i \in DOMAIN r : i = Len(r) \/ (i \in DOMAIN q /\ r[i] = q[i])
      /\ Len(r) \in DOMAIN r /\ r[Len(r)] = x
  BY <1>1
<1>3. \A y : Has(r, y) <=> Has(q, y) \/ y = x
  BY <1>2 DEF Has
<1>4. Pending(r) <=> Pending(q) \/ x \in Owing
  BY <1>2 DEF Pending
<1>5. Once(q) /\ (~Pending(q) \/ x \notin Owing) => Once(r)
  BY <1>2 DEF Once, Pending
<1>6. ~Has(q, "eof") => EndsWithEof(r)
  BY <1>2 DEF Has, EndsWithEof
<1> QED BY <1>1, <1>3, <1>4, <1>5, <1>6 DEF r

LEMMA SendsSound ==
  ASSUME NEW g, NEW w \in Worlds, Sound(g, w), g \notin {"off"}, NEW x \in Incoming, NEW h,
         \/ x = "intr" /\ g = "run" /\ h = "run"
         \/ x = "eof" /\ h = "off"
         \/ x \in env.packets /\ x \in Requests /\ g = "idle" /\ h = IF x \in Resuming THEN "run" ELSE "reply"
         \/ x = "F" /\ g = "syscall" /\ h = "run"
  PROVE  Sound(h, [w EXCEPT !.in = Append(@, x)])
<1> DEFINE r == Append(w.in, x)
           v == [w EXCEPT !.in = r]
<1>1. v.con = w.con /\ v.tgt = w.tgt /\ v.in = r /\ v.out = w.out /\ w.in \in Seq(Incoming)
  BY DEF Worlds
<1> HIDE DEF v
<1>2. ~Has(w.in, "eof") /\ w.con.open
  BY DEF Sound, InStep, Closing
<1>3. /\ \A y : Has(r, y) <=> Has(w.in, y) \/ y = x
      /\ Pending(r) <=> Pending(w.in) \/ x \in Owing
      /\ Once(w.in) /\ (~Pending(w.in) \/ x \notin Owing) => Once(r)
      /\ EndsWithEof(r)
  BY <1>1, <1>2, AppendFacts
<1> HIDE DEF r
<1>4. CASE x \in {"intr", "eof"}
  <2>1. x \notin Owing /\ x # "F"
    BY <1>4 DEF Owing, Requests
  <2>2. Turns(v)
    BY <1>1, <1>3, <2>1 DEF Sound, InStep, Turns, Running
  <2>3. Closing(h, v)
    BY <1>1, <1>2, <1>3, <1>4 DEF Sound, InStep, Closing, Requests
  <2>4. Expected(h, v)
    <3>1. \A y \in Owing : Has(r, y) <=> Has(w.in, y)
      BY <1>3, <2>1
    <3> QED BY <1>1, <1>3, <1>4, <2>1, <3>1 DEF Sound, InStep, Expected, Running, Requests
  <2>5. NoExit(v) /\ ErrorPossible(v) /\ Asks(v)
    BY <1>1, <1>3, <2>1 DEF Sound, InStep, NoExit, ErrorPossible, Asks, Owing
  <2>6. h # "syscall"
    BY <1>4
  <2>7. Seen(h, v)
    BY <1>1, <1>3, <2>1, <2>6 DEF Sound, Seen, Watched, NoCall, Fresh, Running
  <2>8. Settled(h, v)
    BY <1>1, <1>3, <2>1, <2>6 DEF Sound, Settled, Running
  <2> QED BY <2>2, <2>3, <2>4, <2>5, <2>7, <2>8 DEF Sound, InStep, v, r
<1>5. CASE x \in Requests \cup {"F"}
  <2>1. /\ x \in Owing /\ x \notin {"eof", "intr"} /\ g \in {"idle", "syscall"} /\ h \in {"run", "reply"}
        /\ h = "run" => x \in Resuming \cup {"F"}
        /\ h = "reply" => x \notin Resuming \cup {"F"}
    BY <1>5 DEF Owing, Requests, Resuming
  <2>2. ~Pending(w.in) /\ ~Running(w) /\ w.out = <<>> /\ (\A y \in Owing : ~Has(w.in, y))
    BY <2>1 DEF Sound, InStep, Expected, Pending, Has
  <2>3. ~Running(v)
    BY <1>1, <2>2 DEF Running
  <2>4. Turns(v)
    BY <1>1, <1>3, <2>1, <2>2, <2>3 DEF Sound, InStep, Turns
  <2>5. Closing(h, v)
    BY <1>1, <1>2, <1>3, <2>1 DEF Closing
  <2>6. Expected(h, v)
    <3>1. Resuming \cup {"F"} \subseteq Owing
      BY DEF Resuming, Owing, Requests
    <3> QED BY <1>1, <1>3, <2>1, <2>2, <2>3, <3>1 DEF Expected
  <2>7. NoExit(v) /\ ErrorPossible(v)
    BY <1>1 DEF Sound, InStep, NoExit, ErrorPossible
  <2>8. Asks(v)
    BY <1>1, <1>3, <1>5, <2>1 DEF Sound, InStep, Asks, Requests
  <2>9. x = "F" => g = "syscall"
    BY <2>1 DEF Requests
  <2>10. Seen(h, v)
    BY <1>1, <1>3, <2>1, <2>3, <2>9 DEF Sound, Seen, Watched, NoCall, Fresh
  <2>11. Settled(h, v)
    BY <1>1, <1>3, <2>1, <2>3, <2>9 DEF Sound, Settled
  <2> QED BY <2>4, <2>5, <2>6, <2>7, <2>8, <2>10, <2>11 DEF Sound, InStep, v, r
<1> QED BY <1>4, <1>5

LEMMA SendSound == ASSUME Inv, GdbRequest \/ GdbInterrupt \/ GdbFileio \/ GdbLeaves PROVE Inv'
<1>1. World \in Worlds /\ TypeOK' /\ env' = env
  BY WorldType, ClientTypes DEF Inv, Client, GdbRequest, GdbInterrupt, GdbFileio, GdbLeaves
<1>2. ASSUME NEW x \in Incoming, toServer' = Append(toServer, x), UNCHANGED <<toGdb, con, tgt>>
      PROVE  World' = [World EXCEPT !.in = Append(@, x)]
  <2>1. World' = [con |-> con, tgt |-> tgt, in |-> Append(toServer, x), out |-> toGdb]
    BY <1>2 DEF World
  <2>2. [World EXCEPT !.in = Append(@, x)] = [con |-> con, tgt |-> tgt, in |-> Append(toServer, x), out |-> toGdb]
    BY DEF World
  <2> QED BY <2>1, <2>2
<1>3. CASE GdbRequest
  <2>1. PICK x \in env.packets :
          toServer' = Append(toServer, x) /\ gdb' = IF x \in Resuming THEN "run" ELSE "reply"
    BY <1>3 DEF GdbRequest
  <2>2. x \in Requests /\ x \in Incoming
    BY <2>1, EnvironmentsAssumption DEF Inv, TypeOK, Switches, Incoming
  <2>3. gdb = "idle" /\ World' = [World EXCEPT !.in = Append(@, x)]
    BY <1>2, <1>3, <2>1, <2>2 DEF GdbRequest
  <2>4. Orderly => Sound(gdb', [World EXCEPT !.in = Append(@, x)])
    BY <1>1, <2>1, <2>2, <2>3, SendsSound DEF Inv
  <2> QED BY <1>1, <2>3, <2>4, SoundNext
<1>4. CASE GdbInterrupt \/ GdbFileio \/ GdbLeaves
  <2>1. PICK x \in {"intr", "F", "eof"} :
          /\ toServer' = Append(toServer, x) /\ gdb # "off"
          /\ \/ x = "intr" /\ gdb = "run" /\ gdb' = "run"
             \/ x = "eof" /\ gdb' = "off"
             \/ x = "F" /\ gdb = "syscall" /\ gdb' = "run"
    BY <1>4 DEF GdbInterrupt, GdbFileio, GdbLeaves
  <2>2. x \in Incoming
    BY DEF Incoming
  <2>3. World' = [World EXCEPT !.in = Append(@, x)]
    BY <1>2, <1>4, <2>1, <2>2 DEF GdbInterrupt, GdbFileio, GdbLeaves
  <2>4. Orderly => Sound(gdb', [World EXCEPT !.in = Append(@, x)])
    BY <1>1, <2>1, <2>2, SendsSound DEF Inv
  <2> QED BY <1>1, <2>3, <2>4, SoundNext
<1> QED BY <1>3, <1>4

\* GDB reads: an answer is the last packet, and GDB was waiting for it.
LEMMA ReceiveSound == ASSUME Inv, GdbReceive PROVE Inv'
<1> DEFINE t == Tail(toGdb)
           x == Head(toGdb)
           w == World
           v == [con |-> con, tgt |-> tgt, in |-> toServer, out |-> t]
<1>1. /\ World \in Worlds /\ TypeOK' /\ env' = env /\ World' = v
      /\ v.con = w.con /\ v.tgt = w.tgt /\ v.in = w.in /\ v.out = t /\ w.out = toGdb
      /\ gdb # "off" /\ toGdb # <<>> /\ toGdb \in Seq(Outgoing)
  <2>1. World' = v
    BY DEF World, GdbReceive
  <2>2. toGdb \in Seq(Outgoing) /\ World \in Worlds /\ TypeOK'
    BY WorldType, ClientTypes DEF Inv, TypeOK, Client, Outgoing
  <2> QED BY <2>1, <2>2 DEF GdbReceive, World
<1>2. /\ Len(toGdb) \in Nat \ {0} /\ DOMAIN toGdb = 1 .. Len(toGdb) /\ x = toGdb[1]
      /\ Len(t) = Len(toGdb) - 1 /\ DOMAIN t = 1 .. Len(toGdb) - 1 /\ t \in Seq(Outgoing)
      /\ \A i \in 1 .. Len(toGdb) - 1 : t[i] = toGdb[i + 1]
  BY <1>1
<1>3. /\ gdb' = CASE x = "O" -> gdb [] x = "F" -> "syscall" [] x = "W" -> "exited" [] OTHER -> "idle"
  BY DEF GdbReceive
<1> HIDE DEF t, x, v, w
<1>4. ASSUME Orderly PROVE Sound(gdb', v)
  <2>1. Sound(gdb, w)
    BY <1>4 DEF Inv, w
  <2>2. /\ 1 \in DOMAIN toGdb /\ toGdb[1] = x
        /\ \A i \in DOMAIN t : i + 1 \in DOMAIN toGdb /\ t[i] = toGdb[i + 1]
        /\ \A i \in DOMAIN toGdb : i = 1 \/ (i - 1 \in DOMAIN t /\ t[i - 1] = toGdb[i])
    BY <1>2
  <2>3. \A y : Has(t, y) => Has(toGdb, y)
    BY <2>2 DEF Has
  <2>4. Has(toGdb, x)
    BY <2>2 DEF Has
  <2>5. ~Pending(w.in)
    BY <1>1, <2>1 DEF Sound, InStep, Turns
  <2>6. gdb \in {"reply", "run"} \/ gdb \notin {"idle", "syscall", "reply", "run", "exited"}
    BY <1>1, <2>1 DEF Sound, InStep, Expected
  <2>7. gdb \in {"reply", "run"}
    BY <1>1, <2>6 DEF Inv, TypeOK
  <2>8. w.con.open
    BY <1>1, <2>1 DEF Sound, InStep, Closing
  <2>9. NoExit(v) /\ ErrorPossible(v) /\ Asks(v)
    BY <1>1, <2>1 DEF Sound, InStep, NoExit, ErrorPossible, Asks
  <2>10. CASE x = "O"
    <3>1. gdb' = gdb
      BY <1>3, <2>10
    <3>2. \A i \in DOMAIN t : t[i] # "O" => i = Len(t)
      BY <1>1, <1>2, <2>1, <2>2 DEF Sound, InStep, Turns
    <3>3. (\E i \in DOMAIN toGdb : toGdb[i] # "O") => \E i \in DOMAIN t : t[i] # "O"
      BY <2>2, <2>10
    <3>4. Turns(v)
      BY <1>1, <2>1, <2>2, <2>5, <3>2 DEF Sound, InStep, Turns, Running
    <3>5. Closing(gdb, v)
      BY <1>1, <2>1, <2>8 DEF Sound, InStep, Closing
    <3>6. Expected(gdb, v)
      BY <1>1, <2>1, <2>2, <2>7, <3>3 DEF Sound, InStep, Expected, Running
    <3>7. Seen(gdb, v)
      BY <1>1, <2>1, <2>3 DEF Sound, Seen, Watched, NoCall, Fresh, Running
    <3>8. Settled(gdb, v)
      BY <1>1, <2>1, <2>3 DEF Sound, Settled, Running
    <3> QED BY <2>9, <3>1, <3>4, <3>5, <3>6, <3>7, <3>8 DEF Sound, InStep
  <2>11. CASE x # "O"
    <3>1. Len(toGdb) = 1 /\ t = <<>>
      BY <1>1, <1>2, <2>1, <2>2, <2>11 DEF Sound, InStep, Turns
    <3>2. ~Running(w) /\ ~w.con.forward
      BY <1>1, <2>1, <2>2, <2>11 DEF Sound, InStep, Turns
    <3>3. x \in {"T", "F", "OK"}
      BY <1>1, <2>1, <2>2, <2>7, <2>11 DEF Sound, InStep, Expected
    <3>4. gdb' \in {"idle", "syscall"} /\ (gdb' = "syscall" => Has(toGdb, "F"))
      BY <1>3, <2>4, <3>3
    <3>5. ~Running(v) /\ ~v.con.forward /\ v.out = <<>> /\ ~Pending(v.in) /\ ~Has(v.out, "F")
      BY <1>1, <2>5, <3>1, <3>2 DEF Running, Has
    <3>6. Turns(v)
      BY <1>1, <2>1, <3>5 DEF Sound, InStep, Turns
    <3>7. Closing(gdb', v)
      BY <1>1, <2>1, <2>8 DEF Sound, InStep, Closing
    <3>8. Expected(gdb', v)
      BY <3>4, <3>5 DEF Expected
    <3>9. Seen(gdb', v)
      BY <1>1, <2>1, <3>4, <3>5 DEF Sound, Seen, Watched, NoCall, Fresh
    <3>10. Settled(gdb', v)
      BY <1>1, <2>1, <3>4, <3>5 DEF Sound, Settled
    <3> QED BY <2>9, <3>6, <3>7, <3>8, <3>9, <3>10 DEF Sound, InStep
  <2> QED BY <2>10, <2>11
<1> QED BY <1>1, <1>4, SoundNext

LEMMA InitSound == Init => Inv
<1> SUFFICES ASSUME Init PROVE Inv
  OBVIOUS
<1>1. TypeOK
  <2>1. con \in Connections
    BY DEF Init, NoConnection, Connections
  <2>2. tgt \in Targets
    BY BoundsAssumption DEF Init, Targets
  <2>3. toServer \in Seq(Requests \cup {"F", "intr", "eof"}) /\ toGdb \in Seq(StopReplies \cup {"OK", "O"})
    BY DEF Init
  <2> QED BY <2>1, <2>2, <2>3 DEF Init, TypeOK
<1>2. /\ gdb = "off" /\ World.in = <<>> /\ World.out = <<>> /\ ~Running(World)
      /\ ~World.con.forward /\ ~World.con.mem_write_error
      /\ World.tgt.state = "halted" /\ World.tgt.cpu = "halted" /\ World.tgt.hit = "none" /\ World.tgt.at = "code"
  BY DEF Init, World, NoConnection, Running
<1>3. /\ \A x : ~Has(World.in, x) /\ ~Has(World.out, x)
      /\ ~Pending(World.in) /\ Once(World.in) /\ EndsWithEof(World.in)
  BY <1>2 DEF Has, Pending, Once, EndsWithEof
<1>4. Turns(World) /\ Closing(gdb, World) /\ Expected(gdb, World)
  BY <1>2, <1>3 DEF Turns, Closing, Expected
<1>5. NoExit(World) /\ ErrorPossible(World) /\ Asks(World)
  BY <1>2, <1>3 DEF NoExit, ErrorPossible, Asks
<1>6. Seen(gdb, World) /\ Settled(gdb, World)
  BY <1>2, <1>3 DEF Seen, Watched, NoCall, Fresh, Settled
<1> QED BY <1>1, <1>4, <1>5, <1>6 DEF Inv, Sound, InStep

LEMMA NextSound == Inv /\ [Next]_vars => Inv'
<1>1. CASE UNCHANGED vars
  <2>1. World' = World /\ env' = env /\ gdb' = gdb
    BY <1>1 DEF vars, World
  <2>2. Inv => TypeOK'
    BY <1>1, NextTypes DEF Inv
  <2>3. Inv => (Orderly => Sound(gdb, World))
    BY DEF Inv
  <2> QED BY <2>1, <2>2, <2>3, SoundNext
<1> QED
  BY <1>1, InputSound, PollSound, HaltCommandSound, ResumeCommandSound, LogSound, ClosedSound,
     NewConnectionSound, CpuSound, SendSound, ReceiveSound
  DEF Next, Server, Client

LEMMA Invariance == Spec => []Inv
BY InitSound, NextSound, PTL DEF Spec

-----------------------------------------------------------------------------
(* What follows. *)

LEMMA CountNone ==
  ASSUME NEW S, NEW q, \A i \in DOMAIN q : q[i] \notin S PROVE Count(S, q) = 0
<1>1. {i \in DOMAIN q : q[i] \in S} = {}
  OBVIOUS
<1> QED BY <1>1, FS_EmptySet DEF Count

LEMMA CountOne ==
  ASSUME NEW S, NEW q, NEW k \in DOMAIN q, q[k] \in S, \A i \in DOMAIN q : q[i] \in S => i = k
  PROVE  Count(S, q) = 1
<1>1. {i \in DOMAIN q : q[i] \in S} = {k}
  OBVIOUS
<1> QED BY <1>1, FS_Singleton DEF Count

LEMMA SoundInSync == Inv /\ Orderly => InSync
<1> SUFFICES ASSUME Inv, Orderly PROVE InSync
  OBVIOUS
<1> DEFINE A == Requests \cup {"F"}
           B == StopReplies \cup {"OK"}
<1>1. /\ TypeOK /\ Turns(World) /\ Closing(gdb, World) /\ Expected(gdb, World)
      /\ World.con = con /\ World.in = toServer /\ World.out = toGdb
      /\ World.con.frontend_state = con.frontend_state
  BY DEF Inv, Sound, InStep, World
<1>2. toGdb \in Seq(Outgoing) /\ \A i \in DOMAIN toGdb : toGdb[i] \in B <=> toGdb[i] # "O"
  BY <1>1 DEF TypeOK, Outgoing, StopReplies
<1>3. /\ ~Pending(toServer) => Count(A, toServer) = 0
      /\ Pending(toServer) => Count(A, toServer) = 1
  <2>1. CASE ~Pending(toServer)
    <3>1. \A i \in DOMAIN toServer : toServer[i] \notin A
      BY <2>1 DEF Pending, Owing
    <3> QED BY <2>1, <3>1, CountNone
  <2>2. CASE Pending(toServer)
    <3>1. PICK k \in DOMAIN toServer : toServer[k] \in A
      BY <2>2 DEF Pending, Owing
    <3>2. \A i \in DOMAIN toServer : toServer[i] \in A => i = k
      BY <1>1, <3>1 DEF Turns, Once, Owing
    <3> QED BY <2>2, <3>1, <3>2, CountOne
  <2> QED BY <2>1, <2>2
<1>4. /\ (\A i \in DOMAIN toGdb : toGdb[i] = "O") => Count(B, toGdb) = 0
      /\ (\E i \in DOMAIN toGdb : toGdb[i] # "O") => Count(B, toGdb) = 1
  <2>1. CASE \A i \in DOMAIN toGdb : toGdb[i] = "O"
    <3>1. \A i \in DOMAIN toGdb : toGdb[i] \notin B
      BY <1>2, <2>1
    <3> HIDE DEF B
    <3> QED BY <2>1, <3>1, CountNone
  <2>2. CASE \E i \in DOMAIN toGdb : toGdb[i] # "O"
    <3>1. PICK k \in DOMAIN toGdb : toGdb[k] # "O"
      BY <2>2
    <3>2. toGdb[k] \in B /\ \A i \in DOMAIN toGdb : toGdb[i] \in B => i = k
      BY <1>1, <1>2, <3>1 DEF Turns
    <3> HIDE DEF B
    <3> QED BY <2>2, <3>1, <3>2, CountOne
  <2> QED BY <2>1, <2>2
<1>5. Owed = Count(A, toServer) + Count(B, toGdb) + (IF Running(World) THEN 1 ELSE 0)
  BY <1>1 DEF Owed, Running
<1> HIDE DEF A, B
<1>6. Attached => Owed = IF gdb \in {"reply", "run"} THEN 1 ELSE 0
  <2> SUFFICES ASSUME Attached PROVE Owed = IF gdb \in {"reply", "run"} THEN 1 ELSE 0
    OBVIOUS
  <2>1. gdb \in {"idle", "syscall", "reply", "run"}
    BY <1>1 DEF Attached, TypeOK, Expected
  <2>2. CASE gdb \in {"idle", "syscall"}
    <3>1. ~Pending(toServer) /\ ~Running(World) /\ \A i \in DOMAIN toGdb : toGdb[i] = "O"
      BY <1>1, <2>2 DEF Expected
    <3> QED BY <1>3, <1>4, <1>5, <2>2, <3>1
  <2>3. CASE gdb \in {"reply", "run"}
    <3>1. CASE Pending(toServer)
      <4>1. ~Running(World) /\ \A i \in DOMAIN toGdb : toGdb[i] = "O"
        BY <1>1, <3>1 DEF Turns
      <4> QED BY <1>3, <1>4, <1>5, <2>3, <3>1, <4>1
    <3>2. CASE ~Pending(toServer) /\ Running(World)
      <4>1. \A i \in DOMAIN toGdb : toGdb[i] = "O"
        BY <1>1, <3>2 DEF Turns
      <4> QED BY <1>3, <1>4, <1>5, <2>3, <3>2, <4>1
    <3>3. CASE ~Pending(toServer) /\ ~Running(World)
      <4>1. \E i \in DOMAIN toGdb : toGdb[i] # "O"
        BY <1>1, <2>3, <3>3 DEF Expected
      <4> QED BY <1>3, <1>4, <1>5, <2>3, <3>3, <4>1
    <3> QED BY <3>1, <3>2, <3>3
  <2> QED BY <2>1, <2>2, <2>3
<1>7. gdb = "reply" => Count(StopReplies, toGdb) = 0
  <2>1. gdb = "reply" => \A i \in DOMAIN toGdb : toGdb[i] \notin StopReplies
    BY <1>1 DEF Expected, StopReplies
  <2> QED BY <2>1, CountNone
<1>8. gdb = "run" => Count({"OK"}, toGdb) = 0
  <2>1. gdb = "run" => \A i \in DOMAIN toGdb : toGdb[i] \notin {"OK"}
    BY <1>1 DEF Expected
  <2> QED BY <2>1, CountNone
<1>9. LogOnlyWhileWaiting
  <2>1. con.forward => con.open /\ con.frontend_state = "running"
    BY <1>1 DEF Turns, Closing, Running
  <2>2. Attached /\ "O" \in ToSet(toGdb) => gdb = "run"
    BY <1>1 DEF ToSet, Attached, Expected, TypeOK
  <2>3. \A i \in DOMAIN toGdb : toGdb[i] # "O" => i = Len(toGdb)
    BY <1>1 DEF Turns
  <2> QED BY <2>1, <2>2, <2>3 DEF LogOnlyWhileWaiting
<1> QED BY <1>6, <1>7, <1>8, <1>9 DEF InSync, RepliesOwed

\* Whatever is polled, logged, resumed from telnet or failed in between, GDB and the
\* server agree on who owes whom, and the log reaches GDB only while it waits for a stop.
THEOREM GdbInStep == Spec => [](Orderly => InSync)
BY Invariance, SoundInSync, PTL

\* No halt goes by unseen while the server owes a stop reply.
THEOREM StopsAreSeen == Spec => [](Watchful => NoLostStop)
<1>1. Inv => (Watchful => NoLostStop)
  <2> SUFFICES ASSUME Inv, Watchful, con.frontend_state = "running" PROVE tgt.state # "halted"
    BY DEF NoLostStop
  <2>1. Sound(gdb, World) /\ World.con = con /\ World.tgt = tgt
    BY DEF Inv, Watchful, World
  <2> QED BY <2>1 DEF Sound, Seen, Watched, Running
<1> QED BY <1>1, Invariance, PTL

\* A write that failed after it was acknowledged is forgotten by the time the target
\* runs: GDB has had an answer to c or s since.
THEOREM WriteErrorsSettled == Spec => [](Orderly => WriteErrorSettled)
<1>1. Inv => (Orderly => WriteErrorSettled)
  <2> SUFFICES ASSUME Inv, Orderly, env.packets \cap {"vCont;c", "vCont;s"} = {},
                      con.frontend_state = "running"
               PROVE  ~con.mem_write_error
    BY DEF WriteErrorSettled
  <2>1. Sound(gdb, World) /\ World.con = con
    BY DEF Inv, World
  <2> QED BY <2>1 DEF Sound, Settled, Running
<1> QED BY <1>1, Invariance, PTL
=============================================================================
