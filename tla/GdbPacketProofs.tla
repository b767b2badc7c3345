--------------------------- MODULE GdbPacketProofs ---------------------------
(***************************************************************************)
(* GdbPacket: its types, that requests and replies arrive in order and     *)
(* once, and that no interrupt is lost, for every number of requests, log  *)
(* packets and spoiled packets, and every environment in which GDB is      *)
(* Patient (replies: if, on a line that spoils packets, the server's are   *)
(* large).                                                                 *)
(***************************************************************************)
EXTENDS GdbPacket, SequenceTheorems, TLAPS

Signs == {"+", "-"}
Parts == {"$", "body"}
Awaiting == {"answer", "answer after interrupt"}

Has(s, K) == \E i \in DOMAIN s : s[i].k \in K
Single(s, K) == \A i, j \in DOMAIN s : s[i].k \in K /\ s[j].k \in K => i = j

-----------------------------------------------------------------------------
(* Channels. *)

LEMMA SignTypes ==
  ASSUME NEW k \in {"+", "-", "$", "intr", "body"}
  PROVE  Sign(k) \in Tokens /\ Sign(k).k = k
BY BoundsAssumption DEF Sign, Tokens

LEMMA BodyTypes ==
  ASSUME NEW n \in Nat, NEW kind \in Kinds \cup {"reply", "stop", "out"}
  PROVE  /\ Body(n, kind) \in Tokens /\ Body(n, kind).k = "body" /\ Body(n, kind).id = n
         /\ Body(n, kind).kind = kind /\ Body(n, kind).good /\ Body(n, kind).extra = 0
BY BoundsAssumption DEF Body, Tokens

\* What is read next, and what is behind it.
LEMMA ReadFacts ==
  ASSUME NEW s \in Seq(Tokens), s # <<>>
  PROVE  /\ Head(s) \in Tokens /\ Tail(s) \in Seq(Tokens) /\ Head(s) = s[1] /\ 1 \in DOMAIN s
         /\ Len(s) \in Nat \ {0} /\ Len(Tail(s)) = Len(s) - 1
         /\ \A i \in DOMAIN Tail(s) : i \in Nat /\ i + 1 \in DOMAIN s /\ Tail(s)[i] = s[i + 1]
         /\ \A i \in DOMAIN s : i = 1 \/ (i - 1 \in DOMAIN Tail(s) /\ Tail(s)[i - 1] = s[i])
         /\ \A K : Has(Tail(s), K) => Has(s, K)
         /\ \A K : Head(s).k \notin K => (Has(s, K) <=> Has(Tail(s), K))
         /\ \A K : Head(s).k \in K => Has(s, K)
         /\ \A K : Single(s, K) => Single(Tail(s), K)
         /\ \A K : Single(s, K) /\ Head(s).k \in K => ~Has(Tail(s), K)
<1> DEFINE t == Tail(s)
<1>1. /\ Head(s) = s[1] /\ Len(s) \in Nat \ {0} /\ DOMAIN s = 1 .. Len(s) /\ s[1] \in Tokens
      /\ t \in Seq(Tokens) /\ Len(t) = Len(s) - 1 /\ DOMAIN t = 1 .. Len(s) - 1
      /\ \A i \in 1 .. Len(s) - 1 : t[i] = s[i + 1]
  OBVIOUS
<1> HIDE DEF t
<1>2. 1 \in DOMAIN s /\ \A i \in DOMAIN t : i \in Nat /\ i + 1 \in DOMAIN s /\ t[i] = s[i + 1] /\ i + 1 # 1
  BY <1>1
<1>3. \A i \in DOMAIN s : i = 1 \/ (i - 1 \in DOMAIN t /\ t[i - 1] = s[i])
  BY <1>1
<1>4. \A K : Has(t, K) => Has(s, K)
  BY <1>2 DEF Has
<1>5. \A K : Head(s).k \notin K => (Has(s, K) <=> Has(t, K))
  <2>1. \A K : Has(s, K) => s[1].k \in K \/ Has(t, K)
    BY <1>3 DEF Has
  <2> QED BY <1>1, <1>4, <2>1
<1>6. \A K : Head(s).k \in K => Has(s, K)
  BY <1>1, <1>2 DEF Has
<1>7. \A K : Single(s, K) => Single(t, K)
  <2> SUFFICES ASSUME NEW K, Single(s, K), NEW i \in DOMAIN t, NEW j \in DOMAIN t, t[i].k \in K, t[j].k \in K
               PROVE  i = j
    BY DEF Single
  <2>1. i + 1 = j + 1
    BY <1>2 DEF Single
  <2> QED BY <1>2, <2>1
<1>8. \A K : Single(s, K) /\ Head(s).k \in K => ~Has(t, K)
  BY <1>1, <1>2 DEF Single, Has
<1> QED BY <1>1, <1>2, <1>3, <1>4, <1>5, <1>6, <1>7, <1>8 DEF t

LEMMA AppendFacts ==
  ASSUME NEW s \in Seq(Tokens), NEW e \in Tokens
  PROVE  /\ Append(s, e) \in Seq(Tokens) /\ Append(s, e) # <<>>
         /\ Len(s) \in Nat /\ Len(Append(s, e)) = Len(s) + 1
         /\ \A i \in DOMAIN s : i \in Nat /\ i \in DOMAIN Append(s, e) /\ Append(s, e)[i] = s[i]
         /\ \A i \in DOMAIN Append(s, e) :
              (i = Len(s) + 1 /\ Append(s, e)[i] = e) \/ (i \in DOMAIN s /\ Append(s, e)[i] = s[i])
         /\ Len(s) + 1 \in DOMAIN Append(s, e) /\ Append(s, e)[Len(s) + 1] = e
         /\ \A K : Has(Append(s, e), K) <=> Has(s, K) \/ e.k \in K
         /\ \A K : Single(s, K) /\ (e.k \in K => ~Has(s, K)) => Single(Append(s, e), K)
<1> DEFINE t == Append(s, e)
<1>1. /\ Len(s) \in Nat /\ DOMAIN s = 1 .. Len(s) /\ DOMAIN t = 1 .. Len(s) + 1 /\ Len(t) = Len(s) + 1
      /\ t[Len(s) + 1] = e /\ (\A i \in 1 .. Len(s) : t[i] = s[i]) /\ t \in Seq(Tokens)
  OBVIOUS
<1>2. t # <<>>
  BY <1>1, Len(<<>>) = 0
<1> HIDE DEF t
<1>3. /\ \A i \in DOMAIN s : i \in Nat /\ i \in DOMAIN t /\ t[i] = s[i]
      /\ \A i \in DOMAIN t : (i = Len(s) + 1 /\ t[i] = e) \/ (i \in DOMAIN s /\ t[i] = s[i])
      /\ Len(s) + 1 \in DOMAIN t
  BY <1>1
<1>4. \A K : Has(t, K) <=> Has(s, K) \/ e.k \in K
  BY <1>1, <1>3 DEF Has
<1>5. \A K : Single(s, K) /\ (e.k \in K => ~Has(s, K)) => Single(t, K)
  BY <1>3 DEF Has, Single
<1> QED BY <1>1, <1>2, <1>3, <1>4, <1>5 DEF t

-----------------------------------------------------------------------------
(* The types. *)

TypesKnown == TypeOK /\ (pc \in Awaiting \cup {"send"} => packet \in Tokens)

LEMMA EnvTypes ==
  ASSUME env \in Environments
  PROVE  /\ env.kinds \subseteq Kinds /\ env.interrupts \in 0 .. 2 /\ env.noise \in BOOLEAN
         /\ env.large \in BOOLEAN /\ env.slow \in BOOLEAN /\ env.split \in BOOLEAN
         /\ env.impatient \in BOOLEAN
BY EnvironmentsAssumption

LEMMA NextLengthType ==
  ASSUME packet \in Tokens \cup {NoPacket}
  PROVE  NextLength \in 0 .. MaxExtra
<1>1. packet.extra \in 0 .. MaxExtra
  BY BoundsAssumption DEF Tokens, NoPacket, Sign
<1> DEFINE S == {packet.extra + 1, MaxExtra}
<1>2. \E x \in S : \A y \in S : x =< y
  BY <1>1, BoundsAssumption
<1>3. Min(S) \in S /\ \A y \in S : Min(S) =< y
  BY <1>2 DEF Min
<1>4. Min(S) \in 0 .. MaxExtra
  BY <1>1, <1>3, BoundsAssumption
<1> QED BY <1>1, <1>4 DEF NextLength

\* The packet as it is left for the next time, and a body the line spoiled.
Longer == [packet EXCEPT !.extra = NextLength]
Spoilt(c, i) == [c EXCEPT ![i].good = FALSE]

LEMMA LongerFacts ==
  ASSUME packet \in Tokens
  PROVE  /\ Longer \in Tokens /\ Longer.k = packet.k /\ Longer.id = packet.id
         /\ Longer.kind = packet.kind /\ Longer.good = packet.good /\ Longer.extra = NextLength
<1>1. NextLength \in 0 .. MaxExtra
  BY NextLengthType
<1> QED BY <1>1 DEF Longer, Tokens

LEMMA SpoiltFacts ==
  ASSUME NEW c \in Seq(Tokens), NEW i \in DOMAIN c
  PROVE  /\ Spoilt(c, i) \in Seq(Tokens) /\ Len(Spoilt(c, i)) = Len(c)
         /\ DOMAIN Spoilt(c, i) = DOMAIN c
         /\ \A j \in DOMAIN c :
              /\ Spoilt(c, i)[j] \in Tokens
              /\ Spoilt(c, i)[j].k = c[j].k /\ Spoilt(c, i)[j].id = c[j].id
              /\ Spoilt(c, i)[j].kind = c[j].kind /\ Spoilt(c, i)[j].extra = c[j].extra
              /\ j # i => Spoilt(c, i)[j] = c[j]
<1> DEFINE b == [c[i] EXCEPT !.good = FALSE]
           d == [c EXCEPT ![i] = b]
<1>1. c[i] \in Tokens /\ DOMAIN c = 1 .. Len(c) /\ Len(c) \in Nat /\ \A j \in DOMAIN c : c[j] \in Tokens
  OBVIOUS
<1>2. b \in Tokens /\ b.k = c[i].k /\ b.id = c[i].id /\ b.kind = c[i].kind /\ b.extra = c[i].extra
  BY <1>1 DEF Tokens
<1> HIDE DEF b
<1>3. d \in Seq(Tokens) /\ Len(d) = Len(c) /\ DOMAIN d = DOMAIN c
      /\ d[i] = b /\ \A j \in DOMAIN c : j # i => d[j] = c[j]
  BY <1>1, <1>2
<1>4. Spoilt(c, i) = d
  BY DEF Spoilt, b
<1> QED BY <1>1, <1>2, <1>3, <1>4

\* The types of what is in a sequence, each on its own.
LEMMA SequenceTypes ==
  ASSUME TypesKnown
  PROVE  /\ toServer \in Seq(Tokens) /\ toGdb \in Seq(Tokens) /\ todo \in Seq(Todo)
         /\ served \in Seq(Nat) /\ accepted \in Seq(Nat)
BY DEF TypesKnown, TypeOK

LEMMA FirstTypes ==
  ASSUME NEW S, NEW s \in Seq(S), s # <<>>
  PROVE  Head(s) \in S /\ Tail(s) \in Seq(S)
OBVIOUS

LEMMA LastTypes ==
  ASSUME NEW S, NEW s \in Seq(S), NEW e \in S
  PROVE  Append(s, e) \in Seq(S)
OBVIOUS

LEMMA JoinTypes ==
  ASSUME NEW S, NEW s \in Seq(S), NEW t \in Seq(S)
  PROVE  s \o t \in Seq(S)
OBVIOUS

LEMMA TodoTypes ==
  /\ <<>> \in Seq(Todo) /\ <<"stop">> \in Seq(Todo) /\ <<"out">> \in Seq(Todo)
  /\ <<"reply">> \in Seq(Todo) /\ <<"stop", "clear">> \in Seq(Todo)
<1>1. "stop" \in Todo /\ "out" \in Todo /\ "reply" \in Todo /\ "clear" \in Todo
  BY DEF Todo
<1> QED BY <1>1

LEMMA SilentServerTypes ==
  ASSUME TypesKnown,
         Input \/ SkipSign \/ GetStart \/ GetTimeout \/ GetInterrupt \/ GetBad \/ Handled
           \/ ClearCtrlC \/ Poll \/ Answer \/ AnswerInterrupt \/ AnswerTimeout
  PROVE  TypesKnown'
<1> USE DEF GdbRest, gdbVars, sending, session, server, Awaiting
<1>1. toServer # <<>> => Here \in Tokens /\ Tail(toServer) \in Seq(Tokens)
  BY SequenceTypes, FirstTypes DEF Here
<1>2. todo # <<>> => Tail(todo) \in Seq(Todo)
  BY SequenceTypes, FirstTypes
<1>3. /\ <<>> \in Seq(Todo) /\ <<"stop">> \in Seq(Todo) /\ <<"out">> \in Seq(Todo)
      /\ <<"stop", "clear">> \in Seq(Todo)
  BY TodoTypes
<1>4. CASE Input
  BY <1>4 DEF TypesKnown, TypeOK, Input
<1>5. CASE SkipSign
  BY <1>1, <1>5 DEF TypesKnown, TypeOK, SkipSign, Reads
<1>6. CASE GetStart
  BY <1>1, <1>6 DEF TypesKnown, TypeOK, GetStart, Reads
<1>7. CASE GetTimeout
  BY <1>7 DEF TypesKnown, TypeOK, GetTimeout
<1>8. CASE GetInterrupt
  BY <1>1, <1>3, <1>8 DEF TypesKnown, TypeOK, GetInterrupt, Reads, CtrlC
<1>9. CASE GetBad
  BY <1>1, <1>9 DEF TypesKnown, TypeOK, GetBad, Reads
<1>10. CASE Handled
  BY <1>10 DEF TypesKnown, TypeOK, Handled
<1>11. CASE ClearCtrlC
  BY <1>2, <1>11 DEF TypesKnown, TypeOK, ClearCtrlC
<1>12. CASE Poll
  <2>1. out' \in 0 .. MaxOut /\ todo' \in Seq(Todo)
    <3>1. out \in 0 .. MaxOut
      BY DEF TypesKnown, TypeOK
    <3>2. out' = out \/ (out < MaxOut /\ out' = out + 1)
      BY <1>12 DEF Poll
    <3>3. todo' \in Seq(Todo)
      BY <1>3, <1>12 DEF Poll
    <3> QED BY <3>1, <3>2, <3>3, BoundsAssumption
  <2> QED BY <2>1, <1>12 DEF TypesKnown, TypeOK, Poll
<1>13. CASE Answer
  BY <1>1, <1>13 DEF TypesKnown, TypeOK, Answer, Reads, After
<1>14. CASE AnswerInterrupt
  BY <1>1, <1>14 DEF TypesKnown, TypeOK, AnswerInterrupt, Reads, Remembered
<1>15. CASE AnswerTimeout
  BY <1>15 DEF TypesKnown, TypeOK, AnswerTimeout
<1> QED BY <1>4, <1>5, <1>6, <1>7, <1>8, <1>9, <1>10, <1>11, <1>12, <1>13, <1>14, <1>15

LEMMA BusyServerTypes ==
  ASSUME TypesKnown, GetPacket \/ Put \/ Send
  PROVE  TypesKnown'
<1> USE DEF GdbRest, gdbVars, sending, session, server, Awaiting
<1>1. toServer # <<>> => Here \in Tokens /\ Tail(toServer) \in Seq(Tokens)
  BY SequenceTypes, FirstTypes DEF Here
<1>2. CASE GetPacket
  <2>1. Here \in Tokens /\ Tail(toServer) \in Seq(Tokens) /\ Here.id \in Nat
    BY <1>1, <1>2 DEF GetPacket, Tokens
  <2>2. toGdb' \in Seq(Tokens)
    <3>1. Acknowledged \in Seq(Tokens)
      <4>1. Sign("+") \in Tokens
        BY SignTypes
      <4> QED BY <4>1 DEF Acknowledged
    <3> QED BY <1>2, <3>1, SequenceTypes, JoinTypes DEF GetPacket
  <2>3. served' \in Seq(Nat)
    BY <1>2, <2>1, SequenceTypes, LastTypes DEF GetPacket
  <2>4. todo' \in Seq(Todo)
    <3>1. CtrlC \in Seq(Todo)
      BY TodoTypes DEF CtrlC
    <3>2. (IF Here.kind = "continue" THEN <<>> ELSE <<"reply">>) \in Seq(Todo)
      BY TodoTypes
    <3> QED BY <1>2, <3>1, <3>2, JoinTypes DEF GetPacket
  <2>5. out' \in 0 .. MaxOut /\ running' \in BOOLEAN /\ forward' \in BOOLEAN /\ noack' \in BOOLEAN
    <3>1. out \in 0 .. MaxOut /\ running \in BOOLEAN /\ forward \in BOOLEAN /\ noack \in BOOLEAN
      BY DEF TypesKnown, TypeOK
    <3> QED BY <1>2, <3>1, BoundsAssumption DEF GetPacket
  <2> QED BY <1>2, <2>1, <2>2, <2>3, <2>4, <2>5 DEF TypesKnown, TypeOK, GetPacket, Reads
<1>3. CASE Put
  <2>1. Tail(todo) \in Seq(Todo) /\ Head(todo) \in {"reply", "stop", "out"}
    BY <1>3, SequenceTypes, FirstTypes DEF Put, Todo
  <2>2. puts \in Nat /\ puts + 1 \in Nat
    <3>1. puts \in Nat
      BY DEF TypesKnown, TypeOK
    <3> QED BY <3>1
  <2>3. Body(puts + 1, Head(todo)) \in Tokens
    BY <2>1, <2>2, BodyTypes
  <2>4. packet' \in Tokens /\ puts' \in Nat /\ todo' \in Seq(Todo)
    BY <1>3, <2>1, <2>2, <2>3 DEF Put
  <2>5. ctrl_c' \in BOOLEAN /\ forward' \in BOOLEAN /\ running' \in BOOLEAN
    BY <1>3 DEF Put, TypesKnown, TypeOK
  <2> QED BY <1>3, <2>4, <2>5 DEF Put, TypesKnown, TypeOK
<1>4. CASE Send
  <2>1. packet \in Tokens
    BY <1>4 DEF Send, TypesKnown
  <2>2. toGdb' = Append(toGdb, packet) /\ packet' = Longer
    BY <1>4 DEF Send, Longer
  <2>3. toGdb' \in Seq(Tokens)
    BY <2>1, <2>2, SequenceTypes, LastTypes
  <2>4. packet' \in Tokens
    BY <2>1, <2>2, LongerFacts
  <2> QED BY <1>4, <2>3, <2>4 DEF Send, TypesKnown, TypeOK
<1> QED BY <1>2, <1>3, <1>4

LEMMA GdbTypes ==
  ASSUME TypesKnown, Gdb \/ Noise
  PROVE  TypesKnown'
<1> USE DEF ServerRest, gdbVars, sending, session, server, Awaiting
<1>1. toGdb # <<>> => Head(toGdb) \in Tokens /\ Tail(toGdb) \in Seq(Tokens)
  BY SequenceTypes, FirstTypes
<1>0. /\ env \in Environments /\ requests \in 0 .. MaxRequests /\ request \in Kinds
      /\ spoiled \in 0 .. MaxNoise
  BY DEF TypesKnown, TypeOK
<1>2. CASE GdbRequest
  <2>1. request' \in Kinds
    BY <1>0, <1>2, EnvTypes DEF GdbRequest
  <2>2. requests' \in 0 .. MaxRequests
    BY <1>0, <1>2, BoundsAssumption DEF GdbRequest
  <2>3. /\ asked' = 0 /\ gdb' = "sending" /\ UNCHANGED <<toServer, toGdb, accepted>>
        /\ UNCHANGED <<env, spoiled, pc, packet, puts, todo, served, noack>>
        /\ UNCHANGED <<ctrl_c, forward, running, out>>
    BY <1>2 DEF GdbRequest
  <2>4. asked' \in 0 .. 2 /\ gdb' \in {"idle", "sending", "sending body", "unanswered", "waiting"}
    BY <2>3
  <2>5. TypeOK /\ (pc \in Awaiting \cup {"send"} => packet \in Tokens)
    BY DEF TypesKnown
  <2>6. TypeOK'
    BY <2>1, <2>2, <2>3, <2>4, <2>5 DEF TypeOK
  <2> QED BY <2>3, <2>5, <2>6 DEF TypesKnown
<1>3. Sign("$") \in Tokens /\ Body(requests, request) \in Tokens /\ Sign("intr") \in Tokens
      /\ Sign("+") \in Tokens /\ Sign("-") \in Tokens
  <2>1. requests \in Nat
    BY <1>0, BoundsAssumption
  <2> QED BY <1>0, <2>1, SignTypes, BodyTypes
<1>4. CASE GdbWrites
  <2>1. <<Sign("$"), Body(requests, request)>> \in Seq(Tokens)
    BY <1>3
  <2>2. toServer' \in Seq(Tokens)
    BY <1>3, <1>4, <2>1, SequenceTypes, LastTypes, JoinTypes DEF GdbWrites
  <2>3. spoiled' \in 0 .. MaxNoise
    <3>1. spoiled' = spoiled \/ (spoiled < MaxNoise /\ spoiled' = spoiled + 1)
      BY <1>4 DEF GdbWrites
    <3> QED BY <1>0, <3>1, BoundsAssumption
  <2> QED BY <1>4, <2>2, <2>3 DEF GdbWrites, Written, TypesKnown, TypeOK
<1>5. CASE GdbWritesBody
  <2>1. toServer' \in Seq(Tokens)
    BY <1>3, <1>5, SequenceTypes, LastTypes DEF GdbWritesBody
  <2> QED BY <1>5, <2>1 DEF GdbWritesBody, Written, TypesKnown, TypeOK
<1>6. CASE GdbSendsAgain
  BY <1>6 DEF GdbSendsAgain, TypesKnown, TypeOK
<1>7. CASE GdbAnswered
  BY <1>1, <1>7 DEF GdbAnswered, TypesKnown, TypeOK
<1>8. CASE GdbTakes
  <2>1. toServer' \in Seq(Tokens)
    BY <1>3, <1>8, SequenceTypes, LastTypes DEF GdbTakes, Says
  <2>2. accepted' \in Seq(Nat)
    <3>1. (IF Head(toGdb).extra = 0 THEN Head(toGdb).id ELSE 0) \in Nat
      BY <1>1, <1>8 DEF GdbTakes, Tokens
    <3> QED BY <1>8, <3>1, SequenceTypes, LastTypes DEF GdbTakes
  <2> QED BY <1>1, <1>8, <2>1, <2>2 DEF GdbTakes, TypesKnown, TypeOK
<1>9. CASE GdbRefuses
  <2>1. toServer' \in Seq(Tokens)
    BY <1>3, <1>9, SequenceTypes, LastTypes DEF GdbRefuses, Says
  <2> QED BY <1>1, <1>9, <2>1 DEF GdbRefuses, TypesKnown, TypeOK
<1>10. CASE GdbInterrupts
  <2>1. toServer' \in Seq(Tokens)
    BY <1>3, <1>10, SequenceTypes, LastTypes DEF GdbInterrupts
  <2>2. asked' \in 0 .. 2
    <3>1. asked \in 0 .. 2 /\ env.interrupts \in 0 .. 2
      BY <1>0, EnvTypes DEF TypesKnown, TypeOK
    <3> QED BY <1>10, <3>1 DEF GdbInterrupts
  <2> QED BY <1>10, <2>1, <2>2 DEF GdbInterrupts, TypesKnown, TypeOK
<1>11. CASE Noise
  <2>1. spoiled' \in 0 .. MaxNoise
    BY <1>0, <1>11, BoundsAssumption DEF Noise
  <2>2. \A c \in Seq(Tokens) : Spoils(c) \subseteq Seq(Tokens)
    <3> SUFFICES ASSUME NEW c \in Seq(Tokens), NEW i \in DOMAIN c
                 PROVE  Spoilt(c, i) \in Seq(Tokens)
      BY DEF Spoils, Spoilt
    <3> QED BY SpoiltFacts
  <2>3. toGdb' \in Seq(Tokens) /\ toServer' \in Seq(Tokens)
    BY <1>11, <2>2, SequenceTypes DEF Noise
  <2> QED BY <1>11, <2>1, <2>3 DEF Noise, TypesKnown, TypeOK
<1> QED BY <1>2, <1>4, <1>5, <1>6, <1>7, <1>8, <1>9, <1>10, <1>11 DEF Gdb

LEMMA TypesStay ==
  ASSUME TypesKnown, UNCHANGED vars
  PROVE  TypesKnown'
BY DEF TypesKnown, TypeOK, vars, gdbVars, sending, session, server

-----------------------------------------------------------------------------
(* What may be on the way to the server, and to GDB. *)

\* A request n of kind r is on its way if it is "open", and "broken" off after its $.
Way(s, n, r, open, broken) ==
  /\ \A i \in DOMAIN s : s[i].k \in Parts =>
       open /\ \A j \in DOMAIN s : j > i => s[j].k \notin Signs
  /\ \A i \in DOMAIN s : s[i].k = "body" => s[i].id = n /\ s[i].kind = r /\ ~broken
  /\ \A i \in DOMAIN s :
       s[i].k = "$" => IF i = Len(s) THEN broken ELSE i + 1 \in DOMAIN s /\ s[i + 1].k = "body"
  /\ Single(s, {"body"}) /\ Single(s, {"$"})

PlusFirst(t) == \A i \in DOMAIN t : t[i].k = "body" \/ (t[i].k = "+" /\ i = 1)
\* Packets are numbered so that the last is the z-th.
Numbered(t, z) == \A i \in DOMAIN t : t[i].k = "body" => t[i].id + (Len(t) - i) = z
\* A packet that is no log packet is the last, and what it answers has "ended".
LastFinal(t, ended) ==
  \A i \in DOMAIN t : t[i].k = "body" /\ t[i].kind # "out" => i = Len(t) /\ ended
Bodies(t) == Len(t) - (IF Has(t, {"+"}) THEN 1 ELSE 0)
Short(t) == \A i \in DOMAIN t : t[i].extra = 0
Pure(t) == \A i \in DOMAIN t : t[i].good /\ t[i].extra = 0

LEMMA WayFree ==
  ASSUME NEW s \in Seq(Tokens), ~Has(s, Parts), NEW n, NEW r, NEW open, NEW broken
  PROVE  Way(s, n, r, open, broken)
BY DEF Way, Has, Parts, Single

LEMMA WayTail ==
  ASSUME NEW s \in Seq(Tokens), s # <<>>, NEW n, NEW r, NEW open, NEW broken,
         Way(s, n, r, open, broken)
  PROVE  Way(Tail(s), n, r, open, broken)
<1> DEFINE t == Tail(s)
<1>1. /\ DOMAIN s = 1 .. Len(s) /\ DOMAIN t = 1 .. Len(t) /\ Len(s) \in Nat \ {0}
      /\ Len(t) = Len(s) - 1 /\ \A i \in DOMAIN t : i \in Nat /\ i + 1 \in DOMAIN s /\ t[i] = s[i + 1]
  BY ReadFacts
<1>2. Single(t, {"body"}) /\ Single(t, {"$"})
  BY ReadFacts DEF Way
<1> HIDE DEF t
<1>3. \A i \in DOMAIN t : t[i].k \in Parts =>
        open /\ \A j \in DOMAIN t : j > i => t[j].k \notin Signs
  <2> SUFFICES ASSUME NEW i \in DOMAIN t, t[i].k \in Parts
               PROVE  open /\ \A j \in DOMAIN t : j > i => t[j].k \notin Signs
    OBVIOUS
  <2>1. open /\ \A j \in DOMAIN s : j > i + 1 => s[j].k \notin Signs
    BY <1>1 DEF Way
  <2> QED BY <1>1, <2>1
<1>4. \A i \in DOMAIN t : t[i].k = "body" => t[i].id = n /\ t[i].kind = r /\ ~broken
  BY <1>1 DEF Way
<1>5. \A i \in DOMAIN t :
        t[i].k = "$" => IF i = Len(t) THEN broken ELSE i + 1 \in DOMAIN t /\ t[i + 1].k = "body"
  <2> SUFFICES ASSUME NEW i \in DOMAIN t, t[i].k = "$"
               PROVE  IF i = Len(t) THEN broken ELSE i + 1 \in DOMAIN t /\ t[i + 1].k = "body"
    OBVIOUS
  <2>1. IF i + 1 = Len(s) THEN broken ELSE (i + 1) + 1 \in DOMAIN s /\ s[(i + 1) + 1].k = "body"
    BY <1>1 DEF Way
  <2> QED BY <1>1, <2>1
<1> QED BY <1>2, <1>3, <1>4, <1>5 DEF Way, t

\* What GDB writes that is no part of a request, before its second part if one is under way.
LEMMA WayAppend ==
  ASSUME NEW s \in Seq(Tokens), NEW e \in Tokens, e.k = "intr",
         NEW n, NEW r, NEW open, NEW broken, ~broken, Way(s, n, r, open, broken)
  PROVE  Way(Append(s, e), n, r, open, broken)
<1> DEFINE t == Append(s, e)
<1>1. /\ DOMAIN s = 1 .. Len(s) /\ DOMAIN t = 1 .. Len(t) /\ Len(s) \in Nat /\ Len(t) = Len(s) + 1
      /\ t[Len(t)] = e /\ \A i \in DOMAIN s : i \in Nat /\ i \in DOMAIN t /\ t[i] = s[i]
  BY AppendFacts
<1>2. Single(t, {"body"}) /\ Single(t, {"$"})
  BY AppendFacts DEF Way
<1> HIDE DEF t
<1>3. \A i \in DOMAIN t : i \in DOMAIN s \/ (i = Len(t) /\ t[i].k = "intr")
  BY <1>1
<1>4. \A i \in DOMAIN t : t[i].k \in Parts =>
        open /\ \A j \in DOMAIN t : j > i => t[j].k \notin Signs
  BY <1>1, <1>3 DEF Way, Parts, Signs
<1>5. \A i \in DOMAIN t : t[i].k = "body" => t[i].id = n /\ t[i].kind = r /\ ~broken
  BY <1>1, <1>3 DEF Way
<1>6. \A i \in DOMAIN t :
        t[i].k = "$" => IF i = Len(t) THEN broken ELSE i + 1 \in DOMAIN t /\ t[i + 1].k = "body"
  BY <1>1, <1>3 DEF Way
<1> QED BY <1>2, <1>4, <1>5, <1>6 DEF Way, t

\* The $ of a request.
LEMMA WayStart ==
  ASSUME NEW s \in Seq(Tokens), ~Has(s, Parts), NEW e \in Tokens, e.k = "$", NEW n, NEW r
  PROVE  Way(Append(s, e), n, r, TRUE, TRUE)
<1> DEFINE t == Append(s, e)
<1>1. /\ DOMAIN s = 1 .. Len(s) /\ DOMAIN t = 1 .. Len(t) /\ Len(s) \in Nat /\ Len(t) = Len(s) + 1
      /\ t[Len(t)] = e /\ \A i \in DOMAIN s : i \in Nat /\ i \in DOMAIN t /\ t[i] = s[i]
  BY AppendFacts
<1> HIDE DEF t
<1>2. \A i \in DOMAIN t : t[i].k \in Parts => i = Len(t) /\ t[i].k = "$"
  BY <1>1 DEF Has, Parts
<1>3. Single(t, {"body"}) /\ Single(t, {"$"})
  BY <1>2 DEF Single, Parts
<1> QED BY <1>1, <1>2, <1>3 DEF Way, Parts, t

\* The body of a request whose $ is the last of its parts that is on the way.
LEMMA WayBody ==
  ASSUME NEW s \in Seq(Tokens), NEW e \in Tokens, e.k = "body", NEW n, NEW r,
         e.id = n, e.kind = r, Way(s, n, r, TRUE, TRUE)
  PROVE  Way(Append(s, e), n, r, TRUE, FALSE)
<1> DEFINE t == Append(s, e)
<1>1. /\ DOMAIN s = 1 .. Len(s) /\ DOMAIN t = 1 .. Len(t) /\ Len(s) \in Nat /\ Len(t) = Len(s) + 1
      /\ t[Len(t)] = e /\ \A i \in DOMAIN s : i \in Nat /\ i \in DOMAIN t /\ t[i] = s[i]
  BY AppendFacts
<1> HIDE DEF t
<1>2. \A i \in DOMAIN s : s[i].k # "body"
  BY DEF Way
<1>3. \A i \in DOMAIN t : (i \in DOMAIN s /\ t[i] = s[i]) \/ (i = Len(t) /\ t[i] = e)
  BY <1>1
<1>4. Single(t, {"body"}) /\ Single(t, {"$"})
  <2>1. Single(t, {"body"})
    BY <1>2, <1>3 DEF Single
  <2>2. Single(t, {"$"})
    BY <1>3 DEF Single, Way
  <2> QED BY <2>1, <2>2
<1>5. \A i \in DOMAIN t : t[i].k \in Parts => \A j \in DOMAIN t : j > i => t[j].k \notin Signs
  BY <1>1, <1>3 DEF Way, Signs
<1>6. \A i \in DOMAIN t : t[i].k = "body" => t[i].id = n /\ t[i].kind = r
  BY <1>2, <1>3
<1>7. \A i \in DOMAIN t :
        t[i].k = "$" => i # Len(t) /\ i + 1 \in DOMAIN t /\ t[i + 1].k = "body"
  <2> SUFFICES ASSUME NEW i \in DOMAIN t, t[i].k = "$"
               PROVE  i # Len(t) /\ i + 1 \in DOMAIN t /\ t[i + 1].k = "body"
    OBVIOUS
  <2>1. i \in DOMAIN s /\ s[i].k = "$"
    BY <1>3
  <2>2. i = Len(s)
    BY <1>2, <2>1 DEF Way
  <2>3. i + 1 = Len(t) /\ i # Len(t) /\ i + 1 \in DOMAIN t
    <3>1. i \in Nat /\ Len(t) = i + 1 /\ DOMAIN t = 1 .. (i + 1)
      BY <1>1, <2>2
    <3> QED BY <3>1
  <2>4. t[i + 1] = e
    BY <1>1, <2>3
  <2> QED BY <2>3, <2>4
<1> QED BY <1>4, <1>5, <1>6, <1>7 DEF Way, t

\* A whole request.
LEMMA WayWhole ==
  ASSUME NEW s \in Seq(Tokens), ~Has(s, Parts), NEW d \in Tokens, d.k = "$",
         NEW e \in Tokens, e.k = "body", NEW n, NEW r, e.id = n, e.kind = r
  PROVE  s \o <<d, e>> = Append(Append(s, d), e) /\ Way(s \o <<d, e>>, n, r, TRUE, FALSE)
<1>1. s \o <<d, e>> = Append(Append(s, d), e)
  OBVIOUS
<1>2. Append(s, d) \in Seq(Tokens) /\ Way(Append(s, d), n, r, TRUE, TRUE)
  BY AppendFacts, WayStart
<1>3. Way(Append(Append(s, d), e), n, r, TRUE, FALSE)
  BY <1>2, WayBody
<1> QED BY <1>1, <1>3

\* A body that is spoiled on the way.
LEMMA WaySpoilt ==
  ASSUME NEW s \in Seq(Tokens), NEW b \in DOMAIN s,
         NEW n, NEW r, NEW open, NEW broken, Way(s, n, r, open, broken)
  PROVE  /\ Way(Spoilt(s, b), n, r, open, broken)
         /\ \A K : Has(Spoilt(s, b), K) <=> Has(s, K)
         /\ \A K : Single(s, K) => Single(Spoilt(s, b), K)
<1> DEFINE t == Spoilt(s, b)
<1>1. /\ Len(t) = Len(s) /\ DOMAIN t = DOMAIN s
      /\ \A i \in DOMAIN s : t[i].k = s[i].k /\ t[i].id = s[i].id /\ t[i].kind = s[i].kind
  BY SpoiltFacts
<1> HIDE DEF t
<1>2. \A K : Has(t, K) <=> Has(s, K)
  BY <1>1 DEF Has
<1>3. \A K : Single(s, K) => Single(t, K)
  BY <1>1 DEF Single
<1>4. Single(t, {"body"}) /\ Single(t, {"$"})
  BY <1>3 DEF Way
<1>5. \A i \in DOMAIN t : t[i].k \in Parts =>
        open /\ \A j \in DOMAIN t : j > i => t[j].k \notin Signs
  BY <1>1 DEF Way
<1>6. \A i \in DOMAIN t : t[i].k = "body" => t[i].id = n /\ t[i].kind = r /\ ~broken
  BY <1>1 DEF Way
<1>7. \A i \in DOMAIN t :
        t[i].k = "$" => IF i = Len(t) THEN broken ELSE i + 1 \in DOMAIN t /\ t[i + 1].k = "body"
  BY <1>1 DEF Way
<1> QED BY <1>2, <1>3, <1>4, <1>5, <1>6, <1>7 DEF Way, t

LEMMA StreamTail ==
  ASSUME NEW t \in Seq(Tokens), t # <<>>, PlusFirst(t)
  PROVE  /\ PlusFirst(Tail(t)) /\ ~Has(Tail(t), {"+"})
         /\ Head(t).k \in {"+", "body"}
         /\ Head(t).k = "+" => Has(t, {"+"}) /\ Bodies(Tail(t)) = Bodies(t)
         /\ Head(t).k = "body" => ~Has(t, {"+"}) /\ Bodies(Tail(t)) = Bodies(t) - 1
         /\ \A z \in Int : Numbered(t, z) => Numbered(Tail(t), z)
         /\ Short(t) => Short(Tail(t))
         /\ Pure(t) => Pure(Tail(t))
<1> DEFINE u == Tail(t)
<1>1. /\ Head(t) = t[1] /\ 1 \in DOMAIN t /\ Len(t) \in Nat \ {0} /\ Len(u) = Len(t) - 1
      /\ \A i \in DOMAIN u : i \in Nat /\ i + 1 \in DOMAIN t /\ u[i] = t[i + 1]
      /\ DOMAIN u = 1 .. Len(u) /\ DOMAIN t = 1 .. Len(t) /\ u \in Seq(Tokens)
  BY ReadFacts
<1>2. Has(u, {"+"}) => \E i \in DOMAIN t : i # 1 /\ t[i].k = "+"
  <2> SUFFICES ASSUME NEW i \in DOMAIN u, u[i].k = "+"
               PROVE  \E j \in DOMAIN t : j # 1 /\ t[j].k = "+"
    BY DEF Has
  <2>1. i + 1 # 1
    BY <1>1
  <2> QED BY <1>1, <2>1
<1>3. Head(t).k = "body" => ~Has(t, {"+"})
  BY <1>1 DEF Has, PlusFirst
<1>4. Head(t).k = "+" => Has(t, {"+"})
  BY <1>1 DEF Has
<1> HIDE DEF u
<1>5. ~Has(u, {"+"}) /\ PlusFirst(u) /\ Head(t).k \in {"+", "body"}
  <2>1. \A i \in DOMAIN t : t[i].k = "body" \/ i = 1
    BY DEF PlusFirst
  <2>2. \A i \in DOMAIN u : u[i].k = "body"
    <3> SUFFICES ASSUME NEW i \in DOMAIN u PROVE u[i].k = "body"
      OBVIOUS
    <3>1. i + 1 # 1 /\ i + 1 \in DOMAIN t
      BY <1>1
    <3> QED BY <1>1, <2>1, <3>1
  <2> QED BY <1>1, <1>2, <2>2 DEF PlusFirst, Has
<1>6. /\ Head(t).k = "+" => Bodies(u) = Bodies(t)
      /\ Head(t).k = "body" => Bodies(u) = Bodies(t) - 1
  BY <1>1, <1>3, <1>4, <1>5 DEF Bodies
<1>7. \A z \in Int : Numbered(t, z) => Numbered(u, z)
  <2> SUFFICES ASSUME NEW z \in Int, Numbered(t, z), NEW i \in DOMAIN u, u[i].k = "body"
               PROVE  u[i].id + (Len(u) - i) = z
    BY DEF Numbered
  <2>1. t[i + 1].id + (Len(t) - (i + 1)) = z
    BY <1>1 DEF Numbered
  <2>2. u[i].id \in Nat
    <3>1. u[i] \in Tokens
      BY <1>1
    <3> QED BY <3>1 DEF Tokens
  <2> QED BY <1>1, <2>1, <2>2
<1>8. Short(t) => Short(u)
  BY <1>1 DEF Short
<1>9. Pure(t) => Pure(u)
  BY <1>1 DEF Pure
<1> QED BY <1>3, <1>4, <1>5, <1>6, <1>7, <1>8, <1>9 DEF u

LEMMA FinalTail ==
  ASSUME NEW t \in Seq(Tokens), t # <<>>, NEW ended, LastFinal(t, ended)
  PROVE  /\ LastFinal(Tail(t), ended)
         /\ Head(t).k = "body" /\ Head(t).kind # "out" => Tail(t) = <<>> /\ ended
<1> DEFINE u == Tail(t)
<1>1. /\ Head(t) = t[1] /\ 1 \in DOMAIN t /\ Len(t) \in Nat \ {0} /\ Len(u) = Len(t) - 1
      /\ \A i \in DOMAIN u : i \in Nat /\ i + 1 \in DOMAIN t /\ u[i] = t[i + 1]
      /\ u \in Seq(Tokens)
  BY ReadFacts
<1> HIDE DEF u
<1>2. Head(t).k = "body" /\ Head(t).kind # "out" => u = <<>> /\ ended
  <2> SUFFICES ASSUME Head(t).k = "body" /\ Head(t).kind # "out" PROVE u = <<>> /\ ended
    OBVIOUS
  <2>1. 1 = Len(t) /\ ended
    BY <1>1 DEF LastFinal
  <2>2. Len(u) = 0
    BY <1>1, <2>1
  <2>3. u = <<>>
    BY <1>1, <2>2, EmptySeq
  <2> QED BY <2>1, <2>3
<1>3. LastFinal(u, ended)
  <2> SUFFICES ASSUME NEW i \in DOMAIN u, u[i].k = "body", u[i].kind # "out"
               PROVE  i = Len(u) /\ ended
    BY DEF LastFinal
  <2>1. i + 1 = Len(t) /\ ended
    BY <1>1 DEF LastFinal
  <2> QED BY <1>1, <2>1
<1> QED BY <1>2, <1>3 DEF u

LEMMA StreamAppend ==
  ASSUME NEW t \in Seq(Tokens), NEW e \in Tokens, e.k = "body", PlusFirst(t)
  PROVE  /\ PlusFirst(Append(t, e)) /\ Bodies(Append(t, e)) = Bodies(t) + 1
         /\ Has(Append(t, e), {"+"}) <=> Has(t, {"+"})
         /\ Numbered(t, e.id - 1) => Numbered(Append(t, e), e.id)
         /\ Short(t) /\ e.extra = 0 => Short(Append(t, e))
         /\ Pure(t) /\ e.extra = 0 /\ e.good => Pure(Append(t, e))
         /\ \A ended : LastFinal(t, FALSE) /\ (e.kind # "out" => ended) => LastFinal(Append(t, e), ended)
<1> DEFINE u == Append(t, e)
<1>1. /\ DOMAIN t = 1 .. Len(t) /\ DOMAIN u = 1 .. Len(u) /\ Len(t) \in Nat /\ Len(u) = Len(t) + 1
      /\ u[Len(u)] = e /\ \A i \in DOMAIN t : i \in Nat /\ i \in DOMAIN u /\ u[i] = t[i]
  BY AppendFacts
<1>2. Has(u, {"+"}) <=> Has(t, {"+"})
  BY AppendFacts
<1> HIDE DEF u
<1>3. \A i \in DOMAIN u : (i \in DOMAIN t /\ u[i] = t[i]) \/ (i = Len(u) /\ u[i] = e)
  BY <1>1
<1>4. PlusFirst(u)
  BY <1>3 DEF PlusFirst
<1>5. Bodies(u) = Bodies(t) + 1
  BY <1>1, <1>2 DEF Bodies
<1>6. Numbered(t, e.id - 1) => Numbered(u, e.id)
  <2> SUFFICES ASSUME Numbered(t, e.id - 1), NEW i \in DOMAIN u, u[i].k = "body"
               PROVE  u[i].id + (Len(u) - i) = e.id
    BY DEF Numbered
  <2>0. e.id \in Nat
    BY DEF Tokens
  <2>1. CASE i \in DOMAIN t /\ u[i] = t[i]
    <3>1. t[i].id + (Len(t) - i) = e.id - 1
      BY <2>1 DEF Numbered
    <3>2. t[i].id \in Nat
      <4>1. t[i] \in Tokens
        BY <2>1
      <4> QED BY <4>1 DEF Tokens
    <3>3. i \in Nat /\ Len(t) \in Nat /\ Len(u) = Len(t) + 1 /\ u[i].id = t[i].id
      BY <1>1, <2>1
    <3> QED BY <2>0, <3>1, <3>2, <3>3
  <2>2. CASE i = Len(u) /\ u[i] = e
    BY <1>1, <2>0, <2>2
  <2> QED BY <1>3, <2>1, <2>2
<1>7. Short(t) /\ e.extra = 0 => Short(u)
  BY <1>3 DEF Short
<1>8. Pure(t) /\ e.extra = 0 /\ e.good => Pure(u)
  BY <1>3 DEF Pure
<1>9. \A ended : LastFinal(t, FALSE) /\ (e.kind # "out" => ended) => LastFinal(u, ended)
  BY <1>3 DEF LastFinal
<1> QED BY <1>2, <1>4, <1>5, <1>6, <1>7, <1>8, <1>9 DEF u

LEMMA StreamSpoilt ==
  ASSUME NEW t \in Seq(Tokens), NEW b \in DOMAIN t
  PROVE  /\ PlusFirst(t) => PlusFirst(Spoilt(t, b))
         /\ \A K : Has(Spoilt(t, b), K) <=> Has(t, K)
         /\ \A K : Single(t, K) => Single(Spoilt(t, b), K)
         /\ Bodies(Spoilt(t, b)) = Bodies(t)
         /\ \A z \in Int : Numbered(t, z) => Numbered(Spoilt(t, b), z)
         /\ Short(t) => Short(Spoilt(t, b))
         /\ \A ended : LastFinal(t, ended) => LastFinal(Spoilt(t, b), ended)
<1> DEFINE u == Spoilt(t, b)
<1>1. /\ Len(u) = Len(t) /\ DOMAIN u = DOMAIN t
      /\ \A i \in DOMAIN t : /\ u[i].k = t[i].k /\ u[i].id = t[i].id /\ u[i].kind = t[i].kind
                             /\ u[i].extra = t[i].extra
  BY SpoiltFacts
<1> HIDE DEF u
<1>2. \A K : Has(u, K) <=> Has(t, K)
  BY <1>1 DEF Has
<1>3. \A K : Single(t, K) => Single(u, K)
  BY <1>1 DEF Single
<1>4. PlusFirst(t) => PlusFirst(u)
  BY <1>1 DEF PlusFirst
<1>5. Bodies(u) = Bodies(t)
  BY <1>1, <1>2 DEF Bodies
<1>6. \A z \in Int : Numbered(t, z) => Numbered(u, z)
  BY <1>1 DEF Numbered
<1>7. Short(t) => Short(u)
  BY <1>1 DEF Short
<1>8. \A ended : LastFinal(t, ended) => LastFinal(u, ended)
  BY <1>1 DEF LastFinal
<1> QED BY <1>2, <1>3, <1>4, <1>5, <1>6, <1>7, <1>8 DEF u

-----------------------------------------------------------------------------
(* What is so in every state, if GDB sends a request again only when the   *)
(* server is idle, and is not slow on a line that spoils packets.          *)

Patient == ~env.impatient /\ (env.noise => ~env.slow)

\* GDB's request is not handled yet; it is written, or its first part is.
Unserved == Len(served) < requests
Open == Unserved /\ gdb # "sending"
Broken == gdb = "sending body"
\* The server has nothing to tell of what GDB asked for.
Ended == ~running /\ todo \in {<<>>, <<"clear">>}
Refused == Has(toServer, {"-"})
\* The last packet that was sent and not refused.
LastSent == IF pc = "send" \/ Refused THEN puts - 1 ELSE puts
\* No packet is refused.
Clear == ~env.noise \/ noack
Counted(s) == \A i \in DOMAIN s : s[i] = i

\* Whose turn it is.
Turn ==
  /\ requests \in {Len(served), Len(served) + 1}
  /\ gdb = "idle" => ~Unserved
  /\ gdb \in {"sending", "sending body"} => Unserved
  /\ Unserved => IF noack THEN gdb # "unanswered" /\ request # "noack" ELSE gdb # "waiting"
  /\ noack /\ gdb = "unanswered" => request = "noack"
  /\ asked > 0 => gdb \in {"idle", "waiting"}

OnTheWay == Way(toServer, requests, request, Open, Broken)

\* The server has read the $ of the request.
AtBody ==
  pc = "body" =>
    /\ Open /\ ~Has(toServer, {"$"})
    /\ IF toServer = <<>> THEN Broken ELSE Head(toServer).k = "body"

\* Until the request is handled, and after the answer, the server is quiet.
Quiet == toGdb = <<>> /\ Ended /\ pc # "send" /\ ~Refused
QuietKnown == Unserved \/ gdb = "idle" => Quiet

Todos ==
  /\ todo \in {<<>>, <<"reply">>, <<"stop">>, <<"stop", "clear">>, <<"clear">>, <<"out">>}
  /\ todo # <<>> => pc \notin {"idle", "get", "body"}
  /\ todo \in {<<"reply">>, <<"clear">>} => ~running

\* After the packet that answers the request the server puts nothing.
Final ==
  /\ LastFinal(toGdb, Ended /\ pc # "send")
  /\ pc \in Awaiting \cup {"send"} =>
       packet.k = "body" /\ packet.id = puts /\ packet.good /\ (packet.kind # "out" => Ended)

Acks ==
  PlusFirst(toGdb) /\ (Has(toGdb, {"+"}) <=> gdb = "unanswered" /\ ~Unserved)

\* Which packets were taken, and which are on the way.
Count ==
  Numbered(toGdb, LastSent) /\ Len(accepted) + Bodies(toGdb) = LastSent

Clean == Clear => ~Refused /\ Pure(toGdb) /\ (pc = "send" => packet.extra = 0)

\* Where packets are refused, the server waits for what becomes of each.
OneAtATime ==
  ~Clear =>
    /\ Single(toServer, Signs) /\ Single(toGdb, {"body"})
    /\ ~(Has(toServer, Signs) /\ Has(toGdb, {"body"}))
    /\ Has(toServer, Signs) \/ Has(toGdb, {"body"}) => pc \in Awaiting \cup {"closed"}

Large == env.large => Short(toGdb) /\ packet.extra = 0

\* An interrupt is on its way, or remembered and will be seen.
Interrupts ==
  /\ pc = "answer after interrupt" => ctrl_c
  /\ asked > 0 /\ gdb = "waiting" /\ (running \/ Unserved) =>
       Has(toServer, {"intr"}) \/ (ctrl_c /\ (running \/ todo = <<>>))

ServedInOrder == Counted(served)
AcceptedInOrder == (env.noise => env.large) => Counted(accepted)

Known ==
  /\ Turn /\ OnTheWay /\ AtBody /\ QuietKnown /\ Todos /\ Final /\ Acks /\ Count
  /\ Clean /\ OneAtATime /\ Large /\ Interrupts /\ ServedInOrder /\ AcceptedInOrder

PacketInv == TypesKnown /\ Patient /\ Known

LEMMA Numbers ==
  ASSUME TypesKnown
  PROVE  /\ Len(served) \in Nat /\ requests \in Nat /\ puts \in Nat /\ Len(accepted) \in Nat
         /\ asked \in Nat /\ LastSent \in Int /\ Bodies(toGdb) \in Int
         /\ env.noise \in BOOLEAN /\ env.large \in BOOLEAN /\ env.slow \in BOOLEAN
         /\ noack \in BOOLEAN /\ ctrl_c \in BOOLEAN /\ running \in BOOLEAN
         /\ (pc \in Awaiting => ~noack)
<1>1. requests \in 0 .. MaxRequests /\ puts \in Nat /\ asked \in 0 .. 2 /\ env \in Environments
      /\ noack \in BOOLEAN /\ ctrl_c \in BOOLEAN /\ running \in BOOLEAN
      /\ (pc \in Awaiting => ~noack)
  BY DEF TypesKnown, TypeOK, Awaiting
<1>2. Len(served) \in Nat /\ Len(accepted) \in Nat /\ Len(toGdb) \in Nat
  BY SequenceTypes
<1>3. requests \in Nat /\ asked \in Nat
  BY <1>1, BoundsAssumption
<1>4. LastSent \in Int /\ Bodies(toGdb) \in Int
  BY <1>1, <1>2 DEF LastSent, Bodies
<1> QED BY <1>1, <1>2, <1>3, <1>4, EnvTypes

\* A step of the server that is only in where it is.
LEMMA PcStep ==
  ASSUME PacketInv, UNCHANGED <<env, gdb, request, requests, accepted, asked, toServer, toGdb>>,
         UNCHANGED <<packet, puts, todo, served, noack, ctrl_c, running>>,
         pc # "send", pc' \in {"idle", "get", "handled"}, pc' # "handled" => todo = <<>>,
         ~Clear => ~Has(toServer, Signs) /\ ~Has(toGdb, {"body"})
  PROVE  Known'
<1> USE DEF PacketInv, Known
<1>1. Turn'
  BY DEF Turn, Unserved
<1>2. OnTheWay'
  BY DEF OnTheWay, Open, Broken, Unserved
<1>3. AtBody'
  BY DEF AtBody
<1>4. QuietKnown'
  BY DEF QuietKnown, Quiet, Unserved, Ended, Refused
<1>5. Todos'
  BY DEF Todos
<1>6. Final'
  BY DEF Final, Ended, Awaiting
<1>7. Acks'
  BY DEF Acks, Unserved
<1>8. Count'
  BY DEF Count, LastSent, Refused
<1>9. Clean'
  BY DEF Clean, Clear, Refused
<1>10. OneAtATime'
  BY DEF OneAtATime, Clear
<1>11. Large'
  BY DEF Large
<1>12. Interrupts'
  BY DEF Interrupts, Unserved
<1>13. ServedInOrder' /\ AcceptedInOrder'
  BY DEF ServedInOrder, AcceptedInOrder
<1> QED BY <1>1, <1>2, <1>3, <1>4, <1>5, <1>6, <1>7, <1>8, <1>9, <1>10, <1>11, <1>12, <1>13

LEMMA InputStep == ASSUME PacketInv, Input PROVE Known'
<1>1. ~Clear => ~Has(toServer, Signs) /\ ~Has(toGdb, {"body"})
  BY DEF PacketInv, Known, OneAtATime, Input, Awaiting
<1>2. todo = <<>>
  BY DEF PacketInv, Known, Todos, Input
<1> QED BY <1>1, <1>2, PcStep DEF Input, GdbRest, gdbVars, sending, session

LEMMA GetTimeoutStep == ASSUME PacketInv, GetTimeout PROVE Known'
<1>1. ~Clear => ~Has(toServer, Signs) /\ ~Has(toGdb, {"body"})
  BY DEF PacketInv, Known, OneAtATime, GetTimeout, Awaiting
<1>2. todo = <<>>
  BY DEF PacketInv, Known, Todos, GetTimeout
<1> QED BY <1>1, <1>2, PcStep DEF GetTimeout, GdbRest, gdbVars, sending, session

LEMMA HandledStep == ASSUME PacketInv, Handled PROVE Known'
<1>1. ~Clear => ~Has(toServer, Signs) /\ ~Has(toGdb, {"body"})
  BY DEF PacketInv, Known, OneAtATime, Handled, Awaiting
<1> QED BY <1>1, PcStep DEF Handled, GdbRest, gdbVars, sending, session

LEMMA AnswerTimeoutStep == ASSUME PacketInv, AnswerTimeout PROVE Known'
<1>1. ASSUME ~Clear PROVE ~Has(toServer, Signs) /\ ~Has(toGdb, {"body"})
  <2>1. ~env.slow
    BY <1>1, Numbers DEF PacketInv, Patient, Clear
  <2>2. toServer = <<>> /\ toGdb = <<>>
    BY <2>1 DEF AnswerTimeout, Silence
  <2> QED BY <2>2 DEF Has
<1> QED BY <1>1, PcStep DEF AnswerTimeout, GdbRest, gdbVars, sending, session

\* Where the server does not wait for an answer, none is on its way that could matter.
LEMMA NothingDue ==
  ASSUME PacketInv, pc \notin Awaiting \cup {"closed"}
  PROVE  /\ ~Clear => ~Has(toServer, Signs) /\ ~Has(toGdb, {"body"})
         /\ ~Refused
<1>1. ~Clear => ~Has(toServer, Signs) /\ ~Has(toGdb, {"body"})
  BY DEF PacketInv, Known, OneAtATime
<1>2. Refused => Has(toServer, Signs)
  BY DEF Refused, Has, Signs
<1>3. Clear => ~Refused
  BY DEF PacketInv, Known, Clean
<1> QED BY <1>1, <1>2, <1>3

LEMMA ReadingFacts ==
  ASSUME TypesKnown, toServer # <<>>, toServer' = Tail(toServer)
  PROVE  /\ Here \in Tokens /\ Here = toServer[1] /\ 1 \in DOMAIN toServer
         /\ Refused' => Refused
         /\ Has(toServer', Signs) => Has(toServer, Signs)
         /\ Single(toServer, Signs) => Single(toServer', Signs)
         /\ Here.k \in Signs /\ Single(toServer, Signs) => ~Has(toServer', Signs)
         /\ Here.k # "intr" => (Has(toServer, {"intr"}) <=> Has(toServer', {"intr"}))
         /\ Here.k = "body" /\ Single(toServer, {"body"}) => ~Has(toServer', {"body"})
         /\ Here.k = "$" /\ Single(toServer, {"$"}) => ~Has(toServer', {"$"})
         /\ \A n, r, open, broken :
              Way(toServer, n, r, open, broken) => Way(toServer', n, r, open, broken)
<1>1. toServer \in Seq(Tokens)
  BY SequenceTypes
<1>2. Here \in Tokens /\ Here = toServer[1] /\ 1 \in DOMAIN toServer
  BY <1>1, ReadFacts DEF Here
<1>3. /\ \A K : Has(toServer', K) => Has(toServer, K)
      /\ \A K : Here.k \notin K => (Has(toServer, K) <=> Has(toServer', K))
      /\ \A K : Single(toServer, K) => Single(toServer', K)
      /\ \A K : Single(toServer, K) /\ Here.k \in K => ~Has(toServer', K)
  BY <1>1, ReadFacts DEF Here
<1>4. \A n, r, open, broken : Way(toServer, n, r, open, broken) => Way(toServer', n, r, open, broken)
  BY <1>1, WayTail
<1>5. Refused' => Refused
  BY <1>3 DEF Refused
<1>6. /\ Here.k # "intr" => (Has(toServer, {"intr"}) <=> Has(toServer', {"intr"}))
      /\ Here.k = "body" /\ Single(toServer, {"body"}) => ~Has(toServer', {"body"})
      /\ Here.k = "$" /\ Single(toServer, {"$"}) => ~Has(toServer', {"$"})
  BY <1>3
<1> QED BY <1>2, <1>3, <1>4, <1>5, <1>6

\* The server reads something outside of a packet, or drops a packet.
LEMMA ReadStep ==
  ASSUME PacketInv, UNCHANGED <<env, gdb, request, requests, accepted, asked, toGdb>>,
         UNCHANGED <<packet, puts, todo, served, noack, ctrl_c, running>>,
         toServer # <<>>, toServer' = Tail(toServer), Here.k # "intr",
         pc \in {"get", "body"}, pc' \in {"get", "body"}, AtBody'
  PROVE  Known'
<1> USE DEF PacketInv, Known
<1>0. pc \notin Awaiting \cup {"closed"} /\ pc' \notin Awaiting \cup {"closed"}
  BY DEF Awaiting
<1>1. ~Refused /\ ~Refused'
  BY <1>0, NothingDue, ReadingFacts
<1>2. ~Clear => ~Has(toServer, Signs) /\ ~Has(toGdb, {"body"}) /\ ~Has(toServer', Signs)
  BY <1>0, NothingDue, ReadingFacts
<1>3. Turn'
  BY DEF Turn, Unserved
<1>4. OnTheWay'
  <2>1. Way(toServer', requests, request, Open, Broken)
    BY ReadingFacts DEF OnTheWay
  <2> QED BY <2>1 DEF OnTheWay, Open, Broken, Unserved
<1>5. QuietKnown'
  BY <1>1 DEF QuietKnown, Quiet, Unserved, Ended
<1>6. Todos'
  BY DEF Todos
<1>7. Final'
  BY DEF Final, Ended, Awaiting
<1>8. Acks'
  BY DEF Acks, Unserved
<1>9. Count'
  <2>1. LastSent' = LastSent
    BY <1>1 DEF LastSent
  <2> QED BY <2>1 DEF Count
<1>10. Clean'
  BY <1>1 DEF Clean, Clear
<1>11. OneAtATime'
  <2>1. ~Clear => Single(toServer', Signs) /\ Single(toGdb, {"body"})
    BY ReadingFacts DEF OneAtATime
  <2> QED BY <1>2, <2>1 DEF OneAtATime, Clear
<1>12. Large'
  BY DEF Large
<1>13. Interrupts'
  <2>1. Has(toServer, {"intr"}) <=> Has(toServer', {"intr"})
    BY ReadingFacts
  <2> QED BY <2>1 DEF Interrupts, Unserved
<1>14. ServedInOrder' /\ AcceptedInOrder'
  BY DEF ServedInOrder, AcceptedInOrder
<1> QED BY <1>3, <1>4, <1>5, <1>6, <1>7, <1>8, <1>9, <1>10, <1>11, <1>12, <1>13, <1>14

LEMMA SkipSignStep == ASSUME PacketInv, SkipSign PROVE Known'
<1>1. AtBody'
  BY DEF AtBody, SkipSign, server
<1> QED BY <1>1, ReadStep DEF SkipSign, Reads, GdbRest, gdbVars, server, sending, session

LEMMA GetBadStep == ASSUME PacketInv, GetBad PROVE Known'
<1>1. AtBody'
  BY DEF AtBody, GetBad
<1>2. Here.k # "intr"
  BY DEF PacketInv, Known, AtBody, GetBad, Here
<1> QED BY <1>1, <1>2, ReadStep DEF GetBad, Reads, GdbRest, gdbVars, sending, session

LEMMA GetStartStep == ASSUME PacketInv, GetStart PROVE Known'
<1>1. /\ toServer \in Seq(Tokens) /\ toServer # <<>> /\ toServer' = Tail(toServer) /\ Here.k = "$"
      /\ UNCHANGED <<gdb, requests, served>>
  BY SequenceTypes DEF PacketInv, GetStart, Reads, GdbRest, gdbVars, session
<1>2. /\ Here = toServer[1] /\ 1 \in DOMAIN toServer
      /\ Way(toServer, requests, request, Open, Broken)
  BY <1>1, ReadingFacts DEF PacketInv, Known, OnTheWay
<1>3. Open /\ IF 1 = Len(toServer) THEN Broken ELSE 2 \in DOMAIN toServer /\ toServer[2].k = "body"
  <2>1. 1 + 1 = 2
    OBVIOUS
  <2> QED BY <1>1, <1>2, <2>1 DEF Way, Parts
<1>4. ~Has(toServer', {"$"})
  BY <1>1, <1>2, ReadingFacts DEF Way, PacketInv
<1>5. IF toServer' = <<>> THEN Broken ELSE Head(toServer').k = "body"
  <2>1. CASE 1 = Len(toServer)
    <3>1. toServer' = <<>>
      BY <1>1, <2>1
    <3> QED BY <1>3, <2>1, <3>1
  <2>2. CASE 1 # Len(toServer)
    <3>1. toServer' # <<>> /\ Head(toServer') = toServer[2]
      <4>1. /\ Len(toServer) \in Nat \ {0} /\ Len(toServer') = Len(toServer) - 1
            /\ toServer' \in Seq(Tokens)
        BY <1>1, ReadFacts
      <4>2. Len(toServer') # 0
        BY <2>2, <4>1
      <4>3. toServer' # <<>>
        BY <4>2, EmptySeq
      <4>4. Head(toServer') = toServer'[1] /\ 1 \in DOMAIN toServer'
        BY <4>1, <4>3, ReadFacts
      <4>5. toServer'[1] = toServer[1 + 1]
        BY <1>1, <4>4, ReadFacts
      <4> QED BY <4>3, <4>4, <4>5
    <3> QED BY <1>3, <2>2, <3>1
  <2> QED BY <2>1, <2>2
<1>6. AtBody'
  BY <1>1, <1>3, <1>4, <1>5 DEF AtBody, Open, Broken, Unserved
<1> QED BY <1>1, <1>6, ReadStep DEF GetStart, Reads, GdbRest, gdbVars, sending, session

LEMMA GetInterruptStep == ASSUME PacketInv, GetInterrupt PROVE Known'
<1> USE DEF PacketInv, Known
<1>0. /\ UNCHANGED <<env, gdb, request, requests, accepted, asked, toGdb>>
      /\ UNCHANGED <<packet, puts, served, noack, running>>
      /\ toServer # <<>> /\ toServer' = Tail(toServer) /\ Here.k = "intr"
      /\ pc = "get" /\ pc' = "handled" /\ ctrl_c' = TRUE
      /\ todo' = IF running THEN <<"stop", "clear">> ELSE <<>>
  BY DEF GetInterrupt, Reads, CtrlC, GdbRest, gdbVars
<1>1. ~Refused /\ ~Refused'
  BY <1>0, NothingDue, ReadingFacts DEF Awaiting
<1>2. ~Clear => ~Has(toServer, Signs) /\ ~Has(toGdb, {"body"}) /\ ~Has(toServer', Signs)
  BY <1>0, NothingDue, ReadingFacts DEF Awaiting
<1>3. Turn'
  BY <1>0 DEF Turn, Unserved
<1>4. OnTheWay'
  <2>1. Way(toServer', requests, request, Open, Broken)
    BY <1>0, ReadingFacts DEF OnTheWay
  <2> QED BY <1>0, <2>1 DEF OnTheWay, Open, Broken, Unserved
<1>5. AtBody'
  BY <1>0 DEF AtBody
<1>6. Ended => Ended'
  BY <1>0 DEF Ended
<1>7. QuietKnown'
  BY <1>0, <1>1, <1>6 DEF QuietKnown, Quiet, Unserved
<1>8. Todos'
  BY <1>0, Numbers DEF Todos
<1>9. Final'
  <2>1. LastFinal(toGdb, Ended /\ pc # "send")
    BY DEF Final
  <2>2. LastFinal(toGdb, (Ended /\ pc # "send")')
    BY <1>0, <1>6, <2>1 DEF LastFinal
  <2> QED BY <1>0, <2>2 DEF Final, Awaiting
<1>10. Acks'
  BY <1>0 DEF Acks, Unserved
<1>11. Count'
  <2>1. LastSent' = LastSent
    BY <1>0, <1>1 DEF LastSent
  <2> QED BY <1>0, <2>1 DEF Count
<1>12. Clean'
  BY <1>0, <1>1 DEF Clean, Clear
<1>13. OneAtATime'
  <2>1. ~Clear => Single(toServer', Signs) /\ Single(toGdb, {"body"})
    BY <1>0, ReadingFacts DEF OneAtATime
  <2> QED BY <1>0, <1>2, <2>1 DEF OneAtATime, Clear
<1>14. Large'
  BY <1>0 DEF Large
<1>15. Interrupts'
  BY <1>0 DEF Interrupts, Unserved
<1>16. ServedInOrder' /\ AcceptedInOrder'
  BY <1>0 DEF ServedInOrder, AcceptedInOrder
<1> QED BY <1>3, <1>4, <1>5, <1>7, <1>8, <1>9, <1>10, <1>11, <1>12, <1>13, <1>14, <1>15, <1>16

LEMMA TodosDiffer ==
  /\ <<"stop", "clear">> \notin {<<>>, <<"reply">>, <<"stop">>, <<"clear">>, <<"out">>}
  /\ <<"reply">> \notin {<<>>, <<"stop">>, <<"clear">>, <<"out">>}
  /\ <<"stop">> \notin {<<>>, <<"clear">>, <<"out">>}
  /\ <<"clear">> \notin {<<>>, <<"out">>}
  /\ <<"out">> # <<>>
<1>1. /\ <<"stop", "clear">> \notin {<<>>, <<"reply">>, <<"stop">>, <<"clear">>, <<"out">>}
      /\ <<"reply">> # <<>> /\ <<"stop">> # <<>> /\ <<"clear">> # <<>> /\ <<"out">> # <<>>
  <2>1. /\ Len(<<"stop", "clear">>) = 2 /\ Len(<<>>) = 0 /\ Len(<<"reply">>) = 1
        /\ Len(<<"stop">>) = 1 /\ Len(<<"clear">>) = 1 /\ Len(<<"out">>) = 1
    OBVIOUS
  <2> QED BY <2>1
<1>2. /\ <<"reply">>[1] = "reply" /\ <<"stop">>[1] = "stop" /\ <<"clear">>[1] = "clear"
      /\ <<"out">>[1] = "out"
  OBVIOUS
<1>3. /\ <<"reply">> \notin {<<"stop">>, <<"clear">>, <<"out">>}
      /\ <<"stop">> \notin {<<"clear">>, <<"out">>} /\ <<"clear">> # <<"out">>
  BY <1>2
<1> QED BY <1>1, <1>3

\* The first of what is left to do, and the rest.
LEMMA FirstOfTodo ==
  ASSUME Todos, todo # <<>>
  PROVE  \/ todo = <<"reply">> /\ Head(todo) = "reply" /\ Tail(todo) = <<>>
         \/ todo = <<"stop">> /\ Head(todo) = "stop" /\ Tail(todo) = <<>>
         \/ todo = <<"stop", "clear">> /\ Head(todo) = "stop" /\ Tail(todo) = <<"clear">>
         \/ todo = <<"clear">> /\ Head(todo) = "clear" /\ Tail(todo) = <<>>
         \/ todo = <<"out">> /\ Head(todo) = "out" /\ Tail(todo) = <<>>
<1>1. CASE todo = <<"reply">>
  BY <1>1
<1>2. CASE todo = <<"stop">>
  BY <1>2
<1>3. CASE todo = <<"stop", "clear">>
  BY <1>3
<1>4. CASE todo = <<"clear">>
  BY <1>4
<1>5. CASE todo = <<"out">>
  BY <1>5
<1> QED BY <1>1, <1>2, <1>3, <1>4, <1>5 DEF Todos

\* The server takes a request.
LEMMA GetPacketStep == ASSUME PacketInv, GetPacket PROVE Known'
<1> USE DEF PacketInv, Known
<1>0. /\ UNCHANGED <<env, gdb, request, requests, accepted, asked>>
      /\ UNCHANGED <<packet, puts, ctrl_c>>
      /\ toServer # <<>> /\ toServer' = Tail(toServer) /\ Here = Head(toServer)
      /\ pc = "body" /\ pc' = "handled" /\ (noack \/ Here.good)
      /\ running' = (running \/ Here.kind = "continue")
      /\ noack' = (noack \/ Here.kind = "noack")
      /\ served' = Append(served, Here.id)
      /\ toGdb' = toGdb \o Acknowledged
  BY DEF GetPacket, Reads, GdbRest, gdbVars, Here
<1>1. Open /\ Here.k = "body" /\ ~Has(toServer, {"$"}) /\ Unserved /\ gdb # "sending"
  BY <1>0 DEF AtBody, Open
<1>2. /\ Here.id = requests /\ Here.kind = request /\ ~Broken
      /\ Here \in Tokens /\ ~Has(toServer', {"body"}) /\ ~Has(toServer', {"$"})
  <2>1. Here = toServer[1] /\ 1 \in DOMAIN toServer /\ Here \in Tokens
    BY <1>0, ReadingFacts
  <2>2. Way(toServer, requests, request, Open, Broken) /\ Single(toServer, {"body"})
    BY DEF OnTheWay, Way
  <2>3. ~Has(toServer', {"body"})
    BY <1>0, <1>1, <2>2, ReadingFacts
  <2>4. ~Has(toServer', {"$"})
    <3>1. toServer \in Seq(Tokens)
      BY SequenceTypes
    <3> QED BY <1>0, <1>1, <3>1, ReadFacts
  <2> QED BY <1>1, <2>1, <2>2, <2>3, <2>4 DEF Way
<1>3. toGdb = <<>> /\ ~running /\ todo \in {<<>>, <<"clear">>} /\ ~Refused
  BY <1>1 DEF QuietKnown, Quiet, Ended
<1>4. Len(served) \in Nat /\ requests = Len(served) + 1 /\ Len(served') = requests /\ ~Unserved'
  <2>1. served \in Seq(Nat) /\ requests \in Nat
    BY SequenceTypes, Numbers
  <2>2. Len(served) \in Nat /\ requests = Len(served) + 1
    <3>1. Len(served) \in Nat
      BY <2>1
    <3>2. requests \in {Len(served), Len(served) + 1} /\ Len(served) < requests
      BY <1>1 DEF Turn, Unserved
    <3> QED BY <2>1, <3>1, <3>2
  <2>3. Len(served') = Len(served) + 1
    BY <1>0, <2>1
  <2> QED BY <1>0, <2>1, <2>2, <2>3 DEF Unserved
<1>5. toGdb' = Acknowledged
  BY <1>0, <1>3 DEF Acknowledged
<1>6. gdb \notin {"idle", "sending", "sending body"}
  BY <1>1, <1>2 DEF Turn, Broken
<1>7. /\ noack \in BOOLEAN /\ (noack => gdb # "unanswered" /\ request # "noack")
      /\ (~noack => gdb = "unanswered")
  <2>1. gdb \in {"idle", "sending", "sending body", "unanswered", "waiting"}
    BY DEF TypesKnown, TypeOK
  <2>2. noack \in BOOLEAN
    BY Numbers
  <2>3. noack => gdb # "unanswered" /\ request # "noack"
    BY <1>1 DEF Turn
  <2>4. ~noack => gdb # "waiting"
    BY <1>1 DEF Turn
  <2> QED BY <1>6, <2>1, <2>2, <2>3, <2>4
<1>8. Sign("+") \in Tokens /\ Sign("+").k = "+" /\ Sign("+").good /\ Sign("+").extra = 0
  BY SignTypes DEF Sign
<1>9. /\ PlusFirst(toGdb') /\ (Has(toGdb', {"+"}) <=> ~noack) /\ Bodies(toGdb') = 0
      /\ Pure(toGdb') /\ Short(toGdb') /\ ~Has(toGdb', {"body"}) /\ Single(toGdb', {"body"})
      /\ (\A z, ended : Numbered(toGdb', z) /\ LastFinal(toGdb', ended))
  <2>1. CASE noack
    <3>1. toGdb' = <<>> /\ DOMAIN toGdb' = {} /\ Len(toGdb') = 0
      BY <1>5, <2>1 DEF Acknowledged
    <3> QED BY <2>1, <3>1 DEF PlusFirst, Has, Bodies, Pure, Short, Single, Numbered, LastFinal
  <2>2. CASE ~noack
    <3>1. toGdb' = <<Sign("+")>>
      BY <1>5, <2>2 DEF Acknowledged
    <3>2. DOMAIN toGdb' = {1} /\ toGdb'[1] = Sign("+") /\ Len(toGdb') = 1
      BY <3>1
    <3>3. Has(toGdb', {"+"}) /\ ~Has(toGdb', {"body"})
      BY <1>8, <3>2 DEF Has
    <3>4. Bodies(toGdb') = 0
      BY <3>2, <3>3 DEF Bodies
    <3> QED BY <1>8, <2>2, <3>2, <3>3, <3>4
      DEF PlusFirst, Pure, Short, Single, Numbered, LastFinal
  <2> QED BY <1>7, <2>1, <2>2
<1>10. ~Refused'
  BY <1>0, <1>3, ReadingFacts
<1>11. ~Clear => ~Has(toServer', Signs)
  BY <1>0, NothingDue, ReadingFacts DEF Awaiting
<1>12. /\ todo' \in {<<>>, <<"reply">>, <<"stop", "clear">>}
       /\ todo' = <<"reply">> => ~running'
  <2>1. running' <=> Here.kind = "continue"
    BY <1>0, <1>3
  <2>2. todo' = (IF Here.kind = "continue" THEN <<>> ELSE <<"reply">>) \o CtrlC
    BY DEF GetPacket
  <2>3. CtrlC = <<>> \/ (CtrlC = <<"stop", "clear">> /\ running')
    BY DEF CtrlC
  <2>4. CASE Here.kind = "continue"
    <3>1. todo' = CtrlC
      BY <2>2, <2>3, <2>4
    <3> QED BY <2>3, <3>1
  <2>5. CASE Here.kind # "continue"
    <3>1. CtrlC = <<>> /\ ~running'
      BY <2>1, <2>3, <2>5
    <3>2. todo' = <<"reply">>
      BY <2>2, <2>5, <3>1
    <3> QED BY <3>1, <3>2
  <2> QED BY <2>4, <2>5
<1>13. Turn'
  BY <1>0, <1>2, <1>4, <1>6, <1>7 DEF Turn
<1>14. OnTheWay'
  <2>1. ~Has(toServer', Parts) /\ toServer' \in Seq(Tokens)
    <3>1. toServer' \in Seq(Tokens)
      BY <1>0, SequenceTypes, FirstTypes
    <3> QED BY <1>2, <3>1 DEF Has, Parts
  <2> QED BY <2>1, WayFree DEF OnTheWay
<1>15. AtBody'
  BY <1>0 DEF AtBody
<1>16. QuietKnown'
  BY <1>0, <1>4, <1>6 DEF QuietKnown
<1>17. Todos'
  BY <1>0, <1>12, TodosDiffer DEF Todos
<1>18. Final'
  BY <1>0, <1>9 DEF Final, Awaiting
<1>19. Acks'
  BY <1>0, <1>4, <1>7, <1>9 DEF Acks
<1>20. Count'
  <2>1. LastSent = puts /\ LastSent' = puts
    BY <1>0, <1>3, <1>10 DEF LastSent
  <2>2. Bodies(toGdb) = 0
    BY <1>3 DEF Bodies, Has
  <2> QED BY <1>0, <1>9, <2>1, <2>2 DEF Count
<1>21. Clean'
  BY <1>0, <1>9, <1>10 DEF Clean
<1>22. OneAtATime'
  <2> SUFFICES ASSUME ~Clear'
               PROVE  (Single(toServer, Signs) /\ ~Has(toServer, Signs) /\ ~Has(toGdb, {"body"}))'
    BY <1>9 DEF OneAtATime
  <2>1. ~Clear
    BY <1>0 DEF Clear
  <2>2. Single(toServer', Signs)
    BY <1>0, <2>1, ReadingFacts DEF OneAtATime
  <2> QED BY <1>9, <1>11, <2>1, <2>2
<1>23. Large'
  BY <1>0, <1>9 DEF Large
<1>24. Interrupts'
  <2>1. Has(toServer, {"intr"}) <=> Has(toServer', {"intr"})
    BY <1>0, <1>1, ReadingFacts
  <2> QED BY <1>0, <1>1, <1>4, <2>1 DEF Interrupts
<1>25. ServedInOrder'
  <2>1. served \in Seq(Nat)
    BY SequenceTypes
  <2>2. DOMAIN served' = 1 .. Len(served) + 1 /\ served'[Len(served) + 1] = Here.id
        /\ DOMAIN served = 1 .. Len(served) /\ \A i \in DOMAIN served : served'[i] = served[i]
    BY <1>0, <2>1
  <2>3. \A i \in DOMAIN served' : i \in DOMAIN served \/ i = Len(served) + 1
    BY <1>4, <2>2
  <2> QED BY <1>2, <1>4, <2>2, <2>3 DEF ServedInOrder, Counted
<1>26. AcceptedInOrder'
  BY <1>0 DEF AcceptedInOrder
<1> QED BY <1>13, <1>14, <1>15, <1>16, <1>17, <1>18, <1>19, <1>20, <1>21, <1>22, <1>23, <1>24,
           <1>25, <1>26

\* The server puts a packet.
LEMMA PutStep == ASSUME PacketInv, Put PROVE Known'
<1> USE DEF PacketInv, Known
<1>0. /\ UNCHANGED <<env, gdb, request, requests, accepted, asked, toServer, toGdb, served, noack>>
      /\ pc = "handled" /\ pc' = "send" /\ todo # <<>> /\ Head(todo) # "clear"
      /\ packet' = Body(puts + 1, Head(todo)) /\ puts' = puts + 1 /\ todo' = Tail(todo)
      /\ (Head(todo) = "stop" => ~ctrl_c' /\ ~running')
      /\ (Head(todo) # "stop" => ctrl_c' = ctrl_c /\ running' = running)
  <2>1. ctrl_c \in BOOLEAN /\ running \in BOOLEAN
    BY Numbers
  <2>2. /\ ctrl_c' = (ctrl_c /\ Head(todo) # "stop")
        /\ running' = (running /\ Head(todo) # "stop")
    BY DEF Put
  <2> QED BY <2>1, <2>2 DEF Put, GdbRest, gdbVars
<1>1. \/ todo = <<"reply">> /\ Head(todo) = "reply" /\ todo' = <<>> /\ ~running'
      \/ todo = <<"stop">> /\ Head(todo) = "stop" /\ todo' = <<>> /\ ~running'
      \/ todo = <<"stop", "clear">> /\ Head(todo) = "stop" /\ todo' = <<"clear">> /\ ~running'
      \/ todo = <<"out">> /\ Head(todo) = "out" /\ todo' = <<>> /\ running' = running
  BY <1>0, FirstOfTodo DEF Todos
<1>2. todo \notin {<<>>, <<"clear">>} /\ Head(todo) \in {"reply", "stop", "out"}
      /\ todo' \in {<<>>, <<"clear">>} /\ (todo' = <<"clear">> => ~running')
  BY <1>1, TodosDiffer
<1>3. ~Unserved /\ gdb # "idle" /\ ~Unserved'
  BY <1>0, <1>2 DEF QuietKnown, Quiet, Ended, Unserved
<1>4. puts \in Nat /\ puts + 1 \in Nat
  BY Numbers
<1>5. /\ packet'.k = "body" /\ packet'.id = puts + 1 /\ packet'.kind = Head(todo)
      /\ packet'.good /\ packet'.extra = 0
  BY <1>0, <1>2, <1>4, BodyTypes
<1>6. packet'.kind # "out" => Ended'
  BY <1>1, <1>2, <1>5 DEF Ended
<1>7. ~Refused /\ (~Clear => ~Has(toServer, Signs) /\ ~Has(toGdb, {"body"}))
  BY <1>0, NothingDue DEF Awaiting
<1>8. Turn'
  BY <1>0 DEF Turn, Unserved
<1>9. OnTheWay'
  BY <1>0 DEF OnTheWay, Open, Broken, Unserved
<1>10. AtBody'
  BY <1>0 DEF AtBody
<1>11. QuietKnown'
  BY <1>0, <1>3 DEF QuietKnown
<1>12. Todos'
  BY <1>0, <1>2, TodosDiffer DEF Todos
<1>13. Final'
  <2>1. ~Ended
    BY <1>2 DEF Ended
  <2>2. LastFinal(toGdb, FALSE)
    BY <2>1 DEF Final, LastFinal
  <2>3. LastFinal(toGdb', (Ended /\ pc # "send")')
    BY <1>0, <2>2 DEF LastFinal
  <2> QED BY <1>0, <1>5, <1>6, <2>3 DEF Final
<1>14. Acks'
  BY <1>0 DEF Acks, Unserved
<1>15. Count'
  <2>1. LastSent = puts /\ LastSent' = puts
    BY <1>0, <1>4, <1>7 DEF LastSent
  <2> QED BY <1>0, <2>1 DEF Count
<1>16. Clean'
  BY <1>0, <1>5 DEF Clean, Clear, Refused
<1>17. OneAtATime'
  BY <1>0, <1>7 DEF OneAtATime, Clear
<1>18. Large'
  BY <1>0, <1>5 DEF Large
<1>19. Interrupts'
  <2>1. running' => running /\ ctrl_c' = ctrl_c
    BY <1>0, <1>1
  <2> QED BY <1>0, <1>3, <2>1 DEF Interrupts
<1>20. ServedInOrder' /\ AcceptedInOrder'
  BY <1>0 DEF ServedInOrder, AcceptedInOrder
<1> QED BY <1>8, <1>9, <1>10, <1>11, <1>12, <1>13, <1>14, <1>15, <1>16, <1>17, <1>18, <1>19, <1>20

\* A step of the server that puts nothing: what is left to do is done, or there is more.
LEMMA TodoStep ==
  ASSUME PacketInv, UNCHANGED <<env, gdb, request, requests, accepted, asked, toServer, toGdb>>,
         UNCHANGED <<packet, puts, served, noack, running>>,
         pc \in {"idle", "handled"}, pc' = "handled", Ended => Ended',
         Todos', Interrupts'
  PROVE  Known'
<1> USE DEF PacketInv, Known
<1>0. ~Clear => ~Has(toServer, Signs) /\ ~Has(toGdb, {"body"})
  BY NothingDue DEF Awaiting
<1>1. Turn'
  BY DEF Turn, Unserved
<1>2. OnTheWay'
  BY DEF OnTheWay, Open, Broken, Unserved
<1>3. AtBody'
  BY DEF AtBody
<1>4. QuietKnown'
  BY DEF QuietKnown, Quiet, Unserved, Refused
<1>5. Final'
  <2>1. LastFinal(toGdb', (Ended /\ pc # "send")')
    BY DEF LastFinal, Final
  <2> QED BY <2>1 DEF Final, Awaiting
<1>6. Acks'
  BY DEF Acks, Unserved
<1>7. Count'
  BY DEF Count, LastSent, Refused
<1>8. Clean'
  BY DEF Clean, Clear, Refused
<1>9. OneAtATime'
  BY <1>0 DEF OneAtATime, Clear
<1>10. Large'
  BY DEF Large
<1>11. ServedInOrder' /\ AcceptedInOrder'
  BY DEF ServedInOrder, AcceptedInOrder
<1> QED BY <1>1, <1>2, <1>3, <1>4, <1>5, <1>6, <1>7, <1>8, <1>9, <1>10, <1>11

LEMMA ClearCtrlCStep == ASSUME PacketInv, ClearCtrlC PROVE Known'
<1>0. /\ UNCHANGED <<env, gdb, request, requests, accepted, asked, toServer, toGdb>>
      /\ UNCHANGED <<packet, puts, served, noack, running>>
      /\ pc = "handled" /\ pc' = pc /\ todo # <<>> /\ Head(todo) = "clear" /\ todo' = Tail(todo)
  BY DEF ClearCtrlC, GdbRest, gdbVars
<1>1. todo = <<"clear">> /\ todo' = <<>> /\ ~running
  <2>1. Todos
    BY DEF PacketInv, Known
  <2>2. todo = <<"clear">> /\ todo' = <<>>
    BY <1>0, <2>1, FirstOfTodo
  <2> QED BY <2>1, <2>2 DEF Todos
<1>2. Todos'
  BY <1>0, <1>1, TodosDiffer DEF Todos
<1>3. Interrupts'
  BY <1>0, <1>1 DEF PacketInv, Known, Interrupts, Unserved
<1>4. Ended'
  BY <1>0, <1>1 DEF Ended
<1> QED BY <1>0, <1>2, <1>3, <1>4, TodoStep

LEMMA PollStep == ASSUME PacketInv, Poll PROVE Known'
<1>0. /\ UNCHANGED <<env, gdb, request, requests, accepted, asked, toServer, toGdb>>
      /\ UNCHANGED <<packet, puts, served, noack, ctrl_c, running>>
      /\ pc = "idle" /\ pc' = "handled" /\ running /\ todo' \in {<<"stop">>, <<"out">>}
  BY DEF Poll, GdbRest, gdbVars
<1>1. Todos'
  BY <1>0, TodosDiffer DEF Todos
<1>2. Interrupts'
  BY <1>0 DEF PacketInv, Known, Interrupts, Unserved
<1>3. ~Ended
  BY <1>0 DEF Ended
<1> QED BY <1>0, <1>1, <1>2, <1>3, TodoStep

\* The server writes a packet.
LEMMA SendStep == ASSUME PacketInv, Send PROVE Known'
<1> USE DEF PacketInv, Known
<1>0. /\ UNCHANGED <<env, gdb, request, requests, accepted, asked, toServer, served, noack>>
      /\ UNCHANGED <<puts, todo, ctrl_c, running>>
      /\ pc = "send" /\ pc' = (IF noack THEN "handled" ELSE "answer")
      /\ toGdb' = Append(toGdb, packet) /\ packet' = Longer
  BY DEF Send, GdbRest, gdbVars, session, Longer
<1>1. pc' \in {"handled", "answer"} /\ (~noack => pc' = "answer")
  BY <1>0
<1>2. /\ packet \in Tokens /\ packet.k = "body" /\ packet.id = puts /\ packet.good
      /\ (packet.kind # "out" => Ended) /\ toGdb \in Seq(Tokens) /\ puts \in Nat
  BY <1>0, SequenceTypes, Numbers DEF TypesKnown, Final
<1>3. /\ packet' \in Tokens /\ packet'.k = "body" /\ packet'.id = puts /\ packet'.good
      /\ packet'.kind = packet.kind /\ packet'.extra = NextLength
  BY <1>0, <1>2, LongerFacts
<1>4. ~Unserved /\ gdb # "idle" /\ ~Unserved'
  BY <1>0 DEF QuietKnown, Quiet, Unserved
<1>5. ~Refused /\ ~Refused' /\ (~Clear => ~Has(toServer, Signs) /\ ~Has(toGdb, {"body"}))
  BY <1>0, NothingDue DEF Awaiting, Refused
<1>6. PlusFirst(toGdb)
  BY DEF Acks
<1>7. /\ PlusFirst(toGdb') /\ Bodies(toGdb') = Bodies(toGdb) + 1
      /\ (Has(toGdb', {"+"}) <=> Has(toGdb, {"+"}))
      /\ (Numbered(toGdb, packet.id - 1) => Numbered(toGdb', packet.id))
      /\ (Short(toGdb) /\ packet.extra = 0 => Short(toGdb'))
      /\ (Pure(toGdb) /\ packet.extra = 0 /\ packet.good => Pure(toGdb'))
      /\ \A ended : LastFinal(toGdb, FALSE) /\ (packet.kind # "out" => ended) => LastFinal(toGdb', ended)
  BY <1>0, <1>2, <1>6, StreamAppend
<1>8. Turn'
  BY <1>0 DEF Turn, Unserved
<1>9. OnTheWay'
  BY <1>0 DEF OnTheWay, Open, Broken, Unserved
<1>10. AtBody'
  BY <1>1 DEF AtBody
<1>11. QuietKnown'
  BY <1>0, <1>4 DEF QuietKnown
<1>12. Todos'
  BY <1>0, <1>1 DEF Todos
<1>13. Final'
  <2>1. LastFinal(toGdb, FALSE)
    BY <1>0 DEF Final, LastFinal
  <2>2. Ended <=> Ended'
    BY <1>0 DEF Ended
  <2>3. packet.kind # "out" => (Ended /\ pc # "send")'
    BY <1>1, <1>2, <2>2
  <2>4. LastFinal(toGdb', (Ended /\ pc # "send")')
    BY <1>7, <2>1, <2>3
  <2> QED BY <1>0, <1>2, <1>3, <2>2, <2>4 DEF Final
<1>14. Acks'
  BY <1>0, <1>7 DEF Acks, Unserved
<1>15. Count'
  <2>1. LastSent = puts - 1 /\ LastSent' = puts
    BY <1>0, <1>1, <1>5 DEF LastSent
  <2>2. Numbered(toGdb, packet.id - 1) /\ Len(accepted) + Bodies(toGdb) = puts - 1
    BY <1>2, <2>1 DEF Count
  <2>3. Numbered(toGdb', LastSent')
    BY <1>2, <1>7, <2>1, <2>2
  <2>4. Len(accepted') + Bodies(toGdb') = LastSent'
    BY <1>0, <1>2, <1>7, <2>1, <2>2, Numbers
  <2> QED BY <2>3, <2>4 DEF Count
<1>16. Clean'
  BY <1>0, <1>1, <1>2, <1>5, <1>7 DEF Clean, Clear
<1>17. OneAtATime'
  <2> SUFFICES ASSUME ~Clear' PROVE OneAtATime'
    BY DEF OneAtATime
  <2>1. ~Clear /\ ~noack
    BY <1>0 DEF Clear
  <2>2. Single(toGdb, {"body"}) /\ Single(toServer, Signs)
    BY <2>1 DEF OneAtATime
  <2>3. Single(toGdb', {"body"})
    BY <1>0, <1>2, <1>5, <2>1, <2>2, AppendFacts
  <2> QED BY <1>0, <1>1, <1>5, <2>1, <2>2, <2>3 DEF OneAtATime, Awaiting
<1>18. Large'
  BY <1>0, <1>3, <1>7 DEF Large, NextLength
<1>19. Interrupts'
  BY <1>0, <1>1 DEF Interrupts, Unserved
<1>20. ServedInOrder' /\ AcceptedInOrder'
  BY <1>0 DEF ServedInOrder, AcceptedInOrder
<1> QED BY <1>8, <1>9, <1>10, <1>11, <1>12, <1>13, <1>14, <1>15, <1>16, <1>17, <1>18, <1>19, <1>20

\* GDB is not waiting for the reply to what the server has not yet handled, while there
\* are acknowledgements.
LEMMA WaitsForReply ==
  ASSUME PacketInv, pc \in Awaiting, gdb = "waiting"
  PROVE  ~Unserved
<1>1. ~noack
  BY Numbers DEF PacketInv
<1> QED BY <1>1 DEF PacketInv, Known, Turn

\* The server reads an answer, or what comes in its place.
LEMMA AnswerStep == ASSUME PacketInv, Answer PROVE Known'
<1> USE DEF PacketInv, Known
<1>0. /\ UNCHANGED <<env, gdb, request, requests, accepted, asked, toGdb, served, noack>>
      /\ UNCHANGED <<packet, puts, todo, ctrl_c, running>>
      /\ pc \in Awaiting /\ toServer # <<>> /\ pc' = After(Here.k)
      /\ (Here.k = "$" => toServer' = toServer) /\ (Here.k # "$" => toServer' = Tail(toServer))
      /\ (Here.k = "intr" => pc = "answer after interrupt")
  BY DEF Answer, Reads, GdbRest, gdbVars, sending, Awaiting
<1>1. /\ Here \in Tokens /\ Here = toServer[1] /\ 1 \in DOMAIN toServer /\ toServer \in Seq(Tokens)
      /\ Here.k \in {"+", "-", "$", "intr", "body"}
  <2>1. toServer \in Seq(Tokens)
    BY SequenceTypes
  <2>2. Here \in Tokens /\ Here = toServer[1] /\ 1 \in DOMAIN toServer
    BY <1>0, <2>1, ReadFacts DEF Here
  <2> QED BY <2>1, <2>2 DEF Tokens
<1>2. pc # "send" /\ pc' \in {"handled", "send", "closed"} /\ (pc' = "send" <=> Here.k = "-")
  BY <1>0, <1>1 DEF After, Awaiting
<1>3. /\ (Here.k # "-" => (Refused' <=> Refused)) /\ (Here.k = "-" => Refused)
      /\ (Refused' => Refused)
      /\ (Here.k # "intr" => (Has(toServer', {"intr"}) <=> Has(toServer, {"intr"})))
      /\ (Here.k \in Signs /\ Single(toServer, Signs) => ~Has(toServer', Signs))
      /\ (Has(toServer', Signs) => Has(toServer, Signs))
      /\ (Single(toServer, Signs) => Single(toServer', Signs))
      /\ (Here.k = "-" => Has(toServer, Signs))
  <2>1. Here.k = "-" => Refused /\ Has(toServer, Signs)
    BY <1>1 DEF Refused, Has, Signs
  <2>2. CASE Here.k = "$"
    <3>1. toServer' = toServer /\ Here.k \notin Signs
      BY <1>0, <2>2 DEF Signs
    <3> QED BY <2>1, <2>2, <3>1 DEF Refused
  <2>3. CASE Here.k # "$"
    <3>1. toServer' = Tail(toServer) /\ Here = Head(toServer)
      BY <1>0, <2>3 DEF Here
    <3>2. Here.k \notin {"-"} => (Has(toServer, {"-"}) <=> Has(toServer', {"-"}))
      BY <1>0, <1>1, <3>1, ReadFacts
    <3>3. Here.k # "-" => (Refused' <=> Refused)
      BY <3>2 DEF Refused
    <3> QED BY <1>0, <2>1, <3>1, <3>3, ReadingFacts
  <2> QED BY <2>2, <2>3
<1>4. Here.k = "-" => ~Clear /\ ~Has(toGdb, {"body"})
  <2>1. Here.k = "-" => ~Clear
    BY <1>3 DEF Clean
  <2> QED BY <1>3, <2>1 DEF OneAtATime
<1>5. Turn'
  BY <1>0 DEF Turn, Unserved
<1>6. OnTheWay'
  <2>1. Way(toServer', requests, request, Open, Broken)
    <3>1. CASE Here.k = "$"
      BY <1>0, <3>1 DEF OnTheWay
    <3>2. CASE Here.k # "$"
      BY <1>0, <3>2, ReadingFacts DEF OnTheWay
    <3> QED BY <3>1, <3>2
  <2> QED BY <1>0, <2>1 DEF OnTheWay, Open, Broken, Unserved
<1>7. AtBody'
  BY <1>2 DEF AtBody
<1>8. QuietKnown'
  <2>1. Quiet => Here.k # "-"
    BY <1>3 DEF Quiet
  <2>2. Quiet => Quiet'
    BY <1>0, <1>2, <1>3, <2>1 DEF Quiet, Ended
  <2> QED BY <1>0, <2>2 DEF QuietKnown, Unserved
<1>9. Todos'
  BY <1>0, <1>2 DEF Todos
<1>10. Final'
  <2>1. pc' = "send" => \A i \in DOMAIN toGdb : toGdb[i].k # "body"
    BY <1>2, <1>4 DEF Has
  <2>2. Ended' <=> Ended
    BY <1>0 DEF Ended
  <2>3. LastFinal(toGdb', (Ended /\ pc # "send")')
    BY <1>0, <2>1, <2>2 DEF Final, LastFinal
  <2>4. packet.k = "body" /\ packet.id = puts /\ packet.good /\ (packet.kind # "out" => Ended)
    BY <1>0 DEF Final
  <2> QED BY <1>0, <2>2, <2>3, <2>4 DEF Final
<1>11. Acks'
  BY <1>0 DEF Acks, Unserved
<1>12. Count'
  <2>1. LastSent' = LastSent
    BY <1>0, <1>2, <1>3 DEF LastSent
  <2> QED BY <1>0, <2>1 DEF Count
<1>13. Clean'
  BY <1>0, <1>2, <1>3, <1>4 DEF Clean, Clear
<1>14. OneAtATime'
  <2> SUFFICES ASSUME ~Clear' PROVE OneAtATime'
    BY DEF OneAtATime
  <2>1. ~Clear
    BY <1>0 DEF Clear
  <2>2. /\ Single(toServer', Signs) /\ Single(toGdb', {"body"})
        /\ ~(Has(toServer', Signs) /\ Has(toGdb', {"body"}))
    BY <1>0, <1>3, <2>1 DEF OneAtATime
  <2>3. CASE Here.k \in Signs
    <3>1. ~Has(toServer', Signs) /\ ~Has(toGdb', {"body"})
      <4>1. Has(toServer, Signs)
        BY <1>1, <2>3 DEF Has
      <4> QED BY <1>0, <1>3, <2>1, <2>3, <4>1 DEF OneAtATime
    <3> QED BY <2>2, <3>1 DEF OneAtATime
  <2>4. CASE Here.k = "$"
    <3>1. Open /\ \A j \in DOMAIN toServer : j > 1 => toServer[j].k \notin Signs
      BY <1>1, <2>4 DEF OnTheWay, Way, Parts
    <3>2. DOMAIN toServer = 1 .. Len(toServer)
      BY <1>1
    <3>3. \A j \in DOMAIN toServer : toServer[j].k \notin Signs
      BY <1>1, <2>4, <3>1, <3>2 DEF Signs
    <3>4. ~Has(toServer', Signs)
      BY <1>0, <2>4, <3>3 DEF Has
    <3>5. ~Has(toGdb', {"body"})
      <4>1. toGdb = <<>>
        BY <3>1 DEF Open, QuietKnown, Quiet
      <4>2. toGdb' = <<>>
        BY <1>0, <4>1
      <4> QED BY <4>2 DEF Has
    <3> QED BY <2>2, <3>4, <3>5 DEF OneAtATime
  <2>5. CASE Here.k \in {"intr", "body"}
    <3>1. pc' = "closed"
      BY <1>0, <2>5 DEF After
    <3> QED BY <2>2, <3>1 DEF OneAtATime
  <2> QED BY <1>1, <2>3, <2>4, <2>5 DEF Signs
<1>15. Large'
  BY <1>0 DEF Large
<1>16. Interrupts'
  <2>1. gdb = "waiting" => ~Unserved
    BY <1>0, WaitsForReply
  <2>2. Here.k = "intr" => ctrl_c
    BY <1>0 DEF Interrupts
  <2> QED BY <1>0, <1>2, <1>3, <2>1, <2>2 DEF Interrupts, Unserved
<1>17. ServedInOrder' /\ AcceptedInOrder'
  BY <1>0 DEF ServedInOrder, AcceptedInOrder
<1> QED BY <1>5, <1>6, <1>7, <1>8, <1>9, <1>10, <1>11, <1>12, <1>13, <1>14, <1>15, <1>16, <1>17

LEMMA AnswerInterruptStep == ASSUME PacketInv, AnswerInterrupt PROVE Known'
<1> USE DEF PacketInv, Known
<1>0. /\ UNCHANGED <<env, gdb, request, requests, accepted, asked, toGdb, served, noack>>
      /\ UNCHANGED <<packet, puts, todo, running>>
      /\ pc \in Awaiting /\ pc' = "answer after interrupt" /\ ctrl_c' = TRUE
      /\ toServer # <<>> /\ toServer' = Tail(toServer) /\ Here.k = "intr"
  BY DEF AnswerInterrupt, Reads, GdbRest, gdbVars, sending, Awaiting, Remembered
<1>1. Refused' <=> Refused
  <2>1. toServer \in Seq(Tokens) /\ Here = Head(toServer)
    BY SequenceTypes DEF Here
  <2>2. Here.k \notin {"-"} => (Has(toServer, {"-"}) <=> Has(toServer', {"-"}))
    BY <1>0, <2>1, ReadFacts
  <2> QED BY <1>0, <2>2 DEF Refused
<1>2. pc # "send" /\ pc' \in Awaiting
  BY <1>0 DEF Awaiting
<1>3. Turn'
  BY <1>0 DEF Turn, Unserved
<1>4. OnTheWay'
  <2>1. Way(toServer', requests, request, Open, Broken)
    BY <1>0, ReadingFacts DEF OnTheWay
  <2> QED BY <1>0, <2>1 DEF OnTheWay, Open, Broken, Unserved
<1>5. AtBody'
  BY <1>0 DEF AtBody
<1>6. QuietKnown'
  BY <1>0, <1>1 DEF QuietKnown, Quiet, Unserved, Ended
<1>7. Todos'
  BY <1>0 DEF Todos
<1>8. Final'
  <2>1. LastFinal(toGdb', (Ended /\ pc # "send")')
    BY <1>0, <1>2 DEF Final, LastFinal, Ended
  <2> QED BY <1>0, <2>1 DEF Final, Ended
<1>9. Acks'
  BY <1>0 DEF Acks, Unserved
<1>10. Count'
  <2>1. LastSent' = LastSent
    BY <1>0, <1>1, <1>2 DEF LastSent
  <2> QED BY <1>0, <2>1 DEF Count
<1>11. Clean'
  BY <1>0, <1>1 DEF Clean, Clear
<1>12. OneAtATime'
  <2>1. ~Clear => Single(toServer', Signs) /\ (Has(toServer', Signs) => Has(toServer, Signs))
    BY <1>0, ReadingFacts DEF OneAtATime
  <2> QED BY <1>0, <1>2, <2>1 DEF OneAtATime, Clear
<1>13. Large'
  BY <1>0 DEF Large
<1>14. Interrupts'
  <2>1. gdb = "waiting" => ~Unserved
    BY <1>0, WaitsForReply
  <2> QED BY <1>0, <2>1 DEF Interrupts, Unserved
<1>15. ServedInOrder' /\ AcceptedInOrder'
  BY <1>0 DEF ServedInOrder, AcceptedInOrder
<1> QED BY <1>3, <1>4, <1>5, <1>6, <1>7, <1>8, <1>9, <1>10, <1>11, <1>12, <1>13, <1>14, <1>15

LEMMA NoParts ==
  ASSUME OnTheWay, ~Open
  PROVE  ~Has(toServer, Parts)
BY DEF OnTheWay, Way, Has

LEMMA WayMeans ==
  ASSUME NEW s, NEW n, NEW r, NEW o \in BOOLEAN, NEW b \in BOOLEAN, Way(s, n, r, o, b),
         NEW open, NEW broken, open <=> o, broken <=> b
  PROVE  Way(s, n, r, open, broken)
BY DEF Way

\* GDB does something that does not change what the server sent.
LEMMA WriteStep ==
  ASSUME PacketInv, UNCHANGED <<env, accepted, toGdb, pc, packet, puts, todo, served, noack>>,
         UNCHANGED <<ctrl_c, running>>,
         Refused' <=> Refused, Single(toServer, Signs) => Single(toServer', Signs),
         Has(toServer', Signs) => Has(toServer, Signs),
         Unserved' \/ gdb' = "idle" => Quiet,
         Turn', OnTheWay', AtBody', Acks', Interrupts'
  PROVE  Known'
<1> USE DEF PacketInv, Known
<1>1. QuietKnown'
  BY DEF QuietKnown, Quiet, Ended
<1>2. Todos'
  BY DEF Todos
<1>3. Final'
  BY DEF Final, Ended
<1>4. Count'
  BY DEF Count, LastSent
<1>5. Clean'
  BY DEF Clean, Clear
<1>6. OneAtATime'
  BY DEF OneAtATime, Clear
<1>7. Large'
  BY DEF Large
<1>8. ServedInOrder' /\ AcceptedInOrder'
  BY DEF ServedInOrder, AcceptedInOrder
<1> QED BY <1>1, <1>2, <1>3, <1>4, <1>5, <1>6, <1>7, <1>8

LEMMA GdbRequestStep == ASSUME PacketInv, GdbRequest PROVE Known'
<1> USE DEF PacketInv, Known
<1>0. /\ UNCHANGED <<env, accepted, toServer, toGdb, pc, packet, puts, todo, served, noack>>
      /\ UNCHANGED <<ctrl_c, running>>
      /\ gdb = "idle" /\ gdb' = "sending" /\ requests' = requests + 1 /\ asked' = 0
      /\ (noack => request' # "noack")
  BY DEF GdbRequest, ServerRest, server, sending, session
<1>1. ~Unserved /\ requests = Len(served) /\ Len(served) \in Nat /\ Unserved' /\ Quiet
  <2>1. ~Unserved /\ Quiet
    BY <1>0 DEF Turn, QuietKnown
  <2>2. requests = Len(served) /\ Len(served) \in Nat
    <3>1. requests \in {Len(served), Len(served) + 1} /\ ~(Len(served) < requests)
      BY <2>1 DEF Turn, Unserved
    <3> QED BY <3>1, Numbers
  <2>3. Unserved'
    BY <1>0, <2>2 DEF Unserved
  <2> QED BY <2>1, <2>2, <2>3
<1>2. Turn'
  BY <1>0, <1>1 DEF Turn
<1>3. ~Open
  BY <1>1 DEF Open
<1>4. OnTheWay'
  BY <1>0, <1>3, NoParts, WayFree, SequenceTypes DEF OnTheWay
<1>5. AtBody'
  BY <1>0, <1>3 DEF AtBody
<1>6. Acks'
  BY <1>0 DEF Acks
<1>7. Interrupts'
  BY <1>0 DEF Interrupts
<1> QED BY <1>0, <1>1, <1>2, <1>4, <1>5, <1>6, <1>7, WriteStep DEF Refused

\* What GDB adds.
LEMMA WritingFacts ==
  ASSUME TypesKnown, NEW e \in Tokens, toServer' = Append(toServer, e)
  PROVE  /\ Refused' <=> Refused \/ e.k = "-"
         /\ Has(toServer', Signs) <=> Has(toServer, Signs) \/ e.k \in Signs
         /\ Single(toServer, Signs) /\ (e.k \in Signs => ~Has(toServer, Signs)) =>
              Single(toServer', Signs)
         /\ Has(toServer', {"intr"}) <=> Has(toServer, {"intr"}) \/ e.k = "intr"
         /\ Has(toServer', {"$"}) <=> Has(toServer, {"$"}) \/ e.k = "$"
         /\ Has(toServer', Parts) <=> Has(toServer, Parts) \/ e.k \in Parts
         /\ toServer' # <<>> /\ Head(toServer') = IF toServer = <<>> THEN e ELSE Head(toServer)
<1>1. toServer \in Seq(Tokens)
  BY SequenceTypes
<1>2. /\ \A K : Has(toServer', K) <=> Has(toServer, K) \/ e.k \in K
      /\ \A K : Single(toServer, K) /\ (e.k \in K => ~Has(toServer, K)) => Single(toServer', K)
      /\ toServer' # <<>>
  BY <1>1, AppendFacts
<1>3. /\ Refused' <=> Refused \/ e.k = "-"
      /\ Has(toServer', {"intr"}) <=> Has(toServer, {"intr"}) \/ e.k = "intr"
      /\ Has(toServer', {"$"}) <=> Has(toServer, {"$"}) \/ e.k = "$"
  BY <1>2 DEF Refused
<1>4. Head(toServer') = IF toServer = <<>> THEN e ELSE Head(toServer)
  BY <1>1
<1> QED BY <1>2, <1>3, <1>4

LEMMA GdbWritesStep == ASSUME PacketInv, GdbWrites PROVE Known'
<1> USE DEF PacketInv, Known
<1> DEFINE d == Sign("$")
           b == Body(requests, request)
<1>0. /\ UNCHANGED <<env, request, requests, accepted, asked, toGdb>>
      /\ UNCHANGED <<pc, packet, puts, todo, served, noack, ctrl_c, running>>
      /\ gdb = "sending"
  BY DEF GdbWrites, server, sending, session
<1>1. \/ toServer' = toServer \o <<d, b>> /\ gdb' = Written
      \/ toServer' = Append(toServer, d) /\ gdb' = "sending body"
  BY DEF GdbWrites
<1>2. Written = IF noack THEN "waiting" ELSE "unanswered"
  BY <1>0 DEF Written, Silent
<1>3. /\ d \in Tokens /\ d.k = "$" /\ b \in Tokens /\ b.k = "body" /\ b.id = requests
      /\ b.kind = request /\ toServer \in Seq(Tokens)
  <2>1. request \in Kinds /\ requests \in Nat
    BY Numbers DEF TypesKnown, TypeOK
  <2> QED BY <2>1, SignTypes, BodyTypes, SequenceTypes
<1> HIDE DEF d, b
<1>4. Unserved /\ Unserved' /\ Quiet /\ ~Open
  BY <1>0 DEF Turn, QuietKnown, Unserved, Open
<1>5. ~Has(toServer, Parts)
  BY <1>4, NoParts
<1>6. OnTheWay' /\ gdb' \in {"waiting", "unanswered", "sending body"}
      /\ (gdb' = "waiting" => noack) /\ (gdb' = "unanswered" => ~noack)
  <2>1. CASE toServer' = toServer \o <<d, b>> /\ gdb' = Written
    <3>1. Way(toServer', requests, request, TRUE, FALSE)
      BY <1>3, <1>5, <2>1, WayWhole
    <3>2. (Open' <=> TRUE) /\ (Broken' <=> FALSE)
      BY <1>2, <1>4, <2>1 DEF Open, Broken
    <3>3. Way(toServer', requests, request, Open', Broken')
      BY <3>1, <3>2, WayMeans
    <3> QED BY <1>0, <1>2, <2>1, <3>3 DEF OnTheWay
  <2>2. CASE toServer' = Append(toServer, d) /\ gdb' = "sending body"
    <3>1. Way(toServer', requests, request, TRUE, TRUE)
      BY <1>3, <1>5, <2>2, WayStart
    <3>2. (Open' <=> TRUE) /\ (Broken' <=> TRUE)
      BY <1>4, <2>2 DEF Open, Broken
    <3>3. Way(toServer', requests, request, Open', Broken')
      BY <3>1, <3>2, WayMeans
    <3> QED BY <1>0, <2>2, <3>3 DEF OnTheWay
  <2> QED BY <1>1, <2>1, <2>2
<1>7. /\ Refused' <=> Refused
      /\ Single(toServer, Signs) => Single(toServer', Signs)
      /\ Has(toServer', Signs) => Has(toServer, Signs)
  <2>1. \A K : "$" \notin K /\ "body" \notin K =>
          (Has(toServer', K) <=> Has(toServer, K)) /\ (Single(toServer, K) => Single(toServer', K))
    <3> DEFINE u == Append(toServer, d)
               w == Append(u, b)
    <3>1. u \in Seq(Tokens) /\ toServer \o <<d, b>> = w
      BY <1>3, <1>5, AppendFacts, WayWhole
    <3>2. /\ \A K : Has(u, K) <=> Has(toServer, K) \/ "$" \in K
          /\ \A K : Single(toServer, K) /\ "$" \notin K => Single(u, K)
      BY <1>3, AppendFacts
    <3>3. toServer' \in {u, w}
      BY <1>1, <3>1
    <3> HIDE DEF u
    <3>4. /\ \A K : Has(w, K) <=> Has(u, K) \/ "body" \in K
          /\ \A K : Single(u, K) /\ "body" \notin K => Single(w, K)
      BY <1>3, <3>1, AppendFacts
    <3> HIDE DEF w
    <3> QED BY <3>2, <3>3, <3>4
  <2>2. "$" \notin {"-"} /\ "body" \notin {"-"} /\ "$" \notin Signs /\ "body" \notin Signs
    BY DEF Signs
  <2> QED BY <2>1, <2>2 DEF Refused
<1>8. asked = 0
  <2>1. ~(asked > 0)
    BY <1>0 DEF Turn
  <2> QED BY <2>1, Numbers
<1>9. Turn'
  <2>1. noack => request # "noack"
    BY <1>4 DEF Turn
  <2> QED BY <1>0, <1>4, <1>6, <1>8, <2>1 DEF Turn
<1>10. AtBody'
  BY <1>0, <1>4 DEF AtBody
<1>11. Acks'
  BY <1>0, <1>4 DEF Acks
<1>12. Interrupts'
  <2>1. asked' = 0
    BY <1>0, <1>8
  <2>2. ~(asked' > 0)
    BY <2>1
  <2> QED BY <1>0, <2>2 DEF Interrupts
<1> QED BY <1>0, <1>4, <1>6, <1>7, <1>9, <1>10, <1>11, <1>12, WriteStep

LEMMA GdbWritesBodyStep == ASSUME PacketInv, GdbWritesBody PROVE Known'
<1> USE DEF PacketInv, Known
<1> DEFINE b == Body(requests, request)
<1>0. /\ UNCHANGED <<env, request, requests, accepted, asked, toGdb>>
      /\ UNCHANGED <<pc, packet, puts, todo, served, noack, ctrl_c, running>>
      /\ gdb = "sending body" /\ gdb' = Written /\ toServer' = Append(toServer, b)
  BY DEF GdbWritesBody, ServerRest, server, sending, session
<1>1. Written = IF noack THEN "waiting" ELSE "unanswered"
  BY <1>0 DEF Written, Silent
<1>2. /\ b \in Tokens /\ b.k = "body" /\ b.id = requests
      /\ b.kind = request /\ toServer \in Seq(Tokens)
  <2>1. request \in Kinds /\ requests \in Nat
    BY Numbers DEF TypesKnown, TypeOK
  <2> QED BY <2>1, SignTypes, BodyTypes, SequenceTypes
<1> HIDE DEF b
<1>3. Unserved /\ Unserved' /\ Quiet /\ Open /\ Broken
  BY <1>0 DEF Turn, QuietKnown, Unserved, Open, Broken
<1>4. OnTheWay'
  <2>1. Way(toServer, requests, request, TRUE, TRUE)
    BY <1>3, WayMeans DEF OnTheWay, Way
  <2>2. Way(toServer', requests, request, TRUE, FALSE)
    BY <1>0, <1>2, <2>1, WayBody
  <2>3. (Open' <=> TRUE) /\ (Broken' <=> FALSE)
    BY <1>0, <1>1, <1>3 DEF Open, Broken
  <2>4. Way(toServer', requests, request, Open', Broken')
    BY <2>2, <2>3, WayMeans
  <2> QED BY <1>0, <2>4 DEF OnTheWay
<1>5. /\ Refused' <=> Refused
      /\ Single(toServer, Signs) => Single(toServer', Signs)
      /\ Has(toServer', Signs) => Has(toServer, Signs)
      /\ Has(toServer', {"$"}) <=> Has(toServer, {"$"})
      /\ toServer' # <<>> /\ Head(toServer') = IF toServer = <<>> THEN b ELSE Head(toServer)
  BY <1>0, <1>2, WritingFacts DEF Signs
<1>6. asked = 0
  <2>1. ~(asked > 0)
    BY <1>0 DEF Turn
  <2> QED BY <2>1, Numbers
<1>7. Turn'
  <2>1. noack => request # "noack"
    BY <1>3 DEF Turn
  <2> QED BY <1>0, <1>1, <1>3, <1>6, <2>1 DEF Turn
<1>8. AtBody'
  <2>1. Open'
    BY <1>0, <1>1, <1>3 DEF Open
  <2> QED BY <1>0, <1>2, <1>5, <2>1 DEF AtBody
<1>9. Acks'
  BY <1>0, <1>3 DEF Acks
<1>10. Interrupts'
  <2>1. asked' = 0
    BY <1>0, <1>6
  <2>2. ~(asked' > 0)
    BY <2>1
  <2> QED BY <1>0, <2>2 DEF Interrupts
<1> QED BY <1>0, <1>3, <1>4, <1>5, <1>7, <1>8, <1>9, <1>10, WriteStep

LEMMA GdbSendsAgainStep == ASSUME PacketInv, GdbSendsAgain PROVE Known'
<1> USE DEF PacketInv, Known
<1>0. /\ UNCHANGED <<env, request, requests, accepted, asked, toServer, toGdb>>
      /\ UNCHANGED <<pc, packet, puts, todo, served, noack, ctrl_c, running>>
      /\ gdb = "unanswered" /\ gdb' = "sending" /\ toGdb = <<>>
      /\ toServer = <<>> /\ pc = "idle"
  BY DEF GdbSendsAgain, ServerRest, server, sending, session, Patient
<1>1. Unserved /\ Unserved' /\ Quiet
  <2>1. ~Has(toGdb, {"+"})
    BY <1>0 DEF Has
  <2> QED BY <1>0, <2>1 DEF Acks, QuietKnown, Unserved
<1>2. Turn'
  BY <1>0, <1>1 DEF Turn
<1>3. OnTheWay'
  <2>1. ~Has(toServer', Parts)
    BY <1>0 DEF Has
  <2> QED BY <1>0, <2>1, SequenceTypes, WayFree DEF OnTheWay
<1>4. AtBody'
  BY <1>0 DEF AtBody
<1>5. Acks'
  BY <1>0, <1>1 DEF Acks
<1>6. Interrupts'
  BY <1>0 DEF Interrupts
<1> QED BY <1>0, <1>1, <1>2, <1>3, <1>4, <1>5, <1>6, WriteStep DEF Refused

LEMMA GdbInterruptsStep == ASSUME PacketInv, GdbInterrupts PROVE Known'
<1> USE DEF PacketInv, Known
<1> DEFINE e == Sign("intr")
<1>0. /\ UNCHANGED <<env, gdb, request, requests, accepted, toGdb>>
      /\ UNCHANGED <<pc, packet, puts, todo, served, noack, ctrl_c, running>>
      /\ gdb = "waiting" /\ toServer' = Append(toServer, e)
  BY DEF GdbInterrupts, ServerRest, server, sending, session
<1>1. e \in Tokens /\ e.k = "intr" /\ toServer \in Seq(Tokens)
  BY SignTypes, SequenceTypes
<1> HIDE DEF e
<1>2. /\ Refused' <=> Refused
      /\ Single(toServer, Signs) => Single(toServer', Signs)
      /\ Has(toServer', Signs) => Has(toServer, Signs)
      /\ Has(toServer', {"$"}) <=> Has(toServer, {"$"})
      /\ Has(toServer', {"intr"})
      /\ toServer' # <<>> /\ Head(toServer') = IF toServer = <<>> THEN e ELSE Head(toServer)
  BY <1>0, <1>1, WritingFacts DEF Signs
<1>3. Turn'
  BY <1>0 DEF Turn, Unserved
<1>4. ~Broken
  BY <1>0 DEF Broken
<1>5. OnTheWay'
  <2>1. Way(toServer', requests, request, Open, Broken)
    BY <1>0, <1>1, <1>4, WayAppend DEF OnTheWay
  <2> QED BY <1>0, <2>1 DEF OnTheWay, Open, Broken, Unserved
<1>6. AtBody'
  BY <1>0, <1>2, <1>4 DEF AtBody, Open, Unserved
<1>7. Acks'
  BY <1>0 DEF Acks, Unserved
<1>8. Interrupts'
  BY <1>0, <1>2 DEF Interrupts
<1>9. Unserved' \/ gdb' = "idle" => Quiet
  BY <1>0 DEF QuietKnown, Unserved
<1> QED BY <1>0, <1>2, <1>3, <1>5, <1>6, <1>7, <1>8, <1>9, WriteStep

LEMMA GdbAnsweredStep == ASSUME PacketInv, GdbAnswered PROVE Known'
<1> USE DEF PacketInv, Known
<1>0. /\ UNCHANGED <<env, request, requests, accepted, asked, toServer>>
      /\ UNCHANGED <<pc, packet, puts, todo, served, noack, ctrl_c, running>>
      /\ toGdb # <<>> /\ Head(toGdb).k = "+" /\ toGdb' = Tail(toGdb)
      /\ gdb' = IF gdb = "unanswered" THEN "waiting" ELSE gdb
  BY DEF GdbAnswered, ServerRest, server, sending, session
<1>1. toGdb \in Seq(Tokens) /\ PlusFirst(toGdb)
  BY SequenceTypes DEF Acks
<1>2. /\ PlusFirst(toGdb') /\ ~Has(toGdb', {"+"}) /\ Has(toGdb, {"+"})
      /\ Bodies(toGdb') = Bodies(toGdb)
      /\ \A z \in Int : Numbered(toGdb, z) => Numbered(toGdb', z)
      /\ Short(toGdb) => Short(toGdb')
      /\ Pure(toGdb) => Pure(toGdb')
  BY <1>0, <1>1, StreamTail
<1>3. gdb = "unanswered" /\ gdb' = "waiting" /\ ~Unserved /\ ~Unserved'
  BY <1>0, <1>2 DEF Acks, Unserved
<1>4. /\ Has(toGdb', {"body"}) => Has(toGdb, {"body"})
      /\ Single(toGdb, {"body"}) => Single(toGdb', {"body"})
  BY <1>0, <1>1, ReadFacts
<1>5. Turn'
  BY <1>0, <1>3 DEF Turn
<1>6. OnTheWay'
  BY <1>0, <1>3 DEF OnTheWay, Open, Broken
<1>7. AtBody'
  BY <1>0, <1>3 DEF AtBody, Open
<1>8. QuietKnown'
  BY <1>3 DEF QuietKnown
<1>9. Todos'
  BY <1>0 DEF Todos
<1>10. Final'
  <2>1. LastFinal(toGdb', Ended /\ pc # "send")
    BY <1>0, <1>1, FinalTail DEF Final
  <2>2. Ended' <=> Ended
    BY <1>0 DEF Ended
  <2>3. LastFinal(toGdb', (Ended /\ pc # "send")')
    BY <1>0, <2>1, <2>2 DEF LastFinal
  <2> QED BY <1>0, <2>2, <2>3 DEF Final
<1>11. Acks'
  BY <1>2, <1>3 DEF Acks
<1>12. Count'
  <2>1. LastSent' = LastSent
    BY <1>0 DEF LastSent, Refused
  <2> QED BY <1>0, <1>2, <2>1, Numbers DEF Count
<1>13. Clean'
  BY <1>0, <1>2 DEF Clean, Clear, Refused
<1>14. OneAtATime'
  BY <1>0, <1>4 DEF OneAtATime, Clear
<1>15. Large'
  BY <1>0, <1>2 DEF Large
<1>16. Interrupts'
  <2>1. ~(asked > 0)
    BY <1>3 DEF Turn
  <2> QED BY <1>0, <2>1 DEF Interrupts
<1>17. ServedInOrder' /\ AcceptedInOrder'
  BY <1>0 DEF ServedInOrder, AcceptedInOrder
<1> QED BY <1>5, <1>6, <1>7, <1>8, <1>9, <1>10, <1>11, <1>12, <1>13, <1>14, <1>15, <1>16, <1>17

\* GDB has a packet before it.
LEMMA GdbHasPacket ==
  ASSUME PacketInv, gdb \in {"waiting", "idle"}, toGdb # <<>>, Head(toGdb).k = "body"
  PROVE  /\ ~Unserved /\ gdb = "waiting" /\ ~Refused /\ pc # "body" /\ ~Has(toServer, Parts)
         /\ ~Has(toGdb, {"+"}) /\ ~Has(Tail(toGdb), {"+"}) /\ PlusFirst(Tail(toGdb))
         /\ Bodies(Tail(toGdb)) = Bodies(toGdb) - 1 /\ Numbered(Tail(toGdb), LastSent)
         /\ Short(toGdb) => Short(Tail(toGdb)) /\ Head(toGdb).extra = 0
         /\ Pure(toGdb) => Pure(Tail(toGdb)) /\ Head(toGdb).extra = 0 /\ Head(toGdb).good
         /\ LastFinal(Tail(toGdb), Ended /\ pc # "send")
         /\ Head(toGdb).kind # "out" => Tail(toGdb) = <<>> /\ Ended /\ pc # "send"
         /\ ~Clear => /\ ~Has(toServer, Signs) /\ ~Has(Tail(toGdb), {"body"})
                      /\ pc \in Awaiting \cup {"closed"}
         /\ Head(toGdb).id + (Len(toGdb) - 1) = LastSent /\ Bodies(toGdb) = Len(toGdb)
         /\ Len(toGdb) \in Nat
<1> USE DEF PacketInv, Known
<1>1. toGdb \in Seq(Tokens) /\ PlusFirst(toGdb) /\ LastSent \in Int
  BY SequenceTypes, Numbers DEF Acks
<1>2. ~Unserved /\ gdb = "waiting"
  BY DEF QuietKnown, Quiet
<1>3. pc # "body" /\ ~Has(toServer, Parts)
  BY <1>2, NoParts DEF AtBody, Open
<1>4. Head(toGdb) = toGdb[1] /\ 1 \in DOMAIN toGdb /\ Has(toGdb, {"body"}) /\ Len(toGdb) \in Nat
  BY <1>1, ReadFacts
<1>5. ~Refused /\ (~Clear => ~Has(toServer, Signs) /\ pc \in Awaiting \cup {"closed"})
  <2>1. ~Clear => ~Has(toServer, Signs) /\ pc \in Awaiting \cup {"closed"}
    BY <1>4 DEF OneAtATime
  <2>2. Refused => Has(toServer, Signs)
    BY DEF Refused, Has, Signs
  <2> QED BY <2>1, <2>2 DEF Clean
<1>6. ~Clear => ~Has(Tail(toGdb), {"body"})
  <2>1. ~Clear => Single(toGdb, {"body"})
    BY DEF OneAtATime
  <2> QED BY <1>1, <2>1, ReadFacts
<1>7. /\ ~Has(toGdb, {"+"}) /\ ~Has(Tail(toGdb), {"+"}) /\ PlusFirst(Tail(toGdb))
      /\ Bodies(Tail(toGdb)) = Bodies(toGdb) - 1
      /\ (Short(toGdb) => Short(Tail(toGdb))) /\ (Pure(toGdb) => Pure(Tail(toGdb)))
  BY <1>1, StreamTail
<1>8. Numbered(Tail(toGdb), LastSent)
  BY <1>1, StreamTail DEF Count
<1>9. /\ LastFinal(Tail(toGdb), Ended /\ pc # "send")
      /\ Head(toGdb).kind # "out" => Tail(toGdb) = <<>> /\ Ended /\ pc # "send"
  BY <1>1, FinalTail DEF Final
<1>10. Head(toGdb).id + (Len(toGdb) - 1) = LastSent
  BY <1>4 DEF Count, Numbered
<1>11. Bodies(toGdb) = Len(toGdb)
  BY <1>4, <1>7 DEF Bodies
<1>12. /\ Short(toGdb) => Head(toGdb).extra = 0
       /\ Pure(toGdb) => Head(toGdb).extra = 0 /\ Head(toGdb).good
  BY <1>4 DEF Short, Pure
<1> QED BY <1>2, <1>3, <1>4, <1>5, <1>6, <1>7, <1>8, <1>9, <1>10, <1>11, <1>12

LEMMA GdbTakesStep == ASSUME PacketInv, GdbTakes PROVE Known'
<1> USE DEF PacketInv, Known
<1> DEFINE h == Head(toGdb)
           n == IF h.extra = 0 THEN h.id ELSE 0
<1>0. /\ UNCHANGED <<env, request, requests, asked>>
      /\ UNCHANGED <<pc, packet, puts, todo, served, noack, ctrl_c, running>>
      /\ gdb \in {"waiting", "idle"} /\ toGdb # <<>> /\ h.k = "body" /\ toGdb' = Tail(toGdb)
      /\ gdb' = (IF h.kind = "out" THEN gdb ELSE "idle") /\ accepted' = Append(accepted, n)
      /\ (toServer' = toServer \/ toServer' = Append(toServer, Sign("+")))
  BY DEF GdbTakes, ServerRest, server, sending, session, Says
<1>1. /\ ~Unserved /\ gdb = "waiting" /\ ~Refused /\ pc # "body" /\ ~Has(toServer, Parts)
      /\ ~Has(toGdb, {"+"}) /\ ~Has(toGdb', {"+"}) /\ PlusFirst(toGdb')
      /\ Bodies(toGdb') = Bodies(toGdb) - 1 /\ Numbered(toGdb', LastSent)
      /\ (Short(toGdb) => Short(toGdb') /\ h.extra = 0)
      /\ (Pure(toGdb) => Pure(toGdb') /\ h.extra = 0)
      /\ LastFinal(toGdb', Ended /\ pc # "send")
      /\ (h.kind # "out" => toGdb' = <<>> /\ Ended /\ pc # "send")
      /\ (~Clear => /\ ~Has(toServer, Signs) /\ ~Has(toGdb', {"body"})
                    /\ pc \in Awaiting \cup {"closed"})
      /\ h.id + (Len(toGdb) - 1) = LastSent /\ Bodies(toGdb) = Len(toGdb) /\ Len(toGdb) \in Nat
  BY <1>0, GdbHasPacket
<1>2. /\ Refused' <=> Refused
      /\ Single(toServer, Signs) /\ ~Has(toServer, Signs) => Single(toServer', Signs)
      /\ Has(toServer', {"intr"}) <=> Has(toServer, {"intr"})
      /\ ~Has(toServer', Parts)
  <2>1. CASE toServer' = toServer
    BY <1>1, <2>1 DEF Refused
  <2>2. CASE toServer' = Append(toServer, Sign("+"))
    <3>1. Sign("+") \in Tokens /\ Sign("+").k = "+"
      BY SignTypes
    <3> QED BY <1>1, <2>2, <3>1, WritingFacts DEF Parts
  <2> QED BY <1>0, <2>1, <2>2
<1>3. gdb' \in {"waiting", "idle"} /\ (gdb' = "idle" => h.kind # "out") /\ ~Unserved'
  BY <1>0, <1>1 DEF Unserved
<1>4. h.id \in Nat /\ accepted \in Seq(Nat) /\ toServer' \in Seq(Tokens) /\ Len(accepted) \in Nat
  <2>1. toGdb \in Seq(Tokens) /\ accepted \in Seq(Nat) /\ toServer \in Seq(Tokens)
    BY SequenceTypes
  <2>2. h \in Tokens
    BY <1>0, <2>1, FirstTypes
  <2>3. Sign("+") \in Tokens
    BY SignTypes
  <2>4. toServer' \in Seq(Tokens)
    BY <1>0, <2>1, <2>3, LastTypes
  <2> QED BY <2>1, <2>2, <2>4, Numbers DEF Tokens
<1> HIDE DEF h, n
<1>5. Turn'
  BY <1>0, <1>1, <1>3 DEF Turn
<1>6. OnTheWay'
  BY <1>2, <1>4, WayFree DEF OnTheWay
<1>7. AtBody'
  BY <1>0, <1>1 DEF AtBody
<1>8. QuietKnown'
  <2>1. ASSUME gdb' = "idle" PROVE Quiet'
    <3>1. toGdb' = <<>> /\ Ended /\ pc # "send"
      BY <1>1, <1>3, <2>1
    <3> QED BY <1>0, <1>1, <1>2, <3>1 DEF Quiet, Ended
  <2> QED BY <1>3, <2>1 DEF QuietKnown
<1>9. Todos'
  BY <1>0 DEF Todos
<1>10. Final'
  <2>1. Ended' <=> Ended
    BY <1>0 DEF Ended
  <2>2. LastFinal(toGdb', (Ended /\ pc # "send")')
    BY <1>0, <1>1, <2>1 DEF LastFinal
  <2> QED BY <1>0, <2>1, <2>2 DEF Final
<1>11. Acks'
  BY <1>1, <1>3 DEF Acks
<1>12. Len(accepted') = Len(accepted) + 1
  BY <1>0, <1>4
<1>13. Len(accepted) + Len(toGdb) = LastSent /\ h.id = Len(accepted) + 1
  <2>1. Len(accepted) + Len(toGdb) = LastSent
    BY <1>1 DEF Count
  <2> QED BY <1>1, <1>4, <2>1
<1>14. Count'
  <2>1. LastSent' = LastSent
    BY <1>0, <1>2 DEF LastSent
  <2>2. Len(accepted') + Bodies(toGdb') = LastSent
    BY <1>1, <1>4, <1>12, <1>13
  <2>3. Numbered(toGdb', LastSent')
    BY <1>1, <2>1
  <2> QED BY <2>1, <2>2, <2>3 DEF Count
<1>15. Clean'
  BY <1>0, <1>1, <1>2 DEF Clean, Clear
<1>16. OneAtATime'
  <2> SUFFICES ASSUME ~Clear' PROVE OneAtATime'
    BY DEF OneAtATime
  <2>1. ~Clear
    BY <1>0 DEF Clear
  <2>2. ~Has(toGdb', {"body"}) /\ ~Has(toServer, Signs) /\ pc' \in Awaiting \cup {"closed"}
    BY <1>0, <1>1, <2>1
  <2>3. Single(toServer', Signs)
    BY <1>2, <2>1, <2>2 DEF OneAtATime
  <2>4. Single(toGdb', {"body"})
    BY <2>2 DEF Has, Single
  <2> QED BY <2>2, <2>3, <2>4 DEF OneAtATime
<1>17. Large'
  BY <1>0, <1>1 DEF Large
<1>18. Interrupts'
  BY <1>0, <1>1, <1>2, <1>3 DEF Interrupts
<1>19. ServedInOrder'
  BY <1>0 DEF ServedInOrder
<1>20. AcceptedInOrder'
  <2> SUFFICES ASSUME env.noise => env.large PROVE Counted(accepted')
    BY <1>0 DEF AcceptedInOrder
  <2>1. h.extra = 0
    <3>1. CASE env.large
      BY <1>1, <3>1 DEF Large
    <3>2. CASE ~env.noise
      BY <1>1, <3>2 DEF Clean, Clear
    <3> QED BY <3>1, <3>2
  <2>2. n = Len(accepted) + 1
    BY <1>13, <2>1 DEF n
  <2>3. Counted(accepted)
    BY DEF AcceptedInOrder
  <2>4. /\ DOMAIN accepted = 1 .. Len(accepted) /\ DOMAIN accepted' = 1 .. Len(accepted) + 1
        /\ accepted'[Len(accepted) + 1] = n /\ \A i \in DOMAIN accepted : accepted'[i] = accepted[i]
    <3>1. n \in Nat
      BY <1>4, <2>2
    <3> QED BY <1>0, <1>4, <3>1
  <2>5. \A i \in DOMAIN accepted' : i \in DOMAIN accepted \/ i = Len(accepted) + 1
    BY <1>4, <2>4
  <2> QED BY <2>2, <2>3, <2>4, <2>5 DEF Counted
<1> QED BY <1>5, <1>6, <1>7, <1>8, <1>9, <1>10, <1>11, <1>14, <1>15, <1>16, <1>17, <1>18, <1>19,
           <1>20

LEMMA GdbRefusesStep == ASSUME PacketInv, GdbRefuses PROVE Known'
<1> USE DEF PacketInv, Known
<1> DEFINE h == Head(toGdb)
           e == Sign("-")
<1>0. /\ UNCHANGED <<env, gdb, request, requests, accepted, asked>>
      /\ UNCHANGED <<pc, packet, puts, todo, served, noack, ctrl_c, running>>
      /\ gdb \in {"waiting", "idle"} /\ toGdb # <<>> /\ h.k = "body" /\ toGdb' = Tail(toGdb)
      /\ (~h.good \/ h.extra > 0)
      /\ toServer' = IF Silent THEN toServer ELSE Append(toServer, e)
  BY DEF GdbRefuses, ServerRest, gdbVars, server, sending, session, Says
<1>1. /\ ~Unserved /\ gdb = "waiting" /\ ~Refused /\ pc # "body" /\ ~Has(toServer, Parts)
      /\ ~Has(toGdb, {"+"}) /\ ~Has(toGdb', {"+"}) /\ PlusFirst(toGdb')
      /\ Bodies(toGdb') = Bodies(toGdb) - 1
      /\ (Short(toGdb) => Short(toGdb'))
      /\ (Pure(toGdb) => h.extra = 0 /\ h.good)
      /\ LastFinal(toGdb', Ended /\ pc # "send")
      /\ (~Clear => /\ ~Has(toServer, Signs) /\ ~Has(toGdb', {"body"})
                    /\ pc \in Awaiting \cup {"closed"})
  BY <1>0, GdbHasPacket
<1>2. ~Pure(toGdb)
  <2> SUFFICES ASSUME Pure(toGdb) PROVE FALSE
    OBVIOUS
  <2>1. h.extra = 0 /\ h.good /\ h.extra > 0
    BY <1>0, <1>1
  <2>2. ~(0 > 0)
    OBVIOUS
  <2> QED BY <2>1, <2>2
<1>3. ~Clear /\ ~noack /\ toServer' = Append(toServer, e)
  <2>1. ~Clear
    BY <1>2 DEF Clean
  <2> QED BY <1>0, <2>1 DEF Clear, Silent
<1>4. e \in Tokens /\ e.k = "-" /\ toServer \in Seq(Tokens)
  BY SignTypes, SequenceTypes
<1> HIDE DEF h, e
<1>5. /\ Refused' /\ Single(toServer', Signs)
      /\ Has(toServer', {"intr"}) <=> Has(toServer, {"intr"})
      /\ ~Has(toServer', Parts)
  BY <1>1, <1>3, <1>4, WritingFacts DEF OneAtATime, Parts
<1>6. ~Unserved' /\ gdb' = "waiting" /\ ~Clear'
  BY <1>0, <1>1, <1>3 DEF Unserved, Clear
<1>7. pc' \in Awaiting \cup {"closed"} /\ pc # "send" /\ ~Has(toGdb', {"body"})
  BY <1>0, <1>1, <1>3 DEF Awaiting
<1>8. Turn'
  BY <1>0, <1>1, <1>6 DEF Turn
<1>9. OnTheWay'
  <2>1. toServer' \in Seq(Tokens)
    BY <1>3, <1>4, LastTypes
  <2> QED BY <1>5, <2>1, WayFree DEF OnTheWay
<1>10. AtBody'
  BY <1>0, <1>1 DEF AtBody
<1>11. QuietKnown'
  BY <1>6 DEF QuietKnown
<1>12. Todos'
  BY <1>0 DEF Todos
<1>13. Final'
  <2>1. Ended' <=> Ended
    BY <1>0 DEF Ended
  <2>2. LastFinal(toGdb', (Ended /\ pc # "send")')
    BY <1>0, <1>1, <2>1 DEF LastFinal
  <2> QED BY <1>0, <2>1, <2>2 DEF Final
<1>14. Acks'
  BY <1>1, <1>6 DEF Acks
<1>15. Count'
  <2>1. LastSent = puts /\ LastSent' = puts - 1
    BY <1>0, <1>1, <1>5, <1>7 DEF LastSent
  <2>2. Len(accepted') + Bodies(toGdb') = puts - 1
    BY <1>0, <1>1, <2>1, Numbers DEF Count
  <2>3. Numbered(toGdb', LastSent')
    BY <1>7 DEF Numbered, Has
  <2> QED BY <2>1, <2>2, <2>3 DEF Count
<1>16. Clean'
  BY <1>6 DEF Clean
<1>17. OneAtATime'
  <2>1. Single(toGdb', {"body"})
    BY <1>7 DEF Has, Single
  <2> QED BY <1>5, <1>7, <2>1 DEF OneAtATime
<1>18. Large'
  BY <1>0, <1>1 DEF Large
<1>19. Interrupts'
  BY <1>0, <1>1, <1>5, <1>6 DEF Interrupts
<1>20. ServedInOrder' /\ AcceptedInOrder'
  BY <1>0 DEF ServedInOrder, AcceptedInOrder
<1> QED BY <1>8, <1>9, <1>10, <1>11, <1>12, <1>13, <1>14, <1>15, <1>16, <1>17, <1>18, <1>19, <1>20

\* The line spoils a packet.
LEMMA NoiseStep == ASSUME PacketInv, Noise PROVE Known'
<1> USE DEF PacketInv, Known
<1>0. /\ UNCHANGED <<env, gdb, request, requests, accepted, asked>>
      /\ UNCHANGED <<pc, packet, puts, todo, served, noack, ctrl_c, running>>
      /\ env.noise /\ ~noack
      /\ \/ toGdb' \in Spoils(toGdb) /\ UNCHANGED toServer
         \/ toServer' \in Spoils(toServer) /\ UNCHANGED toGdb
  BY DEF Noise, gdbVars, server, sending, session
<1>1. ~Clear /\ ~Clear'
  BY <1>0 DEF Clear
<1>2. toGdb \in Seq(Tokens) /\ toServer \in Seq(Tokens) /\ LastSent \in Int
  BY SequenceTypes, Numbers
<1>3. (Unserved' <=> Unserved) /\ (Open' <=> Open) /\ (Broken' <=> Broken) /\ (Ended' <=> Ended)
  BY <1>0 DEF Unserved, Open, Broken, Ended
<1>4. Turn' /\ Todos' /\ ServedInOrder' /\ AcceptedInOrder' /\ Clean'
  <2>1. Turn' /\ Todos'
    BY <1>0, <1>3 DEF Turn, Todos
  <2>2. ServedInOrder' /\ AcceptedInOrder' /\ Clean'
    BY <1>0, <1>1 DEF ServedInOrder, AcceptedInOrder, Clean
  <2> QED BY <2>1, <2>2
<1>5. CASE toGdb' \in Spoils(toGdb) /\ UNCHANGED toServer
  <2>1. PICK b \in DOMAIN toGdb : toGdb' = Spoilt(toGdb, b)
    BY <1>5 DEF Spoils, Spoilt
  <2>2. /\ PlusFirst(toGdb) => PlusFirst(toGdb')
        /\ \A K : Has(toGdb', K) <=> Has(toGdb, K)
        /\ Single(toGdb, {"body"}) => Single(toGdb', {"body"})
        /\ Bodies(toGdb') = Bodies(toGdb)
        /\ Numbered(toGdb, LastSent) => Numbered(toGdb', LastSent)
        /\ Short(toGdb) => Short(toGdb')
        /\ \A ended : LastFinal(toGdb, ended) => LastFinal(toGdb', ended)
    BY <1>2, <2>1, StreamSpoilt
  <2>3. toGdb # <<>>
    BY <2>1
  <2>4. OnTheWay' /\ AtBody' /\ Interrupts'
    <3>1. OnTheWay'
      BY <1>0, <1>3, <1>5 DEF OnTheWay, Open, Broken, Unserved
    <3> QED BY <1>0, <1>3, <1>5, <3>1 DEF AtBody, Interrupts
  <2>5. QuietKnown'
    BY <1>0, <1>3, <2>3 DEF QuietKnown, Quiet
  <2>6. Final'
    <3>1. LastFinal(toGdb', Ended /\ pc # "send")
      BY <2>2 DEF Final
    <3>2. LastFinal(toGdb', (Ended /\ pc # "send")')
      BY <1>0, <1>3, <3>1 DEF LastFinal
    <3> QED BY <1>0, <1>3, <3>2 DEF Final
  <2>7. Acks'
    BY <1>0, <1>3, <2>2 DEF Acks
  <2>8. Count'
    <3>1. LastSent' = LastSent
      BY <1>0, <1>5 DEF LastSent, Refused
    <3> QED BY <1>0, <2>2, <3>1 DEF Count
  <2>9. OneAtATime'
    BY <1>0, <1>1, <1>5, <2>2 DEF OneAtATime
  <2>10. Large'
    BY <1>0, <2>2 DEF Large
  <2> QED BY <1>4, <2>4, <2>5, <2>6, <2>7, <2>8, <2>9, <2>10
<1>6. CASE toServer' \in Spoils(toServer) /\ UNCHANGED toGdb
  <2>1. PICK b \in DOMAIN toServer : toServer' = Spoilt(toServer, b)
    BY <1>6 DEF Spoils, Spoilt
  <2>2. /\ Way(toServer', requests, request, Open, Broken)
        /\ \A K : Has(toServer', K) <=> Has(toServer, K)
        /\ Single(toServer, Signs) => Single(toServer', Signs)
    BY <1>2, <2>1, WaySpoilt DEF OnTheWay
  <2>3. /\ toServer # <<>> /\ toServer' # <<>>
        /\ Head(toServer').k = Head(toServer).k
    <3>1. /\ toServer' \in Seq(Tokens) /\ DOMAIN toServer' = DOMAIN toServer
          /\ \A j \in DOMAIN toServer : toServer'[j].k = toServer[j].k
      BY <1>2, <2>1, SpoiltFacts
    <3>2. toServer # <<>> /\ toServer' # <<>>
      BY <2>1, <3>1
    <3>3. Head(toServer) = toServer[1] /\ Head(toServer') = toServer'[1] /\ 1 \in DOMAIN toServer
      BY <1>2, <3>1, <3>2, ReadFacts
    <3> QED BY <3>1, <3>2, <3>3
  <2>4. Refused' <=> Refused
    BY <2>2 DEF Refused
  <2>5. OnTheWay'
    BY <1>0, <1>3, <2>2 DEF OnTheWay, Way
  <2>6. AtBody'
    <3>1. Has(toServer', {"$"}) <=> Has(toServer, {"$"})
      BY <2>2
    <3> QED BY <1>0, <1>3, <2>3, <3>1 DEF AtBody
  <2>7. Interrupts'
    <3>1. Has(toServer', {"intr"}) <=> Has(toServer, {"intr"})
      BY <2>2
    <3> QED BY <1>0, <1>3, <3>1 DEF Interrupts
  <2>8. QuietKnown' /\ Final' /\ Acks' /\ Large'
    <3>1. QuietKnown' /\ Acks' /\ Large'
      BY <1>0, <1>3, <1>6, <2>4 DEF QuietKnown, Quiet, Acks, Large
    <3>2. LastFinal(toGdb', (Ended /\ pc # "send")')
      BY <1>0, <1>3, <1>6 DEF LastFinal, Final
    <3> QED BY <1>0, <1>3, <3>1, <3>2 DEF Final
  <2>9. Count'
    <3>1. LastSent' = LastSent
      BY <1>0, <2>4 DEF LastSent
    <3> QED BY <1>0, <1>6, <3>1 DEF Count
  <2>10. OneAtATime'
    BY <1>0, <1>1, <1>6, <2>2 DEF OneAtATime
  <2> QED BY <1>4, <2>5, <2>6, <2>7, <2>8, <2>9, <2>10
<1> QED BY <1>0, <1>5, <1>6

-----------------------------------------------------------------------------
(* The theorems. *)

LEMMA KnownStep == ASSUME PacketInv, Next PROVE Known'
<1>1. CASE Server
  BY <1>1, InputStep, SkipSignStep, GetStartStep, GetTimeoutStep, GetInterruptStep, GetBadStep,
     GetPacketStep, HandledStep, PutStep, ClearCtrlCStep, PollStep, SendStep, AnswerStep,
     AnswerInterruptStep, AnswerTimeoutStep DEF Server
<1>2. CASE Gdb
  BY <1>2, GdbRequestStep, GdbWritesStep, GdbWritesBodyStep, GdbSendsAgainStep, GdbAnsweredStep,
     GdbTakesStep, GdbRefusesStep, GdbInterruptsStep DEF Gdb
<1>3. CASE Noise
  BY <1>3, NoiseStep
<1> QED BY <1>1, <1>2, <1>3 DEF Next

LEMMA KnownStays == ASSUME Known, UNCHANGED vars PROVE Known'
<1> USE DEF Known, vars, gdbVars, server, sending, session
<1>1. Turn' /\ AtBody' /\ Todos'
  BY DEF Turn, AtBody, Todos, Open, Broken, Unserved
<1>2. OnTheWay'
  BY DEF OnTheWay, Open, Broken, Unserved
<1>3. QuietKnown' /\ Acks'
  BY DEF QuietKnown, Quiet, Acks, Ended, Refused, Unserved
<1>4. Final'
  BY DEF Final, Ended
<1>5. Count'
  BY DEF Count, LastSent, Refused
<1>6. Clean' /\ Large'
  BY DEF Clean, Large, Clear, Refused
<1>7. OneAtATime'
  BY DEF OneAtATime, Clear
<1>8. Interrupts' /\ ServedInOrder' /\ AcceptedInOrder'
  BY DEF Interrupts, ServedInOrder, AcceptedInOrder, Unserved
<1> QED BY <1>1, <1>2, <1>3, <1>4, <1>5, <1>6, <1>7, <1>8

LEMMA EnvStays == ASSUME Next PROVE UNCHANGED env
<1>1. CASE Server
  BY <1>1 DEF Server, Input, SkipSign, GetStart, GetTimeout, GetInterrupt, GetBad, GetPacket,
     Handled, Put, ClearCtrlC, Poll, Send, Answer, AnswerInterrupt, AnswerTimeout, GdbRest
<1>2. CASE Gdb
  BY <1>2 DEF Gdb, GdbRequest, GdbWrites, GdbWritesBody, GdbSendsAgain, GdbAnswered, GdbTakes,
     GdbRefuses, GdbInterrupts, ServerRest
<1>3. CASE Noise
  BY <1>3 DEF Noise
<1> QED BY <1>1, <1>2, <1>3 DEF Next

LEMMA KnownInit == ASSUME Init PROVE Known
<1>1. /\ gdb = "idle" /\ requests = 0 /\ served = <<>> /\ accepted = <<>> /\ asked = 0
      /\ toServer = <<>> /\ toGdb = <<>> /\ pc = "idle" /\ packet = NoPacket /\ puts = 0
      /\ todo = <<>> /\ running = FALSE /\ Len(served) = 0 /\ Len(accepted) = 0 /\ Len(toGdb) = 0
  BY DEF Init
<1>2. ~Unserved /\ Ended /\ ~Refused
  BY <1>1 DEF Unserved, Ended, Refused, Has
<1>3. Turn
  BY <1>1, <1>2 DEF Turn
<1>4. OnTheWay
  <2>1. ~Has(toServer, Parts) /\ toServer \in Seq(Tokens)
    BY <1>1 DEF Has
  <2> QED BY <2>1, WayFree DEF OnTheWay
<1>5. AtBody /\ QuietKnown /\ Todos
  BY <1>1, <1>2, TodosDiffer DEF AtBody, QuietKnown, Quiet, Todos
<1>6. /\ PlusFirst(toGdb) /\ ~Has(toGdb, {"+"}) /\ Pure(toGdb) /\ Short(toGdb)
      /\ Single(toGdb, {"body"}) /\ Numbered(toGdb, LastSent) /\ LastFinal(toGdb, Ended /\ pc # "send")
      /\ Single(toServer, Signs) /\ ~Has(toServer, Signs) /\ ~Has(toGdb, {"body"})
  BY <1>1 DEF PlusFirst, Has, Pure, Short, Single, Numbered, LastFinal
<1>7. Final
  BY <1>1, <1>6 DEF Final, Awaiting
<1>8. Acks
  BY <1>1, <1>6 DEF Acks
<1>9. Count
  <2>1. LastSent = 0 /\ Bodies(toGdb) = 0
    BY <1>1, <1>2, <1>6 DEF LastSent, Bodies
  <2> QED BY <1>1, <1>6, <2>1 DEF Count
<1>10. Clean /\ OneAtATime
  BY <1>1, <1>2, <1>6 DEF Clean, OneAtATime
<1>11. Large
  BY <1>1, <1>6 DEF Large, NoPacket, Sign
<1>12. Interrupts /\ ServedInOrder /\ AcceptedInOrder
  BY <1>1 DEF Interrupts, ServedInOrder, AcceptedInOrder, Counted
<1> QED BY <1>3, <1>4, <1>5, <1>7, <1>8, <1>9, <1>10, <1>11, <1>12 DEF Known

LEMMA TypesInit == Init => TypesKnown
<1> SUFFICES ASSUME Init PROVE TypesKnown
  OBVIOUS
<1>1. requests \in 0 .. MaxRequests /\ spoiled \in 0 .. MaxNoise /\ out \in 0 .. MaxOut
  BY BoundsAssumption DEF Init
<1>2. <<>> \in Seq(Tokens) /\ <<>> \in Seq(Todo) /\ <<>> \in Seq(Nat)
  OBVIOUS
<1>3. request \in Kinds /\ pc \notin Awaiting \cup {"send"}
  BY DEF Init, Kinds, Awaiting
<1>4. /\ env \in Environments /\ gdb = "idle" /\ accepted \in Seq(Nat) /\ asked \in 0 .. 2
      /\ toServer \in Seq(Tokens) /\ toGdb \in Seq(Tokens)
  BY <1>2 DEF Init
<1>5. /\ pc = "idle" /\ packet \in Tokens \cup {NoPacket} /\ puts \in Nat
      /\ served \in Seq(Nat) /\ todo \in Seq(Todo)
  BY <1>2 DEF Init
<1>6. noack \in BOOLEAN /\ ctrl_c \in BOOLEAN /\ forward \in BOOLEAN /\ running \in BOOLEAN
  BY DEF Init
<1> QED BY <1>1, <1>3, <1>4, <1>5, <1>6 DEF TypesKnown, TypeOK

LEMMA TypesStep == TypesKnown /\ [Next]_vars => TypesKnown'
BY SilentServerTypes, BusyServerTypes, GdbTypes, TypesStay DEF Next, Server, Gdb

LEMMA PacketInvInductive ==
  /\ Init /\ Patient => PacketInv
  /\ PacketInv /\ [Next]_vars => PacketInv'
<1>1. Init /\ Patient => PacketInv
  BY TypesInit, KnownInit DEF PacketInv
<1>2. ASSUME PacketInv, [Next]_vars PROVE PacketInv'
  <2>1. TypesKnown'
    BY <1>2, TypesStep DEF PacketInv
  <2>2. UNCHANGED env
    BY <1>2, EnvStays DEF vars
  <2>3. Patient'
    BY <1>2, <2>2 DEF PacketInv, Patient
  <2>4. Known'
    BY <1>2, KnownStep, KnownStays DEF PacketInv
  <2> QED BY <2>1, <2>3, <2>4 DEF PacketInv
<1> QED BY <1>1, <1>2

\* The types, whatever a session meets.
THEOREM TypeCorrect == Spec => []TypeOK
<1>1. TypesKnown => TypeOK
  BY DEF TypesKnown
<1> QED BY <1>1, TypesInit, TypesStep, PTL DEF Spec

\* An interrupt is on its way or remembered until the stop reply is due: gdb_get_packet_inner
\* and gdb_put_packet_inner both keep it, and what clears ctrl_c is the stop reply.
THEOREM InterruptIsKept == Spec /\ Patient => []InterruptKept
<1>1. PacketInv => InterruptKept
  BY DEF PacketInv, Known, Interrupts, InterruptKept, Has
<1> QED BY <1>1, PacketInvInductive, PTL DEF Spec

\* Each request is handled once, in the order GDB made them, although a spoiled one is
\* dropped without a word and sent again.
THEOREM RequestsInOrder == Spec /\ Patient => Asked!Spec
<1>1. Init => Asked!Init
  BY DEF Init, Asked!Init
<1>2. ASSUME PacketInv, PacketInv', [Next]_vars PROVE [Asked!Next]_<<requests, served>>
  <2>1. CASE GdbRequest
    BY <2>1 DEF GdbRequest, ServerRest, server, session, Asked!Next, Asked!Send
  <2>2. CASE GetPacket
    <3>1. UNCHANGED requests /\ served' = Append(served, Here.id)
      BY <2>2 DEF GetPacket, GdbRest, gdbVars
    <3>2. Len(served) < requests
      BY <1>2, <2>2 DEF PacketInv, Known, AtBody, Open, Unserved, GetPacket
    <3>3. served \in Seq(Nat) /\ served' \in Seq(Nat)
      BY <1>2, SequenceTypes DEF PacketInv, TypesKnown, TypeOK
    <3>4. Len(served) + 1 \in DOMAIN served' /\ served'[Len(served) + 1] = Here.id
      BY <3>1, <3>3
    <3>5. Here.id = Len(served) + 1
      BY <1>2, <3>4 DEF PacketInv, Known, ServedInOrder, Counted
    <3> QED BY <3>1, <3>2, <3>5 DEF Asked!Next, Asked!Receive
  <2>3. CASE Server /\ ~GetPacket
    BY <2>3 DEF Server, Input, SkipSign, GetStart, GetTimeout, GetInterrupt, GetBad,
       Handled, Put, ClearCtrlC, Poll, Send, Answer, AnswerInterrupt, AnswerTimeout, GdbRest,
       gdbVars, server, session
  <2>4. CASE Gdb /\ ~GdbRequest
    BY <2>4 DEF Gdb, GdbWrites, GdbWritesBody, GdbSendsAgain, GdbAnswered, GdbTakes,
       GdbRefuses, GdbInterrupts, ServerRest, gdbVars, server, session
  <2>5. CASE Noise
    BY <2>5 DEF Noise, gdbVars, server, session
  <2>6. CASE UNCHANGED vars
    BY <2>6 DEF vars, gdbVars, server, session
  <2> QED BY <1>2, <2>1, <2>2, <2>3, <2>4, <2>5, <2>6 DEF Next
<1> QED BY <1>1, <1>2, PacketInvInductive, PTL DEF Spec, Asked!Spec

\* GDB takes each packet the server puts once, in order and unaltered, whatever packets the
\* line spoils, if the server's are sent again as they were: those of more than 1020 bytes.
THEOREM RepliesInOrder == Spec /\ Patient /\ (env.noise => env.large) => Replies!Spec
<1> DEFINE Sturdy == env.noise => env.large
           Inv == PacketInv /\ Sturdy
<1>1. Init => Replies!Init
  BY DEF Init, Replies!Init
<1>2. ASSUME Inv, [Next]_vars PROVE Sturdy'
  BY <1>2, EnvStays DEF vars
<1>3. Init /\ Patient /\ Sturdy => Inv
  BY PacketInvInductive
<1>4. Inv /\ [Next]_vars => Inv'
  BY <1>2, PacketInvInductive
<1>5. ASSUME Inv, Inv', [Next]_vars PROVE [Replies!Next]_<<puts, accepted>>
  <2>1. CASE Put
    BY <2>1 DEF Put, GdbRest, gdbVars, Replies!Next, Replies!Send
  <2>2. CASE GdbTakes
    <3> DEFINE n == IF Head(toGdb).extra = 0 THEN Head(toGdb).id ELSE 0
    <3>1. UNCHANGED puts /\ accepted' = Append(accepted, n)
          /\ gdb \in {"waiting", "idle"} /\ toGdb # <<>> /\ Head(toGdb).k = "body"
      BY <2>2 DEF GdbTakes, ServerRest, server, sending
    <3> HIDE DEF n
    <3>2. Len(accepted) < puts
      <4>1. /\ Bodies(toGdb) = Len(toGdb) /\ ~Refused /\ Len(accepted) + Bodies(toGdb) = LastSent
            /\ Len(toGdb) \in Nat \ {0}
        BY <1>5, <3>1, GdbHasPacket, SequenceTypes, ReadFacts DEF PacketInv, Known, Count
      <4>2. LastSent \in {puts, puts - 1} /\ puts \in Nat /\ Len(accepted) \in Nat
        BY <1>5, Numbers DEF LastSent, PacketInv
      <4> QED BY <4>1, <4>2
    <3>3. accepted \in Seq(Nat) /\ accepted' \in Seq(Nat)
      BY <1>5, SequenceTypes DEF PacketInv, TypesKnown, TypeOK
    <3>4. Len(accepted) + 1 \in DOMAIN accepted' /\ accepted'[Len(accepted) + 1] = n
      BY <3>1, <3>3
    <3>5. n = Len(accepted) + 1
      BY <1>5, <3>4 DEF PacketInv, Known, AcceptedInOrder, Counted
    <3> QED BY <3>1, <3>2, <3>5 DEF Replies!Next, Replies!Receive
  <2>3. CASE Server /\ ~Put
    BY <2>3 DEF Server, Input, SkipSign, GetStart, GetTimeout, GetInterrupt, GetBad, GetPacket,
       Handled, ClearCtrlC, Poll, Send, Answer, AnswerInterrupt, AnswerTimeout, GdbRest,
       gdbVars, server, sending
  <2>4. CASE Gdb /\ ~GdbTakes
    BY <2>4 DEF Gdb, GdbRequest, GdbWrites, GdbWritesBody, GdbSendsAgain, GdbAnswered,
       GdbRefuses, GdbInterrupts, ServerRest, gdbVars, server, sending
  <2>5. CASE Noise
    BY <2>5 DEF Noise, gdbVars, server, sending
  <2>6. CASE UNCHANGED vars
    BY <2>6 DEF vars, gdbVars, server, sending
  <2> QED BY <1>5, <2>1, <2>2, <2>3, <2>4, <2>5, <2>6 DEF Next
<1> HIDE DEF Inv
<1>6. Spec /\ Patient /\ Sturdy => Replies!Spec
  BY <1>1, <1>3, <1>4, <1>5, PTL DEF Spec, Replies!Spec
<1> QED BY <1>6
=============================================================================
