----------------------------- MODULE MCGdbPacket -----------------------------
(***************************************************************************)
(* GdbPacket for TLC: the sessions.                                        *)
(***************************************************************************)
EXTENDS GdbPacket

Plain == [kinds |-> {"query", "continue"}, large |-> FALSE, noise |-> FALSE,
          interrupts |-> 1, slow |-> FALSE, split |-> FALSE, impatient |-> FALSE]

\* Large packets over a line that spoils some.
Noisy == [Plain EXCEPT !.large = TRUE, !.noise = TRUE]
\* A GDB whose answers come late.
Slow == [Plain EXCEPT !.slow = TRUE]
\* One that stops acknowledging.
Noack == [Plain EXCEPT !.kinds = Kinds, !.slow = TRUE]
\* Requests that arrive in two parts, a second apart.
Parts == [Slow EXCEPT !.split = TRUE]

Usual == {Noisy, Slow, Noack, Parts}
\* Sessions that break a promise.
\* Small packets are spoiled (RepliesArrive).
Resent == {[Noisy EXCEPT !.large = FALSE]}
\* A late - is taken for the next packet's (RepliesArrive).
LateRefusals == {[Noisy EXCEPT !.slow = TRUE]}
\* Two interrupts ahead of an answer: the second is no character the server expects there,
\* and it drops the connection (RequestsArrive).
TwoInterrupts == {[Slow EXCEPT !.interrupts = 2]}
\* A request that is sent again while the server is busy is handled twice (RequestsArrive).
Impatient == {[Plain EXCEPT !.impatient = TRUE]}
=============================================================================
