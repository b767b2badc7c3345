---------------------------- MODULE FlashStream -----------------------------
(***************************************************************************)
(* What a caller of target_run_flash_async_algorithm is promised, without  *)
(* the buffer, the loader or the debug link: the blocks reach the erased   *)
(* flash in order, each in its place, and ERROR_OK is returned only when   *)
(* all have.  After an error the loader may still be draining the buffer,  *)
(* so blocks may go on arriving, in order, after the call has returned.    *)
(***************************************************************************)
EXTENDS Integers

CONSTANT Count

Block   == 1 .. Count
Garbage == 0

VARIABLES busy, result, flash

vars == <<busy, result, flash>>

Init == busy = FALSE /\ result = "none" /\ flash = [b \in Block |-> Garbage]

Complete == \A b \in Block : flash[b] = b

Begin ==
  /\ ~busy /\ busy' = TRUE /\ result' = "none"
  /\ flash' = [b \in Block |-> Garbage]

\* The next block in order reaches the flash.
Program ==
  \E b \in Block :
    /\ flash[b] = Garbage
    /\ \A a \in 1 .. b - 1 : flash[a] = a
    /\ flash' = [flash EXCEPT ![b] = b]
    /\ UNCHANGED <<busy, result>>

Finish ==
  /\ busy /\ busy' = FALSE /\ UNCHANGED flash
  /\ \/ result' \in {"FAIL", "FLASH_FAILED", "TIMEOUT"}
     \/ result' = "OK" /\ Complete

Next == Begin \/ Program \/ Finish

Spec == Init /\ [][Next]_vars
=============================================================================
