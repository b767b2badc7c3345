----------------------------- MODULE AsyncFlash -----------------------------
(***************************************************************************)
(* Streaming flash programming: the host routine                           *)
(* target_run_flash_async_algorithm (target.c) feeds a circular buffer in  *)
(* target RAM, and a loader running on the target CPU (contrib/loaders/    *)
(* flash/stm32/stm32f1x.S) drains it into flash.  The two share four       *)
(* things and no lock: the write pointer word, the read pointer word, the  *)
(* slots between them, and whether the CPU is running.                     *)
(*                                                                         *)
(* One unit is one block.  Slot s of the buffer is the address             *)
(* fifo_start + (s - 1) * block_size, so fifo_start is 1, fifo_end is      *)
(* Slots + 1, and the address 0 that either side writes to abort is Abort. *)
(* Any access to the target over the debug link may fail.                  *)
(***************************************************************************)
EXTENDS Integers

CONSTANTS Count,      \* blocks to program
          Slots,      \* blocks the circular buffer holds
          MaxPolls,   \* polls of a full buffer before giving up (500 in the code)
          ExitPoint,  \* TRUE: an exit_point is given; FALSE: exit_point = 0
          Faults      \* TRUE: the CPU may leave the loader (lockup, hard fault)

ASSUME CountAssumption == Count \in Nat \ {0}
ASSUME SlotsAssumption == Slots \in Nat \ {0, 1}
ASSUME PollsAssumption == MaxPolls \in Nat
ASSUME FlagsAssumption == ExitPoint \in BOOLEAN /\ Faults \in BOOLEAN

Slot    == 1 .. Slots
Block   == 1 .. Count
Abort   == 0
Corrupt == Slots + 1     \* any read pointer outside the buffer
Garbage == 0             \* a slot whose write did not complete, an erased block

VARIABLES
  hpc,          \* where the host is in target_run_flash_async_algorithm
  hwp,          \* its local wp
  chunk,        \* thisrun_bytes, in blocks
  remaining,    \* count
  timeout,      \* timeout
  retval,       \* retval; "none" before the first call
  running_alg,  \* target->running_alg
  mwp, mrp,     \* the two pointer words in target RAM
  fifo,         \* the slots in target RAM: the number of the block held
  tpc,          \* where the target CPU is
  r5,           \* the loader's copy of the read pointer
  tcount,       \* r1, blocks the loader has left
  sr,           \* TRUE: an error bit of the flash status register is set
  flash         \* the flash itself: which block each position holds

hostVars   == <<hpc, hwp, chunk, remaining, timeout, retval, running_alg>>
targetVars == <<tpc, r5, tcount, sr, flash>>
memVars    == <<mwp, mrp, fifo>>
vars       == <<hostVars, targetVars, memVars>>

Loader  == {"wait_fifo", "copy", "busy", "error"}
Halted  == {"exit", "stopped"}    \* at the loader's bkpt; anywhere else
Running == Loader \cup {"lost", "user"}

HostTypeOK ==
  /\ hpc \in {"idle", "setWp", "setRp", "start", "loop", "data", "publish",
              "abort", "wait", "check"}
  /\ hwp \in Slot
  /\ chunk \in 0 .. Slots
  /\ remaining \in 0 .. Count
  /\ timeout \in 0 .. MaxPolls
  /\ retval \in {"none", "OK", "FAIL", "FLASH_FAILED", "TIMEOUT"}
  /\ running_alg \in BOOLEAN

MemTypeOK ==
  /\ mwp \in Slot \cup {Abort}
  /\ mrp \in Slot \cup {Abort, Corrupt}
  /\ fifo \in [Slot -> 0 .. Count]

TargetTypeOK ==
  /\ tpc \in Halted \cup Running
  /\ r5 \in Slot
  /\ tcount \in 0 .. Count
  /\ sr \in BOOLEAN
  /\ flash \in [Block -> 0 .. Count]

TypeOK == HostTypeOK /\ MemTypeOK /\ TargetTypeOK

Init ==
  /\ hpc = "idle" /\ hwp = 1 /\ chunk = 0 /\ remaining = 0 /\ timeout = 0
  /\ retval = "none" /\ running_alg = FALSE
  /\ mwp = 1 /\ mrp = 1 /\ fifo = [s \in Slot |-> Garbage]
  /\ tpc = "stopped" /\ r5 = 1 /\ tcount = Count /\ sr = FALSE
  /\ flash = [b \in Block |-> Garbage]

-----------------------------------------------------------------------------
(* Helpers of the host. *)

\* Seeded faults, for the runs that show a property can fail.
AdvanceNoWrap(wp, n) == wp + n
ThisrunFills(wp, rp) == IF rp > wp THEN rp - wp
                        ELSE IF rp > 1 THEN Slots + 1 - wp ELSE Slots - wp
ThisrunFillsAtStart(wp, rp) == IF rp > wp THEN rp - wp - 1 ELSE Slots + 1 - wp
PolledWraps == (timeout + 1) % 2
AbortedIgnored == FALSE
AbortSeenIgnored == FALSE

\* wp advanced by n blocks, wrapped at the end of the buffer
Advance(wp, n) == IF wp + n > Slots THEN 1 ELSE wp + n

\* Room in the buffer without crossing the end, never filling it completely
Thisrun(wp, rp) == IF rp > wp THEN rp - wp - 1
                   ELSE IF rp > 1 THEN Slots + 1 - wp ELSE Slots - wp

Polled == timeout + 1

\* The loader's test of the write pointer for the abort word
AbortSeen == mwp = Abort

\* The host's test of the read pointer for the abort word
AbortedByTarget == mrp = Abort

Return(code) == hpc' = "idle" /\ retval' = code

\* retval is an error: leave the loop and write the abort word
Break(code) == hpc' = "abort" /\ retval' = code

-----------------------------------------------------------------------------
(* The host: one action per access to the target. *)

\* The driver's write: it insists on a halted target; the flash is erased and
\* the parameter r1 holds the count.
Begin ==
  /\ hpc = "idle" /\ tpc \in Halted
  /\ hpc' = "setWp" /\ remaining' = Count /\ timeout' = 0 /\ retval' = "OK"
  /\ tpc' = "stopped" /\ tcount' = Count /\ sr' = FALSE
  /\ flash' = [b \in Block |-> Garbage]
  /\ UNCHANGED <<hwp, chunk, running_alg, r5, memVars>>

SetWp ==
  /\ hpc = "setWp"
  /\ \/ hpc' = "setRp" /\ hwp' = 1 /\ mwp' = 1 /\ UNCHANGED retval
     \/ Return("FAIL") /\ hwp' = 1 /\ mwp' \in {mwp, 1}
  /\ UNCHANGED <<chunk, remaining, timeout, running_alg, mrp, fifo, targetVars>>

SetRp ==
  /\ hpc = "setRp"
  /\ \/ hpc' = "start" /\ mrp' = 1 /\ UNCHANGED retval
     \/ Return("FAIL") /\ mrp' \in {mrp, 1}
  /\ UNCHANGED <<hwp, chunk, remaining, timeout, running_alg, mwp, fifo, targetVars>>

\* target_start_algorithm: refused while running_alg is set; the type's
\* start_algorithm may fail before or after the CPU is resumed.
Start ==
  /\ hpc = "start"
  /\ \/ running_alg /\ Return("FAIL") /\ UNCHANGED <<running_alg, tpc>>
     \/ ~running_alg /\ running_alg' = TRUE /\ Return("FAIL")
        /\ tpc' \in {tpc, "wait_fifo"}
     \/ ~running_alg /\ running_alg' = TRUE /\ hpc' = "loop"
        /\ tpc' = "wait_fifo" /\ UNCHANGED retval
  /\ UNCHANGED <<hwp, chunk, remaining, timeout, memVars, r5, tcount, sr, flash>>

\* The top of the while loop, up to the write of the data.
Loop ==
  /\ hpc = "loop"
  /\ \/ remaining = 0 /\ hpc' = "wait" /\ UNCHANGED <<chunk, timeout, retval>>
     \/ remaining > 0 /\ Break("FAIL") /\ UNCHANGED <<chunk, timeout>>
     \/ /\ remaining > 0 /\ AbortedByTarget
        /\ Break("FLASH_FAILED") /\ UNCHANGED <<chunk, timeout>>
     \/ /\ remaining > 0 /\ mrp = Corrupt      \* break, retval still ERROR_OK
        /\ hpc' = "wait" /\ UNCHANGED <<chunk, timeout, retval>>
     \/ /\ remaining > 0 /\ mrp \in Slot
        /\ LET room == Thisrun(hwp, mrp) IN
           \/ /\ room = 0 /\ timeout < MaxPolls
              /\ timeout' = Polled /\ UNCHANGED <<hpc, chunk, retval>>
           \/ /\ room = 0 /\ timeout >= MaxPolls
              /\ Return("FLASH_FAILED") /\ UNCHANGED <<chunk, timeout>>
           \/ /\ room # 0 /\ timeout' = 0 /\ hpc' = "data"
              /\ chunk' = IF room > remaining THEN remaining ELSE room
              /\ UNCHANGED retval
  /\ UNCHANGED <<hwp, remaining, running_alg, memVars, targetVars>>

\* Where the next chunk goes and the blocks it carries
InChunk(s) == s \in hwp .. hwp + chunk - 1
NextBlock(s) == Count - remaining + 1 + (s - hwp)

WriteData ==
  /\ hpc = "data"
  /\ \/ /\ fifo' = [s \in Slot |-> IF InChunk(s) THEN NextBlock(s) ELSE fifo[s]]
        /\ hpc' = "publish" /\ UNCHANGED retval
     \/ /\ fifo' = [s \in Slot |-> IF InChunk(s) THEN Garbage ELSE fifo[s]]
        /\ Break("FAIL")
  /\ UNCHANGED <<hwp, chunk, remaining, timeout, running_alg, mwp, mrp, targetVars>>

\* The counters move before the pointer is stored; the store may be lost.
Publish ==
  /\ hpc = "publish"
  /\ remaining' = remaining - chunk
  /\ hwp' = Advance(hwp, chunk)
  /\ \/ mwp' = hwp' /\ hpc' = "loop" /\ UNCHANGED retval
     \/ mwp' \in {mwp, hwp'} /\ Break("FAIL")
  /\ UNCHANGED <<chunk, timeout, running_alg, mrp, fifo, targetVars>>

\* The result of the abort write is ignored.
WriteAbort ==
  /\ hpc = "abort"
  /\ hpc' = "wait" /\ mwp' \in {mwp, Abort}
  /\ UNCHANGED <<hwp, chunk, remaining, timeout, retval, running_alg, mrp, fifo,
                 targetVars>>

\* target_wait_algorithm over armv7m_wait_algorithm: a halt is waited for, then
\* forced; running_alg survives ERROR_TARGET_TIMEOUT only.
WaitHalted ==      \* halted in time where the caller expects it
  /\ tpc = "exit" \/ (tpc = "stopped" /\ ~ExitPoint)
  /\ running_alg' = FALSE
  /\ IF retval = "OK" THEN hpc' = "check" /\ UNCHANGED retval
                      ELSE hpc' = "idle" /\ UNCHANGED retval
  /\ UNCHANGED tpc
WaitElsewhere ==   \* halted, but not at the exit point
  /\ tpc = "stopped" /\ ExitPoint
  /\ Return("TIMEOUT") /\ UNCHANGED <<tpc, running_alg>>
WaitForcedHalt ==  \* still running after 10 s, or a poll failed: halted by force
  /\ Return("TIMEOUT")
  /\ tpc' = IF tpc \in Running THEN "stopped" ELSE tpc
  /\ UNCHANGED running_alg
WaitNoHalt ==      \* the halt request, a poll after it, or a register access failed
  Return("FAIL") /\ running_alg' = FALSE /\ UNCHANGED tpc

Wait ==
  /\ hpc = "wait"
  /\ WaitHalted \/ WaitElsewhere \/ WaitForcedHalt \/ WaitNoHalt
  /\ UNCHANGED <<hwp, chunk, remaining, timeout, memVars, r5, tcount, sr, flash>>

\* Did the loader set rp = 0 after the last chunk was published?
Check ==
  /\ hpc = "check"
  /\ \/ Return("FAIL")
     \/ AbortedByTarget /\ Return("FLASH_FAILED")
     \/ ~AbortedByTarget /\ Return("OK")
  /\ UNCHANGED <<hwp, chunk, remaining, timeout, running_alg, memVars, targetVars>>

HostStep == SetWp \/ SetRp \/ Start \/ Loop \/ WriteData \/ Publish \/ WriteAbort
            \/ Wait \/ Check

-----------------------------------------------------------------------------
(* The loader on the target CPU. *)

WaitFifo ==
  /\ tpc = "wait_fifo"
  /\ \/ AbortSeen /\ tpc' = "exit" /\ UNCHANGED r5
     \/ ~AbortSeen /\ mrp \in Slot /\ mrp # mwp /\ tpc' = "copy" /\ r5' = mrp
  /\ UNCHANGED <<tcount, sr, flash, hostVars, memVars>>

\* ldrh/strh: the flash takes the block, or refuses it and says so in SR.
Copy ==
  /\ tpc = "copy"
  /\ tpc' = "busy"
  /\ \/ /\ flash' = [flash EXCEPT ![Count - tcount + 1] = fifo[r5]]
        /\ sr' = FALSE
     \/ sr' = TRUE /\ UNCHANGED flash
  /\ UNCHANGED <<r5, tcount, hostVars, memVars>>

Busy ==
  /\ tpc = "busy"
  /\ \/ sr /\ tpc' = "error" /\ UNCHANGED <<mrp, r5, tcount>>
     \/ /\ ~sr
        /\ r5' = Advance(r5, 1) /\ mrp' = r5'
        /\ tcount' = tcount - 1
        /\ tpc' = IF tcount' = 0 THEN "exit" ELSE "wait_fifo"
  /\ UNCHANGED <<sr, flash, hostVars, mwp, fifo>>

Error ==
  /\ tpc = "error"
  /\ mrp' = Abort /\ tpc' = "exit"
  /\ UNCHANGED <<r5, tcount, sr, flash, hostVars, mwp, fifo>>

LoaderStep == WaitFifo \/ Copy \/ Busy \/ Error

\* The CPU leaves the loader: it halts somewhere else, or runs away, and may
\* have overwritten the read pointer.
Fault ==
  /\ Faults /\ tpc \in Loader
  /\ tpc' \in {"stopped", "lost"} /\ mrp' \in {mrp, Corrupt}
  /\ UNCHANGED <<r5, tcount, sr, flash, hostVars, mwp, fifo>>

-----------------------------------------------------------------------------
(* What else the user can ask for between two calls. *)

\* halt
Halt ==
  /\ hpc = "idle" /\ tpc \in Running /\ tpc' = "stopped"
  /\ UNCHANGED <<r5, tcount, sr, flash, hostVars, memVars>>

\* resume: target_resume does not look at running_alg
Resume ==
  /\ hpc = "idle" /\ tpc \in Halted /\ tpc' = "user"
  /\ UNCHANGED <<r5, tcount, sr, flash, hostVars, memVars>>

\* reset halt (target_process_reset)
ProcessReset ==
  /\ hpc = "idle" /\ tpc' = "stopped" /\ running_alg' = FALSE
  /\ UNCHANGED <<r5, tcount, sr, flash, hpc, hwp, chunk, remaining, timeout,
                 retval, memVars>>

\* target_run_algorithm: sets and clears running_alg whatever it was
RunAlgorithm ==
  /\ hpc = "idle" /\ tpc \in Halted /\ running_alg' = FALSE
  /\ tpc' = "stopped"
  /\ UNCHANGED <<r5, tcount, sr, flash, hpc, hwp, chunk, remaining, timeout,
                 retval, memVars>>

User == Halt \/ Resume \/ ProcessReset \/ RunAlgorithm

Next == Begin \/ HostStep \/ LoaderStep \/ Fault \/ User

Spec == Init /\ [][Next]_vars

\* The server thread runs a call to its end; nothing is asked of the target.
FairSpec == Spec /\ WF_vars(HostStep)

-----------------------------------------------------------------------------
(* Properties. *)

\* The blocks the loader counted as done are in flash, each in its place, and
\* nothing past the block in hand has been touched, whatever failed.
FlashInOrder ==
  /\ \A b \in 1 .. Count - tcount : flash[b] = b
  /\ \A b \in Count - tcount + 2 .. Count : flash[b] = Garbage

\* ERROR_OK from target_run_flash_async_algorithm: every block is in flash.
SuccessIsComplete ==
  (hpc = "idle" /\ retval = "OK") => \A b \in Block : flash[b] = b

\* The abstract promise: blocks go to flash in order, each once, and a call that
\* returns ERROR_OK has put all of them there (FlashStream).
Stream == INSTANCE FlashStream WITH
            busy   <- hpc # "idle",
            result <- IF hpc = "idle" THEN retval ELSE "none"
ImplementsStream == Stream!Spec

\* wp = rp is the empty condition (target.c:1002): when the loader waits, the
\* pointers are equal exactly when it has drained every published block.
EmptyMeansDrained ==
  (hpc = "loop" /\ tpc = "wait_fifo") => (mwp = mrp <=> tcount = remaining)

\* A call returns, whatever the target does: a stuck loader is timed out.
Termination == hpc # "idle" ~> hpc = "idle"
=============================================================================
