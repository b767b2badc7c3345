-------------------------- MODULE AsyncFlashProofs --------------------------
(***************************************************************************)
(* Proofs about AsyncFlash, for every Count, Slots and MaxPolls.           *)
(*                                                                         *)
(* The argument: the occupancy of the buffer, measured around the ring     *)
(* from the read pointer, equals the blocks published and not yet done     *)
(* (tcount - remaining), and the slot at distance d from the read pointer  *)
(* holds block number (done + 1 + d).  The host sized its chunk with a     *)
(* read pointer that may since have advanced; advancing only makes room,   *)
(* so the chunk never reaches a slot the loader still has to read.         *)
(***************************************************************************)
EXTENDS AsyncFlash, TLAPS

Dist(a, b) == IF b >= a THEN b - a ELSE b + Slots - a
Done       == Count - tcount
Draining   == tpc \in {"wait_fifo", "copy", "busy"}
Streaming  == hpc \in {"loop", "data", "publish"}

\* Before the loader is started.
SetupInv ==
  hpc \in {"setWp", "setRp", "start"} =>
    /\ tpc = "stopped" /\ retval = "OK" /\ remaining = Count /\ tcount = Count
    /\ flash = [b \in Block |-> Garbage]
    /\ hpc # "setWp" => hwp = 1 /\ mwp = 1
    /\ hpc = "start" => mrp = 1

\* What retval and the pointers say at each place of the host.
HostInv ==
  /\ Streaming => retval = "OK" /\ mwp = hwp
  /\ hpc # "idle" => retval # "none"
  /\ hpc = "abort" => retval # "OK"
  /\ hpc = "wait" /\ retval = "OK" => mwp = hwp
  /\ hpc = "check" => retval = "OK" /\ tpc \in Halted
                      /\ (tpc = "stopped" => ~ExitPoint)
  /\ hpc = "idle" /\ retval = "OK" => tpc \notin Loader

\* Without faults the CPU is in the loader, or at its bkpt, until the host
\* stops waiting for it.
NoFaultInv ==
  ~Faults => /\ mrp # Corrupt
             /\ Streaming \/ hpc \in {"abort", "wait"} => tpc \in Loader \cup {"exit"}
             /\ hpc = "check" => tpc = "exit"

\* The unread slots hold consecutive blocks, starting with the next one due.
RingInv ==
  Draining =>
    /\ mrp \in Slot /\ tcount > 0
    /\ tpc # "wait_fifo" => r5 = mrp
    /\ tpc = "copy" => fifo[mrp] = Done + 1
    /\ mwp # Abort =>
         /\ tpc # "wait_fifo" => mwp # mrp
         /\ \A s \in Slot : Dist(mrp, s) < Dist(mrp, mwp)
                             => fifo[s] = Done + 1 + Dist(mrp, s)
    /\ Streaming => Dist(mrp, hwp) = tcount - remaining

\* The chunk in hand is free, and once written holds the blocks due.
ChunkInv ==
  hpc \in {"data", "publish"} =>
    /\ chunk \in 1 .. remaining
    /\ hwp + chunk <= Slots + 1
    /\ Draining => Dist(mrp, hwp) + chunk < Slots
    /\ hpc = "publish" => \A s \in Slot : InChunk(s) => fifo[s] = NextBlock(s)

FlashInv ==
  /\ FlashInOrder
  /\ tpc \in {"wait_fifo", "copy"} => flash[Done + 1] = Garbage
  /\ tpc = "busy" /\ ~sr => flash[Done + 1] = Done + 1

\* A loader that stopped by itself and reported nothing has done everything.
ExitInv ==
  /\ (Streaming \/ hpc \in {"wait", "check"}) /\ retval = "OK" /\ tpc = "exit"
       => mrp = Abort \/ tcount = 0
  /\ (Faults => ExitPoint) => SuccessIsComplete

IInv == /\ TypeOK
        /\ SetupInv
        /\ HostInv
        /\ NoFaultInv
        /\ RingInv
        /\ ChunkInv
        /\ FlashInv
        /\ ExitInv

-----------------------------------------------------------------------------
(* Distances around the ring. *)

USE CountAssumption, SlotsAssumption, PollsAssumption, FlagsAssumption
USE DEF Slot, Block, Abort, Corrupt, Garbage, Loader, Halted, Running, hostVars, memVars,
        targetVars, Draining, Streaming, Done

LEMMA DistAdvance ==
  ASSUME NEW a \in Slot, NEW w \in Slot, NEW n \in Nat \ {0},
         w + n <= Slots + 1, Dist(a, w) + n < Slots
  PROVE  Advance(w, n) \in Slot /\ Dist(a, Advance(w, n)) = Dist(a, w) + n
  BY DEF Slot, Dist, Advance

LEMMA DistStep ==
  ASSUME NEW a \in Slot, NEW b \in Slot, a # b
  PROVE  Advance(a, 1) \in Slot /\ Dist(Advance(a, 1), b) = Dist(a, b) - 1
  BY DEF Slot, Dist, Advance

LEMMA DistRange ==
  ASSUME NEW a \in Slot, NEW b \in Slot
  PROVE  Dist(a, b) \in 0 .. Slots - 1 /\ (Dist(a, b) = 0 <=> a = b)
  BY DEF Slot, Dist

LEMMA DistInChunk ==
  ASSUME NEW a \in Slot, NEW s \in Slot, HostTypeOK, chunk > 0,
         hwp + chunk <= Slots + 1, Dist(a, hwp) + chunk < Slots
  PROVE  InChunk(s) <=> Dist(a, s) \in Dist(a, hwp) .. Dist(a, hwp) + chunk - 1
  BY DEF Slot, Dist, InChunk, HostTypeOK

LEMMA DistInChunk2 ==
  ASSUME NEW a \in Slot, NEW s \in Slot, HostTypeOK, chunk > 0, InChunk(s),
         hwp + chunk <= Slots + 1, Dist(a, hwp) + chunk < Slots
  PROVE  Dist(a, s) = Dist(a, hwp) + (s - hwp)
  BY DEF Slot, Dist, InChunk, HostTypeOK

LEMMA ThisrunFits ==
  ASSUME NEW w \in Slot, NEW r \in Slot
  PROVE  /\ Thisrun(w, r) \in Nat
         /\ w + Thisrun(w, r) <= Slots + 1
         /\ Dist(r, w) + Thisrun(w, r) < Slots
  BY DEF Slot, Dist, Thisrun

-----------------------------------------------------------------------------
(* IInv holds initially, and one lemma per action says it is preserved. *)

LEMMA InitInv == Init => IInv
<1>. SUFFICES ASSUME Init PROVE IInv
  OBVIOUS
<1>1. HostTypeOK /\ MemTypeOK
  <2>1. running_alg \in BOOLEAN
    BY DEF Init
  <2>2. fifo \in [Slot -> 0 .. Count]
    BY DEF Init, Garbage
  <2>. QED BY <2>1, <2>2 DEF Init, HostTypeOK, MemTypeOK, Slot
<1>2. TargetTypeOK
  <2>1. flash \in [Block -> 0 .. Count] /\ tcount \in 0 .. Count
    BY DEF Init, Garbage
  <2>2. sr \in BOOLEAN
    BY DEF Init
  <2>. QED BY <2>1, <2>2 DEF Init, TargetTypeOK, Slot, Halted
<1>3. SetupInv /\ HostInv /\ NoFaultInv /\ RingInv /\ ChunkInv
  BY DEF Init, SetupInv, HostInv, NoFaultInv, RingInv, ChunkInv, Draining, Streaming, Slot,
     Abort, Corrupt, Loader, Halted
<1>4. FlashInv /\ ExitInv
  BY DEF Init, FlashInv, ExitInv, FlashInOrder, SuccessIsComplete, Done, Streaming, Block,
     Garbage
<1>. QED BY <1>1, <1>2, <1>3, <1>4 DEF IInv, TypeOK

LEMMA BeginStep == ASSUME IInv, Begin PROVE IInv'
<1>. USE DEF IInv, TypeOK, Begin
<1>1. HostTypeOK' BY DEF HostTypeOK
<1>2. MemTypeOK' BY DEF MemTypeOK
<1>3. TargetTypeOK'
  <2>1. flash' \in [Block -> 0 .. Count] /\ tcount' \in 0 .. Count
    OBVIOUS
  <2>. QED BY <2>1 DEF TargetTypeOK
<1>4. SetupInv' BY DEF SetupInv
<1>5. HostInv' BY DEF HostInv
<1>6. NoFaultInv' BY DEF NoFaultInv
<1>7. RingInv' BY DEF RingInv, Dist
<1>8. ChunkInv' BY DEF ChunkInv, InChunk, NextBlock, Dist
<1>9. FlashInv' BY DEF FlashInv, FlashInOrder
<1>10. ExitInv' BY DEF ExitInv, SuccessIsComplete
<1>. QED BY <1>1, <1>2, <1>3, <1>4, <1>5, <1>6, <1>7, <1>8, <1>9, <1>10

LEMMA SetWpStep == ASSUME IInv, SetWp PROVE IInv'
<1>. USE DEF IInv, TypeOK, SetWp, Return
<1>1. HostTypeOK' BY DEF HostTypeOK
<1>2. MemTypeOK' BY DEF MemTypeOK
<1>3. TargetTypeOK' BY DEF TargetTypeOK
<1>4. SetupInv' BY DEF SetupInv
<1>5. HostInv' BY DEF HostInv
<1>6. NoFaultInv' BY DEF NoFaultInv
<1>7. RingInv' BY DEF RingInv, SetupInv, HostTypeOK, MemTypeOK, TargetTypeOK, Dist
<1>8. ChunkInv' BY DEF ChunkInv, InChunk, NextBlock, Dist
<1>9. FlashInv' BY DEF FlashInv, FlashInOrder
<1>10. ExitInv' BY DEF ExitInv, SuccessIsComplete
<1>. QED BY <1>1, <1>2, <1>3, <1>4, <1>5, <1>6, <1>7, <1>8, <1>9, <1>10

LEMMA SetRpStep == ASSUME IInv, SetRp PROVE IInv'
<1>. USE DEF IInv, TypeOK, SetRp, Return
<1>1. HostTypeOK' BY DEF HostTypeOK, HostInv
<1>2. MemTypeOK' BY DEF MemTypeOK
<1>3. TargetTypeOK' BY DEF TargetTypeOK
<1>4. SetupInv' BY DEF SetupInv
<1>5. HostInv' BY DEF HostInv
<1>6. NoFaultInv' BY DEF NoFaultInv
<1>7. RingInv' BY DEF RingInv, SetupInv, HostTypeOK, MemTypeOK, TargetTypeOK, Dist
<1>8. ChunkInv' BY DEF ChunkInv, InChunk, NextBlock, Dist
<1>9. FlashInv' BY DEF FlashInv, FlashInOrder
<1>10. ExitInv' BY DEF ExitInv, SuccessIsComplete
<1>. QED BY <1>1, <1>2, <1>3, <1>4, <1>5, <1>6, <1>7, <1>8, <1>9, <1>10

LEMMA StartStep == ASSUME IInv, Start PROVE IInv'
<1>. USE DEF IInv, TypeOK, Start, Return
<1>1. HostTypeOK' BY DEF HostTypeOK
<1>2. MemTypeOK' BY DEF MemTypeOK
<1>3. TargetTypeOK' BY DEF TargetTypeOK
<1>4. SetupInv' BY DEF SetupInv
<1>5. HostInv' BY DEF HostInv, SetupInv, HostTypeOK, MemTypeOK, TargetTypeOK
<1>6. NoFaultInv' BY DEF NoFaultInv
<1>7. RingInv' BY DEF RingInv, SetupInv, HostTypeOK, MemTypeOK, TargetTypeOK, Dist
<1>8. ChunkInv' BY DEF ChunkInv, InChunk, NextBlock, Dist
<1>9. FlashInv'
  BY DEF FlashInv, SetupInv, HostTypeOK, MemTypeOK, TargetTypeOK, FlashInOrder
<1>10. ExitInv' BY DEF ExitInv, SuccessIsComplete
<1>. QED BY <1>1, <1>2, <1>3, <1>4, <1>5, <1>6, <1>7, <1>8, <1>9, <1>10

LEMMA LoopStep == ASSUME IInv, Loop PROVE IInv'
<1>. USE DEF IInv, TypeOK, Loop, Break, Return, Thisrun, Polled, AbortedByTarget
<1>1. HostTypeOK' BY DEF HostTypeOK
<1>2. MemTypeOK' BY DEF MemTypeOK
<1>3. TargetTypeOK' BY DEF TargetTypeOK
<1>4. SetupInv' BY DEF SetupInv
<1>5. HostInv' BY DEF HostInv
<1>6. NoFaultInv' BY DEF NoFaultInv
<1>7. RingInv' BY DEF RingInv, Dist
<1>8. ChunkInv'
  <2>1. CASE hpc' # "data"
    BY <2>1 DEF ChunkInv
  <2>2. CASE hpc' = "data"
    <3>. DEFINE room == Thisrun(hwp, mrp)
    <3>1. /\ mrp \in Slot /\ hwp \in Slot /\ remaining \in Nat \ {0} /\ room # 0
          /\ chunk' = IF room > remaining THEN remaining ELSE room
      BY <2>2 DEF HostTypeOK
    <3>2. /\ room \in Nat /\ hwp + room <= Slots + 1 /\ Dist(mrp, hwp) + room < Slots
          /\ Dist(mrp, hwp) \in Nat
      BY <3>1, ThisrunFits, DistRange
    <3>3. chunk' \in 1 .. remaining /\ hwp + chunk' <= Slots + 1
          /\ Dist(mrp, hwp) + chunk' < Slots
      <4>. HIDE DEF room
      <4>1. hwp \in Int BY <3>1 DEF Slot
      <4>. QED BY <3>1, <3>2, <4>1
    <3>. QED BY <2>2, <3>3 DEF ChunkInv, Draining, Dist
  <2>. QED BY <2>1, <2>2
<1>9. FlashInv' BY DEF FlashInv, FlashInOrder
<1>10. ExitInv' BY DEF ExitInv, SuccessIsComplete
<1>. QED BY <1>1, <1>2, <1>3, <1>4, <1>5, <1>6, <1>7, <1>8, <1>9, <1>10

LEMMA WriteDataStep == ASSUME IInv, WriteData PROVE IInv'
<1>. USE DEF IInv, TypeOK, WriteData, Break
<1>1. HostTypeOK' BY DEF HostTypeOK
<1>2. MemTypeOK' BY DEF MemTypeOK, HostTypeOK, InChunk, NextBlock, ChunkInv
<1>3. TargetTypeOK' BY DEF TargetTypeOK
<1>4. SetupInv' BY DEF SetupInv
<1>5. HostInv' BY DEF HostInv
<1>6. NoFaultInv' BY DEF NoFaultInv
<1>7. RingInv'
  <2>. USE DEF IInv, TypeOK, WriteData, Break, hostVars, targetVars, memVars
  <2>1. ASSUME Draining PROVE \A s \in Slot : Dist(mrp, s) < Dist(mrp, hwp) => ~InChunk(s)
    <3>1. mrp \in Slot /\ chunk > 0 /\ hwp + chunk <= Slots + 1 /\ Dist(mrp, hwp) + chunk < Slots
      BY <2>1 DEF RingInv, ChunkInv, HostTypeOK
    <3>2. hwp \in Slot BY DEF HostTypeOK
    <3>3. \A s \in Slot : Dist(mrp, s) \in 0 .. Slots - 1 /\ Dist(mrp, hwp) \in 0 .. Slots - 1
      <4>. HIDE DEF Slot
      <4>. QED BY <3>1, <3>2, DistRange
    <3>. QED BY <3>1, <3>3, DistInChunk
  <2>2. mwp = hwp /\ hwp \in Slot /\ mwp # Abort
    BY DEF HostInv, Streaming, HostTypeOK, Slot, Abort
  <2>3. ASSUME Draining, tpc = "copy" PROVE ~InChunk(mrp)
    <3>1. mrp \in Slot /\ mrp # hwp BY <2>2, <2>3 DEF RingInv
    <3>2. Dist(mrp, mrp) = 0 /\ Dist(mrp, hwp) > 0 BY <2>2, <3>1 DEF Dist
    <3>. QED BY <2>1, <2>3, <3>1, <3>2
  <2>4. \A s \in Slot : ~InChunk(s) => fifo'[s] = fifo[s]
    OBVIOUS
  <2>. QED
    BY <2>1, <2>2, <2>3, <2>4 DEF RingInv, Draining, Done, Streaming, Dist
<1>8. ChunkInv' BY DEF ChunkInv, InChunk, NextBlock, Dist
<1>9. FlashInv' BY DEF FlashInv, FlashInOrder
<1>10. ExitInv' BY DEF ExitInv, SuccessIsComplete
<1>. QED BY <1>1, <1>2, <1>3, <1>4, <1>5, <1>6, <1>7, <1>8, <1>9, <1>10

LEMMA PublishStep == ASSUME IInv, Publish PROVE IInv'
<1>. USE DEF IInv, TypeOK, Publish, Break, Advance
<1>1. HostTypeOK' BY DEF HostTypeOK, ChunkInv
<1>2. MemTypeOK' BY DEF MemTypeOK, HostTypeOK
<1>3. TargetTypeOK' BY DEF TargetTypeOK
<1>4. SetupInv' BY DEF SetupInv
<1>5. HostInv' BY DEF HostInv
<1>6. NoFaultInv' BY DEF NoFaultInv
<1>7. RingInv'
  <2>. USE DEF IInv, TypeOK, Publish, Break, hostVars, targetVars, memVars
  <2>1. mwp = hwp /\ hwp \in Slot /\ hwp' \in {hwp, Advance(hwp, chunk)}
    BY DEF HostInv, Streaming, HostTypeOK
  <2>2. SUFFICES ASSUME Draining PROVE RingInv'
    BY DEF RingInv, Draining
  <2>3. /\ mrp \in Slot /\ chunk \in Nat \ {0} /\ hwp + chunk <= Slots + 1
        /\ Dist(mrp, hwp) + chunk < Slots
        /\ Dist(mrp, hwp) = tcount - remaining
    BY <2>2 DEF RingInv, ChunkInv, HostTypeOK, Streaming
  <2>4. hwp' \in Slot /\ Dist(mrp, hwp') = Dist(mrp, hwp) + chunk
    BY <2>1, <2>3, DistAdvance
  <2>5. ASSUME NEW s \in Slot, Dist(mrp, s) < Dist(mrp, mwp')
        PROVE  fifo[s] = Done + 1 + Dist(mrp, s)
    <3>1. CASE Dist(mrp, s) < Dist(mrp, hwp)
      BY <2>1, <2>2, <3>1 DEF RingInv, Slot, Abort
    <3>2. CASE ~(Dist(mrp, s) < Dist(mrp, hwp))
      <4>1. Dist(mrp, s) \in Nat /\ Dist(mrp, hwp) \in Nat BY <2>1, <2>3, DistRange
      <4>2. mwp' = hwp' BY <2>1, <2>5, <3>2
      <4>3. InChunk(s) BY <2>3, <2>4, <2>5, <3>2, <4>1, <4>2, DistInChunk DEF HostTypeOK
      <4>4. Dist(mrp, s) = Dist(mrp, hwp) + (s - hwp) BY <2>3, <4>3, DistInChunk2
      <4>5. fifo[s] = NextBlock(s) BY <4>3 DEF ChunkInv
      <4>. QED BY <2>3, <4>4, <4>5 DEF NextBlock, Done, HostTypeOK, TargetTypeOK, Slot
    <3>. QED BY <3>1, <3>2
  <2>6. Dist(mrp, hwp') = tcount - remaining'
    BY <2>3, <2>4 DEF HostTypeOK, TargetTypeOK
  <2>7. tpc # "wait_fifo" => mwp' # mrp
    <3>1. hwp' # mrp BY <2>1, <2>3, <2>4, DistRange
    <3>. QED BY <2>1, <2>2, <3>1 DEF RingInv, Slot, Abort
  <2>. QED
    BY <2>2, <2>3, <2>5, <2>6, <2>7 DEF RingInv, Draining, Done, Streaming, Dist
<1>8. ChunkInv' BY DEF ChunkInv, InChunk, NextBlock, Dist
<1>9. FlashInv' BY DEF FlashInv, FlashInOrder
<1>10. ExitInv' BY DEF ExitInv, SuccessIsComplete
<1>. QED BY <1>1, <1>2, <1>3, <1>4, <1>5, <1>6, <1>7, <1>8, <1>9, <1>10

LEMMA WriteAbortStep == ASSUME IInv, WriteAbort PROVE IInv'
<1>. USE DEF IInv, TypeOK, WriteAbort
<1>1. HostTypeOK' BY DEF HostTypeOK
<1>2. MemTypeOK' BY DEF MemTypeOK
<1>3. TargetTypeOK' BY DEF TargetTypeOK
<1>4. SetupInv' BY DEF SetupInv
<1>5. HostInv' BY DEF HostInv
<1>6. NoFaultInv' BY DEF NoFaultInv
<1>7. RingInv' BY DEF RingInv, Dist
<1>8. ChunkInv' BY DEF ChunkInv, InChunk, NextBlock, Dist
<1>9. FlashInv' BY DEF FlashInv, FlashInOrder
<1>10. ExitInv'
  BY DEF ExitInv, HostInv, HostTypeOK, MemTypeOK, TargetTypeOK, SuccessIsComplete
<1>. QED BY <1>1, <1>2, <1>3, <1>4, <1>5, <1>6, <1>7, <1>8, <1>9, <1>10

LEMMA WaitStep == ASSUME IInv, Wait PROVE IInv'
<1>. USE DEF IInv, TypeOK, Wait, WaitHalted, WaitElsewhere, WaitForcedHalt,
      WaitNoHalt, Return
<1>1. HostTypeOK' BY DEF HostTypeOK
<1>2. MemTypeOK' BY DEF MemTypeOK
<1>3. TargetTypeOK' BY DEF TargetTypeOK
<1>4. SetupInv' BY DEF SetupInv
<1>5. HostInv' BY DEF HostInv
<1>6. NoFaultInv' BY DEF NoFaultInv
<1>7. RingInv' BY DEF RingInv, Dist
<1>8. ChunkInv' BY DEF ChunkInv, InChunk, NextBlock, Dist
<1>9. FlashInv' BY DEF FlashInv, FlashInOrder
<1>10. ExitInv' BY DEF ExitInv, SuccessIsComplete
<1>. QED BY <1>1, <1>2, <1>3, <1>4, <1>5, <1>6, <1>7, <1>8, <1>9, <1>10

LEMMA CheckStep == ASSUME IInv, Check PROVE IInv'
<1>. USE DEF IInv, TypeOK, Check, Return, AbortedByTarget
<1>1. HostTypeOK' BY DEF HostTypeOK
<1>2. MemTypeOK' BY DEF MemTypeOK
<1>3. TargetTypeOK' BY DEF TargetTypeOK
<1>4. SetupInv' BY DEF SetupInv
<1>5. HostInv' BY DEF HostInv
<1>6. NoFaultInv' BY DEF NoFaultInv
<1>7. RingInv' BY DEF RingInv, Dist
<1>8. ChunkInv' BY DEF ChunkInv, InChunk, NextBlock, Dist
<1>9. FlashInv' BY DEF FlashInv, FlashInOrder
<1>10. ExitInv'
  <2>. USE DEF IInv, Check, Return, AbortedByTarget, hostVars, memVars, targetVars
  <2>1. CASE retval' # "OK"
    BY <2>1 DEF ExitInv, SuccessIsComplete, Streaming
  <2>2. CASE retval' = "OK"
    <3>1. (Faults => ExitPoint) => tpc = "exit"
      BY DEF HostInv, NoFaultInv, Halted
    <3>2. mrp # Abort BY <2>2 
    <3>3. (Faults => ExitPoint) => tcount = 0
      BY <3>1, <3>2 DEF HostInv, ExitInv
    <3>4. (Faults => ExitPoint) => \A b \in Block : flash[b] = b
      BY <3>3 DEF FlashInv, FlashInOrder, Block
    <3>. QED BY <3>4 DEF ExitInv, SuccessIsComplete, Streaming, Block
  <2>. QED BY <2>1, <2>2
<1>. QED BY <1>1, <1>2, <1>3, <1>4, <1>5, <1>6, <1>7, <1>8, <1>9, <1>10

LEMMA WaitFifoStep == ASSUME IInv, WaitFifo PROVE IInv'
<1>. USE DEF IInv, TypeOK, WaitFifo, AbortSeen
<1>1. HostTypeOK' BY DEF HostTypeOK
<1>2. MemTypeOK' BY DEF MemTypeOK
<1>3. TargetTypeOK' BY DEF TargetTypeOK, MemTypeOK
<1>4. SetupInv' BY DEF SetupInv
<1>5. HostInv' BY DEF HostInv
<1>6. NoFaultInv' BY DEF NoFaultInv
<1>7. RingInv' BY DEF RingInv, HostTypeOK, MemTypeOK, TargetTypeOK, Dist
<1>8. ChunkInv' BY DEF ChunkInv, InChunk, NextBlock, Dist
<1>9. FlashInv' BY DEF FlashInv, FlashInOrder
<1>10. ExitInv'
  BY DEF ExitInv, HostInv, HostTypeOK, MemTypeOK, TargetTypeOK, SuccessIsComplete
<1>. QED BY <1>1, <1>2, <1>3, <1>4, <1>5, <1>6, <1>7, <1>8, <1>9, <1>10

LEMMA CopyStep == ASSUME IInv, Copy PROVE IInv'
<1>. USE DEF IInv, TypeOK, Copy
<1>1. HostTypeOK' BY DEF HostTypeOK
<1>2. MemTypeOK' BY DEF MemTypeOK
<1>3. TargetTypeOK' BY DEF TargetTypeOK, MemTypeOK
<1>4. SetupInv' BY DEF SetupInv
<1>5. HostInv' BY DEF HostInv
<1>6. NoFaultInv' BY DEF NoFaultInv
<1>7. RingInv' BY DEF RingInv, Dist
<1>8. ChunkInv' BY DEF ChunkInv, InChunk, NextBlock, Dist
<1>9. FlashInv'
  BY DEF FlashInv, RingInv, HostTypeOK, MemTypeOK, TargetTypeOK, Dist, FlashInOrder
<1>10. ExitInv'
  BY DEF ExitInv, HostInv, HostTypeOK, MemTypeOK, TargetTypeOK, SuccessIsComplete
<1>. QED BY <1>1, <1>2, <1>3, <1>4, <1>5, <1>6, <1>7, <1>8, <1>9, <1>10

LEMMA BusyStep == ASSUME IInv, Busy PROVE IInv'
<1>. USE DEF IInv, TypeOK, Busy, Advance
<1>1. HostTypeOK' BY DEF HostTypeOK
<1>2. MemTypeOK' BY DEF MemTypeOK, TargetTypeOK
<1>3. TargetTypeOK' BY DEF TargetTypeOK, RingInv
<1>4. SetupInv' BY DEF SetupInv
<1>5. HostInv' BY DEF HostInv
<1>6. NoFaultInv' BY DEF NoFaultInv
<1>7. RingInv' /\ ChunkInv'
  <2>. USE DEF IInv, TypeOK, Busy, hostVars
  <2>1. CASE tpc' # "wait_fifo"
    BY <2>1 DEF RingInv, ChunkInv, Draining, InChunk, NextBlock
  <2>2. CASE tpc' = "wait_fifo"
    <3>1. /\ mrp \in Slot /\ r5 = mrp /\ tcount \in Nat /\ mrp' = Advance(mrp, 1)
          /\ tcount' = tcount - 1 /\ tcount' # 0 /\ tcount > 0
      BY <2>2 DEF RingInv, Draining, TargetTypeOK
    <3>2. Draining BY DEF Draining
    <3>3. mrp' \in Slot /\ (\A b \in Slot : b # mrp => Dist(mrp', b) = Dist(mrp, b) - 1)
      BY <3>1, DistStep DEF Slot, Advance
    <3>4. ASSUME mwp # Abort, NEW s \in Slot, Dist(mrp', s) < Dist(mrp', mwp)
          PROVE  fifo[s] = Done' + 1 + Dist(mrp', s)
      <4>1. mwp \in Slot /\ mwp # mrp BY <3>2, <3>4 DEF RingInv, MemTypeOK
      <4>2. s # mrp
        BY <3>1, <3>3, <3>4, <4>1 DEF Slot, Dist, Advance
      <4>3. Dist(mrp, s) < Dist(mrp, mwp) /\ Dist(mrp', s) = Dist(mrp, s) - 1
        BY <3>1, <3>3, <3>4, <4>1, <4>2, DistRange
      <4>. QED BY <3>1, <3>2, <3>4, <4>3, DistRange DEF RingInv, Done
    <3>5. ASSUME Streaming PROVE Dist(mrp', hwp) = Dist(mrp, hwp) - 1
      BY <3>2, <3>3, <3>5 DEF HostInv, HostTypeOK, RingInv, Slot, Abort
    <3>6. RingInv'
      BY <2>2, <3>1, <3>2, <3>3, <3>4, <3>5
      DEF RingInv, Draining, Streaming, Done, Dist, HostTypeOK, TargetTypeOK, Slot
    <3>7. ChunkInv'
      BY <3>1, <3>2, <3>5, DistRange
      DEF ChunkInv, Streaming, Dist, InChunk, NextBlock, HostTypeOK
    <3>. QED BY <3>6, <3>7
  <2>. QED BY <2>1, <2>2
<1>8. FlashInv'
  <2>1. CASE sr
    BY <2>1 DEF FlashInv, FlashInOrder
  <2>2. CASE ~sr
    <3>1. tcount \in 1 .. Count /\ tcount' = tcount - 1 /\ flash[Done + 1] = Done + 1
      BY <2>2 DEF RingInv, TargetTypeOK, FlashInv
    <3>2. FlashInOrder'
      <4>. HIDE DEF IInv
      <4>. QED BY <3>1 DEF IInv, FlashInv, FlashInOrder
    <3>3. tpc' = "wait_fifo" => flash'[Done' + 1] = Garbage
      BY <3>1 DEF FlashInv, FlashInOrder
    <3>. QED BY <2>2, <3>2, <3>3 DEF FlashInv
  <2>. QED BY <2>1, <2>2
<1>9. ExitInv' BY DEF ExitInv, SuccessIsComplete
<1>. QED BY <1>1, <1>2, <1>3, <1>4, <1>5, <1>6, <1>7, <1>8, <1>9

LEMMA ErrorStep == ASSUME IInv, Error PROVE IInv'
<1>. USE DEF IInv, TypeOK, Error
<1>1. HostTypeOK' BY DEF HostTypeOK
<1>2. MemTypeOK' BY DEF MemTypeOK
<1>3. TargetTypeOK' BY DEF TargetTypeOK
<1>4. SetupInv' BY DEF SetupInv
<1>5. HostInv' BY DEF HostInv
<1>6. NoFaultInv' BY DEF NoFaultInv
<1>7. RingInv' BY DEF RingInv, Dist
<1>8. ChunkInv' BY DEF ChunkInv, InChunk, NextBlock, Dist
<1>9. FlashInv' BY DEF FlashInv, FlashInOrder
<1>10. ExitInv' BY DEF ExitInv, SuccessIsComplete
<1>. QED BY <1>1, <1>2, <1>3, <1>4, <1>5, <1>6, <1>7, <1>8, <1>9, <1>10

LEMMA FaultStep == ASSUME IInv, Fault PROVE IInv'
<1>. USE DEF IInv, TypeOK, Fault
<1>1. HostTypeOK' BY DEF HostTypeOK
<1>2. MemTypeOK' BY DEF MemTypeOK
<1>3. TargetTypeOK' BY DEF TargetTypeOK
<1>4. SetupInv' BY DEF SetupInv
<1>5. HostInv' BY DEF HostInv
<1>6. NoFaultInv' BY DEF NoFaultInv
<1>7. RingInv' BY DEF RingInv, Dist
<1>8. ChunkInv' BY DEF ChunkInv, InChunk, NextBlock, Dist
<1>9. FlashInv' BY DEF FlashInv, FlashInOrder
<1>10. ExitInv' BY DEF ExitInv, SuccessIsComplete
<1>. QED BY <1>1, <1>2, <1>3, <1>4, <1>5, <1>6, <1>7, <1>8, <1>9, <1>10

LEMMA UserStep == ASSUME IInv, User PROVE IInv'
<1>. USE DEF IInv, TypeOK, User, Halt, Resume, ProcessReset, RunAlgorithm
<1>1. HostTypeOK' BY DEF HostTypeOK
<1>2. MemTypeOK' BY DEF MemTypeOK
<1>3. TargetTypeOK' BY DEF TargetTypeOK
<1>4. SetupInv' BY DEF SetupInv
<1>5. HostInv' BY DEF HostInv
<1>6. NoFaultInv' BY DEF NoFaultInv
<1>7. RingInv' BY DEF RingInv, Dist
<1>8. ChunkInv' BY DEF ChunkInv, InChunk, NextBlock, Dist
<1>9. FlashInv' BY DEF FlashInv, FlashInOrder
<1>10. ExitInv' BY DEF ExitInv, SuccessIsComplete
<1>. QED BY <1>1, <1>2, <1>3, <1>4, <1>5, <1>6, <1>7, <1>8, <1>9, <1>10

-----------------------------------------------------------------------------
(* The theorems. *)

LEMMA NextStep == IInv /\ [Next]_vars => IInv'
<1>. SUFFICES ASSUME IInv, [Next]_vars PROVE IInv'
  OBVIOUS
<1>1. CASE UNCHANGED vars
  BY <1>1 DEF vars, hostVars, memVars, targetVars, IInv, TypeOK, HostTypeOK, MemTypeOK,
     TargetTypeOK, SetupInv, HostInv, NoFaultInv, RingInv, ChunkInv, FlashInv, ExitInv,
     FlashInOrder, SuccessIsComplete, Draining, Streaming, Done, Dist, InChunk, NextBlock
<1>2. CASE Next
  BY <1>2, BeginStep, SetWpStep, SetRpStep, StartStep, LoopStep, WriteDataStep, PublishStep,
     WriteAbortStep, WaitStep, CheckStep, WaitFifoStep, CopyStep, BusyStep, ErrorStep,
     FaultStep, UserStep
  DEF Next, HostStep, LoaderStep
<1>. QED BY <1>1, <1>2

\* The inductive invariant: what the host, the ring and the loader agree on at every
\* step of target_run_flash_async_algorithm and of the loader.
THEOREM Invariance == Spec => []IInv
<1>. QED BY InitInv, NextStep, PTL DEF Spec

\* Type correctness of the host, the shared memory and the loader.
THEOREM TypeCorrect == Spec => []TypeOK
<1>1. IInv => TypeOK BY DEF IInv
<1>. QED BY <1>1, Invariance, PTL

\* Whatever link accesses fail, and wherever the host and the loader are
\* interleaved, flash holds the blocks counted as done and nothing else.
THEOREM InOrder == Spec => []FlashInOrder
<1>1. IInv => FlashInOrder BY DEF IInv, FlashInv
<1>. QED BY <1>1, Invariance, PTL

\* A call that returns ERROR_OK has programmed every block, provided that a CPU
\* that may leave the loader is caught by a check of the exit point.
THEOREM Success == ASSUME Faults => ExitPoint PROVE Spec => []SuccessIsComplete
<1>1. IInv => SuccessIsComplete BY DEF IInv, ExitInv
<1>. QED BY <1>1, Invariance, PTL

\* When the loader waits, equal pointers mean an empty buffer, never a full one.
THEOREM EmptyIsEmpty == Spec => []EmptyMeansDrained
<1>1. IInv => EmptyMeansDrained
  <2>. SUFFICES ASSUME IInv, hpc = "loop", tpc = "wait_fifo"
                PROVE  mwp = mrp <=> tcount = remaining
    BY DEF EmptyMeansDrained
  <2>1. mrp \in Slot /\ hwp \in Slot /\ mwp = hwp /\ Dist(mrp, hwp) = tcount - remaining
    BY DEF IInv, TypeOK, HostTypeOK, HostInv, RingInv, Streaming, Draining
  <2>2. Dist(mrp, hwp) = 0 <=> mrp = hwp
    BY <2>1, DistRange
  <2>. QED BY <2>1, <2>2 DEF IInv, TypeOK, HostTypeOK, TargetTypeOK
<1>. QED BY <1>1, Invariance, PTL

\* The whole protocol implements the abstract stream of FlashStream.
THEOREM Refinement == ASSUME Faults => ExitPoint PROVE Spec => ImplementsStream
<1>1. Init => Stream!Init
  BY DEF Init, Stream!Init, Stream!Block, Block, Stream!Garbage, Garbage
<1>2. ASSUME IInv, IInv', [Next]_vars PROVE [Stream!Next]_(Stream!vars)
  <2>. USE <1>2 DEF Stream!vars, Stream!Next, hostVars, memVars, targetVars
  <2>1. CASE UNCHANGED vars
    BY <2>1 DEF vars
  <2>2. CASE Begin
    BY <2>2 DEF Begin, Stream!Begin, Stream!Block, Block, Stream!Garbage, Garbage
  <2>3. CASE HostStep
    <3>1. hpc # "idle" /\ UNCHANGED flash
      BY <2>3 DEF HostStep, SetWp, SetRp, Start, Loop, WriteData, Publish, WriteAbort, Wait,
         Check
    <3>2. CASE hpc' # "idle"
      BY <3>1, <3>2
    <3>3. CASE hpc' = "idle"
      <4>1. retval' # "none"
        BY <2>3, <3>3 DEF HostStep, SetWp, SetRp, Start, Loop, WriteData, Publish, WriteAbort,
           Wait, WaitHalted, WaitElsewhere, WaitForcedHalt, WaitNoHalt, Check, Break, Return,
           IInv, HostInv
      <4>2. retval' \in {"OK", "FAIL", "FLASH_FAILED", "TIMEOUT"}
        BY <4>1 DEF IInv, TypeOK, HostTypeOK
      <4>3. retval' = "OK" => Stream!Complete
        BY <3>1, <3>3 DEF IInv, ExitInv, SuccessIsComplete, Stream!Complete, Stream!Block, Block
      <4>. QED BY <3>1, <3>3, <4>2, <4>3 DEF Stream!Finish
    <3>. QED BY <3>2, <3>3
  <2>4. CASE Copy
    <3>. USE <2>4 DEF Copy
    <3>1. CASE UNCHANGED flash
      BY <3>1
    <3>2. CASE flash' # flash
      <4>1. /\ Done + 1 \in Block /\ flash[Done + 1] = Garbage
            /\ fifo[r5] = Done + 1
        BY DEF IInv, TypeOK, TargetTypeOK, RingInv, FlashInv, Draining, Done, Block
      <4>2. PICK b \in Block : b = Done + 1
        BY <4>1
      <4>3. flash[b] = Garbage /\ \A a \in 1 .. b - 1 : flash[a] = a
        BY <4>1, <4>2 DEF IInv, TypeOK, TargetTypeOK, FlashInv, FlashInOrder
      <4>4. flash' = [flash EXCEPT ![b] = b]
        BY <3>2, <4>1, <4>2
      <4>5. UNCHANGED <<hpc # "idle", IF hpc = "idle" THEN retval ELSE "none">>
        OBVIOUS
      <4>. QED BY <4>3, <4>4, <4>5 DEF Stream!Program, Stream!Block, Stream!Garbage
    <3>. QED BY <3>1, <3>2
  <2>5. CASE WaitFifo \/ Busy \/ Error \/ Fault \/ User
    BY <2>5 DEF WaitFifo, Busy, Error, Fault, User, Halt, Resume, ProcessReset, RunAlgorithm
  <2>. QED BY <1>2, <2>1, <2>2, <2>3, <2>4, <2>5 DEF Next, LoaderStep
<1>3. IInv /\ IInv' /\ [Next]_vars => [Stream!Next]_(Stream!vars)
  BY <1>2
<1>. QED BY <1>1, <1>3, Invariance, PTL DEF Spec, ImplementsStream, Stream!Spec
=============================================================================
