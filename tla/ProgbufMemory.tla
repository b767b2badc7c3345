--------------------------- MODULE ProgbufMemory ---------------------------
(***************************************************************************)
(* Memory accesses through the program buffer (target/riscv/riscv-013.c:   *)
(* read_memory_progbuf, write_memory_progbuf).                             *)
(*                                                                         *)
(* A hart in debug mode runs a program of one load (or store) and one      *)
(* addition: s0 is the address, s1 the value.  The debugger starts it      *)
(* through the debug module, first by a command, then, to be fast, by every *)
(* access to data0 ("autoexec"), a batch of accesses at a time:            *)
(*       memory -> s1 -> data0 -> debugger.                                *)
(* Nothing waits for the program.  An access that comes while it still     *)
(* runs sets cmderr to busy and is void; the debugger finds out after the  *)
(* batch and must work out, from s0, how far the hart got.                 *)
(*                                                                         *)
(* Addresses count words.  The hart is a process of its own, so that every *)
(* access of the debugger may find it running.  An access that faults, and *)
(* scan results lost to a busy DMI, are part of the model; an access to    *)
(* the debug module that fails altogether, and time-outs, are not.         *)
(***************************************************************************)
EXTENDS Integers, Sequences, FiniteSetsExt

CONSTANTS
  Jobs,       \* what may be asked: an operation, its region, the words of it
              \* that fault, and whether results may be lost on the way
  AddrSpace,  \* addresses are below this bound and wrap there
  BatchMax,   \* accesses in a batch (33 in the code)
  DelayMax,   \* an idle time after which the hart has always finished
  Content,    \* the memory before the access
  Data,       \* what a write stores at each address
  OldS0, OldS1  \* the program's s0 and s1

Addresses == 0 .. AddrSpace - 1

ASSUME AddrAssumption == AddrSpace \in Nat \ {0} /\ BatchMax \in Nat \ {0} /\ DelayMax \in Nat
ASSUME ValueAssumption ==
  /\ Content \in [Addresses -> Nat] /\ Data \in [Addresses -> Nat]
  /\ OldS0 \in Nat /\ OldS1 \in Nat
ASSUME JobAssumption ==
  \A j \in Jobs :
    /\ j \in [op : {"read", "write"}, address : Nat, count : Nat,
              faulting : SUBSET Addresses, lossy : BOOLEAN]
    /\ j.count >= (IF j.op = "read" THEN 2 ELSE 1)
    /\ j.address + j.count < AddrSpace

Garbage == -1   \* what data0 gives while a command runs
Lost == -2      \* a result that was not scanned out
None == -1

VARIABLES
  job,
  \* the debug module and the hart; the addresses the program accessed, in order
  data0, s0, s1, command, running, cmderr, auto, mem, bus,
  \* the debugger: the register access under way and its result,
  pc, call, value,
  \* the burst,
  at, got, next, ignoreLast, saved,
  \* the caller's buffer, and whether a value was ever stored outside it,
  buffer, outside,
  \* the word of the slow read, the result and the steps of ac_busy_delay
  word, result, delay

hart == <<data0, s0, s1, command, running, cmderr, auto, mem, bus>>
control == <<call, value>>
burst == <<at, got, next, ignoreLast, saved>>
output == <<buffer, outside>>
account == <<job, word, result, delay>>
vars == <<hart, pc, control, burst, output, account>>

Region == job.address .. job.address + job.count - 1
\* The region of read_memory_progbuf_inner: all of it, or a single word.
Base == IF word = None THEN job.address ELSE job.address + word
Size == IF word = None THEN job.count ELSE 1
Fin == Base + Size
Accessible(a) == a \in Addresses \ job.faulting
\* Subtraction of unsigned addresses.
Minus(a, b) == IF a >= b THEN a - b ELSE a - b + AddrSpace
\* The accesses of the batch.  Seeded fault: one access too many.
LongWant == Min({BatchMax, Fin - at + 1})
Want == Min({BatchMax, Fin - at})
\* With the longest idle time an access never finds the program running.
InTime == delay = DelayMax => ~running


-----------------------------------------------------------------------------
(* The debug module. *)

Busy == cmderr' = IF running /\ cmderr = "none" THEN "busy" ELSE cmderr

\* Any access to data0: autoexec starts the command once more.
Access ==
  /\ Busy
  /\ running' = (running \/ (auto /\ cmderr = "none"))

Seen == IF running THEN Garbage ELSE data0

ReadData0 == Access /\ UNCHANGED <<data0, s0, s1, command, auto, mem, bus>>

WriteData0(v) ==
  /\ data0' = IF running THEN data0 ELSE v
  /\ Access
  /\ UNCHANGED <<s0, s1, command, auto, mem, bus>>

WriteCommand(c) ==
  /\ Busy
  /\ IF running \/ cmderr # "none"
     THEN UNCHANGED <<command, running>>
     ELSE command' = c /\ running' = TRUE
  /\ UNCHANGED <<data0, s0, s1, auto, mem, bus>>

\* While a command runs the write may be ignored.
WriteAuto(on) ==
  /\ Busy
  /\ auto' \in {on} \cup (IF running THEN {auto} ELSE {})
  /\ UNCHANGED <<data0, s0, s1, command, running, mem, bus>>

ClearError ==
  /\ cmderr' = "none"
  /\ UNCHANGED <<data0, s0, s1, command, running, auto, mem, bus>>

(* The hart. *)

\* One load or store at s0, and the addition.
Program(v) ==
  IF Accessible(s0)
  THEN /\ mem' = IF command = "store" THEN [mem EXCEPT ![s0] = v] ELSE mem
       /\ s1' = IF command = "load" THEN mem[s0] ELSE v
       /\ s0' = (s0 + 1) % AddrSpace
       /\ bus' = Append(bus, s0)
       /\ UNCHANGED cmderr
  ELSE /\ s1' = v
       /\ cmderr' \in {"exception", IF cmderr = "none" THEN "exception" ELSE cmderr}
       /\ UNCHANGED <<s0, mem, bus>>

Transfer ==
  /\ data0' = CASE command = "read s0" -> s0 [] command = "read s1" -> s1 [] OTHER -> data0
  /\ s0' = IF command = "write s0" THEN data0 ELSE s0
  /\ s1' = IF command = "write s1" THEN data0 ELSE s1
  /\ UNCHANGED <<cmderr, mem, bus>>

HartFinishes ==
  /\ running
  /\ running' = FALSE
  /\ \/ command = "load" /\ data0' = s1 /\ Program(s1)
     \/ command = "store" /\ UNCHANGED data0 /\ Program(data0)
     \/ command \notin {"load", "store"} /\ Transfer
  /\ UNCHANGED <<pc, command, auto, control, burst, output, account>>

-----------------------------------------------------------------------------
(* Commands of the debugger: the register accesses and the program. *)

\* Write v to data0, give the command, wait for it, go on at ok or at fail.  (When a
\* command that writes a register fails the code tries a program, which for s0 and
\* s1 fails as well.)
Call(c, v, ok, fail) ==
  call' = [command |-> c, value |-> v, ok |-> ok, fail |-> fail]

Execute(c, ok, fail) == Call(c, 0, ok, fail) /\ pc' = "command"
ExecuteWith(c, v, ok, fail) == Call(c, v, ok, fail) /\ pc' = "argument"

Quiet == UNCHANGED <<burst, output, account>>

Argument ==
  /\ pc = "argument" /\ pc' = "command"
  /\ WriteData0(call.value)
  /\ UNCHANGED control /\ Quiet

Command ==
  /\ pc = "command" /\ pc' = "wait"
  /\ WriteCommand(call.command)
  /\ UNCHANGED control /\ Quiet

WaitForIdle ==
  /\ pc = "wait" /\ ~running
  /\ IF cmderr = "none"
     THEN /\ pc' = IF call.command \in {"read s0", "read s1"} THEN "result" ELSE call.ok
          /\ UNCHANGED hart
     ELSE /\ pc' = call.fail
          /\ ClearError
  /\ UNCHANGED control /\ Quiet

Result ==
  /\ pc = "result" /\ pc' = call.ok
  /\ value' = Seen /\ ReadData0
  /\ UNCHANGED call /\ Quiet

Registers == Argument \/ Command \/ WaitForIdle \/ Result

-----------------------------------------------------------------------------
(* read_memory_progbuf_inner *)

Store(a, v) ==
  /\ buffer' = IF a \in Region THEN [buffer EXCEPT ![a] = v] ELSE buffer
  /\ outside' = (outside \/ a \notin Region)

\* A step that only gives a command.
Plain == UNCHANGED <<hart, value, burst, output, account>>

Start ==
  /\ pc = "start"
  /\ ExecuteWith("write s0", Base, "first", "failed")
  /\ Plain

FirstLoad ==
  /\ pc = "first"
  /\ Execute("load", IF Size = 1 THEN "last word" ELSE "autoexec", "failed")
  /\ Plain

Autoexec ==
  /\ pc = "autoexec" /\ pc' = "kick"
  /\ WriteAuto(TRUE)
  /\ UNCHANGED control /\ Quiet

\* Seeded fault: the burst starts one word early.
KickEarly ==
  /\ pc = "kick" /\ pc' = "burst"
  /\ ReadData0
  /\ at' = Base + 1
  /\ UNCHANGED <<control, got, next, ignoreLast, saved, output, account>>

\* The value is garbage; the access starts the second load.
Kick ==
  /\ pc = "kick" /\ pc' = "burst"
  /\ ReadData0
  /\ at' = Base + 2
  /\ UNCHANGED <<control, got, next, ignoreLast, saved, output, account>>

NewBatch ==
  /\ got' = <<>>
  /\ pc' = "batch"
  /\ UNCHANGED <<hart, control, at, next, ignoreLast, saved, output, account>>

ReadBatch == pc = "burst" /\ at < Fin /\ NewBatch

AllRead ==
  /\ pc = "burst" /\ at >= Fin /\ InTime
  /\ pc' = "penultimate"
  /\ WriteAuto(FALSE)
  /\ UNCHANGED control /\ Quiet

BatchRest == UNCHANGED <<pc, control, at, next, ignoreLast, saved, output, account>>

BatchAccess ==
  /\ pc = "batch" /\ Len(got) < Want /\ InTime
  /\ IF job.op = "read" THEN ReadData0 ELSE WriteData0(Data[at + Len(got)])
  /\ got' = Append(got, Seen)
  /\ BatchRest

\* The DMI is busy: whether or not this access is performed its result is lost,
\* and the scans behind it are void until the DMI is reset, after the batch.
BatchLost ==
  /\ pc = "batch" /\ Len(got) < Want /\ InTime /\ job.lossy
  /\ \/ UNCHANGED hart
     \/ IF job.op = "read" THEN ReadData0 ELSE WriteData0(Data[at + Len(got)])
  /\ got' = got \o [i \in 1 .. Want - Len(got) |-> Lost]
  /\ BatchRest

\* increase_ac_busy_delay.  Seeded fault: the debugger never slows down.
NoSlowDown == delay' = delay
SlowDown == delay' = Min({delay + 1, DelayMax})

BatchDone == pc = "batch" /\ Len(got) = Want /\ ~running

BatchRead ==
  /\ BatchDone /\ job.op = "read" /\ cmderr = "none"
  /\ next' = at + Want /\ ignoreLast' = 0
  /\ pc' = "collect"
  /\ UNCHANGED <<hart, control, at, got, saved, output, account>>

ReadWasBusy ==
  /\ BatchDone /\ job.op = "read" /\ cmderr = "busy"
  /\ ClearError
  /\ pc' = "recover"
  /\ SlowDown /\ UNCHANGED <<control, burst, output, job, word, result>>

ReadFaulted ==
  /\ BatchDone /\ job.op = "read" /\ cmderr = "exception"
  /\ ClearError
  /\ pc' = "error"
  /\ UNCHANGED control /\ Quiet

Recover ==
  /\ pc = "recover" /\ pc' = "save"
  /\ WriteAuto(FALSE)
  /\ UNCHANGED control /\ Quiet

\* data0 is good; it is kept, for reading s0 overwrites it.
SaveData ==
  /\ pc = "save"
  /\ ReadData0 /\ saved' = Seen
  /\ Execute("read s0", "resume", "error")
  /\ UNCHANGED <<value, at, got, next, ignoreLast, output, account>>

\* s0 tells how far the hart got.  The command is given again.
Resume ==
  /\ pc = "resume" /\ pc' = "rearm"
  /\ Store(value - 2, saved)
  /\ WriteCommand("load")
  /\ next' = value + 1 /\ ignoreLast' = 1
  /\ UNCHANGED <<control, at, got, saved, account>>

Rearm ==
  /\ pc = "rearm" /\ pc' = "collect" /\ InTime
  /\ WriteAuto(TRUE)
  /\ UNCHANGED control /\ Quiet

\* The places of the batch whose values are the pipeline's: the first is that of
\* the word two before the first address of the batch.  Seeded fault: the access
\* that found the program running counts as well.
ReceivedOneMore == {k \in 1 .. Want : at - 3 + k <= Minus(next, 3)}
Received == {k \in 1 .. Want : at - 3 + k <= Minus(next, 3 + ignoreLast)}
Good == {k \in Received : \A i \in 1 .. k : got[i] # Lost}

Collect ==
  /\ pc = "collect"
  /\ buffer' = [a \in Region |-> IF a - at + 3 \in Good THEN got[a - at + 3] ELSE buffer[a]]
  /\ outside' = (outside \/ \E k \in Good : at - 3 + k \notin Region)
  /\ IF Good = Received
     THEN pc' = "burst" /\ at' = next
     ELSE pc' = "error" /\ at' = at
  /\ UNCHANGED <<hart, control, got, next, ignoreLast, saved, account>>

Penultimate ==
  /\ pc = "penultimate" /\ pc' = "last word"
  /\ ReadData0 /\ Store(Fin - 2, Seen)
  /\ UNCHANGED <<control, burst, account>>

LastWord ==
  /\ pc = "last word"
  /\ Execute("read s1", "store last", IF Size = 1 THEN "failed" ELSE "error")
  /\ Plain

\* Seeded fault: autoexec stays on after an error.
ErrorKeepsAutoexec ==
  /\ pc = "error" /\ pc' = "failed"
  /\ UNCHANGED <<hart, control, burst, output, account>>

Error ==
  /\ pc = "error" /\ pc' = "failed"
  /\ WriteAuto(FALSE)
  /\ UNCHANGED <<control, burst, output, word, result, delay, job>>

(* read_memory_progbuf: a burst that fails is followed by reads of single words. *)

Restore == pc' = "restore"
NextWord ==
  IF word = None \/ word = job.count - 1 THEN Restore /\ UNCHANGED word
                                         ELSE pc' = "start" /\ word' = word + 1

StoreLast ==
  /\ pc = "store last"
  /\ Store(Fin - 1, value)
  /\ NextWord
  /\ UNCHANGED <<hart, control, burst, result, delay, job>>

FallBack ==
  /\ pc = "failed" /\ word = None
  /\ pc' = "start" /\ word' = 0
  /\ UNCHANGED <<hart, control, burst, output, result, delay, job>>

WordFailed ==
  /\ pc = "failed" /\ word # None
  /\ Store(Base, 0)
  /\ NextWord
  /\ UNCHANGED <<hart, control, burst, result, delay, job>>

Reading ==
  \/ Start \/ FirstLoad \/ Autoexec \/ Kick \/ ReadBatch \/ AllRead \/ BatchRead
  \/ ReadWasBusy \/ ReadFaulted \/ Recover \/ SaveData \/ Resume \/ Rearm \/ Collect
  \/ Penultimate \/ LastWord \/ StoreLast \/ Error \/ FallBack \/ WordFailed

-----------------------------------------------------------------------------
(* write_memory_progbuf *)

\* The address, the value and the command are set up for the first word.
SetUp ==
  /\ pc = "set up" /\ at < Fin
  /\ ExecuteWith("write s0", at, "first store", "write failed")
  /\ Plain

FirstStore ==
  /\ pc = "first store"
  /\ ExecuteWith("store", Data[at], "stored", "write failed")
  /\ Plain

Stored ==
  /\ pc = "stored" /\ pc' = "fill"
  /\ WriteAuto(TRUE)
  /\ at' = at + 1
  /\ UNCHANGED <<control, got, next, ignoreLast, saved, output, account>>

WriteBatch ==
  /\ \/ pc = "write" /\ at < Fin
     \/ pc = "fill"
  /\ NewBatch

WasLost == \E k \in 1 .. Want : got[k] = Lost

BatchWritten ==
  /\ BatchDone /\ job.op = "write" /\ cmderr = "none" /\ ~WasLost
  /\ pc' = "write" /\ at' = at + Want
  /\ UNCHANGED <<hart, control, got, next, ignoreLast, saved, output, account>>

WriteWasBusy ==
  /\ BatchDone /\ job.op = "write" /\ (cmderr = "busy" \/ WasLost)
  /\ ClearError
  /\ pc' = "write recover"
  /\ SlowDown /\ UNCHANGED <<control, burst, output, job, word, result>>

WriteFaulted ==
  /\ BatchDone /\ job.op = "write" /\ cmderr = "exception" /\ ~WasLost
  /\ ClearError
  /\ pc' = "write failed"
  /\ UNCHANGED control /\ Quiet

WriteRecover ==
  /\ pc = "write recover"
  /\ WriteAuto(FALSE)
  /\ Execute("read s0", "write again", "write failed")
  /\ UNCHANGED value /\ Quiet

\* Seeded fault: the batch that was cut short counts as written.
WriteOnward ==
  /\ pc = "write again" /\ pc' = "set up"
  /\ at' = at + Want
  /\ UNCHANGED <<hart, control, got, next, ignoreLast, saved, output, account>>

WriteAgain ==
  /\ pc = "write again" /\ pc' = "set up"
  /\ at' = value
  /\ UNCHANGED <<hart, control, got, next, ignoreLast, saved, output, account>>

WriteEnds ==
  /\ \/ pc \in {"write", "set up"} /\ at >= Fin /\ UNCHANGED result
     \/ pc = "write failed" /\ result' = "fail"
  /\ pc' = "restore"
  /\ WriteAuto(FALSE)
  /\ UNCHANGED <<control, burst, output, word, delay, job>>

Writing ==
  \/ SetUp \/ FirstStore \/ Stored \/ WriteBatch \/ BatchWritten \/ WriteWasBusy
  \/ WriteFaulted \/ WriteRecover \/ WriteAgain \/ WriteEnds

-----------------------------------------------------------------------------
\* The program's registers: after a read s0 first, after a write s1.
RestoreFirst ==
  /\ pc = "restore"
  /\ IF job.op = "read" THEN ExecuteWith("write s0", OldS0, "restored", "restored")
                        ELSE ExecuteWith("write s1", OldS1, "restored", "unrestored")
  /\ Plain

RestoreSecond ==
  /\ pc = "restored"
  /\ IF job.op = "read" THEN ExecuteWith("write s1", OldS1, "done", "done")
                        ELSE ExecuteWith("write s0", OldS0, "done", "unrestored")
  /\ Plain

Debugger ==
  Registers \/ BatchAccess \/ BatchLost \/ Reading \/ Writing \/ RestoreFirst \/ RestoreSecond

Init ==
  /\ job \in Jobs
  /\ data0 = Garbage /\ s0 = OldS0 /\ s1 = OldS1 /\ command = "read s1"
  /\ running = FALSE /\ cmderr = "none" /\ auto = FALSE /\ mem = Content
  /\ pc = IF job.op = "read" THEN "start" ELSE "set up"
  /\ call = [command |-> "read s1", value |-> 0, ok |-> "done", fail |-> "done"]
  /\ value = 0 /\ word = None
  /\ at = job.address /\ next = 0 /\ ignoreLast = 0 /\ got = <<>>
  /\ saved = Garbage
  /\ buffer = [a \in Region |-> 0]
  /\ delay = 0
  /\ result = "ok" /\ bus = <<>> /\ outside = FALSE

Done == pc = "done" /\ ~running /\ UNCHANGED vars

Next == HartFinishes \/ Debugger \/ Done

Spec == Init /\ [][Next]_vars
FairSpec == Spec /\ WF_vars(HartFinishes) /\ WF_vars(Debugger)
-----------------------------------------------------------------------------
Labels ==
  {"argument", "command", "wait", "result", "start", "first",
   "autoexec", "kick", "burst", "batch", "collect", "recover", "save", "resume", "rearm",
   "penultimate", "last word", "store last", "error", "failed", "set up", "first store",
   "stored", "fill", "write", "write recover", "write again", "write failed", "restore",
   "restored", "unrestored", "done"}
Commands == {"read s0", "read s1", "write s0", "write s1", "load", "store"}

TypeOK ==
  /\ job \in Jobs
  /\ data0 \in Int /\ s0 \in Int /\ s1 \in Int /\ value \in Int /\ saved \in Int
  /\ command \in Commands /\ running \in BOOLEAN /\ auto \in BOOLEAN
  /\ cmderr \in {"none", "busy", "exception"}
  /\ mem \in [Addresses -> Int] /\ bus \in Seq(Addresses)
  /\ pc \in Labels
  /\ call \in [command : Commands, value : Int, ok : Labels, fail : Labels]
  /\ at \in Int /\ next \in Int /\ ignoreLast \in 0 .. 1 /\ got \in Seq(Int)
  /\ buffer \in [Region -> Int] /\ outside \in BOOLEAN
  /\ word \in None .. job.count - 1 /\ result \in {"ok", "fail"}
  /\ delay \in 0 .. DelayMax
  /\ pc = "batch" => Len(got) <= Want /\ at + Want <= Fin

\* The value of a word for the caller: 0 where the access faults.
Right(a) == buffer[a] = IF Accessible(a) THEN Content[a] ELSE 0

\* A read gives every word of the region: however often and wherever the debugger
\* found the program running, lost results, or had a word fault.
ReadRight == pc = "done" /\ job.op = "read" => \A a \in Region : Right(a)

\* A write stores every word and nothing else, or it fails, and then a word faults.
WriteRight ==
  pc = "done" /\ job.op = "write" =>
    IF result = "ok"
    THEN mem = [a \in Addresses |-> IF a \in Region THEN Data[a] ELSE Content[a]]
    ELSE \E a \in Region : ~Accessible(a)

\* No value is stored outside the caller's buffer, unless the second word faults
\* (s0 has then not got as far as the recovery supposes).
StoredInside == outside => job.address + 1 \in job.faulting

\* The program finds its registers as they were.
Restored == pc # "unrestored" /\ (pc = "done" => s0 = OldS0 /\ s1 = OldS1)

\* Whatever happened on the way, the caller gets what it asked for and the program
\* notices nothing.
AccessRight == ReadRight /\ WriteRight /\ StoredInside /\ Restored

InOrder(b) == /\ Len(b) <= job.count
              /\ \A i \in 1 .. Len(b) : b[i] = job.address + i - 1
\* "Taking care to execute every read exactly once": in a burst the program accesses
\* the words in order, none twice, none left out and none outside the region.
EachOnce == word = None => InOrder(bus)

\* An access ends: each time the program was found running the debugger leaves it
\* more time.
Terminates == <>(pc = "done")
=============================================================================
