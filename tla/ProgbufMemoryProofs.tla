----------------------- MODULE ProgbufMemoryProofs ------------------------
(***************************************************************************)
(* Proofs about ProgbufMemory, for any memory, regions, batches and faults.*)
(*                                                                         *)
(* The argument is a proof outline: at each place of the debugger an       *)
(* assertion says how far the program is, and what data0, s1 and the       *)
(* buffer hold.  It counts the accesses that were begun: as long as there  *)
(* is no error, exactly as many as the debugger believes; after a busy     *)
(* answer no more than it asked for, and the values it got until then are  *)
(* right.  Once a word has faulted nothing is claimed of the values, for   *)
(* the burst cannot succeed any more and all is read again.                *)
(***************************************************************************)
EXTENDS ProgbufMemory, SequenceTheorems, TLAPS

\* A recovery takes four words off the address it resumes at (riscv-013.c:2926).
AboveZero == \A j \in Jobs : j.op = "read" => j.address >= 2

Values == Int \ {Lost}
Beyond == job.address + job.count
Ahead == job.address + Len(bus)   \* the first word not accessed yet, and with the one begun:
InFlight == running /\ command \in {"load", "store"}
Begun == IF InFlight THEN Ahead + 1 ELSE Ahead
Stuck == Ahead < Beyond /\ ~Accessible(Ahead)
Quiescent == ~running /\ cmderr = "none"
Clean == Quiescent /\ ~auto

HartTypes ==
  /\ data0 \in Values /\ s0 \in Values /\ s1 \in Values
  /\ command \in Commands /\ running \in BOOLEAN /\ auto \in BOOLEAN
  /\ cmderr \in {"none", "busy", "exception"}
  /\ mem \in [Addresses -> Values] /\ bus \in Seq(Addresses)
DebuggerTypes ==
  /\ pc \in Labels
  /\ call \in [command : Commands, value : Nat, ok : Labels, fail : Labels]
  /\ value \in Values /\ saved \in Values
  /\ at \in Int /\ next \in Int /\ ignoreLast \in 0 .. 1 /\ got \in Seq(Int)
  /\ buffer \in [Region -> Int] /\ outside \in BOOLEAN
  /\ word \in None .. job.count - 1 /\ result \in {"ok", "fail"}
  /\ delay \in 0 .. DelayMax
Types == job \in Jobs /\ HartTypes /\ DebuggerTypes

-----------------------------------------------------------------------------
(* Calls. *)

Calling == {"argument", "command", "wait", "result"}
Puts(c) == c \in {"write s0", "write s1", "store"}
Returned == pc = "result" \/ (pc = "wait" /\ ~running)
Issued(c, v, ok, fail) == call = [command |-> c, value |-> v, ok |-> ok, fail |-> fail]

\* What a register access leaves.
Effect ==
  /\ call.command = "write s0" => s0 = call.value
  /\ call.command = "write s1" => s1 = call.value
  /\ call.command = "read s0" => data0 = s0
  /\ call.command = "read s1" => data0 = s1

\* A call that begins without an error can only fail because the program faults.
Called ==
  /\ ~auto
  /\ pc = "argument" => Puts(call.command) /\ Quiescent
  /\ pc = "command" => Quiescent /\ (Puts(call.command) => data0 = call.value)
  /\ pc = "wait" =>
       /\ command = call.command
       /\ running => cmderr = "none" /\ (Puts(command) => data0 = call.value)
       /\ Quiescent => Effect
       /\ cmderr # "none" => cmderr = "exception" /\ command \in {"load", "store"}
  /\ pc = "result" => Quiescent /\ call.command \in {"read s0", "read s1"} /\ Effect

-----------------------------------------------------------------------------
(* Reading: a burst. *)

Filled(n) == \A a \in Region : a <= n => buffer[a] = Content[a]
HasLost == \E k \in DOMAIN got : got[k] = Lost
GoodTo(n) ==
  \A k \in DOMAIN got : k <= n => got[k] # Lost /\ (Stuck \/ got[k] = Content[at - 3 + k])

\* The hart has read up to Ahead; s1 and data0 hold the last words.
Sync ==
  /\ s0 = Ahead /\ Begun <= Beyond
  /\ \A a \in Addresses : job.address <= a /\ a < Ahead => Accessible(a)
  /\ Len(bus) >= 1 => s1 = Content[Ahead - 1]
Fresh ==
  /\ running => command = "load"
  /\ ~running /\ Len(bus) >= 2 /\ ~Stuck => data0 = Content[Ahead - 2]

\* All the debugger asked for was begun, and is in the buffer but for the last two.
Bursting ==
  /\ word = None /\ Sync
  /\ Len(bus) >= 1 /\ at >= job.address + 2 /\ at <= Beyond
  /\ Stuck \/ (at <= Begun /\ Filled(at - 3))

AtStart == Clean /\ (word = None => bus = <<>>)
AtFirst == Clean /\ s0 = Base /\ (word = None => bus = <<>>)
AtAutoexec == Clean /\ command = "load" /\ word = None /\ Len(bus) = 1 /\ Sync
AtKick == Quiescent /\ auto /\ command = "load" /\ word = None /\ Len(bus) = 1 /\ Sync

AtBurst ==
  /\ Bursting /\ Fresh
  /\ Begun <= at
  /\ cmderr = "none" => auto /\ command = "load" /\ Begun = at

\* An access that finds the program running begins no other.
AtReadBatch ==
  /\ Bursting /\ Fresh
  /\ at < Beyond /\ Len(got) <= Want
  /\ Begun <= at + Len(got)
  /\ HasLost => Len(got) = Want
  /\ cmderr = "none" =>
       /\ auto /\ command = "load"
       /\ ~HasLost => Begun = at + Len(got) /\ GoodTo(Len(got))
  /\ cmderr = "busy" => (got = <<>> \/ Begun < at + Len(got)) /\ GoodTo(Begun - at)

\* What a busy batch leaves: the words the debugger has not got yet are still to be read.
Unfinished ==
  /\ Bursting /\ at < Beyond /\ Len(got) = Want
  /\ Ahead < Beyond /\ Ahead < at + Want /\ GoodTo(Ahead - at)
AtRecover == Unfinished /\ Fresh /\ Quiescent
AtSave == Unfinished /\ Fresh /\ Clean
Saved == Unfinished /\ (Stuck \/ saved = Content[Ahead - 2])
AtResume == Saved /\ Clean /\ value = Ahead

\* The word at s0 is begun again, the two before it are in data0 and the buffer.
Resumed ==
  /\ Bursting /\ Fresh /\ at < Beyond /\ Len(got) = Want
  /\ ignoreLast = 1 /\ next >= job.address + 2 /\ next <= Beyond /\ next <= at + Want
  /\ GoodTo(next - 1 - at)
  /\ IF Stuck THEN Begun <= next
     ELSE /\ next = Begun
          /\ next - 3 \in Region => buffer[next - 3] = Content[next - 3]
AtRearm ==
  /\ Resumed /\ cmderr # "busy"
  /\ cmderr = "none" => command = "load" /\ next = Begun
AtCollect ==
  \/ Resumed /\ (cmderr = "none" => auto /\ command = "load" /\ next = Begun)
  \/ /\ Bursting /\ Fresh /\ at < Beyond /\ Len(got) = Want
     /\ ignoreLast = 0 /\ next = at + Want /\ Quiescent /\ auto /\ command = "load"
     /\ ~HasLost => Begun = next /\ GoodTo(Want)

\* After the burst autoexec may not be off and the program may run, but then there is
\* an error.
Ending ==
  /\ word = None /\ Sync /\ Len(bus) >= 1 /\ (running => command = "load")
  /\ cmderr = "none" => Clean /\ Ahead = Beyond /\ Filled(Beyond - 3)
AtPenultimate == Ending /\ (Clean => data0 = Content[Ahead - 2])
Ended == word = None /\ Sync /\ Ahead = Beyond /\ Filled(Beyond - 2)

(* Reading: single words. *)

Before == \A a \in Region : a < Base => Right(a)
All == \A a \in Region : Right(a)
AWord == word # None /\ Accessible(Base) /\ s1 = Content[Base]

AtLastWord ==
  IF word = None THEN Ending /\ (cmderr = "none" => Ended) ELSE AWord /\ Clean
AtStoreLast ==
  Clean /\ (IF word = None THEN Ended ELSE AWord) /\ value = Content[Fin - 1]
AtError == word = None /\ Quiescent
AtFailed == Clean /\ (word # None => ~Accessible(Base))
AtRestore == Clean /\ All

CallStart == Issued("write s0", Base, "first", "failed") /\ Called /\ (word = None => bus = <<>>)
CallLoad ==
  /\ Issued("load", 0, IF word = None THEN "autoexec" ELSE "last word", "failed") /\ Called
  /\ IF Returned
     THEN IF cmderr = "none"
          THEN IF word = None THEN Len(bus) = 1 /\ Sync ELSE AWord
          ELSE word # None => ~Accessible(Base)
     ELSE s0 = Base /\ (word = None => bus = <<>>)
CallS0 == Issued("read s0", 0, "resume", "error") /\ Called /\ Saved
CallS1 ==
  /\ Issued("read s1", 0, "store last", IF word = None THEN "error" ELSE "failed")
  /\ \/ Called /\ IF word = None THEN Ended ELSE AWord
     \/ pc # "result" /\ pc # "argument" /\ Ending /\ cmderr # "none"
CallRestore0 == Issued("write s0", OldS0, "restored", "restored") /\ Called /\ All
CallRestore1 == Issued("write s1", OldS1, "done", "done") /\ Called /\ All /\ s0 = OldS0

Reads ==
  /\ mem = Content /\ result = "ok"
  /\ outside => job.address + 1 \in job.faulting
  /\ word = None => InOrder(bus)
  /\ word # None /\ pc \notin {"restore", "restored", "done"} => Before
  /\ pc \in Calling =>
       CallStart \/ CallLoad \/ CallS0 \/ CallS1 \/ CallRestore0 \/ CallRestore1
  /\ pc = "start" => AtStart
  /\ pc = "first" => AtFirst
  /\ pc = "autoexec" => AtAutoexec
  /\ pc = "kick" => AtKick
  /\ pc = "burst" => AtBurst
  /\ pc = "batch" => AtReadBatch
  /\ pc = "collect" => AtCollect
  /\ pc = "recover" => AtRecover
  /\ pc = "save" => AtSave
  /\ pc = "resume" => AtResume
  /\ pc = "rearm" => AtRearm
  /\ pc = "penultimate" => AtPenultimate
  /\ pc = "last word" => AtLastWord
  /\ pc = "store last" => AtStoreLast
  /\ pc = "error" => AtError
  /\ pc = "failed" => AtFailed
  /\ pc = "restore" => AtRestore
  /\ pc = "restored" => AtRestore /\ s0 = OldS0
  /\ pc = "done" => AtRestore /\ s0 = OldS0 /\ s1 = OldS1
  /\ pc \notin {"set up", "first store", "stored", "fill", "write", "write recover",
                "write again", "write failed", "unrestored"}

-----------------------------------------------------------------------------
(* Writing. *)

Written == mem = [a \in Addresses |-> IF a \in Region /\ a < Ahead THEN Data[a] ELSE Content[a]]
Faulty == \E a \in Region : ~Accessible(a)
Storing == s0 = Ahead /\ Begun <= Beyond
Standing == Storing /\ Quiescent /\ auto /\ command = "store"

AtWriteBatch ==
  /\ Storing /\ at <= Beyond /\ Len(got) <= Want
  /\ Begun <= at + Len(got)
  /\ HasLost => Len(got) = Want
  /\ running => command = "store" /\ data0 = Data[Ahead]
  /\ cmderr = "none" => /\ auto /\ command = "store"
                        /\ ~HasLost => Begun = at + Len(got)
  /\ cmderr = "exception" => Stuck

CallSetUp ==
  /\ Issued("write s0", at, "first store", "write failed") /\ Called
  /\ result = "ok" /\ at = Ahead /\ at < Beyond
CallStore ==
  /\ Issued("store", Data[at], "stored", "write failed") /\ Called
  /\ result = "ok" /\ at < Beyond
  /\ IF Returned
     THEN IF cmderr = "none" THEN Storing /\ Ahead = at + 1 ELSE ~Accessible(at) /\ at = Ahead
     ELSE Storing /\ at = Ahead
CallAgain ==
  Issued("read s0", 0, "write again", "write failed") /\ Called /\ result = "ok" /\ Storing
Finished == IF result = "ok" THEN Ahead = Beyond ELSE Faulty
CallWRestore1 == Issued("write s1", OldS1, "restored", "unrestored") /\ Called /\ Finished
CallWRestore0 ==
  Issued("write s0", OldS0, "done", "unrestored") /\ Called /\ Finished /\ s1 = OldS1

Writes ==
  /\ word = None /\ ~outside
  /\ InOrder(bus)
  /\ Written
  /\ result = "fail" => Faulty
  /\ pc \in Calling =>
       CallSetUp \/ CallStore \/ CallAgain \/ CallWRestore1 \/ CallWRestore0
  /\ pc = "set up" => Clean /\ at = Ahead
  /\ pc = "first store" => Clean /\ Storing /\ at = Ahead /\ at < Beyond
  /\ pc = "stored" => Clean /\ Storing /\ Ahead = at + 1 /\ command = "store"
  /\ pc \in {"fill", "write"} => Standing /\ at = Ahead
  /\ pc = "batch" => AtWriteBatch
  /\ pc = "write recover" => Storing /\ Quiescent
  /\ pc = "write again" => Clean /\ Ahead <= Beyond /\ value = Ahead
  /\ pc = "write failed" => Quiescent /\ Faulty
  /\ pc = "restore" => Clean /\ Finished
  /\ pc = "restored" => Clean /\ Finished /\ s1 = OldS1
  /\ pc = "done" => Clean /\ Finished /\ s1 = OldS1 /\ s0 = OldS0
  /\ pc \notin {"start", "first", "autoexec", "kick", "burst", "collect", "recover", "save",
                "resume", "rearm", "penultimate", "last word", "store last", "error",
                "failed", "unrestored"}
  /\ result = "ok" \/ pc \in Calling \cup {"restore", "restored", "done"}

Inv ==
  /\ Types
  /\ job.op = "read" => Reads
  /\ job.op = "write" => Writes

-----------------------------------------------------------------------------
(* Arithmetic. *)

\* What a region is.
LEMMA Regions ==
  ASSUME Types
  PROVE  /\ job.address \in Nat /\ job.count \in Nat \ {0} /\ AddrSpace \in Nat
         /\ job.op \in {"read", "write"} /\ job.faulting \subseteq Addresses
         /\ job.op = "read" => job.count >= 2
         /\ job.address + job.count < AddrSpace
         /\ Beyond \in Nat /\ Base \in Nat /\ Base < Beyond /\ job.address <= Base
         /\ Fin = Base + Size /\ Fin <= Beyond /\ (word = None => Base = job.address /\ Fin = Beyond)
         /\ (word # None => Fin = Base + 1)
         /\ \A a \in Region : a \in Addresses /\ a < Beyond
<1>1. job \in [op : {"read", "write"}, address : Nat, count : Nat,
              faulting : SUBSET Addresses, lossy : BOOLEAN]
      /\ job.count >= (IF job.op = "read" THEN 2 ELSE 1)
      /\ job.address + job.count < AddrSpace
  BY JobAssumption DEF Types, HartTypes, DebuggerTypes
<1>2. job.address \in Nat /\ job.count \in Nat /\ AddrSpace \in Nat /\ word \in Int
      /\ word >= -1 /\ word < job.count
  BY <1>1, AddrAssumption DEF Types, HartTypes, DebuggerTypes, None
<1> QED
  BY <1>1, <1>2 DEF Beyond, Base, Fin, Size, Region, Addresses, None

\* How far the program is.
LEMMA Counts ==
  ASSUME Types
  PROVE  /\ Len(bus) \in Nat /\ Ahead \in Nat /\ Ahead = job.address + Len(bus)
         /\ Begun \in Nat /\ Begun = (IF InFlight THEN Ahead + 1 ELSE Ahead)
<1>1. Len(bus) \in Nat
  BY DEF Types, HartTypes, DebuggerTypes
<1> QED
  BY <1>1, Regions DEF Ahead, Begun

\* The smaller of two numbers.
LEMMA MinOfTwo ==
  ASSUME NEW x \in Int, NEW y \in Int
  PROVE  Min({x, y}) = IF x <= y THEN x ELSE y
<1>1. Min({x, y}) = CHOOSE m \in {x, y} : \A n \in {x, y} : m <= n
  BY DEF Min
<1> QED
  BY <1>1

\* An address below the bound does not wrap.
LEMMA NoWrap ==
  ASSUME NEW n \in Nat, NEW x \in Nat, x < n
  PROVE  x % n = x
  OBVIOUS

LEMMA Wants ==
  ASSUME Types
  PROVE  /\ Want \in Int /\ Want <= Fin - at
         /\ at < Fin => Want >= 1
         /\ at <= Fin => Want >= 0
<1>1. BatchMax \in Nat \ {0} /\ Fin - at \in Int /\ at \in Int /\ Fin \in Int
  <2>1. Size \in Int /\ at \in Int
    BY Regions DEF Size, Types, DebuggerTypes
  <2> QED
    BY <2>1, Regions, AddrAssumption
<1>2. Min({BatchMax, Fin - at}) = IF BatchMax <= Fin - at THEN BatchMax ELSE Fin - at
  BY <1>1, MinOfTwo
<1> QED
  BY <1>1, <1>2 DEF Want

LEMMA SlowsDown ==
  ASSUME Types, SlowDown
  PROVE  delay' \in 0 .. DelayMax
<1>1. delay + 1 \in Int /\ DelayMax \in Nat /\ delay \in 0 .. DelayMax
  BY AddrAssumption DEF Types, HartTypes, DebuggerTypes
<1> QED
  BY <1>1, MinOfTwo DEF SlowDown

\* The memory and the data have a value at every address.
LEMMA Contents ==
  ASSUME Types, NEW a \in Addresses
  PROVE  Content[a] \in Nat /\ Data[a] \in Nat /\ mem[a] \in Values
  BY ValueAssumption DEF Types, HartTypes, DebuggerTypes

\* One more word on the bus.
LEMMA OneMore ==
  ASSUME Types, InOrder(bus), Ahead < Beyond, bus' = Append(bus, Ahead), UNCHANGED job
  PROVE  Ahead' = Ahead + 1 /\ InOrder(bus') /\ Len(bus') = Len(bus) + 1 /\ bus' \in Seq(Addresses)
<1>1. Ahead \in Addresses
  BY Regions, Counts DEF Addresses, Beyond
<1>2. bus' \in Seq(Addresses) /\ Len(bus') = Len(bus) + 1
      /\ \A i \in 1 .. Len(bus') : bus'[i] = IF i = Len(bus) + 1 THEN Ahead ELSE bus[i]
  BY <1>1 DEF Types, HartTypes, DebuggerTypes
<1>3. Ahead' = Ahead + 1 /\ Len(bus') <= job.count
  <2>1. Len(bus) \in Nat /\ job.address \in Nat /\ job.count \in Nat
        /\ job.address + Len(bus) < job.address + job.count
    BY Counts, Regions DEF Ahead, Beyond
  <2> QED
    BY <2>1, <1>2 DEF Ahead
<1>4. \A i \in 1 .. Len(bus') : bus'[i] = job.address + i - 1
  <2>1. Ahead = job.address + Len(bus) /\ Len(bus) \in Nat /\ job.address \in Nat
    BY Counts, Regions
  <2>2. \A i \in 1 .. Len(bus) : bus[i] = job.address + i - 1
    BY DEF InOrder
  <2> SUFFICES ASSUME NEW i \in 1 .. Len(bus')
               PROVE  bus'[i] = job.address + i - 1
    OBVIOUS
  <2>3. i \in Int /\ (i = Len(bus) + 1 \/ i \in 1 .. Len(bus))
    BY <1>2, <2>1
  <2>4. bus'[i] = IF i = Len(bus) + 1 THEN Ahead ELSE bus[i]
    BY <1>2
  <2> QED
    BY <2>1, <2>2, <2>3, <2>4
<1> QED
  BY <1>2, <1>3, <1>4 DEF InOrder

-----------------------------------------------------------------------------
(* The hart. *)

\* It loads the next word, or that word faults.
LEMMA HartLoads ==
  ASSUME Types, mem = Content, running, command = "load", s0 = Ahead, Ahead < Beyond,
         InOrder(bus), HartFinishes
  PROVE  /\ ~running' /\ data0' = s1 /\ UNCHANGED <<mem, command>> /\ InOrder(bus')
         /\ Types'
         /\ \/ /\ Accessible(Ahead) /\ Ahead' = Ahead + 1 /\ Len(bus') = Len(bus) + 1
               /\ s0' = Ahead' /\ s1' = Content[Ahead] /\ UNCHANGED cmderr
            \/ /\ Stuck /\ UNCHANGED <<bus, s0, s1>>
               /\ cmderr' \in {"exception", IF cmderr = "none" THEN "exception" ELSE cmderr}
<1>1. data0' = s1 /\ Program(s1) /\ running' = FALSE /\ UNCHANGED <<command, auto, pc, control, burst, output, account>>
  BY DEF HartFinishes
<1>2. Ahead \in Nat /\ Ahead < AddrSpace /\ Ahead \in Addresses /\ Ahead >= job.address
  BY Regions, Counts DEF Addresses, Beyond
<1>3. UNCHANGED job /\ UNCHANGED mem
  BY <1>1, <1>2 DEF Program, account
<1>4. CASE Accessible(Ahead)
  <2>1. s0' = (Ahead + 1) % AddrSpace /\ s1' = Content[Ahead] /\ bus' = Append(bus, Ahead)
        /\ UNCHANGED cmderr
    BY <1>1, <1>4 DEF Program
  <2>2. s0' = Ahead + 1
    <3>1. Ahead + 1 \in Nat /\ AddrSpace \in Nat /\ Ahead + 1 < AddrSpace
      BY <1>2, Regions DEF Beyond
    <3> QED
      BY <2>1, <3>1, NoWrap
  <2>3. Ahead' = Ahead + 1 /\ InOrder(bus') /\ Len(bus') = Len(bus) + 1 /\ bus' \in Seq(Addresses)
    BY <2>1, <1>3, OneMore
  <2>4. DebuggerTypes' /\ job' \in Jobs
    BY <1>1, <1>3 DEF Types, DebuggerTypes, control, burst, output, account, Region, None
  <2>5. HartTypes'
    <3>1. Ahead + 1 \in Values /\ s1 \in Values /\ Content[Ahead] \in Values
      BY <1>2, Contents DEF Types, HartTypes, Values, Lost
    <3> QED
      BY <1>1, <1>3, <2>1, <2>2, <2>3, <3>1 DEF Types, HartTypes
  <2> QED
    BY <1>1, <1>3, <1>4, <2>1, <2>2, <2>3, <2>4, <2>5 DEF Types
<1>5. CASE ~Accessible(Ahead)
  <2>1. UNCHANGED <<s0, s1, bus>>
        /\ cmderr' \in {"exception", IF cmderr = "none" THEN "exception" ELSE cmderr}
    BY <1>1, <1>5 DEF Program
  <2>2. DebuggerTypes' /\ job' \in Jobs
    BY <1>1, <1>3 DEF Types, DebuggerTypes, control, burst, output, account, Region, None
  <2>3. HartTypes'
    BY <1>1, <1>3, <2>1 DEF Types, HartTypes
  <2>4. Stuck
    BY <1>5 DEF Stuck
  <2> QED
    BY <1>1, <1>3, <2>1, <2>2, <2>3, <2>4 DEF Types
<1> QED
  BY <1>4, <1>5

\* The parts of a call.
LEMMA Parts ==
  ASSUME NEW c, NEW v, NEW ok, NEW fail, Issued(c, v, ok, fail)
  PROVE  call.command = c /\ call.value = v /\ call.ok = ok /\ call.fail = fail
  BY DEF Issued

\* A step of the hart is no step of the debugger.
LEMMA HartOnly ==
  ASSUME HartFinishes
  PROVE  /\ running /\ running' = FALSE
         /\ UNCHANGED <<pc, command, auto, call, value, at, got, next, ignoreLast, saved>>
         /\ UNCHANGED <<buffer, outside, job, word, result, delay>>
  BY DEF HartFinishes, control, burst, output, account

\* In a burst: what was begun is done, or the word faults.
LEMMA SyncLoads ==
  ASSUME Types, mem = Content, word = None, command = "load", Sync, InOrder(bus),
         Len(bus) >= 1, HartFinishes
  PROVE  /\ Types' /\ mem' = Content /\ InOrder(bus)' /\ Sync' /\ Fresh' /\ Len(bus)' >= 1
         /\ Begun' = Ahead' /\ Ahead' \in Nat
         /\ \/ ~Stuck /\ Begun' = Begun /\ UNCHANGED cmderr
            \/ /\ Stuck /\ Stuck' /\ Begun' = Begun - 1
               /\ cmderr' \in {"exception", IF cmderr = "none" THEN "exception" ELSE cmderr}
<1>1. Ahead < Beyond /\ s0 = Ahead /\ running /\ Begun = Ahead + 1
  BY Counts, Regions, HartOnly DEF Sync, InFlight, Begun
<1>2. /\ running' = FALSE /\ data0' = s1 /\ UNCHANGED <<mem, command>> /\ InOrder(bus') /\ Types'
      /\ \/ /\ Accessible(Ahead) /\ Ahead' = Ahead + 1 /\ Len(bus') = Len(bus) + 1
            /\ s0' = Ahead' /\ s1' = Content[Ahead] /\ UNCHANGED cmderr
         \/ /\ Stuck /\ UNCHANGED <<bus, s0, s1>>
            /\ cmderr' \in {"exception", IF cmderr = "none" THEN "exception" ELSE cmderr}
  BY <1>1, HartLoads, HartOnly
<1>3. UNCHANGED <<job, word>>
  BY HartOnly
<1>4. Begun' = Ahead' /\ Ahead' \in Nat /\ InOrder(bus)' /\ Ahead \in Nat /\ Ahead = job.address + Len(bus)
  <2>1. Ahead \in Nat /\ Ahead = job.address + Len(bus) /\ job.address \in Nat
    BY Counts, Regions
  <2>2. Ahead' \in Nat
    BY <1>2, <1>3, <2>1 DEF Ahead
  <2>4. Begun' = Ahead'
    BY <1>2, <2>2 DEF Begun, InFlight
  <2>5. InOrder(bus)'
    BY <1>2, <1>3 DEF InOrder
  <2> QED
    BY <2>1, <2>2, <2>4, <2>5
<1>5. s1 = Content[Ahead - 1]
  BY Counts DEF Sync
<1>6. CASE Stuck
  <2>1. UNCHANGED <<bus, s0, s1, job, mem, word>>
        /\ cmderr' \in {"exception", IF cmderr = "none" THEN "exception" ELSE cmderr}
    BY <1>2, <1>3, <1>6 DEF Stuck
  <2>2. Stuck' /\ Ahead' = Ahead /\ Beyond' = Beyond
    BY <2>1, <1>6 DEF Stuck, Ahead, Beyond, Accessible
  <2>3. Sync'
    BY <2>1, <2>2, <1>1, <1>4, <1>5, Regions DEF Sync, Accessible
  <2> QED
    BY <1>1, <1>2, <1>3, <1>4, <1>6, <2>1, <2>2, <2>3 DEF Fresh
<1>7. CASE ~Stuck
  <2>1. /\ Accessible(Ahead) /\ Ahead' = Ahead + 1 /\ Len(bus') = Len(bus) + 1
        /\ s0' = Ahead' /\ s1' = Content[Ahead] /\ UNCHANGED cmderr
    BY <1>2, <1>7
  <2>2. Beyond' = Beyond /\ Begun' = Begun
    BY <2>1, <1>1, <1>3, <1>4 DEF Beyond
  <2>3. Sync'
    <3>1. \A a \in Addresses : job'.address <= a /\ a < Ahead' => Accessible(a)'
      BY <2>1, <1>3, <1>4 DEF Sync, Accessible, Addresses
    <3>2. Begun' <= Beyond' /\ s1' = Content[Ahead' - 1]
      <4>1. Begun <= Beyond /\ Begun = Ahead + 1 /\ Ahead \in Nat /\ Ahead' = Ahead + 1
        BY <1>1, <1>4, <2>1 DEF Sync
      <4>2. Ahead' - 1 = Ahead
        BY <4>1
      <4> QED
        BY <2>1, <2>2, <4>1, <4>2
    <3> QED
      BY <2>1, <3>1, <3>2 DEF Sync
  <2>4. Fresh'
    BY <2>1, <1>2, <1>4, <1>5 DEF Fresh
  <2> QED
    BY <1>2, <1>3, <1>4, <1>7, <2>1, <2>2, <2>3, <2>4
<1> QED
  BY <1>6, <1>7

\* The places of a burst where the program may be running.
Overlapping == {"burst", "batch", "collect", "rearm", "penultimate", "last word"}

LEMMA HartInBurst ==
  ASSUME Inv, job.op = "read", pc \notin Calling, HartFinishes
  PROVE  Inv'
<1>1. Types /\ Reads /\ running
  BY HartOnly DEF Inv
<1>2. pc \in Labels \ Calling
  BY <1>1 DEF Types, DebuggerTypes
<1>3. pc \in Overlapping
  BY <1>1, <1>2 DEF Reads, Labels, Calling, Overlapping, AtStart, AtFirst, AtAutoexec, AtKick,
     AtRecover, AtSave, AtResume, AtStoreLast, AtError, AtFailed, AtRestore, Clean, Quiescent
<1>4. word = None /\ Sync /\ Len(bus) >= 1 /\ command = "load"
  BY <1>1, <1>3 DEF Reads, Overlapping, AtBurst, AtReadBatch, AtCollect, AtRearm, Resumed, AtPenultimate,
     AtLastWord, Ending, Bursting, Fresh, Clean, Quiescent
<1>5. mem = Content /\ InOrder(bus)
  BY <1>1, <1>4 DEF Reads
<1>6. /\ Types' /\ mem' = Content /\ InOrder(bus)' /\ Sync' /\ Fresh' /\ Len(bus)' >= 1
      /\ Begun' = Ahead' /\ Ahead' \in Nat
      /\ \/ ~Stuck /\ Begun' = Begun /\ UNCHANGED cmderr
         \/ /\ Stuck /\ Stuck' /\ Begun' = Begun - 1
            /\ cmderr' \in {"exception", IF cmderr = "none" THEN "exception" ELSE cmderr}
  BY <1>1, <1>4, <1>5, SyncLoads
<1>7. /\ running' = FALSE
      /\ UNCHANGED <<pc, command, auto, call, value, at, got, next, ignoreLast, saved>>
      /\ UNCHANGED <<buffer, outside, job, word, result, delay>>
  BY HartOnly
<1>8. Begun \in Nat /\ at \in Int /\ next \in Int /\ cmderr \in {"none", "busy", "exception"}
  BY <1>1, Counts DEF Types, HartTypes, DebuggerTypes
<1>9. Bursting => Bursting'
  BY <1>6, <1>7, <1>8 DEF Bursting, Beyond, Filled, Region
<1>10. Want' = Want /\ Beyond' = Beyond /\ HasLost' = HasLost /\ Fin' = Fin
  BY <1>7 DEF Want, Beyond, HasLost, Fin, Base, Size
<1>12. ASSUME pc = "burst"
       PROVE  AtBurst'
  BY <1>1, <1>6, <1>7, <1>8, <1>9, <1>12 DEF Reads, AtBurst
<1>13. ASSUME pc = "batch"
       PROVE  AtReadBatch'
  BY <1>1, <1>6, <1>7, <1>8, <1>9, <1>10, <1>13 DEF Reads, AtReadBatch, GoodTo
<1>14. Resumed => Resumed'
  BY <1>1, <1>6, <1>7, <1>8, <1>9, <1>10 DEF Resumed, GoodTo, Region
<1>15. ASSUME pc = "rearm"
       PROVE  AtRearm'
  BY <1>1, <1>6, <1>7, <1>8, <1>14, <1>15 DEF Reads, AtRearm
<1>16. ASSUME pc = "collect"
       PROVE  AtCollect'
  BY <1>1, <1>6, <1>7, <1>8, <1>9, <1>10, <1>14, <1>16 DEF Reads, AtCollect, GoodTo, Quiescent
<1>17. Ending => Ending' /\ cmderr' # "none"
  BY <1>1, <1>6, <1>7, <1>8 DEF Ending, Clean, Quiescent
<1>18. ASSUME pc = "penultimate"
       PROVE  AtPenultimate'
  BY <1>1, <1>17, <1>18 DEF Reads, AtPenultimate, Clean, Quiescent
<1>19. ASSUME pc = "last word"
       PROVE  AtLastWord'
  BY <1>1, <1>4, <1>7, <1>17, <1>19 DEF Reads, AtLastWord
<1>20. outside' => job'.address + 1 \in job'.faulting
  BY <1>1, <1>7 DEF Reads
<1>21. result' = "ok" /\ word' = None
  BY <1>1, <1>4, <1>7 DEF Reads
<1>22. Reads'
  BY <1>3, <1>6, <1>7, <1>12, <1>13, <1>15, <1>16, <1>18, <1>19, <1>20, <1>21
     DEF Reads, Overlapping, Calling
<1> QED
  BY <1>6, <1>7, <1>22 DEF Inv

\* A register command moves a value between data0 and the register.
LEMMA HartTransfers ==
  ASSUME Types, command \notin {"load", "store"}, HartFinishes
  PROVE  /\ Types' /\ UNCHANGED <<cmderr, mem, bus>>
         /\ data0' = IF command = "read s0" THEN s0 ELSE IF command = "read s1" THEN s1 ELSE data0
         /\ s0' = IF command = "write s0" THEN data0 ELSE s0
         /\ s1' = IF command = "write s1" THEN data0 ELSE s1
         /\ Ahead' = Ahead /\ Begun' = Ahead /\ Begun = Ahead
<1>1. Transfer /\ running' = FALSE
  BY DEF HartFinishes
<1>2. /\ UNCHANGED <<pc, command, auto, call, value, at, got, next, ignoreLast, saved>>
      /\ UNCHANGED <<buffer, outside, job, word, result, delay>>
  BY HartOnly
<1>3. /\ UNCHANGED <<cmderr, mem, bus>>
      /\ data0' = IF command = "read s0" THEN s0 ELSE IF command = "read s1" THEN s1 ELSE data0
      /\ s0' = IF command = "write s0" THEN data0 ELSE s0
      /\ s1' = IF command = "write s1" THEN data0 ELSE s1
  BY <1>1 DEF Transfer
<1>4. DebuggerTypes' /\ job' \in Jobs
  BY <1>2 DEF Types, DebuggerTypes, Region, None
<1>5. HartTypes'
  BY <1>1, <1>2, <1>3 DEF Types, HartTypes
<1>6. Ahead' = Ahead /\ Begun' = Ahead' /\ Begun = Ahead
  BY <1>1, <1>2, <1>3 DEF Ahead, Begun, InFlight
<1> QED
  BY <1>3, <1>4, <1>5, <1>6 DEF Types

LEMMA HartInCall ==
  ASSUME Types, Called, pc = "wait", command \notin {"load", "store"}, HartFinishes
  PROVE  Called' /\ Quiescent' /\ Effect'
<1>1. /\ UNCHANGED <<cmderr, mem, bus>>
      /\ data0' = IF command = "read s0" THEN s0 ELSE IF command = "read s1" THEN s1 ELSE data0
      /\ s0' = IF command = "write s0" THEN data0 ELSE s0
      /\ s1' = IF command = "write s1" THEN data0 ELSE s1
  BY HartTransfers
<1>2. running /\ running' = FALSE /\ UNCHANGED <<pc, command, auto, call>>
  BY HartOnly
<1>3. /\ ~auto /\ cmderr = "none" /\ command = call.command
      /\ Puts(command) => data0 = call.value
  BY <1>2 DEF Called
<1>4. Quiescent'
  BY <1>1, <1>2, <1>3 DEF Quiescent
<1>5. Effect'
  BY <1>1, <1>2, <1>3 DEF Effect, Puts
<1>6. Called'
  BY <1>1, <1>2, <1>3, <1>5 DEF Called
<1> QED
  BY <1>4, <1>5, <1>6

\* The program is run by a call for the first word of the region.
LEMMA HartInLoad ==
  ASSUME Inv, job.op = "read", pc \in Calling, CallLoad, HartFinishes
  PROVE  CallLoad' /\ Types' /\ mem' = Content /\ (word = None => InOrder(bus)')
<1>1. Types /\ Reads /\ running /\ job.count >= 2
  BY HartOnly, Regions DEF Inv
<1>2. pc = "wait" /\ command = "load" /\ cmderr = "none" /\ ~auto /\ call.command = "load"
  BY <1>1 DEF CallLoad, Called, Issued, Quiescent, Calling
<1>3. s0 = Base /\ (word = None => bus = <<>>)
  BY <1>1, <1>2 DEF CallLoad, Returned
<1>4. /\ UNCHANGED <<pc, command, auto, call, value, at, got, next, ignoreLast, saved>>
      /\ UNCHANGED <<buffer, outside, job, word, result, delay>> /\ running' = FALSE
  BY HartOnly
<1>5. Returned' /\ UNCHANGED <<Base, Beyond>>
  BY <1>2, <1>4 DEF Returned, Base, Beyond
<1>6. CASE word = None
  <2>1. Ahead = Base /\ Ahead < Beyond /\ InOrder(bus) /\ Len(bus) = 0 /\ Ahead \in Addresses
    <3>1. bus = <<>> /\ Len(bus) = 0 /\ InOrder(bus)
      BY <1>1, <1>3, <1>6 DEF Reads
    <3>2. Ahead = job.address /\ Base = job.address
      BY <1>1, <1>6, <3>1, Regions, Counts
    <3> QED
      BY <1>1, <3>1, <3>2, Regions DEF Addresses, Beyond
  <2>2. /\ Types' /\ UNCHANGED <<mem, command>> /\ InOrder(bus')
        /\ \/ /\ Accessible(Ahead) /\ Ahead' = Ahead + 1 /\ Len(bus') = Len(bus) + 1
              /\ s0' = Ahead' /\ s1' = Content[Ahead] /\ UNCHANGED cmderr
           \/ /\ Stuck /\ UNCHANGED <<bus, s0, s1>>
              /\ cmderr' \in {"exception", IF cmderr = "none" THEN "exception" ELSE cmderr}
    BY <1>1, <1>2, <1>3, <2>1, HartLoads DEF Reads
  <2>3. InOrder(bus)' /\ mem' = Content
    BY <1>1, <1>4, <2>2 DEF InOrder, Reads
  <2>4. Called'
    BY <1>2, <1>4, <2>2 DEF Called, Quiescent, Effect
  <2>5. CASE cmderr' = "none"
    <3>1. /\ Accessible(Ahead) /\ Ahead' = Ahead + 1 /\ Len(bus') = 1
          /\ s0' = Ahead' /\ s1' = Content[Ahead]
      BY <1>2, <2>1, <2>2, <2>5
    <3>2. Begun' = Ahead'
      BY <1>4, <3>1 DEF Begun, InFlight
    <3>3. Beyond' = Beyond /\ Ahead \in Nat /\ Ahead = job.address /\ Beyond \in Nat
      BY <1>1, <1>5, <1>6, <2>1, Regions, Counts
    <3>4. Sync'
      BY <1>4, <2>1, <3>1, <3>2, <3>3 DEF Sync, Accessible, Addresses
    <3> QED
      BY <1>4, <1>5, <1>6, <2>2, <2>3, <2>4, <2>5, <3>1, <3>4 DEF CallLoad, Issued
  <2>6. CASE cmderr' # "none"
    BY <1>4, <1>5, <1>6, <2>2, <2>3, <2>4, <2>6 DEF CallLoad, Issued
  <2> QED
    BY <2>5, <2>6
<1>7. CASE word # None
  <2>1. Program(s1) /\ data0' = s1
    BY <1>2 DEF HartFinishes
  <2>2. Base \in Addresses /\ Base + 1 \in Nat /\ Base + 1 < AddrSpace /\ mem = Content
    <3>1. mem = Content
      BY <1>1 DEF Reads
    <3> QED
      BY <1>1, <3>1, Regions DEF Addresses, Beyond
  <2>3. mem' = Content /\ DebuggerTypes' /\ job' \in Jobs
    BY <1>1, <1>2, <1>4, <2>1, <2>2 DEF Program, Types, DebuggerTypes, Region, None
  <2>4. \/ /\ Accessible(Base) /\ s1' = Content[Base] /\ s0' = Base + 1 /\ UNCHANGED cmderr
           /\ bus' = Append(bus, Base)
        \/ /\ ~Accessible(Base) /\ s1' = s1 /\ UNCHANGED <<s0, bus>> /\ cmderr' = "exception"
    <3>1. (Base + 1) % AddrSpace = Base + 1
      BY <1>1, <2>2, NoWrap, Regions
    <3> QED
      BY <1>2, <1>3, <2>1, <2>2, <3>1 DEF Program
  <2>5. HartTypes'
    <3>1. Base + 1 \in Values /\ s1 \in Values /\ Content[Base] \in Values
      BY <1>1, <2>2, Contents DEF Types, HartTypes, Values, Lost
    <3>2. bus' \in Seq(Addresses)
      BY <1>1, <2>2, <2>4 DEF Types, HartTypes
    <3> QED
      BY <1>1, <1>2, <1>4, <2>1, <2>2, <2>3, <2>4, <3>1, <3>2 DEF Types, HartTypes
  <2>6. Called'
    BY <1>2, <1>4, <2>4 DEF Called, Quiescent, Effect
  <2>7. IF cmderr' = "none" THEN AWord' ELSE ~Accessible(Base)'
    BY <1>2, <1>4, <1>5, <1>7, <2>4 DEF AWord, Accessible
  <2> QED
    BY <1>4, <1>5, <1>7, <2>3, <2>5, <2>6, <2>7 DEF CallLoad, Issued, Types
<1> QED
  BY <1>6, <1>7

\* A step within a call of a read leaves the call what it is.
LEMMA HartInReadCall ==
  ASSUME Inv, job.op = "read", pc \in Calling, HartFinishes
  PROVE  Inv'
<1> DEFINE Read == CallStart \/ CallLoad \/ CallS0 \/ CallS1 \/ CallRestore0 \/ CallRestore1
<1>1. Types /\ Reads /\ running
  BY HartOnly DEF Inv
<1>2. /\ mem = Content /\ result = "ok" /\ (word = None => InOrder(bus)) /\ (word # None => Before)
      /\ outside => job.address + 1 \in job.faulting
      /\ Read
  BY <1>1 DEF Reads, Calling
<1>3. /\ UNCHANGED <<pc, command, auto, call, value, at, got, next, ignoreLast, saved>>
      /\ UNCHANGED <<buffer, outside, job, word, result, delay>> /\ running' = FALSE
  BY HartOnly
<1>4. UNCHANGED <<Base, Beyond, Fin, Size, Region, Want, Before, All>>
  BY <1>3 DEF Base, Beyond, Fin, Size, Region, Want, Before, All, Right, Accessible
<1>5. SUFFICES Types' /\ mem' = Content /\ (word = None => InOrder(bus)') /\ Read'
  <2>1. Reads'
    BY <1>2, <1>3, <1>4, <1>5 DEF Reads, Calling
  <2> QED
    BY <1>3, <1>5, <2>1 DEF Inv
<1>6. CASE CallLoad
  BY <1>6, HartInLoad
<1>7. ASSUME pc = "wait", Called, command \notin {"load", "store"}
      PROVE  /\ Types' /\ mem' = Content /\ UNCHANGED bus /\ (word = None => InOrder(bus)')
             /\ Called' /\ Effect' /\ Quiescent'
             /\ (command # "write s0" => UNCHANGED s0) /\ (command # "write s1" => UNCHANGED s1)
             /\ Ahead' = Ahead /\ Begun' = Ahead /\ Begun = Ahead
  BY <1>1, <1>2, <1>3, <1>7, HartTransfers, HartInCall DEF InOrder
<1>8. CASE CallStart
  <2>1. pc = "wait" /\ command = "write s0"
    BY <1>1, <1>2, <1>8 DEF CallStart, Called, Issued, Quiescent, Calling
  <2> QED
    BY <1>3, <1>4, <1>7, <1>8, <2>1 DEF CallStart, Issued
<1>9. CASE CallS0
  <2>1. pc = "wait" /\ command = "read s0"
    BY <1>1, <1>2, <1>9 DEF CallS0, Called, Issued, Quiescent, Calling
  <2>2. Sync => Sync'
    BY <1>3, <1>4, <1>7, <1>9, <2>1 DEF CallS0, Sync, Accessible
  <2>3. Saved'
    BY <1>3, <1>4, <1>7, <1>9, <2>1, <2>2
       DEF CallS0, Saved, Unfinished, Bursting, Stuck, Filled, GoodTo, Accessible
  <2> QED
    BY <1>3, <1>7, <1>9, <2>1, <2>3 DEF CallS0, Issued
<1>10. CASE CallS1 /\ Called /\ IF word = None THEN Ended ELSE AWord
  <2>1. pc = "wait" /\ command = "read s1"
    BY <1>1, <1>2, <1>10 DEF CallS1, Called, Issued, Quiescent, Calling
  <2>2. Sync => Sync'
    BY <1>3, <1>4, <1>7, <1>10, <2>1 DEF Sync, Accessible
  <2>3. IF word' = None THEN Ended' ELSE AWord'
    BY <1>3, <1>4, <1>7, <1>10, <2>1, <2>2 DEF Ended, AWord, Filled, Accessible
  <2> QED
    BY <1>3, <1>7, <1>10, <2>1, <2>3 DEF CallS1, Issued
<1>11. CASE CallS1 /\ pc # "result" /\ pc # "argument" /\ Ending /\ cmderr # "none"
  <2>1. word = None /\ Sync /\ Len(bus) >= 1 /\ command = "load"
    BY <1>1, <1>11 DEF Ending
  <2>2. /\ Types' /\ mem' = Content /\ InOrder(bus)' /\ Sync' /\ Len(bus)' >= 1
        /\ cmderr' # "none"
    BY <1>1, <1>2, <1>11, <2>1, SyncLoads
  <2>3. Ending'
    BY <1>3, <2>1, <2>2 DEF Ending
  <2> QED
    BY <1>3, <1>11, <2>1, <2>2, <2>3 DEF CallS1, Issued
<1>12. CASE CallRestore0
  <2>1. pc = "wait" /\ command = "write s0"
    BY <1>1, <1>2, <1>12 DEF CallRestore0, Called, Issued, Quiescent, Calling
  <2> QED
    BY <1>3, <1>4, <1>7, <1>12, <2>1 DEF CallRestore0, Issued
<1>13. CASE CallRestore1
  <2>1. pc = "wait" /\ command = "write s1"
    BY <1>1, <1>2, <1>13 DEF CallRestore1, Called, Issued, Quiescent, Calling
  <2> QED
    BY <1>3, <1>4, <1>7, <1>13, <2>1 DEF CallRestore1, Issued
<1> QED
  BY <1>2, <1>6, <1>8, <1>9, <1>10, <1>11, <1>12, <1>13 DEF CallS1

\* The hart stores the next word, or that word faults.
LEMMA HartStores ==
  ASSUME Types, Written, running, command = "store", s0 = Ahead, data0 = Data[Ahead],
         Ahead < Beyond, InOrder(bus), HartFinishes
  PROVE  /\ UNCHANGED data0 /\ InOrder(bus)' /\ Types' /\ Written'
         /\ Begun = Ahead + 1 /\ Begun' = Ahead' /\ Ahead' \in Nat
         /\ s0' = Ahead'
         /\ \/ Accessible(Ahead) /\ Ahead' = Ahead + 1 /\ UNCHANGED cmderr
            \/ /\ Stuck /\ Stuck' /\ Ahead' = Ahead
               /\ cmderr' \in {"exception", IF cmderr = "none" THEN "exception" ELSE cmderr}
<1>1. UNCHANGED data0 /\ Program(data0)
  BY DEF HartFinishes
<1>2. Ahead \in Nat /\ Ahead < AddrSpace /\ Ahead \in Addresses /\ Ahead \in Region
  <2>1. /\ Ahead \in Nat /\ job.address \in Nat /\ job.count \in Nat /\ AddrSpace \in Nat
        /\ Ahead >= job.address /\ Beyond = job.address + job.count /\ Beyond < AddrSpace
    BY Regions, Counts DEF Beyond
  <2>2. Ahead < Beyond
    OBVIOUS
  <2> QED
    BY <2>1, <2>2 DEF Addresses, Region
<1>3. /\ UNCHANGED <<pc, command, auto, call, value, at, got, next, ignoreLast, saved>>
      /\ UNCHANGED <<buffer, outside, job, word, result, delay>> /\ running' = FALSE
  BY HartOnly
<1>4. DebuggerTypes' /\ job' \in Jobs /\ UNCHANGED <<Region, Beyond>>
  BY <1>3 DEF Types, DebuggerTypes, Region, Beyond, None
<1>5. Begun = Ahead + 1
  BY <1>2 DEF Begun, InFlight
<1>6. CASE Accessible(Ahead)
  <2>1. /\ s0' = (Ahead + 1) % AddrSpace /\ s1' = data0 /\ bus' = Append(bus, Ahead)
        /\ UNCHANGED cmderr /\ mem' = [mem EXCEPT ![Ahead] = data0]
    BY <1>1, <1>6 DEF Program
  <2>2. s0' = Ahead + 1
    <3>1. Ahead + 1 \in Nat /\ AddrSpace \in Nat /\ Ahead + 1 < AddrSpace
      BY <1>2, Regions DEF Beyond
    <3> QED
      BY <2>1, <3>1, NoWrap
  <2>3. Ahead' = Ahead + 1 /\ InOrder(bus') /\ Len(bus') = Len(bus) + 1 /\ bus' \in Seq(Addresses)
    BY <1>3, <2>1, OneMore
  <2>4. HartTypes'
    <3>1. Ahead + 1 \in Values /\ data0 \in Values /\ mem' \in [Addresses -> Values]
      BY <1>2, <2>1 DEF Types, HartTypes, Values, Lost
    <3> QED
      BY <1>1, <1>3, <2>1, <2>2, <2>3, <3>1 DEF Types, HartTypes
  <2>5. Written'
    <3>1. mem' = [a \in Addresses |->
                    IF a \in Region /\ a < Ahead + 1 THEN Data[a] ELSE Content[a]]
      <4>1. \A a \in Addresses :
              mem'[a] = IF a \in Region /\ a < Ahead + 1 THEN Data[a] ELSE Content[a]
        <5> TAKE a \in Addresses
        <5>1. a \in Int /\ (a < Ahead + 1 <=> a < Ahead \/ a = Ahead)
          BY <1>2, Regions DEF Addresses
        <5>2. mem'[a] = IF a = Ahead THEN Data[Ahead] ELSE mem[a]
          BY <2>1 DEF Types, HartTypes
        <5>3. mem[a] = IF a \in Region /\ a < Ahead THEN Data[a] ELSE Content[a]
          BY DEF Written
        <5> QED
          BY <1>2, <5>1, <5>2, <5>3
      <4>2. mem' = [a \in Addresses |-> mem'[a]]
        BY <2>4 DEF HartTypes
      <4> QED
        BY <4>1, <4>2
    <3> QED
      BY <1>4, <2>3, <3>1 DEF Written
  <2>6. Begun' = Ahead' /\ InOrder(bus)'
    BY <1>2, <1>3, <2>3 DEF Begun, InFlight, InOrder
  <2> QED
    BY <1>1, <1>2, <1>4, <1>5, <1>6, <2>1, <2>2, <2>3, <2>4, <2>5, <2>6 DEF Types
<1>7. CASE ~Accessible(Ahead)
  <2>1. /\ UNCHANGED <<s0, bus, mem>> /\ s1' = data0
        /\ cmderr' \in {"exception", IF cmderr = "none" THEN "exception" ELSE cmderr}
    BY <1>1, <1>7 DEF Program
  <2>2. HartTypes'
    BY <1>1, <1>3, <2>1 DEF Types, HartTypes
  <2>3. Ahead' = Ahead /\ Written' /\ InOrder(bus)'
    BY <1>3, <1>4, <2>1 DEF Ahead, Written, InOrder
  <2>4. Stuck /\ Stuck'
    BY <1>3, <1>4, <1>7, <2>3 DEF Stuck, Accessible
  <2>5. Begun' = Ahead'
    BY <1>2, <1>3, <2>3 DEF Begun, InFlight
  <2> QED
    BY <1>1, <1>2, <1>4, <1>5, <2>1, <2>2, <2>3, <2>4, <2>5 DEF Types
<1> QED
  BY <1>6, <1>7

LEMMA HartInWriteBatch ==
  ASSUME Inv, job.op = "write", pc \notin Calling, HartFinishes
  PROVE  Inv'
<1>1. Types /\ Writes /\ running
  BY HartOnly DEF Inv
<1>2. pc \in Labels \ Calling
  BY <1>1 DEF Types, DebuggerTypes
<1>3. pc = "batch"
  BY <1>1, <1>2 DEF Writes, Labels, Calling, Standing, Clean, Quiescent
<1>4. AtWriteBatch /\ Written /\ InOrder(bus)
  BY <1>1, <1>3 DEF Writes
<1>5. command = "store" /\ s0 = Ahead /\ data0 = Data[Ahead] /\ Ahead < Beyond
  <2>1. command = "store" /\ s0 = Ahead /\ data0 = Data[Ahead] /\ Begun <= Beyond
    BY <1>1, <1>4 DEF AtWriteBatch, Storing
  <2>2. Begun = Ahead + 1 /\ Ahead \in Nat /\ Beyond \in Nat
    BY <1>1, <2>1, Counts, Regions DEF InFlight
  <2> QED
    BY <2>1, <2>2
<1>6. /\ UNCHANGED data0 /\ InOrder(bus)' /\ Types' /\ Written'
      /\ Begun = Ahead + 1 /\ Begun' = Ahead' /\ Ahead' \in Nat
      /\ s0' = Ahead'
      /\ \/ Accessible(Ahead) /\ Ahead' = Ahead + 1 /\ UNCHANGED cmderr
         \/ /\ Stuck /\ Stuck' /\ Ahead' = Ahead
            /\ cmderr' \in {"exception", IF cmderr = "none" THEN "exception" ELSE cmderr}
  BY <1>1, <1>4, <1>5, HartStores
<1>7. /\ running' = FALSE
      /\ UNCHANGED <<pc, command, auto, call, value, at, got, next, ignoreLast, saved>>
      /\ UNCHANGED <<buffer, outside, job, word, result, delay>>
  BY HartOnly
<1>8. Want' = Want /\ Beyond' = Beyond /\ HasLost' = HasLost
  BY <1>7 DEF Want, Beyond, HasLost, Fin, Base, Size
<1>9. Ahead \in Nat /\ Len(got) \in Nat /\ at \in Int
  BY <1>1, Counts DEF Types, DebuggerTypes
<1>10. Begun' <= Begun /\ Begun' \in Nat /\ (cmderr' = "none" => Begun' = Begun /\ cmderr = "none")
  BY <1>6, <1>9
<1>11. cmderr' = "exception" => Stuck'
  BY <1>4, <1>6 DEF AtWriteBatch, Stuck
<1>12. Storing'
  BY <1>1, <1>4, <1>6, <1>8, <1>9, <1>10, Regions DEF AtWriteBatch, Storing
<1>13. AtWriteBatch'
  BY <1>4, <1>6, <1>7, <1>8, <1>9, <1>10, <1>11, <1>12 DEF AtWriteBatch
<1>14. Writes'
  BY <1>1, <1>3, <1>6, <1>7, <1>13 DEF Writes, Calling
<1> QED
  BY <1>6, <1>7, <1>14 DEF Inv

LEMMA HartInWriteCall ==
  ASSUME Inv, job.op = "write", pc \in Calling, HartFinishes
  PROVE  Inv'
<1> DEFINE Write == CallSetUp \/ CallStore \/ CallAgain \/ CallWRestore1 \/ CallWRestore0
<1>1. Types /\ Writes /\ running
  BY HartOnly DEF Inv
<1>2. Written /\ word = None /\ ~outside /\ InOrder(bus) /\ (result = "fail" => Faulty) /\ Write
  BY <1>1 DEF Writes, Calling
<1>3. /\ UNCHANGED <<pc, command, auto, call, value, at, got, next, ignoreLast, saved>>
      /\ UNCHANGED <<buffer, outside, job, word, result, delay>> /\ running' = FALSE
  BY HartOnly
<1>4. UNCHANGED <<Beyond, Region, Faulty>>
  BY <1>3 DEF Beyond, Region, Faulty, Accessible
<1>5. SUFFICES Types' /\ Written' /\ InOrder(bus)' /\ Write'
  <2>1. Writes'
    BY <1>2, <1>3, <1>4, <1>5 DEF Writes, Calling
  <2> QED
    BY <1>3, <1>5, <2>1 DEF Inv
<1>6. pc = "wait" /\ Called /\ command = call.command /\ cmderr = "none"
      /\ (Puts(command) => data0 = call.value) /\ ~auto
  BY <1>1, <1>2 DEF CallSetUp, CallStore, CallAgain, CallWRestore1, CallWRestore0, Called,
     Calling, Quiescent
<1>7. CASE command \notin {"load", "store"}
  <2>1. /\ Types' /\ UNCHANGED <<cmderr, mem, bus>>
        /\ s0' = IF command = "write s0" THEN data0 ELSE s0
        /\ s1' = IF command = "write s1" THEN data0 ELSE s1
        /\ Ahead' = Ahead /\ Begun' = Ahead /\ Begun = Ahead
        /\ Called' /\ Effect' /\ Quiescent'
    BY <1>1, <1>6, <1>7, HartTransfers, HartInCall
  <2>2. Written' /\ InOrder(bus)'
    BY <1>2, <1>3, <1>4, <2>1 DEF Written, InOrder
  <2>3. Storing /\ command = "read s0" => Storing'
    BY <1>4, <2>1 DEF Storing
  <2>4. Finished => Finished'
    BY <1>3, <1>4, <2>1 DEF Finished
  <2>5. CASE CallSetUp
    BY <1>3, <1>4, <2>1, <2>2, <2>5 DEF CallSetUp, Issued
  <2>6. CASE CallStore
    BY <1>6, <1>7, <2>6 DEF CallStore, Issued
  <2>7. CASE CallAgain
    BY <1>3, <1>6, <2>1, <2>2, <2>3, <2>7 DEF CallAgain, Issued
  <2>8. CASE CallWRestore1
    BY <1>3, <2>1, <2>2, <2>4, <2>8 DEF CallWRestore1, Issued
  <2>9. CASE CallWRestore0
    <3>1. command = "write s0"
      BY <1>6, <2>9 DEF CallWRestore0, Issued
    <3> QED
      BY <1>3, <2>1, <2>2, <2>4, <2>9, <3>1 DEF CallWRestore0, Issued
  <2> QED
    BY <1>2, <2>5, <2>6, <2>7, <2>8, <2>9
<1>8. CASE command \in {"load", "store"}
  <2>1. CallStore /\ command = "store" /\ data0 = Data[at]
    <3>1. CallStore
      <4>1. CallSetUp \/ CallWRestore0 => call.command = "write s0"
        BY Parts DEF CallSetUp, CallWRestore0
      <4>2. CallWRestore1 => call.command = "write s1"
        BY Parts DEF CallWRestore1
      <4>3. CallAgain => call.command = "read s0"
        BY Parts DEF CallAgain
      <4> QED
        BY <1>2, <1>6, <1>8, <4>1, <4>2, <4>3
    <3>2. call.command = "store" /\ call.value = Data[at]
      BY <3>1 DEF CallStore, Issued
    <3> QED
      BY <1>6, <3>1, <3>2 DEF Puts
  <2>2. Storing /\ at = Ahead /\ at < Beyond
    BY <1>1, <1>6, <2>1 DEF CallStore, Returned
  <2>3. /\ InOrder(bus)' /\ Types' /\ Written'
        /\ Begun' = Ahead' /\ s0' = Ahead'
        /\ \/ Accessible(Ahead) /\ Ahead' = Ahead + 1 /\ UNCHANGED cmderr
           \/ /\ Stuck /\ Stuck' /\ Ahead' = Ahead
              /\ cmderr' \in {"exception", IF cmderr = "none" THEN "exception" ELSE cmderr}
    BY <1>1, <1>2, <2>1, <2>2, HartStores DEF Storing
  <2>4. Called'
    BY <1>3, <1>6, <2>1, <2>3 DEF Called, Quiescent, Effect, CallStore, Issued
  <2>5. Returned' /\ UNCHANGED at /\ Ahead \in Nat /\ Beyond \in Nat
    BY <1>1, <1>3, <1>6, Counts, Regions DEF Returned
  <2>6. CASE Accessible(Ahead) /\ Ahead' = Ahead + 1 /\ UNCHANGED cmderr
    <3>1. Storing' /\ Ahead' = at' + 1
      BY <1>4, <2>2, <2>3, <2>5, <2>6 DEF Storing
    <3> QED
      BY <1>3, <1>4, <1>6, <2>1, <2>2, <2>3, <2>4, <2>5, <2>6, <3>1 DEF CallStore, Issued
  <2>7. CASE Stuck /\ Stuck' /\ Ahead' = Ahead /\ cmderr' = "exception"
    BY <1>3, <1>4, <2>1, <2>2, <2>3, <2>4, <2>5, <2>7 DEF CallStore, Issued, Stuck
  <2> QED
    BY <1>6, <2>3, <2>6, <2>7
<1> QED
  BY <1>7, <1>8

LEMMA HartSteps ==
  ASSUME Inv, HartFinishes
  PROVE  Inv'
<1>1. job.op \in {"read", "write"}
  BY Regions DEF Inv
<1> QED
  BY <1>1, HartInBurst, HartInReadCall, HartInWriteBatch, HartInWriteCall

-----------------------------------------------------------------------------
(* The debug module. *)

\* Whatever is done to it, its state stays what it should be.
LEMMA ModuleTypes ==
  ASSUME Types
  PROVE  /\ ReadData0 => HartTypes'
         /\ \A v \in Values : WriteData0(v) => HartTypes'
         /\ \A c \in Commands : WriteCommand(c) => HartTypes'
         /\ \A on \in BOOLEAN : WriteAuto(on) => HartTypes'
         /\ ClearError => HartTypes'
         /\ UNCHANGED hart => HartTypes'
<1>1. Busy => cmderr' \in {"none", "busy", "exception"}
  BY DEF Busy, Types, HartTypes
<1>2. Access => cmderr' \in {"none", "busy", "exception"} /\ running' \in BOOLEAN
  BY <1>1 DEF Access
<1>3. ReadData0 => HartTypes'
  BY <1>2 DEF ReadData0, Types, HartTypes
<1>4. ASSUME NEW v \in Values, WriteData0(v)
      PROVE  HartTypes'
  BY <1>2, <1>4 DEF WriteData0, Types, HartTypes
<1>5. ASSUME NEW c \in Commands, WriteCommand(c)
      PROVE  HartTypes'
  BY <1>1, <1>5 DEF WriteCommand, Types, HartTypes
<1>6. ASSUME NEW on \in BOOLEAN, WriteAuto(on)
      PROVE  HartTypes'
  <2>1. auto' \in BOOLEAN
    BY <1>6 DEF WriteAuto, Types, HartTypes
  <2> QED
    BY <1>1, <1>6, <2>1 DEF WriteAuto, Types, HartTypes
<1>7. ClearError => HartTypes'
  BY DEF ClearError, Types, HartTypes
<1>8. UNCHANGED hart => HartTypes'
  BY DEF hart, Types, HartTypes
<1> QED
  BY <1>3, <1>4, <1>5, <1>6, <1>7, <1>8

LEMMA OnlyPlace ==
  ASSUME Types, HartTypes', UNCHANGED <<control, burst, output, account>>, pc' \in Labels
  PROVE  Types'
  BY DEF Types, DebuggerTypes, control, burst, output, account, Region, None

\* An idle debug module does what it is told.
LEMMA WhenIdle ==
  ASSUME Types, Quiescent
  PROVE  /\ Seen = data0
         /\ ReadData0 => UNCHANGED <<data0, s0, s1, command, cmderr, auto, mem, bus>>
                         /\ running' = auto
         /\ \A v : WriteData0(v) => UNCHANGED <<s0, s1, command, cmderr, auto, mem, bus>>
                                    /\ data0' = v /\ running' = auto
         /\ \A c : WriteCommand(c) => UNCHANGED <<data0, s0, s1, cmderr, auto, mem, bus>>
                                      /\ command' = c /\ running' = TRUE
         /\ \A on : WriteAuto(on) => UNCHANGED <<data0, s0, s1, command, running, cmderr, mem, bus>>
                                     /\ auto' = on
<1>1. running = FALSE /\ cmderr = "none" /\ auto \in BOOLEAN
  BY DEF Types, HartTypes, Quiescent
<1>2. Access => cmderr' = cmderr /\ running' = auto
  BY <1>1 DEF Access, Busy
<1>3. ReadData0 => UNCHANGED <<data0, s0, s1, command, cmderr, auto, mem, bus>> /\ running' = auto
  BY <1>2 DEF ReadData0
<1>4. ASSUME NEW v, WriteData0(v)
      PROVE  UNCHANGED <<s0, s1, command, cmderr, auto, mem, bus>> /\ data0' = v /\ running' = auto
  BY <1>1, <1>2, <1>4 DEF WriteData0
<1>5. ASSUME NEW c, WriteCommand(c)
      PROVE  UNCHANGED <<data0, s0, s1, cmderr, auto, mem, bus>> /\ command' = c /\ running' = TRUE
  BY <1>1, <1>5 DEF WriteCommand, Busy
<1>6. ASSUME NEW on, WriteAuto(on)
      PROVE  UNCHANGED <<data0, s0, s1, command, running, cmderr, mem, bus>> /\ auto' = on
  BY <1>1, <1>6 DEF WriteAuto, Busy
<1> QED
  BY <1>1, <1>3, <1>4, <1>5, <1>6 DEF Seen

-----------------------------------------------------------------------------
(* Register accesses. *)

ReadCall == CallStart \/ CallLoad \/ CallS0 \/ CallS1 \/ CallRestore0 \/ CallRestore1
WriteCall == CallSetUp \/ CallStore \/ CallAgain \/ CallWRestore1 \/ CallWRestore0

\* What each call asks for, and where it goes on.
LEMMA Calls ==
  /\ CallStart => call.command = "write s0" /\ call.value = Base /\ call.ok = "first"
  /\ CallLoad => /\ call.command = "load" /\ call.fail = "failed"
                 /\ call.ok = IF word = None THEN "autoexec" ELSE "last word"
  /\ CallS0 => call.command = "read s0" /\ call.ok = "resume"
  /\ CallS1 => /\ call.command = "read s1" /\ call.ok = "store last"
               /\ call.fail = IF word = None THEN "error" ELSE "failed"
  /\ CallRestore0 => call.command = "write s0" /\ call.value = OldS0 /\ call.ok = "restored"
  /\ CallRestore1 => call.command = "write s1" /\ call.value = OldS1 /\ call.ok = "done"
  /\ CallSetUp => call.command = "write s0" /\ call.value = at /\ call.ok = "first store"
  /\ CallStore => /\ call.command = "store" /\ call.value = Data[at] /\ call.ok = "stored"
                  /\ call.fail = "write failed"
  /\ CallAgain => call.command = "read s0" /\ call.ok = "write again"
  /\ CallWRestore1 => call.command = "write s1" /\ call.value = OldS1 /\ call.ok = "restored"
  /\ CallWRestore0 => call.command = "write s0" /\ call.value = OldS0 /\ call.ok = "done"
<1>1. CallStart => call.command = "write s0" /\ call.value = Base /\ call.ok = "first"
  BY Parts DEF CallStart
<1>2. CallLoad => /\ call.command = "load" /\ call.fail = "failed"
                  /\ call.ok = IF word = None THEN "autoexec" ELSE "last word"
  BY Parts DEF CallLoad
<1>3. CallS0 => call.command = "read s0" /\ call.ok = "resume"
  BY Parts DEF CallS0
<1>4. CallS1 => /\ call.command = "read s1" /\ call.ok = "store last"
                /\ call.fail = IF word = None THEN "error" ELSE "failed"
  BY Parts DEF CallS1
<1>5. CallRestore0 => call.command = "write s0" /\ call.value = OldS0 /\ call.ok = "restored"
  BY Parts DEF CallRestore0
<1>6. CallRestore1 => call.command = "write s1" /\ call.value = OldS1 /\ call.ok = "done"
  BY Parts DEF CallRestore1
<1>7. CallSetUp => call.command = "write s0" /\ call.value = at /\ call.ok = "first store"
  BY Parts DEF CallSetUp
<1>8. CallStore => /\ call.command = "store" /\ call.value = Data[at] /\ call.ok = "stored"
                   /\ call.fail = "write failed"
  BY Parts DEF CallStore
<1>9. CallAgain => call.command = "read s0" /\ call.ok = "write again"
  BY Parts DEF CallAgain
<1>10. CallWRestore1 => call.command = "write s1" /\ call.value = OldS1 /\ call.ok = "restored"
  BY Parts DEF CallWRestore1
<1>11. CallWRestore0 => call.command = "write s0" /\ call.value = OldS0 /\ call.ok = "done"
  BY Parts DEF CallWRestore0
<1> QED
  BY <1>1, <1>2, <1>3, <1>4, <1>5, <1>6, <1>7, <1>8, <1>9, <1>10, <1>11

\* Within a call of a read, and of a write: what is left to show.
LEMMA StaysInReadCall ==
  ASSUME Inv, job.op = "read", pc \in Calling, pc' \in Calling, Types', mem' = mem, bus' = bus,
         UNCHANGED <<job, word, output, result>>, ReadCall'
  PROVE  Inv'
<1>1. /\ mem = Content /\ result = "ok" /\ (word = None => InOrder(bus)) /\ (word # None => Before)
      /\ outside => job.address + 1 \in job.faulting
  BY DEF Inv, Reads, Calling
<1>2. mem' = Content /\ result' = "ok" /\ (word' = None => InOrder(bus)') /\ (word' # None => Before')
      /\ (outside' => job'.address + 1 \in job'.faulting)
  BY <1>1 DEF output, InOrder, Before, Right, Region, Base, Accessible
<1>3. Reads'
  BY <1>2 DEF Reads, Calling, ReadCall
<1> QED
  BY <1>3 DEF Inv

LEMMA StaysInWriteCall ==
  ASSUME Inv, job.op = "write", pc \in Calling, pc' \in Calling, Types', mem' = mem, bus' = bus,
         UNCHANGED <<job, word, output, result>>, WriteCall'
  PROVE  Inv'
<1>1. Written /\ word = None /\ ~outside /\ InOrder(bus) /\ (result = "fail" => Faulty)
  BY DEF Inv, Writes, Calling
<1>2. Written' /\ word' = None /\ ~outside' /\ InOrder(bus)' /\ (result' = "fail" => Faulty')
  BY <1>1 DEF output, InOrder, Written, Faulty, Region, Accessible, Ahead
<1>3. Writes'
  BY <1>2 DEF Writes, Calling, WriteCall
<1> QED
  BY <1>3 DEF Inv

LEMMA ArgumentStep ==
  ASSUME Inv, Argument
  PROVE  Inv'
<1>1. Types /\ pc = "argument" /\ pc' = "command" /\ WriteData0(call.value)
      /\ UNCHANGED <<control, burst, output, account>>
  BY DEF Inv, Argument, Quiet
<1>2. UNCHANGED <<call, value, at, got, next, ignoreLast, saved>>
      /\ UNCHANGED <<buffer, outside, job, word, result, delay>>
  BY <1>1 DEF control, burst, output, account
<1>3. call.value \in Values
  BY <1>1 DEF Types, DebuggerTypes, Values, Lost
<1>4. Types'
  <2>1. HartTypes'
    BY <1>1, <1>3, ModuleTypes
  <2>2. pc' \in Labels
    BY <1>1 DEF Labels
  <2> QED
    BY <1>1, <2>1, <2>2, OnlyPlace
<1>5. job.op \in {"read", "write"} /\ (job.op = "read" => Reads) /\ (job.op = "write" => Writes)
  BY <1>1, Regions DEF Inv
<1>6. Called /\ Quiescent /\ ~auto /\ Puts(call.command)
  BY <1>1, <1>5 DEF Reads, Writes, Called, Calling, CallStart, CallLoad, CallS0, CallS1, CallRestore0,
     CallRestore1, CallSetUp, CallStore, CallAgain, CallWRestore1, CallWRestore0
<1>7. UNCHANGED <<s0, s1, command, cmderr, auto, mem, bus>> /\ data0' = call.value
      /\ running' = auto
  BY <1>1, <1>6, WhenIdle
<1>8. Called' /\ Quiescent'
  BY <1>1, <1>2, <1>6, <1>7 DEF Called, Quiescent
<1>9. ~Returned /\ ~Returned'
  BY <1>1 DEF Returned
<1>10. UNCHANGED <<Base, Fin, Beyond, Ahead, Region, Faulty>> /\ Begun' = Begun
  BY <1>2, <1>6, <1>7 DEF Base, Size, Fin, Beyond, Ahead, Region, Faulty, Accessible, Begun, InFlight,
     Quiescent
<1>11. CASE job.op = "read"
  <2>1. ~CallLoad /\ ~CallS0 /\ ~CallS1
    <3>1. /\ CallLoad => call.command = "load"
          /\ CallS0 => call.command = "read s0"
          /\ CallS1 => call.command = "read s1"
      BY Parts DEF CallLoad, CallS0, CallS1
    <3> QED
      BY <1>6, <3>1 DEF Puts
  <2>2. ReadCall
    BY <1>1, <1>5, <1>11 DEF Reads, Calling, ReadCall
  <2>3. UNCHANGED All
    BY <1>2, <1>10 DEF All, Right, Accessible
  <2>4. ReadCall'
    BY <1>2, <1>7, <1>8, <1>10, <2>1, <2>2, <2>3
       DEF ReadCall, CallStart, CallRestore0, CallRestore1, Issued
  <2> QED
    BY <1>1, <1>2, <1>4, <1>7, <1>11, <2>4, StaysInReadCall DEF Calling
<1>12. CASE job.op = "write"
  <2>1. WriteCall
    BY <1>1, <1>5, <1>12 DEF Writes, Calling, WriteCall
  <2>2. UNCHANGED Finished /\ (Storing => Storing')
    BY <1>2, <1>7, <1>10 DEF Finished, Storing
  <2>3. WriteCall'
    BY <1>2, <1>7, <1>8, <1>9, <1>10, <2>1, <2>2
       DEF WriteCall, CallSetUp, CallStore, CallAgain, CallWRestore1, CallWRestore0, Issued
  <2> QED
    BY <1>1, <1>2, <1>4, <1>7, <1>12, <2>3, StaysInWriteCall DEF Calling
<1> QED
  BY <1>5, <1>11, <1>12

LEMMA CommandStep ==
  ASSUME Inv, Command
  PROVE  Inv'
<1>1. Types /\ pc = "command" /\ pc' = "wait" /\ WriteCommand(call.command)
      /\ UNCHANGED <<control, burst, output, account>>
  BY DEF Inv, Command, Quiet
<1>2. UNCHANGED <<call, value, at, got, next, ignoreLast, saved>>
      /\ UNCHANGED <<buffer, outside, job, word, result, delay>>
  BY <1>1 DEF control, burst, output, account
<1>3. call.command \in Commands
  BY <1>1 DEF Types, DebuggerTypes
<1>4. Types'
  <2>1. HartTypes'
    BY <1>1, <1>3, ModuleTypes
  <2>2. pc' \in Labels
    BY <1>1 DEF Labels
  <2> QED
    BY <1>1, <2>1, <2>2, OnlyPlace
<1>5. UNCHANGED <<data0, s0, s1, auto, mem, bus>>
  BY <1>1 DEF WriteCommand
<1>6. UNCHANGED <<Base, Fin, Beyond, Ahead, Region, Faulty, Stuck, All, AWord>>
  BY <1>2, <1>5 DEF Base, Size, Fin, Beyond, Ahead, Region, Faulty, Accessible, Stuck, All, Right, AWord
<1>7. ASSUME Called
      PROVE  /\ Called' /\ command' = call.command /\ ~Returned /\ (running' = TRUE) /\ ~Returned'
             /\ Begun = Ahead /\ Begun' = IF call.command \in {"load", "store"} THEN Ahead + 1 ELSE Ahead
  <2>1. Quiescent /\ ~auto /\ (Puts(call.command) => data0 = call.value)
    BY <1>1, <1>7 DEF Called
  <2>2. command' = call.command /\ running' = TRUE /\ cmderr' = cmderr /\ cmderr = "none" /\ ~running
    BY <1>1, <2>1, WhenIdle DEF Quiescent
  <2>3. Called'
    BY <1>1, <1>2, <1>5, <2>1, <2>2 DEF Called, Quiescent, Effect
  <2> QED
    BY <1>1, <1>6, <2>2, <2>3 DEF Begun, InFlight, Returned
<1>8. CASE job.op = "read"
  <2>1. ReadCall
    BY <1>1, <1>8 DEF Inv, Reads, Calling, ReadCall
  <2>2. SUFFICES ReadCall'
    BY <1>1, <1>2, <1>4, <1>5, <1>8, StaysInReadCall DEF Calling
  <2>3. CASE CallStart \/ CallRestore0 \/ CallRestore1
    BY <1>2, <1>5, <1>6, <1>7, <2>3
       DEF ReadCall, CallStart, CallRestore0, CallRestore1, Issued
  <2>4. CASE CallLoad
    BY <1>2, <1>5, <1>6, <1>7, <2>4 DEF ReadCall, CallLoad, Issued
  <2>5. ASSUME call.command \notin {"load", "store"}, Called
        PROVE  Sync => Sync'
    BY <1>2, <1>5, <1>6, <1>7, <2>5 DEF Sync, Accessible
  <2>6. CASE CallS0
    <3>1. call.command = "read s0"
      BY <2>6, Parts DEF CallS0
    <3>2. Saved'
      BY <1>2, <1>5, <1>6, <1>7, <2>5, <2>6, <3>1
         DEF CallS0, Saved, Unfinished, Bursting, Filled, GoodTo, Want, Fin, Base, Size
    <3> QED
      BY <1>2, <1>7, <2>6, <3>2 DEF ReadCall, CallS0, Issued
  <2>7. CASE CallS1 /\ Called /\ IF word = None THEN Ended ELSE AWord
    <3>1. call.command = "read s1"
      BY <2>7, Parts DEF CallS1
    <3>2. IF word' = None THEN Ended' ELSE AWord'
      BY <1>2, <1>6, <2>5, <2>7, <3>1 DEF Ended, Filled
    <3> QED
      BY <1>2, <1>7, <2>7, <3>2 DEF ReadCall, CallS1, Issued
  <2>8. CASE CallS1 /\ Ending /\ cmderr # "none"
    <3>1. UNCHANGED <<cmderr, running, command>>
      BY <1>1, <2>8 DEF WriteCommand, Busy
    <3>2. UNCHANGED Begun
      BY <1>6, <3>1 DEF Begun, InFlight
    <3>3. Ending'
      BY <1>2, <1>5, <1>6, <2>8, <3>1, <3>2 DEF Ending, Sync, Accessible
    <3> QED
      BY <1>1, <1>2, <2>8, <3>1, <3>3 DEF ReadCall, CallS1, Issued
  <2> QED
    BY <2>1, <2>3, <2>4, <2>6, <2>7, <2>8 DEF ReadCall, CallS1
<1>9. CASE job.op = "write"
  <2>1. WriteCall
    BY <1>1, <1>9 DEF Inv, Writes, Calling, WriteCall
  <2>2. SUFFICES WriteCall'
    BY <1>1, <1>2, <1>4, <1>5, <1>9, StaysInWriteCall DEF Calling
  <2>3. Called
    BY <2>1 DEF WriteCall, CallSetUp, CallStore, CallAgain, CallWRestore1, CallWRestore0
  <2>4. UNCHANGED Finished
    BY <1>2, <1>6 DEF Finished
  <2>5. CASE CallSetUp \/ CallWRestore1 \/ CallWRestore0
    BY <1>2, <1>5, <1>6, <1>7, <2>3, <2>4, <2>5
       DEF WriteCall, CallSetUp, CallWRestore1, CallWRestore0, Issued
  <2>6. CASE CallAgain
    <3>1. call.command = "read s0"
      BY <2>6, Parts DEF CallAgain
    <3> QED
      BY <1>2, <1>5, <1>6, <1>7, <2>3, <2>6, <3>1 DEF WriteCall, CallAgain, Issued, Storing
  <2>7. CASE CallStore
    <3>1. Begun' = Ahead + 1 /\ Ahead < Beyond /\ Ahead \in Nat /\ Beyond \in Nat /\ at = Ahead
      BY <1>1, <1>7, <2>3, <2>7, Parts, Counts, Regions DEF CallStore
    <3>2. Storing'
      <4>1. s0 = Ahead
        BY <1>7, <2>3, <2>7 DEF CallStore, Storing
      <4>2. s0' = Ahead' /\ Begun' <= Beyond'
        BY <1>5, <1>6, <3>1, <4>1
      <4> QED
        BY <4>2 DEF Storing
    <3> QED
      BY <1>2, <1>5, <1>6, <1>7, <2>3, <2>7, <3>2 DEF WriteCall, CallStore, Issued
  <2> QED
    BY <2>1, <2>5, <2>6, <2>7 DEF WriteCall
<1> QED
  BY <1>1, <1>8, <1>9, Regions

\* What every place of a read, and of a write, has in common.
ReadBasis ==
  /\ mem = Content /\ result = "ok"
  /\ outside => job.address + 1 \in job.faulting
  /\ word = None => InOrder(bus)
WriteBasis == word = None /\ ~outside /\ InOrder(bus) /\ Written /\ (result = "fail" => Faulty)

LEMMA BasisKept ==
  ASSUME Inv, UNCHANGED <<mem, bus, job, word, outside, result>>
  PROVE  /\ job.op = "read" => ReadBasis /\ ReadBasis'
         /\ job.op = "write" => WriteBasis /\ WriteBasis'
         /\ (UNCHANGED buffer /\ Before => Before')
<1>1. job.op = "read" => ReadBasis
  BY DEF Inv, Reads, ReadBasis
<1>2. job.op = "write" => WriteBasis
  BY DEF Inv, Writes, WriteBasis
<1>3. ReadBasis => ReadBasis'
  BY DEF ReadBasis, InOrder
<1>4. WriteBasis => WriteBasis'
  BY DEF WriteBasis, InOrder, Written, Faulty, Region, Accessible, Ahead
<1>5. UNCHANGED buffer /\ Before => Before'
  BY DEF Before, Right, Region, Base, Accessible
<1> QED
  BY <1>1, <1>2, <1>3, <1>4, <1>5

LEMMA WaitForIdleStep ==
  ASSUME Inv, WaitForIdle
  PROVE  Inv'
<1>1. Types /\ pc = "wait" /\ ~running /\ UNCHANGED <<control, burst, output, account>>
      /\ (cmderr = "none" =>
            /\ pc' = IF call.command \in {"read s0", "read s1"} THEN "result" ELSE call.ok
            /\ UNCHANGED hart)
      /\ (cmderr # "none" => pc' = call.fail /\ ClearError)
  BY DEF Inv, WaitForIdle, Quiet
<1>2. UNCHANGED <<call, value, at, got, next, ignoreLast, saved>>
      /\ UNCHANGED <<buffer, outside, job, word, result, delay>>
  BY <1>1 DEF control, burst, output, account
<1>3. /\ UNCHANGED <<data0, s0, s1, command, running, auto, mem, bus>>
      /\ cmderr' = "none" /\ Returned
  BY <1>1 DEF hart, ClearError, Returned
<1>4. Types'
  <2>1. HartTypes'
    BY <1>1, ModuleTypes
  <2>2. pc' \in Labels
    <3>1. call.ok \in Labels /\ call.fail \in Labels /\ "result" \in Labels
      BY <1>1 DEF Types, DebuggerTypes, Labels
    <3>2. pc' = call.ok \/ pc' = call.fail \/ pc' = "result"
      BY <1>1
    <3> QED
      BY <3>1, <3>2
  <2> QED
    BY <1>1, <2>1, <2>2, OnlyPlace
<1>5. UNCHANGED <<Base, Fin, Size, Want, Beyond, Ahead, Begun, Region, Faulty, Stuck, All, AWord>>
  BY <1>2, <1>3 DEF Base, Size, Fin, Want, Beyond, Ahead, Begun, InFlight, Region, Faulty, Accessible,
     Stuck, All, Right, AWord
<1>6. Quiescent' /\ Returned
  BY <1>1, <1>3 DEF Quiescent
<1>7. ASSUME Called
      PROVE  /\ Clean' /\ command = call.command
             /\ cmderr = "none" => Effect
             /\ cmderr # "none" => command \in {"load", "store"}
  BY <1>1, <1>3, <1>6, <1>7 DEF Called, Clean, Quiescent
<1>8. CASE job.op = "read"
  <2>1. ReadCall /\ (word # None => Before)
    BY <1>1, <1>8 DEF Inv, Reads, Calling, ReadCall
  <2>2. ReadBasis' /\ (word' # None => Before')
    BY <1>2, <1>3, <1>8, <2>1, BasisKept
  <2>3. Sync => Sync'
    BY <1>2, <1>3, <1>5 DEF Sync, Accessible
  <2>4. SUFFICES Reads'
    BY <1>2, <1>4, <1>8 DEF Inv
  <2>5. CASE CallStart
    <3>1. cmderr = "none" /\ pc' = "first" /\ s0 = Base /\ Clean'
      <4>1. call.command = "write s0" /\ call.value = Base /\ call.ok = "first" /\ Called
        BY <2>5, Calls DEF CallStart
      <4>2. cmderr = "none" /\ Effect /\ Clean'
        BY <1>7, <4>1
      <4> QED
        BY <1>1, <4>1, <4>2 DEF Effect
    <3>2. AtFirst'
      BY <1>2, <1>3, <1>5, <2>5, <3>1 DEF CallStart, AtFirst
    <3> QED
      BY <2>2, <3>1, <3>2 DEF Reads, ReadBasis, Calling
  <2>6. CASE CallLoad
    <3>1. Clean' /\ call.fail = "failed" /\ command' = "load" /\ call.command = "load"
          /\ call.ok = IF word = None THEN "autoexec" ELSE "last word"
      <4>1. Called
        BY <2>6 DEF CallLoad
      <4> QED
        BY <1>3, <1>7, <2>6, <4>1, Calls
    <3>2. CASE cmderr # "none"
      <4>1. AtFailed' /\ pc' = "failed"
        BY <1>1, <1>2, <1>3, <1>5, <1>6, <2>6, <3>1, <3>2 DEF AtFailed, CallLoad, Accessible
      <4> QED
        BY <2>2, <4>1 DEF Reads, ReadBasis, Calling
    <3>3. CASE cmderr = "none" /\ word = None
      <4>1. AtAutoexec' /\ pc' = "autoexec"
        BY <1>1, <1>2, <1>3, <1>5, <1>6, <2>3, <2>6, <3>1, <3>3 DEF AtAutoexec, CallLoad
      <4> QED
        BY <2>2, <4>1 DEF Reads, ReadBasis, Calling
    <3>4. CASE cmderr = "none" /\ word # None
      <4>1. AtLastWord' /\ pc' = "last word"
        BY <1>1, <1>2, <1>3, <1>5, <1>6, <2>6, <3>1, <3>4 DEF AtLastWord, CallLoad
      <4> QED
        BY <2>2, <4>1 DEF Reads, ReadBasis, Calling
    <3> QED
      BY <3>2, <3>3, <3>4
  <2>7. CASE CallS0
    <3>1. call.command = "read s0" /\ cmderr = "none"
      <4>1. call.command = "read s0" /\ Called
        BY <2>7, Calls DEF CallS0
      <4> QED
        BY <1>7, <4>1
    <3>2. Saved'
      BY <1>2, <1>3, <1>5, <2>3, <2>7 DEF CallS0, Saved, Unfinished, Bursting, Filled, GoodTo
    <3>3. pc' = "result" /\ Called'
      BY <1>1, <1>2, <1>3, <1>6, <1>7, <2>7, <3>1 DEF CallS0, Called, Effect, Clean
    <3>4. CallS0'
      BY <1>2, <2>7, <3>2, <3>3 DEF CallS0, Issued
    <3> QED
      BY <2>2, <3>3, <3>4 DEF Reads, ReadBasis, Calling
  <2>8. CASE CallS1 /\ Called /\ IF word = None THEN Ended ELSE AWord
    <3>1. call.command = "read s1" /\ cmderr = "none"
      <4>1. call.command = "read s1" /\ Called
        BY <2>8, Calls DEF CallS1
      <4> QED
        BY <1>7, <4>1
    <3>2. IF word' = None THEN Ended' ELSE AWord'
      BY <1>2, <1>5, <2>3, <2>8 DEF Ended, Filled
    <3>3. pc' = "result" /\ Called'
      BY <1>1, <1>2, <1>3, <1>6, <1>7, <2>8, <3>1 DEF Called, Effect, Clean
    <3>4. CallS1'
      BY <1>2, <2>8, <3>2, <3>3 DEF CallS1, Issued
    <3> QED
      BY <2>2, <3>3, <3>4 DEF Reads, ReadBasis, Calling
  <2>9. CASE CallS1 /\ Ending /\ cmderr # "none"
    <3>1. pc' = "error" /\ word = None
      BY <1>1, <2>9, Parts DEF CallS1, Ending
    <3>2. AtError'
      BY <1>2, <1>6, <3>1 DEF AtError
    <3> QED
      BY <2>2, <3>1, <3>2 DEF Reads, ReadBasis, Calling
  <2>10. CASE CallRestore0
    <3>1. cmderr = "none" /\ pc' = "restored" /\ s0 = OldS0 /\ Clean'
      BY <1>1, <1>7, <2>10, Parts DEF CallRestore0, Effect
    <3>2. AtRestore' /\ s0' = OldS0
      BY <1>3, <1>5, <2>10, <3>1 DEF CallRestore0, AtRestore
    <3> QED
      BY <2>2, <3>1, <3>2 DEF Reads, ReadBasis, Calling
  <2>11. CASE CallRestore1
    <3>1. cmderr = "none" /\ pc' = "done" /\ s1 = OldS1 /\ Clean'
      BY <1>1, <1>7, <2>11, Parts DEF CallRestore1, Effect
    <3>2. AtRestore' /\ s0' = OldS0 /\ s1' = OldS1
      BY <1>3, <1>5, <2>11, <3>1 DEF CallRestore1, AtRestore
    <3> QED
      BY <2>2, <3>1, <3>2 DEF Reads, ReadBasis, Calling
  <2> QED
    BY <2>1, <2>5, <2>6, <2>7, <2>8, <2>9, <2>10, <2>11 DEF ReadCall, CallS1
<1>9. CASE job.op = "write"
  <2>1. WriteCall
    BY <1>1, <1>9 DEF Inv, Writes, Calling, WriteCall
  <2>2. WriteBasis /\ WriteBasis'
    BY <1>2, <1>3, <1>9, BasisKept
  <2>3. (Storing => Storing') /\ UNCHANGED Finished
    BY <1>2, <1>3, <1>5 DEF Storing, Finished
  <2>4. SUFFICES Writes'
    BY <1>2, <1>4, <1>9 DEF Inv
  <2>5. ASSUME CallSetUp \/ CallAgain \/ CallWRestore1 \/ CallWRestore0
        PROVE  cmderr = "none" /\ Effect /\ Clean' /\ Called
    <3>1. call.command \notin {"load", "store"} /\ Called
      BY <2>5, Calls DEF CallSetUp, CallAgain, CallWRestore1, CallWRestore0
    <3> QED
      BY <1>7, <3>1
  <2>6. CASE CallSetUp
    <3>1. pc' = "first store" /\ s0 = at /\ cmderr = "none" /\ Clean'
      BY <1>1, <2>5, <2>6, Calls DEF Effect
    <3>2. Begun = Ahead /\ Beyond \in Nat /\ Ahead \in Nat
      BY <1>1, Counts, Regions DEF InFlight
    <3>3. Storing' /\ at' = Ahead' /\ at' < Beyond' /\ result' = "ok"
      <4>1. at = Ahead /\ at < Beyond /\ result = "ok"
        BY <2>6 DEF CallSetUp
      <4>2. s0' = Ahead' /\ Begun' <= Beyond'
        <5>1. Begun' = Ahead /\ Beyond' = Beyond /\ Ahead' = Ahead /\ s0' = at
          BY <1>3, <1>5, <3>1, <3>2
        <5> QED
          BY <3>2, <4>1, <5>1
      <4> QED
        BY <1>2, <1>5, <4>1, <4>2 DEF Storing
    <3> QED
      BY <2>2, <3>1, <3>3 DEF Writes, WriteBasis, Calling
  <2>7. CASE CallStore
    <3>1. Clean' /\ command = call.command
      BY <1>7, <2>7 DEF CallStore
    <3>2. CASE cmderr = "none"
      <4>1. pc' = "stored" /\ command' = "store"
        BY <1>1, <1>3, <2>7, <3>1, <3>2, Calls
      <4>2. Storing' /\ Ahead' = at' + 1 /\ result' = "ok"
        BY <1>2, <1>5, <1>6, <2>3, <2>7, <3>2 DEF CallStore
      <4> QED
        BY <2>2, <3>1, <4>1, <4>2 DEF Writes, WriteBasis, Calling
    <3>3. CASE cmderr # "none"
      <4>1. pc' = "write failed"
        BY <1>1, <2>7, <3>3, Calls
      <4>2. at \in Region /\ ~Accessible(at)
        <5>1. at = Ahead /\ at < Beyond /\ ~Accessible(at)
          BY <1>6, <2>7, <3>3 DEF CallStore
        <5>2. at \in Nat /\ at >= job.address /\ job.address \in Nat /\ job.count \in Nat
          <6>1. Ahead = job.address + Len(bus) /\ Len(bus) \in Nat
            BY <1>1, Counts
          <6>2. job.address \in Nat /\ job.count \in Nat
            BY <1>1, Regions
          <6> QED
            BY <5>1, <6>1, <6>2
        <5> QED
          BY <5>1, <5>2 DEF Region, Beyond
      <4>3. Faulty' /\ result' = "ok"
        BY <1>2, <1>5, <2>7, <4>2 DEF CallStore, Faulty
      <4> QED
        BY <1>6, <2>2, <4>1, <4>3 DEF Writes, WriteBasis, Calling
    <3> QED
      BY <3>2, <3>3
  <2>8. CASE CallAgain
    <3>1. call.command = "read s0" /\ cmderr = "none" /\ Effect /\ Clean' /\ Called
      BY <2>5, <2>8, Calls
    <3>2. pc' = "result" /\ Called'
      BY <1>1, <1>2, <1>3, <1>6, <3>1 DEF Called, Effect, Clean
    <3>3. CallAgain'
      BY <1>2, <2>3, <2>8, <3>2 DEF CallAgain, Issued
    <3> QED
      BY <2>2, <3>2, <3>3 DEF Writes, WriteBasis, Calling
  <2>9. CASE CallWRestore1
    <3>1. pc' = "restored" /\ s1 = OldS1 /\ Clean'
      BY <1>1, <2>5, <2>9, Calls DEF Effect
    <3>2. Finished' /\ s1' = OldS1
      BY <1>3, <2>3, <2>9, <3>1 DEF CallWRestore1
    <3> QED
      BY <2>2, <3>1, <3>2 DEF Writes, WriteBasis, Calling
  <2>10. CASE CallWRestore0
    <3>1. pc' = "done" /\ s0 = OldS0 /\ Clean'
      BY <1>1, <2>5, <2>10, Calls DEF Effect
    <3>2. Finished' /\ s1' = OldS1 /\ s0' = OldS0
      BY <1>3, <2>3, <2>10, <3>1 DEF CallWRestore0
    <3> QED
      BY <2>2, <3>1, <3>2 DEF Writes, WriteBasis, Calling
  <2> QED
    BY <2>1, <2>6, <2>7, <2>8, <2>9, <2>10 DEF WriteCall
<1> QED
  BY <1>1, <1>8, <1>9, Regions

LEMMA ResultStep ==
  ASSUME Inv, Result
  PROVE  Inv'
<1>1. Types /\ pc = "result" /\ pc' = call.ok /\ value' = Seen /\ ReadData0
      /\ UNCHANGED call /\ UNCHANGED <<burst, output, account>>
  BY DEF Inv, Result, Quiet
<1>2. UNCHANGED <<call, at, got, next, ignoreLast, saved>>
      /\ UNCHANGED <<buffer, outside, job, word, result, delay>>
  BY <1>1 DEF burst, output, account
<1>3. CASE job.op = "read"
  <2>1. ReadCall /\ (word # None => Before)
    BY <1>1, <1>3 DEF Inv, Reads, Calling, ReadCall
  <2>2. CallS0 \/ (CallS1 /\ Called /\ IF word = None THEN Ended ELSE AWord)
    <3>1. ReadCall => Called \/ CallS1
      BY DEF ReadCall, CallStart, CallLoad, CallS0, CallRestore0, CallRestore1
    <3>2. Called => call.command \in {"read s0", "read s1"}
      BY <1>1 DEF Called
    <3>3. CallS1 => Called /\ IF word = None THEN Ended ELSE AWord
      BY <1>1 DEF CallS1
    <3>4. CallStart \/ CallLoad \/ CallRestore0 \/ CallRestore1 => call.command \notin {"read s0", "read s1"}
      BY Calls
    <3> QED
      BY <2>1, <3>1, <3>2, <3>3, <3>4 DEF ReadCall
  <2>3. Quiescent /\ ~auto /\ Effect
    BY <1>1, <2>2 DEF Called, CallS0
  <2>4. UNCHANGED hart /\ value' = data0 /\ running = FALSE /\ running' = FALSE
    BY <1>1, <2>3, WhenIdle DEF Quiescent, hart, Types, HartTypes
  <2>5. UNCHANGED <<data0, s0, s1, command, running, cmderr, auto, mem, bus>>
    BY <2>4 DEF hart
  <2>6. Types'
    <3>1. HartTypes'
      BY <1>1, ModuleTypes
    <3>2. pc' \in Labels /\ value' \in Values
      BY <1>1, <2>4 DEF Types, HartTypes, DebuggerTypes
    <3> QED
      BY <1>1, <1>2, <3>1, <3>2 DEF Types, DebuggerTypes, Region, None
  <2>7. UNCHANGED <<Base, Fin, Size, Want, Beyond, Ahead, Begun, Region, Stuck, AWord>>
    BY <1>2, <2>5 DEF Base, Size, Fin, Want, Beyond, Ahead, Begun, InFlight, Region, Accessible,
       Stuck, AWord
  <2>8. ReadBasis' /\ (word' # None => Before') /\ Clean'
    BY <1>2, <1>3, <2>1, <2>3, <2>5, BasisKept DEF Clean, Quiescent
  <2>9. Sync => Sync'
    BY <1>2, <2>5, <2>7 DEF Sync, Accessible
  <2>10. SUFFICES Reads'
    BY <1>2, <1>3, <2>6 DEF Inv
  <2>11. CASE CallS0
    <3>1. pc' = "resume" /\ data0 = s0
      BY <1>1, <2>3, <2>11, Calls DEF Effect
    <3>2. Saved'
      BY <1>2, <2>5, <2>7, <2>9, <2>11 DEF CallS0, Saved, Unfinished, Bursting, Filled, GoodTo
    <3>3. s0 = Ahead
      BY <2>11 DEF CallS0, Saved, Unfinished, Bursting, Sync
    <3>4. AtResume'
      BY <2>4, <2>7, <2>8, <3>1, <3>2, <3>3 DEF AtResume
    <3> QED
      BY <2>8, <3>1, <3>4 DEF Reads, ReadBasis, Calling
  <2>12. CASE CallS1 /\ Called /\ IF word = None THEN Ended ELSE AWord
    <3>1. pc' = "store last" /\ data0 = s1
      BY <1>1, <2>3, <2>12, Calls DEF Effect
    <3>2. IF word' = None THEN Ended' ELSE AWord'
      BY <1>2, <2>7, <2>9, <2>12 DEF Ended, Filled
    <3>3. s1 = Content[Fin - 1]
      <4>1. CASE word = None
        <5>1. Sync /\ Ahead = Beyond /\ Fin = Beyond
          BY <1>1, <2>12, <4>1, Regions DEF Ended
        <5>2. Len(bus) >= 1
          <6>1. Len(bus) \in Nat /\ Ahead = job.address + Len(bus)
            BY <1>1, Counts
          <6>2. job.address \in Nat /\ job.count \in Nat \ {0}
            BY <1>1, Regions
          <6> QED
            BY <5>1, <6>1, <6>2 DEF Beyond
        <5> QED
          BY <5>1, <5>2 DEF Sync
      <4>2. CASE word # None
        <5>1. Fin = Base + 1 /\ Base \in Nat
          BY <1>1, <4>2, Regions
        <5>2. Fin - 1 = Base
          BY <5>1
        <5> QED
          BY <2>12, <4>2, <5>2 DEF AWord
      <4> QED
        BY <4>1, <4>2
    <3>4. AtStoreLast'
      BY <1>2, <2>4, <2>7, <2>8, <3>1, <3>2, <3>3 DEF AtStoreLast
    <3> QED
      BY <2>8, <3>1, <3>4 DEF Reads, ReadBasis, Calling
  <2> QED
    BY <2>2, <2>11, <2>12
<1>4. CASE job.op = "write"
  <2>1. WriteCall
    BY <1>1, <1>4 DEF Inv, Writes, Calling, WriteCall
  <2>2. CallAgain
    <3>1. Called
      BY <2>1 DEF WriteCall, CallSetUp, CallStore, CallAgain, CallWRestore1, CallWRestore0
    <3>2. call.command \in {"read s0", "read s1"}
      BY <1>1, <3>1 DEF Called
    <3>3. CallSetUp \/ CallStore \/ CallWRestore1 \/ CallWRestore0
            => call.command \notin {"read s0", "read s1"}
      BY Calls
    <3> QED
      BY <2>1, <3>2, <3>3 DEF WriteCall
  <2>3. Quiescent /\ ~auto /\ Effect /\ Storing /\ result = "ok"
    BY <1>1, <2>2 DEF Called, CallAgain
  <2>4. UNCHANGED hart /\ value' = data0 /\ running = FALSE /\ running' = FALSE
    BY <1>1, <2>3, WhenIdle DEF Quiescent, hart, Types, HartTypes
  <2>5. UNCHANGED <<data0, s0, s1, command, running, cmderr, auto, mem, bus>>
    BY <2>4 DEF hart
  <2>6. Types'
    <3>1. HartTypes'
      BY <1>1, ModuleTypes
    <3>2. pc' \in Labels /\ value' \in Values
      BY <1>1, <2>4 DEF Types, HartTypes, DebuggerTypes
    <3> QED
      BY <1>1, <1>2, <3>1, <3>2 DEF Types, DebuggerTypes, Region, None
  <2>7. UNCHANGED <<Beyond, Ahead>> /\ Begun = Ahead
    BY <1>2, <2>4, <2>5 DEF Beyond, Ahead, Begun, InFlight
  <2>8. WriteBasis' /\ Clean'
    BY <1>2, <1>4, <2>3, <2>5, BasisKept DEF Clean, Quiescent
  <2>9. pc' = "write again" /\ value' = Ahead' /\ Ahead' <= Beyond' /\ result' = "ok"
    BY <1>1, <1>2, <2>2, <2>3, <2>4, <2>7, Calls DEF Effect, Storing
  <2>10. Writes'
    BY <2>8, <2>9 DEF Writes, WriteBasis, Calling
  <2> QED
    BY <1>2, <1>4, <2>6, <2>10 DEF Inv
<1> QED
  BY <1>1, <1>3, <1>4, Regions

-----------------------------------------------------------------------------
(* Steps that begin a call. *)

\* Nothing but the call changes.
LEMMA Begins ==
  ASSUME Inv, Plain, pc' \in {"argument", "command"},
         NEW c \in Commands, NEW v \in Nat, NEW ok \in Labels, NEW fail \in Labels, Call(c, v, ok, fail)
  PROVE  /\ Types' /\ call' = [command |-> c, value |-> v, ok |-> ok, fail |-> fail]
         /\ UNCHANGED <<data0, s0, s1, command, running, cmderr, auto, mem, bus>>
         /\ UNCHANGED <<value, at, got, next, ignoreLast, saved>>
         /\ UNCHANGED <<buffer, outside, job, word, result, delay>>
         /\ UNCHANGED <<Base, Size, Fin, Beyond, Ahead, Begun, Region, Faulty, Stuck, AWord, Clean, Quiescent>>
         /\ UNCHANGED <<Before, All, Finished, Storing, Sync, Ended, Ending>>
         /\ (job.op = "read" => ReadBasis') /\ (job.op = "write" => WriteBasis')
         /\ Clean /\ (pc' = "argument" => Puts(c)) /\ (pc' = "command" => ~Puts(c)) => Called'
<1>1. /\ UNCHANGED <<data0, s0, s1, command, running, cmderr, auto, mem, bus>>
      /\ UNCHANGED <<value, at, got, next, ignoreLast, saved>>
      /\ UNCHANGED <<buffer, outside, job, word, result, delay>>
  BY DEF Plain, hart, burst, output, account
<1>2. call' = [command |-> c, value |-> v, ok |-> ok, fail |-> fail]
  BY DEF Call
<1>3. call'.command = c
  BY <1>2
<1>4. Types'
  <2>1. call' \in [command : Commands, value : Nat, ok : Labels, fail : Labels]
    BY <1>2
  <2>2. pc' \in Labels
    BY DEF Labels
  <2>3. HartTypes'
    BY <1>1 DEF Inv, Types, HartTypes
  <2> QED
    BY <1>1, <2>1, <2>2, <2>3 DEF Inv, Types, DebuggerTypes, Region, None
<1>5. UNCHANGED <<Base, Size, Fin, Beyond, Ahead, Begun, Region, Faulty, Stuck, AWord, Clean, Quiescent>>
  BY <1>1 DEF Base, Size, Fin, Beyond, Ahead, Begun, InFlight, Region, Faulty, Stuck, AWord, Clean,
     Quiescent, Accessible
<1>6. UNCHANGED <<Before, All, Finished, Storing, Sync, Ended, Ending>>
  BY <1>1, <1>5 DEF Before, All, Right, Accessible, Finished, Storing, Sync, Ended, Ending, Filled
<1>7. (job.op = "read" => ReadBasis') /\ (job.op = "write" => WriteBasis')
  BY <1>1, BasisKept
<1>8. Clean /\ (pc' = "argument" => Puts(c)) /\ (pc' = "command" => ~Puts(c)) => Called'
  BY <1>1, <1>3, <1>5 DEF Called, Clean
<1> QED
  BY <1>1, <1>2, <1>4, <1>5, <1>6, <1>7, <1>8

LEMMA StartStep ==
  ASSUME Inv, Start
  PROVE  Inv'
<1>1. pc = "start" /\ pc' = "argument" /\ Call("write s0", Base, "first", "failed") /\ Plain
  BY DEF Start, ExecuteWith
<1>2. Types /\ job.op = "read"
  BY <1>1, Regions DEF Inv, Writes
<1>3. Reads /\ Base \in Nat
  BY <1>2, Regions DEF Inv
<1>4. Clean /\ (word = None => bus = <<>>) /\ (word # None => Before)
  BY <1>1, <1>3 DEF Reads, AtStart
<1>5. "write s0" \in Commands /\ "first" \in Labels /\ "failed" \in Labels /\ Puts("write s0")
  BY DEF Commands, Labels, Puts
<1>6. /\ Types' /\ Called'
      /\ call' = [command |-> "write s0", value |-> Base, ok |-> "first", fail |-> "failed"]
      /\ UNCHANGED <<bus, job, word, Base, Before>> /\ ReadBasis'
  BY <1>1, <1>2, <1>3, <1>4, <1>5, Begins
<1>7. CallStart'
  BY <1>4, <1>6 DEF CallStart, Issued
<1>8. Reads'
  BY <1>1, <1>4, <1>6, <1>7 DEF Reads, ReadBasis, Calling
<1> QED
  BY <1>2, <1>6, <1>8 DEF Inv

LEMMA FirstLoadStep ==
  ASSUME Inv, FirstLoad
  PROVE  Inv'
<1> DEFINE ok == IF Size = 1 THEN "last word" ELSE "autoexec"
<1>1. pc = "first" /\ pc' = "command" /\ Call("load", 0, ok, "failed") /\ Plain
  BY DEF FirstLoad, Execute
<1>2. Types /\ job.op = "read"
  BY <1>1, Regions DEF Inv, Writes
<1>3. Reads /\ ok = IF word = None THEN "autoexec" ELSE "last word"
  <2>1. Size = 1 <=> word # None
    BY <1>2, Regions DEF Size
  <2> QED
    BY <1>2, <2>1 DEF Inv
<1>4. Clean /\ s0 = Base /\ (word = None => bus = <<>>) /\ (word # None => Before)
  BY <1>1, <1>3 DEF Reads, AtFirst
<1>5. "load" \in Commands /\ ok \in Labels /\ "failed" \in Labels /\ ~Puts("load")
  BY DEF Commands, Labels, Puts
<1>6. /\ Types' /\ Called'
      /\ call' = [command |-> "load", value |-> 0, ok |-> ok, fail |-> "failed"]
      /\ UNCHANGED <<bus, s0, job, word, Base, Before>> /\ ReadBasis'
  BY <1>1, <1>2, <1>3, <1>4, <1>5, Begins
<1>7. CallLoad'
  BY <1>1, <1>3, <1>4, <1>6 DEF CallLoad, Issued, Returned
<1>8. Reads'
  BY <1>1, <1>4, <1>6, <1>7 DEF Reads, ReadBasis, Calling
<1> QED
  BY <1>2, <1>6, <1>8 DEF Inv

LEMMA LastWordStep ==
  ASSUME Inv, LastWord
  PROVE  Inv'
<1> DEFINE fail == IF Size = 1 THEN "failed" ELSE "error"
<1>1. pc = "last word" /\ pc' = "command" /\ Call("read s1", 0, "store last", fail) /\ Plain
  BY DEF LastWord, Execute
<1>2. Types /\ job.op = "read"
  BY <1>1, Regions DEF Inv, Writes
<1>3. Reads /\ fail = IF word = None THEN "error" ELSE "failed"
  <2>1. Size = 1 <=> word # None
    BY <1>2, Regions DEF Size
  <2> QED
    BY <1>2, <2>1 DEF Inv
<1>4. AtLastWord /\ (word # None => Before)
  BY <1>1, <1>3 DEF Reads
<1>5. "read s1" \in Commands /\ "store last" \in Labels /\ fail \in Labels /\ ~Puts("read s1")
  BY DEF Commands, Labels, Puts
<1>6. /\ Types' /\ (Clean => Called')
      /\ call' = [command |-> "read s1", value |-> 0, ok |-> "store last", fail |-> fail]
      /\ UNCHANGED <<cmderr, job, word, AWord, Ended, Ending, Before>> /\ ReadBasis'
  BY <1>1, <1>2, <1>3, <1>5, Begins
<1>7. \/ Clean /\ IF word = None THEN Ended ELSE AWord
      \/ Ending /\ cmderr # "none"
  BY <1>4 DEF AtLastWord, Ending
<1>8. CallS1'
  BY <1>1, <1>3, <1>6, <1>7 DEF CallS1, Issued
<1>9. Reads'
  BY <1>1, <1>4, <1>6, <1>8 DEF Reads, ReadBasis, Calling
<1> QED
  BY <1>2, <1>6, <1>9 DEF Inv

LEMMA SetUpStep ==
  ASSUME Inv, SetUp
  PROVE  Inv'
<1>1. pc = "set up" /\ at < Fin /\ pc' = "argument" /\ Plain
      /\ Call("write s0", at, "first store", "write failed")
  BY DEF SetUp, ExecuteWith
<1>2. Types /\ job.op = "write"
  BY <1>1, Regions DEF Inv, Reads
<1>3. Writes /\ Ahead \in Nat
  BY <1>2, Counts DEF Inv
<1>4. Clean /\ at = Ahead /\ result = "ok" /\ word = None
  BY <1>1, <1>3 DEF Writes, Calling
<1>5. at < Beyond /\ at \in Nat
  BY <1>1, <1>2, <1>3, <1>4, Regions
<1>6. "write s0" \in Commands /\ "first store" \in Labels /\ "write failed" \in Labels /\ Puts("write s0")
  BY DEF Commands, Labels, Puts
<1>7. /\ Types' /\ Called'
      /\ call' = [command |-> "write s0", value |-> at, ok |-> "first store", fail |-> "write failed"]
      /\ UNCHANGED <<at, result, job, Ahead, Beyond>> /\ WriteBasis'
  BY <1>1, <1>2, <1>4, <1>5, <1>6, Begins
<1>8. CallSetUp'
  BY <1>4, <1>5, <1>7 DEF CallSetUp, Issued
<1>9. Writes'
  BY <1>1, <1>7, <1>8 DEF Writes, WriteBasis, Calling
<1> QED
  BY <1>2, <1>7, <1>9 DEF Inv

LEMMA FirstStoreStep ==
  ASSUME Inv, FirstStore
  PROVE  Inv'
<1>1. pc = "first store"
  BY DEF FirstStore
<1>2. pc' = "argument" /\ Plain /\ Call("store", Data[at], "stored", "write failed")
  BY DEF FirstStore, ExecuteWith
<1>3. Types /\ job.op = "write"
  BY <1>1, Regions DEF Inv, Reads
<1>4. Writes
  BY <1>3 DEF Inv
<1>5. Clean /\ Storing /\ at = Ahead /\ at < Beyond /\ result = "ok"
  BY <1>1, <1>4 DEF Writes, Calling
<1>6. Data[at] \in Nat
  <2>1. at \in Addresses
    BY <1>3, <1>5, Counts, Regions DEF Addresses, Beyond
  <2> QED
    BY <1>3, <2>1, Contents
<1>7. "store" \in Commands /\ "stored" \in Labels /\ "write failed" \in Labels /\ Puts("store")
  BY DEF Commands, Labels, Puts
<1>8. /\ Types' /\ Called'
      /\ call' = [command |-> "store", value |-> Data[at], ok |-> "stored", fail |-> "write failed"]
      /\ UNCHANGED <<at, result, job, Ahead, Beyond, Storing>> /\ WriteBasis'
  BY <1>2, <1>3, <1>5, <1>6, <1>7, Begins
<1>9. CallStore'
  BY <1>2, <1>5, <1>8 DEF CallStore, Issued, Returned
<1>10. Writes'
  BY <1>2, <1>8, <1>9 DEF Writes, WriteBasis, Calling
<1> QED
  BY <1>3, <1>8, <1>10 DEF Inv

LEMMA RestoreFirstStep ==
  ASSUME Inv, RestoreFirst
  PROVE  Inv'
<1>1. Types /\ pc = "restore" /\ OldS0 \in Nat /\ OldS1 \in Nat
  BY ValueAssumption DEF Inv, RestoreFirst
<1>2. /\ {"write s0", "write s1"} \subseteq Commands /\ Puts("write s0") /\ Puts("write s1")
      /\ {"restored", "unrestored"} \subseteq Labels
  BY DEF Commands, Labels, Puts
<1>3. CASE job.op = "read"
  <2>1. pc' = "argument" /\ Plain /\ Call("write s0", OldS0, "restored", "restored")
    BY <1>3 DEF RestoreFirst, ExecuteWith
  <2>2. Clean /\ All
    BY <1>1, <1>3 DEF Inv, Reads, AtRestore
  <2>3. /\ Types' /\ Called'
        /\ call' = [command |-> "write s0", value |-> OldS0, ok |-> "restored", fail |-> "restored"]
        /\ UNCHANGED <<job, All, word, buffer, Before>> /\ ReadBasis'
    BY <1>1, <1>2, <1>3, <2>1, <2>2, Begins
  <2>4. CallRestore0' /\ Before'
    BY <2>2, <2>3 DEF CallRestore0, Issued, Before, All
  <2>5. Reads'
    BY <2>1, <2>3, <2>4 DEF Reads, ReadBasis, Calling
  <2> QED
    BY <1>3, <2>3, <2>5 DEF Inv
<1>4. CASE job.op = "write"
  <2>1. pc' = "argument" /\ Plain /\ Call("write s1", OldS1, "restored", "unrestored")
    BY <1>4 DEF RestoreFirst, ExecuteWith
  <2>2. Clean /\ Finished
    BY <1>1, <1>4 DEF Inv, Writes
  <2>3. /\ Types' /\ Called'
        /\ call' = [command |-> "write s1", value |-> OldS1, ok |-> "restored", fail |-> "unrestored"]
        /\ UNCHANGED <<job, Finished>> /\ WriteBasis'
    BY <1>1, <1>2, <1>4, <2>1, <2>2, Begins
  <2>4. CallWRestore1'
    BY <2>2, <2>3 DEF CallWRestore1, Issued
  <2>5. Writes'
    BY <2>1, <2>3, <2>4 DEF Writes, WriteBasis, Calling
  <2> QED
    BY <1>4, <2>3, <2>5 DEF Inv
<1> QED
  BY <1>1, <1>3, <1>4, Regions

LEMMA RestoreSecondStep ==
  ASSUME Inv, RestoreSecond
  PROVE  Inv'
<1>1. Types /\ pc = "restored" /\ OldS0 \in Nat /\ OldS1 \in Nat
  BY ValueAssumption DEF Inv, RestoreSecond
<1>2. /\ {"write s0", "write s1"} \subseteq Commands /\ Puts("write s0") /\ Puts("write s1")
      /\ {"done", "unrestored"} \subseteq Labels
  BY DEF Commands, Labels, Puts
<1>3. CASE job.op = "read"
  <2>1. pc' = "argument" /\ Plain /\ Call("write s1", OldS1, "done", "done")
    BY <1>3 DEF RestoreSecond, ExecuteWith
  <2>2. Clean /\ All /\ s0 = OldS0
    BY <1>1, <1>3 DEF Inv, Reads, AtRestore
  <2>3. /\ Types' /\ Called'
        /\ call' = [command |-> "write s1", value |-> OldS1, ok |-> "done", fail |-> "done"]
        /\ UNCHANGED <<job, All, s0, Before>> /\ ReadBasis'
    BY <1>1, <1>2, <1>3, <2>1, <2>2, Begins
  <2>4. CallRestore1' /\ Before'
    BY <2>2, <2>3 DEF CallRestore1, Issued, Before, All
  <2>5. Reads'
    BY <2>1, <2>3, <2>4 DEF Reads, ReadBasis, Calling
  <2> QED
    BY <1>3, <2>3, <2>5 DEF Inv
<1>4. CASE job.op = "write"
  <2>1. pc' = "argument" /\ Plain /\ Call("write s0", OldS0, "done", "unrestored")
    BY <1>4 DEF RestoreSecond, ExecuteWith
  <2>2. Clean /\ Finished /\ s1 = OldS1
    BY <1>1, <1>4 DEF Inv, Writes
  <2>3. /\ Types' /\ Called'
        /\ call' = [command |-> "write s0", value |-> OldS0, ok |-> "done", fail |-> "unrestored"]
        /\ UNCHANGED <<job, Finished, s1>> /\ WriteBasis'
    BY <1>1, <1>2, <1>4, <2>1, <2>2, Begins
  <2>4. CallWRestore0'
    BY <2>2, <2>3 DEF CallWRestore0, Issued
  <2>5. Writes'
    BY <2>1, <2>3, <2>4 DEF Writes, WriteBasis, Calling
  <2> QED
    BY <1>4, <2>3, <2>5 DEF Inv
<1> QED
  BY <1>1, <1>3, <1>4, Regions

-----------------------------------------------------------------------------
(* Reading: the burst. *)

\* Predicates a step keeps that leaves the hart's registers and these variables alone.
LEMMA Same ==
  ASSUME UNCHANGED <<s0, s1, bus, mem, job, word>>
  PROVE  /\ UNCHANGED <<Base, Size, Fin, Beyond, Ahead, Region, Faulty, Stuck, AWord>>
         /\ UNCHANGED at => UNCHANGED Want
         /\ UNCHANGED buffer => UNCHANGED <<Before, All>> /\ \A n : Filled(n) => Filled(n)'
         /\ UNCHANGED <<at, got>> => \A n : GoodTo(n) => GoodTo(n)'
         /\ UNCHANGED <<running, command>> => UNCHANGED <<Begun, Sync>>
<1>1. UNCHANGED <<Base, Size, Fin, Beyond, Ahead, Region, Faulty, Stuck, AWord>>
  BY DEF Base, Size, Fin, Beyond, Ahead, Region, Faulty, Stuck, AWord, Accessible
<1>2. UNCHANGED at => UNCHANGED Want
  BY <1>1 DEF Want
<1>3. UNCHANGED buffer => UNCHANGED <<Before, All>> /\ \A n : Filled(n) => Filled(n)'
  BY <1>1 DEF Before, All, Right, Accessible, Filled
<1>4. UNCHANGED <<at, got>> => \A n : GoodTo(n) => GoodTo(n)'
  BY <1>1 DEF GoodTo
<1>5. UNCHANGED <<running, command>> => UNCHANGED <<Begun, Sync>>
  BY <1>1 DEF Begun, InFlight, Sync, Accessible
<1> QED
  BY <1>1, <1>2, <1>3, <1>4, <1>5

LEMMA AutoexecStep ==
  ASSUME Inv, Autoexec
  PROVE  Inv'
<1>1. pc = "autoexec" /\ pc' = "kick" /\ WriteAuto(TRUE) /\ UNCHANGED <<control, burst, output, account>>
  BY DEF Autoexec, Quiet
<1>2. Types /\ job.op = "read"
  BY <1>1, Regions DEF Inv, Writes
<1>3. Clean /\ command = "load" /\ word = None /\ Len(bus) = 1 /\ Sync
  BY <1>1, <1>2 DEF Inv, Reads, AtAutoexec
<1>4. UNCHANGED <<data0, s0, s1, command, running, cmderr, mem, bus>> /\ auto' = TRUE
  BY <1>1, <1>2, <1>3, WhenIdle DEF Clean
<1>5. UNCHANGED <<job, word, outside, result>>
  BY <1>1 DEF output, account
<1>6. Types'
  <2>1. HartTypes' /\ pc' \in Labels
    BY <1>1, <1>2, ModuleTypes DEF Labels
  <2> QED
    BY <1>1, <1>2, <2>1, OnlyPlace
<1>7. AtKick'
  BY <1>3, <1>4, <1>5, Same DEF AtKick, Clean, Quiescent
<1>8. ReadBasis'
  BY <1>2, <1>4, <1>5, BasisKept
<1>9. Reads'
  BY <1>1, <1>3, <1>5, <1>7, <1>8 DEF Reads, ReadBasis, Calling
<1> QED
  BY <1>2, <1>5, <1>6, <1>9 DEF Inv

LEMMA KickStep ==
  ASSUME Inv, Kick
  PROVE  Inv'
<1>1. /\ pc = "kick" /\ pc' = "burst" /\ ReadData0 /\ at' = Base + 2
      /\ UNCHANGED <<call, value, got, next, ignoreLast, saved>>
      /\ UNCHANGED <<buffer, outside, job, word, result, delay>>
  BY DEF Kick, control, output, account
<1>2. Types /\ job.op = "read"
  BY <1>1, Regions DEF Inv, Writes
<1>3. Quiescent /\ auto /\ command = "load" /\ word = None /\ Len(bus) = 1 /\ Sync
  BY <1>1, <1>2 DEF Inv, Reads, AtKick
<1>4. UNCHANGED <<data0, s0, s1, command, cmderr, auto, mem, bus>> /\ running' = auto
  BY <1>1, <1>2, <1>3, WhenIdle
<1>5. Base = job.address /\ job.address \in Nat /\ Ahead = job.address + 1 /\ Beyond \in Nat
      /\ Beyond >= job.address + 2
  <2>1. Base = job.address /\ job.address \in Nat /\ job.count \in Nat /\ job.count >= 2
    BY <1>2, <1>3, Regions
  <2> QED
    BY <1>2, <1>3, <2>1, Counts DEF Beyond
<1>6. Types'
  <2>1. HartTypes' /\ pc' \in Labels
    BY <1>1, <1>2, ModuleTypes DEF Labels
  <2>2. at' \in Int
    BY <1>1, <1>5
  <2> QED
    BY <1>1, <1>2, <2>1, <2>2 DEF Types, DebuggerTypes, Region, None
<1>7. UNCHANGED <<Ahead, Beyond, Stuck>> /\ job'.address = job.address
  BY <1>1, <1>4, Same
<1>8. Begun' = Ahead + 1 /\ at' = job.address + 2 /\ running' = TRUE
  BY <1>1, <1>2, <1>3, <1>4, <1>5, <1>7 DEF Begun, InFlight, Types, HartTypes
<1>9. Sync'
  BY <1>1, <1>3, <1>4, <1>5, <1>7, <1>8 DEF Sync, Accessible
<1>10. Filled(at - 3)'
  BY <1>1, <1>5, <1>8 DEF Filled, Region
<1>11. Bursting'
  <2>1. at' <= Begun' /\ at' >= job'.address + 2 /\ at' <= Beyond'
    BY <1>5, <1>7, <1>8
  <2>2. word' = None /\ Len(bus') >= 1
    BY <1>1, <1>3, <1>4
  <2> QED
    BY <1>9, <1>10, <2>1, <2>2 DEF Bursting
<1>12. AtBurst'
  BY <1>3, <1>4, <1>5, <1>8, <1>11 DEF AtBurst, Fresh
<1>13. ReadBasis'
  BY <1>1, <1>2, <1>4, BasisKept
<1>14. Reads'
  BY <1>1, <1>3, <1>12, <1>13 DEF Reads, ReadBasis, Calling
<1> QED
  BY <1>1, <1>2, <1>6, <1>14 DEF Inv

LEMMA ReadBatchStep ==
  ASSUME Inv, ReadBatch
  PROVE  Inv'
<1>1. pc = "burst" /\ at < Fin /\ got' = <<>> /\ pc' = "batch"
      /\ UNCHANGED <<hart, call, value, at, next, ignoreLast, saved>>
      /\ UNCHANGED <<buffer, outside, job, word, result, delay>>
  BY DEF ReadBatch, NewBatch, control, output, account
<1>2. Types /\ job.op = "read"
  BY <1>1, Regions DEF Inv, Writes
<1>3. AtBurst /\ word = None /\ Fin = Beyond
  BY <1>1, <1>2, Regions DEF Inv, Reads, AtBurst, Bursting
<1>4. UNCHANGED <<data0, s0, s1, command, running, cmderr, auto, mem, bus>>
  BY <1>1 DEF hart
<1>5. Types'
  <2>1. HartTypes' /\ pc' \in Labels /\ got' \in Seq(Int)
    BY <1>1, <1>2, ModuleTypes DEF Labels
  <2> QED
    BY <1>1, <1>2, <2>1 DEF Types, DebuggerTypes, Region, None
<1>6. UNCHANGED <<Ahead, Beyond, Stuck, Want, Begun, Sync>> /\ \A n : Filled(n) => Filled(n)'
  BY <1>1, <1>4, Same
<1>7. Bursting' /\ Fresh'
  BY <1>1, <1>3, <1>4, <1>6 DEF AtBurst, Bursting, Fresh
<1>8. ~HasLost' /\ (\A n : GoodTo(n)') /\ Len(got') = 0
  BY <1>1 DEF HasLost, GoodTo
<1>9. at < Beyond /\ Want >= 1 /\ Want \in Int /\ at \in Int
  BY <1>1, <1>2, <1>3, Wants DEF Types, DebuggerTypes
<1>10. AtReadBatch'
  BY <1>1, <1>3, <1>4, <1>6, <1>7, <1>8, <1>9 DEF AtReadBatch, AtBurst
<1>11. ReadBasis'
  BY <1>1, <1>2, <1>4, BasisKept
<1>12. Reads'
  BY <1>1, <1>3, <1>10, <1>11 DEF Reads, ReadBasis, Calling
<1> QED
  BY <1>1, <1>2, <1>5, <1>12 DEF Inv

LEMMA AllReadStep ==
  ASSUME Inv, AllRead
  PROVE  Inv'
<1>1. pc = "burst" /\ at >= Fin /\ pc' = "penultimate" /\ WriteAuto(FALSE)
      /\ UNCHANGED <<control, burst, output, account>>
  BY DEF AllRead, Quiet
<1>2. Types /\ job.op = "read"
  BY <1>1, Regions DEF Inv, Writes
<1>3. AtBurst /\ word = None /\ Fin = Beyond /\ Sync /\ Len(bus) >= 1
  BY <1>1, <1>2, Regions DEF Inv, Reads, AtBurst, Bursting
<1>4. UNCHANGED <<data0, s0, s1, command, running, mem, bus>> /\ Busy
      /\ auto' \in {FALSE} \cup (IF running THEN {auto} ELSE {})
  BY <1>1 DEF WriteAuto
<1>5. UNCHANGED <<job, word, outside, result, buffer, at>>
  BY <1>1 DEF output, account, burst
<1>6. Types'
  <2>1. HartTypes' /\ pc' \in Labels
    BY <1>1, <1>2, ModuleTypes DEF Labels
  <2> QED
    BY <1>1, <1>2, <2>1, OnlyPlace
<1>7. UNCHANGED <<Ahead, Beyond, Stuck, Begun, Sync>> /\ \A n : Filled(n) => Filled(n)'
  BY <1>4, <1>5, Same
<1>8. ASSUME cmderr' = "none"
      PROVE  Clean' /\ Ahead = Beyond /\ Filled(Beyond - 3) /\ data0 = Content[Ahead - 2]
  <2>1. cmderr = "none" /\ ~running
    BY <1>4, <1>8 DEF Busy
  <2>2. Clean'
    BY <1>4, <1>8, <2>1 DEF Clean, Quiescent
  <2>3. Begun = Ahead /\ Ahead \in Nat /\ Beyond \in Nat /\ at \in Int
    BY <1>2, <2>1, Counts, Regions DEF InFlight, Types, DebuggerTypes
  <2>4. Ahead = at /\ Ahead = Beyond
    BY <1>1, <1>3, <2>1, <2>3 DEF AtBurst, Bursting
  <2>5. ~Stuck
    BY <2>3, <2>4 DEF Stuck
  <2>6. Filled(Beyond - 3)
    BY <1>3, <2>4, <2>5 DEF AtBurst, Bursting
  <2>7. Len(bus) >= 2
    <3>1. Len(bus) \in Nat /\ Ahead = job.address + Len(bus)
      BY <1>2, Counts
    <3>2. job.address \in Nat /\ job.count \in Nat /\ job.count >= 2
      BY <1>2, Regions
    <3> QED
      BY <2>4, <3>1, <3>2 DEF Beyond
  <2> QED
    BY <1>3, <2>1, <2>2, <2>4, <2>5, <2>6, <2>7 DEF AtBurst, Fresh
<1>9. AtPenultimate'
  <2>1. running => command = "load"
    BY <1>3 DEF AtBurst, Fresh
  <2>2. Ending'
    BY <1>3, <1>4, <1>5, <1>7, <1>8, <2>1 DEF Ending
  <2>3. Clean' => cmderr' = "none"
    BY DEF Clean, Quiescent
  <2> QED
    BY <1>4, <1>7, <1>8, <2>2, <2>3 DEF AtPenultimate
<1>10. ReadBasis'
  BY <1>2, <1>4, <1>5, BasisKept
<1>11. Reads'
  BY <1>1, <1>3, <1>5, <1>9, <1>10 DEF Reads, ReadBasis, Calling
<1> QED
  BY <1>2, <1>5, <1>6, <1>11 DEF Inv

\* An access of a batch of reads: it begins the next load, or the program was running and
\* the access is void, or there was an error.
LEMMA ReadAccess ==
  ASSUME Types, AtReadBatch, Len(got) < Want, ReadData0,
         UNCHANGED <<at, buffer, job, word>>
  PROVE  /\ Bursting' /\ Fresh' /\ UNCHANGED <<s0, s1, bus, mem, Ahead, Beyond, Stuck, Want>>
         /\ Begun' \in Nat /\ Begun' <= at + Len(got) + 1
         /\ cmderr' = "none" =>
              /\ cmderr = "none" /\ auto' /\ command' = "load" /\ ~running
              /\ Begun' = at + Len(got) + 1 /\ GoodTo(Len(got))
              /\ Stuck \/ data0 = Content[at + Len(got) - 2]
         /\ cmderr' = "busy" => Begun' <= at + Len(got) /\ GoodTo(Begun' - at)
<1>1. UNCHANGED <<data0, s0, s1, command, auto, mem, bus>> /\ Busy
      /\ running' = (running \/ (auto /\ cmderr = "none"))
  BY DEF ReadData0, Access
<1>2. UNCHANGED <<Ahead, Beyond, Stuck, Want>> /\ (Filled(at - 3) => Filled(at - 3)')
  BY <1>1, Same DEF Filled
<1>3. /\ Bursting /\ Fresh /\ Len(got) \in Nat /\ at \in Int /\ Want \in Int /\ ~HasLost
      /\ cmderr \in {"none", "busy", "exception"} /\ running \in BOOLEAN
      /\ Begun \in Nat /\ Ahead \in Nat /\ Beyond \in Nat /\ Want <= Beyond - at
  <2>1. word = None
    BY DEF AtReadBatch, Bursting
  <2>2. Fin = Beyond /\ Beyond \in Nat
    BY <2>1, Regions
  <2>3. Len(got) \in Nat /\ at \in Int /\ Want \in Int
    BY Wants DEF Types, DebuggerTypes
  <2> QED
    BY <2>2, <2>3, Wants, Counts DEF AtReadBatch, Types, HartTypes
<1>4. Begun <= at + Len(got) /\ word = None
      /\ (cmderr = "none" => auto /\ command = "load" /\ Begun = at + Len(got) /\ GoodTo(Len(got)))
      /\ (cmderr = "busy" => (got = <<>> \/ Begun < at + Len(got)) /\ GoodTo(Begun - at))
  BY <1>3 DEF AtReadBatch, Bursting
<1>5. CASE running \/ cmderr # "none"
  <2>1. running' = running /\ cmderr' # "none" /\ (cmderr' = "busy" => cmderr \in {"none", "busy"})
    BY <1>1, <1>3, <1>5 DEF Busy
  <2>2. UNCHANGED <<Begun, Sync>>
    BY <1>1, <2>1, Same
  <2>3. Bursting' /\ Fresh'
    BY <1>1, <1>2, <1>3, <2>1, <2>2 DEF Bursting, Fresh
  <2>4. cmderr' = "busy" => GoodTo(Begun - at)
    BY <1>3, <1>4, <2>1
  <2> QED
    BY <1>1, <1>2, <1>3, <1>4, <2>1, <2>2, <2>3, <2>4
<1>6. CASE ~running /\ cmderr = "none"
  <2>1. running' = TRUE /\ cmderr' = "none" /\ auto /\ command' = "load"
    BY <1>1, <1>4, <1>6 DEF Busy
  <2>2. Begun = Ahead /\ Begun' = Ahead + 1
    BY <1>1, <1>2, <1>3, <1>6, <2>1 DEF Begun, InFlight
  <2>3. Begun' <= Beyond /\ Begun' = at + Len(got) + 1
    BY <1>3, <1>4, <1>6, <2>2
  <2>4. Sync'
    <3>1. Sync
      BY <1>3 DEF Bursting
    <3> QED
      BY <1>1, <1>2, <2>3, <3>1 DEF Sync, Accessible
  <2>5. Bursting' /\ Fresh'
    BY <1>1, <1>2, <1>3, <2>1, <2>2, <2>4 DEF Bursting, Fresh
  <2>6. Stuck \/ data0 = Content[at + Len(got) - 2]
    <3>1. ASSUME ~Stuck
          PROVE  Len(bus) >= 2
      <4>1. at <= Begun /\ at >= job.address + 2
        BY <1>3, <3>1 DEF Bursting
      <4>2. Ahead = job.address + Len(bus) /\ Len(bus) \in Nat
        BY Counts
      <4>3. job.address \in Nat
        BY Regions
      <4>4. Begun = Ahead /\ at \in Int
        BY <1>3, <2>2
      <4> QED
        BY <4>1, <4>2, <4>3, <4>4
    <3>2. ~Stuck => data0 = Content[Ahead - 2]
      BY <1>3, <1>6, <3>1 DEF Fresh
    <3>3. Ahead - 2 = at + Len(got) - 2
      BY <1>3, <1>4, <1>6, <2>2
    <3> QED
      BY <3>2, <3>3
  <2> QED
    BY <1>1, <1>2, <1>3, <1>4, <1>6, <2>1, <2>2, <2>3, <2>5, <2>6
<1> QED
  BY <1>5, <1>6

LEMMA BatchAccessRead ==
  ASSUME Inv, BatchAccess, job.op = "read"
  PROVE  Inv'
<1>1. /\ pc = "batch" /\ pc' = "batch" /\ Len(got) < Want /\ ReadData0 /\ got' = Append(got, Seen)
      /\ UNCHANGED <<call, value, at, next, ignoreLast, saved>>
      /\ UNCHANGED <<buffer, outside, job, word, result, delay>>
  BY DEF BatchAccess, BatchRest, control, output, account
<1>2. Types /\ AtReadBatch /\ word = None
  BY <1>1 DEF Inv, Reads, AtReadBatch, Bursting
<1>3. Seen \in Int /\ Seen # Lost /\ (~running => Seen = data0)
  BY <1>2 DEF Seen, Types, HartTypes, Values, Lost, Garbage
<1>4. /\ got' \in Seq(Int) /\ Len(got') = Len(got) + 1 /\ Len(got) \in Nat /\ got \in Seq(Int)
      /\ \A k \in DOMAIN got' : k \in 1 .. Len(got) + 1 /\ (k <= Len(got) => k \in DOMAIN got)
      /\ \A k \in 1 .. Len(got) + 1 : got'[k] = IF k = Len(got) + 1 THEN Seen ELSE got[k]
  BY <1>1, <1>2, <1>3 DEF Types, DebuggerTypes
<1>5. Types'
  <2>1. HartTypes' /\ pc' \in Labels
    BY <1>1, <1>2, ModuleTypes DEF Labels
  <2> QED
    BY <1>1, <1>2, <1>4, <2>1 DEF Types, DebuggerTypes, Region, None
<1>6. /\ Bursting' /\ Fresh' /\ UNCHANGED <<s0, s1, bus, mem, Ahead, Beyond, Stuck, Want>>
      /\ Begun' \in Nat /\ Begun' <= at + Len(got) + 1
      /\ cmderr' = "none" =>
           /\ cmderr = "none" /\ auto' /\ command' = "load" /\ ~running
           /\ Begun' = at + Len(got) + 1 /\ GoodTo(Len(got))
           /\ Stuck \/ data0 = Content[at + Len(got) - 2]
      /\ cmderr' = "busy" => Begun' <= at + Len(got) /\ GoodTo(Begun' - at)
  BY <1>1, <1>2, ReadAccess
<1>7. Want \in Int /\ at \in Int /\ at < Beyond /\ ~HasLost
  BY <1>1, <1>2, <1>4, Wants DEF AtReadBatch, Types, DebuggerTypes
<1>8. ~HasLost'
  BY <1>3, <1>4, <1>7 DEF HasLost
<1>9. ASSUME NEW n \in Int, n <= Len(got), GoodTo(n)
      PROVE  GoodTo(n)'
  BY <1>1, <1>4, <1>6, <1>9 DEF GoodTo
<1>10. ASSUME cmderr' = "none"
       PROVE  \A k \in DOMAIN got' : k <= Len(got') => got'[k] # Lost /\ (Stuck' \/ got'[k] = Content[at' - 3 + k])
  <2> TAKE k \in DOMAIN got'
  <2>1. CASE k = Len(got) + 1
    <3>1. got'[k] = data0 /\ got'[k] # Lost
      BY <1>3, <1>4, <1>6, <1>10, <2>1
    <3>2. at' - 3 + k = at + Len(got) - 2
      BY <1>1, <1>4, <1>7, <2>1
    <3> QED
      BY <1>6, <1>10, <3>1, <3>2
  <2>2. CASE k <= Len(got)
    BY <1>1, <1>4, <1>6, <1>10, <2>2 DEF GoodTo
  <2> QED
    BY <1>4, <2>1, <2>2
<1>11. AtReadBatch'
  <2>1. cmderr' = "none" => auto' /\ command' = "load" /\ Begun' = at' + Len(got') /\ GoodTo(Len(got))'
    <3>1. cmderr' = "none" => GoodTo(Len(got))'
      BY <1>10 DEF GoodTo
    <3>2. cmderr' = "none" => Begun' = at' + Len(got')
      BY <1>1, <1>4, <1>6, <1>7
    <3> QED
      BY <1>6, <3>1, <3>2
  <2>2. cmderr' = "busy" => Begun' < at' + Len(got') /\ GoodTo(Begun - at)'
    BY <1>1, <1>4, <1>6, <1>7, <1>9
  <2>3. at' < Beyond' /\ Len(got') <= Want' /\ Begun' <= at' + Len(got')
    BY <1>1, <1>4, <1>6, <1>7
  <2> QED
    BY <1>6, <1>8, <2>1, <2>2, <2>3 DEF AtReadBatch
<1>12. ReadBasis'
  BY <1>1, <1>6, BasisKept
<1>13. Reads'
  BY <1>1, <1>2, <1>11, <1>12 DEF Reads, ReadBasis, Calling
<1> QED
  BY <1>1, <1>5, <1>13 DEF Inv

\* The rest of a batch is lost.
LEMMA LosesRest ==
  ASSUME Types, Len(got) < Want, got' = got \o [i \in 1 .. Want - Len(got) |-> Lost]
  PROVE  /\ got' \in Seq(Int) /\ Len(got') = Want /\ HasLost' /\ Len(got) \in Nat
         /\ \A k \in DOMAIN got' : k \in Nat /\ (k <= Len(got) => k \in DOMAIN got /\ got'[k] = got[k])
<1> DEFINE rest == [i \in 1 .. Want - Len(got) |-> Lost]
<1>1. got \in Seq(Int) /\ Len(got) \in Nat /\ Want \in Int /\ Want - Len(got) \in Nat
  BY Wants DEF Types, DebuggerTypes
<1>2. rest \in Seq(Int) /\ Len(rest) = Want - Len(got)
  BY <1>1 DEF Lost
<1>3. got' \in Seq(Int) /\ Len(got') = Want
      /\ \A k \in 1 .. Want : got'[k] = IF k <= Len(got) THEN got[k] ELSE rest[k - Len(got)]
  <2> HIDE DEF rest
  <2>1. got' = got \o rest
    BY DEF rest
  <2>2. /\ got' \in Seq(Int) /\ Len(got') = Len(got) + Len(rest)
        /\ \A k \in 1 .. Len(got) + Len(rest) :
             got'[k] = IF k <= Len(got) THEN got[k] ELSE rest[k - Len(got)]
    <3>1. rest \in Seq(Int) /\ got \in Seq(Int)
      BY <1>1, <1>2
    <3>2. /\ got \o rest \in Seq(Int) /\ Len(got \o rest) = Len(got) + Len(rest)
          /\ \A k \in 1 .. Len(got) + Len(rest) :
               (got \o rest)[k] = IF k <= Len(got) THEN got[k] ELSE rest[k - Len(got)]
      BY <3>1, ConcatProperties, ZenonT(30)
    <3> QED
      BY <2>1, <3>2, ZenonT(30)
  <2> QED
    BY <1>1, <1>2, <2>2
<1>4. DOMAIN got' = 1 .. Want /\ DOMAIN got = 1 .. Len(got)
  BY <1>1, <1>3
<1>5. got'[Want] = Lost /\ Want \in DOMAIN got'
  BY <1>1, <1>3, <1>4
<1>6. HasLost'
  BY <1>5 DEF HasLost
<1>7. \A k \in DOMAIN got' : k \in Nat /\ (k <= Len(got) => k \in DOMAIN got /\ got'[k] = got[k])
  BY <1>1, <1>3, <1>4
<1> QED
  BY <1>1, <1>3, <1>6, <1>7

LEMMA BatchLostRead ==
  ASSUME Inv, BatchLost, job.op = "read"
  PROVE  Inv'
<1>1. /\ pc = "batch" /\ pc' = "batch" /\ Len(got) < Want /\ (UNCHANGED hart \/ ReadData0)
      /\ got' = got \o [i \in 1 .. Want - Len(got) |-> Lost]
      /\ UNCHANGED <<call, value, at, next, ignoreLast, saved>>
      /\ UNCHANGED <<buffer, outside, job, word, result, delay>>
  BY DEF BatchLost, BatchRest, control, output, account
<1>2. Types /\ AtReadBatch /\ word = None
  BY <1>1 DEF Inv, Reads, AtReadBatch, Bursting
<1>3. /\ got' \in Seq(Int) /\ Len(got') = Want /\ HasLost' /\ Len(got) \in Nat
      /\ \A k \in DOMAIN got' : k \in Nat /\ (k <= Len(got) => k \in DOMAIN got /\ got'[k] = got[k])
  BY <1>1, <1>2, LosesRest
<1>4. Types'
  <2>1. HartTypes' /\ pc' \in Labels
    BY <1>1, <1>2, ModuleTypes DEF Labels
  <2> QED
    BY <1>1, <1>2, <1>3, <2>1 DEF Types, DebuggerTypes, Region, None
<1>5. Want \in Int /\ at \in Int /\ at < Beyond /\ ~HasLost
  BY <1>1, <1>2, <1>3, Wants DEF AtReadBatch, Types, DebuggerTypes
<1>6. /\ Bursting' /\ Fresh' /\ UNCHANGED <<s0, s1, bus, mem, Ahead, Beyond, Stuck, Want>>
      /\ Begun' \in Nat /\ Begun' <= at + Want
      /\ (cmderr' = "none" => auto' /\ command' = "load")
      /\ (cmderr' = "busy" => Begun' < at + Want /\ Begun' - at <= Len(got) /\ GoodTo(Begun' - at))
  <2>1. CASE ReadData0
    <3>1. /\ Bursting' /\ Fresh' /\ UNCHANGED <<s0, s1, bus, mem, Ahead, Beyond, Stuck, Want>>
          /\ Begun' \in Nat /\ Begun' <= at + Len(got) + 1
          /\ (cmderr' = "none" => auto' /\ command' = "load")
          /\ (cmderr' = "busy" => Begun' <= at + Len(got) /\ GoodTo(Begun' - at))
      BY <1>1, <1>2, <2>1, ReadAccess
    <3>2. Len(got) \in Nat /\ Want \in Int /\ at \in Int /\ Len(got) + 1 <= Want
      BY <1>1, <1>3, <1>5
    <3>3. Begun' \in Nat /\ Begun' <= at + Want
      BY <3>1, <3>2
    <3>4. cmderr' = "busy" => Begun' < at + Want /\ Begun' - at <= Len(got)
      BY <3>1, <3>2
    <3> QED
      BY <3>1, <3>3, <3>4
  <2>2. CASE UNCHANGED hart
    <3>1. UNCHANGED <<data0, s0, s1, command, running, cmderr, auto, mem, bus>>
      BY <2>2 DEF hart
    <3>2. UNCHANGED <<Ahead, Beyond, Stuck, Want, Begun, Sync>> /\ \A n : Filled(n) => Filled(n)'
      BY <1>1, <3>1, Same
    <3>3. Bursting' /\ Fresh'
      BY <1>1, <1>2, <3>1, <3>2 DEF AtReadBatch, Bursting, Fresh
    <3>4. Begun \in Nat
      BY <1>2, Counts
    <3>5. got = <<>> => Len(got) = 0
      OBVIOUS
    <3> QED
      BY <1>1, <1>2, <1>3, <1>5, <3>1, <3>2, <3>3, <3>4, <3>5 DEF AtReadBatch
  <2> QED
    BY <1>1, <2>1, <2>2
<1>7. ASSUME NEW n \in Int, n <= Len(got), GoodTo(n)
      PROVE  GoodTo(n)'
  BY <1>1, <1>3, <1>6, <1>7 DEF GoodTo
<1>8. AtReadBatch'
  <2>1. cmderr' = "busy" => Begun' < at' + Len(got') /\ GoodTo(Begun - at)'
    BY <1>1, <1>3, <1>5, <1>6, <1>7
  <2>2. at' < Beyond' /\ Len(got') <= Want' /\ Begun' <= at' + Len(got') /\ Len(got') = Want'
    BY <1>1, <1>3, <1>5, <1>6
  <2> QED
    BY <1>3, <1>6, <2>1, <2>2 DEF AtReadBatch
<1>9. ReadBasis'
  BY <1>1, <1>6, BasisKept
<1>10. Reads'
  BY <1>1, <1>2, <1>8, <1>9 DEF Reads, ReadBasis, Calling
<1> QED
  BY <1>1, <1>4, <1>10 DEF Inv

LEMMA BatchReadStep ==
  ASSUME Inv, BatchRead
  PROVE  Inv'
<1>1. /\ pc = "batch" /\ Len(got) = Want /\ ~running /\ job.op = "read" /\ cmderr = "none"
      /\ next' = at + Want /\ ignoreLast' = 0 /\ pc' = "collect"
      /\ UNCHANGED <<hart, call, value, at, got, saved>>
      /\ UNCHANGED <<buffer, outside, job, word, result, delay>>
  BY DEF BatchRead, BatchDone, control, output, account
<1>2. Types /\ AtReadBatch /\ word = None
  BY <1>1 DEF Inv, Reads, AtReadBatch, Bursting
<1>3. UNCHANGED <<data0, s0, s1, command, running, cmderr, auto, mem, bus>>
  BY <1>1 DEF hart
<1>4. Want \in Int /\ at \in Int
  BY <1>2, Wants DEF Types, DebuggerTypes
<1>5. Types'
  <2>1. HartTypes' /\ pc' \in Labels /\ next' \in Int /\ ignoreLast' \in 0 .. 1
    BY <1>1, <1>2, <1>4, ModuleTypes DEF Labels
  <2> QED
    BY <1>1, <1>2, <2>1 DEF Types, DebuggerTypes, Region, None
<1>6. UNCHANGED <<Ahead, Beyond, Stuck, Want, Begun, Sync, HasLost>> /\ (\A n : Filled(n) => Filled(n)')
      /\ \A n : GoodTo(n) => GoodTo(n)'
  BY <1>1, <1>3, Same DEF HasLost
<1>7. Bursting' /\ Fresh'
  BY <1>1, <1>2, <1>3, <1>6 DEF AtReadBatch, Bursting, Fresh
<1>8. ~HasLost => Begun = at + Want /\ GoodTo(Want)
  BY <1>1, <1>2 DEF AtReadBatch
<1>9. AtCollect'
  BY <1>1, <1>2, <1>3, <1>6, <1>7, <1>8 DEF AtCollect, AtReadBatch, Quiescent
<1>10. ReadBasis'
  BY <1>1, <1>3, BasisKept
<1>11. Reads'
  BY <1>1, <1>2, <1>9, <1>10 DEF Reads, ReadBasis, Calling
<1> QED
  BY <1>1, <1>5, <1>11 DEF Inv

LEMMA ReadWasBusyStep ==
  ASSUME Inv, ReadWasBusy
  PROVE  Inv'
<1>1. /\ pc = "batch" /\ Len(got) = Want /\ ~running /\ job.op = "read" /\ cmderr = "busy"
      /\ ClearError /\ pc' = "recover" /\ SlowDown
      /\ UNCHANGED <<call, value, at, got, next, ignoreLast, saved>>
      /\ UNCHANGED <<buffer, outside, job, word, result>>
  BY DEF ReadWasBusy, BatchDone, control, burst, output
<1>2. Types /\ AtReadBatch /\ word = None
  BY <1>1 DEF Inv, Reads, AtReadBatch, Bursting
<1>3. cmderr' = "none" /\ UNCHANGED <<data0, s0, s1, command, running, auto, mem, bus>>
  BY <1>1 DEF ClearError
<1>4. Types'
  <2>1. HartTypes' /\ pc' \in Labels /\ delay' \in 0 .. DelayMax
    BY <1>1, <1>2, ModuleTypes, SlowsDown DEF Labels
  <2> QED
    BY <1>1, <1>2, <2>1 DEF Types, DebuggerTypes, Region, None
<1>5. UNCHANGED <<Ahead, Beyond, Stuck, Want, Begun, Sync>> /\ (\A n : Filled(n) => Filled(n)')
      /\ \A n : GoodTo(n) => GoodTo(n)'
  BY <1>1, <1>3, Same
<1>6. Bursting' /\ Fresh'
  BY <1>1, <1>2, <1>3, <1>5 DEF AtReadBatch, Bursting, Fresh
<1>7. Begun = Ahead /\ Ahead < at + Want /\ at + Want <= Beyond /\ Ahead < Beyond /\ GoodTo(Ahead - at)
  <2>1. Begun = Ahead /\ Ahead \in Nat /\ Beyond \in Nat /\ Want \in Int /\ at \in Int /\ Want >= 1
        /\ Want <= Beyond - at
    BY <1>1, <1>2, Counts, Wants, Regions DEF InFlight, AtReadBatch, Types, DebuggerTypes
  <2>2. got # <<>>
    BY <1>1, <2>1
  <2> QED
    BY <1>1, <1>2, <2>1, <2>2 DEF AtReadBatch
<1>8. AtRecover'
  BY <1>1, <1>2, <1>3, <1>5, <1>6, <1>7 DEF AtReadBatch, AtRecover, Unfinished, Quiescent
<1>9. ReadBasis'
  BY <1>1, <1>3, BasisKept
<1>10. Reads'
  BY <1>1, <1>2, <1>8, <1>9 DEF Reads, ReadBasis, Calling
<1> QED
  BY <1>1, <1>4, <1>10 DEF Inv

LEMMA ReadFaultedStep ==
  ASSUME Inv, ReadFaulted
  PROVE  Inv'
<1>1. /\ pc = "batch" /\ ~running /\ job.op = "read" /\ ClearError /\ pc' = "error"
      /\ UNCHANGED <<control, burst, output, account>>
  BY DEF ReadFaulted, BatchDone, Quiet
<1>2. Types /\ word = None
  BY <1>1 DEF Inv, Reads, AtReadBatch, Bursting
<1>3. cmderr' = "none" /\ UNCHANGED <<data0, s0, s1, command, running, auto, mem, bus>>
      /\ UNCHANGED <<job, word, outside, result>>
  BY <1>1 DEF ClearError, output, account
<1>4. Types'
  <2>1. HartTypes' /\ pc' \in Labels
    BY <1>1, <1>2, ModuleTypes DEF Labels
  <2> QED
    BY <1>1, <1>2, <2>1, OnlyPlace
<1>5. AtError' /\ ReadBasis'
  BY <1>1, <1>2, <1>3, BasisKept DEF AtError, Quiescent
<1>6. Reads'
  BY <1>1, <1>2, <1>3, <1>5 DEF Reads, ReadBasis, Calling
<1> QED
  BY <1>1, <1>3, <1>4, <1>6 DEF Inv

(* Reading: the recovery. *)

LEMMA RecoverStep ==
  ASSUME Inv, Recover
  PROVE  Inv'
<1>1. pc = "recover" /\ pc' = "save" /\ WriteAuto(FALSE) /\ UNCHANGED <<control, burst, output, account>>
  BY DEF Recover, Quiet
<1>2. Types /\ job.op = "read"
  BY <1>1, Regions DEF Inv, Writes
<1>3. AtRecover /\ word = None
  BY <1>1, <1>2 DEF Inv, Reads, AtRecover, Unfinished, Bursting
<1>4. UNCHANGED <<data0, s0, s1, command, running, cmderr, mem, bus>> /\ auto' = FALSE
  BY <1>1, <1>2, <1>3, WhenIdle DEF AtRecover
<1>5. UNCHANGED <<at, got, job, word, buffer, outside, result>>
  BY <1>1 DEF burst, output, account
<1>6. Types'
  <2>1. HartTypes' /\ pc' \in Labels
    BY <1>1, <1>2, ModuleTypes DEF Labels
  <2> QED
    BY <1>1, <1>2, <2>1, OnlyPlace
<1>7. UNCHANGED <<Ahead, Beyond, Stuck, Want, Begun, Sync>> /\ (\A n : Filled(n) => Filled(n)')
      /\ \A n : GoodTo(n) => GoodTo(n)'
  BY <1>4, <1>5, Same
<1>8. AtSave'
  BY <1>3, <1>4, <1>5, <1>7
     DEF AtRecover, AtSave, Unfinished, Bursting, Fresh, Clean, Quiescent
<1>9. ReadBasis'
  BY <1>2, <1>4, <1>5, BasisKept
<1>10. Reads'
  BY <1>1, <1>3, <1>5, <1>8, <1>9 DEF Reads, ReadBasis, Calling
<1> QED
  BY <1>2, <1>5, <1>6, <1>10 DEF Inv

LEMMA SaveDataStep ==
  ASSUME Inv, SaveData
  PROVE  Inv'
<1>1. /\ pc = "save" /\ pc' = "command" /\ ReadData0 /\ saved' = Seen
      /\ call' = [command |-> "read s0", value |-> 0, ok |-> "resume", fail |-> "error"]
      /\ UNCHANGED <<value, at, got, next, ignoreLast>>
      /\ UNCHANGED <<buffer, outside, job, word, result, delay>>
  BY DEF SaveData, Execute, Call, output, account
<1>2. Types /\ job.op = "read"
  BY <1>1, Regions DEF Inv, Writes
<1>3. AtSave /\ word = None
  BY <1>1, <1>2 DEF Inv, Reads, AtSave, Unfinished, Bursting
<1>4. UNCHANGED <<data0, s0, s1, command, cmderr, auto, mem, bus>> /\ running' = auto /\ saved' = data0
      /\ running' = running
  BY <1>1, <1>2, <1>3, WhenIdle DEF AtSave, Clean, Quiescent, Types, HartTypes
<1>5. Types'
  <2>1. HartTypes' /\ pc' \in Labels /\ saved' \in Values
    BY <1>1, <1>2, <1>4, ModuleTypes DEF Labels, Types, HartTypes
  <2>2. call' \in [command : Commands, value : Nat, ok : Labels, fail : Labels]
    BY <1>1 DEF Commands, Labels
  <2> QED
    BY <1>1, <1>2, <2>1, <2>2 DEF Types, DebuggerTypes, Region, None
<1>6. UNCHANGED <<Ahead, Beyond, Stuck, Want, Begun, Sync>> /\ (\A n : Filled(n) => Filled(n)')
      /\ \A n : GoodTo(n) => GoodTo(n)'
  BY <1>1, <1>4, Same
<1>7. Unfinished'
  BY <1>1, <1>3, <1>4, <1>6 DEF AtSave, Unfinished, Bursting
<1>8. ~Stuck => saved' = Content[Ahead - 2]
  <2>1. ASSUME ~Stuck
        PROVE  Len(bus) >= 2
    <3>1. at <= Begun /\ at >= job.address + 2 /\ Begun = Ahead
      BY <1>2, <1>3, <2>1, Counts DEF AtSave, Unfinished, Bursting, Clean, Quiescent, InFlight
    <3>2. Ahead = job.address + Len(bus) /\ Len(bus) \in Nat /\ at \in Int
      BY <1>2, Counts DEF Types, DebuggerTypes
    <3>3. job.address \in Nat
      BY <1>2, Regions
    <3> QED
      BY <3>1, <3>2, <3>3
  <2> QED
    BY <1>3, <1>4, <2>1 DEF AtSave, Fresh, Clean, Quiescent
<1>9. Saved'
  BY <1>6, <1>7, <1>8 DEF Saved
<1>10. Called'
  <2>1. ~auto' /\ Quiescent'
    BY <1>3, <1>4 DEF AtSave, Clean, Quiescent
  <2>2. ~Puts(call'.command)
    BY <1>1 DEF Puts
  <2> QED
    BY <1>1, <2>1, <2>2 DEF Called
<1>11. CallS0'
  BY <1>1, <1>9, <1>10 DEF CallS0, Issued
<1>12. ReadBasis'
  BY <1>1, <1>2, <1>4, BasisKept
<1>13. Reads'
  BY <1>1, <1>3, <1>11, <1>12 DEF Reads, ReadBasis, Calling
<1> QED
  BY <1>1, <1>2, <1>5, <1>13 DEF Inv

\* A value is stored in the region, or known to be outside.
LEMMA Stores ==
  ASSUME Types, NEW a \in Int, NEW v \in Int, Store(a, v), UNCHANGED job
  PROVE  /\ buffer' \in [Region -> Int] /\ outside' \in BOOLEAN /\ Region' = Region
         /\ \A b \in Region : buffer'[b] = IF b = a THEN v ELSE buffer[b]
         /\ outside' => outside \/ a \notin Region
  BY DEF Store, Types, DebuggerTypes, Region

LEMMA ResumeStep ==
  ASSUME Inv, Resume
  PROVE  Inv'
<1>1. /\ pc = "resume" /\ pc' = "rearm" /\ Store(value - 2, saved) /\ WriteCommand("load")
      /\ next' = value + 1 /\ ignoreLast' = 1
      /\ UNCHANGED <<call, value, at, got, saved, job, word, result, delay>>
  BY DEF Resume, control, account
<1>2. Types /\ job.op = "read"
  BY <1>1, Regions DEF Inv, Writes
<1>3. Saved /\ Clean /\ value = Ahead /\ word = None /\ Bursting
  BY <1>1, <1>2 DEF Inv, Reads, AtResume, Saved, Unfinished, Bursting
<1>4. UNCHANGED <<data0, s0, s1, cmderr, auto, mem, bus>> /\ running' = TRUE /\ command' = "load"
      /\ cmderr = "none"
  BY <1>1, <1>2, <1>3, WhenIdle DEF Clean, Quiescent
<1>5. /\ Ahead \in Nat /\ Ahead = job.address + Len(bus) /\ Len(bus) \in Nat /\ job.address \in Nat
      /\ Len(bus) >= 1 /\ Beyond \in Nat /\ at \in Int /\ Begun = Ahead /\ saved \in Int /\ Want \in Int
  BY <1>2, <1>3, Counts, Regions, Wants
     DEF Bursting, Clean, Quiescent, InFlight, Types, DebuggerTypes, Values
<1>6. /\ buffer' \in [Region -> Int] /\ outside' \in BOOLEAN /\ Region' = Region
      /\ \A b \in Region : buffer'[b] = IF b = Ahead - 2 THEN saved ELSE buffer[b]
      /\ outside' => outside \/ Ahead - 2 \notin Region
  <2>1. Store(Ahead - 2, saved) /\ Ahead - 2 \in Int /\ UNCHANGED job
    <3>1. Store(value - 2, saved) /\ UNCHANGED job /\ value = Ahead
      BY <1>1, <1>3
    <3>2. Ahead - 2 \in Int
      BY <1>5
    <3> QED
      BY <3>1, <3>2
  <2> QED
    BY <1>2, <1>5, <2>1, Stores
<1>7. Types'
  <2>1. HartTypes' /\ pc' \in Labels
    BY <1>1, <1>2, ModuleTypes DEF Labels, Commands
  <2>2. next' \in Int /\ ignoreLast' \in 0 .. 1
    BY <1>1, <1>3, <1>5
  <2> QED
    BY <1>1, <1>2, <1>6, <2>1, <2>2 DEF Types, DebuggerTypes, None
<1>8. UNCHANGED <<Ahead, Beyond, Stuck, Want>> /\ \A n : GoodTo(n) => GoodTo(n)'
  BY <1>1, <1>4, Same
<1>9. Begun' = Ahead + 1 /\ next' = Ahead + 1
  BY <1>1, <1>3, <1>4, <1>8 DEF Begun, InFlight
<1>10. /\ at < Beyond /\ Ahead < Beyond /\ Ahead < at + Want /\ GoodTo(Ahead - at) /\ Len(got) = Want
       /\ Stuck \/ saved = Content[Ahead - 2]
       /\ Stuck \/ (at <= Begun /\ Filled(at - 3))
  BY <1>3 DEF Saved, Unfinished, Bursting
<1>11. Sync'
  <2>1. s0 = Ahead /\ s1 = Content[Ahead - 1]
        /\ \A a \in Addresses : job.address <= a /\ a < Ahead => Accessible(a)
    BY <1>3, <1>5 DEF Bursting, Sync
  <2>2. Begun' <= Beyond
    BY <1>5, <1>9, <1>10
  <2> QED
    BY <1>1, <1>4, <1>8, <2>1, <2>2 DEF Sync, Accessible
<1>12. ASSUME ~Stuck
       PROVE  Filled(at - 3)' /\ (Ahead - 2 \in Region => buffer'[Ahead - 2] = Content[Ahead - 2])
  BY <1>1, <1>6, <1>10, <1>12 DEF Filled
<1>13. Bursting'
  <2>1. at' <= Beyond' /\ at' >= job'.address + 2 /\ Len(bus') >= 1 /\ word' = None
    BY <1>1, <1>3, <1>4, <1>5, <1>8 DEF Bursting
  <2>2. Stuck' \/ (at' <= Begun' /\ Filled(at - 3)')
    BY <1>1, <1>5, <1>8, <1>9, <1>10, <1>12
  <2> QED
    BY <1>11, <2>1, <2>2 DEF Bursting
<1>14. GoodTo(next - 1 - at)'
  <2>1. next' - 1 - at' = Ahead - at
    BY <1>1, <1>5, <1>9
  <2>2. \A k \in DOMAIN got' :
          k <= Ahead - at => got'[k] # Lost /\ (Stuck' \/ got'[k] = Content[at' - 3 + k])
    BY <1>1, <1>8, <1>10 DEF GoodTo
  <2> QED
    BY <2>1, <2>2 DEF GoodTo
<1>15. Resumed'
  <2>1. next' >= job'.address + 2 /\ next' <= Beyond' /\ next' <= at' + Want' /\ at' < Beyond'
    <3>1. next' = Ahead + 1 /\ at' = at /\ Beyond' = Beyond /\ Want' = Want
          /\ job'.address = job.address
      BY <1>1, <1>8, <1>9
    <3>2. /\ Ahead \in Nat /\ Ahead + 1 >= job.address + 2 /\ Ahead + 1 <= Beyond
          /\ Ahead + 1 <= at + Want /\ at < Beyond
      <4>1. Ahead = job.address + Len(bus) /\ Len(bus) >= 1 /\ Len(bus) \in Nat /\ job.address \in Nat
        BY <1>5
      <4>2. Beyond \in Nat /\ at \in Int /\ Want \in Int /\ at < Beyond /\ Ahead < Beyond
            /\ Ahead < at + Want
        BY <1>5, <1>10
      <4> QED
        BY <4>1, <4>2
    <3> QED
      BY <3>1, <3>2
  <2>2. next' - 3 = Ahead - 2
    BY <1>5, <1>9
  <2>3. Begun' <= next' /\ next' = Begun'
    BY <1>5, <1>9
  <2>4. ~Stuck' => (next' - 3 \in Region' => buffer'[next' - 3] = Content[next' - 3])
    BY <1>6, <1>8, <1>12, <2>2
  <2>5. Fresh' /\ Len(got') = Want' /\ ignoreLast' = 1
    BY <1>1, <1>4, <1>8, <1>10 DEF Fresh
  <2> QED
    BY <1>13, <1>14, <2>1, <2>3, <2>4, <2>5 DEF Resumed
<1>16. AtRearm'
  BY <1>4, <1>9, <1>15 DEF AtRearm
<1>17. outside' => job'.address + 1 \in job'.faulting
  <2>1. outside => job.address + 1 \in job.faulting
    BY <1>2 DEF Inv, Reads
  <2>2. ASSUME Ahead - 2 \notin Region
        PROVE  job.address + 1 \in job.faulting
    <3>1. Ahead = job.address + 1
      <4>1. job.count \in Nat /\ Ahead < job.address + job.count
        BY <1>2, <1>10, Regions DEF Beyond
      <4> QED
        BY <1>5, <2>2, <4>1 DEF Region
    <3>2. Stuck
      BY <1>3, <1>5, <3>1 DEF Bursting
    <3>3. Ahead \in Addresses
      BY <1>2, <1>5, <1>10, Regions DEF Addresses, Beyond
    <3> QED
      BY <3>1, <3>2, <3>3 DEF Stuck, Accessible
  <2> QED
    BY <1>1, <1>6, <2>1, <2>2
<1>18. mem' = Content /\ result' = "ok" /\ InOrder(bus)'
  BY <1>1, <1>2, <1>3, <1>4 DEF Inv, Reads, InOrder
<1>19. Reads'
  BY <1>1, <1>3, <1>16, <1>17, <1>18 DEF Reads, Calling
<1> QED
  BY <1>1, <1>2, <1>7, <1>19 DEF Inv

LEMMA RearmStep ==
  ASSUME Inv, Rearm
  PROVE  Inv'
<1>1. pc = "rearm" /\ pc' = "collect" /\ WriteAuto(TRUE) /\ UNCHANGED <<control, burst, output, account>>
  BY DEF Rearm, Quiet
<1>2. Types /\ job.op = "read"
  BY <1>1, Regions DEF Inv, Writes
<1>3. AtRearm /\ Resumed /\ word = None
  BY <1>1, <1>2 DEF Inv, Reads, AtRearm, Resumed, Bursting
<1>4. UNCHANGED <<data0, s0, s1, command, running, mem, bus>> /\ Busy
      /\ auto' \in {TRUE} \cup (IF running THEN {auto} ELSE {})
  BY <1>1 DEF WriteAuto
<1>5. UNCHANGED <<at, got, next, ignoreLast, job, word, buffer, outside, result>>
  BY <1>1 DEF burst, output, account
<1>6. Types'
  <2>1. HartTypes' /\ pc' \in Labels
    BY <1>1, <1>2, ModuleTypes DEF Labels
  <2> QED
    BY <1>1, <1>2, <2>1, OnlyPlace
<1>7. UNCHANGED <<Ahead, Beyond, Stuck, Want, Begun, Sync, Region>> /\ (\A n : Filled(n) => Filled(n)')
      /\ \A n : GoodTo(n) => GoodTo(n)'
  BY <1>4, <1>5, Same
<1>8. Bursting' /\ Fresh'
  BY <1>3, <1>4, <1>5, <1>7 DEF Resumed, Bursting, Fresh
<1>9. Resumed'
  BY <1>3, <1>5, <1>7, <1>8 DEF Resumed
<1>10. cmderr' = "none" => cmderr = "none" /\ auto' = TRUE
  BY <1>4 DEF Busy
<1>11. AtCollect'
  BY <1>3, <1>4, <1>5, <1>7, <1>9, <1>10 DEF AtRearm, AtCollect
<1>12. ReadBasis'
  BY <1>2, <1>4, <1>5, BasisKept
<1>13. Reads'
  BY <1>1, <1>3, <1>5, <1>11, <1>12 DEF Reads, ReadBasis, Calling
<1> QED
  BY <1>2, <1>5, <1>6, <1>13 DEF Inv

LEMMA CollectStep ==
  ASSUME AboveZero, Inv, Collect
  PROVE  Inv'
<1>1. /\ pc = "collect"
      /\ buffer' = [a \in Region |-> IF a - at + 3 \in Good THEN got[a - at + 3] ELSE buffer[a]]
      /\ outside' = (outside \/ \E k \in Good : at - 3 + k \notin Region)
      /\ (Good = Received => pc' = "burst" /\ at' = next)
      /\ (Good # Received => pc' = "error" /\ at' = at)
      /\ UNCHANGED <<data0, s0, s1, command, running, cmderr, auto, mem, bus>>
      /\ UNCHANGED <<call, value, got, next, ignoreLast, saved, job, word, result, delay>>
  BY DEF Collect, hart, control, account
<1>2. Types /\ job.op = "read"
  BY <1>1, Regions DEF Inv, Writes
<1>3. AtCollect
  BY <1>1, <1>2 DEF Inv, Reads
<1>4. Bursting /\ Fresh /\ at < Beyond /\ Len(got) = Want /\ word = None
  BY <1>3 DEF AtCollect, Resumed, Bursting
<1>5. /\ job.address \in Nat /\ job.address >= 2 /\ job.count \in Nat /\ Beyond = job.address + job.count
      /\ at \in Int /\ next \in Int /\ Want \in Int /\ Want <= Beyond - at /\ at >= job.address + 2
      /\ ignoreLast \in 0 .. 1 /\ Beyond < AddrSpace /\ AddrSpace \in Nat
      /\ Begun \in Nat /\ got \in Seq(Int) /\ Want >= 1
  <2>1. job.address >= 2
    BY <1>2 DEF Types, AboveZero
  <2>2. at \in Int /\ next \in Int /\ ignoreLast \in 0 .. 1 /\ at >= job.address + 2 /\ got \in Seq(Int)
    BY <1>2, <1>4 DEF Types, DebuggerTypes, Bursting
  <2>3. Fin = Beyond /\ Want \in Int /\ Want <= Fin - at /\ (at < Fin => Want >= 1)
    BY <1>2, <1>4, Regions, Wants
  <2> QED
    BY <1>2, <1>4, <2>1, <2>2, <2>3, Regions, Counts DEF Beyond
<1>6. next >= job.address + 2 /\ next <= Beyond /\ next <= at + Want
  <2>1. Resumed => next >= job.address + 2 /\ next <= Beyond /\ next <= at + Want
    BY DEF Resumed
  <2>2. ~Resumed => next = at + Want
    BY <1>3 DEF AtCollect
  <2> QED
    BY <1>5, <2>1, <2>2
<1>7. Received = {k \in 1 .. Want : k <= next - ignoreLast - at}
  <2>1. Minus(next, 3 + ignoreLast) = next - (3 + ignoreLast)
    BY <1>5, <1>6 DEF Minus
  <2>2. \A k \in 1 .. Want : at - 3 + k <= next - (3 + ignoreLast) <=> k <= next - ignoreLast - at
    BY <1>5
  <2> QED
    BY <2>1, <2>2 DEF Received
<1>8. DOMAIN got = 1 .. Want /\ \A k \in 1 .. Want : got[k] \in Int
  BY <1>4, <1>5
<1>9. \A k \in Good : k \in 1 .. Want /\ at - 3 + k \in Region
  <2> TAKE k \in Good
  <2>1. k \in 1 .. Want /\ k <= next - ignoreLast - at
    BY <1>7 DEF Good
  <2>2. at - 3 + k >= job.address /\ at - 3 + k <= job.address + job.count - 1 /\ at - 3 + k \in Int
    <3>1. at \in Int /\ next \in Int /\ k \in Int /\ k >= 1 /\ ignoreLast \in 0 .. 1
          /\ k <= next - ignoreLast - at
      BY <1>5, <2>1
    <3>2. job.address \in Nat /\ job.count \in Nat /\ at >= job.address + 2
          /\ next <= job.address + job.count
      BY <1>5, <1>6
    <3> QED
      BY <3>1, <3>2
  <2> QED
    BY <1>5, <2>1, <2>2 DEF Region
<1>10. outside' = outside /\ Region' = Region
  <2>1. ~(\E k \in Good : at - 3 + k \notin Region)
    BY <1>9
  <2>2. outside \in BOOLEAN
    BY <1>2 DEF Types, DebuggerTypes
  <2>3. outside' = outside
    BY <1>1, <2>1, <2>2
  <2> QED
    BY <1>1, <2>3 DEF Region
<1>11. buffer' \in [Region -> Int]
  <2>1. \A a \in Region : buffer[a] \in Int
    BY <1>2 DEF Types, DebuggerTypes
  <2> QED
    BY <1>1, <1>8, <1>9, <2>1
<1>12. Types'
  <2>1. HartTypes'
    BY <1>1, <1>2 DEF Types, HartTypes
  <2>2. pc' \in Labels /\ at' \in Int /\ outside' \in BOOLEAN
    BY <1>1, <1>2, <1>5, <1>10 DEF Labels, Types, DebuggerTypes
  <2> QED
    BY <1>1, <1>2, <1>10, <1>11, <2>1, <2>2 DEF Types, DebuggerTypes, None
<1>13. UNCHANGED <<Ahead, Beyond, Stuck, Begun, Sync>>
  BY <1>1, Same
<1>14. ReadBasis'
  BY <1>1, <1>2, <1>10, BasisKept
<1>15. CASE Good = Received
  <2>1. pc' = "burst" /\ at' = next
    BY <1>1, <1>15
  <2>2. /\ Stuck => Begun <= next
        /\ ~Stuck => next = Begun /\ GoodTo(next - ignoreLast - at)
        /\ ~Stuck /\ ignoreLast = 1 => (next - 3 \in Region => buffer[next - 3] = Content[next - 3])
        /\ cmderr = "none" => auto /\ command = "load" /\ Begun = next
        /\ ignoreLast = 0 => next = at + Want
    <3>1. CASE Resumed
      BY <1>3, <3>1 DEF AtCollect, Resumed, Quiescent
    <3>2. CASE ~Resumed
      <4>1. ignoreLast = 0 /\ next = at + Want /\ Quiescent /\ auto /\ command = "load"
            /\ (~HasLost => Begun = next /\ GoodTo(Want))
        BY <1>3, <3>2 DEF AtCollect
      <4>2. Want \in Received
        BY <1>5, <1>7, <4>1
      <4>3. ~HasLost
        BY <1>8, <1>15, <4>2 DEF Good, HasLost
      <4>4. next - ignoreLast - at = Want
        BY <1>5, <4>1
      <4> QED
        BY <1>5, <4>1, <4>3, <4>4
    <3> QED
      BY <3>1, <3>2
  <2>3. ASSUME ~Stuck, NEW a \in Region, a <= next - 3
        PROVE  buffer'[a] = Content[a]
    <3>1. a \in Int
      BY <1>5 DEF Region
    <3>2. CASE a - at + 3 \in Good
      <4>1. a - at + 3 \in 1 .. Want /\ a - at + 3 <= next - ignoreLast - at
        BY <1>7, <1>15, <3>2
      <4>2. got[a - at + 3] = Content[at - 3 + (a - at + 3)]
        BY <1>8, <2>2, <2>3, <4>1 DEF GoodTo
      <4>3. at - 3 + (a - at + 3) = a
        BY <1>5, <3>1
      <4> QED
        BY <1>1, <3>2, <4>2, <4>3
    <3>3. CASE a - at + 3 \notin Good
      <4>1. a - at + 3 \notin 1 .. Want \/ a - at + 3 > next - ignoreLast - at
        BY <1>5, <1>7, <1>15, <3>1, <3>3
      <4>2. a <= at - 3 \/ (a = next - 3 /\ ignoreLast = 1)
        BY <1>5, <1>6, <2>2, <2>3, <3>1, <4>1
      <4>3. buffer[a] = Content[a]
        BY <1>4, <2>2, <2>3, <4>2 DEF Bursting, Filled
      <4> QED
        BY <1>1, <3>3, <4>3
    <3> QED
      BY <3>2, <3>3
  <2>4. ~Stuck => Filled(at - 3)'
    BY <1>10, <2>1, <2>3 DEF Filled
  <2>5. Bursting'
    <3>1. Stuck' \/ (at' <= Begun' /\ Filled(at - 3)')
      BY <1>5, <1>13, <2>1, <2>2, <2>4
    <3>2. at' >= job'.address + 2 /\ at' <= Beyond'
      BY <1>1, <1>6, <1>13, <2>1
    <3> QED
      BY <1>1, <1>4, <1>13, <3>1, <3>2 DEF Bursting
  <2>6. Begun' <= at'
    BY <1>5, <1>13, <2>1, <2>2
  <2>7. Fresh'
    BY <1>1, <1>4, <1>13 DEF Fresh
  <2>8. AtBurst'
    BY <1>1, <1>13, <2>1, <2>2, <2>5, <2>6, <2>7 DEF AtBurst
  <2>9. Reads'
    BY <1>1, <1>4, <1>14, <2>1, <2>8 DEF Reads, ReadBasis, Calling
  <2> QED
    BY <1>1, <1>2, <1>12, <2>9 DEF Inv
<1>16. CASE Good # Received
  <2>1. pc' = "error"
    BY <1>1, <1>16
  <2>2. ~Resumed
    <3> SUFFICES ASSUME Resumed
                 PROVE  FALSE
      OBVIOUS
    <3>1. ignoreLast = 1 /\ GoodTo(next - 1 - at)
      BY DEF Resumed
    <3>2. \A i \in 1 .. Want : i <= next - 1 - at => got[i] # Lost
      BY <1>8, <3>1 DEF GoodTo
    <3>3. Received \subseteq Good
      <4> SUFFICES ASSUME NEW k \in Received
                   PROVE  k \in Good
        OBVIOUS
      <4>1. k \in 1 .. Want /\ k <= next - 1 - at
        BY <1>5, <1>7, <3>1
      <4>2. \A i \in 1 .. k : i \in 1 .. Want /\ i <= next - 1 - at
        BY <1>5, <4>1
      <4> QED
        BY <3>2, <4>2 DEF Good
    <3> QED
      BY <1>16, <3>3 DEF Good
  <2>3. Quiescent
    BY <1>3, <2>2 DEF AtCollect
  <2>4. AtError'
    BY <1>1, <1>4, <2>3 DEF AtError, Quiescent
  <2>5. Reads'
    BY <1>1, <1>4, <1>14, <2>1, <2>4 DEF Reads, ReadBasis, Calling
  <2> QED
    BY <1>1, <1>2, <1>12, <2>5 DEF Inv
<1> QED
  BY <1>15, <1>16

(* Reading: the end of the burst, and single words. *)

LEMMA PenultimateStep ==
  ASSUME Inv, Penultimate
  PROVE  Inv'
<1>1. /\ pc = "penultimate" /\ pc' = "last word" /\ ReadData0 /\ Store(Fin - 2, Seen)
      /\ UNCHANGED <<call, value, at, got, next, ignoreLast, saved, job, word, result, delay>>
  BY DEF Penultimate, control, burst, account
<1>2. Types /\ job.op = "read"
  BY <1>1, Regions DEF Inv, Writes
<1>3. AtPenultimate /\ Ending /\ word = None
  BY <1>1, <1>2 DEF Inv, Reads, AtPenultimate, Ending
<1>4. UNCHANGED <<data0, s0, s1, command, auto, mem, bus>> /\ Busy
      /\ running' = (running \/ (auto /\ cmderr = "none"))
  BY <1>1 DEF ReadData0, Access
<1>5. Fin = Beyond /\ Beyond \in Nat /\ job.count \in Nat /\ job.count >= 2 /\ job.address \in Nat
      /\ Beyond = job.address + job.count
  BY <1>2, <1>3, Regions DEF Beyond
<1>6. cmderr = "none" => ~running /\ ~auto
  BY <1>3 DEF Ending, Clean, Quiescent
<1>7. running' = running /\ UNCHANGED cmderr
  BY <1>2, <1>4, <1>6 DEF Busy, Types, HartTypes
<1>8. Seen \in Int /\ (~running => Seen = data0)
  BY <1>2 DEF Seen, Types, HartTypes, Values, Garbage
<1>9. /\ buffer' \in [Region -> Int] /\ outside' \in BOOLEAN /\ Region' = Region
      /\ \A b \in Region : buffer'[b] = IF b = Fin - 2 THEN Seen ELSE buffer[b]
      /\ outside' => outside \/ Fin - 2 \notin Region
  <2>1. Fin - 2 \in Int
    BY <1>5
  <2> QED
    BY <1>1, <1>2, <1>8, <2>1, Stores
<1>10. outside' => outside
  BY <1>5, <1>9 DEF Region
<1>11. Types'
  <2>1. HartTypes' /\ pc' \in Labels
    BY <1>1, <1>2, ModuleTypes DEF Labels
  <2> QED
    BY <1>1, <1>2, <1>9, <2>1 DEF Types, DebuggerTypes, None
<1>12. UNCHANGED <<Ahead, Beyond, Stuck, Begun, Sync>>
  BY <1>1, <1>4, <1>7, Same
<1>13. ASSUME cmderr = "none"
       PROVE  Filled(Beyond - 2)' /\ Filled(Beyond - 3)'
  <2>1. Clean /\ Ahead = Beyond /\ Filled(Beyond - 3) /\ Seen = Content[Beyond - 2]
    BY <1>3, <1>8, <1>13 DEF AtPenultimate, Ending, Clean, Quiescent
  <2>2. \A a \in Region : a \in Int /\ (a <= Beyond - 2 => a <= Beyond - 3 \/ a = Beyond - 2)
    BY <1>5 DEF Region
  <2>3. \A a \in Region : a <= Beyond - 2 => buffer'[a] = Content[a]
    BY <1>5, <1>9, <2>1, <2>2 DEF Filled
  <2>4. Filled(Beyond - 2)'
    BY <1>9, <1>12, <2>3 DEF Filled
  <2>5. \A a \in Region : a <= Beyond - 3 => a <= Beyond - 2
    BY <1>5, <2>2
  <2>6. Filled(Beyond - 3)'
    BY <1>9, <1>12, <2>3, <2>5 DEF Filled
  <2> QED
    BY <2>4, <2>6
<1>14. Clean => Clean'
  BY <1>4, <1>7 DEF Clean, Quiescent
<1>15. AtLastWord'
  <2>1. Ending'
    <3>1. word' = None /\ Sync' /\ Len(bus') >= 1 /\ (running' => command' = "load")
      <4>1. word = None /\ Sync /\ Len(bus) >= 1 /\ (running => command = "load")
        BY <1>3 DEF Ending
      <4>2. word' = word /\ bus' = bus /\ command' = command /\ running' = running
        BY <1>1, <1>4, <1>7
      <4>3. Sync'
        BY <1>12, <4>1
      <4> QED
        BY <4>1, <4>2, <4>3
    <3>2. cmderr' = "none" => Clean' /\ Ahead' = Beyond' /\ Filled(Beyond - 3)'
      BY <1>3, <1>7, <1>12, <1>13, <1>14 DEF Ending
    <3> QED
      BY <3>1, <3>2 DEF Ending
  <2>2. cmderr' = "none" => Ended'
    BY <1>1, <1>3, <1>7, <1>12, <1>13 DEF Ending, Ended
  <2> QED
    BY <1>1, <1>3, <2>1, <2>2 DEF AtLastWord
<1>16. mem' = Content /\ result' = "ok" /\ InOrder(bus)'
       /\ (outside' => job'.address + 1 \in job'.faulting)
  BY <1>1, <1>2, <1>3, <1>4, <1>10 DEF Inv, Reads, InOrder
<1>17. Reads'
  BY <1>1, <1>3, <1>15, <1>16 DEF Reads, Calling
<1> QED
  BY <1>1, <1>2, <1>11, <1>17 DEF Inv

\* The word is right; the next one is begun, or all are read.
LEMMA NextWordStep ==
  ASSUME Inv, job.op = "read", Clean, word = None \/ Before, NextWord, UNCHANGED <<hart, job, result>>,
         call' \in [command : Commands, value : Nat, ok : Labels, fail : Labels],
         UNCHANGED <<value, at, got, next, ignoreLast, saved, delay>>,
         buffer' \in [Region -> Int], outside' \in BOOLEAN, outside' => outside,
         word = None => \A a \in Region : buffer'[a] = IF Accessible(a) THEN Content[a] ELSE 0,
         word # None =>
           \A a \in Region : buffer'[a] = IF a # Base THEN buffer[a]
                                          ELSE IF Accessible(a) THEN Content[a] ELSE 0
  PROVE  Inv'
<1>1. Types /\ Reads
  BY DEF Inv
<1>2. UNCHANGED <<data0, s0, s1, command, running, cmderr, auto, mem, bus>>
  BY DEF hart
<1>3. word \in None .. job.count - 1 /\ job.count \in Nat \ {0} /\ job.address \in Nat /\ word \in Int
  BY <1>1, Regions DEF Types, DebuggerTypes, None
<1>4. \/ pc' = "restore" /\ word' = word
      \/ pc' = "start" /\ word' = word + 1 /\ word # None /\ word # job.count - 1
  BY DEF NextWord, Restore
<1>5. word' \in None .. job.count - 1 /\ pc' \in Labels /\ Region' = Region
  <2>1. word' \in None .. job.count - 1
    BY <1>3, <1>4 DEF None
  <2>2. pc' \in Labels
    BY <1>4 DEF Labels
  <2> QED
    BY <2>1, <2>2 DEF Region
<1>6. Types'
  <2>1. HartTypes'
    BY <1>1, ModuleTypes
  <2> QED
    BY <1>1, <1>5, <2>1 DEF Types, DebuggerTypes
<1>7. Clean' /\ \A a \in Region : Accessible(a)' = Accessible(a)
  BY <1>2 DEF Clean, Quiescent, Accessible
<1>8. mem' = Content /\ result' = "ok" /\ (outside' => job'.address + 1 \in job'.faulting)
  BY <1>1, <1>2 DEF Reads
<1>9. word' = None => InOrder(bus)'
  <2>1. word' = None => word = None
    BY <1>3, <1>4 DEF None
  <2>2. InOrder(bus) => InOrder(bus)'
    BY <1>2 DEF InOrder
  <2> QED
    BY <1>1, <2>1, <2>2 DEF Reads
<1>10. word # None => \A a \in Region : a <= Base => buffer'[a] = IF Accessible(a) THEN Content[a] ELSE 0
  <2>1. word # None => (Base \in Int /\ \A a \in Region : a \in Int)
    BY <1>1, <1>3, Regions DEF Region
  <2> QED
    BY <2>1 DEF Before, Right
<1>11. CASE pc' = "restore" /\ word' = word
  <2>1. word = None \/ word = job.count - 1
    BY <1>11 DEF NextWord
  <2>2. \A a \in Region : word # None => a <= Base
    BY <1>3, <2>1 DEF Region, Base
  <2>3. All'
    BY <1>5, <1>7, <1>10, <2>2 DEF All, Right
  <2>4. Reads'
    BY <1>7, <1>8, <1>9, <1>11, <2>3 DEF Reads, AtRestore, Calling
  <2> QED
    BY <1>6, <2>4 DEF Inv
<1>12. CASE pc' = "start" /\ word' = word + 1 /\ word # None
  <2>1. Base' = Base + 1 /\ word' # None /\ Base \in Int
    BY <1>3, <1>12 DEF Base, None
  <2>2. \A a \in Region : a < Base' => a <= Base
    BY <1>3, <2>1 DEF Region
  <2>3. Before'
    BY <1>5, <1>7, <1>10, <1>12, <2>2 DEF Before, Right
  <2>4. AtStart'
    BY <1>7, <2>1 DEF AtStart
  <2>5. Reads'
    BY <1>8, <1>9, <1>12, <2>3, <2>4 DEF Reads, Calling
  <2> QED
    BY <1>6, <2>5 DEF Inv
<1> QED
  BY <1>4, <1>11, <1>12

LEMMA StoreLastStep ==
  ASSUME Inv, StoreLast
  PROVE  Inv'
<1>1. /\ pc = "store last" /\ Store(Fin - 1, value) /\ NextWord
      /\ UNCHANGED <<hart, job, result, call, value, at, got, next, ignoreLast, saved, delay>>
  BY DEF StoreLast, control, burst
<1>2. Types /\ job.op = "read"
  BY <1>1, Regions DEF Inv, Writes
<1>3. Reads /\ AtStoreLast
  BY <1>1, <1>2 DEF Inv, Reads
<1>4. Clean /\ value = Content[Fin - 1] /\ (word # None => Before)
  BY <1>1, <1>3 DEF Reads, AtStoreLast
<1>5. /\ Fin \in Nat /\ Base \in Nat /\ job.address <= Base /\ Base < Beyond /\ Beyond = job.address + job.count
      /\ job.address \in Nat /\ job.count \in Nat
      /\ (word = None => Fin = Beyond) /\ (word # None => Fin = Base + 1) /\ value \in Int
  <2>1. value \in Int
    BY <1>2 DEF Types, DebuggerTypes, Values
  <2> QED
    BY <1>2, <2>1, Regions DEF Beyond
<1>6. /\ buffer' \in [Region -> Int] /\ outside' \in BOOLEAN
      /\ \A b \in Region : buffer'[b] = IF b = Fin - 1 THEN value ELSE buffer[b]
      /\ outside' => outside \/ Fin - 1 \notin Region
  <2>1. Fin - 1 \in Int
    BY <1>5
  <2> QED
    BY <1>1, <1>2, <1>5, <2>1, Stores
<1>7. Fin - 1 \in Region
  BY <1>5 DEF Region
<1>8. word = None => \A a \in Region : buffer'[a] = IF Accessible(a) THEN Content[a] ELSE 0
  <2> SUFFICES ASSUME word = None, NEW a \in Region
               PROVE  Accessible(a) /\ buffer'[a] = Content[a]
    OBVIOUS
  <2>1. Sync /\ Ahead = Beyond /\ Filled(Beyond - 2)
    BY <1>3 DEF AtStoreLast, Ended
  <2>2. a \in Addresses /\ a \in Int /\ job.address <= a /\ a < Beyond
    BY <1>2, <1>5, Regions DEF Region
  <2>3. Accessible(a)
    BY <2>1, <2>2 DEF Sync
  <2>4. a = Fin - 1 \/ a <= Beyond - 2
    BY <1>5, <2>2
  <2>5. buffer'[a] = Content[a]
    BY <1>4, <1>6, <2>1, <2>4 DEF Filled
  <2> QED
    BY <2>3, <2>5
<1>9. word # None =>
        \A a \in Region : buffer'[a] = IF a # Base THEN buffer[a]
                                       ELSE IF Accessible(a) THEN Content[a] ELSE 0
  <2> SUFFICES ASSUME word # None, NEW a \in Region
               PROVE  buffer'[a] = IF a # Base THEN buffer[a]
                                   ELSE IF Accessible(a) THEN Content[a] ELSE 0
    OBVIOUS
  <2>1. Fin - 1 = Base /\ Accessible(Base)
    BY <1>3, <1>5 DEF AtStoreLast, AWord
  <2> QED
    BY <1>4, <1>6, <2>1
<1>10. /\ call' \in [command : Commands, value : Nat, ok : Labels, fail : Labels]
       /\ UNCHANGED <<hart, job, result>> /\ (outside' => outside)
       /\ UNCHANGED <<value, at, got, next, ignoreLast, saved, delay>>
  BY <1>1, <1>2, <1>6, <1>7 DEF Types, DebuggerTypes
<1> QED
  BY <1>1, <1>2, <1>4, <1>6, <1>8, <1>9, <1>10, NextWordStep

LEMMA WordFailedStep ==
  ASSUME Inv, WordFailed
  PROVE  Inv'
<1>1. /\ pc = "failed" /\ word # None /\ Store(Base, 0) /\ NextWord
      /\ UNCHANGED <<hart, job, result, call, value, at, got, next, ignoreLast, saved, delay>>
  BY DEF WordFailed, control, burst
<1>2. Types /\ job.op = "read"
  BY <1>1, Regions DEF Inv, Writes
<1>3. Clean /\ ~Accessible(Base) /\ Before
  BY <1>1, <1>2 DEF Inv, Reads, AtFailed
<1>4. Base \in Region /\ Base \in Int
  <2>1. /\ Base \in Nat /\ job.address <= Base /\ Base < job.address + job.count
        /\ job.address \in Nat /\ job.count \in Nat
    BY <1>2, Regions DEF Beyond
  <2> QED
    BY <2>1 DEF Region
<1>5. /\ buffer' \in [Region -> Int] /\ outside' \in BOOLEAN
      /\ \A b \in Region : buffer'[b] = IF b = Base THEN 0 ELSE buffer[b]
      /\ outside' => outside \/ Base \notin Region
  <2>1. 0 \in Int /\ UNCHANGED job
    BY <1>1
  <2> QED
    BY <1>1, <1>2, <1>4, <2>1, Stores
<1>6. \A a \in Region : buffer'[a] = IF a # Base THEN buffer[a]
                                     ELSE IF Accessible(a) THEN Content[a] ELSE 0
  BY <1>3, <1>5
<1>7. /\ call' \in [command : Commands, value : Nat, ok : Labels, fail : Labels]
      /\ UNCHANGED <<hart, job, result>> /\ (outside' => outside)
      /\ UNCHANGED <<value, at, got, next, ignoreLast, saved, delay>>
  BY <1>1, <1>2, <1>4, <1>5 DEF Types, DebuggerTypes
<1> QED
  BY <1>1, <1>2, <1>3, <1>5, <1>6, <1>7, NextWordStep

LEMMA ErrorStep ==
  ASSUME Inv, Error
  PROVE  Inv'
<1>1. pc = "error" /\ pc' = "failed" /\ WriteAuto(FALSE) /\ UNCHANGED <<control, burst, output, account>>
  BY DEF Error, account
<1>2. Types /\ job.op = "read"
  BY <1>1, Regions DEF Inv, Writes
<1>3. Quiescent /\ word = None
  BY <1>1, <1>2 DEF Inv, Reads, AtError
<1>4. UNCHANGED <<data0, s0, s1, command, running, cmderr, mem, bus>> /\ auto' = FALSE
  BY <1>1, <1>2, <1>3, WhenIdle
<1>5. UNCHANGED <<job, word, outside, result>>
  BY <1>1 DEF output, account
<1>6. Types'
  <2>1. HartTypes' /\ pc' \in Labels
    BY <1>1, <1>2, ModuleTypes DEF Labels
  <2> QED
    BY <1>1, <1>2, <2>1, OnlyPlace
<1>7. AtFailed'
  BY <1>3, <1>4, <1>5 DEF AtFailed, Clean, Quiescent
<1>8. ReadBasis'
  BY <1>2, <1>4, <1>5, BasisKept
<1>9. Reads'
  BY <1>1, <1>3, <1>5, <1>7, <1>8 DEF Reads, ReadBasis, Calling
<1> QED
  BY <1>2, <1>5, <1>6, <1>9 DEF Inv

LEMMA FallBackStep ==
  ASSUME Inv, FallBack
  PROVE  Inv'
<1>1. /\ pc = "failed" /\ word = None /\ pc' = "start" /\ word' = 0
      /\ UNCHANGED <<hart, call, value, at, got, next, ignoreLast, saved>>
      /\ UNCHANGED <<buffer, outside, result, delay, job>>
  BY DEF FallBack, control, burst, output
<1>2. Types /\ job.op = "read"
  BY <1>1, Regions DEF Inv, Writes
<1>3. Clean
  BY <1>1, <1>2 DEF Inv, Reads, AtFailed
<1>4. UNCHANGED <<data0, s0, s1, command, running, cmderr, auto, mem, bus>>
  BY <1>1 DEF hart
<1>5. job.count \in Nat \ {0} /\ job.address \in Nat
  BY <1>2, Regions
<1>6. Types'
  <2>1. HartTypes' /\ pc' \in Labels
    BY <1>1, <1>2, ModuleTypes DEF Labels
  <2>2. word' \in None .. job.count - 1
    BY <1>1, <1>5 DEF None
  <2> QED
    BY <1>1, <1>2, <2>1, <2>2 DEF Types, DebuggerTypes, Region
<1>7. word' # None /\ Base' = job.address
  BY <1>1, <1>5 DEF None, Base
<1>8. Before'
  BY <1>1, <1>5, <1>7 DEF Before, Region
<1>9. AtStart'
  BY <1>3, <1>4, <1>7 DEF AtStart, Clean, Quiescent
<1>10. mem' = Content /\ result' = "ok" /\ (outside' => job'.address + 1 \in job'.faulting)
  BY <1>1, <1>2, <1>4 DEF Inv, Reads
<1>11. Reads'
  BY <1>1, <1>7, <1>8, <1>9, <1>10 DEF Reads, Calling
<1> QED
  BY <1>1, <1>2, <1>6, <1>11 DEF Inv

-----------------------------------------------------------------------------
(* Writing. *)

LEMMA StoredStep ==
  ASSUME Inv, Stored
  PROVE  Inv'
<1>1. /\ pc = "stored" /\ pc' = "fill" /\ WriteAuto(TRUE) /\ at' = at + 1
      /\ UNCHANGED <<call, value, got, next, ignoreLast, saved>>
      /\ UNCHANGED <<buffer, outside, job, word, result, delay>>
  BY DEF Stored, control, output, account
<1>2. Types /\ job.op = "write"
  BY <1>1, Regions DEF Inv, Reads
<1>3. Clean /\ Storing /\ Ahead = at + 1 /\ command = "store" /\ result = "ok"
  BY <1>1, <1>2 DEF Inv, Writes, Calling
<1>4. UNCHANGED <<data0, s0, s1, command, running, cmderr, mem, bus>> /\ auto' = TRUE
  BY <1>1, <1>2, <1>3, WhenIdle DEF Clean
<1>5. Types'
  <2>1. HartTypes' /\ pc' \in Labels
    BY <1>1, <1>2, ModuleTypes DEF Labels
  <2>2. at' \in Int
    BY <1>1, <1>2 DEF Types, DebuggerTypes
  <2> QED
    BY <1>1, <1>2, <2>1, <2>2 DEF Types, DebuggerTypes, Region, None
<1>6. UNCHANGED <<Ahead, Beyond, Begun>>
  BY <1>1, <1>4, Same
<1>7. Standing' /\ at' = Ahead'
  BY <1>1, <1>3, <1>4, <1>6 DEF Standing, Storing, Clean, Quiescent
<1>8. WriteBasis'
  BY <1>1, <1>2, <1>4, BasisKept
<1>9. Writes'
  BY <1>1, <1>3, <1>7, <1>8 DEF Writes, WriteBasis, Calling
<1> QED
  BY <1>1, <1>2, <1>5, <1>9 DEF Inv

LEMMA WriteBatchStep ==
  ASSUME Inv, WriteBatch
  PROVE  Inv'
<1>1. /\ pc \in {"write", "fill"} /\ got' = <<>> /\ pc' = "batch"
      /\ UNCHANGED <<hart, call, value, at, next, ignoreLast, saved>>
      /\ UNCHANGED <<buffer, outside, job, word, result, delay>>
  BY DEF WriteBatch, NewBatch, control, output, account
<1>2. Types /\ job.op = "write"
  BY <1>1, Regions DEF Inv, Reads
<1>3. Standing /\ at = Ahead /\ word = None /\ result = "ok"
  BY <1>1, <1>2 DEF Inv, Writes, Calling
<1>4. UNCHANGED <<data0, s0, s1, command, running, cmderr, auto, mem, bus>>
  BY <1>1 DEF hart
<1>5. Types'
  <2>1. HartTypes' /\ pc' \in Labels /\ got' \in Seq(Int)
    BY <1>1, <1>2, ModuleTypes DEF Labels
  <2> QED
    BY <1>1, <1>2, <2>1 DEF Types, DebuggerTypes, Region, None
<1>6. UNCHANGED <<Ahead, Beyond, Want, Begun>>
  BY <1>1, <1>4, Same
<1>7. ~HasLost' /\ Len(got') = 0
  BY <1>1 DEF HasLost
<1>8. /\ Begun = Ahead /\ Ahead <= Beyond /\ ~running /\ cmderr = "none" /\ auto /\ command = "store"
      /\ Ahead \in Nat /\ Beyond \in Nat /\ Want \in Int /\ Want >= 0
  <2>1. ~running /\ cmderr = "none" /\ auto /\ command = "store" /\ Begun <= Beyond
    BY <1>3 DEF Standing, Quiescent, Storing
  <2>2. Begun = Ahead /\ Ahead \in Nat /\ Beyond \in Nat
    BY <1>2, <2>1, Counts, Regions DEF InFlight
  <2>3. Fin = Beyond
    BY <1>2, <1>3, Regions
  <2> QED
    BY <1>2, <1>3, <2>1, <2>2, <2>3, Wants
<1>9. AtWriteBatch'
  <2>1. Storing'
    BY <1>3, <1>4, <1>6 DEF Standing, Storing
  <2>2. at' <= Beyond' /\ Len(got') <= Want' /\ Begun' <= at' + Len(got') /\ Begun' = at' + Len(got')
    BY <1>1, <1>3, <1>6, <1>7, <1>8
  <2> QED
    BY <1>4, <1>7, <1>8, <2>1, <2>2 DEF AtWriteBatch
<1>10. WriteBasis'
  BY <1>1, <1>2, <1>4, BasisKept
<1>11. Writes'
  BY <1>1, <1>3, <1>9, <1>10 DEF Writes, WriteBasis, Calling
<1> QED
  BY <1>1, <1>2, <1>5, <1>11 DEF Inv

\* An access of a batch of writes: it begins the next store, or the program was running
\* and the access is void, or there was an error.
LEMMA WriteAccess ==
  ASSUME Types, word = None, AtWriteBatch, Len(got) < Want, WriteData0(Data[at + Len(got)]),
         UNCHANGED <<at, job, word>>
  PROVE  /\ Storing' /\ HartTypes' /\ UNCHANGED <<bus, mem, Ahead, Beyond, Stuck, Want>>
         /\ Begun' <= at + Len(got) + 1
         /\ running' => command' = "store" /\ data0' = Data[Ahead]
         /\ cmderr' = "none" => auto' /\ command' = "store" /\ Begun' = at + Len(got) + 1
         /\ cmderr' = "exception" => Stuck
<1>1. /\ UNCHANGED <<s0, s1, command, auto, mem, bus>> /\ Busy
      /\ running' = (running \/ (auto /\ cmderr = "none"))
      /\ data0' = IF running THEN data0 ELSE Data[at + Len(got)]
  BY DEF WriteData0, Access
<1>2. UNCHANGED <<Ahead, Beyond, Stuck, Want>>
  BY <1>1, Same
<1>3. /\ Storing /\ Len(got) \in Nat /\ at \in Int /\ Want \in Int /\ ~HasLost
      /\ cmderr \in {"none", "busy", "exception"} /\ running \in BOOLEAN
      /\ Begun \in Nat /\ Ahead \in Nat /\ Beyond \in Nat /\ Want <= Beyond - at
      /\ Begun <= at + Len(got) /\ Ahead <= Begun
  <2>1. Fin = Beyond /\ Beyond \in Nat
    BY Regions
  <2>2. Len(got) \in Nat /\ at \in Int /\ Want \in Int
    BY Wants DEF Types, DebuggerTypes
  <2> QED
    BY <2>1, <2>2, Wants, Counts DEF AtWriteBatch, Types, HartTypes
<1>4. Data[at + Len(got)] \in Values
  <2>1. at + Len(got) \in Nat /\ at + Len(got) < Beyond
    BY <1>3
  <2>2. Beyond < AddrSpace /\ AddrSpace \in Nat
    BY Regions DEF Beyond
  <2>3. at + Len(got) \in Addresses
    BY <1>3, <2>1, <2>2 DEF Addresses
  <2> QED
    BY <2>3, Contents DEF Values, Lost
<1>5. HartTypes'
  BY <1>4, ModuleTypes
<1>6. CASE running \/ cmderr # "none"
  <2>1. running' = running /\ cmderr' # "none" /\ (cmderr' = "exception" => cmderr = "exception")
    BY <1>1, <1>3, <1>6 DEF Busy
  <2>2. UNCHANGED Begun
    BY <1>1, <2>1, Same
  <2>3. Storing'
    BY <1>1, <1>2, <1>3, <2>2 DEF Storing
  <2>4. Begun' <= at + Len(got) + 1
    BY <1>3, <2>2
  <2>5. running => command = "store" /\ data0 = Data[Ahead]
    BY DEF AtWriteBatch
  <2>6. cmderr = "exception" => Stuck
    BY DEF AtWriteBatch
  <2> QED
    BY <1>1, <1>2, <1>5, <2>1, <2>3, <2>4, <2>5, <2>6
<1>7. CASE ~running /\ cmderr = "none"
  <2>1. auto /\ command = "store" /\ Begun = at + Len(got)
    BY <1>3, <1>7 DEF AtWriteBatch
  <2>2. running' = TRUE /\ cmderr' = "none"
    BY <1>1, <1>7, <2>1 DEF Busy
  <2>3. Begun = Ahead /\ Begun' = Ahead + 1
    BY <1>1, <1>2, <1>3, <1>7, <2>1, <2>2 DEF Begun, InFlight
  <2>4. Storing'
    <3>1. Begun' <= Beyond
      BY <1>3, <2>1, <2>3
    <3> QED
      BY <1>1, <1>2, <1>3, <3>1 DEF Storing
  <2>5. data0' = Data[Ahead]
    BY <1>1, <1>7, <2>1, <2>3
  <2> QED
    BY <1>1, <1>2, <1>3, <1>5, <2>1, <2>2, <2>3, <2>4, <2>5
<1> QED
  BY <1>6, <1>7

LEMMA BatchAccessWrite ==
  ASSUME Inv, BatchAccess, job.op = "write"
  PROVE  Inv'
<1>1. /\ pc = "batch" /\ pc' = "batch" /\ Len(got) < Want /\ WriteData0(Data[at + Len(got)])
      /\ got' = Append(got, Seen)
      /\ UNCHANGED <<call, value, at, next, ignoreLast, saved>>
      /\ UNCHANGED <<buffer, outside, job, word, result, delay>>
  BY DEF BatchAccess, BatchRest, control, output, account
<1>2. Types /\ AtWriteBatch /\ word = None /\ result = "ok"
  BY <1>1 DEF Inv, Writes, Calling
<1>3. Seen \in Int /\ Seen # Lost
  BY <1>2 DEF Seen, Types, HartTypes, Values, Lost, Garbage
<1>4. /\ got' \in Seq(Int) /\ Len(got') = Len(got) + 1 /\ Len(got) \in Nat /\ got \in Seq(Int)
      /\ \A k \in DOMAIN got' : k \in 1 .. Len(got) + 1 /\ (k <= Len(got) => k \in DOMAIN got)
      /\ \A k \in 1 .. Len(got) + 1 : got'[k] = IF k = Len(got) + 1 THEN Seen ELSE got[k]
  BY <1>1, <1>2, <1>3 DEF Types, DebuggerTypes
<1>5. /\ Storing' /\ HartTypes' /\ UNCHANGED <<bus, mem, Ahead, Beyond, Stuck, Want>>
      /\ Begun' <= at + Len(got) + 1
      /\ running' => command' = "store" /\ data0' = Data[Ahead]
      /\ cmderr' = "none" => auto' /\ command' = "store" /\ Begun' = at + Len(got) + 1
      /\ cmderr' = "exception" => Stuck
  BY <1>1, <1>2, WriteAccess
<1>6. Types'
  <2>1. pc' \in Labels
    BY <1>1 DEF Labels
  <2> QED
    BY <1>1, <1>2, <1>4, <1>5, <2>1 DEF Types, DebuggerTypes, Region, None
<1>7. Want \in Int /\ at \in Int /\ at <= Beyond /\ ~HasLost
  BY <1>1, <1>2, <1>4, Wants DEF AtWriteBatch, Types, DebuggerTypes
<1>8. ~HasLost'
  BY <1>3, <1>4, <1>7 DEF HasLost
<1>9. AtWriteBatch'
  <2>1. at' <= Beyond' /\ Len(got') <= Want' /\ Begun' <= at' + Len(got')
        /\ (cmderr' = "none" => Begun' = at' + Len(got'))
    BY <1>1, <1>4, <1>5, <1>7
  <2> QED
    BY <1>5, <1>8, <2>1 DEF AtWriteBatch
<1>10. WriteBasis'
  BY <1>1, <1>5, BasisKept
<1>11. Writes'
  BY <1>1, <1>2, <1>9, <1>10 DEF Writes, WriteBasis, Calling
<1> QED
  BY <1>1, <1>6, <1>11 DEF Inv

LEMMA BatchLostWrite ==
  ASSUME Inv, BatchLost, job.op = "write"
  PROVE  Inv'
<1>1. /\ pc = "batch" /\ pc' = "batch" /\ Len(got) < Want
      /\ UNCHANGED hart \/ WriteData0(Data[at + Len(got)])
      /\ got' = got \o [i \in 1 .. Want - Len(got) |-> Lost]
      /\ UNCHANGED <<call, value, at, next, ignoreLast, saved>>
      /\ UNCHANGED <<buffer, outside, job, word, result, delay>>
  BY DEF BatchLost, BatchRest, control, output, account
<1>2. Types /\ AtWriteBatch /\ word = None /\ result = "ok"
  BY <1>1 DEF Inv, Writes, Calling
<1>3. got' \in Seq(Int) /\ Len(got') = Want /\ HasLost' /\ Len(got) \in Nat
  BY <1>1, <1>2, LosesRest
<1>4. /\ Storing' /\ HartTypes' /\ UNCHANGED <<bus, mem, Ahead, Beyond, Stuck, Want>>
      /\ Begun' <= at + Want
      /\ running' => command' = "store" /\ data0' = Data[Ahead]
      /\ cmderr' = "none" => auto' /\ command' = "store"
      /\ cmderr' = "exception" => Stuck
  <2>1. Want \in Int /\ at \in Int /\ Begun \in Nat
    BY <1>2, Wants, Counts DEF Types, DebuggerTypes
  <2>2. CASE WriteData0(Data[at + Len(got)])
    <3>1. /\ Storing' /\ HartTypes' /\ UNCHANGED <<bus, mem, Ahead, Beyond, Stuck, Want>>
          /\ Begun' <= at + Len(got) + 1
          /\ running' => command' = "store" /\ data0' = Data[Ahead]
          /\ cmderr' = "none" => auto' /\ command' = "store"
          /\ cmderr' = "exception" => Stuck
      BY <1>1, <1>2, <2>2, WriteAccess
    <3>2. Begun' \in Int
      <4>1. Ahead' \in Nat
        BY <1>2, <3>1, Counts
      <4> QED
        BY <4>1 DEF Begun
    <3> QED
      BY <1>1, <1>3, <2>1, <3>1, <3>2
  <2>3. CASE UNCHANGED hart
    <3>1. UNCHANGED <<data0, s0, s1, command, running, cmderr, auto, mem, bus>>
      BY <2>3 DEF hart
    <3>2. UNCHANGED <<Ahead, Beyond, Stuck, Want, Begun>>
      BY <1>1, <3>1, Same
    <3>3. HartTypes'
      BY <1>2, <2>3, ModuleTypes
    <3>4. Storing' /\ Begun' <= at + Len(got)
      BY <1>2, <3>1, <3>2 DEF AtWriteBatch, Storing
    <3> QED
      BY <1>1, <1>2, <1>3, <2>1, <3>1, <3>2, <3>3, <3>4 DEF AtWriteBatch
  <2> QED
    BY <1>1, <2>2, <2>3
<1>5. Types'
  <2>1. pc' \in Labels
    BY <1>1 DEF Labels
  <2> QED
    BY <1>1, <1>2, <1>3, <1>4, <2>1 DEF Types, DebuggerTypes, Region, None
<1>6. AtWriteBatch'
  <2>1. Want \in Int /\ at <= Beyond
    BY <1>2, Wants DEF AtWriteBatch
  <2>2. at' <= Beyond' /\ Len(got') <= Want' /\ Len(got') = Want' /\ Begun' <= at' + Len(got')
    BY <1>1, <1>3, <1>4, <2>1
  <2> QED
    BY <1>3, <1>4, <2>2 DEF AtWriteBatch
<1>7. WriteBasis'
  BY <1>1, <1>4, BasisKept
<1>8. Writes'
  BY <1>1, <1>2, <1>6, <1>7 DEF Writes, WriteBasis, Calling
<1> QED
  BY <1>1, <1>5, <1>8 DEF Inv

LEMMA BatchWrittenStep ==
  ASSUME Inv, BatchWritten
  PROVE  Inv'
<1>1. /\ pc = "batch" /\ Len(got) = Want /\ ~running /\ job.op = "write" /\ cmderr = "none" /\ ~WasLost
      /\ pc' = "write" /\ at' = at + Want
      /\ UNCHANGED <<hart, call, value, got, next, ignoreLast, saved>>
      /\ UNCHANGED <<buffer, outside, job, word, result, delay>>
  BY DEF BatchWritten, BatchDone, control, output, account
<1>2. Types /\ AtWriteBatch /\ word = None /\ result = "ok"
  BY <1>1 DEF Inv, Writes, Calling
<1>3. UNCHANGED <<data0, s0, s1, command, running, cmderr, auto, mem, bus>>
  BY <1>1 DEF hart
<1>4. ~HasLost
  <2>1. got \in Seq(Int)
    BY <1>2 DEF Types, DebuggerTypes
  <2>2. DOMAIN got = 1 .. Want
    BY <1>1, <2>1
  <2> QED
    BY <1>1, <2>2 DEF HasLost, WasLost
<1>5. Begun = at + Want /\ auto /\ command = "store" /\ Storing
  BY <1>1, <1>2, <1>4 DEF AtWriteBatch
<1>6. Begun = Ahead
  BY <1>1, <1>2, Counts DEF InFlight
<1>7. Types'
  <2>1. HartTypes' /\ pc' \in Labels
    BY <1>1, <1>2, ModuleTypes DEF Labels
  <2>2. at' \in Int
    BY <1>1, <1>2, Wants DEF Types, DebuggerTypes
  <2> QED
    BY <1>1, <1>2, <2>1, <2>2 DEF Types, DebuggerTypes, Region, None
<1>8. UNCHANGED <<Ahead, Beyond, Begun>>
  BY <1>1, <1>3, Same
<1>9. Standing' /\ at' = Ahead'
  BY <1>1, <1>3, <1>5, <1>6, <1>8 DEF Standing, Storing, Quiescent
<1>10. WriteBasis'
  BY <1>1, <1>3, BasisKept
<1>11. Writes'
  BY <1>1, <1>2, <1>9, <1>10 DEF Writes, WriteBasis, Calling
<1> QED
  BY <1>1, <1>7, <1>11 DEF Inv

LEMMA WriteWasBusyStep ==
  ASSUME Inv, WriteWasBusy
  PROVE  Inv'
<1>1. /\ pc = "batch" /\ ~running /\ job.op = "write" /\ ClearError /\ pc' = "write recover" /\ SlowDown
      /\ UNCHANGED <<call, value, at, got, next, ignoreLast, saved>>
      /\ UNCHANGED <<buffer, outside, job, word, result>>
  BY DEF WriteWasBusy, BatchDone, control, burst, output
<1>2. Types /\ AtWriteBatch /\ word = None /\ result = "ok"
  BY <1>1 DEF Inv, Writes, Calling
<1>3. cmderr' = "none" /\ UNCHANGED <<data0, s0, s1, command, running, auto, mem, bus>>
  BY <1>1 DEF ClearError
<1>4. Types'
  <2>1. HartTypes' /\ pc' \in Labels /\ delay' \in 0 .. DelayMax
    BY <1>1, <1>2, ModuleTypes, SlowsDown DEF Labels
  <2> QED
    BY <1>1, <1>2, <2>1 DEF Types, DebuggerTypes, Region, None
<1>5. UNCHANGED <<Ahead, Beyond, Begun>>
  BY <1>1, <1>3, Same
<1>6. Storing' /\ Quiescent'
  BY <1>1, <1>2, <1>3, <1>5 DEF AtWriteBatch, Storing, Quiescent
<1>7. WriteBasis'
  BY <1>1, <1>3, BasisKept
<1>8. Writes'
  BY <1>1, <1>2, <1>6, <1>7 DEF Writes, WriteBasis, Calling
<1> QED
  BY <1>1, <1>4, <1>8 DEF Inv

LEMMA WriteFaultedStep ==
  ASSUME Inv, WriteFaulted
  PROVE  Inv'
<1>1. /\ pc = "batch" /\ ~running /\ job.op = "write" /\ cmderr = "exception" /\ ClearError
      /\ pc' = "write failed" /\ UNCHANGED <<control, burst, output, account>>
  BY DEF WriteFaulted, BatchDone, Quiet
<1>2. Types /\ AtWriteBatch /\ word = None /\ result = "ok"
  BY <1>1 DEF Inv, Writes, Calling
<1>3. cmderr' = "none" /\ UNCHANGED <<data0, s0, s1, command, running, auto, mem, bus>>
      /\ UNCHANGED <<job, word, outside, result>>
  BY <1>1 DEF ClearError, output, account
<1>4. Types'
  <2>1. HartTypes' /\ pc' \in Labels
    BY <1>1, <1>2, ModuleTypes DEF Labels
  <2> QED
    BY <1>1, <1>2, <2>1, OnlyPlace
<1>5. Faulty
  <2>1. Ahead < Beyond /\ ~Accessible(Ahead)
    BY <1>1, <1>2 DEF AtWriteBatch, Stuck
  <2>2. Ahead \in Region
    <3>1. Ahead \in Nat /\ job.address \in Nat /\ job.count \in Nat /\ Ahead >= job.address
      BY <1>2, Counts, Regions
    <3> QED
      BY <2>1, <3>1 DEF Region, Beyond
  <2> QED
    BY <2>1, <2>2 DEF Faulty
<1>6. Quiescent' /\ Faulty'
  BY <1>1, <1>3, <1>5, Same DEF Quiescent
<1>7. WriteBasis'
  BY <1>1, <1>3, BasisKept
<1>8. Writes'
  BY <1>1, <1>2, <1>3, <1>6, <1>7 DEF Writes, WriteBasis, Calling
<1> QED
  BY <1>1, <1>3, <1>4, <1>8 DEF Inv

LEMMA WriteRecoverStep ==
  ASSUME Inv, WriteRecover
  PROVE  Inv'
<1>1. /\ pc = "write recover" /\ pc' = "command" /\ WriteAuto(FALSE)
      /\ call' = [command |-> "read s0", value |-> 0, ok |-> "write again", fail |-> "write failed"]
      /\ UNCHANGED <<value, at, got, next, ignoreLast, saved>>
      /\ UNCHANGED <<buffer, outside, job, word, result, delay>>
  BY DEF WriteRecover, Execute, Call, Quiet, burst, output, account
<1>2. Types /\ job.op = "write"
  BY <1>1, Regions DEF Inv, Reads
<1>3. Storing /\ Quiescent /\ result = "ok" /\ word = None
  BY <1>1, <1>2 DEF Inv, Writes, Calling
<1>4. UNCHANGED <<data0, s0, s1, command, running, cmderr, mem, bus>> /\ auto' = FALSE
  BY <1>1, <1>2, <1>3, WhenIdle
<1>5. Types'
  <2>1. HartTypes'
    BY <1>1, <1>2, ModuleTypes
  <2>2. pc' \in Labels /\ call' \in [command : Commands, value : Nat, ok : Labels, fail : Labels]
    BY <1>1 DEF Labels, Commands
  <2> QED
    BY <1>1, <1>2, <2>1, <2>2 DEF Types, DebuggerTypes, Region, None
<1>6. UNCHANGED <<Ahead, Beyond, Begun>>
  BY <1>1, <1>4, Same
<1>7. Storing' /\ Quiescent'
  BY <1>3, <1>4, <1>6 DEF Storing, Quiescent
<1>8. call'.command = "read s0"
  BY <1>1
<1>9. Called'
  BY <1>1, <1>4, <1>7, <1>8 DEF Called, Puts
<1>10. CallAgain'
  BY <1>1, <1>3, <1>7, <1>9 DEF CallAgain, Issued
<1>11. WriteBasis'
  BY <1>1, <1>2, <1>4, BasisKept
<1>12. Writes'
  BY <1>1, <1>3, <1>10, <1>11 DEF Writes, WriteBasis, Calling
<1> QED
  BY <1>1, <1>2, <1>5, <1>12 DEF Inv

LEMMA WriteAgainStep ==
  ASSUME Inv, WriteAgain
  PROVE  Inv'
<1>1. /\ pc = "write again" /\ pc' = "set up" /\ at' = value
      /\ UNCHANGED <<hart, call, value, got, next, ignoreLast, saved>>
      /\ UNCHANGED <<buffer, outside, job, word, result, delay>>
  BY DEF WriteAgain, control, output, account
<1>2. Types /\ job.op = "write"
  BY <1>1, Regions DEF Inv, Reads
<1>3. Clean /\ value = Ahead /\ word = None /\ result = "ok"
  BY <1>1, <1>2 DEF Inv, Writes, Calling
<1>4. UNCHANGED <<data0, s0, s1, command, running, cmderr, auto, mem, bus>>
  BY <1>1 DEF hart
<1>5. Types'
  <2>1. HartTypes' /\ pc' \in Labels
    BY <1>1, <1>2, ModuleTypes DEF Labels
  <2>2. at' \in Int
    <3>1. Ahead \in Int
      BY <1>2, Counts
    <3>2. at' = Ahead
      BY <1>1, <1>3
    <3> QED
      BY <3>1, <3>2
  <2> QED
    BY <1>1, <1>2, <2>1, <2>2 DEF Types, DebuggerTypes, Region, None
<1>6. Clean' /\ at' = Ahead'
  BY <1>1, <1>3, <1>4, Same DEF Clean, Quiescent
<1>7. WriteBasis'
  BY <1>1, <1>2, <1>4, BasisKept
<1>8. Writes'
  BY <1>1, <1>3, <1>6, <1>7 DEF Writes, WriteBasis, Calling
<1> QED
  BY <1>1, <1>2, <1>5, <1>8 DEF Inv

LEMMA WriteEndsStep ==
  ASSUME Inv, WriteEnds
  PROVE  Inv'
<1>1. /\ \/ pc \in {"write", "set up"} /\ at >= Fin /\ UNCHANGED result
         \/ pc = "write failed" /\ result' = "fail"
      /\ pc' = "restore" /\ WriteAuto(FALSE)
      /\ UNCHANGED <<call, value, at, got, next, ignoreLast, saved>>
      /\ UNCHANGED <<buffer, outside, job, word, delay>>
  BY DEF WriteEnds, control, burst, output
<1>2. Types /\ job.op = "write"
  BY <1>1, Regions DEF Inv, Reads
<1>3. Writes
  BY <1>2 DEF Inv
<1>4. Quiescent /\ result = "ok" /\ word = None
  BY <1>1, <1>3 DEF Writes, Calling, Clean, Standing
<1>5. UNCHANGED <<data0, s0, s1, command, running, cmderr, mem, bus>> /\ auto' = FALSE
  BY <1>1, <1>2, <1>4, WhenIdle
<1>6. Types'
  <2>1. HartTypes' /\ pc' \in Labels
    BY <1>1, <1>2, ModuleTypes DEF Labels
  <2>2. result' \in {"ok", "fail"}
    BY <1>1, <1>4
  <2> QED
    BY <1>1, <1>2, <2>1, <2>2 DEF Types, DebuggerTypes, Region, None
<1>7. UNCHANGED <<Ahead, Beyond, Region, Faulty>>
  BY <1>1, <1>5, Same
<1>8. Finished' /\ (result' = "fail" => Faulty')
  <2>1. CASE pc \in {"write", "set up"} /\ at >= Fin /\ UNCHANGED result
    <3>1. at = Ahead
      BY <1>3, <2>1 DEF Writes
    <3>2. Ahead <= Beyond /\ Ahead \in Nat /\ Beyond \in Nat
      <4>1. Len(bus) <= job.count
        BY <1>3 DEF Writes, InOrder
      <4>2. Len(bus) \in Nat /\ job.count \in Nat /\ job.address \in Nat
        BY <1>2, Counts, Regions
      <4> QED
        BY <4>1, <4>2 DEF Ahead, Beyond
    <3>3. Fin = Beyond /\ at >= Fin
      BY <1>2, <1>4, <2>1, Regions
    <3>4. Ahead = Beyond
      BY <3>1, <3>2, <3>3
    <3> QED
      BY <1>4, <1>7, <2>1, <3>4 DEF Finished
  <2>2. CASE pc = "write failed" /\ result' = "fail"
    <3>1. Faulty
      BY <1>3, <2>2 DEF Writes
    <3> QED
      BY <1>7, <2>2, <3>1 DEF Finished
  <2> QED
    BY <1>1, <2>1, <2>2
<1>9. Clean'
  BY <1>4, <1>5 DEF Clean, Quiescent
<1>10. word' = None /\ ~outside' /\ InOrder(bus)' /\ Written'
  <2>1. Written /\ InOrder(bus) /\ ~outside
    BY <1>3 DEF Writes
  <2> QED
    BY <1>1, <1>4, <1>5, <1>7, <2>1 DEF InOrder, Written
<1>11. Writes'
  BY <1>1, <1>8, <1>9, <1>10 DEF Writes, Calling
<1> QED
  BY <1>1, <1>2, <1>6, <1>11 DEF Inv

-----------------------------------------------------------------------------
(* The theorems. *)

LEMMA InitInv ==
  ASSUME Init
  PROVE  Inv
<1>1. /\ job \in Jobs /\ data0 = Garbage /\ s0 = OldS0 /\ s1 = OldS1 /\ command = "read s1"
      /\ running = FALSE /\ cmderr = "none" /\ auto = FALSE /\ mem = Content /\ bus = <<>>
      /\ pc = IF job.op = "read" THEN "start" ELSE "set up"
      /\ value = 0 /\ word = None /\ at = job.address /\ next = 0 /\ ignoreLast = 0 /\ got = <<>>
      /\ saved = Garbage /\ buffer = [a \in Region |-> 0] /\ delay = 0 /\ result = "ok"
      /\ outside = FALSE
      /\ call = [command |-> "read s1", value |-> 0, ok |-> "done", fail |-> "done"]
  BY DEF Init
<1>2. /\ job \in [op : {"read", "write"}, address : Nat, count : Nat,
                  faulting : SUBSET Addresses, lossy : BOOLEAN]
      /\ job.count >= (IF job.op = "read" THEN 2 ELSE 1)
  BY <1>1, JobAssumption
<1>3. job.op \in {"read", "write"} /\ job.address \in Nat /\ job.count \in Nat /\ job.count >= 1
  BY <1>2
<1>4. /\ Content \in [Addresses -> Nat] /\ OldS0 \in Nat /\ OldS1 \in Nat /\ DelayMax \in Nat
  BY ValueAssumption, AddrAssumption
<1>5. /\ bus = <<>> /\ word = None /\ at = job.address /\ got = <<>> /\ delay = 0
      /\ value = 0 /\ saved = Garbage /\ next = 0 /\ ignoreLast = 0
  BY <1>1
<1>6. HartTypes
  <2>1. Garbage \in Values /\ OldS0 \in Values /\ OldS1 \in Values /\ Content \in [Addresses -> Values]
    BY <1>4 DEF Values, Garbage, Lost
  <2>2. bus \in Seq(Addresses)
    BY <1>5
  <2>3. command \in Commands
    BY <1>1 DEF Commands
  <2> QED
    BY <1>1, <2>1, <2>2, <2>3 DEF HartTypes
<1>7. DebuggerTypes
  <2>1. pc \in Labels /\ call \in [command : Commands, value : Nat, ok : Labels, fail : Labels]
    BY <1>1 DEF Labels, Commands
  <2>2. value \in Values /\ saved \in Values /\ got \in Seq(Int)
    BY <1>5 DEF Values, Garbage, Lost
  <2>3. word \in None .. job.count - 1 /\ delay \in 0 .. DelayMax /\ at \in Int
    BY <1>3, <1>4, <1>5 DEF None
  <2>4. next \in Int /\ ignoreLast \in 0 .. 1
    BY <1>5
  <2>5. buffer \in [Region -> Int] /\ outside \in BOOLEAN /\ result \in {"ok", "fail"}
    <3>1. buffer = [a \in Region |-> 0]
      BY <1>1
    <3>2. buffer \in [Region -> Int]
      BY <3>1
    <3> QED
      BY <1>1, <3>2
  <2> QED
    BY <2>1, <2>2, <2>3, <2>4, <2>5 DEF DebuggerTypes
<1>8. Clean /\ Ahead = job.address
  <2>1. Len(bus) = 0
    BY <1>5
  <2>2. Ahead = job.address
    BY <1>3, <2>1 DEF Ahead
  <2> QED
    BY <1>1, <2>2 DEF Clean, Quiescent
<1>9. InOrder(bus)
  <2>1. Len(bus) = 0
    BY <1>5
  <2> QED
    BY <1>3, <2>1 DEF InOrder
<1>10. job.op = "read" => Reads
  BY <1>1, <1>8, <1>9 DEF Reads, AtStart, Calling
<1>11. Written
  <2>1. \A a \in Addresses : Content[a] = IF a \in Region /\ a < Ahead THEN Data[a] ELSE Content[a]
    BY <1>3, <1>8 DEF Region
  <2> QED
    BY <1>1, <1>4, <2>1 DEF Written
<1>12. job.op = "write" => Writes
  BY <1>1, <1>8, <1>9, <1>11 DEF Writes, Calling
<1> QED
  BY <1>1, <1>6, <1>7, <1>10, <1>12 DEF Inv, Types

LEMMA BatchSteps ==
  ASSUME Inv, BatchAccess \/ BatchLost
  PROVE  Inv'
<1>1. job.op \in {"read", "write"}
  BY Regions DEF Inv
<1> QED
  BY <1>1, BatchAccessRead, BatchAccessWrite, BatchLostRead, BatchLostWrite

LEMMA RegisterSteps ==
  ASSUME Inv, Registers
  PROVE  Inv'
  BY ArgumentStep, CommandStep, WaitForIdleStep, ResultStep DEF Registers

LEMMA ReadingSteps ==
  ASSUME AboveZero, Inv, Reading
  PROVE  Inv'
<1>1. ASSUME Start \/ FirstLoad \/ Autoexec \/ Kick \/ ReadBatch \/ AllRead \/ BatchRead
      PROVE  Inv'
  BY <1>1, StartStep, FirstLoadStep, AutoexecStep, KickStep, ReadBatchStep, AllReadStep, BatchReadStep
<1>2. ASSUME ReadWasBusy \/ ReadFaulted \/ Recover \/ SaveData \/ Resume \/ Rearm \/ Collect
      PROVE  Inv'
  BY <1>2, ReadWasBusyStep, ReadFaultedStep, RecoverStep, SaveDataStep, ResumeStep, RearmStep, CollectStep
<1>3. ASSUME Penultimate \/ LastWord \/ StoreLast \/ Error \/ FallBack \/ WordFailed
      PROVE  Inv'
  BY <1>3, PenultimateStep, LastWordStep, StoreLastStep, ErrorStep, FallBackStep, WordFailedStep
<1> QED
  BY <1>1, <1>2, <1>3 DEF Reading

LEMMA WritingSteps ==
  ASSUME Inv, Writing
  PROVE  Inv'
<1>1. ASSUME SetUp \/ FirstStore \/ Stored \/ WriteBatch \/ BatchWritten
      PROVE  Inv'
  BY <1>1, SetUpStep, FirstStoreStep, StoredStep, WriteBatchStep, BatchWrittenStep
<1>2. ASSUME WriteWasBusy \/ WriteFaulted \/ WriteRecover \/ WriteAgain \/ WriteEnds
      PROVE  Inv'
  BY <1>2, WriteWasBusyStep, WriteFaultedStep, WriteRecoverStep, WriteAgainStep, WriteEndsStep
<1> QED
  BY <1>1, <1>2 DEF Writing

LEMMA Stutters ==
  ASSUME Inv, UNCHANGED vars
  PROVE  Inv'
<1>1. UNCHANGED <<data0, s0, s1, command, running, cmderr, auto, mem, bus>>
  BY DEF vars, hart
<1>2. /\ UNCHANGED <<pc, call, value, at, got, next, ignoreLast, saved>>
      /\ UNCHANGED <<buffer, outside, job, word, result, delay>>
  BY DEF vars, control, burst, output, account
<1>3. Types'
  BY <1>1, <1>2 DEF Inv, Types, HartTypes, DebuggerTypes, Region
<1>4. /\ UNCHANGED <<Base, Size, Fin, Beyond, Ahead, Stuck, Faulty, AWord, Before, All, Want, Begun, Sync>>
      /\ UNCHANGED <<Clean, Quiescent, Returned, Effect, Region>>
      /\ \A n : Filled(n)' = Filled(n)
      /\ \A n : GoodTo(n)' = GoodTo(n)
  <2>1. UNCHANGED <<Base, Size, Fin, Beyond, Ahead, Stuck, Faulty, AWord, Before, All, Want, Begun, Sync, Region>>
    BY <1>1, <1>2, Same
  <2>2. UNCHANGED <<Clean, Quiescent, Returned, Effect>>
    BY <1>1, <1>2 DEF Clean, Quiescent, Returned, Effect
  <2>3. \A n : Filled(n)' = Filled(n)
    BY <1>1, <1>2, <2>1 DEF Filled
  <2>4. \A n : GoodTo(n)' = GoodTo(n)
    BY <1>1, <1>2, <2>1 DEF GoodTo
  <2> QED
    BY <2>1, <2>2, <2>3, <2>4
<1>5. UNCHANGED <<Called, HasLost, Fresh, Bursting, Unfinished, Saved, Resumed, Ending, Ended>>
  <2>1. UNCHANGED <<Called, HasLost, Fresh, Bursting, Ended, Ending>>
    BY <1>1, <1>2, <1>4 DEF Called, HasLost, Fresh, Bursting, Ended, Ending
  <2>2. UNCHANGED <<Unfinished, Resumed>>
    BY <1>1, <1>2, <1>4, <2>1 DEF Unfinished, Resumed
  <2>3. UNCHANGED Saved
    BY <1>1, <1>2, <1>4, <2>2 DEF Saved
  <2> QED
    BY <2>1, <2>2, <2>3
<1>6. UNCHANGED <<CallStart, CallLoad, CallS0, CallS1, CallRestore0, CallRestore1>>
  <2>1. UNCHANGED <<CallStart, CallS0, CallRestore0, CallRestore1>>
    BY <1>1, <1>2, <1>4, <1>5 DEF Issued, CallStart, CallS0, CallRestore0, CallRestore1
  <2>2. UNCHANGED CallS1
    BY <1>1, <1>2, <1>4, <1>5 DEF Issued, CallS1
  <2>3. UNCHANGED CallLoad
    BY <1>1, <1>2, <1>4, <1>5 DEF Issued, CallLoad, Accessible
  <2> QED
    BY <2>1, <2>2, <2>3
<1>7. /\ UNCHANGED <<AtStart, AtFirst, AtAutoexec, AtKick, AtBurst, AtReadBatch, AtRecover, AtSave>>
      /\ UNCHANGED <<AtResume, AtRearm, AtCollect, AtPenultimate, AtLastWord, AtStoreLast, AtError>>
      /\ UNCHANGED <<AtFailed, AtRestore, InOrder(bus)>>
  <2>1. UNCHANGED <<AtStart, AtFirst, AtAutoexec, AtKick, AtBurst, AtReadBatch, AtRecover, AtSave>>
    BY <1>1, <1>2, <1>4, <1>5
       DEF AtStart, AtFirst, AtAutoexec, AtKick, AtBurst, AtReadBatch, AtRecover, AtSave
  <2>2. UNCHANGED <<AtResume, AtRearm, AtCollect, AtPenultimate, AtLastWord, AtStoreLast, AtError>>
    BY <1>1, <1>2, <1>4, <1>5
       DEF AtResume, AtRearm, AtCollect, AtPenultimate, AtLastWord, AtStoreLast, AtError
  <2>3. UNCHANGED <<AtFailed, AtRestore, InOrder(bus)>>
    BY <1>1, <1>2, <1>4 DEF AtFailed, AtRestore, InOrder, Accessible
  <2> QED
    BY <2>1, <2>2, <2>3
<1>8. job.op = "read" /\ Reads => Reads'
  <2>1. UNCHANGED <<pc, word, mem, result, outside, job, s0, s1, Before>>
    BY <1>1, <1>2, <1>4
  <2>2. (CallStart => CallStart') /\ (CallLoad => CallLoad') /\ (CallS0 => CallS0')
        /\ (CallS1 => CallS1') /\ (CallRestore0 => CallRestore0') /\ (CallRestore1 => CallRestore1')
    BY <1>6
  <2>3. (AtStart => AtStart') /\ (AtFirst => AtFirst') /\ (AtAutoexec => AtAutoexec')
        /\ (AtKick => AtKick') /\ (AtBurst => AtBurst') /\ (AtReadBatch => AtReadBatch')
        /\ (AtCollect => AtCollect') /\ (AtRecover => AtRecover') /\ (AtSave => AtSave')
    BY <1>7
  <2>4. (AtResume => AtResume') /\ (AtRearm => AtRearm') /\ (AtPenultimate => AtPenultimate')
        /\ (AtLastWord => AtLastWord') /\ (AtStoreLast => AtStoreLast') /\ (AtError => AtError')
        /\ (AtFailed => AtFailed') /\ (AtRestore => AtRestore') /\ (InOrder(bus) => InOrder(bus)')
        /\ (Before => Before')
    BY <1>7, <2>1
  <2>5. pc' = pc /\ word' = word /\ mem' = mem /\ result' = result /\ (outside' => outside) /\ job' = job
        /\ s0' = s0 /\ s1' = s1
    BY <2>1
  <2> SUFFICES ASSUME Reads
               PROVE  Reads'
    OBVIOUS
  <2>6. /\ mem' = Content /\ result' = "ok" /\ (outside' => job'.address + 1 \in job'.faulting)
        /\ (word' = None => InOrder(bus)')
        /\ (word' # None /\ pc' \notin {"restore", "restored", "done"} => Before')
    BY <2>4, <2>5 DEF Reads
  <2>7. pc' \in Calling =>
          CallStart' \/ CallLoad' \/ CallS0' \/ CallS1' \/ CallRestore0' \/ CallRestore1'
    BY <2>2, <2>5 DEF Reads
  <2>8. /\ pc' = "start" => AtStart'
        /\ pc' = "first" => AtFirst'
        /\ pc' = "autoexec" => AtAutoexec'
        /\ pc' = "kick" => AtKick'
        /\ pc' = "burst" => AtBurst'
        /\ pc' = "batch" => AtReadBatch'
        /\ pc' = "collect" => AtCollect'
        /\ pc' = "recover" => AtRecover'
        /\ pc' = "save" => AtSave'
    BY <2>3, <2>5 DEF Reads
  <2>9. /\ pc' = "resume" => AtResume'
        /\ pc' = "rearm" => AtRearm'
        /\ pc' = "penultimate" => AtPenultimate'
        /\ pc' = "last word" => AtLastWord'
        /\ pc' = "store last" => AtStoreLast'
        /\ pc' = "error" => AtError'
        /\ pc' = "failed" => AtFailed'
    BY <2>4, <2>5 DEF Reads
  <2>10. /\ pc' = "restore" => AtRestore'
         /\ pc' = "restored" => AtRestore' /\ s0' = OldS0
         /\ pc' = "done" => AtRestore' /\ s0' = OldS0 /\ s1' = OldS1
    BY <2>4, <2>5 DEF Reads
  <2>11. pc' \notin {"set up", "first store", "stored", "fill", "write", "write recover",
                      "write again", "write failed", "unrestored"}
    BY <2>5 DEF Reads
  <2> QED
    BY <2>6, <2>7, <2>8, <2>9, <2>10, <2>11 DEF Reads
<1>9. UNCHANGED <<Storing, Finished, Written>>
  BY <1>1, <1>2, <1>4 DEF Storing, Finished, Written
<1>10. UNCHANGED <<Standing, CallSetUp, CallStore, CallAgain, CallWRestore1, CallWRestore0>>
  <2>1. UNCHANGED <<Standing, CallSetUp, CallAgain, CallWRestore1, CallWRestore0>>
    BY <1>1, <1>2, <1>4, <1>5, <1>9
       DEF Standing, Issued, CallSetUp, CallAgain, CallWRestore1, CallWRestore0
  <2>2. UNCHANGED CallStore
    BY <1>1, <1>2, <1>4, <1>5, <1>9 DEF Issued, CallStore, Accessible
  <2> QED
    BY <2>1, <2>2
<1>11. UNCHANGED AtWriteBatch
  BY <1>1, <1>2, <1>4, <1>5, <1>9 DEF AtWriteBatch
<1>12. job.op = "write" /\ Writes => Writes'
  <2>1. UNCHANGED <<pc, at, word, value, command, result, outside, s0, s1, Ahead, Beyond, Clean, Quiescent, Faulty>>
    BY <1>1, <1>2, <1>4
  <2>2. (CallSetUp => CallSetUp') /\ (CallStore => CallStore') /\ (CallAgain => CallAgain')
        /\ (CallWRestore1 => CallWRestore1') /\ (CallWRestore0 => CallWRestore0')
    BY <1>10
  <2>3. (Storing => Storing') /\ (Standing => Standing') /\ (AtWriteBatch => AtWriteBatch')
        /\ (Finished => Finished') /\ (Faulty => Faulty') /\ (InOrder(bus) => InOrder(bus)')
        /\ (Written => Written') /\ (Clean => Clean') /\ (Quiescent => Quiescent')
    BY <1>7, <1>9, <1>10, <1>11, <2>1
  <2>4. pc' = pc /\ at' = at /\ word' = word /\ value' = value /\ command' = command /\ result' = result
        /\ (outside' => outside) /\ s0' = s0 /\ s1' = s1 /\ Ahead' = Ahead /\ Beyond' = Beyond
    BY <2>1
  <2> SUFFICES ASSUME Writes
               PROVE  Writes'
    OBVIOUS
  <2>5. /\ word' = None /\ ~outside' /\ InOrder(bus)' /\ Written' /\ (result' = "fail" => Faulty')
        /\ (pc' \in Calling =>
              CallSetUp' \/ CallStore' \/ CallAgain' \/ CallWRestore1' \/ CallWRestore0')
    BY <2>2, <2>3, <2>4 DEF Writes
  <2>6. /\ pc' = "set up" => Clean' /\ at' = Ahead'
        /\ pc' = "first store" => Clean' /\ Storing' /\ at' = Ahead' /\ at' < Beyond'
        /\ pc' = "stored" => Clean' /\ Storing' /\ Ahead' = at' + 1 /\ command' = "store"
        /\ pc' \in {"fill", "write"} => Standing' /\ at' = Ahead'
        /\ pc' = "batch" => AtWriteBatch'
    BY <2>3, <2>4 DEF Writes
  <2>7. /\ pc' = "write recover" => Storing' /\ Quiescent'
        /\ pc' = "write again" => Clean' /\ Ahead' <= Beyond' /\ value' = Ahead'
        /\ pc' = "write failed" => Quiescent' /\ Faulty'
        /\ pc' = "restore" => Clean' /\ Finished'
        /\ pc' = "restored" => Clean' /\ Finished' /\ s1' = OldS1
        /\ pc' = "done" => Clean' /\ Finished' /\ s1' = OldS1 /\ s0' = OldS0
    BY <2>3, <2>4 DEF Writes
  <2>8. /\ pc' \notin {"start", "first", "autoexec", "kick", "burst", "collect", "recover", "save",
                       "resume", "rearm", "penultimate", "last word", "store last", "error",
                       "failed", "unrestored"}
        /\ result' = "ok" \/ pc' \in Calling \cup {"restore", "restored", "done"}
    BY <2>4 DEF Writes
  <2> QED
    BY <2>5, <2>6, <2>7, <2>8 DEF Writes
<1> QED
  BY <1>1, <1>2, <1>3, <1>8, <1>12 DEF Inv

LEMMA Steps ==
  ASSUME AboveZero, Inv, [Next]_vars
  PROVE  Inv'
<1>1. CASE HartFinishes
  BY <1>1, HartSteps
<1>2. CASE Registers
  BY <1>2, RegisterSteps
<1>3. CASE BatchAccess \/ BatchLost
  BY <1>3, BatchSteps
<1>4. CASE Reading
  BY <1>4, ReadingSteps
<1>5. CASE Writing
  BY <1>5, WritingSteps
<1>6. CASE RestoreFirst \/ RestoreSecond
  BY <1>6, RestoreFirstStep, RestoreSecondStep
<1>7. CASE Done \/ UNCHANGED vars
  BY <1>7, Stutters DEF Done
<1> QED
  BY <1>1, <1>2, <1>3, <1>4, <1>5, <1>6, <1>7 DEF Next, Debugger

\* The proof outline holds of every access: at each place of the debugger the hart is
\* as far as its assertion says, whatever the hart's speed, the results that were lost
\* and the words that fault.
THEOREM Invariance ==
  ASSUME AboveZero
  PROVE  Spec => []Inv
<1>1. Init => Inv
  BY InitInv
<1>2. Inv /\ [Next]_vars => Inv'
  BY Steps
<1> QED
  BY <1>1, <1>2, PTL DEF Spec

\* Every variable keeps its type, and a batch never reaches past the end of the region.
THEOREM TypeCorrect ==
  ASSUME AboveZero
  PROVE  Spec => []TypeOK
<1>1. Inv => TypeOK
  <2> SUFFICES ASSUME Inv
               PROVE  TypeOK
    OBVIOUS
  <2>1. Types
    BY DEF Inv
  <2>2. /\ data0 \in Int /\ s0 \in Int /\ s1 \in Int /\ value \in Int /\ saved \in Int
        /\ mem \in [Addresses -> Int]
    BY <2>1 DEF Types, HartTypes, DebuggerTypes, Values
  <2>3. call \in [command : Commands, value : Int, ok : Labels, fail : Labels]
    BY <2>1 DEF Types, DebuggerTypes
  <2>4. ASSUME pc = "batch"
        PROVE  Len(got) <= Want /\ at + Want <= Fin
    <3>1. job.op \in {"read", "write"}
      BY <2>1, Regions
    <3>2. Len(got) <= Want
      BY <2>4, <3>1 DEF Inv, Reads, Writes, AtReadBatch, AtWriteBatch
    <3>3. Want \in Int /\ Want <= Fin - at /\ at \in Int /\ Fin \in Int
      BY <2>1, Wants, Regions DEF Types, DebuggerTypes, Size
    <3>4. at + Want <= Fin
      BY <3>3
    <3> QED
      BY <3>2, <3>4
  <2> QED
    BY <2>1, <2>2, <2>3, <2>4 DEF TypeOK, Types, HartTypes, DebuggerTypes
<1> QED
  BY <1>1, Invariance, PTL

\* In a burst the program accesses the words of the region in order, each of them once
\* (riscv-013.c:2775): a busy answer, lost results and the recovery repeat none and
\* leave none out.
THEOREM BurstInOrder ==
  ASSUME AboveZero
  PROVE  Spec => []EachOnce
<1>1. Inv => EachOnce
  <2> SUFFICES ASSUME Inv
               PROVE  EachOnce
    OBVIOUS
  <2>1. job.op \in {"read", "write"}
    BY Regions DEF Inv
  <2> QED
    BY <2>1 DEF Inv, Reads, Writes, EachOnce
<1> QED
  BY <1>1, Invariance, PTL

\* What read_memory and write_memory promise: a read gives the caller every word of the
\* region, a write stores every word and no other or fails for a word that faults, no
\* value is stored outside the caller's buffer, and the program's registers are put back.
THEOREM AccessCorrect ==
  ASSUME AboveZero
  PROVE  Spec => []AccessRight
<1>1. Inv => AccessRight
  <2> SUFFICES ASSUME Inv
               PROVE  AccessRight
    OBVIOUS
  <2>1. Types /\ job.op \in {"read", "write"}
    BY Regions DEF Inv
  <2>2. ReadRight
    BY DEF Inv, Reads, AtRestore, All, ReadRight
  <2>3. WriteRight
    <3> SUFFICES ASSUME pc = "done", job.op = "write"
                 PROVE  IF result = "ok"
                        THEN mem = [a \in Addresses |-> IF a \in Region THEN Data[a] ELSE Content[a]]
                        ELSE Faulty
      BY DEF WriteRight, Faulty
    <3>1. Finished /\ Written
      BY DEF Inv, Writes
    <3>2. CASE result = "ok"
      <4>1. Ahead = Beyond
        BY <3>1, <3>2 DEF Finished
      <4>2. \A a \in Region : a < Ahead
        BY <2>1, <4>1, Regions
      <4>3. mem = [a \in Addresses |-> IF a \in Region THEN Data[a] ELSE Content[a]]
        BY <3>1, <4>2 DEF Written
      <4> QED
        BY <3>2, <4>3
    <3>3. CASE result # "ok"
      BY <3>1, <3>3 DEF Finished
    <3> QED
      BY <3>2, <3>3
  <2>4. StoredInside
    BY <2>1 DEF Inv, Reads, Writes, StoredInside
  <2>5. Restored
    BY <2>1 DEF Inv, Reads, Writes, Restored
  <2> QED
    BY <2>2, <2>3, <2>4, <2>5 DEF AccessRight
<1> QED
  BY <1>1, Invariance, PTL
=============================================================================
