# OpenOCD (Microchip SoftConsole fork): TLA+ models, checks and proofs

OpenOCD sits between debuggers (GDB, telnet and TCL clients) and targets reached over a debug link
(JTAG or SWD). One host thread runs everything: `server_loop` (`src/server/server.c`) selects on the
sockets, runs each packet or command to its end, and calls the timer callbacks, target polling among
them, when nothing is readable. What runs beside that thread is what makes the code hard: the clients
and the network, the target's CPUs, the loaders downloaded into target RAM, and a link over which any
access can fail, with or without its effect.

Paths and line numbers below and in `PROJECT.json` are relative to
`src/openocd-softconsole-src/`.

## 1. Inventory

### Components, their state and their operations

| Component | State | Operations | What makes it correct |
|---|---|---|---|
| Streaming flash writer: `target_run_flash_async_algorithm` (`target.c`), `armv7m_wait_algorithm`, `contrib/loaders/flash/stm32/stm32f1x.S`, `stm32f1x.c` | ring, write and read pointer in target RAM; the host's locals; `running_alg`; the loader's registers; the flash | start, write a chunk, publish it, abort, wait, check; loader: wait, copy, busy, error | blocks reach flash in order, `ERROR_OK` means all of them, the call returns |
| Working areas (`target.c`) | list of areas, backups, the users' pointers | alloc, free, free all, free all at reset, avail | areas tile the region, the application's memory survives, pointers agree |
| GDB session (`gdb_server.c`) | `frontend_state`, `ctrl_c`, `sync`, `mem_write_error`, log callback, `gdb_running_type` | packets, target event callback, log callback, open, close | each request gets one answer, no halt is lost, an interrupt is answered |
| Target polling, halt and resume (`target.c`, `cortex_m.c`) | `state`, `halt_issued`, `halt_issued_time` | `target_poll`, `target_halt`, `target_resume`, `target_step`, `handle_target` | the server's view follows the CPU; halts are announced once |
| Breakpoints, watchpoints and RISC-V triggers (`breakpoints.c`, `riscv.c`) | lists per target, `trigger_unique_id`, triggers of each hart, instructions in memory | add, remove, clear, step off a watchpoint | lists, slots, triggers and memory agree on every hart |
| Timer callbacks (`target.c`) | list with `removed` marks, the walk's pointer, `callback_processing` | register, unregister, walk | the entry in use stays, nobody is called who has unregistered, periodic ones recur |
| Event, reset and trace callbacks (`target.c`) | plain lists | register, unregister, call | a callback may change the list it is called from |
| Server connections (`server.c`) | services, connections, `max_connections`, `shutdown_openocd` | accept, remove, loop, signals | limits kept, first shutdown reason kept |
| GDB packet layer (`gdb_server.c`) | input buffer, `ctrl_c`, noack mode, the packet being sent | get and put a packet, put a character back, time out | each packet arrives once, unaltered, in order; no interrupt is lost |
| Cortex-M breakpoint unit and step (`cortex_m.c`) | FPB and DWT comparators, FPB enable, temporary breakpoint, `debug_reason` | set, unset, resume, step with interrupt masking, poll, re-examine | no comparator lost, what is listed stops the program, a step is one instruction |
| RISC-V memory access (`riscv-013.c`) | the burst's position, `ac_busy_delay`; s0, s1, data0, autoexec, `cmderr` | `read_memory_progbuf`, `write_memory_progbuf` | every word right and accessed once, registers restored, the access ends |
| RISC-V run control (`riscv.c`, `riscv-013.c`) | per-hart state, current hart, register cache | poll, halt group, resume | the group halts together, the cache is not stale |
| JTAG core, adapters, transports | TAP states, command queue | enqueue, execute | mostly bit layout and I/O |
| Flash core, NAND, image, RTOS, semihosting operations, SVF/XSVF, telnet, TCL, command interpreter | – | – | data formats, Tcl glue, I/O |

`PROJECT.json` lists all of them with a status and the reason where one is not modelled.

### How they interact

* `server_loop` -> `gdb_input` -> packet handlers -> `target_resume/halt/step/poll` -> the target
  type. A poll that sees a halt calls the event callbacks, and so `gdb_frontend_halted`, which answers
  the request GDB is waiting on. The same poll may run inside a packet handler, a telnet command, or
  the timer: **GdbSession** has all three paths.
* Flash drivers take two working areas (loader and ring), start the loader, stream, and free both.
  **AsyncFlash** models the streaming, **WorkingArea** the areas; they meet only at the driver.
* GDB's Z packets and Tcl commands go to `breakpoints.c`, which fans out over an SMP group to
  `riscv.c`, which fans out over harts (**Breakpoints**). A new GDB connection clears them.
* Everything periodic hangs on the timer list (**TimerCallbacks**); **GdbSession** relies on what that
  module shows, that polling recurs, as the fairness of its action `Poll`.
* Packet handlers take and put whole packets. **GdbPacket** is the layer below them, with signs, bodies,
  time-outs and noise, and the handlers reduced to what they put; **GdbSession** is what is above it,
  with the two channels **PacketChannel** promises (and, in environments with `ack`, the one thing the
  layer does not hide: an interrupt byte read in place of an acknowledgement).
* `target_step` and `target_resume` on a Cortex-M go through the comparators and call event handlers
  in the middle (**CortexM**); every memory access of a RISC-V target is a burst of the program buffer
  (**ProgbufMemory**).

### Hard behaviours

Host and loader share a ring with no lock; a halt that some other path sees first; acknowledgement
reads that swallow an interrupt byte; operations over several targets or harts that fail in the
middle; link accesses that fail after they took effect; time-outs that race a late answer; lists that
callbacks change while they are walked. `PROJECT.json` lists each at its line with the properties that
watch it, or a note why none does.

## 2. Plan

Order by importance to a user: data that reaches flash, then a debugging session that never hangs,
then memory and breakpoints that stay consistent, then the scheduling all of it stands on.

| # | Module | Status |
|---|---|---|
| 1 | `AsyncFlash` and its abstract specification `FlashStream`; `AsyncFlashProofs` | done |
| 2 | `GdbSession` (GDB server + target polling + halt/resume over Cortex-M), `GdbSessionProofs` | done, safety proved |
| 3 | `WorkingArea`, `WorkingAreaProofs` | done, all safety properties proved |
| 4 | `Breakpoints` (lists + RISC-V triggers), `BreakpointsProofs` | done, all safety properties proved |
| 5 | `TimerCallbacks`, `TimerCallbacksProofs` | done, safety proved |
| 6 | `GdbPacket` and its abstract specification `PacketChannel`; `GdbPacketProofs` | done, safety proved |
| 7 | `CortexM` (comparators and single step, next to `Breakpoints`), `CortexMProofs` | done, safety proved |
| 8 | `ProgbufMemory` (RISC-V memory access), `ProgbufMemoryProofs` | done, all safety properties proved |
| 9 | Server connections: services, limits, pipe services, shutdown reasons | next |
| 10 | RISC-V poll and halt over several harts, register cache | next |
| 11 | Event callbacks, back-off in `handle_target` | next |
| 12 | JTAG: the TAP state machine and its paths | next |

Abstract specifications worth stating: `FlashStream` and `PacketChannel` (done); a set of breakpoints
that `Breakpoints` implements when nothing fails. Every safety property of a passing run is a theorem; worth
proving next: `InterruptKept` for an impatient GDB. Runs stay small: two or three nodes, two slots, a handful of
packets or words, and an *environment* chosen at the start says what may go wrong.

## 3. The modules

### AsyncFlash, FlashStream, MCAsyncFlash, AsyncFlashProofs

One action for each access the host makes to the target (`SetWp`, `SetRp`, `Start`, `Loop`,
`WriteData`, `Publish`, `WriteAbort`, `Wait`, `Check`), interleaved with the steps of the STM32F1
loader (`WaitFifo`, `Copy`, `Busy`, `Error`). `hwp`, `chunk`, `remaining`, `timeout`, `retval` are
`wp`, `thisrun_bytes`, `count`, `timeout`, `retval` of the routine; `mwp`, `mrp`, `fifo` are target
RAM; `r5`, `tcount`, `sr`, `flash` the loader's registers, the status bit and the flash. A unit is one
block, so slot `s` stands for the address `fifo_start + (s - 1) * block_size`, and 0 is the abort word
of both sides. Every access may fail, a write also after it took effect. `Fault` lets the CPU leave
the loader and leave any read pointer behind. `User` is what may happen between calls: halt, resume,
reset, `target_run_algorithm`, which all leave or change `running_alg` as the code does.

`FlashStream` is what a caller may rely on: blocks arrive in order, each once, and `ERROR_OK` is
returned only when all are there.

* Run `async_flash` (5 blocks, ring of 3 slots, 2 polls, exit point checked, faults on): `FlashInOrder`,
  `SuccessIsComplete`, `EmptyMeansDrained` (equal pointers mean empty, never full), refinement of
  `FlashStream`, and `Termination`. A ring of 3 slots holds 2 blocks, so 5 blocks wrap it twice and
  fill it; the time-out is reached after 2 polls instead of 500.
* Run `async_flash_unchecked` (violation): with `exit_point` 0, as the STM32F1 driver passes it, a CPU
  halted anywhere ends the wait successfully, and the "corrupted fifo read pointer" branch breaks out
  of the loop with `retval` still `ERROR_OK`: an incomplete write is reported as a success.
* Fairness: `WF(HostStep)`. The server thread runs a call to its end. Nothing is asked of the target:
  a loader that never moves is timed out.

### GdbSession, MCGdbSession, GdbSessionProofs

One GDB client, one connection, one target. A handler is an operator from a world (connection, target,
channels) to the set of worlds it may leave, so that a packet, with every poll, event callback and
reply inside it, is one step of the server thread, as in the code. `con` is `struct gdb_connection`
with the log callback and `gdb_running_type`; `tgt` is `struct target` (`state`, `halt_issued`, its
age in polls, the pending system call) together with the CPU's own state; `toServer` and `toGdb` are
the two directions of the socket. `gdb` and `asked` are the client's side of the remote protocol.

* Run `gdb_session` has five environments: a failing link with steps that may not end and a CPU that
  may never obey; system calls forwarded to GDB; a telnet session that halts and resumes the same
  target; and all of it at once, with and without acknowledgements.
  * `InSync`: a waiting GDB is owed exactly one answer, of the right kind (`RepliesOwed`), and the log
    goes only to a GDB that waits for a stop reply (`LogOnlyWhileWaiting`).
  * `NoLostStop`: a server that owes a stop reply does not see the target halted. It is not asked of
    sessions whose link fails and which have a telnet user or system calls, where it is violated.
  * `WriteErrorSettled`: a write error answered too early is reported later. It is not asked of
    sessions that use `vCont`, which forgets it.
  * `InterruptAnswered`: an interrupt ends GDB's wait, unless telnet restarts the halt timer.
* Run `gdb_vcont_lost` (violation): see section 5.
* Bounds: a halt request times out after 1 poll, 2 log packets under way. GDB has one request under
  way by protocol, so the channels are bounded without a constraint.
* Fairness: `WF(Input)` and `WF(Poll)`, as `server_loop` reads its sockets and calls the timers when
  there is nothing to read, and `WF(GdbReceive)`, a client that reads. Nothing is asked of the CPU.
* Left out: semihosting's automatic resume, unknown system calls, the target state `reset`, back-off
  and re-examination after a failed poll, the packets that only read or write (one `other` stands for
  them), vFlash, threads, extended-remote `R` and `k`, refused connections.

### GdbPacket, PacketChannel, MCGdbPacket, GdbPacketProofs

A channel holds tokens: a sign, the `$` of a packet, its body, an interrupt byte. `pc` is where the
server is in `gdb_get_packet`, `gdb_put_packet` and between packets; `packet` is the packet being put
with what `len` has come to be too large by; `todo` the packets its handler puts yet; `noack`,
`ctrl_c` and the log callback `forward` are as in the code. GDB acknowledges, refuses, sends again and
interrupts; the line spoils bodies. `Silence` is a second without a character.

`PacketChannel` is what the layer promises those above it, and is instantiated twice: for what the
server puts and GDB takes, and for what GDB asks and the server handles.

* Run `gdb_packet` (4 requests, 3 spoiled packets, 2 log packets a run): `RepliesArrive` and
  `RequestsArrive` are the refinements, with the fairness of `PacketChannel`; `InterruptKept` says that
  an interrupt is on the wire or in `ctrl_c` until the stop reply, wherever it was read. Four sessions:
  a noisy line, a GDB that answers late, one that leaves acknowledgements, and packets that arrive in
  two parts a second apart. Four requests leave room to run twice, with a packet before and after.
* Fairness: the server's loop goes on, GDB reads what it is sent and sends again what was not
  answered. Noise is bounded: a line that spoils everything promises nothing.
* Deadlock is not checked: after its last request GDB may be idle for ever.
* Left out: after a packet that was refused `gdb_get_packet` keeps its length as the limit of the next one
  (`gdb_server.c:588`), so that a longer one is refused until the next call.

### WorkingArea, MCWorkingArea, WorkingAreaProofs

The list is a set of areas, one followed by the one that starts where it ends. `Alloc` is
`target_alloc_working_area_try` with rounding, first fit, split and the backup read that may fail
after the split; `FreeArea` is `target_free_working_area_restore` with its failed restore; `FreeAll`
and `FreeAllAtReset` are the two ways all areas go. The callers appear as `Holders`: variables that
point to an area, local ones that vanish with their function.

* Run `working_area`: 6 bytes of 2-byte words, three holders, two of them local, backups on or off and
  switched, any backup or restore failing. `ListSound` (the code's own assertion, the areas tile the
  region, and no two free areas are left side by side), `AppMemoryKept` (the application's memory is
  back, unless its loss was reported or asked for), `PointersAgree`, `AvailFits`. Three words and three
  holders are the least with an area between two others, which merging and reuse of a stale backup
  need.
* Left out: the choice between virtual and physical base. The region's size is a multiple of a word
  in the run; with another size `target_get_working_area_avail` promises too much before the first
  allocation (section 5).

### Breakpoints, MCBreakpoints, BreakpointsProofs

`bps` and `wps` are the lists of each target, `used` is `trigger_unique_id`, `armed` the triggers of
each hart, `mem` the program. An operation is one action over the targets of an SMP group (`OnAll`; those
up to the first that fails, where the code stops there), and `HartsOf` over the harts of one target (`-rtos riscv`).
With faults an operation finds any set of harts out of reach from its start to its end; single
register writes, whose results `riscv.c` ignores, do not fail on their own. `hit` and `SteppedOff`
are `resume_prep`: before a resume from a watchpoint the triggers are removed up to the first removal
that fails, a step is made, and those tried are added again.

* Run `breakpoints` with three environments (an SMP group with faults, one target for two equal harts,
  an SMP group with uneven triggers): `SameSlotOnEveryHart`, `ArmedIsUsed`, `AcceptedIsThere`,
  `ProgramIntact`. Two harts, two slots, two code addresses, one of them in RAM, and one data address
  make slots run out, be reused and be lost.
* `running` is `target->state`: `resume_finish` sets it for every target of the group, also for one whose
  `resume_prep` failed and whose hart stays halted. A watchpoint refused because another with other
  parameters is at its address changes nothing, which is a stuttering step; so is a failed read of the
  instruction.
* Left out: context and hybrid breakpoints (no RISC-V target has them), overlapping addresses, the
  enumeration of triggers, other architectures' units.

### CortexM, MCCortexM, CortexMProofs

`b` is the breakpoint list together with the FPB, in the host (`bps`, `used`, `fpcr`, `enabled`) and in
the chip (`comp`, `on`, `mem`); `w` is the same for watchpoints and the DWT. `core` is a process of its
own that executes a loop of instructions, takes interrupts and need not come back from a handler;
`state`, `reason` and `pc` are the host's view of it. `cortex_m_step` is cut where it calls event
handlers and where it waits (`at`), everything else is one step over a halted core. An environment
says which accesses fail (a write also after it took effect), how interrupts are masked, what event
handlers do to the list, and whether the chip resets. A watchpoint is removed in any state, as
`target_remove_watchpoint` asks nothing: while the core is not halted `cortex_m_remove_watchpoint` refuses and
`watchpoint_free` drops the record all the same. `w.refused` counts these removals. It belongs to the model
only and guards nothing; `ComparatorsOwned` says that they are all that is lost.

* Run `cortex_m`: a loop of 2 instructions and a handler, 2 FPB comparators, one of the addresses out
  of their reach, 1 DWT comparator for 2 data addresses, the time-out after 1 read. `ComparatorsOwned`
  (none has two owners, and free, used and lost ones add up, where a DWT comparator is lost only to a removal
  that was refused), `ListedIsActive`, `ListedIsAsked`, `StepOne`
  (an action property: a step ends on the next instruction or at a breakpoint, never in a handler that
  was pending) and `StepReturns`.
* Run `cortex_m_reexamined` (violation): see section 5.
* Fairness: the server's step goes on. Nothing is asked of the core, which may stay in a handler.
* Left out: lockup, vector catch, algorithms, `soft_reset_halt` and `assert_reset`, registers but the pc.

### ProgbufMemory, MCProgbufMemory, ProgbufMemoryProofs

The hart is a process that finishes a command (`HartFinishes`) at any time after the debug module
started it; `data0`, `cmderr`, `command`, `auto` and `running` are the debug module, `s0`, `s1`, `mem`
the hart. The debugger's accesses are single actions, so that any of them may find the program
running: a batch (`BatchAccess`, `BatchLost`) is scanned access by access and looked at only when it is
over. `at`, `next`, `ignoreLast` are `read_addr`, `next_read_addr`, `ignore_last` of
`read_memory_progbuf_inner`, `got` what the batch brought, `call` the register access under way.

* Run `riscv_memory`: regions of up to 7 words in batches of 3, two and a half batches, where the code
  has 33; any access may find the hart busy, results may be lost, and no word or the first, second, a
  middle or the last faults. `AccessRight` (all words right, a failed write has a reason, nothing is
  stored outside the buffer, s0 and s1 are restored), `EachOnce` (a burst accesses the words in order,
  each once) and `Terminates`.
* Run `riscv_read_once` (violation): see section 5.
* Fairness: `WF(HartFinishes)`, one load and one addition end, and `WF(Debugger)`. `DelayMax` is the idle
  time from which an access never finds the program running; the debugger does not know it.
* Left out: regions that end at the top of the address space (`JobAssumption`), where `s0` would wrap behind
  the last word; a busy DMI met when there was nothing to scan; system bus and abstract accesses, `read_memory_progbuf_one`, words over 32 bits, `mstatus`,
  accesses to the debug module that fail altogether, time-outs.

### TimerCallbacks, MCTimerCallbacks, TimerCallbacksProofs

`list` is `target_timer_callbacks`, `cursor` the place of the walk in
`target_call_timer_callbacks_check_time`, 0 when `callback_processing` is false; `calling` is TRUE
while the walk is inside a callback, with `entry` the pointer `target_call_timer_callback` keeps over
the call. Owners register, unregister and ask for a walk both outside of a walk and in a callback.
`asked` is what an owner wants. Time is which entries are due; the code reads the clock once a walk,
so entries come due between walks.

* Run `timer_callbacks`: two owners, at most 3 entries, so that an entry can be freed before, at and
  behind the cursor, and one owner can have an old entry beside a new one. `EntryStays`,
  `CalledAsAsked`, `PeriodicCalled`, `UnwantedFreed`.
* Fairness: `WF(StartWalk(TRUE))`, the sockets are quiet again and again (`server_loop` walks only
  then); `WF(Walk)`, callbacks return; `SF(Tick)`, a period is over some day between two walks.
* Left out: what a callback does beyond the list, and the lists of the other callbacks.

## 4. Proofs

`AsyncFlashProofs`, for every `Count`, `Slots >= 2`, `MaxPolls`, with the link failing at will:

* `Invariance`: `Spec => []IInv`. The promises are not inductive. `IInv` adds what holds the protocol
  together: the occupancy of the ring, measured around it from the read pointer (`Dist`), equals the
  blocks published and not yet done, and the slot at distance d holds block done + 1 + d (`RingInv`);
  the host's chunk, sized with a read pointer that may since have moved on, lies in the free part
  because moving on only makes room (`ChunkInv`); what `retval` and the pointers say at each place of
  the host (`SetupInv`, `HostInv`, `ExitInv`) and of the loader (`FlashInv`, `NoFaultInv`). One lemma
  for each action, one step for each conjunct.
* From it: `TypeCorrect`, `InOrder` (`FlashInOrder`), `EmptyIsEmpty` (`EmptyMeansDrained`), and, assuming
  that a CPU that may leave the loader is caught by an exit point (`Faults => ExitPoint`), `Success`
  (`SuccessIsComplete`) and `Refinement` (`ImplementsStream`). The assumption is needed: run
  `async_flash_unchecked` is what happens without it.

`WorkingAreaProofs`, for every region, word size and set of holders, with any backup or restore failing:

* `Invariance` of `Inv`. Counting, as the properties do, is not inductive; `Inv` says it with bytes. The areas
  are intervals that do not overlap and cover the region (`Tiling`); a backup has the words of its own area
  and only lent areas have a user (`Kept`); no two neighbours are free unless an allocation failed after its
  split (`Apart`); a variable that still exists and the area lent to it point at each other (`Pointers`);
  with the backup on, a lent area's buffer holds what the application had there (`Backups`).
* The hard lemma is that a merge keeps the tiling and leaves nothing to merge (`MergeTiles`): a run of free
  areas has an end, a lent area or the end of the region, and a start (`RunEnds`, `RunStarts`, least and
  greatest elements of bounded sets of naturals), two runs do not meet (`RunsApart`) and each byte is in one
  (`RunsCover`). It uses nothing of the order in which the code walks the list.
* `TypeCorrect`, `ListIsSound` (`ListSound`), `PointersRight` (`PointersAgree`) and `MemoryIsKept` (`AppMemoryKept`)
  follow. The region is assumed to hold a word (`SizeAssumption`), not to be a multiple of one.
* `AvailIsRight` (`AvailFits`) is for a region of whole words, `Size % Word = 0`: of another, the size promised before
  the first allocation does not fit (section 5). It needs that every area begins and ends with a word (`Aligned`),
  which splitting and merging keep in any region (`SplitAligned`, `MergeAligned`), and that `Round` takes a size to
  the least number of words that holds it (`RoundWords`).

`ProgbufMemoryProofs`, for every memory, region, batch size and set of faulting words, with results lost at
will and any access finding the program running:

* `Invariance` of `Inv`, a proof outline: an assertion for each place of the debugger, and for each register
  access under way one that holds until the hart has done it. The assertions count. `Begun` is the address
  after the last access the hart began; without an error it is exactly what the debugger asked for, after a
  busy answer it lies behind, and what the batch brought up to there is right (`GoodTo`). `Sync` and `Fresh`
  say where the last words are: in `s1`, in `data0`, and all before them in the buffer (`Filled`). So the
  recovery, which knows `s0` only, can tell which values are good and which word is next. Once the next word
  faults (`Stuck`) nothing is claimed of values: the burst ends in an error and all is read again.
* `HartSteps` is the step of the hart against every place; then one lemma for each step of the debugger.
* `TypeCorrect`, `BurstInOrder` (`EachOnce`) and `AccessCorrect` (`AccessRight`) follow.
* They assume `AboveZero`: a read does not start in the first two words of the address space. It is needed: at
  address 0 the recovery's subtraction wraps (section 5).

`GdbSessionProofs`, for every environment (packets GDB uses, failing link, telnet user, acknowledgements,
system calls), every time-out and every number of log packets:

* `Invariance` of `Inv`. A packet handled is one step, but inside it polls, event callbacks and replies happen
  in an order that depends on the target; so the invariant speaks of worlds, and there is one lemma for
  each operation from world to world, bottom up: `Put`, `Poll`, the halt and resume, each reply, each packet.
  Most operations only see what happened to the target and tell GDB of it (`Passive`): they take no request
  and owe no more than before. A handler is right when it leaves the request it took answered or owed (`Answered`).
* `Sound` is `InStep`, `Seen` and `Settled`. `InStep` makes `InSync` inductive: whose turn it is (`Turns`), that
  an answer on its way is one GDB expects (`Expected`), that an error the connection remembers has a request
  which can report it (`ErrorPossible`), that a system call asked for is one GDB was told of (`Asks`). `Seen` says of a
  server that waits for a stop that the target runs and will be polled; `Settled` of the error remembered.
* `TypeCorrect` (`TypeOK`) holds in every environment. `GdbInStep` (`InSync`) and `WriteErrorsSettled`
  (`WriteErrorSettled`) hold where the program does not exit through semihosting and a failing link does not meet small and large
  write packets in one session (`Orderly`); `StopsAreSeen` (`NoLostStop`) where, in addition, `vCont;c` is not used, and a failing
  link, a telnet user, system calls and `vCont;s` do not come together in the ways listed at `Watchful`. Each
  exclusion is needed: TLC finds the property violated without it (section 5). The environments of run `gdb_session`
  that do not satisfy the condition are those in which the property itself excuses what happens.

`BreakpointsProofs`, for every number of harts and slots, all addresses, any triggers and any set of harts out of
reach in each operation:

* `Invariance` of `Inv`. The properties relate the lists to the triggers, and an operation on one address uses slots
  that another address might have; so the invariant adds that what a trigger fires on is what its slot is used
  for (`Remembered`) and that a slot is used for what its triggers can do (`Suits`: else a trigger a hart refused before
  would count as set again). `Kept(S, U, t, A)` says all that one operation on target `t` leaves of it
  when it frees the points of `A`; it holds of adding (`AddKept`), removing and freeing (`RemoveKept`, `FreeKept`)
  and of a group of targets at once (`OnAllKept`), because targets share no hart.
* The hard step is the one off a watchpoint: several triggers go, and a fold adds them again. They all find room
  (`FoldFits`), because the slots they were in fit them and nobody took one meanwhile: a count of the free
  slots that take data addresses (`Room`) against the watchpoints still to come. What a fold does is shown without
  induction schemes: a smallest subset for which it fails is impossible (`SmallestSubset`, `FoldStep`, `FoldsAgree`),
  and such a fold exists (`FoldExists`).
* `TypeCorrect` and `ProgramKept` (`ProgramIntact`) hold in every environment; `TriggersRemembered` (`ArmedIsUsed`) where the
  harts of one target have equal triggers (`Even`; an SMP group has one hart a target); `AcceptedStays`
  (`AcceptedIsThere`) where, in addition, no trigger is of a type `riscv.c` does not know (`Known`); `SetEverywhere`
  (`SameSlotOnEveryHart`) where, in addition, one target for several harts has them in reach. Each
  condition is needed (section 5), and each is one of the hardware or the link, not of what GDB asks.

`CortexMProofs`, for every program, number of comparators, set of addresses and environment, one core:

* One lemma for each operation on a world `b` says what it keeps (`Keeps`) and that it leaves other addresses alone
  (`Elsewhere`): setting and unsetting, hard and soft, each write failing before or after it took effect, then adding,
  removing, and setting all that is pending (a fold, as in `BreakpointsProofs`). `Keeps` has a clause for each
  promise with the accesses that must not fail for it: comparators and breakpoints know each other (`Owned`), the
  unit is as the host believes (`Synced`, `Enabled`), memory is the program but for the breakpoints set (`Clean`).
* The invariant has layers, each proved from those below. `Basic`: types, the places of a step (`StepKnown`), and that
  a core that met a breakpoint is where the host believes it is. `AskedKnown`: the list is what was asked for, and
  during a step at most the temporary breakpoint more. `OwnedKnown`, `WatchesKnown`: the comparators; the
  watchpoints that are set have theirs (`Matched`), the count is right (`Counted`), and each refused removal left at
  most one armed for nobody (`Bounded`). Where
  nothing fails (`Sound`): `SyncKnown`, out of sync only between a reset and its end; `FoundKnown`, the breakpoint
  found is unset before the core is awaited and set while it is; `HostKnown`, all others are set and there is a
  comparator for it; `HaltKnown` and `PlaceKnown`, where the core is at each place of a step.
* The last one carries `StepOne`: while it is awaited the core is at the start or in a handler that returns there
  (`Back`), it halts at the start or at a breakpoint in the handler, and once the temporary breakpoint is gone nothing
  stops it at the start (`StopsIff`: the core stops exactly where a breakpoint is set or the program has a BKPT).
* `TypeCorrect` (`TypeOK`) and `ListIsAsked` (`ListedIsAsked`) hold in every environment. `ComparatorsAccounted`
  (`ComparatorsOwned`, with the comparators of refused removals counted as lost), `ListedActive` (`ListedIsActive`) and `StepIsOne` (`StepOne`) have conditions on handlers,
  re-examination and an FPB that cannot be enabled; each is needed (section 5).

`GdbPacketProofs`, for every number of requests, log packets and spoiled packets:

* The invariant (`PacketInv`) says where everything on the wire is. From GDB (`OnTheWay`): parts of one request at
  most, the one GDB waits for, and no sign behind them. To GDB: an acknowledgement only in front and exactly when
  GDB's request is handled and not yet acknowledged (`Acks`); packets numbered without a gap up to the last one
  sent and not refused (`LastSent`), where what GDB took ends (`Count`); a packet that is not a log packet is the last,
  and after it the server has nothing to say until the next request (`Final`, `QuietKnown`). Where packets can
  be refused there is one packet or sign at a time, and the server waits for it (`OneAtATime`): so no late sign is
  taken for another packet's. Lemmas say what reading, adding and spoiling a token leaves of each
  of these (`WayTail`, `StreamAppend`, ...); then there is one lemma for each action.
* An interrupt is in the channel, or in `ctrl_c` with the target running or nothing left to do (`Interrupts`):
  `ctrl_c` is cleared only where the target has stopped, and GDB interrupts only what is not handled yet or runs.
* `TypeCorrect` (`TypeOK`) holds in every environment. `InterruptIsKept` (`InterruptKept`), `RequestsInOrder` and
  `RepliesInOrder` hold for a `Patient` GDB: it sends a request again only when the server is idle, and answers within
  a second where the line spoils packets; `RepliesInOrder` also needs that what is sent again over such a line is a
  packet of more than 1020 bytes. All environments of run `gdb_packet` are of this kind. Without any one
  of these conditions TLC finds one of the two refinements violated (section 5); the invariant needs the first two for
  all three theorems. Of an impatient GDB `InterruptKept` is not proved; TLC finds no counterexample.
  `RequestsInOrder` and `RepliesInOrder` are the safety part of `RequestsArrive` and `RepliesArrive`: each step is one of
  `PacketChannel` or none.

`TimerCallbacksProofs`, for every set of callbacks and every bound on the list:

* `Invariance` of `Inv`: types, `EntryStays`, and that a callback is called from an entry in the list. The
  argument: owners only append and mark, which moves no entry and keeps whose it is (`MarkKeeps`);
  only the walk frees entries, and never from inside a callback.
* `TypeCorrect` and `EntryIsKept` (`EntryStays`) follow.
* `AsAskedOnly` (`CalledAsAsked`): while owners wait for their old entry to go (`reuse` is FALSE) a callback
  has at most one entry, and an entry that is not marked is of the type its owner asked for, save the one-shot
  being called, which the walk marks when it returns. The second conjunct holds only with the first: with two
  entries of one callback, unregistering marks one and leaves the other (section 5).

Assumptions are the named `ASSUME`s of the modules; every run of a module evaluates them.
Only model-checked: liveness (`Termination`, `InterruptAnswered`, `PeriodicCalled`, `UnwantedFreed`,
`StepReturns`, `Terminates`, the fairness of `PacketChannel`), which rests on fairness.

## 5. Where the code departs from what it says

Each is a run that TLC violates, with the line quoted in `PROJECT.json` under `findings`:

| Run | What the code does |
|---|---|
| `async_flash_unchecked` | an incomplete flash write returns `ERROR_OK` (`target.c:995` with `exit_point` 0) |
| `gdb_vcont_lost` | `vCont;c` sets `frontend_state` after resuming and polling: a halt seen by that poll is never reported (`gdb_server.c:2882`) |
| `cortex_m_reexamined` | one failed poll re-examines the target and clears its comparators; the breakpoints stay listed as set and stop nothing (`target.c:2845`) |
| `riscv_read_once` | nothing waits for the program before autoexec is switched off: the words of a burst may be read again one by one (`riscv-013.c:2972`) |

Others were met while modelling. TLC shows them when the environment or property named here is put in
a cfg (`Environments <- ...`, defined in the MC module); no run is kept for them:

* `GdbSession`
  * `InSync` with `SmallWrites`: after an error reply a small `X` packet is answered a second time
    (`gdb_server.c:1632`).
  * `InterruptAnswered` with `Acknowledged`: an interrupt byte read in place of an acknowledgement is
    only remembered, until the next packet (`gdb_server.c:439`).
  * `NoLostStop` without its condition, with `linkFails` and `telnet`: a poll fails inside the telnet halt's
    wait, and the halt GDB waits for is not announced any more (`target.c:3064`). The same with `linkFails`
    and stops `"call"`: the resume after an F packet fails silently (`gdb_server.c:3229`). With `telnet` and
    stops `"call"` no link failure is needed: when telnet has resumed the target GDB's `c` finds it running,
    and the resume after the F packet is refused. With `linkFails` and the packets `c` and `vCont;s`: a
    `vCont;s` whose step fails leaves the server waiting for a target that is halted.
  * `WriteErrorSettled` without its condition: `vCont` neither reports nor clears the error
    (`gdb_server.c:2863`; the comment at line 83 says it does).
  * `InSync` with stops `"exit"`: after the W packet the exit handler's halt is sent as an unsolicited stop
    reply (`gdb_server.c:871`).
* `GdbPacket`
  * `RepliesArrive` with `Resent`: a small packet that is refused is sent again too long (`gdb_server.c:408`).
  * `RepliesArrive` with `LateRefusals`: a `-` that comes after the second of waiting is taken for the next
    packet's answer.
  * `RequestsArrive` with `TwoInterrupts`: a second interrupt byte in place of an answer closes the
    connection; with `Impatient`: a request sent again while the server is busy is handled twice.
* `WorkingArea`
  * `UsersExist`: a failed restore leaves an area whose user is a variable of a function that has
    returned; freeing it later writes there (`target.c:1939` asks the question).
  * `AvailFits` with `Size = 7`: before the first allocation the size itself is promised (`target.c:2006`).
* `Breakpoints`
  * `SameSlotOnEveryHart` with `Mixed`: a trigger one hart refused counts as set on all (`riscv.c:712`).
    `ArmedIsUsed` with `Refusing`, when the last hart refuses what the first accepted: the trigger stays armed
    in a slot believed free. `SameSlotOnEveryHart` and `AcceptedIsThere` with `OfUnknownType`: a type `riscv.c` does not
    know counts as success (line 709).
  * `SameSlotOnEveryHart` with `OutOfReach`: a step off a watchpoint disarms some harts before one cannot be
    read, and adding it again finds no slot (`riscv.c:1238`).
  * `SameOnAllTargets`: a breakpoint that fails on one target of a group stays on the others
    (`breakpoints.c:217`).
  * `NothingDangles` with `Perfect`: a breakpoint removed while the harts run leaves its trigger armed, or its
    `ebreak` in memory, with nobody to remove it.
* `CortexM`
  * `NoTemporaryLeft` with `Failing`: a step that cannot read the status leaves its temporary breakpoint
    (`cortex_m.c:1007`).
  * `RemovedIsGone` with `Perfect`: a watchpoint removed while the core runs is dropped from the list, but its
    comparator stays armed, and the count of free ones short by one, until the target is examined again
    (`cortex_m.c:1567`, `breakpoints.c:496`).
  * `StepMoves` with `Perfect`: a step to a BKPT of the program leaves `debug_reason` at single step, so that
    the next step does not get past it (`cortex_m.c:385`).
  * `ComparatorsOwned` with `RemovingAny` (the breakpoint a step has unset is set again after a handler
    removed it, `cortex_m.c:1047`), with `FpbFails` (a comparator stays used when the FPB cannot be enabled,
    line 1294) and with `Reexamined`; `ListedIsActive` with `Adding` and `Comparators = 1`: a
    breakpoint added in a handler takes the comparator, and the one found stays listed but unset. `StepOne` with
    `RemovingAny`, and with `Reexamined` in mode `"auto"`: the breakpoint where the step began stays armed.
  * Read in the code on the way: a step's reads of DHCSR consume S_RESET_ST, so that the poll does not see
    the reset; a `debug_entry` that fails is not tried again; a target that goes from unknown to halted
    without debug entry has an old pc; a step over the host's own soft breakpoint with
    `handle_breakpoints` 0 skips the instruction (`armv7m.c:903`).
* `ProgbufMemory`
  * `AccessRight` with `Jobs <- AtZero`: a region at address 0 makes `next_read_addr - 4 * size` wrap, and
    values the hart never gave are stored (`riscv-013.c:2926`).
  * `StoredInside` without its excuse: when the second word faults while the program was found running, a
    value is stored before the buffer's start.
* `MCTimerCallbacks`, `NeverCalledUnasked`: an owner that unregisters, registers and unregisters before
  a walk leaves an entry that is called for ever, because unregistering matches the entry that is
  marked already (`target.c:1595`; `armv7m_trace.c:62` and 119 can do it from one Tcl script).

### Not modelled

`PROJECT.json` gives the reason for each component. The larger gaps: server connections, where the hazard
is that a pipe service gives up its descriptor when the connection closes (`server.c:132`); RISC-V run
control over halt groups; back-off after failed polls; the plain callback lists. Adapters, transports,
disassemblers, file players, flash drivers other than the streaming write they share, NAND and the
command interpreter are data formats and I/O, and make up most of the source.

## 6. Running

    tlc -config AsyncFlash.cfg MCAsyncFlash
    tlapm AsyncFlashProofs.tla

`PROJECT.json` names the module and cfg of each run, the properties it checks and, for each property
of a passing run, a mutant: an operator marked "seeded fault" in the module that, put in place of the
definition it mutates, makes TLC find the property violated.
