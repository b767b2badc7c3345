-------------------------- MODULE MCProgbufMemory --------------------------
(***************************************************************************)
(* ProgbufMemory for TLC: words that tell where they are, and the jobs.    *)
(***************************************************************************)
EXTENDS ProgbufMemory

CONSTANT Space
OldContent == [a \in 0 .. Space - 1 |-> 100 + a]
NewData == [a \in 0 .. Space - 1 |-> 200 + a]

Accesses(ops, addresses, counts, faults, lossy) ==
  [op : ops, address : addresses, count : counts, faulting : faults, lossy : lossy]

\* Regions of one to seven words (two and a half batches), without a fault or with
\* one on the first, the second, a middle and the last word.
Faults == {{}, {2}, {3}, {5}, {8}}
AllJobs == Accesses({"read"}, {2}, {2, 3, 7}, Faults, BOOLEAN)
             \cup Accesses({"write"}, {2}, {1, 2, 7}, Faults, BOOLEAN)
\* The least read of more than one word, where nothing is lost and nothing faults.
TwoWords == Accesses({"read"}, {2}, {2}, {{}}, {FALSE})
\* A region that starts at address 0, without faults.
AtZero == Accesses({"read"}, {0}, {3, 5}, {{}}, {FALSE})

\* riscv-013.c:2775: "Read the requested memory, taking care to execute every read
\* exactly once, even if cmderr=busy is encountered."  It is not: after the last
\* batch nothing waits for the program before autoexec is switched off, so that an
\* error of that write fails the burst, and all of its words are read again.
ReadOnce == \A i, k \in DOMAIN bus : bus[i] = bus[k] => i = k
=============================================================================
