---------------------------- MODULE WorkingArea ----------------------------
(***************************************************************************)
(* The working area of a target (target.c): a piece of its RAM that the    *)
(* host lends out to download algorithms and data into.  It is a first-fit *)
(* allocator over a list of areas that tile the region; with a backup, the *)
(* application's memory is read before an area is lent and written back    *)
(* when it is returned.  Both accesses may fail.                           *)
(*                                                                         *)
(* Sizes and addresses are in bytes, relative to target->working_area;     *)
(* memory is compared word by word.  The list is a set: an area is         *)
(* followed by the one that starts where it ends.                          *)
(***************************************************************************)
EXTENDS Naturals, FiniteSets

CONSTANTS Size,     \* target->working_area_size
          Word,     \* bytes in a word (4 in the code)
          Holders,  \* the variables callers keep their area in
          Locals,   \* those that are local variables of the caller
          None

ASSUME SizeAssumption == Size \in Nat /\ Word \in Nat \ {0} /\ Size >= Word
ASSUME HoldersAssumption == Locals \subseteq Holders /\ None \notin Holders

Usable == Size - (Size % Word)            \* size & ~3
Words  == 0 .. Usable \div Word - 1
App    == {0, 1}                        \* two versions of the application's data
Tool   == 2                             \* what an algorithm leaves behind

\* NULL is neither an address nor a buffer.
ASSUME NoneAssumption ==
  None \notin Nat /\ \A W \in SUBSET Words : None \notin [W -> App \cup {Tool}]

VARIABLES
  areas,    \* target->working_areas; {} stands for NULL
  backup,   \* target->backup_working_area
  ptr,      \* the holders' pointers: the address of their area, or None
  gone,     \* local variables whose function has returned
  mem,      \* the words of the region in target RAM
  app,      \* what the application last had there
  lost,     \* words whose loss was reported, or that were not to be restored
  unmerged  \* TRUE: an allocation failed after its split

vars == <<areas, backup, ptr, gone, mem, app, lost, unmerged>>

\* saved is the backup buffer: None, or the words read from the target
Areas == [addr: 0 .. Usable, size: 1 .. Usable, free: BOOLEAN,
          user: Holders \cup {None}]
WordsOf(a) == {w \in Words : w * Word >= a.addr /\ w * Word < a.addr + a.size}

TypeOK ==
  /\ \A a \in areas :
       /\ [addr |-> a.addr, size |-> a.size, free |-> a.free, user |-> a.user] \in Areas
       /\ a.saved = None \/ a.saved \in [WordsOf(a) -> App \cup {Tool}]
  /\ backup \in BOOLEAN
  /\ ptr \in [Holders -> 0 .. Usable \cup {None}]
  /\ gone \subseteq Locals
  /\ mem \in [Words -> App \cup {Tool}]
  /\ app \in [Words -> App]
  /\ lost \subseteq Words
  /\ unmerged \in BOOLEAN

Init ==
  /\ areas = {} /\ backup \in BOOLEAN
  /\ ptr = [h \in Holders |-> None] /\ gone = {}
  /\ app = [w \in Words |-> 0] /\ mem = app
  /\ lost = {} /\ unmerged = FALSE

-----------------------------------------------------------------------------
(* The list. *)

Free(lo, n) == [addr |-> lo, size |-> n, free |-> TRUE, user |-> None, saved |-> None]
End(a) == a.addr + a.size
Largest(A) == (CHOOSE a \in A : \A b \in A : b.size <= a.size).size

\* Seeded faults.
OldBackup(a) == IF a.saved = None THEN [w \in WordsOf(a) |-> mem[w]] ELSE a.saved
SplitKeepsSize(a, n) == a.size
RestAlways(a, n) == {Free(a.addr + n, a.size - n)}
NothingMerged(A) == A
NotCleared(H) == ptr
LentToo == IF areas = {} THEN Size ELSE Largest(areas)

Round(n) == IF (n % Word) = 0 THEN n ELSE n + (Word - (n % Word))
Fits(A, n) == {a \in A : a.free /\ a.size >= n}
First(A) == CHOOSE a \in A : \A b \in A : a.addr <= b.addr

\* target_split_working_area: the area cut to n bytes, and the rest, if any
RestSize(a, n) == a.size - n
Cut(a, n) == IF n < a.size THEN [a EXCEPT !.size = n, !.saved = None] ELSE a
Rest(a, n) == IF n < a.size THEN {Free(a.addr + n, RestSize(a, n))} ELSE {}
Split(A, a, n) == (A \ {a}) \cup {Cut(a, n)} \cup Rest(a, n)

\* target_merge_working_areas: every run of adjacent free areas becomes one,
\* whose backup, of the wrong size now, is dropped.
Starts(A) == {a \in A : a.free /\ \A b \in A : b.free => End(b) # a.addr}
RunEnd(A, a) == CHOOSE e \in {End(b) : b \in {c \in A : c.free /\ c.addr >= a.addr}} :
                  /\ \A b \in A : b.free => b.addr # e
                  /\ \A b \in A : b.addr >= a.addr /\ b.addr < e => b.free
Merge(A) ==
  {a \in A : ~a.free}
  \cup {IF RunEnd(A, a) = End(a) THEN a ELSE Free(a.addr, RunEnd(A, a) - a.addr) :
        a \in Starts(A)}

Lent(A) == {a \in A : ~a.free}
Release(a) == [a EXCEPT !.free = TRUE, !.user = None]

\* *area->user = NULL, for the users of a set of areas
Cleared(H) == [h \in Holders |-> IF h \in H THEN None ELSE ptr[h]]
Users(A) == {a.user : a \in A}

\* Memory after the backups of the areas in A are written back
Restored(A) ==
  [w \in Words |-> IF \E a \in A : a.saved # None /\ w \in WordsOf(a)
                   THEN (CHOOSE a \in A : w \in WordsOf(a)).saved[w] ELSE mem[w]]
WordsIn(A) == UNION {WordsOf(a) : a \in A}

-----------------------------------------------------------------------------
(* The operations. *)

ReadBack(a) == [w \in WordsOf(a) |-> mem[w]]

\* target_alloc_working_area_try
Alloc(h, n) ==
  /\ ptr[h] = None /\ h \notin gone
  /\ LET pool == IF areas = {} THEN {Free(0, Usable)} ELSE areas
         fits == Fits(pool, Round(n))
         a    == First(fits)
         cut  == Cut(a, Round(n))
         split == Split(pool, a, Round(n))
         lend(saved) == [cut EXCEPT !.free = FALSE, !.user = h, !.saved = saved]
     IN  \/ fits = {} /\ areas' = pool /\ UNCHANGED <<ptr, unmerged>>
         \/ /\ fits # {}
            /\ areas' = (split \ {cut})
                        \cup {lend(IF backup THEN ReadBack(cut) ELSE cut.saved)}
            /\ ptr' = [ptr EXCEPT ![h] = cut.addr]
            /\ UNCHANGED unmerged
         \/ /\ fits # {} /\ backup       \* the read of the backup fails
            /\ areas' = split /\ unmerged' = TRUE /\ UNCHANGED ptr
  /\ UNCHANGED <<backup, gone, mem, app, lost>>

\* target_free_working_area, by the holder of the area.  An area whose restore
\* fails stays lent.  A caller that ignores that returns, and its variable with
\* it; a variable that stays keeps its pointer.
FreeArea(h) ==
  /\ ptr[h] # None
  /\ \E a \in Lent(areas) :
       /\ a.addr = ptr[h]
       /\ \/ /\ mem' = IF backup THEN Restored({a}) ELSE mem
             /\ lost' = IF backup THEN lost ELSE lost \cup WordsOf(a)
             /\ areas' = Merge((areas \ {a}) \cup {Release(a)})
             /\ ptr' = Cleared({a.user})
             /\ unmerged' = FALSE /\ UNCHANGED gone
          \/ /\ backup /\ h \notin Locals
             /\ UNCHANGED <<areas, ptr, gone, mem, lost, unmerged>>
          \/ /\ backup /\ h \in Locals
             /\ ptr' = [ptr EXCEPT ![h] = None] /\ gone' = gone \cup {h}
             /\ UNCHANGED <<areas, mem, lost, unmerged>>
  /\ UNCHANGED <<backup, app>>

\* target_free_all_working_areas, before a resume or a configuration change that
\* may switch the backup; each restore may fail, and the list goes anyway.
FreeAll ==
  /\ \E failed \in SUBSET Lent(areas) :
       /\ mem' = IF backup THEN Restored(Lent(areas) \ failed) ELSE mem
       /\ lost' = lost \cup WordsIn(IF backup THEN failed ELSE Lent(areas))
  /\ ptr' = Cleared(Users(Lent(areas)))
  /\ areas' = {} /\ backup' \in BOOLEAN /\ unmerged' = FALSE
  /\ UNCHANGED <<gone, app>>

\* reset: the areas are freed and not restored; the list stays.
FreeAllAtReset ==
  /\ areas' = Merge({IF a.free THEN a ELSE Release(a) : a \in areas})
  /\ ptr' = Cleared(Users(Lent(areas)))
  /\ lost' = lost \cup WordsIn(Lent(areas)) /\ unmerged' = FALSE
  /\ UNCHANGED <<backup, gone, mem, app>>

\* target_get_working_area_avail
Avail ==
  LET free == {a \in areas : a.free} IN
  IF areas = {} THEN Size ELSE IF free = {} THEN 0 ELSE Largest(free)

\* An algorithm runs in the area a holder has.
Use(h) ==
  /\ ptr[h] # None
  /\ \E a \in areas : a.addr = ptr[h] /\
       mem' = [w \in Words |-> IF w \in WordsOf(a) THEN Tool ELSE mem[w]]
  /\ UNCHANGED <<areas, backup, ptr, gone, app, lost, unmerged>>

\* The application, or the user, changes a word that is not lent.
AppWrites(w) ==
  /\ w \notin WordsIn(Lent(areas))
  /\ app' = [app EXCEPT ![w] = 1 - app[w]]
  /\ mem' = [mem EXCEPT ![w] = app'[w]]
  /\ lost' = lost \ {w}
  /\ UNCHANGED <<areas, backup, ptr, gone, unmerged>>

Next ==
  \/ \E h \in Holders, n \in 1 .. Size : Alloc(h, n)
  \/ \E h \in Holders : FreeArea(h) \/ Use(h)
  \/ FreeAll \/ FreeAllAtReset
  \/ \E w \in Words : AppWrites(w)

Spec == Init /\ [][Next]_vars

-----------------------------------------------------------------------------
(* Properties. *)

\* The assertion of target_merge_working_areas (target.c:1774): the areas follow
\* one another without a gap or an overlap, from one end of the region to the other.
Tiled ==
  areas # {} => \A w \in Words : Cardinality({a \in areas : w \in WordsOf(a)}) = 1

\* A word that is not lent holds what the application had there, unless its loss
\* was reported or asked for: whatever was freed, failed or reused in between.
AppMemoryKept ==
  \A w \in Words \ WordsIn(Lent(areas)) : w \in lost \/ mem[w] = app[w]

\* Holders and areas point at each other: nobody holds an area that was freed or
\* lent to someone else.
PointersAgree ==
  \A h \in Holders \ gone :
    IF ptr[h] = None THEN \A a \in areas : a.user # h
    ELSE \E a \in areas : ~a.free /\ a.user = h /\ a.addr = ptr[h]

\* Free memory is not fragmented: two neighbours are free only after an allocation
\* that failed between its split and its backup.
Coalesced ==
  unmerged \/ \A a, b \in areas : a.free /\ b.free => End(a) # b.addr

\* Whatever was split, failed and merged, the list is sound.  (So "now we have none or
\* only one working area marked as free", target.c:1990, when all were freed.)
ListSound == Tiled /\ Coalesced

\* "Find the largest number of bytes that can be allocated" (target.c:1999).
AvailFits ==
  LET pool == IF areas = {} THEN {Free(0, Usable)} ELSE areas
      CanAlloc(n) == Fits(pool, Round(n)) # {}
  IN  (Avail > 0 => CanAlloc(Avail)) /\ ~CanAlloc(Avail + 1)
=============================================================================
