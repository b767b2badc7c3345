-------------------------- MODULE TimerCallbacks ---------------------------
(***************************************************************************)
(* The timer callbacks of target.c: a list that server_loop walks when the *)
(* sockets are quiet, and commands when they want polls done at once.      *)
(* Target polling, trace and debug-channel reads all hang on it.  A        *)
(* callback may register and unregister callbacks, itself included, and    *)
(* ask for a walk while it is called from one; unregistering only marks an *)
(* entry, the walk frees it.                                               *)
(*                                                                         *)
(* Time is abstracted to which entries are due: "the period is very        *)
(* approximate" (target.h:390).                                            *)
(***************************************************************************)
EXTENDS Naturals, Sequences, FiniteSets, SequencesExt

CONSTANTS Callbacks,    \* pairs of a function and its priv pointer
          MaxEntries    \* bound on the list: nobody registers when it is reached

ASSUME MaxEntriesAssumption == MaxEntries \in Nat
ASSUME CallbacksAssumption == Callbacks # {}

Types == {"periodic", "oneshot"}
Entries == [callback: Callbacks, type: Types, due: BOOLEAN, removed: BOOLEAN]

NewEntry(c, type) == [callback |-> c, type |-> type, due |-> FALSE, removed |-> FALSE]
NoEntry == NewEntry(CHOOSE c \in Callbacks : TRUE, "periodic")

VARIABLES
  list,      \* target_timer_callbacks
  cursor,    \* where the walk is; 0: no walk, callback_processing is FALSE
  checktime, \* FALSE: periodic callbacks are called whether due or not
  calling,   \* TRUE: in the callback of the entry at the cursor
  entry,     \* cb: the pointer that target_call_timer_callback keeps meanwhile
  asked,     \* how a callback's owner wants it called, or "no"
  reuse      \* TRUE: owners register again before the walk freed the old entry

vars == <<list, cursor, checktime, calling, entry, asked, reuse>>

TypeOK ==
  /\ list \in Seq(Entries) /\ Len(list) <= MaxEntries
  /\ cursor \in 0 .. Len(list) + 1 /\ checktime \in BOOLEAN /\ calling \in BOOLEAN
  /\ entry \in Entries
  /\ asked \in [Callbacks -> Types \cup {"no"}] /\ reuse \in BOOLEAN

Init ==
  /\ list = <<>> /\ cursor = 0 /\ checktime \in BOOLEAN /\ calling = FALSE
  /\ entry = NoEntry
  /\ asked = [c \in Callbacks |-> "no"] /\ reuse \in BOOLEAN

-----------------------------------------------------------------------------
(* Owners, outside of a walk or in a callback. *)

Outside == cursor = 0 \/ calling

\* target_unregister_timer_callback marks the first entry of the callback, one that
\* is marked already included.
Matches(L, c) == {i \in 1 .. Len(L) : L[i].callback = c}
NotMarked(L, c) == L                                    \* seeded fault
Mark(L, c) ==
  IF Matches(L, c) = {} THEN L
  ELSE [L EXCEPT ![CHOOSE i \in Matches(L, c) : \A j \in Matches(L, c) : i <= j].removed = TRUE]

Register(c, type) ==
  /\ Outside /\ asked[c] = "no" /\ Len(list) < MaxEntries
  /\ reuse \/ Matches(list, c) = {}
  /\ list' = Append(list, NewEntry(c, type))
  /\ asked' = [asked EXCEPT ![c] = type]
  /\ UNCHANGED <<cursor, checktime, calling, entry, reuse>>

Unregister(c) ==
  /\ Outside /\ asked[c] # "no"
  /\ list' = Mark(list, c)
  /\ asked' = [asked EXCEPT ![c] = "no"]
  /\ UNCHANGED <<cursor, checktime, calling, entry, reuse>>

\* A callback asks for a walk: "do not allow nesting".
Swept(L) == SelectSeq(L, LAMBDA e : ~e.removed)         \* seeded fault
Nested(L) == L
WalkInCallback ==
  /\ calling
  /\ list' = Nested(list)
  /\ UNCHANGED <<cursor, checktime, calling, entry, asked, reuse>>

\* Time passes and some entries come due.  A walk reads the clock once, at its start.
Tick(D) ==
  /\ cursor = 0
  /\ list' = [i \in 1 .. Len(list) |-> [list[i] EXCEPT !.due = @ \/ i \in D]]
  /\ UNCHANGED <<cursor, checktime, calling, entry, asked, reuse>>

-----------------------------------------------------------------------------
(* The walk: target_call_timer_callbacks_check_time. *)

StartWalk(check) ==
  /\ cursor = 0
  /\ cursor' = 1 /\ checktime' = check
  /\ UNCHANGED <<list, calling, entry, asked, reuse>>

AtEntry == cursor \in 1 .. Len(list) /\ ~calling

\* The entry is unlinked and freed.
Free ==
  /\ AtEntry /\ list[cursor].removed
  /\ list' = RemoveAt(list, cursor)
  /\ UNCHANGED <<cursor, checktime, calling, entry, asked, reuse>>

NeverChecked(e) == ~checktime /\ e.type = "periodic"     \* seeded fault
CallIt(e) == e.due \/ (~checktime /\ e.type = "periodic")

\* A one-shot has had its call when it is called, for its owner.
Call ==
  /\ AtEntry /\ ~list[cursor].removed /\ CallIt(list[cursor])
  /\ calling' = TRUE /\ entry' = list[cursor]
  /\ asked' = IF entry'.type = "oneshot" THEN [asked EXCEPT ![entry'.callback] = "no"] ELSE asked
  /\ UNCHANGED <<list, cursor, checktime, reuse>>

Skip ==
  /\ AtEntry /\ ~list[cursor].removed /\ ~CallIt(list[cursor])
  /\ cursor' = cursor + 1
  /\ UNCHANGED <<list, checktime, calling, entry, asked, reuse>>

\* The callback returns.
Restarted(L) == [L EXCEPT ![cursor].due = FALSE]
Return ==
  /\ calling
  /\ list' = IF entry.type = "periodic" THEN Restarted(list) ELSE Mark(list, entry.callback)
  /\ calling' = FALSE /\ cursor' = cursor + 1 /\ entry' = NoEntry
  /\ UNCHANGED <<checktime, asked, reuse>>

EndWalk ==
  /\ cursor = Len(list) + 1 /\ ~calling
  /\ cursor' = 0
  /\ UNCHANGED <<list, checktime, calling, entry, asked, reuse>>

Walk == Free \/ Call \/ Skip \/ Return \/ EndWalk

Next ==
  \/ \E c \in Callbacks : Unregister(c) \/ \E type \in Types : Register(c, type)
  \/ WalkInCallback
  \/ \E D \in SUBSET (1 .. Len(list)) : Tick(D)
  \/ \E check \in BOOLEAN : StartWalk(check)
  \/ Walk

Spec == Init /\ [][Next]_vars

\* The sockets are quiet again and again, callbacks return, and time goes on between
\* the walks: a period is over some day.
FairSpec ==
  Spec /\ WF_vars(StartWalk(TRUE)) /\ WF_vars(Walk) /\ SF_vars(Tick(1 .. Len(list)))

-----------------------------------------------------------------------------
(* Properties. *)

\* The entry a callback is called from is not freed under it, whatever the callback
\* unregisters and whether it asks for another walk.
EntryStays ==
  calling => /\ cursor <= Len(list)
             /\ list[cursor].callback = entry.callback /\ list[cursor].type = entry.type

\* No callback is called after it was unregistered, whose priv may be gone, and no
\* one-shot is called twice: as long as its owner waits for its old entry to go.
CalledAsAsked ==
  [][~calling /\ calling' /\ ~reuse => asked[entry'.callback] = entry'.type]_vars

\* A periodic callback that stays registered is called again and again.
PeriodicCalled ==
  \A c \in Callbacks :
    asked[c] = "periodic" ~> (calling /\ entry.callback = c) \/ asked[c] # "periodic"

\* An entry nobody wants any more is freed at last.
UnwantedFreed ==
  \A c \in Callbacks :
    ~reuse /\ asked[c] = "no" ~> Matches(list, c) = {} \/ asked[c] # "no"
=============================================================================
