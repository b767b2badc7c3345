----------------------- MODULE TimerCallbacksProofs ------------------------
(***************************************************************************)
(* Proofs about TimerCallbacks, for all sets of callbacks and any bound.   *)
(*                                                                         *)
(* The argument: owners only append to the list and mark in it, so that    *)
(* neither moves the entry at the cursor or changes whose it is; the walk, *)
(* which alone frees entries, does so only when it is in no callback, and  *)
(* a walk asked for in a callback does nothing.  When owners wait for the  *)
(* old entry to go there is one entry for each callback at most, so that   *)
(* unregistering marks the right one, and an entry that is not marked is   *)
(* of the type its owner asked for.                                        *)
(***************************************************************************)
EXTENDS TimerCallbacks, SequenceTheorems, TLAPS

\* Marking keeps the list's length, and every entry's callback and type.
LEMMA MarkKeeps ==
  ASSUME NEW L \in Seq(Entries), NEW c
  PROVE  /\ Mark(L, c) \in Seq(Entries) /\ Len(Mark(L, c)) = Len(L)
         /\ \A i \in 1 .. Len(L) : /\ Mark(L, c)[i].callback = L[i].callback
                                   /\ Mark(L, c)[i].type = L[i].type
<1>1. CASE Matches(L, c) = {}
  BY <1>1 DEF Mark
<1>2. CASE Matches(L, c) # {}
  <2> DEFINE n == CHOOSE i \in Matches(L, c) : \A j \in Matches(L, c) : i <= j
  <2>1. Mark(L, c) = [L EXCEPT ![n].removed = TRUE]
    BY <1>2 DEF Mark
  <2> HIDE DEF n
  <2>2. \A i \in 1 .. Len(L) : L[i] \in Entries
    OBVIOUS
  <2>3. \A i \in 1 .. Len(L) : [L[i] EXCEPT !.removed = TRUE] \in Entries
    BY <2>2 DEF Entries
  <2>4. Mark(L, c) = [i \in 1 .. Len(L) |-> IF i = n THEN [L[i] EXCEPT !.removed = TRUE] ELSE L[i]]
    BY <2>1, LenProperties
  <2>5. Mark(L, c) \in Seq(Entries) /\ Len(Mark(L, c)) = Len(L)
    BY <2>2, <2>3, <2>4
  <2>6. \A i \in 1 .. Len(L) : /\ Mark(L, c)[i].callback = L[i].callback
                               /\ Mark(L, c)[i].type = L[i].type
    BY <2>2, <2>4 DEF Entries
  <2> QED BY <2>5, <2>6
<1> QED BY <1>1, <1>2

\* Freeing an entry leaves a list one shorter.
LEMMA RemoveAtType ==
  ASSUME NEW L \in Seq(Entries), NEW i \in 1 .. Len(L)
  PROVE  RemoveAt(L, i) \in Seq(Entries) /\ Len(RemoveAt(L, i)) = Len(L) - 1
<1>1. SubSeq(L, 1, i - 1) \in Seq(Entries) /\ Len(SubSeq(L, 1, i - 1)) = i - 1
  BY SubSeqProperties
<1>2. SubSeq(L, i + 1, Len(L)) \in Seq(Entries) /\ Len(SubSeq(L, i + 1, Len(L))) = Len(L) - i
  BY SubSeqProperties
<1>3. RemoveAt(L, i) = SubSeq(L, 1, i - 1) \o SubSeq(L, i + 1, Len(L))
  BY DEF RemoveAt
<1>4. /\ RemoveAt(L, i) \in Seq(Entries)
      /\ Len(RemoveAt(L, i)) = Len(SubSeq(L, 1, i - 1)) + Len(SubSeq(L, i + 1, Len(L)))
  BY ONLY <1>1, <1>2, <1>3, ConcatProperties
<1>5. Len(RemoveAt(L, i)) = (i - 1) + (Len(L) - i)
  BY <1>1, <1>2, <1>4
<1>6. (i - 1) + (Len(L) - i) = Len(L) - 1
  <2>1. i \in Int /\ Len(L) \in Int
    BY LenProperties
  <2>2. \A k, n \in Int : (k - 1) + (n - k) = n - 1
    OBVIOUS
  <2> QED BY ONLY <2>1, <2>2
<1>7. Len(RemoveAt(L, i)) = Len(L) - 1
  BY ONLY <1>5, <1>6, Zenon
<1> QED BY ONLY <1>4, <1>7, Zenon

LEMMA NoEntryType == NoEntry \in Entries
BY CallbacksAssumption DEF NoEntry, NewEntry, Entries, Types

\* The type invariant, and that the entry in use stays at the cursor.
Inv == TypeOK /\ EntryStays /\ (calling => cursor \in 1 .. Len(list))

LEMMA InitInv == Init => Inv
<1> SUFFICES ASSUME Init PROVE Inv
  OBVIOUS
<1>1. list \in Seq(Entries) /\ Len(list) = 0
  BY DEF Init
<1>2. asked \in [Callbacks -> Types \cup {"no"}]
  BY DEF Init
<1>3. entry \in Entries /\ ~calling /\ cursor \in 0 .. Len(list) + 1
  BY <1>1, NoEntryType DEF Init
<1>4. checktime \in BOOLEAN /\ reuse \in BOOLEAN /\ calling \in BOOLEAN
  BY DEF Init
<1> QED BY <1>1, <1>2, <1>3, <1>4, MaxEntriesAssumption DEF Inv, TypeOK, EntryStays

LEMMA RegisterInv ==
  ASSUME Inv, NEW c \in Callbacks, NEW type \in Types, Register(c, type) PROVE Inv'
<1>1. NewEntry(c, type) \in Entries
  BY DEF NewEntry, Entries, Types
<1>2. /\ list' \in Seq(Entries) /\ Len(list') = Len(list) + 1
      /\ \A i \in 1 .. Len(list) : list'[i] = list[i]
  BY <1>1 DEF Inv, TypeOK, Register
<1>3. /\ asked' \in [Callbacks -> Types \cup {"no"}] /\ Len(list) < MaxEntries
      /\ cursor' = cursor /\ calling' = calling /\ entry' = entry
      /\ checktime' = checktime /\ reuse' = reuse
  BY DEF Inv, TypeOK, Register
<1> QED BY <1>2, <1>3, MaxEntriesAssumption DEF Inv, TypeOK, EntryStays

LEMMA UnregisterInv ==
  ASSUME Inv, NEW c \in Callbacks, Unregister(c) PROVE Inv'
<1>1. /\ list' \in Seq(Entries) /\ Len(list') = Len(list)
      /\ \A i \in 1 .. Len(list) : /\ list'[i].callback = list[i].callback
                                   /\ list'[i].type = list[i].type
  BY MarkKeeps DEF Inv, TypeOK, Unregister
<1>2. /\ asked' \in [Callbacks -> Types \cup {"no"}]
      /\ cursor' = cursor /\ calling' = calling /\ entry' = entry
      /\ checktime' = checktime /\ reuse' = reuse
  BY DEF Inv, TypeOK, Unregister
<1> QED BY <1>1, <1>2 DEF Inv, TypeOK, EntryStays

LEMMA TickInv ==
  ASSUME Inv, NEW D, Tick(D) PROVE Inv'
<1>1. \A i \in 1 .. Len(list) : list[i] \in Entries
  BY DEF Inv, TypeOK
<1>2. \A i \in 1 .. Len(list) :
        [list[i] EXCEPT !.due = (list[i].due \/ i \in D)] \in Entries
  BY <1>1 DEF Entries
<1>3. list' = [i \in 1 .. Len(list) |-> [list[i] EXCEPT !.due = (list[i].due \/ i \in D)]]
  BY DEF Tick
<1>4. /\ list' \in Seq(Entries) /\ Len(list') = Len(list)
      /\ \A i \in 1 .. Len(list) : /\ list'[i].callback = list[i].callback
                                   /\ list'[i].type = list[i].type
  BY <1>1, <1>2, <1>3 DEF Inv, TypeOK, Entries
<1> QED BY <1>4 DEF Inv, TypeOK, EntryStays, Tick

LEMMA FreeInv == ASSUME Inv, Free PROVE Inv'
<1>1. cursor \in 1 .. Len(list) /\ ~calling /\ list' = RemoveAt(list, cursor)
  BY DEF Inv, TypeOK, Free, AtEntry
<1>2. list' \in Seq(Entries) /\ Len(list') = Len(list) - 1
  BY <1>1, RemoveAtType DEF Inv, TypeOK
<1> QED BY <1>1, <1>2, MaxEntriesAssumption DEF Inv, TypeOK, EntryStays, Free

LEMMA CallInv == ASSUME Inv, Call PROVE Inv'
<1>1. cursor \in 1 .. Len(list) /\ list[cursor] \in Entries /\ entry' = list[cursor]
  BY DEF Inv, TypeOK, Call, AtEntry
<1>2. asked' \in [Callbacks -> Types \cup {"no"}]
  BY <1>1 DEF Inv, TypeOK, Call, Entries
<1> QED BY <1>1, <1>2 DEF Inv, TypeOK, EntryStays, Call

LEMMA ReturnInv == ASSUME Inv, Return PROVE Inv'
<1>1. list' \in Seq(Entries) /\ Len(list') = Len(list)
  <2>1. CASE entry.type = "periodic"
    <3>1. list[cursor] \in Entries /\ cursor \in 1 .. Len(list)
      BY DEF Inv, TypeOK, Return
    <3>2. [list[cursor] EXCEPT !.due = FALSE] \in Entries
      BY <3>1 DEF Entries
    <3> QED BY <2>1, <3>1, <3>2 DEF Inv, TypeOK, Return, Restarted
  <2>2. CASE entry.type # "periodic"
    BY <2>2, MarkKeeps DEF Inv, TypeOK, Return
  <2> QED BY <2>1, <2>2
<1>2. /\ cursor' \in 0 .. Len(list') + 1 /\ ~calling'
      /\ entry' \in Entries
  BY <1>1, NoEntryType DEF Inv, TypeOK, Return
<1> QED BY <1>1, <1>2 DEF Inv, TypeOK, EntryStays, Return

\* Every other step leaves the list alone and is in no callback afterwards, or
\* changes nothing.
LEMMA WalkInv ==
  ASSUME Inv, \/ WalkInCallback \/ Skip \/ EndWalk
              \/ \E check \in BOOLEAN : StartWalk(check)
  PROVE  Inv'
<1>1. CASE WalkInCallback
  BY <1>1 DEF Inv, TypeOK, EntryStays, WalkInCallback, Nested
<1>2. CASE Skip
  BY <1>2 DEF Inv, TypeOK, EntryStays, Skip, AtEntry
<1>3. CASE EndWalk
  BY <1>3 DEF Inv, TypeOK, EntryStays, EndWalk
<1>4. CASE \E check \in BOOLEAN : StartWalk(check)
  BY <1>4 DEF Inv, TypeOK, EntryStays, StartWalk
<1> QED BY <1>1, <1>2, <1>3, <1>4

THEOREM Invariance == Spec => []Inv
<1>1. Inv /\ [Next]_vars => Inv'
  <2> SUFFICES ASSUME Inv, [Next]_vars PROVE Inv'
    OBVIOUS
  <2>1. CASE UNCHANGED vars
    BY <2>1 DEF Inv, TypeOK, EntryStays, vars
  <2>2. ASSUME NEW c \in Callbacks, Unregister(c) PROVE Inv'
    BY <2>2, UnregisterInv
  <2>3. ASSUME NEW c \in Callbacks, NEW type \in Types, Register(c, type) PROVE Inv'
    BY <2>3, RegisterInv
  <2>4. ASSUME NEW D \in SUBSET (1 .. Len(list)), Tick(D) PROVE Inv'
    BY <2>4, TickInv
  <2>5. CASE WalkInCallback \/ Skip \/ EndWalk \/ \E check \in BOOLEAN : StartWalk(check)
    BY <2>5, WalkInv
  <2>6. CASE Free
    BY <2>6, FreeInv
  <2>7. CASE Call
    BY <2>7, CallInv
  <2>8. CASE Return
    BY <2>8, ReturnInv
  <2> QED BY <2>1, <2>2, <2>3, <2>4, <2>5, <2>6, <2>7, <2>8 DEF Next, Walk
<1> QED BY InitInv, <1>1, PTL DEF Spec

\* Type correctness of the list and the walk over it.
THEOREM TypeCorrect == Spec => []TypeOK
<1>1. Inv => TypeOK
  BY DEF Inv
<1> QED BY Invariance, <1>1, PTL

\* The walk never frees the entry a callback runs from, whatever the callback does
\* to the list (target.c:1675, "Do not allow nesting").
THEOREM EntryIsKept == Spec => []EntryStays
<1>1. Inv => EntryStays
  BY DEF Inv
<1> QED BY Invariance, <1>1, PTL

-----------------------------------------------------------------------------
(* Called as asked. *)

\* With one entry for each callback at most, unregistering marks all of them.
LEMMA MarkMarks ==
  ASSUME NEW L \in Seq(Entries), NEW c,
         \A i, j \in 1 .. Len(L) : L[i].callback = L[j].callback => i = j
  PROVE  \A i \in 1 .. Len(L) : Mark(L, c)[i].removed = (L[i].removed \/ L[i].callback = c)
<1>0. \A i \in 1 .. Len(L) : L[i] \in Entries /\ L[i].removed \in BOOLEAN
  <2>1. \A i \in 1 .. Len(L) : L[i] \in Entries
    OBVIOUS
  <2> QED
    BY <2>1 DEF Entries
<1>1. CASE Matches(L, c) = {}
  BY <1>0, <1>1 DEF Mark, Matches
<1>2. CASE Matches(L, c) # {}
  <2> DEFINE n == CHOOSE i \in Matches(L, c) : \A j \in Matches(L, c) : i <= j
  <2>1. Mark(L, c) = [L EXCEPT ![n].removed = TRUE]
    BY <1>2 DEF Mark
  <2>2. PICK m \in 1 .. Len(L) : L[m].callback = c
    BY <1>2 DEF Matches
  <2>3. Matches(L, c) = {m}
    BY <2>2 DEF Matches
  <2>4. n = m
    <3>1. m \in Matches(L, c) /\ \A j \in Matches(L, c) : m <= j
      BY <2>3
    <3>2. n \in Matches(L, c)
      BY <3>1
    <3> QED
      BY <2>3, <3>2
  <2> HIDE DEF n
  <2>5. Mark(L, c) = [i \in 1 .. Len(L) |-> IF i = m THEN [L[i] EXCEPT !.removed = TRUE] ELSE L[i]]
    BY <2>1, <2>4, LenProperties
  <2>6. \A i \in 1 .. Len(L) : L[i].callback = c => i = m
    BY <2>2
  <2> QED
    BY <1>0, <2>2, <2>5, <2>6 DEF Entries
<1> QED
  BY <1>1, <1>2

\* Freeing an entry moves those behind it.
LEMMA RemoveAtElements ==
  ASSUME NEW L \in Seq(Entries), NEW i \in 1 .. Len(L)
  PROVE  \A k \in 1 .. Len(L) - 1 : RemoveAt(L, i)[k] = IF k < i THEN L[k] ELSE L[k + 1]
<1> DEFINE front == SubSeq(L, 1, i - 1)
           back == SubSeq(L, i + 1, Len(L))
<1>1. /\ front \in Seq(Entries) /\ Len(front) = i - 1
      /\ \A k \in 1 .. i - 1 : front[k] = L[k]
  BY SubSeqProperties
<1>2. /\ back \in Seq(Entries) /\ Len(back) = Len(L) - i
      /\ \A k \in 1 .. Len(L) - i : back[k] = L[i + k]
  BY SubSeqProperties
<1>3. RemoveAt(L, i) = front \o back
  BY DEF RemoveAt
<1> HIDE DEF front, back
<1>4. \A k \in 1 .. Len(front) + Len(back) :
        (front \o back)[k] = IF k <= Len(front) THEN front[k] ELSE back[k - Len(front)]
  BY <1>1, <1>2, ConcatProperties, ZenonT(30)
<1> SUFFICES ASSUME NEW k \in 1 .. Len(L) - 1
             PROVE  RemoveAt(L, i)[k] = IF k < i THEN L[k] ELSE L[k + 1]
  OBVIOUS
<1>5. k \in Int /\ i \in Int /\ Len(L) \in Nat /\ k >= 1 /\ k <= Len(L) - 1 /\ i >= 1 /\ i <= Len(L)
  OBVIOUS
<1>6. k \in 1 .. Len(front) + Len(back)
  BY <1>1, <1>2, <1>5
<1>7. CASE k < i
  <2>1. k <= Len(front) /\ k \in 1 .. i - 1
    BY <1>1, <1>5, <1>7
  <2> QED
    BY <1>1, <1>3, <1>4, <1>6, <1>7, <2>1
<1>8. CASE ~(k < i)
  <2>1. ~(k <= Len(front)) /\ k - Len(front) \in 1 .. Len(L) - i /\ i + (k - Len(front)) = k + 1
    BY <1>1, <1>5, <1>8
  <2> QED
    BY <1>2, <1>3, <1>4, <1>6, <1>8, <2>1
<1> QED
  BY <1>7, <1>8

\* An owner that waits for its old entry to go has one entry at most.
OneEntry == \A i, j \in 1 .. Len(list) : list[i].callback = list[j].callback => i = j
\* Entries that are not marked are as asked, but for the one-shot being called.
Wanted(i) ==
  list[i].removed \/ asked[list[i].callback] = list[i].type
    \/ (calling /\ i = cursor /\ entry.type = "oneshot")
AsAsked == ~reuse => OneEntry /\ \A i \in 1 .. Len(list) : Wanted(i)

LEMMA InitAsAsked == Init => AsAsked
<1> SUFFICES ASSUME Init PROVE AsAsked
  OBVIOUS
<1>1. Len(list) = 0
  BY DEF Init
<1> QED BY <1>1 DEF AsAsked, OneEntry

\* Steps that neither add nor free an entry, nor mark or ask for anything.
LEMMA SameAsAsked ==
  ASSUME Inv, AsAsked, UNCHANGED <<asked, reuse>>, Len(list') = Len(list),
         \A i \in 1 .. Len(list) : /\ list'[i].callback = list[i].callback
                                   /\ list'[i].type = list[i].type
                                   /\ list'[i].removed = list[i].removed,
         UNCHANGED <<calling, cursor, entry>> \/ ~calling
  PROVE  AsAsked'
BY DEF AsAsked, OneEntry, Wanted

LEMMA RegisterAsAsked ==
  ASSUME Inv, AsAsked, NEW c \in Callbacks, NEW type \in Types, Register(c, type)
  PROVE  AsAsked'
<1> SUFFICES ASSUME ~reuse
             PROVE  OneEntry' /\ \A i \in 1 .. Len(list') : Wanted(i)'
  BY DEF AsAsked, Register
<1>1. /\ Len(list) \in Nat /\ Len(list') = Len(list) + 1
      /\ \A i \in 1 .. Len(list) : list'[i] = list[i]
      /\ list'[Len(list) + 1] = NewEntry(c, type)
  <2>1. list \in Seq(Entries) /\ list' = Append(list, NewEntry(c, type))
    BY DEF Inv, TypeOK, Register
  <2> QED
    BY <2>1
<1>2. \A i \in 1 .. Len(list) : list[i].callback # c
  BY DEF Register, Matches
<1>3. NewEntry(c, type).callback = c /\ NewEntry(c, type).type = type
  BY DEF NewEntry
<1>4. /\ asked' = [asked EXCEPT ![c] = type] /\ asked \in [Callbacks -> Types \cup {"no"}]
      /\ UNCHANGED <<calling, cursor, entry>>
  BY DEF Register, Inv, TypeOK
<1>5. \A i \in 1 .. Len(list') : i \in 1 .. Len(list) \/ i = Len(list) + 1
  BY <1>1
<1>6. OneEntry'
  BY <1>1, <1>2, <1>3, <1>5 DEF AsAsked, OneEntry
<1>7. \A i \in 1 .. Len(list') : Wanted(i)'
  <2> SUFFICES ASSUME NEW i \in 1 .. Len(list')
               PROVE  Wanted(i)'
    OBVIOUS
  <2>1. CASE i = Len(list) + 1
    <3>1. asked'[list'[i].callback] = list'[i].type
      BY <1>1, <1>3, <1>4, <2>1
    <3> QED
      BY <3>1 DEF Wanted
  <2>2. CASE i \in 1 .. Len(list)
    <3>1. Wanted(i) /\ list'[i] = list[i] /\ list[i].callback # c
      BY <1>1, <1>2, <2>2 DEF AsAsked
    <3>2. list[i].callback \in Callbacks
      <4>1. list[i] \in Entries
        BY <2>2 DEF Inv, TypeOK
      <4> QED
        BY <4>1 DEF Entries
    <3>3. asked'[list[i].callback] = asked[list[i].callback]
      BY <1>4, <3>1, <3>2
    <3> QED
      BY <1>4, <3>1, <3>3 DEF Wanted
  <2> QED
    BY <1>5, <2>1, <2>2
<1> QED
  BY <1>6, <1>7

\* Marking the entry of a callback is right when its owner wants no call any more,
\* and whoever else does is untouched.
LEMMA MarkAsAsked ==
  ASSUME Inv, AsAsked, ~reuse, NEW c, list' = Mark(list, c),
         \A d \in Callbacks : d # c => asked'[d] = asked[d],
         \A i \in 1 .. Len(list) :
           Wanted(i) /\ list[i].callback # c =>
             list[i].removed \/ asked[list[i].callback] = list[i].type
               \/ (calling' /\ i = cursor' /\ entry'.type = "oneshot")
  PROVE  OneEntry' /\ \A i \in 1 .. Len(list') : Wanted(i)'
<1>1. /\ Len(list') = Len(list)
      /\ \A i \in 1 .. Len(list) : /\ list'[i].callback = list[i].callback
                                    /\ list'[i].type = list[i].type
  BY MarkKeeps DEF Inv, TypeOK
<1>2. OneEntry
  BY DEF AsAsked
<1>3. \A i \in 1 .. Len(list) : list'[i].removed = (list[i].removed \/ list[i].callback = c)
  <2>1. list \in Seq(Entries)
    BY DEF Inv, TypeOK
  <2> QED
    BY <1>2, <2>1, MarkMarks DEF OneEntry
<1>4. OneEntry'
  BY <1>1, <1>2 DEF OneEntry
<1>5. ASSUME NEW i \in 1 .. Len(list)
      PROVE  Wanted(i)'
  <2>1. CASE list[i].callback = c
    BY <1>3, <2>1 DEF Wanted
  <2>2. CASE list[i].callback # c
    <3>1. list[i].callback \in Callbacks
      <4>1. list[i] \in Entries
        BY DEF Inv, TypeOK
      <4> QED
        BY <4>1 DEF Entries
    <3>2. list[i].removed \/ asked[list[i].callback] = list[i].type
            \/ (calling' /\ i = cursor' /\ entry'.type = "oneshot")
      BY <2>2 DEF AsAsked
    <3> QED
      BY <1>1, <1>3, <2>2, <3>1, <3>2 DEF Wanted
  <2> QED
    BY <2>1, <2>2
<1> QED
  BY <1>1, <1>4, <1>5

LEMMA UnregisterAsAsked ==
  ASSUME Inv, AsAsked, NEW c \in Callbacks, Unregister(c)
  PROVE  AsAsked'
<1>1. /\ list' = Mark(list, c) /\ UNCHANGED <<cursor, calling, entry, reuse>>
      /\ \A d \in Callbacks : d # c => asked'[d] = asked[d]
  BY DEF Unregister, Inv, TypeOK
<1>2. ~reuse => OneEntry' /\ \A i \in 1 .. Len(list') : Wanted(i)'
  BY <1>1, MarkAsAsked DEF Wanted
<1> QED
  BY <1>1, <1>2 DEF AsAsked

LEMMA FreeAsAsked ==
  ASSUME Inv, AsAsked, Free
  PROVE  AsAsked'
<1> SUFFICES ASSUME ~reuse
             PROVE  OneEntry' /\ \A i \in 1 .. Len(list') : Wanted(i)'
  BY DEF AsAsked, Free
<1>1. list \in Seq(Entries) /\ cursor \in 1 .. Len(list) /\ ~calling /\ list' = RemoveAt(list, cursor)
      /\ UNCHANGED <<calling, asked>>
  BY DEF Inv, TypeOK, Free, AtEntry
<1>2. /\ Len(list') = Len(list) - 1
      /\ \A k \in 1 .. Len(list) - 1 : list'[k] = IF k < cursor THEN list[k] ELSE list[k + 1]
  BY <1>1, RemoveAtType, RemoveAtElements
<1> DEFINE old(k) == IF k < cursor THEN k ELSE k + 1
<1>3. \A k \in 1 .. Len(list') : old(k) \in 1 .. Len(list) /\ list'[k] = list[old(k)]
  BY <1>1, <1>2
<1>4. \A k, l \in 1 .. Len(list') : old(k) = old(l) => k = l
  BY <1>1, <1>2
<1> HIDE DEF old
<1>5. OneEntry'
  BY <1>3, <1>4 DEF AsAsked, OneEntry
<1>6. \A k \in 1 .. Len(list') : Wanted(k)'
  BY <1>1, <1>3 DEF AsAsked, Wanted
<1> QED
  BY <1>5, <1>6

LEMMA CallAsAsked ==
  ASSUME Inv, AsAsked, Call
  PROVE  AsAsked'
<1>1. /\ cursor \in 1 .. Len(list) /\ ~calling /\ calling' = TRUE /\ entry' = list[cursor]
      /\ UNCHANGED <<list, cursor, reuse>>
      /\ asked' = IF entry'.type = "oneshot" THEN [asked EXCEPT ![entry'.callback] = "no"] ELSE asked
      /\ asked \in [Callbacks -> Types \cup {"no"}]
  BY DEF Call, AtEntry, Inv, TypeOK
<1> SUFFICES ASSUME ~reuse
             PROVE  OneEntry' /\ \A i \in 1 .. Len(list') : Wanted(i)'
  BY <1>1 DEF AsAsked
<1>2. OneEntry
  BY DEF AsAsked
<1>3. ASSUME NEW i \in 1 .. Len(list)
      PROVE  Wanted(i)'
  <2>1. list[i].removed \/ asked[list[i].callback] = list[i].type
    BY <1>1 DEF AsAsked, Wanted
  <2>2. CASE entry'.type # "oneshot"
    BY <1>1, <2>1, <2>2 DEF Wanted
  <2>3. CASE entry'.type = "oneshot" /\ i = cursor
    BY <1>1, <2>3 DEF Wanted
  <2>4. CASE entry'.type = "oneshot" /\ i # cursor
    <3>1. list[i].callback # entry'.callback
      BY <1>1, <1>2, <2>4 DEF OneEntry
    <3>2. asked'[list[i].callback] = asked[list[i].callback]
      <4>1. list[i] \in Entries
        BY DEF Inv, TypeOK
      <4> QED
        BY <1>1, <3>1, <4>1 DEF Entries
    <3> QED
      BY <1>1, <2>1, <3>2 DEF Wanted
  <2> QED
    BY <2>2, <2>3, <2>4
<1> QED
  BY <1>1, <1>2, <1>3 DEF OneEntry

LEMMA ReturnAsAsked ==
  ASSUME Inv, AsAsked, Return
  PROVE  AsAsked'
<1>1. /\ calling /\ calling' = FALSE /\ UNCHANGED <<asked, reuse>>
      /\ list' = IF entry.type = "periodic" THEN Restarted(list) ELSE Mark(list, entry.callback)
      /\ cursor \in 1 .. Len(list) /\ list \in Seq(Entries) /\ entry.type \in Types
      /\ list[cursor].callback = entry.callback /\ list[cursor].type = entry.type
  BY DEF Return, Inv, TypeOK, EntryStays, Entries
<1> SUFFICES ASSUME ~reuse
             PROVE  OneEntry' /\ \A i \in 1 .. Len(list') : Wanted(i)'
  BY <1>1 DEF AsAsked
<1>2. CASE entry.type = "periodic"
  <2>1. list' = [list EXCEPT ![cursor].due = FALSE]
    BY <1>1, <1>2 DEF Restarted
  <2>2. list[cursor] \in Entries
    BY <1>1
  <2>3. /\ Len(list') = Len(list)
        /\ \A i \in 1 .. Len(list) : /\ list'[i].callback = list[i].callback
                                      /\ list'[i].type = list[i].type
                                      /\ list'[i].removed = list[i].removed
    BY <1>1, <2>1, <2>2 DEF Entries
  <2>4. \A i \in 1 .. Len(list) : list[i].removed \/ asked[list[i].callback] = list[i].type
    BY <1>2 DEF AsAsked, Wanted
  <2>5. OneEntry'
    BY <2>3 DEF AsAsked, OneEntry
  <2>6. \A i \in 1 .. Len(list') : Wanted(i)'
    BY <1>1, <2>3, <2>4 DEF Wanted
  <2> QED
    BY <2>5, <2>6
<1>3. CASE entry.type # "periodic"
  <2>1. list' = Mark(list, entry.callback)
    BY <1>1, <1>3
  <2>2. \A i \in 1 .. Len(list) :
          Wanted(i) /\ list[i].callback # entry.callback =>
            list[i].removed \/ asked[list[i].callback] = list[i].type
    BY <1>1 DEF Wanted
  <2>3. \A d \in Callbacks : d # entry.callback => asked'[d] = asked[d]
    BY <1>1
  <2> QED
    BY <2>1, <2>2, <2>3, MarkAsAsked
<1> QED
  BY <1>2, <1>3

LEMMA OtherAsAsked ==
  ASSUME Inv, AsAsked,
         \/ UNCHANGED vars \/ WalkInCallback \/ Skip \/ EndWalk
         \/ \E D \in SUBSET (1 .. Len(list)) : Tick(D)
         \/ \E check \in BOOLEAN : StartWalk(check)
  PROVE  AsAsked'
<1>1. CASE UNCHANGED vars \/ WalkInCallback
  <2>1. UNCHANGED <<list, asked, reuse, calling, cursor, entry>>
    BY <1>1 DEF vars, WalkInCallback, Nested
  <2> QED
    BY <2>1 DEF AsAsked, OneEntry, Wanted
<1>2. CASE Skip \/ EndWalk \/ \E check \in BOOLEAN : StartWalk(check)
  <2>1. UNCHANGED <<list, asked, reuse, calling, entry>>
    BY <1>2 DEF Skip, EndWalk, StartWalk
  <2>2. ~calling
    <3>1. calling => cursor # 0
      BY DEF Inv
    <3> QED
      BY <1>2, <3>1 DEF Skip, AtEntry, EndWalk, StartWalk
  <2> QED
    BY <2>1, <2>2 DEF AsAsked, OneEntry, Wanted
<1>3. ASSUME NEW D, Tick(D)
      PROVE  AsAsked'
  <2>1. list' = [i \in 1 .. Len(list) |-> [list[i] EXCEPT !.due = (list[i].due \/ i \in D)]]
        /\ UNCHANGED <<asked, reuse, calling, cursor, entry>>
    BY <1>3 DEF Tick
  <2>2. Len(list) \in Nat /\ \A i \in 1 .. Len(list) : list[i] \in Entries
    BY DEF Inv, TypeOK
  <2>3. /\ Len(list') = Len(list)
        /\ \A i \in 1 .. Len(list) : /\ list'[i].callback = list[i].callback
                                      /\ list'[i].type = list[i].type
                                      /\ list'[i].removed = list[i].removed
    BY <2>1, <2>2 DEF Entries
  <2> QED
    BY <2>1, <2>3, SameAsAsked
<1> QED
  BY <1>1, <1>2, <1>3

\* As long as owners wait for their old entries to go, a callback is called only for
\* an owner who asked for that call and has not taken it back: never after it was
\* unregistered, and a one-shot never twice (target.c:1691-1703).
THEOREM AsAskedOnly == Spec => CalledAsAsked
<1>1. AsAsked /\ Inv /\ [Next]_vars => AsAsked'
  <2> SUFFICES ASSUME AsAsked, Inv, [Next]_vars PROVE AsAsked'
    OBVIOUS
  <2>1. ASSUME NEW c \in Callbacks, Unregister(c) PROVE AsAsked'
    BY <2>1, UnregisterAsAsked
  <2>2. ASSUME NEW c \in Callbacks, NEW type \in Types, Register(c, type) PROVE AsAsked'
    BY <2>2, RegisterAsAsked
  <2>3. CASE Free
    BY <2>3, FreeAsAsked
  <2>4. CASE Call
    BY <2>4, CallAsAsked
  <2>5. CASE Return
    BY <2>5, ReturnAsAsked
  <2>6. CASE \/ UNCHANGED vars \/ WalkInCallback \/ Skip \/ EndWalk
             \/ \E D \in SUBSET (1 .. Len(list)) : Tick(D)
             \/ \E check \in BOOLEAN : StartWalk(check)
    BY <2>6, OtherAsAsked
  <2> QED BY <2>1, <2>2, <2>3, <2>4, <2>5, <2>6 DEF Next, Walk
<1>2. AsAsked /\ Inv /\ [Next]_vars
        => [~calling /\ calling' /\ ~reuse => asked[entry'.callback] = entry'.type]_vars
  <2> SUFFICES ASSUME AsAsked, Inv, Next, ~calling, calling', ~reuse
               PROVE  asked[entry'.callback] = entry'.type
    OBVIOUS
  <2>1. Call
    BY DEF Next, Walk, Unregister, Register, WalkInCallback, Tick, StartWalk, Free, Skip, Return, EndWalk
  <2> QED
    BY <2>1 DEF Call, AtEntry, AsAsked, Wanted
<1> QED BY Invariance, InitAsAsked, <1>1, <1>2, PTL DEF Spec, CalledAsAsked
=============================================================================
