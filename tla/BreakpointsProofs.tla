------------------------- MODULE BreakpointsProofs -------------------------
(***************************************************************************)
(* Breakpoints: what is set fires on every hart, no trigger fires that     *)
(* nobody remembers, what was accepted stays, and the program's            *)
(* instructions are kept, for every number of harts, slots and addresses   *)
(* and whatever triggers the harts have, where these hold.                 *)
(***************************************************************************)
EXTENDS Breakpoints, FiniteSetTheorems, WellFoundedInduction, TLAPS

(* What the harts of a target have in common, where one target stands for  *)
(* all of them: the triggers of a slot are the same on every hart, and     *)
(* none is of a type riscv.c does not know.                                *)
Even == env.rtos => \A g, h \in Harts : env.kind[g] = env.kind[h]
Known == \A h \in Harts, i \in Slots : env.kind[h][i] # "other"

(* The invariant speaks of the slots and triggers before and after an      *)
(* operation on one target, so that the operations can be put together.    *)
Owners == Addrs \cup {None, Gone}
States == [used : [Harts -> [Slots -> Owners]],
           armed : [Harts -> [Slots -> Addrs \cup {None}]]]

\* What a trigger of t fires on is what its slot is used for.
Remembered(S, t) ==
  \A h \in HartsOf(t), i \in Slots :
    S.armed[h][i] # None => S.used[t][i] \in {S.armed[h][i], Gone}

\* A slot is used for what its triggers can do.
Suits(S, t) ==
  \A h \in HartsOf(t), i \in Slots :
    S.used[t][i] \in Addrs => Fits(env.kind[h][i], S.used[t][i])

\* One slot fires on a on every hart of t.
There(S, t, a) == \E i \in Slots : S.used[t][i] = a /\ \A h \in HartsOf(t) : S.armed[h][i] = a

\* An operation on t that frees nothing but the points of A.
Kept(S, U, t, A) ==
  /\ U \in States
  /\ Even /\ Remembered(S, t) => Remembered(U, t)
  /\ Even /\ Known /\ Remembered(S, t) /\ Suits(S, t) => Suits(U, t)
  /\ \A a \in Addrs \ A : There(S, t, a) => There(U, t, a)

\* Either all harts agree that a is set, or all lists have it.
Agreed ==
  \A a \in accepted :
    \/ \E b \in bps[Head] : b.addr = a /\ b.type = "soft" /\ mem[a] = "ebreak"
    \/ \A t \in Targets : a \in Hards(t)
    \/ \A t \in Targets : Watched(t, a)

HardsThere == \A t \in Targets : \A a \in Hards(t) : There(Now, t, a)
WatchesThere == \A t \in Targets : \A a \in SetWatches(t) : There(Now, t, a)
AllSet == \A t \in Targets : \A w \in wps[t] : w.set

Placed ==
  /\ Even => \A t \in Targets : Remembered(Now, t)
  /\ Even /\ Known => \A t \in Targets : Suits(Now, t)
  /\ Even /\ Known => HardsThere
  /\ Even /\ Known /\ ~(env.rtos /\ env.faults) => WatchesThere
  /\ Even /\ Known /\ ~env.faults => AllSet
  /\ Agreed

\* Software breakpoints are where memory can be written.
SoftsInRam == \A t \in Harts : \A b \in bps[t] : b.type = "soft" => b.addr \in RamAddrs

Inv == TypeOK /\ ProgramIntact /\ Placed /\ SoftsInRam

-----------------------------------------------------------------------------
(* Least elements, and folds. *)

\* A nonempty set of naturals has a least element.
LEMMA LeastNat ==
  ASSUME NEW S \in SUBSET Nat, S # {}
  PROVE  \E m \in S : \A n \in S : m <= n
<1> DEFINE T == {0 .. n : n \in S}
<1>1. T \subseteq FiniteSubsetsOf(Nat) /\ T # {}
  <2>1. \A n \in S : (0 .. n) \in SUBSET Nat /\ IsFiniteSet(0 .. n)
    BY FS_Interval
  <2> QED BY <2>1 DEF FiniteSubsetsOf
<1>2. IsWellFoundedOn(StrictSubsetOrdering(Nat), FiniteSubsetsOf(Nat))
  BY FS_StrictSubsetOrderingWellFounded
<1>3. \E x \in T : \A y \in T : ~(<<y, x>> \in StrictSubsetOrdering(Nat))
  <2> HIDE DEF T
  <2> QED BY <1>1, <1>2, WFMin
<1>4. PICK m \in S : \A n \in S : ~(<<0 .. n, 0 .. m>> \in StrictSubsetOrdering(Nat))
  BY <1>3
<1>5. ASSUME NEW n \in S, n < m PROVE FALSE
  <2>1. (0 .. n) \subseteq (0 .. m) /\ m \in 0 .. m /\ m \notin 0 .. n
    BY <1>5
  <2>2. <<0 .. n, 0 .. m>> \in StrictSubsetOrdering(Nat)
    BY <2>1 DEF StrictSubsetOrdering
  <2> QED BY <1>4, <2>2
<1> QED BY <1>5

\* A nonempty set of subsets of a finite set has a smallest one.
LEMMA SmallestSubset ==
  ASSUME NEW A, IsFiniteSet(A), NEW T \in SUBSET SUBSET A, T # {}
  PROVE  \E B \in T : \A C \in T : C \subseteq B => C = B
<1>1. T \subseteq FiniteSubsetsOf(A)
  BY FS_Subset DEF FiniteSubsetsOf
<1>2. IsWellFoundedOn(StrictSubsetOrdering(A), FiniteSubsetsOf(A))
  BY FS_StrictSubsetOrderingWellFounded
<1>3. PICK B \in T : \A C \in T : ~(<<C, B>> \in StrictSubsetOrdering(A))
  BY <1>1, <1>2, WFMin
<1>4. ASSUME NEW C \in T, C \subseteq B, C # B PROVE FALSE
  <2>1. <<C, B>> \in StrictSubsetOrdering(A)
    BY <1>4 DEF StrictSubsetOrdering
  <2> QED BY <1>3, <2>1
<1> QED BY <1>4

\* The triggers of A are added one by one to those of S.
One(B) == CHOOSE a \in B : TRUE
IsFold(f, S, t, A, ok) ==
  f = [B \in SUBSET A |-> IF B = {} THEN S ELSE AddTrigger(f[B \ {One(B)}], t, One(B), ok)]

\* A step of the fold.
LEMMA FoldStep ==
  ASSUME NEW f, NEW S, NEW t, NEW A, NEW ok, IsFold(f, S, t, A, ok), NEW B \in SUBSET A
  PROVE  /\ B = {} => f[B] = S
         /\ B # {} => /\ f[B] = AddTrigger(f[B \ {One(B)}], t, One(B), ok)
                      /\ One(B) \in B /\ B \ {One(B)} \in SUBSET A /\ B \ {One(B)} # B
<1>1. B # {} => One(B) \in B
  BY DEF One
<1> DEFINE e(C) == IF C = {} THEN S ELSE AddTrigger(f[C \ {One(C)}], t, One(C), ok)
<1>2. f = [C \in SUBSET A |-> e(C)]
  BY Zenon DEF IsFold
<1>3. f[B] = e(B)
  <2> HIDE DEF e
  <2> QED BY <1>2
<1> QED BY <1>1, <1>3

\* Two folds agree where both are defined.
LEMMA FoldsAgree ==
  ASSUME NEW S, NEW t, NEW ok, NEW A, IsFiniteSet(A),
         NEW B \in SUBSET A, NEW C \in SUBSET A, NEW f, NEW g,
         IsFold(f, S, t, B, ok), IsFold(g, S, t, C, ok),
         NEW D \in SUBSET A, D \subseteq B, D \subseteq C
  PROVE  f[D] = g[D]
<1> DEFINE T == {E \in SUBSET A : E \subseteq B /\ E \subseteq C /\ f[E] # g[E]}
<1>1. SUFFICES ASSUME T # {} PROVE FALSE
  OBVIOUS
<1>2. PICK E \in T : \A F \in T : F \subseteq E => F = E
  <2> HIDE DEF T
  <2>1. T \in SUBSET SUBSET A
    BY DEF T
  <2> QED BY <1>1, <2>1, SmallestSubset
<1>3. E # {}
  <2>1. E \in SUBSET B /\ E \in SUBSET C /\ f[E] # g[E]
    BY <1>2
  <2>2. E = {} => f[E] = S /\ g[E] = S
    BY <2>1, FoldStep
  <2> QED BY <2>1, <2>2
<1>4. /\ f[E] = AddTrigger(f[E \ {One(E)}], t, One(E), ok)
      /\ g[E] = AddTrigger(g[E \ {One(E)}], t, One(E), ok)
      /\ E \ {One(E)} # E
  BY <1>3, FoldStep
<1>5. E \ {One(E)} \notin T
  BY <1>2, <1>4
<1>6. f[E \ {One(E)}] = g[E \ {One(E)}]
  BY <1>5
<1> QED BY <1>4, <1>6

\* There is a fold over a finite set.
LEMMA FoldExists ==
  ASSUME NEW S, NEW t, NEW ok, NEW A, IsFiniteSet(A)
  PROVE  \E f : IsFold(f, S, t, A, ok)
<1> DEFINE T == {B \in SUBSET A : \A f : ~IsFold(f, S, t, B, ok)}
<1>1. SUFFICES ASSUME T # {} PROVE FALSE
  OBVIOUS
<1>2. PICK B \in T : \A C \in T : C \subseteq B => C = B
  <2> HIDE DEF T
  <2>1. T \in SUBSET SUBSET A
    BY DEF T
  <2> QED BY <1>1, <2>1, SmallestSubset
<1> DEFINE G(C) == CHOOSE f : IsFold(f, S, t, C, ok)
<1>3. ASSUME NEW C \in SUBSET B, C # B PROVE IsFold(G(C), S, t, C, ok)
  <2>1. C \in SUBSET A /\ C \notin T
    BY <1>2, <1>3
  <2>2. \E f : IsFold(f, S, t, C, ok)
    BY <2>1
  <2> QED BY <2>2
<1> HIDE DEF G
<1> DEFINE last == AddTrigger(IF B \ {One(B)} = {} THEN S ELSE G(B \ {One(B)})[B \ {One(B)}], t, One(B), ok)
           v(C) == IF C = {} THEN S ELSE IF C = B THEN last ELSE G(C)[C]
           f == [C \in SUBSET B |-> v(C)]
           e(C) == IF C = {} THEN S ELSE AddTrigger(f[C \ {One(C)}], t, One(C), ok)
<1>4. ASSUME NEW C \in SUBSET B, C # {} PROVE v(C) = AddTrigger(f[C \ {One(C)}], t, One(C), ok)
  <2> DEFINE D == C \ {One(C)}
  <2>1. One(C) \in C /\ D \in SUBSET B /\ D # B /\ D # C
    BY <1>4 DEF One
  <2>2. f[D] = IF D = {} THEN S ELSE G(D)[D]
    BY <2>1
  <2>3. CASE C = B
    BY <1>4, <2>2, <2>3
  <2>4. CASE C # B
    <3>1. v(C) = G(C)[C]
      BY <1>4, <2>4
    <3>2. IsFold(G(C), S, t, C, ok) /\ IsFold(G(D), S, t, D, ok)
      BY <1>3, <2>1, <2>4
    <3>3. G(C)[C] = AddTrigger(G(C)[D], t, One(C), ok)
      BY <3>2, <1>4, FoldStep
    <3>4. G(C)[D] = G(D)[D]
      <4>1. B \in SUBSET A
        BY <1>2
      <4>2. C \in SUBSET A /\ D \in SUBSET A /\ D \subseteq C
        BY <4>1, <2>1
      <4> HIDE DEF D
      <4> QED BY <3>2, <4>2, FoldsAgree
    <3>5. D = {} => G(D)[D] = S
      BY <3>2, FoldStep, ZenonT(30)
    <3> HIDE DEF D, v, f
    <3> QED BY <3>1, <3>3, <3>4, <3>5, <2>2 DEF D
  <2> QED BY <2>3, <2>4
<1>5. \A C \in SUBSET B : v(C) = e(C)
  <2> HIDE DEF f, v
  <2>1. v({}) = S
    BY DEF v
  <2> QED BY <1>4, <2>1
<1>6. f = [C \in SUBSET B |-> e(C)]
  <2> HIDE DEF e, v
  <2> QED BY <1>5
<1>7. IsFold(f, S, t, B, ok)
  <2> HIDE DEF f
  <2> QED BY <1>6, Zenon DEF IsFold
<1> QED BY <1>2, <1>7

\* What resume_prep leaves is the fold of what it took away.
LEMMA AddedIsFold ==
  ASSUME NEW t, NEW ok1, NEW ok2, IsFiniteSet(Tries(t, ok1))
  PROVE  \E f : /\ IsFold(f, Cleared(t, ok1), t, Tries(t, ok1), ok2)
                /\ AddedAgain(t, ok1, ok2) = f[Tries(t, ok1)]
<1> DEFINE R == Cleared(t, ok1)
           A == Tries(t, ok1)
           f == CHOOSE g : IsFold(g, R, t, A, ok2)
<1>1. AddedAgain(t, ok1, ok2) = f[A]
  BY Zenon DEF AddedAgain, FoldSet, MapThenFoldSet, IsFold, One
<1>2. \E g : IsFold(g, R, t, A, ok2)
  <2> HIDE DEF R, A
  <2>1. IsFiniteSet(A)
    BY DEF A
  <2> QED BY <2>1, FoldExists
<1>3. IsFold(f, R, t, A, ok2)
  <2> HIDE DEF R, A
  <2> QED BY <1>2
<1> QED BY <1>1, <1>3

-----------------------------------------------------------------------------
(* One operation on one target. *)

\* A target has harts, its first and last among them, and no other target has them.
LEMMA TargetHarts ==
  ASSUME NEW t \in Targets
  PROVE  /\ t \in Harts /\ HartsOf(t) \subseteq Harts
         /\ First(t) \in HartsOf(t) /\ Last(t) \in HartsOf(t)
         /\ \A h \in HartsOf(t) : TargetOf(h) = t
         /\ Even => \A g, h \in HartsOf(t) : env.kind[g] = env.kind[h]
<1>1. 1 \in Harts /\ NumHarts \in Harts /\ Harts \subseteq Nat /\ \A h \in Harts : 1 <= h /\ h <= NumHarts
  BY SizesAssumption DEF Harts
<1>2. t \in Harts /\ HartsOf(t) \subseteq Harts
  BY <1>1 DEF Targets, HartsOf
<1>3. \E m \in HartsOf(t) : \A h \in HartsOf(t) : m =< h
  BY <1>1, <1>2 DEF HartsOf
<1>4. \E m \in HartsOf(t) : \A h \in HartsOf(t) : m >= h
  BY <1>1, <1>2 DEF HartsOf
<1>5. First(t) \in HartsOf(t)
  BY <1>3 DEF First, Min
<1>6. Last(t) \in HartsOf(t)
  BY <1>4 DEF Last, Max
<1>7. \A h \in HartsOf(t) : TargetOf(h) = t
  BY DEF TargetOf, HartsOf, Targets
<1>8. Even => \A g, h \in HartsOf(t) : env.kind[g] = env.kind[h]
  BY <1>2 DEF Even, HartsOf
<1> QED BY <1>2, <1>5, <1>6, <1>7, <1>8

\* The names of what is not an address.
LEMMA NoAddrs == None \notin Addrs /\ Gone \notin Addrs /\ None # Gone
BY AddrsAssumption DEF None, Gone

\* What the operations leave is a state.
LEMMA AddTyped ==
  ASSUME NEW S \in States, NEW t \in Targets, NEW a \in Addrs, NEW ok
  PROVE  AddTrigger(S, t, a, ok) \in States
<1>1. \A h \in Harts, i \in Slots : Trigger(S, t, h, i, a) \in Addrs \cup {None}
  BY DEF Trigger, States
<1>2. CASE HartsOf(t) \subseteq ok
  <2> DEFINE u == [S.used EXCEPT ![t] = [i \in Slots |->
                     IF i \in Tried(S, t, a) /\ Claims(S, t, i, a) THEN a ELSE @[i]]]
             r == [h \in Harts |-> [i \in Slots |->
                     IF h \in HartsOf(t) /\ i \in Tried(S, t, a)
                     THEN Trigger(S, t, h, i, a) ELSE S.armed[h][i]]]
  <2>1. u \in [Harts -> [Slots -> Owners]]
    BY TargetHarts DEF States, Owners
  <2>2. r \in [Harts -> [Slots -> Addrs \cup {None}]]
    BY <1>1 DEF States
  <2>3. AddTrigger(S, t, a, ok) = [used |-> u, armed |-> r]
    BY <1>2, Zenon DEF AddTrigger
  <2> HIDE DEF u, r
  <2> QED BY <2>1, <2>2, <2>3 DEF States
<1>3. CASE ~(HartsOf(t) \subseteq ok)
  BY <1>3 DEF AddTrigger
<1> QED BY <1>2, <1>3

\* What add_trigger does to the target it is for.
LEMMA AddEffect ==
  ASSUME NEW S \in States, NEW t \in Targets, NEW a \in Addrs, NEW ok,
         NEW U, U = AddTrigger(S, t, a, ok)
  PROVE  \A i \in Slots :
         /\ i \notin Tried(S, t, a) =>
              U.used[t][i] = S.used[t][i] /\ \A h \in HartsOf(t) : U.armed[h][i] = S.armed[h][i]
         /\ i \in Tried(S, t, a) => S.used[t][i] = None
         /\ HartsOf(t) \subseteq ok /\ i \in Tried(S, t, a) =>
              /\ U.used[t][i] = IF Claims(S, t, i, a) THEN a ELSE None
              /\ \A h \in HartsOf(t) : U.armed[h][i] = Trigger(S, t, h, i, a)
<1> SUFFICES ASSUME NEW i \in Slots
             PROVE
              /\ i \notin Tried(S, t, a) =>
                   U.used[t][i] = S.used[t][i] /\ \A h \in HartsOf(t) : U.armed[h][i] = S.armed[h][i]
              /\ i \in Tried(S, t, a) => S.used[t][i] = None
              /\ HartsOf(t) \subseteq ok /\ i \in Tried(S, t, a) =>
                   /\ U.used[t][i] = IF Claims(S, t, i, a) THEN a ELSE None
                   /\ \A h \in HartsOf(t) : U.armed[h][i] = Trigger(S, t, h, i, a)
  OBVIOUS
<1> DEFINE u == [S.used EXCEPT ![t] = [j \in Slots |->
                   IF j \in Tried(S, t, a) /\ Claims(S, t, j, a) THEN a ELSE @[j]]]
           r == [h \in Harts |-> [j \in Slots |->
                   IF h \in HartsOf(t) /\ j \in Tried(S, t, a)
                   THEN Trigger(S, t, h, j, a) ELSE S.armed[h][j]]]
<1>1. U = IF HartsOf(t) \subseteq ok THEN [used |-> u, armed |-> r] ELSE S
  BY Zenon DEF AddTrigger
<1>2. u[t][i] = IF i \in Tried(S, t, a) /\ Claims(S, t, i, a) THEN a ELSE S.used[t][i]
  BY TargetHarts DEF States
<1>3. \A h \in HartsOf(t) :
        r[h][i] = IF i \in Tried(S, t, a) THEN Trigger(S, t, h, i, a) ELSE S.armed[h][i]
  BY TargetHarts
<1>4. i \in Tried(S, t, a) => S.used[t][i] = None
  BY DEF Tried
<1> HIDE DEF u, r
<1>6. i \notin Tried(S, t, a) =>
        U.used[t][i] = S.used[t][i] /\ \A h \in HartsOf(t) : U.armed[h][i] = S.armed[h][i]
  BY <1>1, <1>2, <1>3
<1>7. HartsOf(t) \subseteq ok /\ i \in Tried(S, t, a) =>
        /\ U.used[t][i] = IF Claims(S, t, i, a) THEN a ELSE None
        /\ \A h \in HartsOf(t) : U.armed[h][i] = Trigger(S, t, h, i, a)
  BY <1>1, <1>2, <1>3, <1>4
<1> QED BY <1>4, <1>6, <1>7

\* Where the slots of a target are even, what claims a slot arms it everywhere.
LEMMA EvenSlot ==
  ASSUME NEW S \in States, NEW t \in Targets, NEW a \in Addrs, NEW i \in Slots,
         Even, Remembered(S, t), S.used[t][i] = None
  PROVE  /\ \A h \in HartsOf(t) : S.armed[h][i] = None
         /\ \A h \in HartsOf(t) : Accepts(S, t, h, i, a) <=> Fits(env.kind[h][i], a)
         /\ \A h \in HartsOf(t) : Fits(env.kind[h][i], a) <=> Fits(env.kind[First(t)][i], a)
         /\ \A h \in HartsOf(t) : Trigger(S, t, h, i, a) =
              IF env.kind[First(t)][i] # "other" /\ Fits(env.kind[First(t)][i], a) THEN a ELSE None
         /\ Claims(S, t, i, a) <=>
              env.kind[First(t)][i] = "other" \/ Fits(env.kind[First(t)][i], a)
<1>1. \A h \in HartsOf(t) : S.armed[h][i] = None
  <2> SUFFICES ASSUME NEW h \in HartsOf(t), S.armed[h][i] # None PROVE FALSE
    OBVIOUS
  <2>1. S.armed[h][i] \in Addrs
    BY TargetHarts DEF States
  <2> QED BY <2>1, NoAddrs DEF Remembered
<1>2. First(t) \in HartsOf(t) /\ Last(t) \in HartsOf(t)
  BY TargetHarts
<1>3. \A h \in HartsOf(t) : Accepts(S, t, h, i, a) <=> Fits(env.kind[h][i], a)
  BY <1>1, <1>2 DEF Accepts
<1>4. \A h \in HartsOf(t) : env.kind[h] = env.kind[First(t)]
  BY <1>2, TargetHarts
<1>5. \A h \in HartsOf(t) : Trigger(S, t, h, i, a) =
        IF env.kind[First(t)][i] # "other" /\ Fits(env.kind[First(t)][i], a) THEN a ELSE None
  BY <1>1, <1>2, <1>3, <1>4 DEF Trigger
<1>6. Claims(S, t, i, a) <=> env.kind[First(t)][i] = "other" \/ Fits(env.kind[First(t)][i], a)
  BY <1>2, <1>3, <1>4 DEF Claims
<1> QED BY <1>1, <1>3, <1>4, <1>5, <1>6

\* add_trigger frees nothing.
LEMMA AddKept ==
  ASSUME NEW S \in States, NEW t \in Targets, NEW a \in Addrs, NEW ok
  PROVE  Kept(S, AddTrigger(S, t, a, ok), t, {})
<1> DEFINE U == AddTrigger(S, t, a, ok)
<1>1. U \in States
  BY AddTyped
<1>2. CASE ~(HartsOf(t) \subseteq ok)
  <2>1. U = S
    BY <1>2 DEF AddTrigger
  <2> HIDE DEF U
  <2>2. Kept(S, U, t, {})
    BY <2>1 DEF Kept
  <2> QED BY <2>2 DEF U
<1>3. CASE HartsOf(t) \subseteq ok
  <2>0. U = AddTrigger(S, t, a, ok)
    OBVIOUS
  <2> HIDE DEF U
  <2>1. \A i \in Slots :
         /\ i \notin Tried(S, t, a) =>
              U.used[t][i] = S.used[t][i] /\ \A h \in HartsOf(t) : U.armed[h][i] = S.armed[h][i]
         /\ i \in Tried(S, t, a) =>
              /\ S.used[t][i] = None
              /\ U.used[t][i] = IF Claims(S, t, i, a) THEN a ELSE None
              /\ \A h \in HartsOf(t) : U.armed[h][i] = Trigger(S, t, h, i, a)
    BY <1>3, <2>0, AddEffect
  <2>2. ASSUME Even, Remembered(S, t), NEW i \in Tried(S, t, a), i \in Slots, NEW h \in HartsOf(t)
        PROVE  /\ U.armed[h][i] # None => U.used[t][i] = U.armed[h][i]
               /\ Known /\ U.used[t][i] \in Addrs => Fits(env.kind[h][i], U.used[t][i])
    <3>1. S.used[t][i] = None
      BY <2>1, <2>2
    <3> DEFINE k == env.kind[First(t)][i]
    <3>2. /\ Trigger(S, t, h, i, a) = IF k # "other" /\ Fits(k, a) THEN a ELSE None
          /\ Claims(S, t, i, a) <=> k = "other" \/ Fits(k, a)
          /\ Fits(env.kind[h][i], a) <=> Fits(k, a)
      BY <2>2, <3>1, EvenSlot
    <3>3. Known => k # "other"
      BY <2>2, TargetHarts DEF Known
    <3> HIDE DEF k
    <3> QED BY <2>1, <2>2, <3>2, <3>3, NoAddrs
  <2>3. Even /\ Remembered(S, t) => Remembered(U, t)
    BY <2>1, <2>2 DEF Remembered
  <2>4. Even /\ Known /\ Remembered(S, t) /\ Suits(S, t) => Suits(U, t)
    BY <2>1, <2>2 DEF Suits
  <2>5. ASSUME NEW b \in Addrs, There(S, t, b) PROVE There(U, t, b)
    <3>1. PICK i \in Slots : S.used[t][i] = b /\ \A h \in HartsOf(t) : S.armed[h][i] = b
      BY <2>5 DEF There
    <3>2. i \notin Tried(S, t, a)
      BY <2>1, <3>1, NoAddrs
    <3>3. U.used[t][i] = b /\ \A h \in HartsOf(t) : U.armed[h][i] = b
      BY <2>1, <3>1, <3>2
    <3> QED BY <3>3 DEF There
  <2>6. Kept(S, U, t, {})
    BY <1>1, <2>3, <2>4, <2>5 DEF Kept, U
  <2> QED BY <2>6 DEF U
<1> QED BY <1>2, <1>3

\* When add_trigger succeeds, where the slots are even, the point is set everywhere.
LEMMA AddsThere ==
  ASSUME NEW S \in States, NEW t \in Targets, NEW a \in Addrs, NEW ok,
         Even, Known, Remembered(S, t), AddsTrigger(S, t, a, ok)
  PROVE  There(AddTrigger(S, t, a, ok), t, a)
<1> DEFINE U == AddTrigger(S, t, a, ok)
<1>1. PICK i \in Tried(S, t, a) : Claims(S, t, i, a)
  BY DEF AddsTrigger
<1>2. i \in Slots /\ HartsOf(t) \subseteq ok
  BY DEF Tried, AddsTrigger
<1>3. /\ S.used[t][i] = None /\ U.used[t][i] = a
      /\ \A h \in HartsOf(t) : U.armed[h][i] = Trigger(S, t, h, i, a)
  <2>1. U = AddTrigger(S, t, a, ok)
    OBVIOUS
  <2> HIDE DEF U
  <2> QED BY <1>1, <1>2, <2>1, AddEffect
<1> HIDE DEF U
<1>4. env.kind[First(t)][i] # "other"
  BY <1>2, TargetHarts DEF Known
<1>5. \A h \in HartsOf(t) : U.armed[h][i] = a
  BY <1>1, <1>2, <1>3, <1>4, EvenSlot
<1>6. There(U, t, a)
  BY <1>2, <1>3, <1>5 DEF There
<1> QED BY <1>6 DEF U

\* Slots are only taken, and only by the point that is added.
LEMMA AddOwned ==
  ASSUME NEW S \in States, NEW t \in Targets, NEW a \in Addrs, NEW ok, NEW b \in Addrs
  PROVE  LET U == AddTrigger(S, t, a, ok) IN
         /\ Owned(S, t, b) \subseteq Owned(U, t, b)
         /\ b # a => Owned(U, t, b) = Owned(S, t, b)
         /\ AddsTrigger(S, t, a, ok) <=> Owned(U, t, a) # Owned(S, t, a)
<1> DEFINE U == AddTrigger(S, t, a, ok)
<1>1. \A i \in Slots :
        U.used[t][i] = IF HartsOf(t) \subseteq ok /\ i \in Tried(S, t, a) /\ Claims(S, t, i, a)
                       THEN a ELSE S.used[t][i]
  <2>0. U = AddTrigger(S, t, a, ok) /\ (~(HartsOf(t) \subseteq ok) => U = S)
    BY DEF AddTrigger
  <2> HIDE DEF U
  <2> QED BY <2>0, AddEffect
<1>2. \A i \in Tried(S, t, a) : i \in Slots /\ S.used[t][i] = None
  BY DEF Tried
<1> HIDE DEF U
<1>3. Owned(S, t, b) \subseteq Owned(U, t, b)
  BY <1>1, <1>2, NoAddrs DEF Owned
<1>4. b # a => Owned(U, t, b) = Owned(S, t, b)
  BY <1>1, <1>2, NoAddrs DEF Owned
<1>5. AddsTrigger(S, t, a, ok) <=> Owned(U, t, a) # Owned(S, t, a)
  BY <1>1, <1>2, NoAddrs DEF Owned, AddsTrigger
<1> QED BY <1>3, <1>4, <1>5 DEF U

\* Slots that are free and fit data.
Room(S, t) == {i \in Slots : S.used[t][i] = None /\ env.kind[First(t)][i] \in {"full", "data"}}

\* A watchpoint takes one of them, and fails only when there is none.
LEMMA AddTakesRoom ==
  ASSUME NEW S \in States, NEW t \in Targets, NEW a \in DataAddrs, NEW ok, HartsOf(t) \subseteq ok,
         Even, Known, Remembered(S, t), Room(S, t) # {}
  PROVE  /\ AddsTrigger(S, t, a, ok)
         /\ \E i \in Room(S, t) : Room(AddTrigger(S, t, a, ok), t) = Room(S, t) \ {i}
<1>1. a \in Addrs /\ a \notin CodeAddrs
  BY AddrsAssumption DEF Addrs
<1>2. \A i \in Slots : S.used[t][i] = None => (Claims(S, t, i, a) <=> i \in Room(S, t))
  <2> SUFFICES ASSUME NEW i \in Slots, S.used[t][i] = None
               PROVE  Claims(S, t, i, a) <=> i \in Room(S, t)
    OBVIOUS
  <2>1. Claims(S, t, i, a) <=> env.kind[First(t)][i] = "other" \/ Fits(env.kind[First(t)][i], a)
    BY <1>1, EvenSlot
  <2>2. env.kind[First(t)][i] # "other"
    BY TargetHarts DEF Known
  <2> QED BY <1>1, <2>1, <2>2 DEF Fits, Room
<1>3. Slots \subseteq Nat /\ \A i \in Slots, j \in Nat : j < i => j \in Slots
  BY SizesAssumption DEF Slots
<1>4. PICK i \in Room(S, t) : \A j \in Room(S, t) : i <= j
  <2>1. Room(S, t) \in SUBSET Nat
    BY <1>3 DEF Room
  <2> QED BY <2>1, LeastNat
<1>5. i \in Slots /\ i \in Nat /\ S.used[t][i] = None
  BY <1>3 DEF Room
<1>6. i \in Tried(S, t, a) /\ Claims(S, t, i, a)
  <2>1. \A j \in 0 .. i - 1 : j \in Slots /\ j < i
    BY <1>3, <1>5
  <2>2. \A j \in 0 .. i - 1 : S.used[t][j] = None => ~Claims(S, t, j, a)
    BY <1>2, <1>3, <1>4, <1>5, <2>1
  <2> QED BY <1>2, <1>5, <2>2 DEF Tried
<1>7. ASSUME NEW j \in Tried(S, t, a), Claims(S, t, j, a) PROVE j = i
  <2>1. j \in Slots /\ j \in Nat /\ S.used[t][j] = None
    BY <1>3 DEF Tried
  <2>2. j \in Room(S, t)
    BY <1>2, <1>7, <2>1
  <2>3. ~(i < j)
    <3>1. i < j => i \in 0 .. j - 1
      BY <1>5, <2>1
    <3> QED BY <3>1, <1>5, <1>6 DEF Tried
  <2> QED BY <1>4, <1>5, <2>1, <2>2, <2>3
<1>8. AddsTrigger(S, t, a, ok)
  BY <1>6 DEF AddsTrigger
<1>9. \A j \in Slots : AddTrigger(S, t, a, ok).used[t][j] = IF j = i THEN a ELSE S.used[t][j]
  <2> DEFINE U == AddTrigger(S, t, a, ok)
  <2>1. U = AddTrigger(S, t, a, ok)
    OBVIOUS
  <2> HIDE DEF U
  <2>2. \A j \in Slots : U.used[t][j] = IF j = i THEN a ELSE S.used[t][j]
    BY <1>1, <1>6, <1>7, <2>1, AddEffect
  <2> QED BY <2>2 DEF U
<1>10. Room(AddTrigger(S, t, a, ok), t) = Room(S, t) \ {i}
  <2> DEFINE U == AddTrigger(S, t, a, ok)
  <2>1. \A j \in Slots : U.used[t][j] = IF j = i THEN a ELSE S.used[t][j]
    BY <1>9
  <2> HIDE DEF U
  <2>2. Room(U, t) = Room(S, t) \ {i}
    BY <1>1, <1>5, <2>1, NoAddrs DEF Room
  <2> QED BY <2>2 DEF U
<1> QED BY <1>8, <1>10

\* The slots remove_trigger finds.
LEMMA FoundSlots ==
  ASSUME NEW S, NEW t, NEW A
  PROVE  /\ \A i \in Found(S, t, A) : i \in Slots /\ S.used[t][i] \in A
         /\ \A a \in A : Owned(S, t, a) # {} => \E i \in Found(S, t, A) : i \in Owned(S, t, a)
<1>1. \A a : Owned(S, t, a) # {} => Min(Owned(S, t, a)) \in Owned(S, t, a)
  <2> SUFFICES ASSUME NEW a, Owned(S, t, a) # {} PROVE Min(Owned(S, t, a)) \in Owned(S, t, a)
    OBVIOUS
  <2>1. Owned(S, t, a) \in SUBSET Nat
    BY SizesAssumption DEF Owned, Slots
  <2>2. \E m \in Owned(S, t, a) : \A n \in Owned(S, t, a) : m <= n
    BY <2>1, LeastNat
  <2> QED BY <2>2 DEF Min
<1>2. ASSUME NEW i \in Found(S, t, A) PROVE i \in Slots /\ S.used[t][i] \in A
  <2>1. PICK a \in A : Owned(S, t, a) # {} /\ i = Min(Owned(S, t, a))
    BY DEF Found
  <2>2. i \in Owned(S, t, a)
    BY <1>1, <2>1
  <2> QED BY <2>1, <2>2 DEF Owned
<1>3. ASSUME NEW a \in A, Owned(S, t, a) # {} PROVE \E i \in Found(S, t, A) : i \in Owned(S, t, a)
  BY <1>1, <1>3 DEF Found
<1> QED BY <1>2, <1>3

\* What remove_trigger does to the target it is for.
LEMMA RemoveEffect ==
  ASSUME NEW S \in States, NEW t \in Targets, NEW A, NEW ok
  PROVE  LET U == RemoveTriggers(S, t, A, ok) IN
         /\ U \in States
         /\ \A i \in Slots : U.used[t][i] =
              IF HartsOf(t) \subseteq ok /\ i \in Found(S, t, A) THEN None ELSE S.used[t][i]
         /\ \A h \in HartsOf(t), i \in Slots :
              /\ U.armed[h][i] \in {S.armed[h][i], None}
              /\ i \notin Found(S, t, A) => U.armed[h][i] = S.armed[h][i]
              /\ HartsOf(t) \subseteq ok /\ i \in Found(S, t, A) => U.armed[h][i] = None
<1> DEFINE u == IF HartsOf(t) \subseteq ok
                THEN [S.used EXCEPT ![t] = [i \in Slots |-> IF i \in Found(S, t, A) THEN None ELSE @[i]]]
                ELSE S.used
           r == [h \in Harts |-> [i \in Slots |->
                  IF h \in Disarmed(t, ok) /\ i \in Found(S, t, A) THEN None ELSE S.armed[h][i]]]
<1>1. RemoveTriggers(S, t, A, ok) = [used |-> u, armed |-> r]
  BY Zenon DEF RemoveTriggers
<1>2. u \in [Harts -> [Slots -> Owners]]
  BY TargetHarts DEF States, Owners
<1>3. r \in [Harts -> [Slots -> Addrs \cup {None}]]
  BY DEF States
<1>4. \A i \in Slots : u[t][i] =
        IF HartsOf(t) \subseteq ok /\ i \in Found(S, t, A) THEN None ELSE S.used[t][i]
  BY TargetHarts DEF States
<1>5. \A h \in HartsOf(t), i \in Slots :
        r[h][i] = IF h \in Disarmed(t, ok) /\ i \in Found(S, t, A) THEN None ELSE S.armed[h][i]
  BY TargetHarts
<1>6. HartsOf(t) \subseteq ok => Disarmed(t, ok) = HartsOf(t)
  BY DEF Disarmed
<1> HIDE DEF u, r
<1>7. [used |-> u, armed |-> r] \in States
  BY <1>2, <1>3 DEF States
<1> QED BY <1>1, <1>4, <1>5, <1>6, <1>7

\* What frees the slots of A and keeps the triggers of the others, or fails to.
LEMMA Frees ==
  ASSUME NEW S \in States, NEW U \in States, NEW t \in Targets, NEW A \in SUBSET Addrs, NEW F,
         \A i \in Slots : U.used[t][i] # S.used[t][i] =>
            S.used[t][i] \in A /\ U.used[t][i] \in {None, Gone}
         /\ (U.used[t][i] = None => \A h \in HartsOf(t) : U.armed[h][i] = None),
         \A h \in HartsOf(t), i \in Slots : U.armed[h][i] # S.armed[h][i] =>
            S.used[t][i] \in A /\ U.armed[h][i] = None
  PROVE  Kept(S, U, t, A)
<1>1. Remembered(S, t) => Remembered(U, t)
  <2> SUFFICES ASSUME Remembered(S, t), NEW h \in HartsOf(t), NEW i \in Slots, U.armed[h][i] # None
               PROVE  U.used[t][i] \in {U.armed[h][i], Gone}
    BY DEF Remembered
  <2>1. U.armed[h][i] = S.armed[h][i]
    OBVIOUS
  <2>2. S.used[t][i] \in {S.armed[h][i], Gone}
    BY <2>1 DEF Remembered
  <2> QED BY <2>1, <2>2
<1>2. Suits(S, t) => Suits(U, t)
  BY NoAddrs DEF Suits
<1>3. ASSUME NEW a \in Addrs \ A, There(S, t, a) PROVE There(U, t, a)
  <2>1. PICK i \in Slots : S.used[t][i] = a /\ \A h \in HartsOf(t) : S.armed[h][i] = a
    BY <1>3 DEF There
  <2>2. U.used[t][i] = a /\ \A h \in HartsOf(t) : U.armed[h][i] = a
    BY <2>1
  <2> QED BY <2>2 DEF There
<1> QED BY <1>1, <1>2, <1>3 DEF Kept

LEMMA RemoveKept ==
  ASSUME NEW S \in States, NEW t \in Targets, NEW A \in SUBSET Addrs, NEW ok
  PROVE  Kept(S, RemoveTriggers(S, t, A, ok), t, A)
<1> DEFINE U == RemoveTriggers(S, t, A, ok)
<1>1. /\ U \in States
      /\ \A i \in Slots : U.used[t][i] =
           IF HartsOf(t) \subseteq ok /\ i \in Found(S, t, A) THEN None ELSE S.used[t][i]
      /\ \A h \in HartsOf(t), i \in Slots :
           /\ U.armed[h][i] \in {S.armed[h][i], None}
           /\ i \notin Found(S, t, A) => U.armed[h][i] = S.armed[h][i]
           /\ HartsOf(t) \subseteq ok /\ i \in Found(S, t, A) => U.armed[h][i] = None
  BY RemoveEffect
<1>2. \A i \in Found(S, t, A) : S.used[t][i] \in A
  BY FoundSlots
<1> HIDE DEF U
<1>3. Kept(S, U, t, A)
  BY <1>1, <1>2, Frees
<1> QED BY <1>3 DEF U

\* Freeing a point: its triggers are removed, and it is forgotten.
LEMMA FreeKept ==
  ASSUME TypeOK, NEW t \in Targets, NEW A \in SUBSET Addrs, NEW ok
  PROVE  Kept(Now, FreePoints(t, A, ok), t, A)
<1> DEFINE S == Now
           R == RemoveTriggers(S, t, A, ok)
           U == Forget(R, t, A)
<1>1. S \in States
  BY DEF Now, TypeOK, States, Owners
<1>2. /\ R \in States
      /\ \A i \in Slots : R.used[t][i] =
           IF HartsOf(t) \subseteq ok /\ i \in Found(S, t, A) THEN None ELSE S.used[t][i]
      /\ \A h \in HartsOf(t), i \in Slots :
           /\ R.armed[h][i] \in {S.armed[h][i], None}
           /\ i \notin Found(S, t, A) => R.armed[h][i] = S.armed[h][i]
           /\ HartsOf(t) \subseteq ok /\ i \in Found(S, t, A) => R.armed[h][i] = None
  <2> HIDE DEF S
  <2> QED BY <1>1, RemoveEffect
<1>3. \A i \in Found(S, t, A) : S.used[t][i] \in A
  BY FoundSlots
<1> HIDE DEF S, R
<1>4. /\ U \in States /\ U.armed = R.armed
      /\ \A i \in Slots : U.used[t][i] = IF R.used[t][i] \in A THEN Gone ELSE R.used[t][i]
  <2> DEFINE u == [R.used EXCEPT ![t] = [i \in Slots |-> IF @[i] \in A THEN Gone ELSE @[i]]]
  <2>1. R = [used |-> R.used, armed |-> R.armed]
    BY <1>2 DEF States
  <2>2. U = [used |-> u, armed |-> R.armed]
    BY <2>1 DEF Forget
  <2>3. t \in Harts
    BY TargetHarts
  <2>4. R.used \in [Harts -> [Slots -> Owners]] /\ R.armed \in [Harts -> [Slots -> Addrs \cup {None}]]
    BY <1>2 DEF States
  <2>5. u \in [Harts -> [Slots -> Owners]]
    BY <2>3, <2>4 DEF Owners
  <2>6. \A i \in Slots : u[t][i] = IF R.used[t][i] \in A THEN Gone ELSE R.used[t][i]
    BY <2>3, <2>4
  <2> HIDE DEF u, U
  <2>7. [used |-> u, armed |-> R.armed] \in States
    BY <2>4, <2>5 DEF States
  <2> QED BY <2>2, <2>6, <2>7
<1> HIDE DEF U
<1>5. ASSUME NEW i \in Slots, U.used[t][i] # S.used[t][i]
      PROVE  /\ S.used[t][i] \in A /\ U.used[t][i] \in {None, Gone}
             /\ U.used[t][i] = None => \A h \in HartsOf(t) : U.armed[h][i] = None
  <2>1. CASE R.used[t][i] = S.used[t][i]
    BY <1>4, <1>5, <2>1, NoAddrs
  <2>2. CASE R.used[t][i] # S.used[t][i]
    <3>1. HartsOf(t) \subseteq ok /\ i \in Found(S, t, A) /\ R.used[t][i] = None
      BY <1>2, <2>2
    <3> QED BY <1>2, <1>3, <1>4, <3>1, NoAddrs
  <2> QED BY <2>1, <2>2
<1>6. \A h \in HartsOf(t), i \in Slots : U.armed[h][i] # S.armed[h][i] =>
        S.used[t][i] \in A /\ U.armed[h][i] = None
  BY <1>2, <1>3, <1>4
<1>7. Kept(S, U, t, A)
  BY <1>1, <1>4, <1>5, <1>6, Frees
<1> QED BY <1>7, Zenon DEF U, R, S, FreePoints

-----------------------------------------------------------------------------
(* Stepping off a watchpoint. *)

LEMMA KeptThen ==
  ASSUME NEW S, NEW U, NEW V, NEW t, NEW A, NEW B, Kept(S, U, t, A), Kept(U, V, t, B)
  PROVE  Kept(S, V, t, A \cup B)
BY DEF Kept

\* Watchpoints that are added one by one free nothing, and one that got another slot is set
\* everywhere.
LEMMA FoldKept ==
  ASSUME NEW S \in States, NEW t \in Targets, NEW ok, NEW A \in SUBSET Addrs, IsFiniteSet(A),
         NEW f, IsFold(f, S, t, A, ok), NEW B \in SUBSET A
  PROVE  /\ Kept(S, f[B], t, {})
         /\ \A b \in Addrs :
              /\ Owned(S, t, b) \subseteq Owned(f[B], t, b)
              /\ Even /\ Known /\ Remembered(S, t) /\ Owned(f[B], t, b) # Owned(S, t, b) =>
                   There(f[B], t, b)
<1> DEFINE P(C) ==
       /\ Kept(S, f[C], t, {})
       /\ \A b \in Addrs :
            /\ Owned(S, t, b) \subseteq Owned(f[C], t, b)
            /\ Even /\ Known /\ Remembered(S, t) /\ Owned(f[C], t, b) # Owned(S, t, b) =>
                 There(f[C], t, b)
           T == {C \in SUBSET A : ~P(C)}
<1>1. SUFFICES ASSUME T # {} PROVE FALSE
  OBVIOUS
<1>2. PICK C \in T : \A D \in T : D \subseteq C => D = C
  <2> HIDE DEF T
  <2>1. T \in SUBSET SUBSET A
    BY DEF T
  <2> QED BY <1>1, <2>1, SmallestSubset
<1>3. C \in SUBSET A /\ ~P(C)
  BY <1>2
<1>4. CASE C = {}
  <2>1. f[C] = S
    BY <1>3, <1>4, FoldStep
  <2>2. Kept(S, S, t, {})
    BY DEF Kept
  <2>3. P(C)
    BY <2>1, <2>2
  <2> QED BY <1>3, <2>3
<1>5. CASE C # {}
  <2>0. /\ f[C] = AddTrigger(f[C \ {One(C)}], t, One(C), ok)
        /\ One(C) \in C /\ C \ {One(C)} \in SUBSET A /\ C \ {One(C)} # C
    <3> HIDE DEF P, T
    <3> QED BY <1>3, <1>5, FoldStep
  <2> DEFINE x == One(C)
             D == C \ {x}
             g == f[D]
             U == f[C]
  <2>1. U = AddTrigger(g, t, x, ok) /\ x \in C /\ D \in SUBSET A /\ D # C
    BY <2>0
  <2>2. P(D)
    BY <1>2, <2>1
  <2>3. x \in Addrs
    BY <1>3, <2>1
  <2>4. Kept(S, g, t, {}) /\ g \in States
    BY <2>2 DEF Kept
  <2> HIDE DEF g, U, x, T
  <2>5. Kept(g, U, t, {})
    BY <2>1, <2>3, <2>4, AddKept
  <2>6. Kept(S, U, t, {})
    <3>1. Kept(S, U, t, {} \cup {})
      BY <2>4, <2>5, KeptThen
    <3> QED BY <3>1
  <2>7. ASSUME NEW b \in Addrs
        PROVE  /\ Owned(S, t, b) \subseteq Owned(U, t, b)
               /\ Even /\ Known /\ Remembered(S, t) /\ Owned(U, t, b) # Owned(S, t, b) => There(U, t, b)
    <3>1. /\ Owned(S, t, b) \subseteq Owned(g, t, b)
          /\ Even /\ Known /\ Remembered(S, t) /\ Owned(g, t, b) # Owned(S, t, b) => There(g, t, b)
      BY <2>2 DEF g
    <3>2. There(g, t, b) => There(U, t, b)
      BY <2>5 DEF Kept
    <3>3. /\ Owned(g, t, b) \subseteq Owned(U, t, b)
          /\ b # x => Owned(U, t, b) = Owned(g, t, b)
          /\ AddsTrigger(g, t, x, ok) <=> Owned(U, t, x) # Owned(g, t, x)
      BY <2>1, <2>3, <2>4, AddOwned
    <3>4. Even /\ Known /\ Remembered(S, t) /\ AddsTrigger(g, t, x, ok) => There(U, t, x)
      <4>1. Even /\ Remembered(S, t) => Remembered(g, t)
        BY <2>4 DEF Kept
      <4> QED BY <2>1, <2>3, <2>4, <4>1, AddsThere
    <3> QED BY <3>1, <3>2, <3>3, <3>4
  <2>8. P(C)
    BY <2>6, <2>7 DEF U
  <2> QED BY <1>3, <2>8
<1> QED BY <1>4, <1>5

\* Where there is room for all, all get a slot.
LEMMA FoldFits ==
  ASSUME NEW S \in States, NEW t \in Targets, NEW ok, NEW A \in SUBSET DataAddrs,
         NEW f, IsFold(f, S, t, A, ok), NEW B \in SUBSET A,
         Even, Known, Remembered(S, t), HartsOf(t) \subseteq ok,
         Cardinality(A) <= Cardinality(Room(S, t))
  PROVE  \A b \in B : Owned(f[B], t, b) # Owned(S, t, b)
<1>1. IsFiniteSet(A) /\ A \in SUBSET Addrs /\ \A C \in SUBSET A : IsFiniteSet(C) /\ Cardinality(C) \in Nat
  BY AddrsAssumption, FS_Subset, FS_CardinalityType DEF Addrs
<1>2. \A U : IsFiniteSet(Room(U, t)) /\ Cardinality(Room(U, t)) \in Nat
  <2> SUFFICES ASSUME NEW U PROVE IsFiniteSet(Room(U, t)) /\ Cardinality(Room(U, t)) \in Nat
    OBVIOUS
  <2>1. IsFiniteSet(Slots)
    BY SizesAssumption, FS_Interval DEF Slots
  <2>2. Room(U, t) \in SUBSET Slots
    BY DEF Room
  <2> QED BY <2>1, <2>2, FS_Subset, FS_CardinalityType
<1> DEFINE P(C) ==
       /\ Cardinality(Room(f[C], t)) = Cardinality(Room(S, t)) - Cardinality(C)
       /\ \A b \in C : Owned(f[C], t, b) # Owned(S, t, b)
           T == {C \in SUBSET A : ~P(C)}
<1>3. SUFFICES ASSUME T # {} PROVE FALSE
  OBVIOUS
<1>4. PICK C \in T : \A D \in T : D \subseteq C => D = C
  <2> HIDE DEF T
  <2>1. T \in SUBSET SUBSET A
    BY DEF T
  <2> QED BY <1>1, <1>3, <2>1, SmallestSubset
<1>5. C \in SUBSET A /\ ~P(C)
  BY <1>4
<1>6. CASE C = {}
  <2>1. f[C] = S
    BY <1>5, <1>6, FoldStep
  <2>2. Cardinality(C) = 0
    BY <1>6, FS_EmptySet
  <2>3. Cardinality(Room(S, t)) \in Nat
    BY <1>2
  <2>4. P(C)
    BY <1>6, <2>1, <2>2, <2>3
  <2> QED BY <1>5, <2>4
<1>7. CASE C # {}
  <2> DEFINE x == One(C)
             D == C \ {x}
             g == f[D]
             U == f[C]
  <2>1. U = AddTrigger(g, t, x, ok) /\ x \in C /\ D \in SUBSET A /\ D # C
    BY <1>5, <1>7, FoldStep
  <2>2. P(D)
    BY <1>4, <2>1
  <2>3. x \in Addrs /\ x \in DataAddrs
    BY <1>1, <1>5, <2>1
  <2>4. /\ g \in States /\ Remembered(g, t)
        /\ \A b \in Addrs : Owned(S, t, b) \subseteq Owned(g, t, b)
    <3>1. /\ Kept(S, g, t, {})
          /\ \A b \in Addrs : Owned(S, t, b) \subseteq Owned(g, t, b)
      BY <1>1, <2>1, FoldKept
    <3> QED BY <3>1 DEF Kept
  <2>5. Cardinality(D) = Cardinality(C) - 1
    BY <1>1, <1>5, <2>1, FS_RemoveElement
  <2>6. Cardinality(C) <= Cardinality(A)
    BY <1>1, <1>5, FS_Subset
  <2>7. Cardinality(Room(g, t)) = Cardinality(Room(S, t)) - Cardinality(D)
    BY <2>2
  <2> HIDE DEF g, U, x, T
  <2>8. Cardinality(Room(g, t)) >= 1
    BY <1>1, <1>2, <1>5, <2>1, <2>5, <2>6, <2>7
  <2>9. Room(g, t) # {}
    BY <2>8, FS_EmptySet
  <2>10. AddsTrigger(g, t, x, ok) /\ \E i \in Room(g, t) : Room(U, t) = Room(g, t) \ {i}
    BY <2>1, <2>3, <2>4, <2>9, AddTakesRoom
  <2>11. Cardinality(Room(U, t)) = Cardinality(Room(g, t)) - 1
    <3>1. PICK i \in Room(g, t) : Room(U, t) = Room(g, t) \ {i}
      BY <2>10
    <3>2. Cardinality(Room(g, t) \ {i}) = Cardinality(Room(g, t)) - 1
      BY <1>2, FS_RemoveElement
    <3> QED BY <3>1, <3>2
  <2>12. Cardinality(Room(U, t)) = Cardinality(Room(S, t)) - Cardinality(C)
    BY <1>1, <1>2, <1>5, <2>1, <2>5, <2>7, <2>11
  <2>13. ASSUME NEW b \in C PROVE Owned(U, t, b) # Owned(S, t, b)
    <3>1. b \in Addrs
      BY <1>1, <1>5
    <3>2. /\ Owned(g, t, b) \subseteq Owned(U, t, b)
          /\ AddsTrigger(g, t, x, ok) <=> Owned(U, t, x) # Owned(g, t, x)
      BY <2>1, <2>3, <2>4, <3>1, AddOwned
    <3>3. Owned(S, t, b) \subseteq Owned(g, t, b)
      BY <2>4, <3>1
    <3>4. CASE b = x
      BY <2>10, <3>2, <3>3, <3>4
    <3>5. CASE b # x
      <4>1. Owned(g, t, b) # Owned(S, t, b)
        BY <2>2, <3>5 DEF g
      <4> QED BY <3>2, <3>3, <4>1
    <3> QED BY <3>4, <3>5
  <2>14. P(C)
    BY <2>12, <2>13 DEF U
  <2> QED BY <1>5, <2>14
<1> QED BY <1>6, <1>7

\* Stepping off the watchpoints of t: those that stay set are set everywhere, and where
\* nothing fails all stay set.
LEMMA StepOff ==
  ASSUME TypeOK, NEW t \in Targets, NEW ok1, NEW ok2
  PROVE  /\ Kept(Now, AddedAgain(t, ok1, ok2), t, Tries(t, ok1))
         /\ Tries(t, ok1) \in SUBSET SetWatches(t)
         /\ Even /\ Known /\ Remembered(Now, t) =>
              \A a \in Tries(t, ok1) :
                Owned(AddedAgain(t, ok1, ok2), t, a) # Owned(Cleared(t, ok1), t, a) =>
                  There(AddedAgain(t, ok1, ok2), t, a)
         /\ /\ Even /\ Known /\ Remembered(Now, t) /\ Suits(Now, t)
            /\ HartsOf(t) \subseteq ok1 /\ HartsOf(t) \subseteq ok2
            /\ \A a \in SetWatches(t) : There(Now, t, a)
            => \A a \in SetWatches(t) : StaysSet(t, a, ok1, ok2)
<1> DEFINE A == Tries(t, ok1)
           R == Cleared(t, ok1)
           U == AddedAgain(t, ok1, ok2)
           S == Now
<1>1. SetWatches(t) \in SUBSET DataAddrs
  BY TargetHarts DEF TypeOK, Watchpoints, SetWatches
<1>2. A \in SUBSET SetWatches(t)
  BY DEF Tries
<1>3. A \in SUBSET Addrs /\ A \in SUBSET DataAddrs /\ IsFiniteSet(A)
  BY <1>1, <1>2, AddrsAssumption, FS_Subset DEF Addrs
<1>4. S \in States
  BY DEF Now, TypeOK, States, Owners
<1>5. R = RemoveTriggers(S, t, A, ok1)
  BY DEF Cleared
<1>6. PICK f : IsFold(f, R, t, A, ok2) /\ U = f[A]
  <2>1. IsFiniteSet(Tries(t, ok1))
    BY <1>3
  <2> QED BY <2>1, AddedIsFold
<1>7. Even /\ Known /\ Remembered(S, t) /\ Suits(S, t) /\ HartsOf(t) \subseteq ok1 =>
        A = SetWatches(t)
  BY DEF Tries
<1>8. \A a : Owned(U, t, a) # Owned(R, t, a) => StaysSet(t, a, ok1, ok2)
  BY DEF StaysSet
<1> HIDE DEF A, R, U, S
<1>10. Kept(S, R, t, A) /\ R \in States
  <2>1. Kept(S, R, t, A)
    BY <1>3, <1>4, <1>5, RemoveKept
  <2> QED BY <2>1 DEF Kept
<1>11. /\ Kept(R, U, t, {})
       /\ \A a \in Addrs :
            Even /\ Known /\ Remembered(R, t) /\ Owned(U, t, a) # Owned(R, t, a) => There(U, t, a)
  <2>1. A \in SUBSET A
    OBVIOUS
  <2> QED BY <1>3, <1>6, <1>10, <2>1, FoldKept
<1>12. Kept(S, U, t, A)
  <2>1. Kept(S, U, t, A \cup {})
    BY <1>10, <1>11, KeptThen
  <2> QED BY <2>1
<1>13. Even /\ Remembered(S, t) => Remembered(R, t)
  BY <1>10 DEF Kept
<1>14. ASSUME Even, Known, Remembered(S, t), NEW a \in A, Owned(U, t, a) # Owned(R, t, a)
       PROVE  There(U, t, a)
  BY <1>3, <1>11, <1>13, <1>14
<1>15. ASSUME Even, Known, Remembered(S, t), Suits(S, t),
              HartsOf(t) \subseteq ok1, HartsOf(t) \subseteq ok2,
              \A a \in SetWatches(t) : There(S, t, a),
              NEW b \in SetWatches(t)
       PROVE  StaysSet(t, b, ok1, ok2)
  <2>1. A = SetWatches(t) /\ Remembered(R, t)
    BY <1>7, <1>13, <1>15
  <2>2. \A i \in Slots : R.used[t][i] = IF i \in Found(S, t, A) THEN None ELSE S.used[t][i]
    BY <1>4, <1>5, <1>15, RemoveEffect
  <2>3. \A a \in A : \E i \in Found(S, t, A) : S.used[t][i] = a
    <3> SUFFICES ASSUME NEW a \in A PROVE \E i \in Found(S, t, A) : S.used[t][i] = a
      OBVIOUS
    <3>1. Owned(S, t, a) # {}
      BY <1>15, <2>1 DEF There, Owned
    <3>2. PICK i \in Found(S, t, A) : i \in Owned(S, t, a)
      BY <3>1, FoundSlots
    <3> QED BY <3>2 DEF Owned
  <2> DEFINE m == [a \in A |-> CHOOSE i \in Found(S, t, A) : S.used[t][i] = a]
  <2>4. \A a \in A : m[a] \in Found(S, t, A) /\ S.used[t][m[a]] = a
    BY <2>3
  <2>5. \A a \in A : m[a] \in Room(R, t)
    <3> SUFFICES ASSUME NEW a \in A PROVE m[a] \in Room(R, t)
      OBVIOUS
    <3>1. m[a] \in Found(S, t, A) /\ S.used[t][m[a]] = a
      BY <2>4
    <3> DEFINE i == m[a]
    <3> HIDE DEF m
    <3>2. i \in Slots
      BY <3>1, FoundSlots
    <3> HIDE DEF i
    <3>3. R.used[t][i] = None
      BY <2>2, <3>1, <3>2 DEF i
    <3>4. Fits(env.kind[First(t)][i], a)
      BY <1>3, <1>15, <3>1, <3>2, TargetHarts DEF Suits, i
    <3>5. env.kind[First(t)][i] \in {"full", "data"}
      BY <1>3, <3>4, AddrsAssumption DEF Fits
    <3>6. i \in Room(R, t)
      BY <3>2, <3>3, <3>5 DEF Room
    <3> QED BY <3>6 DEF i
  <2>6. m \in Injection(A, Room(R, t))
    <3>1. m \in [A -> Room(R, t)]
      BY <2>5
    <3>2. \A a, c \in A : m[a] = m[c] => a = c
      BY <2>4
    <3> HIDE DEF m
    <3> QED BY <3>1, <3>2 DEF Injection, IsInjective
  <2>7. IsFiniteSet(Room(R, t))
    <3>1. IsFiniteSet(Slots) /\ Room(R, t) \in SUBSET Slots
      BY SizesAssumption, FS_Interval DEF Slots, Room
    <3> QED BY <3>1, FS_Subset
  <2> HIDE DEF m
  <2>8. Cardinality(A) <= Cardinality(Room(R, t))
    BY <2>6, <2>7, FS_Injection
  <2>9. \A a \in A : Owned(U, t, a) # Owned(R, t, a)
    <3>1. A \in SUBSET A
      OBVIOUS
    <3>2. A \in SUBSET DataAddrs /\ R \in States /\ IsFold(f, R, t, A, ok2)
      BY <1>3, <1>6, <1>10
    <3>3. Even /\ Known /\ Remembered(R, t) /\ HartsOf(t) \subseteq ok2
      BY <1>15, <2>1
    <3>4. \A a \in A : Owned(f[A], t, a) # Owned(R, t, a)
      BY <2>8, <3>1, <3>2, <3>3, FoldFits
    <3> QED BY <1>6, <3>4
  <2> QED BY <1>8, <2>1, <2>9
<1> QED BY <1>2, <1>12, <1>14, <1>15 DEF A, R, U, S

-----------------------------------------------------------------------------
(* Operations on all targets. *)

Then == [used |-> used', armed |-> armed']

\* Only the target's own slots and triggers matter.
LEMMA KeptAlike ==
  ASSUME NEW S, NEW U, NEW V \in States, NEW t, NEW A,
         U.used[t] = V.used[t], \A h \in HartsOf(t) : U.armed[h] = V.armed[h]
  PROVE  /\ Kept(S, U, t, A) => Kept(S, V, t, A)
         /\ \A a : There(U, t, a) => There(V, t, a)
<1>1. \A a : There(U, t, a) => There(V, t, a)
  BY DEF There
<1>2. Remembered(U, t) => Remembered(V, t)
  BY DEF Remembered
<1>3. Suits(U, t) => Suits(V, t)
  BY DEF Suits
<1> QED BY <1>1, <1>2, <1>3 DEF Kept

LEMMA OnAllKept ==
  ASSUME TypeOK, NEW T \in SUBSET Targets, NEW W, NEW D,
         used' = [t \in Harts |-> IF t \in T THEN W[t].used[t] ELSE used[t]],
         armed' = [h \in Harts |-> IF TargetOf(h) \in T THEN W[TargetOf(h)].armed[h] ELSE armed[h]],
         \A t \in T : Kept(Now, W[t], t, D[t])
  PROVE  /\ used' \in [Harts -> [Slots -> Owners]] /\ armed' \in [Harts -> [Slots -> Addrs \cup {None}]]
         /\ \A t \in Targets : Kept(Now, Then, t, IF t \in T THEN D[t] ELSE {})
         /\ \A t \in T : \A a : There(W[t], t, a) => There(Then, t, a)
<1>1. used \in [Harts -> [Slots -> Owners]] /\ armed \in [Harts -> [Slots -> Addrs \cup {None}]]
  BY DEF TypeOK, Owners
<1>2. \A t \in T : W[t].used \in [Harts -> [Slots -> Owners]]
                   /\ W[t].armed \in [Harts -> [Slots -> Addrs \cup {None}]]
  BY DEF Kept, States
<1>3. used' \in [Harts -> [Slots -> Owners]]
  BY <1>1, <1>2
<1>4. armed' \in [Harts -> [Slots -> Addrs \cup {None}]]
  BY <1>1, <1>2
<1>5. Then \in States /\ Now \in States
  BY <1>1, <1>3, <1>4 DEF Then, Now, States
<1>6. ASSUME NEW t \in T
      PROVE  Kept(Now, Then, t, D[t]) /\ \A a : There(W[t], t, a) => There(Then, t, a)
  <2>1. t \in Harts /\ HartsOf(t) \subseteq Harts /\ \A h \in HartsOf(t) : TargetOf(h) = t
    BY TargetHarts
  <2>2. W[t].used[t] = Then.used[t] /\ \A h \in HartsOf(t) : W[t].armed[h] = Then.armed[h]
    BY <2>1 DEF Then
  <2> QED BY <1>5, <2>2, KeptAlike
<1>7. ASSUME NEW t \in Targets \ T PROVE Kept(Now, Then, t, {})
  <2>1. t \in Harts /\ HartsOf(t) \subseteq Harts /\ \A h \in HartsOf(t) : TargetOf(h) = t
    BY TargetHarts
  <2>2. Now.used[t] = Then.used[t] /\ \A h \in HartsOf(t) : Now.armed[h] = Then.armed[h]
    BY <1>7, <2>1 DEF Then, Now
  <2>3. Kept(Now, Now, t, {})
    BY <1>5 DEF Kept
  <2> QED BY <1>5, <2>2, <2>3, KeptAlike
<1> QED BY <1>3, <1>4, <1>6, <1>7

\* What has to be said of lists and memory, when the operation frees the points D[t].
LEMMA PlacedNext ==
  ASSUME TypeOK, Placed, env' = env, NEW D,
         \A t \in Targets : Kept(Now, Then, t, D[t]),
         \A t \in Targets : \A a \in Hards(t)' :
           a \in Addrs /\ (a \in Hards(t) \ D[t] \/ (Even /\ Known => There(Then, t, a))),
         \A t \in Targets : \A a \in SetWatches(t)' :
           a \in Addrs /\ (a \in SetWatches(t) \ D[t]
                           \/ (Even /\ Known /\ ~(env.rtos /\ env.faults) => There(Then, t, a))),
         Even /\ Known /\ ~env.faults => AllSet',
         Agreed'
  PROVE  Placed'
<1>1. /\ Even' <=> Even
      /\ Known' <=> Known
      /\ Targets' = Targets
  BY DEF Even, Known, Targets
<1>2. Now' = Then
  BY DEF Now, Then
<1>3. \A t : HartsOf(t)' = HartsOf(t)
  BY DEF HartsOf
<1>4. \A t : Remembered(Now, t)' <=> Remembered(Then, t)
  BY <1>2, <1>3 DEF Remembered
<1>5. \A t : Suits(Now, t)' <=> Suits(Then, t)
  BY <1>2, <1>3 DEF Suits, Fits
<1>6. \A t, a : There(Now, t, a)' <=> There(Then, t, a)
  BY <1>2, <1>3 DEF There
<1>7. ASSUME Even, NEW t \in Targets
      PROVE  Remembered(Now, t)' /\ (Known => Suits(Now, t)')
  BY <1>4, <1>5, <1>7 DEF Placed, Kept
<1>8. ASSUME Even, Known, NEW t \in Targets, NEW a \in Hards(t)' PROVE There(Now, t, a)'
  BY <1>6, <1>8 DEF Placed, HardsThere, Kept
<1>9. ASSUME Even, Known, ~(env.rtos /\ env.faults), NEW t \in Targets, NEW a \in SetWatches(t)'
      PROVE  There(Now, t, a)'
  BY <1>6, <1>9 DEF Placed, WatchesThere, Kept
<1>10. HardsThere' <=> \A t \in Targets' : \A a \in Hards(t)' : There(Now, t, a)'
  BY DEF HardsThere
<1>11. WatchesThere' <=> \A t \in Targets' : \A a \in SetWatches(t)' : There(Now, t, a)'
  BY DEF WatchesThere
<1>12. /\ (Even => \A t \in Targets : Remembered(Now, t))'
       /\ (Even /\ Known => \A t \in Targets : Suits(Now, t))'
  BY <1>1, <1>7
<1>13. /\ (Even /\ Known => HardsThere)'
       /\ (Even /\ Known /\ ~(env.rtos /\ env.faults) => WatchesThere)'
       /\ (Even /\ Known /\ ~env.faults => AllSet)'
  BY <1>1, <1>8, <1>9, <1>10, <1>11
<1> QED BY <1>12, <1>13 DEF Placed

-----------------------------------------------------------------------------
(* The start and the steps. *)

LEMMA HeadIsTarget == Head \in Targets /\ Head \in Harts
BY SizesAssumption DEF Head, Targets, Harts

LEMMA InvInit == Init => Inv
<1> SUFFICES ASSUME Init PROVE Inv
  OBVIOUS
<1>1. TypeOK
  BY DEF Init, TypeOK, Targets
<1>2. ProgramIntact
  BY HeadIsTarget DEF Init, ProgramIntact
<1>3. \A t \in Targets : t \in Harts
  BY TargetHarts
<1>4. \A t \in Targets : Hards(t) = {} /\ SetWatches(t) = {} /\ wps[t] = {}
  BY <1>3 DEF Init, Hards, SetWatches
<1>5. \A t \in Targets : Remembered(Now, t) /\ Suits(Now, t)
  <2> SUFFICES ASSUME NEW t \in Targets, NEW h \in HartsOf(t), NEW i \in Slots
               PROVE  Now.armed[h][i] = None /\ Now.used[t][i] \notin Addrs
    BY DEF Remembered, Suits
  <2>1. t \in Harts /\ h \in Harts
    BY TargetHarts
  <2> QED BY <2>1, NoAddrs DEF Init, Now
<1>6. Agreed
  BY DEF Init, Agreed
<1>7. HardsThere /\ WatchesThere /\ AllSet
  BY <1>4 DEF HardsThere, WatchesThere, AllSet
<1>8. SoftsInRam
  BY DEF Init, SoftsInRam
<1> QED BY <1>1, <1>2, <1>5, <1>6, <1>7, <1>8 DEF Inv, Placed

\* breakpoint_add for a hardware breakpoint.
LEMMA AddHardInv ==
  ASSUME Inv, NEW a \in CodeAddrs, AddHard(a)
  PROVE  Inv'
<1> DEFINE fails(t, ok) == Has(t, a) \/ ~AddsTrigger(Now, t, a, ok)
           reached(ok) == {t \in Targets : \A u \in Targets : u < t => ~fails(u, ok)}
           tried(ok) == {t \in reached(ok) : ~Has(t, a)}
           done(ok) == {t \in reached(ok) : ~fails(t, ok)}
<1>1. PICK ok \in Reaches :
        /\ OnAll(LAMBDA t : AddTrigger(Now, t, a, ok), tried(ok))
        /\ bps' = [t \in Harts |->
                    IF t \in done(ok) THEN bps[t] \cup {Record(a, "hard", "program")} ELSE bps[t]]
        /\ accepted' = IF done(ok) = Targets THEN accepted \cup {a} ELSE accepted
        /\ UNCHANGED <<env, running, wps, mem, unwritten, hit>>
  BY DEF AddHard
<1> DEFINE T == tried(ok)
           E == done(ok)
           W == [t \in Harts |-> AddTrigger(Now, t, a, ok)]
<1>2. /\ T \in SUBSET Targets /\ E \in SUBSET T
      /\ \A t \in E : ~Has(t, a) /\ AddsTrigger(Now, t, a, ok)
  OBVIOUS
<1>3. /\ used' = [t \in Harts |-> IF t \in T THEN W[t].used[t] ELSE used[t]]
      /\ armed' = [h \in Harts |-> IF TargetOf(h) \in T THEN W[TargetOf(h)].armed[h] ELSE armed[h]]
  <2>1. /\ used' = [t \in Harts |-> IF t \in T THEN AddTrigger(Now, t, a, ok).used[t] ELSE used[t]]
        /\ armed' = [h \in Harts |-> IF TargetOf(h) \in T
                                     THEN AddTrigger(Now, TargetOf(h), a, ok).armed[h] ELSE armed[h]]
    BY <1>1 DEF OnAll
  <2>2. T \subseteq Harts
    BY <1>2, TargetHarts
  <2> HIDE DEF T
  <2> QED BY <2>1, <2>2
<1>4. /\ bps' = [t \in Harts |-> IF t \in E THEN bps[t] \cup {Record(a, "hard", "program")} ELSE bps[t]]
      /\ accepted' = IF E = Targets THEN accepted \cup {a} ELSE accepted
      /\ UNCHANGED <<env, running, wps, mem, unwritten, hit>>
  BY <1>1
<1> HIDE DEF T, E
<1>5. TypeOK /\ Placed /\ ProgramIntact /\ a \in Addrs /\ Now \in States
  BY DEF Inv, Addrs, TypeOK, Now, States, Owners
<1>6. \A t \in T : Kept(Now, W[t], t, {})
  <2> SUFFICES ASSUME NEW t \in T PROVE Kept(Now, W[t], t, {})
    OBVIOUS
  <2>1. t \in Targets /\ t \in Harts
    BY <1>2, TargetHarts
  <2> QED BY <1>5, <2>1, AddKept
<1> DEFINE D == [t \in Targets |-> {}]
<1>7. /\ used' \in [Harts -> [Slots -> Owners]] /\ armed' \in [Harts -> [Slots -> Addrs \cup {None}]]
      /\ \A t \in Targets : Kept(Now, Then, t, {})
      /\ \A t \in T : \A b : There(W[t], t, b) => There(Then, t, b)
  <2>1. \A t \in T : D[t] = {} /\ Kept(Now, W[t], t, D[t])
    BY <1>2, <1>6
  <2> HIDE DEF D, W
  <2>2. /\ used' \in [Harts -> [Slots -> Owners]] /\ armed' \in [Harts -> [Slots -> Addrs \cup {None}]]
        /\ \A t \in Targets : Kept(Now, Then, t, IF t \in T THEN D[t] ELSE {})
        /\ \A t \in T : \A b : There(W[t], t, b) => There(Then, t, b)
    BY <1>2, <1>3, <1>5, <2>1, OnAllKept, ZenonT(30)
  <2>3. \A t \in Targets : Kept(Now, Then, t, {})
    BY <2>1, <2>2
  <2> QED BY <2>2, <2>3
<1>8. ASSUME Even, Known, NEW t \in E PROVE There(Then, t, a)
  <2>1. t \in T /\ t \in Targets /\ t \in Harts /\ Remembered(Now, t) /\ AddsTrigger(Now, t, a, ok)
    BY <1>2, <1>5, <1>8, TargetHarts DEF Placed
  <2>2. There(W[t], t, a)
    BY <1>5, <1>8, <2>1, AddsThere
  <2> QED BY <1>7, <2>1, <2>2
<1> HIDE DEF W
<1> DEFINE r == Record(a, "hard", "program")
<1>9. r \in Breakpoints /\ r.addr = a /\ r.type = "hard" /\ r.orig = "program"
  BY DEF Breakpoints, Record
<1>10. bps' = [t \in Harts |-> IF t \in E THEN bps[t] \cup {r} ELSE bps[t]]
  BY <1>4
<1> HIDE DEF r
<1>11. \A t \in Targets : t \in Harts
  BY TargetHarts
<1>12. \A t \in E : \A b \in bps[t] : b.addr # a
  BY <1>2 DEF Has
<1>13. TypeOK'
  <2>1. bps' \in [Harts -> SUBSET Breakpoints]
    BY <1>5, <1>9, <1>10 DEF TypeOK
  <2>2. \A t \in Harts : \A b, c \in bps'[t] : b.addr = c.addr => b = c
    BY <1>5, <1>9, <1>10, <1>12 DEF TypeOK
  <2>3. \A t \in Harts : t \notin Targets => bps'[t] = {} /\ wps[t] = {}
    BY <1>2, <1>5, <1>10 DEF TypeOK
  <2>4. Targets' = Targets /\ accepted' \subseteq Addrs
    BY <1>4, <1>5 DEF Targets, TypeOK
  <2> QED BY <1>4, <1>5, <1>7, <2>1, <2>2, <2>3, <2>4 DEF TypeOK, Owners
<1>14. \A t \in Targets : Hards(t)' = IF t \in E THEN Hards(t) \cup {a} ELSE Hards(t)
  BY <1>9, <1>10, <1>11 DEF Hards
<1>15. ProgramIntact'
  <2>1. bps'[Head] \in {bps[Head], bps[Head] \cup {r}}
    BY <1>10, HeadIsTarget
  <2> QED BY <1>4, <1>5, <1>9, <2>1 DEF ProgramIntact
<1>16. Agreed'
  <2> SUFFICES ASSUME NEW b \in accepted'
               PROVE  \/ \E s \in bps'[Head] : s.addr = b /\ s.type = "soft" /\ mem'[b] = "ebreak"
                      \/ \A t \in Targets : b \in Hards(t)'
                      \/ \A t \in Targets : Watched(t, b)'
    <3>1. Targets' = Targets
      BY <1>4 DEF Targets
    <3> QED BY <3>1, Zenon DEF Agreed
  <2>1. CASE b \in accepted
    <3>1. \A t \in Targets : Watched(t, b)' <=> Watched(t, b)
      BY <1>4 DEF Watched
    <3>2. bps[Head] \subseteq bps'[Head]
      BY <1>10, HeadIsTarget
    <3> QED BY <1>4, <1>5, <1>14, <2>1, <3>1, <3>2 DEF Placed, Agreed
  <2>2. CASE b \notin accepted
    <3>1. b = a /\ E = Targets
      BY <1>4, <2>2
    <3> QED BY <1>14, <3>1
  <2> QED BY <2>1, <2>2
<1>17. Placed'
  <2>1. \A t \in Targets : Hards(t) \subseteq Addrs /\ SetWatches(t) \subseteq Addrs
    BY <1>5, <1>11 DEF TypeOK, Breakpoints, Watchpoints, Hards, SetWatches, Addrs
  <2>2. \A t \in Targets : \A b \in Hards(t)' :
          b \in Addrs /\ (b \in Hards(t) \ D[t] \/ (Even /\ Known => There(Then, t, b)))
    BY <1>5, <1>8, <1>14, <2>1
  <2>3. \A t : SetWatches(t)' = SetWatches(t)
    BY <1>4 DEF SetWatches
  <2>4. \A t \in Targets : \A b \in SetWatches(t)' :
          b \in Addrs /\ (b \in SetWatches(t) \ D[t] \/ (Even /\ Known => There(Then, t, b)))
    BY <2>1, <2>3
  <2>5. Even /\ Known /\ ~env.faults => AllSet'
    BY <1>4, <1>5 DEF Placed, AllSet, Targets
  <2>6. \A t \in Targets : Kept(Now, Then, t, D[t])
    BY <1>7
  <2>7. env' = env
    BY <1>4
  <2> HIDE DEF D
  <2> QED BY <1>5, <1>16, <2>2, <2>4, <2>5, <2>6, <2>7, PlacedNext
<1>18. SoftsInRam'
  BY <1>9, <1>10 DEF SoftsInRam, Inv
<1> QED BY <1>13, <1>15, <1>17, <1>18 DEF Inv

\* Slots and triggers are left alone.
LEMMA SameTriggers ==
  ASSUME TypeOK, UNCHANGED <<used, armed>>
  PROVE  \A t : Kept(Now, Then, t, {})
<1>1. Then = Now /\ Now \in States
  BY DEF Then, Now, TypeOK, States, Owners
<1> QED BY <1>1 DEF Kept

\* breakpoint_add for a software breakpoint.
LEMMA AddSoftInv ==
  ASSUME Inv, NEW a \in RamAddrs, AddSoft(a)
  PROVE  Inv'
<1>1. TypeOK /\ Placed /\ ProgramIntact /\ SoftsInRam /\ a \in CodeAddrs /\ a \in Addrs
  BY AddrsAssumption DEF Inv, Addrs
<1>2. ~Has(Head, a) /\ UNCHANGED <<env, running, wps, used, armed, hit>>
  BY DEF AddSoft
<1> DEFINE r == Record(a, "soft", mem[a])
<1>3. \/ /\ bps' = [bps EXCEPT ![Head] = @ \cup {r}]
         /\ mem' = [mem EXCEPT ![a] = "ebreak"]
         /\ accepted' = accepted \cup {a} /\ UNCHANGED unwritten
      \/ /\ mem' \in {mem, [mem EXCEPT ![a] = "ebreak"]}
         /\ unwritten' = unwritten \cup {a} /\ UNCHANGED <<bps, accepted>>
  BY DEF AddSoft
<1>4. r \in Breakpoints /\ r.addr = a /\ r.type = "soft" /\ r.orig = mem[a]
  BY <1>1 DEF Breakpoints, Record, TypeOK
<1> HIDE DEF r
<1>5. mem \in [RamAddrs -> {"program", "ebreak"}] /\ bps \in [Harts -> SUBSET Breakpoints]
  BY <1>1 DEF TypeOK
<1>6. /\ mem' \in [RamAddrs -> {"program", "ebreak"}]
      /\ \A c \in RamAddrs : c # a => mem'[c] = mem[c]
  BY <1>3, <1>5
<1>7. Targets' = Targets /\ \A t \in Targets : t \in Harts
  BY <1>2, TargetHarts DEF Targets
<1>8. \A b \in bps[Head] : b.addr # a
  BY <1>2 DEF Has
<1>9. \A t \in Harts : \/ bps'[t] = bps[t]
                       \/ t = Head /\ bps'[t] = bps[t] \cup {r} /\ mem'[a] = "ebreak"
  BY <1>3, <1>5, HeadIsTarget
<1>10. TypeOK'
  <2>1. bps' \in [Harts -> SUBSET Breakpoints]
    BY <1>3, <1>4, <1>5, HeadIsTarget
  <2>2. \A t \in Harts : \A b, c \in bps'[t] : b.addr = c.addr => b = c
    BY <1>1, <1>4, <1>8, <1>9 DEF TypeOK
  <2>3. \A t \in Harts : t \notin Targets => bps'[t] = {} /\ wps[t] = {}
    BY <1>1, <1>9, HeadIsTarget DEF TypeOK
  <2>4. accepted' \subseteq Addrs /\ unwritten' \subseteq RamAddrs
    BY <1>1, <1>3 DEF TypeOK
  <2> QED BY <1>1, <1>2, <1>6, <1>7, <2>1, <2>2, <2>3, <2>4 DEF TypeOK
<1>11. ProgramIntact'
  <2>1. CASE /\ bps' = [bps EXCEPT ![Head] = @ \cup {r}]
             /\ mem' = [mem EXCEPT ![a] = "ebreak"]
             /\ UNCHANGED unwritten
    <3>1. bps'[Head] = bps[Head] \cup {r}
      BY <1>5, <2>1, HeadIsTarget
    <3>2. a \notin unwritten => mem[a] = "program"
      BY <1>1, <1>8 DEF ProgramIntact
    <3> QED BY <1>1, <1>4, <1>6, <1>8, <2>1, <3>1, <3>2 DEF ProgramIntact
  <2>2. CASE unwritten' = unwritten \cup {a} /\ UNCHANGED bps
    BY <1>1, <1>6, <2>2 DEF ProgramIntact
  <2> QED BY <1>3, <2>1, <2>2
<1>12. \A t \in Targets : Hards(t)' = Hards(t)
  BY <1>4, <1>7, <1>9 DEF Hards
<1>13. \A t : SetWatches(t)' = SetWatches(t) /\ \A b : Watched(t, b)' <=> Watched(t, b)
  BY <1>2 DEF SetWatches, Watched
<1>14. Agreed'
  <2> SUFFICES ASSUME NEW b \in accepted'
               PROVE  \/ \E s \in bps'[Head] : s.addr = b /\ s.type = "soft" /\ mem'[b] = "ebreak"
                      \/ \A t \in Targets : b \in Hards(t)'
                      \/ \A t \in Targets : Watched(t, b)'
    BY <1>7, Zenon DEF Agreed
  <2>1. CASE b \in accepted
    <3>1. bps[Head] \subseteq bps'[Head]
      BY <1>9, HeadIsTarget
    <3>2. \/ \E s \in bps[Head] : s.addr = b /\ s.type = "soft" /\ mem[b] = "ebreak"
          \/ \A t \in Targets : b \in Hards(t)
          \/ \A t \in Targets : Watched(t, b)
      BY <1>1, <2>1 DEF Placed, Agreed
    <3>3. ASSUME NEW s \in bps[Head], s.addr = b, s.type = "soft", mem[b] = "ebreak"
          PROVE  mem'[b] = "ebreak"
      BY <1>1, <1>6, <1>8, <3>3, HeadIsTarget DEF SoftsInRam
    <3> QED BY <1>12, <1>13, <3>1, <3>2, <3>3
  <2>2. CASE b \notin accepted
    <3>1. b = a /\ bps' = [bps EXCEPT ![Head] = @ \cup {r}] /\ mem' = [mem EXCEPT ![a] = "ebreak"]
      BY <1>3, <2>2
    <3>2. r \in bps'[Head] /\ mem'[a] = "ebreak"
      BY <1>5, <3>1, HeadIsTarget
    <3> QED BY <1>4, <3>1, <3>2
  <2> QED BY <2>1, <2>2
<1>15. Placed'
  <2> DEFINE D == [t \in Targets |-> {}]
  <2>1. \A t \in Targets : Hards(t) \subseteq Addrs /\ SetWatches(t) \subseteq Addrs
    BY <1>1, <1>7 DEF TypeOK, Breakpoints, Watchpoints, Hards, SetWatches, Addrs
  <2>2. \A t \in Targets : \A b \in Hards(t)' :
          b \in Addrs /\ (b \in Hards(t) \ D[t] \/ (Even /\ Known => There(Then, t, b)))
    BY <1>12, <2>1
  <2>3. \A t \in Targets : \A b \in SetWatches(t)' :
          b \in Addrs /\ (b \in SetWatches(t) \ D[t] \/ (Even /\ Known => There(Then, t, b)))
    BY <1>13, <2>1
  <2>4. Even /\ Known /\ ~env.faults => AllSet'
    BY <1>1, <1>2, <1>7 DEF Placed, AllSet
  <2>5. \A t \in Targets : Kept(Now, Then, t, D[t])
    BY <1>1, <1>2, SameTriggers
  <2>6. env' = env
    BY <1>2
  <2> HIDE DEF D
  <2> QED BY <1>1, <1>14, <2>2, <2>3, <2>4, <2>5, <2>6, PlacedNext
<1>16. SoftsInRam'
  BY <1>1, <1>4, <1>9 DEF SoftsInRam
<1> QED BY <1>10, <1>11, <1>15, <1>16 DEF Inv

\* What is written back: nothing elsewhere, and the program's instruction unless it failed.
LEMMA WritesBack ==
  ASSUME TypeOK, ProgramIntact, SoftsInRam, NEW A, WriteBack(A)
  PROVE  /\ mem' \in [RamAddrs -> {"program", "ebreak"}]
         /\ unwritten' \subseteq RamAddrs /\ unwritten \subseteq unwritten'
         /\ \A a \in RamAddrs : /\ a \notin A => mem'[a] = mem[a]
                                /\ a \in A /\ a \notin unwritten' => mem'[a] = "program"
<1> DEFINE softs == Softs(A)
           v(F, a) == IF \E b \in softs \ F : b.addr = a
                      THEN Original(CHOOSE b \in softs : b.addr = a) ELSE mem[a]
<1>1. PICK failed \in SUBSET softs :
        /\ mem' \in {[a \in RamAddrs |-> v(failed, a)], [a \in RamAddrs |-> v({}, a)]}
        /\ unwritten' = unwritten \cup {b.addr : b \in failed}
  BY DEF WriteBack
<1>2. PICK F \in {failed, {}} : mem' = [a \in RamAddrs |-> v(F, a)]
  BY <1>1
<1>3. \A b \in softs : /\ b \in Breakpoints /\ b \in bps[Head] /\ b.type = "soft"
                       /\ b.addr \in A /\ b.addr \in RamAddrs
  BY HeadIsTarget DEF TypeOK, SoftsInRam, Softs
<1>4. \A b \in bps[Head] : b.type = "soft" /\ b.addr \in A => b \in softs
  BY DEF Softs
<1> HIDE DEF softs
<1>5. ASSUME NEW a \in RamAddrs PROVE v(F, a) \in {"program", "ebreak"}
  <2>1. CASE \E b \in softs \ F : b.addr = a
    <3>1. (CHOOSE b \in softs : b.addr = a) \in softs
      BY <2>1
    <3> QED BY <1>3, <2>1, <3>1 DEF Original, Breakpoints
  <2>2. CASE ~\E b \in softs \ F : b.addr = a
    BY <2>2 DEF TypeOK
  <2> QED BY <2>1, <2>2
<1>6. ASSUME NEW a \in RamAddrs, a \notin A PROVE v(F, a) = mem[a]
  BY <1>3, <1>6
<1>7. ASSUME NEW a \in RamAddrs, a \in A, a \notin unwritten' PROVE v(F, a) = "program"
  <2>1. a \notin unwritten /\ \A b \in failed : b.addr # a
    BY <1>1, <1>7
  <2>2. CASE \E b \in softs : b.addr = a
    <3> DEFINE s == CHOOSE b \in softs : b.addr = a
    <3>1. s \in softs /\ s.addr = a
      BY <2>2
    <3>2. s \in softs \ F
      BY <1>2, <2>1, <3>1
    <3>3. s.orig = "program"
      BY <1>3, <2>1, <3>1 DEF ProgramIntact
    <3>4. v(F, a) = Original(s)
      BY <3>1, <3>2
    <3> QED BY <3>3, <3>4 DEF Original
  <2>3. CASE ~\E b \in softs : b.addr = a
    <3>1. mem[a] = "program"
      BY <1>4, <1>7, <2>1, <2>3 DEF ProgramIntact
    <3> QED BY <2>3, <3>1
  <2> QED BY <2>2, <2>3
<1> HIDE DEF v
<1>8. mem' \in [RamAddrs -> {"program", "ebreak"}]
  BY <1>2, <1>5
<1>9. unwritten' \subseteq RamAddrs
  BY <1>1, <1>3 DEF TypeOK
<1> QED BY <1>1, <1>2, <1>6, <1>7, <1>8, <1>9

\* A breakpoint's address is code, a watchpoint's is data.
LEMMA ListAddrs ==
  ASSUME TypeOK, NEW t \in Targets
  PROVE  /\ Hards(t) \subseteq CodeAddrs /\ \A w \in wps[t] : w.addr \in DataAddrs
         /\ SetWatches(t) \subseteq DataAddrs
         /\ CodeAddrs \subseteq Addrs /\ DataAddrs \subseteq Addrs /\ CodeAddrs \cap DataAddrs = {}
<1>1. t \in Harts
  BY TargetHarts
<1> QED BY <1>1, AddrsAssumption DEF TypeOK, Breakpoints, Watchpoints, Hards, SetWatches, Addrs

\* breakpoint_remove
LEMMA RemoveBreakpointInv ==
  ASSUME Inv, NEW a \in CodeAddrs, RemoveBreakpoint(a)
  PROVE  Inv'
<1> DEFINE T == {t \in Targets : a \in Hards(t)}
<1>1. PICK ok \in Reaches : OnAll(LAMBDA t : FreePoints(t, {a}, ok), T)
  BY DEF RemoveBreakpoint
<1>2. /\ WriteBack({a})
      /\ bps' = [t \in Harts |-> {b \in bps[t] : b.addr # a}]
      /\ accepted' = accepted \ {a}
      /\ UNCHANGED <<env, running, wps, hit>>
  BY DEF RemoveBreakpoint
<1> DEFINE W == [t \in Harts |-> FreePoints(t, {a}, ok)]
           D == [t \in Targets |-> {a}]
           B == [t \in Targets |-> IF t \in T THEN D[t] ELSE {}]
<1>3. T \in SUBSET Targets /\ T \subseteq Harts /\ \A t \in Targets : t \in Harts
  BY TargetHarts
<1> HIDE DEF T
<1>4. /\ used' = [t \in Harts |-> IF t \in T THEN W[t].used[t] ELSE used[t]]
      /\ armed' = [h \in Harts |-> IF TargetOf(h) \in T THEN W[TargetOf(h)].armed[h] ELSE armed[h]]
  <2>1. /\ used' = [t \in Harts |-> IF t \in T THEN FreePoints(t, {a}, ok).used[t] ELSE used[t]]
        /\ armed' = [h \in Harts |-> IF TargetOf(h) \in T
                                     THEN FreePoints(TargetOf(h), {a}, ok).armed[h] ELSE armed[h]]
    BY <1>1 DEF OnAll
  <2> QED BY <2>1, <1>3
<1>5. TypeOK /\ Placed /\ ProgramIntact /\ SoftsInRam /\ a \in Addrs
  BY DEF Inv, Addrs
<1>6. \A t \in T : Kept(Now, W[t], t, D[t])
  <2> SUFFICES ASSUME NEW t \in T PROVE Kept(Now, W[t], t, D[t])
    OBVIOUS
  <2>1. Kept(Now, FreePoints(t, {a}, ok), t, {a})
    BY <1>3, <1>5, FreeKept
  <2> QED BY <1>3, <2>1
<1> HIDE DEF W
<1>7. /\ used' \in [Harts -> [Slots -> Owners]] /\ armed' \in [Harts -> [Slots -> Addrs \cup {None}]]
      /\ \A t \in Targets : Kept(Now, Then, t, B[t])
  <2>1. /\ used' \in [Harts -> [Slots -> Owners]] /\ armed' \in [Harts -> [Slots -> Addrs \cup {None}]]
        /\ \A t \in Targets : Kept(Now, Then, t, IF t \in T THEN D[t] ELSE {})
    <3> HIDE DEF D
    <3> QED BY <1>3, <1>4, <1>5, <1>6, OnAllKept
  <2>2. \A t \in Targets : B[t] = IF t \in T THEN D[t] ELSE {}
    OBVIOUS
  <2> QED BY <2>1, <2>2
<1>8. \A t \in Targets : B[t] \subseteq {a}
  OBVIOUS
<1> HIDE DEF B, D
<1>9. /\ mem' \in [RamAddrs -> {"program", "ebreak"}]
      /\ unwritten' \subseteq RamAddrs /\ unwritten \subseteq unwritten'
      /\ \A c \in RamAddrs : /\ c # a => mem'[c] = mem[c]
                             /\ c = a /\ c \notin unwritten' => mem'[c] = "program"
  <2>1. /\ mem' \in [RamAddrs -> {"program", "ebreak"}]
        /\ unwritten' \subseteq RamAddrs /\ unwritten \subseteq unwritten'
        /\ \A c \in RamAddrs : /\ c \notin {a} => mem'[c] = mem[c]
                               /\ c \in {a} /\ c \notin unwritten' => mem'[c] = "program"
    BY <1>2, <1>5, WritesBack
  <2> QED BY <2>1
<1>10. Targets' = Targets /\ env' = env
  BY <1>2 DEF Targets
<1>11. \A t \in Harts : bps'[t] = {b \in bps[t] : b.addr # a}
  BY <1>2
<1>12. TypeOK'
  <2>1. bps' \in [Harts -> SUBSET Breakpoints]
    BY <1>2, <1>5 DEF TypeOK
  <2>2. \A t \in Harts : \A b, c \in bps'[t] : b.addr = c.addr => b = c
    BY <1>5, <1>11 DEF TypeOK
  <2>3. \A t \in Harts : t \notin Targets => bps'[t] = {} /\ wps[t] = {}
    BY <1>5, <1>11 DEF TypeOK
  <2>4. accepted' \subseteq Addrs
    BY <1>2, <1>5 DEF TypeOK
  <2> QED BY <1>2, <1>5, <1>7, <1>9, <1>10, <2>1, <2>2, <2>3, <2>4 DEF TypeOK, Owners
<1>13. ProgramIntact'
  <2>1. \A b : b \in bps'[Head] <=> b \in bps[Head] /\ b.addr # a
    BY <1>11, HeadIsTarget
  <2> QED BY <1>5, <1>9, <2>1 DEF ProgramIntact
<1>14. \A t \in Targets : Hards(t)' = Hards(t) \ {a}
  BY <1>3, <1>11 DEF Hards
<1>15. \A t : SetWatches(t)' = SetWatches(t) /\ \A b : Watched(t, b)' <=> Watched(t, b)
  BY <1>2 DEF SetWatches, Watched
<1>16. Agreed'
  <2> SUFFICES ASSUME NEW b \in accepted'
               PROVE  \/ \E s \in bps'[Head] : s.addr = b /\ s.type = "soft" /\ mem'[b] = "ebreak"
                      \/ \A t \in Targets : b \in Hards(t)'
                      \/ \A t \in Targets : Watched(t, b)'
    BY <1>10, Zenon DEF Agreed
  <2>1. b \in accepted /\ b # a
    BY <1>2
  <2>2. \/ \E s \in bps[Head] : s.addr = b /\ s.type = "soft" /\ mem[b] = "ebreak"
        \/ \A t \in Targets : b \in Hards(t)
        \/ \A t \in Targets : Watched(t, b)
    BY <1>5, <2>1 DEF Placed, Agreed
  <2>3. ASSUME NEW s \in bps[Head], s.addr = b, s.type = "soft", mem[b] = "ebreak"
        PROVE  s \in bps'[Head] /\ mem'[b] = "ebreak"
    BY <1>5, <1>9, <1>11, <2>1, <2>3, HeadIsTarget DEF SoftsInRam
  <2> QED BY <1>14, <1>15, <2>1, <2>2, <2>3
<1>17. Placed'
  <2>1. \A t \in Targets : \A b \in Hards(t)' :
          b \in Addrs /\ (b \in Hards(t) \ B[t] \/ (Even /\ Known => There(Then, t, b)))
    BY <1>5, <1>8, <1>14, ListAddrs
  <2>2. \A t \in Targets : \A b \in SetWatches(t)' :
          b \in Addrs /\ (b \in SetWatches(t) \ B[t]
                          \/ (Even /\ Known /\ ~(env.rtos /\ env.faults) => There(Then, t, b)))
    BY <1>5, <1>8, <1>15, ListAddrs
  <2>3. Even /\ Known /\ ~env.faults => AllSet'
    BY <1>2, <1>5, <1>10 DEF Placed, AllSet
  <2> QED BY <1>5, <1>7, <1>10, <1>16, <2>1, <2>2, <2>3, PlacedNext
<1>18. SoftsInRam'
  BY <1>5, <1>11 DEF SoftsInRam
<1> QED BY <1>12, <1>13, <1>17, <1>18 DEF Inv

\* The watchpoint lists change, and triggers with them; breakpoints and memory do not.
LEMMA WatchesInv ==
  ASSUME Inv, UNCHANGED <<env, bps, mem, unwritten>>,
         running' \in BOOLEAN, hit' \subseteq Harts,
         used' \in [Harts -> [Slots -> Owners]], armed' \in [Harts -> [Slots -> Addrs \cup {None}]],
         wps' \in [Harts -> SUBSET Watchpoints],
         \A t \in Harts : /\ \A v, w \in wps'[t] : v.addr = w.addr => v = w
                          /\ t \notin Targets => wps'[t] = {},
         NEW D, \A t \in Targets : D[t] \in SUBSET DataAddrs /\ Kept(Now, Then, t, D[t]),
         \A t \in Targets : \A b \in SetWatches(t)' :
           \/ b \in SetWatches(t) \ D[t]
           \/ Even /\ Known /\ ~(env.rtos /\ env.faults) => There(Then, t, b),
         Even /\ Known /\ ~env.faults => \A t \in Targets : \A w \in wps'[t] : w.set,
         accepted' \subseteq Addrs,
         \A b \in accepted' : \/ b \in accepted /\ \A t \in Targets : Watched(t, b) => Watched(t, b)'
                              \/ \A t \in Targets : Watched(t, b)'
  PROVE  Inv'
<1>1. TypeOK /\ Placed /\ ProgramIntact /\ SoftsInRam
  BY DEF Inv
<1>2. Targets' = Targets /\ env' = env /\ \A t \in Targets : t \in Harts
  BY TargetHarts DEF Targets
<1>3. TypeOK'
  BY <1>1, <1>2 DEF TypeOK, Owners
<1>4. ProgramIntact' /\ SoftsInRam'
  BY <1>1 DEF ProgramIntact, SoftsInRam
<1>5. \A t : Hards(t)' = Hards(t)
  BY DEF Hards
<1>6. Agreed'
  <2> SUFFICES ASSUME NEW b \in accepted'
               PROVE  \/ \E s \in bps'[Head] : s.addr = b /\ s.type = "soft" /\ mem'[b] = "ebreak"
                      \/ \A t \in Targets : b \in Hards(t)'
                      \/ \A t \in Targets : Watched(t, b)'
    BY <1>2, Zenon DEF Agreed
  <2>1. CASE b \in accepted /\ \A t \in Targets : Watched(t, b) => Watched(t, b)'
    <3>1. \/ \E s \in bps[Head] : s.addr = b /\ s.type = "soft" /\ mem[b] = "ebreak"
          \/ \A t \in Targets : b \in Hards(t)
          \/ \A t \in Targets : Watched(t, b)
      BY <1>1, <2>1 DEF Placed, Agreed
    <3> QED BY <1>5, <2>1, <3>1
  <2>2. CASE \A t \in Targets : Watched(t, b)'
    BY <2>2
  <2> QED BY <2>1, <2>2
<1>7. \A t \in Targets : \A b \in Hards(t)' :
        b \in Addrs /\ (b \in Hards(t) \ D[t] \/ (Even /\ Known => There(Then, t, b)))
  BY <1>1, <1>5, ListAddrs
<1>8. \A t \in Targets : \A b \in SetWatches(t)' :
        b \in Addrs /\ (b \in SetWatches(t) \ D[t]
                        \/ (Even /\ Known /\ ~(env.rtos /\ env.faults) => There(Then, t, b)))
  <2>1. \A t \in Targets : SetWatches(t)' \subseteq DataAddrs
    BY <1>2 DEF SetWatches, Watchpoints
  <2> QED BY <2>1 DEF Addrs
<1>9. Even /\ Known /\ ~env.faults => AllSet'
  BY <1>2 DEF AllSet
<1>10. Placed'
  BY <1>1, <1>2, <1>6, <1>7, <1>8, <1>9, PlacedNext
<1> QED BY <1>3, <1>4, <1>10 DEF Inv

\* watchpoint_add
LEMMA AddWatchpointInv ==
  ASSUME Inv, NEW a \in DataAddrs, AddWatchpoint(a)
  PROVE  Inv'
<1> DEFINE fails(t, ok) == ~Watched(t, a) /\ ~AddsTrigger(Now, t, a, ok)
           reached(ok) == {t \in Targets : \A u \in Targets : u < t => ~fails(u, ok)}
           tried(ok) == {t \in reached(ok) : ~Watched(t, a)}
           added(ok) == {t \in Harts : t \in tried(ok) /\ ~fails(t, ok)}
<1>1. PICK ok \in Reaches :
        /\ OnAll(LAMBDA t : AddTrigger(Now, t, a, ok), tried(ok))
        /\ wps' = [t \in Harts |->
                    IF t \in tried(ok) /\ ~fails(t, ok)
                    THEN wps[t] \cup {[addr |-> a, set |-> TRUE]} ELSE wps[t]]
        /\ accepted' = IF \A t \in Targets : ~fails(t, ok) THEN accepted \cup {a} ELSE accepted
        /\ UNCHANGED <<env, running, bps, mem, unwritten, hit>>
  BY DEF AddWatchpoint
<1> DEFINE T == tried(ok)
           E == added(ok)
           W == [t \in Harts |-> AddTrigger(Now, t, a, ok)]
           r == [addr |-> a, set |-> TRUE]
<1>2. /\ T \in SUBSET Targets /\ E \in SUBSET T /\ T \subseteq Harts
      /\ \A t \in E : ~Watched(t, a) /\ AddsTrigger(Now, t, a, ok)
  BY TargetHarts
<1>3. /\ used' = [t \in Harts |-> IF t \in T THEN W[t].used[t] ELSE used[t]]
      /\ armed' = [h \in Harts |-> IF TargetOf(h) \in T THEN W[TargetOf(h)].armed[h] ELSE armed[h]]
  <2>1. /\ used' = [t \in Harts |-> IF t \in T THEN AddTrigger(Now, t, a, ok).used[t] ELSE used[t]]
        /\ armed' = [h \in Harts |-> IF TargetOf(h) \in T
                                     THEN AddTrigger(Now, TargetOf(h), a, ok).armed[h] ELSE armed[h]]
    BY <1>1 DEF OnAll
  <2> HIDE DEF T
  <2> QED BY <2>1, <1>2
<1>4. /\ wps' = [t \in Harts |-> IF t \in E THEN wps[t] \cup {r} ELSE wps[t]]
      /\ UNCHANGED <<env, running, bps, mem, unwritten, hit>>
  BY <1>1
<1>5. \/ accepted' = accepted
      \/ /\ accepted' = accepted \cup {a}
         /\ \A t \in Targets : t \in E \/ Watched(t, a)
  <2> DEFINE all == \A t \in Targets : ~fails(t, ok)
  <2>1. accepted' = IF all THEN accepted \cup {a} ELSE accepted
    BY <1>1, Zenon
  <2>2. ASSUME all PROVE \A t \in Targets : t \in E \/ Watched(t, a)
    <3>1. \A t \in Targets : t \in Harts /\ t \in reached(ok)
      BY <2>2, TargetHarts
    <3> QED BY <2>2, <3>1
  <2> HIDE DEF all, E, T
  <2>3. CASE all
    <3>1. accepted' = accepted \cup {a}
      BY <2>1, <2>3
    <3> QED BY <2>2, <2>3, <3>1
  <2>4. CASE ~all
    <3>1. accepted' = accepted
      BY <2>1, <2>4
    <3> QED BY <3>1
  <2> QED BY <2>3, <2>4
<1> HIDE DEF T, E
<1>6. /\ TypeOK /\ Placed /\ a \in Addrs /\ Now \in States
      /\ \A t \in Targets : t \in Harts
  BY TargetHarts DEF Inv, Addrs, TypeOK, Now, States, Owners
<1> DEFINE D == [t \in Targets |-> {}]
<1>7. /\ used' \in [Harts -> [Slots -> Owners]] /\ armed' \in [Harts -> [Slots -> Addrs \cup {None}]]
      /\ \A t \in Targets : Kept(Now, Then, t, D[t])
      /\ \A t \in T : \A b : There(W[t], t, b) => There(Then, t, b)
  <2>1. \A t \in T : Kept(Now, W[t], t, D[t])
    <3> SUFFICES ASSUME NEW t \in T PROVE Kept(Now, W[t], t, D[t])
      OBVIOUS
    <3>1. t \in Targets /\ t \in Harts /\ D[t] = {}
      BY <1>2
    <3> HIDE DEF D
    <3> QED BY <1>6, <3>1, AddKept
  <2>2. \A t \in Targets : D[t] = {}
    OBVIOUS
  <2> HIDE DEF D, W
  <2>3. /\ used' \in [Harts -> [Slots -> Owners]] /\ armed' \in [Harts -> [Slots -> Addrs \cup {None}]]
        /\ \A t \in Targets : Kept(Now, Then, t, IF t \in T THEN D[t] ELSE {})
        /\ \A t \in T : \A b : There(W[t], t, b) => There(Then, t, b)
    BY <1>2, <1>3, <1>6, <2>1, OnAllKept
  <2>4. \A t \in Targets : Kept(Now, Then, t, D[t])
    BY <2>2, <2>3
  <2> QED BY <2>3, <2>4
<1>8. ASSUME Even, Known, NEW t \in E PROVE There(Then, t, a)
  <2>1. t \in T /\ t \in Targets /\ t \in Harts /\ Remembered(Now, t) /\ AddsTrigger(Now, t, a, ok)
    BY <1>2, <1>6, <1>8 DEF Placed
  <2>2. There(W[t], t, a)
    BY <1>6, <1>8, <2>1, AddsThere
  <2> QED BY <1>7, <2>1, <2>2
<1> HIDE DEF W
<1>9. r \in Watchpoints /\ r.addr = a /\ r.set = TRUE
  BY DEF Watchpoints
<1> HIDE DEF r
<1>10. wps \in [Harts -> SUBSET Watchpoints]
  BY <1>6 DEF TypeOK
<1>11. wps' \in [Harts -> SUBSET Watchpoints]
  BY <1>4, <1>9, <1>10
<1>12. \A t \in E : \A w \in wps[t] : w.addr # a
  BY <1>2 DEF Watched
<1>13. \A t \in Harts : /\ \A v, w \in wps'[t] : v.addr = w.addr => v = w
                        /\ t \notin Targets => wps'[t] = {}
  <2>1. \A t \in Harts : wps'[t] = IF t \in E THEN wps[t] \cup {r} ELSE wps[t]
    BY <1>4
  <2>2. \A t \in Harts : /\ \A v, w \in wps[t] : v.addr = w.addr => v = w
                         /\ t \notin Targets => wps[t] = {}
    BY <1>6 DEF TypeOK
  <2> QED BY <1>2, <1>9, <1>12, <2>1, <2>2, ZenonT(30)
<1>14. \A t \in Targets : wps'[t] = IF t \in E THEN wps[t] \cup {r} ELSE wps[t]
  BY <1>4, <1>6
<1>15. \A t \in Targets : SetWatches(t)' = IF t \in E THEN SetWatches(t) \cup {a} ELSE SetWatches(t)
  BY <1>9, <1>14 DEF SetWatches
<1>16. \A t \in Targets : \A b \in SetWatches(t)' :
         \/ b \in SetWatches(t) \ D[t]
         \/ Even /\ Known /\ ~(env.rtos /\ env.faults) => There(Then, t, b)
  BY <1>8, <1>15
<1>17. Even /\ Known /\ ~env.faults => \A t \in Targets : \A w \in wps'[t] : w.set
  BY <1>6, <1>9, <1>14 DEF Placed, AllSet
<1>18. \A t \in Targets : \A b : Watched(t, b)' <=> Watched(t, b) \/ (b = a /\ t \in E)
  BY <1>9, <1>14 DEF Watched
<1>19. accepted' \subseteq Addrs
  BY <1>5, <1>6 DEF TypeOK
<1>20. \A b \in accepted' : \/ b \in accepted /\ \A t \in Targets : Watched(t, b) => Watched(t, b)'
                            \/ \A t \in Targets : Watched(t, b)'
  BY <1>5, <1>18
<1>21. running' \in BOOLEAN /\ hit' \subseteq Harts
  BY <1>4, <1>6 DEF TypeOK
<1>22. \A t \in Targets : D[t] \in SUBSET DataAddrs /\ Kept(Now, Then, t, D[t])
  BY <1>7
<1>23. UNCHANGED <<env, bps, mem, unwritten>>
  BY <1>4
<1> HIDE DEF D
<1> QED BY <1>7, <1>11, <1>13, <1>16, <1>17, <1>19, <1>20, <1>21, <1>22, <1>23, WatchesInv

\* watchpoint_remove
LEMMA RemoveWatchpointInv ==
  ASSUME Inv, NEW a \in DataAddrs, RemoveWatchpoint(a)
  PROVE  Inv'
<1> DEFINE T == {t \in Targets : Watched(t, a)}
<1>1. PICK ok \in Reaches : OnAll(LAMBDA t : FreePoints(t, {a}, ok), T)
  BY DEF RemoveWatchpoint
<1>2. /\ wps' = [t \in Harts |-> {w \in wps[t] : w.addr # a}]
      /\ accepted' = accepted \ {a}
      /\ UNCHANGED <<env, running, bps, mem, unwritten, hit>>
  BY DEF RemoveWatchpoint
<1> DEFINE W == [t \in Harts |-> FreePoints(t, {a}, ok)]
           D == [t \in Targets |-> {a}]
           B == [t \in Targets |-> IF t \in T THEN D[t] ELSE {}]
<1>3. T \in SUBSET Targets /\ T \subseteq Harts /\ \A t \in Targets : t \in Harts
  BY TargetHarts
<1> HIDE DEF T
<1>4. /\ used' = [t \in Harts |-> IF t \in T THEN W[t].used[t] ELSE used[t]]
      /\ armed' = [h \in Harts |-> IF TargetOf(h) \in T THEN W[TargetOf(h)].armed[h] ELSE armed[h]]
  <2>1. /\ used' = [t \in Harts |-> IF t \in T THEN FreePoints(t, {a}, ok).used[t] ELSE used[t]]
        /\ armed' = [h \in Harts |-> IF TargetOf(h) \in T
                                     THEN FreePoints(TargetOf(h), {a}, ok).armed[h] ELSE armed[h]]
    BY <1>1 DEF OnAll
  <2> QED BY <2>1, <1>3
<1>5. TypeOK /\ Placed /\ a \in Addrs
  BY DEF Inv, Addrs
<1>6. \A t \in T : Kept(Now, W[t], t, D[t])
  <2> SUFFICES ASSUME NEW t \in T PROVE Kept(Now, W[t], t, D[t])
    OBVIOUS
  <2>1. Kept(Now, FreePoints(t, {a}, ok), t, {a})
    BY <1>3, <1>5, FreeKept
  <2> QED BY <1>3, <2>1
<1> HIDE DEF W
<1>7. /\ used' \in [Harts -> [Slots -> Owners]] /\ armed' \in [Harts -> [Slots -> Addrs \cup {None}]]
      /\ \A t \in Targets : Kept(Now, Then, t, B[t])
  <2>1. /\ used' \in [Harts -> [Slots -> Owners]] /\ armed' \in [Harts -> [Slots -> Addrs \cup {None}]]
        /\ \A t \in Targets : Kept(Now, Then, t, IF t \in T THEN D[t] ELSE {})
    <3> HIDE DEF D
    <3> QED BY <1>3, <1>4, <1>5, <1>6, OnAllKept
  <2>2. \A t \in Targets : B[t] = IF t \in T THEN D[t] ELSE {}
    OBVIOUS
  <2> QED BY <2>1, <2>2
<1>8. \A t \in Targets : B[t] \subseteq {a} /\ B[t] \in SUBSET DataAddrs
  OBVIOUS
<1> HIDE DEF B, D
<1>9. wps \in [Harts -> SUBSET Watchpoints]
  BY <1>5 DEF TypeOK
<1>10. wps' \in [Harts -> SUBSET Watchpoints]
  BY <1>2, <1>9
<1>11. \A t \in Harts : wps'[t] = {w \in wps[t] : w.addr # a}
  BY <1>2
<1>12. \A t \in Harts : /\ \A v, w \in wps'[t] : v.addr = w.addr => v = w
                        /\ t \notin Targets => wps'[t] = {}
  BY <1>5, <1>11 DEF TypeOK
<1>13. \A t \in Targets : SetWatches(t)' = SetWatches(t) \ {a}
  BY <1>3, <1>11 DEF SetWatches
<1>14. \A t \in Targets : \A b \in SetWatches(t)' :
         \/ b \in SetWatches(t) \ B[t]
         \/ Even /\ Known /\ ~(env.rtos /\ env.faults) => There(Then, t, b)
  BY <1>8, <1>13
<1>15. Even /\ Known /\ ~env.faults => \A t \in Targets : \A w \in wps'[t] : w.set
  BY <1>3, <1>5, <1>11 DEF Placed, AllSet
<1>16. accepted' \subseteq Addrs
  BY <1>2, <1>5 DEF TypeOK
<1>17. \A t \in Targets : \A b : b # a /\ Watched(t, b) => Watched(t, b)'
  BY <1>3, <1>11 DEF Watched
<1>18. \A b \in accepted' : \/ b \in accepted /\ \A t \in Targets : Watched(t, b) => Watched(t, b)'
                            \/ \A t \in Targets : Watched(t, b)'
  BY <1>2, <1>17
<1>19. UNCHANGED <<env, bps, mem, unwritten>> /\ running' \in BOOLEAN /\ hit' \subseteq Harts
  BY <1>2, <1>5 DEF TypeOK
<1> QED BY <1>7, <1>8, <1>10, <1>12, <1>14, <1>15, <1>16, <1>18, <1>19, WatchesInv

\* A removal that reaches no hart of a target changes nothing.
LEMMA NothingCleared ==
  ASSUME TypeOK, NEW t \in Targets, NEW ok, HartsOf(t) = {t}, t \notin ok
  PROVE  Cleared(t, ok) = Now
<1> DEFINE A == Tries(t, ok)
           r == [h \in Harts |-> [i \in Slots |->
                  IF h \in Disarmed(t, ok) /\ i \in Found(Now, t, A) THEN None ELSE Now.armed[h][i]]]
<1>1. Disarmed(t, ok) = {}
  <2>1. t \in Nat
    BY TargetHarts, SizesAssumption DEF Harts
  <2> QED BY <2>1 DEF Disarmed
<1>2. Cleared(t, ok) = [used |-> Now.used, armed |-> r]
  BY DEF Cleared, RemoveTriggers
<1>3. r = armed
  BY <1>1 DEF Now, TypeOK
<1> QED BY <1>2, <1>3 DEF Now

\* riscv_resume
LEMMA ResumeInv ==
  ASSUME Inv, Resume
  PROVE  Inv'
<1> DEFINE T == hit \cap Targets
<1>1. PICK ok1 \in Reaches, ok2 \in Reaches : SteppedOff(T, ok1, ok2)
  BY DEF Resume
<1>2. ~running /\ running' = TRUE /\ hit' = {} /\ UNCHANGED <<env, bps, mem, accepted, unwritten>>
  BY DEF Resume
<1> DEFINE W == [t \in Harts |-> AddedAgain(t, ok1, ok2)]
           D == [t \in Targets |-> IF env.rtos \/ t \in ok1 THEN Tries(t, ok1) ELSE {}]
           B == [t \in Targets |-> IF t \in T THEN D[t] ELSE {}]
<1>3. T \in SUBSET Targets /\ T \subseteq Harts /\ \A t \in Targets : t \in Harts
  BY TargetHarts
<1> HIDE DEF T
<1>4. /\ used' = [t \in Harts |-> IF t \in T THEN W[t].used[t] ELSE used[t]]
      /\ armed' = [h \in Harts |-> IF TargetOf(h) \in T THEN W[TargetOf(h)].armed[h] ELSE armed[h]]
  <2>1. /\ used' = [t \in Harts |-> IF t \in T THEN AddedAgain(t, ok1, ok2).used[t] ELSE used[t]]
        /\ armed' = [h \in Harts |-> IF TargetOf(h) \in T
                                     THEN AddedAgain(TargetOf(h), ok1, ok2).armed[h] ELSE armed[h]]
    BY <1>1 DEF SteppedOff, OnAll
  <2> QED BY <2>1, <1>3
<1>5. /\ TypeOK /\ Placed
      /\ \A t \in Targets : t \in Harts /\ SetWatches(t) \subseteq DataAddrs
  BY ListAddrs, TargetHarts DEF Inv
<1>6. wps' = [t \in Harts |->
               IF t \in T THEN {[w EXCEPT !.set = @ /\ StaysSet(t, w.addr, ok1, ok2)] : w \in wps[t]}
               ELSE wps[t]]
  BY <1>1, Zenon DEF SteppedOff
<1>7. \A t \in Targets : env.rtos \/ HartsOf(t) = {t}
  BY DEF HartsOf
<1>8. ASSUME NEW t \in T
      PROVE  /\ Kept(Now, W[t], t, D[t]) /\ D[t] \in SUBSET SetWatches(t)
             /\ Even /\ Known /\ Remembered(Now, t) =>
                  \A a \in Tries(t, ok1) :
                    Owned(AddedAgain(t, ok1, ok2), t, a) # Owned(Cleared(t, ok1), t, a) =>
                      There(W[t], t, a)
  <2>1. t \in Targets /\ t \in Harts
    BY <1>3
  <2>2. W[t] = AddedAgain(t, ok1, ok2) /\ D[t] = IF env.rtos \/ t \in ok1 THEN Tries(t, ok1) ELSE {}
    BY <2>1
  <2> HIDE DEF W, D
  <2>3. /\ Kept(Now, W[t], t, Tries(t, ok1))
        /\ Tries(t, ok1) \in SUBSET SetWatches(t)
        /\ Even /\ Known /\ Remembered(Now, t) =>
             \A a \in Tries(t, ok1) :
               Owned(AddedAgain(t, ok1, ok2), t, a) # Owned(Cleared(t, ok1), t, a) => There(W[t], t, a)
    BY <1>5, <2>1, <2>2, StepOff
  <2>4. CASE env.rtos \/ t \in ok1
    BY <2>2, <2>3, <2>4
  <2>5. CASE ~env.rtos /\ t \notin ok1
    <3>1. Cleared(t, ok1) = Now
      BY <1>5, <1>7, <2>1, <2>5, NothingCleared
    <3> DEFINE A == Tries(t, ok1)
    <3>2. A \in SUBSET DataAddrs
      BY <1>5, <2>1, <2>3
    <3>3. IsFiniteSet(A) /\ A \in SUBSET Addrs
      BY <3>2, AddrsAssumption, FS_Subset DEF Addrs
    <3>4. PICK f : IsFold(f, Now, t, A, ok2) /\ W[t] = f[A]
      BY <2>2, <3>1, <3>3, AddedIsFold
    <3> HIDE DEF A
    <3>5. Now \in States
      BY <1>5 DEF Now, TypeOK, States, Owners
    <3>6. A \in SUBSET A
      OBVIOUS
    <3>7. Kept(Now, f[A], t, {})
      BY <2>1, <3>3, <3>4, <3>5, <3>6, FoldKept
    <3> QED BY <2>2, <2>3, <2>5, <3>4, <3>7
  <2> QED BY <2>4, <2>5
<1>9. /\ used' \in [Harts -> [Slots -> Owners]] /\ armed' \in [Harts -> [Slots -> Addrs \cup {None}]]
      /\ \A t \in Targets : Kept(Now, Then, t, B[t])
      /\ \A t \in T : \A a : There(W[t], t, a) => There(Then, t, a)
  <2>1. \A t \in Targets : B[t] = IF t \in T THEN D[t] ELSE {}
    OBVIOUS
  <2> HIDE DEF D, W, B
  <2>2. /\ used' \in [Harts -> [Slots -> Owners]] /\ armed' \in [Harts -> [Slots -> Addrs \cup {None}]]
        /\ \A t \in Targets : Kept(Now, Then, t, IF t \in T THEN D[t] ELSE {})
        /\ \A t \in T : \A a : There(W[t], t, a) => There(Then, t, a)
    BY <1>3, <1>4, <1>5, <1>8, OnAllKept, ZenonT(30)
  <2> QED BY <2>1, <2>2
<1>10. \A t \in Targets : B[t] \in SUBSET DataAddrs /\ Kept(Now, Then, t, B[t])
  <2>1. \A t \in Targets : B[t] \in {{}, D[t]} /\ (t \notin T => B[t] = {})
    OBVIOUS
  <2> HIDE DEF B, D
  <2> QED BY <1>3, <1>5, <1>8, <1>9, <2>1
<1>11. wps \in [Harts -> SUBSET Watchpoints]
  BY <1>5 DEF TypeOK
<1>12. \A t \in T : wps'[t] = {[w EXCEPT !.set = @ /\ StaysSet(t, w.addr, ok1, ok2)] : w \in wps[t]}
  BY <1>3, <1>6
<1>13. \A t \in Harts : t \notin T => wps'[t] = wps[t]
  BY <1>6
<1> DEFINE v(t, w) == [w EXCEPT !.set = @ /\ StaysSet(t, w.addr, ok1, ok2)]
<1>14. \A t \in T : wps'[t] = {v(t, w) : w \in wps[t]}
  BY <1>12
<1>15. ASSUME NEW t \in T, NEW w \in wps[t]
       PROVE  /\ v(t, w) \in Watchpoints /\ v(t, w).addr = w.addr
              /\ v(t, w).set <=> w.set /\ StaysSet(t, w.addr, ok1, ok2)
  <2>1. w \in Watchpoints
    BY <1>3, <1>11
  <2>2. (w.set /\ StaysSet(t, w.addr, ok1, ok2)) \in BOOLEAN
    OBVIOUS
  <2> QED BY <2>1, <2>2 DEF Watchpoints
<1> HIDE DEF v, W, D, B
<1>16. wps' \in [Harts -> SUBSET Watchpoints]
  <2>1. \A t \in T : wps'[t] \in SUBSET Watchpoints
    BY <1>14, <1>15
  <2>2. \A t \in Harts : wps'[t] \in SUBSET Watchpoints
    BY <1>11, <1>13, <2>1
  <2>3. wps' = [t \in Harts |-> wps'[t]]
    BY <1>6
  <2> QED BY <2>2, <2>3
<1>17. \A t \in Harts : /\ \A x, y \in wps'[t] : x.addr = y.addr => x = y
                        /\ t \notin Targets => wps'[t] = {}
  <2>1. \A t \in Harts : /\ \A x, y \in wps[t] : x.addr = y.addr => x = y
                         /\ t \notin Targets => wps[t] = {}
    BY <1>5 DEF TypeOK
  <2>2. ASSUME NEW t \in T, NEW x \in wps'[t], NEW y \in wps'[t], x.addr = y.addr PROVE x = y
    <3>1. PICK w1 \in wps[t] : x = v(t, w1)
      BY <1>14
    <3>2. PICK w2 \in wps[t] : y = v(t, w2)
      BY <1>14
    <3>3. w1 = w2
      BY <1>3, <1>15, <2>1, <2>2, <3>1, <3>2
    <3> QED BY <3>1, <3>2, <3>3
  <2> QED BY <1>3, <1>13, <2>1, <2>2
<1>18. ASSUME NEW t \in T, NEW b \in SetWatches(t)'
       PROVE  b \in SetWatches(t) /\ StaysSet(t, b, ok1, ok2)
  <2>1. PICK x \in wps'[t] : x.set /\ x.addr = b
    BY DEF SetWatches
  <2>2. PICK w \in wps[t] : x = v(t, w)
    BY <1>14
  <2>3. w.set /\ w.addr = b /\ StaysSet(t, b, ok1, ok2)
    BY <1>15, <2>1, <2>2
  <2> QED BY <2>3 DEF SetWatches
<1>19. ~env.faults => ok1 = Harts /\ ok2 = Harts
  BY <1>2 DEF Reaches
<1>20. \A t \in Targets : \A b \in SetWatches(t)' :
         \/ b \in SetWatches(t) \ B[t]
         \/ Even /\ Known /\ ~(env.rtos /\ env.faults) => There(Then, t, b)
  <2> SUFFICES ASSUME NEW t \in Targets, NEW b \in SetWatches(t)', b \notin SetWatches(t) \ B[t],
                      Even, Known, ~(env.rtos /\ env.faults)
               PROVE  There(Then, t, b)
    OBVIOUS
  <2>1. CASE t \notin T
    <3>1. SetWatches(t)' = SetWatches(t) /\ B[t] = {}
      BY <1>3, <1>13, <2>1 DEF SetWatches, B
    <3> QED BY <3>1
  <2>2. CASE t \in T
    <3>1. b \in SetWatches(t) /\ StaysSet(t, b, ok1, ok2)
      BY <1>18, <2>2
    <3>2. b \in D[t] /\ D[t] = IF env.rtos \/ t \in ok1 THEN Tries(t, ok1) ELSE {}
      BY <2>2, <3>1 DEF B, D
    <3>3. b \in Tries(t, ok1) /\ (env.rtos \/ t \in ok1)
      BY <3>2
    <3>4. HartsOf(t) \subseteq ok1
      BY <1>7, <1>19, <3>3, TargetHarts
    <3>5. Owned(AddedAgain(t, ok1, ok2), t, b) # Owned(Cleared(t, ok1), t, b)
      BY <3>1, <3>4 DEF StaysSet
    <3>6. Remembered(Now, t)
      BY <1>5 DEF Placed
    <3> QED BY <1>8, <1>9, <2>2, <3>3, <3>5, <3>6
  <2> QED BY <2>1, <2>2
<1>21. Even /\ Known /\ ~env.faults => \A t \in Targets : \A w \in wps'[t] : w.set
  <2> SUFFICES ASSUME Even, Known, ~env.faults, NEW t \in Targets, NEW x \in wps'[t]
               PROVE  x.set
    OBVIOUS
  <2>1. \A w \in wps[t] : w.set
    BY <1>5 DEF Placed, AllSet
  <2>2. CASE t \notin T
    BY <1>3, <1>5, <1>13, <2>1, <2>2
  <2>3. CASE t \in T
    <3>1. PICK w \in wps[t] : x = v(t, w)
      BY <1>14, <2>3
    <3>2. w.addr \in SetWatches(t)
      BY <2>1 DEF SetWatches
    <3>3. /\ Remembered(Now, t) /\ Suits(Now, t)
          /\ \A a \in SetWatches(t) : There(Now, t, a)
      BY <1>5 DEF Placed, WatchesThere
    <3>4. HartsOf(t) \subseteq ok1 /\ HartsOf(t) \subseteq ok2
      BY <1>19, TargetHarts
    <3>5. StaysSet(t, w.addr, ok1, ok2)
      BY <1>5, <3>2, <3>3, <3>4, StepOff
    <3> QED BY <1>15, <2>1, <2>3, <3>1, <3>5
  <2> QED BY <2>2, <2>3
<1>22. accepted' \subseteq Addrs
  BY <1>2, <1>5 DEF TypeOK
<1>23. \A t \in Targets : \A b : Watched(t, b) => Watched(t, b)'
  <2> SUFFICES ASSUME NEW t \in Targets, NEW b, NEW w \in wps[t], w.addr = b
               PROVE  \E x \in wps'[t] : x.addr = b
    BY DEF Watched
  <2>1. CASE t \notin T
    BY <1>3, <1>13, <2>1
  <2>2. CASE t \in T
    BY <1>14, <1>15, <2>2
  <2> QED BY <2>1, <2>2
<1>24. \A b \in accepted' : \/ b \in accepted /\ \A t \in Targets : Watched(t, b) => Watched(t, b)'
                            \/ \A t \in Targets : Watched(t, b)'
  BY <1>2, <1>23
<1>25. UNCHANGED <<env, bps, mem, unwritten>> /\ running' \in BOOLEAN /\ hit' \subseteq Harts
  BY <1>2
<1> QED BY <1>9, <1>10, <1>16, <1>17, <1>20, <1>21, <1>22, <1>24, <1>25, WatchesInv

\* breakpoint_clear_target and watchpoint_clear_target
LEMMA ClearTargetInv ==
  ASSUME Inv, NEW t \in Targets, ClearTarget(t)
  PROVE  Inv'
<1> DEFINE freed(u) == Hards(u) \cup (IF u = t THEN {w.addr : w \in wps[u]} ELSE {})
           D == [u \in Targets |-> freed(u)]
<1>1. PICK ok \in Reaches : OnAll(LAMBDA u : FreePoints(u, freed(u), ok), Targets)
  BY DEF ClearTarget
<1>2. /\ WriteBack({b.addr : b \in bps[Head]})
      /\ bps' = [u \in Harts |-> {}] /\ wps' = [wps EXCEPT ![t] = {}]
      /\ accepted' = {}
      /\ UNCHANGED <<env, running, hit>>
  BY DEF ClearTarget
<1> DEFINE W == [u \in Harts |-> FreePoints(u, freed(u), ok)]
<1>3. Targets \subseteq Harts /\ t \in Harts
  BY TargetHarts
<1>4. /\ used' = [u \in Harts |-> IF u \in Targets THEN W[u].used[u] ELSE used[u]]
      /\ armed' = [h \in Harts |-> IF TargetOf(h) \in Targets THEN W[TargetOf(h)].armed[h] ELSE armed[h]]
  <2>1. /\ used' = [u \in Harts |-> IF u \in Targets THEN FreePoints(u, freed(u), ok).used[u] ELSE used[u]]
        /\ armed' = [h \in Harts |-> IF TargetOf(h) \in Targets
                                     THEN FreePoints(TargetOf(h), freed(TargetOf(h)), ok).armed[h]
                                     ELSE armed[h]]
    BY <1>1 DEF OnAll
  <2> HIDE DEF freed
  <2> QED BY <2>1, <1>3
<1>5. /\ TypeOK /\ Placed /\ ProgramIntact /\ SoftsInRam
      /\ \A u \in Targets : /\ Hards(u) \subseteq CodeAddrs /\ \A w \in wps[u] : w.addr \in DataAddrs
                            /\ SetWatches(u) \subseteq DataAddrs
      /\ CodeAddrs \subseteq Addrs /\ DataAddrs \subseteq Addrs /\ CodeAddrs \cap DataAddrs = {}
  BY ListAddrs DEF Inv
<1>6. \A u \in Targets : D[u] = freed(u) /\ freed(u) \in SUBSET Addrs
  BY <1>5
<1>7. \A u \in Targets : Kept(Now, W[u], u, D[u])
  <2> SUFFICES ASSUME NEW u \in Targets PROVE Kept(Now, W[u], u, D[u])
    OBVIOUS
  <2>1. W[u] = FreePoints(u, freed(u), ok) /\ D[u] = freed(u)
    BY <1>3
  <2> HIDE DEF W, D, freed
  <2> QED BY <1>5, <1>6, <2>1, FreeKept
<1>8. /\ used' \in [Harts -> [Slots -> Owners]] /\ armed' \in [Harts -> [Slots -> Addrs \cup {None}]]
      /\ \A u \in Targets : Kept(Now, Then, u, D[u])
  <2> HIDE DEF W, D
  <2>1. Targets \in SUBSET Targets
    OBVIOUS
  <2>2. /\ used' \in [Harts -> [Slots -> Owners]] /\ armed' \in [Harts -> [Slots -> Addrs \cup {None}]]
        /\ \A u \in Targets : Kept(Now, Then, u, IF u \in Targets THEN D[u] ELSE {})
    BY <1>4, <1>5, <1>7, <2>1, OnAllKept
  <2> QED BY <2>2
<1> HIDE DEF W
<1> DEFINE A == {b.addr : b \in bps[Head]}
<1>9. /\ mem' \in [RamAddrs -> {"program", "ebreak"}]
      /\ unwritten' \subseteq RamAddrs /\ unwritten \subseteq unwritten'
      /\ \A c \in RamAddrs : /\ c \notin A => mem'[c] = mem[c]
                             /\ c \in A /\ c \notin unwritten' => mem'[c] = "program"
  <2>1. WriteBack(A)
    BY <1>2
  <2> HIDE DEF A
  <2> QED BY <1>5, <2>1, WritesBack
<1>10. Targets' = Targets /\ env' = env
  BY <1>2 DEF Targets
<1>11. /\ \A u \in Harts : bps'[u] = {} /\ wps'[u] = IF u = t THEN {} ELSE wps[u]
       /\ bps' \in [Harts -> SUBSET Breakpoints] /\ wps' \in [Harts -> SUBSET Watchpoints]
  BY <1>2, <1>3, <1>5 DEF TypeOK
<1>12. TypeOK'
  BY <1>2, <1>5, <1>8, <1>9, <1>10, <1>11 DEF TypeOK, Owners
<1>13. ProgramIntact'
  <2> SUFFICES ASSUME NEW c \in RamAddrs \ unwritten' PROVE mem'[c] = "program"
    BY <1>11, HeadIsTarget DEF ProgramIntact
  <2>1. CASE c \in A
    BY <1>9, <2>1
  <2>2. CASE c \notin A
    <3>1. mem[c] = "program"
      BY <1>5, <1>9, <2>2 DEF ProgramIntact
    <3> QED BY <1>9, <2>2, <3>1
  <2> QED BY <2>1, <2>2
<1>14. Agreed'
  BY <1>2 DEF Agreed
<1>15. \A u \in Targets : Hards(u)' = {} /\ SetWatches(u)' = IF u = t THEN {} ELSE SetWatches(u)
  BY <1>3, <1>11 DEF Hards, SetWatches
<1>16. \A u \in Targets : u # t => D[u] \subseteq CodeAddrs
  BY <1>5
<1>17. Placed'
  <2>1. \A u \in Targets : \A b \in Hards(u)' :
          b \in Addrs /\ (b \in Hards(u) \ D[u] \/ (Even /\ Known => There(Then, u, b)))
    BY <1>15
  <2>2. \A u \in Targets : \A b \in SetWatches(u)' :
          b \in Addrs /\ (b \in SetWatches(u) \ D[u]
                          \/ (Even /\ Known /\ ~(env.rtos /\ env.faults) => There(Then, u, b)))
    <3> HIDE DEF D
    <3> QED BY <1>5, <1>15, <1>16
  <2>3. Even /\ Known /\ ~env.faults => AllSet'
    BY <1>3, <1>5, <1>10, <1>11 DEF Placed, AllSet
  <2> HIDE DEF D
  <2> QED BY <1>5, <1>8, <1>10, <1>14, <2>1, <2>2, <2>3, PlacedNext
<1>18. SoftsInRam'
  BY <1>11 DEF SoftsInRam
<1> QED BY <1>12, <1>13, <1>17, <1>18 DEF Inv

\* The harts halt.
LEMMA HaltInv ==
  ASSUME Inv, Halt
  PROVE  Inv'
<1>1. running' \in BOOLEAN /\ hit' \subseteq Harts
  BY TargetHarts DEF Halt
<1>2. UNCHANGED <<env, bps, wps, used, armed, mem, accepted, unwritten>>
  BY DEF Halt
<1>3. TypeOK /\ Placed
  BY DEF Inv
<1> DEFINE D == [t \in Targets |-> {}]
<1>4. \A t \in Targets : D[t] \in SUBSET DataAddrs /\ Kept(Now, Then, t, D[t])
  BY <1>2, <1>3, SameTriggers
<1>5. /\ used' \in [Harts -> [Slots -> Owners]] /\ armed' \in [Harts -> [Slots -> Addrs \cup {None}]]
      /\ wps' \in [Harts -> SUBSET Watchpoints] /\ accepted' \subseteq Addrs
  BY <1>2, <1>3 DEF TypeOK, Owners
<1>6. \A t \in Harts : /\ \A v, w \in wps'[t] : v.addr = w.addr => v = w
                       /\ t \notin Targets => wps'[t] = {}
  BY <1>2, <1>3 DEF TypeOK
<1>7. \A t \in Targets : \A b \in SetWatches(t)' :
        \/ b \in SetWatches(t) \ D[t]
        \/ Even /\ Known /\ ~(env.rtos /\ env.faults) => There(Then, t, b)
  BY <1>2 DEF SetWatches
<1>8. Even /\ Known /\ ~env.faults => \A t \in Targets : \A w \in wps'[t] : w.set
  BY <1>2, <1>3 DEF Placed, AllSet
<1>9. \A b \in accepted' : b \in accepted /\ \A t \in Targets : Watched(t, b) => Watched(t, b)'
  BY <1>2 DEF Watched
<1> HIDE DEF D
<1> QED BY <1>1, <1>2, <1>4, <1>5, <1>6, <1>7, <1>8, <1>9, WatchesInv

-----------------------------------------------------------------------------
(* The theorems. *)

LEMMA Invariance == Spec => []Inv
<1>1. Init => Inv
  BY InvInit
<1>2. Inv /\ [Next]_vars => Inv'
  <2> SUFFICES ASSUME Inv, [Next]_vars PROVE Inv'
    OBVIOUS
  <2>1. ASSUME NEW a \in CodeAddrs, AddHard(a) PROVE Inv'
    BY <2>1, AddHardInv
  <2>2. ASSUME NEW a \in CodeAddrs, RemoveBreakpoint(a) PROVE Inv'
    BY <2>2, RemoveBreakpointInv
  <2>3. ASSUME NEW a \in RamAddrs, AddSoft(a) PROVE Inv'
    BY <2>3, AddSoftInv
  <2>4. ASSUME NEW a \in DataAddrs, AddWatchpoint(a) PROVE Inv'
    BY <2>4, AddWatchpointInv
  <2>5. ASSUME NEW a \in DataAddrs, RemoveWatchpoint(a) PROVE Inv'
    BY <2>5, RemoveWatchpointInv
  <2>6. ASSUME NEW t \in Targets, ClearTarget(t) PROVE Inv'
    BY <2>6, ClearTargetInv
  <2>7. CASE Resume
    BY <2>7, ResumeInv
  <2>8. CASE Halt
    BY <2>8, HaltInv
  <2>9. CASE UNCHANGED vars
    BY <2>9 DEF Inv, vars, TypeOK, ProgramIntact, Placed, SoftsInRam, Even, Known, Targets, Remembered,
      Suits, Now, HartsOf, Fits, HardsThere, WatchesThere, AllSet, Agreed, Hards, SetWatches, There, Watched
  <2> QED BY <2>1, <2>2, <2>3, <2>4, <2>5, <2>6, <2>7, <2>8, <2>9 DEF Next
<1> QED BY <1>1, <1>2, PTL DEF Spec

\* TypeOK: the lists of every target keep one breakpoint and one watchpoint at an address,
\* whatever fails.
THEOREM TypeCorrect == Spec => []TypeOK
<1>1. Inv => TypeOK
  BY DEF Inv
<1> QED BY <1>1, Invariance, PTL

\* ProgramIntact: an instruction is replaced only while a breakpoint is there that would put
\* it back, whatever the harts' triggers are and whatever fails, as long as no write there
\* failed.
THEOREM ProgramKept == Spec => []ProgramIntact
<1>1. Inv => ProgramIntact
  BY DEF Inv
<1> QED BY <1>1, Invariance, PTL

\* ArmedIsUsed: no trigger fires from a slot riscv.c believes to be free, where the harts of
\* a target have the same triggers.
THEOREM TriggersRemembered == Spec => [](Even => ArmedIsUsed)
<1>1. Inv => (Even => ArmedIsUsed)
  BY DEF Inv, Placed, Remembered, ArmedIsUsed, Now
<1> QED BY <1>1, Invariance, PTL

\* SameSlotOnEveryHart: what is set fires on every hart of its target from one slot, where
\* the harts have the same triggers, of types that are known, and either have targets of
\* their own or are always in reach.
THEOREM SetEverywhere ==
  Spec => [](Even /\ Known /\ ~(env.rtos /\ env.faults) => SameSlotOnEveryHart)
<1>1. Inv => (Even /\ Known /\ ~(env.rtos /\ env.faults) => SameSlotOnEveryHart)
  BY DEF Inv, Placed, HardsThere, WatchesThere, There, SameSlotOnEveryHart, SetPoints, Now
<1> QED BY <1>1, Invariance, PTL

\* AcceptedIsThere: what was answered ERROR_OK stops every hart until it is removed, where
\* the harts of a target have the same triggers, of types that are known.
THEOREM AcceptedStays == Spec => [](Even /\ Known => AcceptedIsThere)
<1>1. Inv => (Even /\ Known => AcceptedIsThere)
  <2> SUFFICES ASSUME Inv, Even, Known, NEW a \in accepted
               PROVE  \/ \E b \in bps[Head] : b.addr = a /\ b.type = "soft" /\ mem[a] = "ebreak"
                      \/ \A t \in Targets : Fires(t, a)
                      \/ env.faults /\ \A t \in Targets : Watched(t, a)
    BY DEF AcceptedIsThere
  <2>1. \A t \in Targets : There(Now, t, a) => Fires(t, a)
    BY DEF There, Fires, Now
  <2>2. CASE \A t \in Targets : a \in Hards(t)
    BY <2>1, <2>2 DEF Inv, Placed, HardsThere
  <2>3. CASE ~env.faults /\ \A t \in Targets : Watched(t, a)
    <3>1. \A t \in Targets : a \in SetWatches(t)
      BY <2>3 DEF Inv, Placed, AllSet, Watched, SetWatches
    <3> QED BY <2>1, <2>3, <3>1 DEF Inv, Placed, WatchesThere
  <2> QED BY <2>2, <2>3 DEF Inv, Placed, Agreed
<1> QED BY <1>1, Invariance, PTL
=============================================================================
