--------------------------- MODULE CortexMProofs ---------------------------
(***************************************************************************)
(* CortexM: comparators stay accounted for, the list is what was asked     *)
(* for, listed breakpoints stop the program and a step is one instruction, *)
(* for every program, number of comparators and set of addresses, and      *)
(* every environment of which these hold.                                  *)
(***************************************************************************)
EXTENDS CortexM, FiniteSetTheorems, WellFoundedInduction, TLAPS

Cs == 1 .. Comparators
Points == [type : {"none", "hard", "soft"}, set : 0 .. Comparators + 1, orig : {"code", "own", "bkpt"}]
Worlds ==
  [bps : [Program -> Points], used : [Cs -> BOOLEAN], fpcr : [Cs -> Program \cup {0}],
   enabled : BOOLEAN, comp : [Cs -> Program \cup {0}], on : BOOLEAN,
   mem : [Program -> {"code", "own", "bkpt"}]]
Watches ==
  [wps : [Watch -> NotListed .. Dwts], available : Nat, comp : [1 .. Dwts -> Watch \cup {0}],
   refused : Nat]
Cores ==
  [pc : Program, ret : 0 .. Last, halted : BOOLEAN, masked : BOOLEAN, met : BOOLEAN,
   wasReset : BOOLEAN]

-----------------------------------------------------------------------------
(* Least elements. *)

\* A nonempty set of naturals has a least element.
LEMMA LeastNat ==
  ASSUME NEW S \in SUBSET Nat, S # {}
  PROVE  \E m \in S : \A n \in S : m <= n
<1> DEFINE T == {0 .. n : n \in S}
<1>1. T \subseteq FiniteSubsetsOf(Nat) /\ T # {}
  <2>1. \A n \in S : (0 .. n) \in SUBSET Nat /\ IsFiniteSet(0 .. n)
    BY FS_Interval
  <2> QED BY <2>1 DEF FiniteSubsetsOf
<1>2. IsWellFoundedOn(StrictSubsetOrdering(Nat), FiniteSubsetsOf(Nat))
  BY FS_StrictSubsetOrderingWellFounded
<1>3. \E x \in T : \A y \in T : ~(<<y, x>> \in StrictSubsetOrdering(Nat))
  <2> HIDE DEF T
  <2> QED BY <1>1, <1>2, WFMin
<1>4. PICK m \in S : \A n \in S : ~(<<0 .. n, 0 .. m>> \in StrictSubsetOrdering(Nat))
  BY <1>3
<1>5. ASSUME NEW n \in S, n < m PROVE FALSE
  <2>1. (0 .. n) \subseteq (0 .. m) /\ m \in 0 .. m /\ m \notin 0 .. n
    BY <1>5
  <2>2. <<0 .. n, 0 .. m>> \in StrictSubsetOrdering(Nat)
    BY <2>1 DEF StrictSubsetOrdering
  <2> QED BY <1>4, <2>2
<1> QED BY <1>5

\* A nonempty set of subsets of a finite set has a smallest one.
LEMMA SmallestSubset ==
  ASSUME NEW A, IsFiniteSet(A), NEW T \in SUBSET SUBSET A, T # {}
  PROVE  \E B \in T : \A C \in T : C \subseteq B => C = B
<1>1. T \subseteq FiniteSubsetsOf(A)
  BY FS_Subset DEF FiniteSubsetsOf
<1>2. IsWellFoundedOn(StrictSubsetOrdering(A), FiniteSubsetsOf(A))
  BY FS_StrictSubsetOrderingWellFounded
<1>3. PICK B \in T : \A C \in T : ~(<<C, B>> \in StrictSubsetOrdering(A))
  BY <1>1, <1>2, WFMin
<1>4. ASSUME NEW C \in T, C \subseteq B, C # B PROVE FALSE
  <2>1. <<C, B>> \in StrictSubsetOrdering(A)
    BY <1>4 DEF StrictSubsetOrdering
  <2> QED BY <1>3, <2>1
<1> QED BY <1>4

\* The lowest comparator of a set.
LEMMA Lowest ==
  ASSUME NEW n \in Nat, NEW S \in SUBSET (1 .. n), S # {}
  PROVE  Min(S) \in S
<1>1. S \in SUBSET Nat
  OBVIOUS
<1>2. PICK m \in S : \A c \in S : m <= c
  BY <1>1, LeastNat
<1> QED BY <1>2 DEF Min

LEMMA Sizes ==
  /\ Last \in Nat /\ Last # 0 /\ Handler = Last + 1 /\ Handler \in Program /\ Program = 1 .. Last + 1
  /\ 0 \notin Program /\ 1 \in Program /\ Code \subseteq Program /\ High \subseteq Program
  /\ Comparators \in Nat /\ Dwts \in Nat /\ MaxReads \in Nat
  /\ 0 \notin Cs
BY LoopAssumption, UnitAssumption DEF Handler, Program, Cs

\* A breakpoint that is changed is one.
LEMMA PointSet ==
  ASSUME NEW p \in Points, NEW c \in Cs \cup {0, 1}
  PROVE  /\ [p EXCEPT !.set = c] \in Points /\ [p EXCEPT !.set = c].set = c
         /\ [p EXCEPT !.set = c].type = p.type /\ [p EXCEPT !.set = c].orig = p.orig
BY Sizes DEF Points, Cs

LEMMA PointOrig ==
  ASSUME NEW p \in Points, NEW m \in {"code", "own", "bkpt"}
  PROVE  /\ [p EXCEPT !.orig = m] \in Points /\ [p EXCEPT !.orig = m].set = p.set
         /\ [p EXCEPT !.orig = m].type = p.type /\ [p EXCEPT !.orig = m].orig = m
BY DEF Points

-----------------------------------------------------------------------------
(* Worlds: what an operation on the breakpoints leaves. *)

LEMMA WriteEffect ==
  ASSUME NEW x \in Worlds, NEW c \in Cs, NEW y \in WriteComparator(x, c)
  PROVE  /\ y \in Worlds
         /\ y.bps = x.bps /\ y.used = x.used /\ y.fpcr = x.fpcr /\ y.mem = x.mem
         /\ y.enabled = x.enabled /\ y.on = x.on
         /\ y.comp # x.comp => y.comp = [x.comp EXCEPT ![c] = x.fpcr[c]]
         /\ "unit" \notin env.fails => y.comp = [x.comp EXCEPT ![c] = x.fpcr[c]]
BY DEF WriteComparator, Worlds, IfFails

LEMMA EnableEffect ==
  ASSUME NEW x \in Worlds, NEW r \in EnableFpb(x)
  PROVE  /\ r.b \in Worlds /\ r.ok \in BOOLEAN
         /\ r.b.bps = x.bps /\ r.b.used = x.used /\ r.b.fpcr = x.fpcr /\ r.b.mem = x.mem
         /\ r.b.comp = x.comp
         /\ x.enabled => r.b = x /\ r.ok
         /\ "unit" \notin env.fails => r.ok
         /\ r.ok => r.b.enabled /\ (x.enabled \/ r.b.on)
<1>1. CASE x.enabled
  <2>1. r = Ok(x)
    BY <1>1 DEF EnableFpb
  <2> QED BY <1>1, <2>1 DEF Ok
<1>2. CASE ~x.enabled
  <2> DEFINE y == [x EXCEPT !.enabled = TRUE, !.on = TRUE]
             z == [x EXCEPT !.on = TRUE]
  <2>1. /\ y \in Worlds /\ y.bps = x.bps /\ y.used = x.used /\ y.fpcr = x.fpcr /\ y.mem = x.mem
        /\ y.comp = x.comp /\ y.enabled /\ y.on
    BY DEF Worlds
  <2>2. /\ z \in Worlds /\ z.bps = x.bps /\ z.used = x.used /\ z.fpcr = x.fpcr /\ z.mem = x.mem
        /\ z.comp = x.comp
    BY DEF Worlds
  <2>3. r = Ok(y) \/ ("unit" \in env.fails /\ (r = Bad(x) \/ r = Bad(z)))
    BY <1>2, Zenon DEF EnableFpb, IfFails
  <2> HIDE DEF y, z
  <2>4. CASE r = Ok(y)
    <3>1. r.b = y /\ r.ok = TRUE
      BY <2>4 DEF Ok
    <3> QED BY <1>2, <2>1, <3>1
  <2>5. CASE "unit" \in env.fails /\ \E u \in {x, z} : r = Bad(u)
    <3>1. PICK u \in {x, z} : r.b = u /\ r.ok = FALSE
      BY <2>5 DEF Bad
    <3> QED BY <1>2, <2>2, <2>5, <3>1
  <2> QED BY <2>3, <2>4, <2>5
<1> QED BY <1>1, <1>2

\* y is x where a has taken comparator c.
Took(x, y, a, c) ==
  /\ y \in Worlds /\ ~x.used[c]
  /\ y.bps = [x.bps EXCEPT ![a] = [x.bps[a] EXCEPT !.set = c]]
  /\ y.used = [x.used EXCEPT ![c] = TRUE] /\ y.fpcr = [x.fpcr EXCEPT ![c] = a]
  /\ y.mem = x.mem
  /\ x.enabled => y.enabled /\ y.on = x.on
  /\ "unit" \notin env.fails => /\ y.comp = [x.comp EXCEPT ![c] = a] /\ y.enabled
                                /\ x.enabled \/ y.on

LEMMA SetHardEffect ==
  ASSUME NEW x \in Worlds, NEW a \in Program, NEW r \in SetHard(x, a)
  PROVE  \/ r = Bad(x) /\ \A c \in Cs : x.used[c]
         \/ a \in High /\ \E c \in Cs : r = Bad([x EXCEPT !.bps[a].set = c])
         \/ /\ a \notin High /\ r.ok \in BOOLEAN /\ \E c \in Cs : Took(x, r.b, a, c)
            /\ x.enabled \/ "unit" \notin env.fails => r.ok
<1> DEFINE free == {c \in Cs : ~x.used[c]}
           c == Min(free)
           x1 == [x EXCEPT !.bps[a].set = c, !.used[c] = TRUE, !.fpcr[c] = a]
<1>1. r \in CASE free = {} -> {Bad(x)}
              [] free # {} /\ a \in High -> {Bad([x EXCEPT !.bps[a].set = c])}
              [] OTHER -> UNION {EnableFpb(x2) : x2 \in WriteComparator(x1, c)}
  BY Zenon DEF SetHard, Cs
<1>2. CASE free = {}
  <2>1. r = Bad(x)
    BY <1>1, <1>2
  <2> QED BY <1>2, <2>1
<1>3. CASE free # {}
  <2>1. c \in free /\ c \in Cs /\ ~x.used[c]
    <3>1. free \in SUBSET (1 .. Comparators)
      BY DEF Cs
    <3>2. Comparators \in Nat
      BY Sizes
    <3> HIDE DEF free
    <3>3. c \in free
      BY <1>3, <3>1, <3>2, Lowest
    <3> QED BY <3>3 DEF free
  <2> HIDE DEF c
  <2>2. CASE a \in High
    <3>1. r \in {Bad([x EXCEPT !.bps[a].set = c])}
      <4> HIDE DEF free
      <4> QED BY <1>1, <1>3, <2>2
    <3> QED BY <2>1, <2>2, <3>1
  <2>3. CASE a \notin High
    <3>1. r \in UNION {EnableFpb(x2) : x2 \in WriteComparator(x1, c)}
      <4> HIDE DEF free
      <4> QED BY <1>1, <1>3, <2>3
    <3>2. PICK x2 \in WriteComparator(x1, c) : r \in EnableFpb(x2)
      BY <3>1, Zenon
    <3>3. /\ x1.bps = [x.bps EXCEPT ![a] = [x.bps[a] EXCEPT !.set = c]]
          /\ x1.used = [x.used EXCEPT ![c] = TRUE] /\ x1.fpcr = [x.fpcr EXCEPT ![c] = a]
          /\ x1.mem = x.mem /\ x1.enabled = x.enabled /\ x1.on = x.on /\ x1.comp = x.comp
      BY DEF Worlds
    <3>4. x1 \in Worlds
      <4>1. [x.bps[a] EXCEPT !.set = c] \in Points
        BY <2>1, PointSet DEF Worlds
      <4> QED BY <2>1, <4>1 DEF Worlds
    <3>5. x1.fpcr[c] = a
      BY <2>1, <3>3 DEF Worlds
    <3> HIDE DEF x1, free
    <3>6. /\ x2 \in Worlds
          /\ x2.bps = x1.bps /\ x2.used = x1.used /\ x2.fpcr = x1.fpcr /\ x2.mem = x1.mem
          /\ x2.enabled = x1.enabled /\ x2.on = x1.on
          /\ "unit" \notin env.fails => x2.comp = [x1.comp EXCEPT ![c] = a]
      BY <2>1, <3>2, <3>4, <3>5, WriteEffect
    <3>7. /\ r.b \in Worlds /\ r.ok \in BOOLEAN
          /\ r.b.bps = x2.bps /\ r.b.used = x2.used /\ r.b.fpcr = x2.fpcr /\ r.b.mem = x2.mem
          /\ r.b.comp = x2.comp
          /\ x2.enabled => r.b = x2 /\ r.ok
          /\ "unit" \notin env.fails => r.ok
          /\ r.ok => r.b.enabled /\ (x2.enabled \/ r.b.on)
      BY <3>2, <3>6, EnableEffect
    <3>8. Took(x, r.b, a, c)
      BY <2>1, <3>3, <3>6, <3>7 DEF Took
    <3> QED BY <2>1, <2>3, <3>3, <3>6, <3>7, <3>8
  <2> QED BY <2>2, <2>3
<1> QED BY <1>2, <1>3

\* y is x with an instruction at a replaced, or on the way to it.
LEMMA SetSoftEffect ==
  ASSUME NEW x \in Worlds, NEW a \in Program, NEW r \in SetSoft(x, a)
  PROVE  /\ r.b \in Worlds /\ r.ok \in BOOLEAN
         /\ r.b.used = x.used /\ r.b.fpcr = x.fpcr /\ r.b.comp = x.comp
         /\ r.b.enabled = x.enabled /\ r.b.on = x.on
         /\ \A o \in Program \ {a} : r.b.bps[o] = x.bps[o] /\ r.b.mem[o] = x.mem[o]
         /\ r.b.bps[a].type = x.bps[a].type
         /\ ~r.ok => r.b.bps[a].set = x.bps[a].set
         /\ "memory" \notin env.fails => r.ok
         /\ r.ok => /\ r.b.bps[a].set = 1 /\ r.b.bps[a].orig = x.mem[a] /\ r.b.mem[a] = "bkpt"
<1> DEFINE x1 == [x EXCEPT !.bps[a].orig = x.mem[a]]
           x2 == [x1 EXCEPT !.mem[a] = "bkpt"]
           x3 == [x2 EXCEPT !.bps[a].set = 1]
           Alike(y) == /\ y \in Worlds /\ y.used = x.used /\ y.fpcr = x.fpcr /\ y.comp = x.comp
                       /\ y.enabled = x.enabled /\ y.on = x.on
                       /\ \A o \in Program \ {a} : y.bps[o] = x.bps[o] /\ y.mem[o] = x.mem[o]
                       /\ y.bps[a].type = x.bps[a].type
<1>1. r = Ok(x3) \/ ("memory" \in env.fails /\ \E y \in {x, x1, x2} : r = Bad(y))
  BY Zenon DEF SetSoft, IfFails
<1>2. Alike(x)
  OBVIOUS
<1>3. Alike(x1) /\ x1.bps[a].set = x.bps[a].set /\ x1.bps[a].orig = x.mem[a] /\ x1.mem = x.mem
  <2> DEFINE p == [x.bps[a] EXCEPT !.orig = x.mem[a]]
  <2>1. p \in Points /\ p.set = x.bps[a].set /\ p.type = x.bps[a].type /\ p.orig = x.mem[a]
    <3>1. x.bps[a] \in Points /\ x.mem[a] \in {"code", "own", "bkpt"}
      BY DEF Worlds
    <3> QED BY <3>1, PointOrig
  <2>2. x1 = [x EXCEPT !.bps = [x.bps EXCEPT ![a] = p]]
    BY DEF Worlds
  <2> HIDE DEF p, x1
  <2> QED BY <2>1, <2>2 DEF Worlds
<1> HIDE DEF x1
<1>4. Alike(x2) /\ x2.bps = x1.bps /\ x2.mem[a] = "bkpt"
  BY <1>3 DEF Worlds
<1> HIDE DEF x2
<1>5. Alike(x3) /\ x3.bps[a].set = 1 /\ x3.bps[a].orig = x.mem[a] /\ x3.mem[a] = "bkpt"
  <2> DEFINE p == [x2.bps[a] EXCEPT !.set = 1]
  <2>1. p \in Points /\ p.set = 1 /\ p.type = x2.bps[a].type /\ p.orig = x2.bps[a].orig
    <3>1. x2.bps[a] \in Points
      BY <1>4 DEF Worlds
    <3> QED BY <3>1, PointSet
  <2>2. x3 = [x2 EXCEPT !.bps = [x2.bps EXCEPT ![a] = p]]
    BY <1>4 DEF Worlds
  <2> HIDE DEF p, x3
  <2> QED BY <1>3, <1>4, <2>1, <2>2 DEF Worlds
<1> HIDE DEF x3
<1>6. CASE r = Ok(x3)
  <2>1. r.b = x3 /\ r.ok = TRUE
    BY <1>6 DEF Ok
  <2> QED BY <1>5, <2>1
<1>7. CASE "memory" \in env.fails /\ \E y \in {x, x1, x2} : r = Bad(y)
  <2>1. PICK y \in {x, x1, x2} : r.b = y /\ r.ok = FALSE
    BY <1>7 DEF Bad
  <2> QED BY <1>2, <1>3, <1>4, <1>7, <2>1
<1> QED BY <1>1, <1>6, <1>7

(* What is said of a world. *)

Fitted(x, a) == x.bps[a].type = "hard" /\ x.bps[a].set # 0

\* A hardware breakpoint is where a comparator can hold it; what is not listed is not set.
Sorted(x) ==
  \A a \in Program : /\ x.bps[a].type = "hard" => a \notin High /\ x.bps[a].set \in Cs \cup {0}
                     /\ x.bps[a].type = "none" => x.bps[a] = NoBreak

\* Comparators in use and hardware breakpoints that are set know each other.
Owned(x) ==
  /\ \A a \in Program : Fitted(x, a) => /\ x.bps[a].set \in Cs /\ x.used[x.bps[a].set]
                                        /\ x.fpcr[x.bps[a].set] = a
  /\ \A c \in Cs : x.used[c] => /\ x.fpcr[c] \in Program /\ Fitted(x, x.fpcr[c])
                                /\ x.bps[x.fpcr[c]].set = c
  /\ \A c \in Cs : ~x.used[c] => x.fpcr[c] = 0

\* The unit is as the host believes it is.
Synced(x) == x.on = x.enabled /\ x.comp = x.fpcr
Enabled(x) == \A a \in Program : Fitted(x, a) => x.enabled

\* Memory is the program, but for the software breakpoints that are set.
Original(a) == IF a \in env.own THEN "own" ELSE "code"
Clean(x) ==
  \A a \in Program :
    IF x.bps[a].type # "hard" /\ x.bps[a].set # 0
    THEN x.bps[a].orig = Original(a) /\ x.mem[a] = "bkpt"
    ELSE x.mem[a] = Original(a)

\* What every operation keeps, where the accesses it makes do not fail.
Keeps(x, y) ==
  /\ y \in Worlds
  /\ x.enabled => y.enabled
  /\ Sorted(x) => Sorted(y)
  /\ Sorted(x) /\ Owned(x) /\ (x.enabled \/ "unit" \notin env.fails) => Owned(y)
  /\ "unit" \notin env.fails => /\ Synced(x) => Synced(y)
                                /\ Sorted(x) /\ Enabled(x) => Enabled(y)
  /\ "memory" \notin env.fails /\ Sorted(x) /\ Clean(x) => Clean(y)

\* Nothing but the breakpoint at a has changed.
Elsewhere(x, y, a) == \A o \in Program \ {a} : y.bps[o] = x.bps[o] /\ y.mem[o] = x.mem[o]

LEMMA KeepsItself == ASSUME NEW x \in Worlds PROVE Keeps(x, x)
BY DEF Keeps

LEMMA KeepsThen ==
  ASSUME NEW x, NEW y, NEW z, Keeps(x, y), Keeps(y, z)
  PROVE  Keeps(x, z)
BY DEF Keeps

\* A comparator that is taken.
LEMMA TookKeeps ==
  ASSUME NEW x \in Worlds, NEW a \in Program, a \notin High, NEW c \in Cs, NEW y, Took(x, y, a, c),
         x.bps[a].type = "hard", x.bps[a].set = 0
  PROVE  Keeps(x, y) /\ Elsewhere(x, y, a) /\ y.bps[a].type = "hard" /\ y.bps[a].set = c
<1>0. y.bps[a] = [x.bps[a] EXCEPT !.set = c] /\ x.bps[a] \in Points /\ c # 0
  BY Sizes, ZenonT(40) DEF Took, Worlds
<1>1. y.bps[a].type = "hard" /\ y.bps[a].set = c /\ y.bps[a].orig = x.bps[a].orig
  BY <1>0, PointSet
<1>2. Elsewhere(x, y, a)
  BY DEF Elsewhere, Took, Worlds
<1>3. Sorted(x) => Sorted(y)
  BY <1>1, <1>2, Sizes DEF Sorted, Elsewhere
<1>4. /\ \A o \in Program \ {a} : Fitted(y, o) <=> Fitted(x, o)
      /\ Fitted(y, a) /\ ~Fitted(x, a)
  BY <1>0, <1>1, <1>2 DEF Fitted, Elsewhere
<1>5. /\ \A d \in Cs : y.used[d] = (IF d = c THEN TRUE ELSE x.used[d])
      /\ \A d \in Cs : y.fpcr[d] = (IF d = c THEN a ELSE x.fpcr[d])
  BY DEF Took, Worlds
<1>6. Owned(x) => Owned(y)
  <2> SUFFICES ASSUME Owned(x) PROVE Owned(y)
    OBVIOUS
  <2>1. ASSUME NEW o \in Program, Fitted(y, o)
        PROVE  y.bps[o].set \in Cs /\ y.used[y.bps[o].set] /\ y.fpcr[y.bps[o].set] = o
    <3>1. CASE o = a
      BY <1>1, <1>5, <3>1
    <3>2. CASE o # a
      <4>1. Fitted(x, o) /\ y.bps[o] = x.bps[o]
        BY <1>2, <1>4, <2>1, <3>2 DEF Elsewhere
      <4>2. x.bps[o].set \in Cs /\ x.used[x.bps[o].set] /\ x.fpcr[x.bps[o].set] = o
        BY <4>1 DEF Owned
      <4>3. ~x.used[c]
        BY DEF Took
      <4> QED BY <1>5, <4>1, <4>2, <4>3
    <3> QED BY <3>1, <3>2
  <2>2. ASSUME NEW d \in Cs, y.used[d]
        PROVE  y.fpcr[d] \in Program /\ Fitted(y, y.fpcr[d]) /\ y.bps[y.fpcr[d]].set = d
    <3>1. CASE d = c
      BY <1>1, <1>4, <1>5, <3>1
    <3>2. CASE d # c
      <4>1. x.fpcr[d] \in Program /\ Fitted(x, x.fpcr[d]) /\ x.bps[x.fpcr[d]].set = d
        BY <1>5, <2>2, <3>2 DEF Owned
      <4>2. x.fpcr[d] # a
        BY <1>4, <4>1
      <4> QED BY <1>2, <1>4, <1>5, <3>2, <4>1, <4>2 DEF Elsewhere
    <3> QED BY <3>1, <3>2
  <2>3. ASSUME NEW d \in Cs, ~y.used[d] PROVE y.fpcr[d] = 0
    BY <1>5, <2>3 DEF Owned
  <2> QED BY <2>1, <2>2, <2>3 DEF Owned
<1>7. "unit" \notin env.fails => (Synced(x) => Synced(y)) /\ Enabled(y)
  BY DEF Took, Synced, Enabled, Worlds
<1>8. Clean(x) => Clean(y)
  BY <1>1, <1>2 DEF Clean, Elsewhere, Took
<1>9. y \in Worlds /\ (x.enabled => y.enabled)
  BY DEF Took
<1> QED BY <1>1, <1>2, <1>3, <1>6, <1>7, <1>8, <1>9 DEF Keeps

\* Nothing but a breakpoint that is in no comparator, before and after, has changed.
LEMMA SoftKeeps ==
  ASSUME NEW x \in Worlds, NEW y \in Worlds, NEW a \in Program, Elsewhere(x, y, a),
         y.used = x.used, y.fpcr = x.fpcr, y.comp = x.comp, y.enabled = x.enabled, y.on = x.on,
         ~Fitted(x, a), ~Fitted(y, a),
         Sorted(x) => /\ y.bps[a].type = "hard" => a \notin High /\ y.bps[a].set \in Cs \cup {0}
                      /\ y.bps[a].type = "none" => y.bps[a] = NoBreak,
         "memory" \notin env.fails /\ Sorted(x) /\ Clean(x) =>
            IF y.bps[a].type # "hard" /\ y.bps[a].set # 0
            THEN y.bps[a].orig = Original(a) /\ y.mem[a] = "bkpt"
            ELSE y.mem[a] = Original(a)
  PROVE  Keeps(x, y)
<1>1. \A o \in Program : Fitted(y, o) <=> Fitted(x, o)
  BY DEF Fitted, Elsewhere
<1>2. Sorted(x) => Sorted(y)
  BY DEF Sorted, Elsewhere
<1>3. \A o \in Program : Fitted(x, o) => o # a /\ y.bps[o] = x.bps[o]
  BY DEF Elsewhere
<1>4. Owned(x) => Owned(y)
  BY <1>1, <1>3 DEF Owned
<1>5. (Synced(x) => Synced(y)) /\ (Enabled(x) => Enabled(y))
  BY <1>1 DEF Synced, Enabled
<1>6. "memory" \notin env.fails /\ Sorted(x) /\ Clean(x) => Clean(y)
  BY DEF Clean, Elsewhere
<1> QED BY <1>2, <1>4, <1>5, <1>6 DEF Keeps

LEMMA SetEffect ==
  ASSUME NEW x \in Worlds, Sorted(x), NEW a \in Listed(x), NEW r \in SetBreakpoint(x, a)
  PROVE  /\ Keeps(x, r.b) /\ Elsewhere(x, r.b, a) /\ r.b.bps[a].type = x.bps[a].type
         /\ r.ok \in BOOLEAN
         /\ x.bps[a].set # 0 => r.b = x /\ r.ok
         /\ r.ok => r.b.bps[a].set # 0
         /\ env.fails = {} /\ ~r.ok => r.b = x /\ \A c \in Cs : x.used[c]
         /\ env.fails = {} /\ ~r.ok => x.bps[a].type = "hard"
         /\ x.bps[a].type # "hard" => r.b.used = x.used
<1>0. a \in Program /\ x.bps[a].type # "none" /\ x.bps[a] \in Points
  BY DEF Listed, Worlds
<1>1. CASE x.bps[a].set # 0
  <2>1. r = Ok(x)
    BY <1>1 DEF SetBreakpoint
  <2>2. r.b = x /\ r.ok = TRUE
    BY <2>1 DEF Ok
  <2> QED BY <1>1, <2>2, KeepsItself DEF Elsewhere
<1>2. CASE x.bps[a].set = 0 /\ x.bps[a].type = "hard"
  <2>1. r \in SetHard(x, a)
    BY <1>2 DEF SetBreakpoint
  <2>2. a \notin High
    BY <1>0, <1>2 DEF Sorted
  <2>3. CASE r = Bad(x) /\ \A c \in Cs : x.used[c]
    <3>1. r.b = x /\ r.ok = FALSE
      BY <2>3 DEF Bad
    <3> QED BY <1>2, <2>3, <3>1, KeepsItself DEF Elsewhere
  <2>4. CASE /\ r.ok \in BOOLEAN /\ \E c \in Cs : Took(x, r.b, a, c)
             /\ x.enabled \/ "unit" \notin env.fails => r.ok
    <3>1. PICK c \in Cs : Took(x, r.b, a, c)
      BY <2>4
    <3>2. /\ Keeps(x, r.b) /\ Elsewhere(x, r.b, a) /\ r.b.bps[a].type = "hard"
          /\ r.b.bps[a].set = c
      BY <1>0, <1>2, <2>2, <3>1, TookKeeps
    <3> QED BY <1>2, <2>4, <3>2, Sizes
  <2> QED BY <1>0, <2>1, <2>2, <2>3, <2>4, SetHardEffect
<1>3. CASE x.bps[a].set = 0 /\ x.bps[a].type # "hard"
  <2>1. r \in SetSoft(x, a)
    BY <1>3 DEF SetBreakpoint
  <2>2. /\ r.b \in Worlds /\ r.ok \in BOOLEAN
        /\ r.b.used = x.used /\ r.b.fpcr = x.fpcr /\ r.b.comp = x.comp
        /\ r.b.enabled = x.enabled /\ r.b.on = x.on
        /\ \A o \in Program \ {a} : r.b.bps[o] = x.bps[o] /\ r.b.mem[o] = x.mem[o]
        /\ r.b.bps[a].type = x.bps[a].type
        /\ ~r.ok => r.b.bps[a].set = x.bps[a].set
        /\ "memory" \notin env.fails => r.ok
        /\ r.ok => /\ r.b.bps[a].set = 1 /\ r.b.bps[a].orig = x.mem[a] /\ r.b.mem[a] = "bkpt"
    BY <1>0, <2>1, SetSoftEffect
  <2>3. Elsewhere(x, r.b, a)
    BY <2>2 DEF Elsewhere
  <2>4. ~Fitted(x, a) /\ ~Fitted(r.b, a)
    BY <1>3, <2>2 DEF Fitted
  <2>5. Clean(x) => x.mem[a] = Original(a)
    BY <1>0, <1>3 DEF Clean
  <2>6. Keeps(x, r.b)
    BY <1>0, <1>3, <2>2, <2>3, <2>4, <2>5, SoftKeeps
  <2> QED BY <1>3, <2>2, <2>3, <2>6
<1> QED BY <1>1, <1>2, <1>3

\* A comparator that is given back.
Freed(x, a, c) == [x EXCEPT !.used[c] = FALSE, !.fpcr[c] = 0, !.bps[a].set = 0]

LEMMA FreedKeeps ==
  ASSUME NEW x \in Worlds, Sorted(x), NEW a \in Program, Fitted(x, a), NEW c, c = x.bps[a].set,
         NEW y \in WriteComparator(Freed(x, a, c), c)
  PROVE  /\ Keeps(x, y) /\ Elsewhere(x, y, a) /\ y.bps[a].type = "hard" /\ y.bps[a].set = 0
         /\ c \in Cs /\ ~y.used[c] /\ \A d \in Cs : y.used[d] => x.used[d]
<1> DEFINE u == Freed(x, a, c)
           p == [x.bps[a] EXCEPT !.set = 0]
<1>1. x.bps[a] \in Points /\ x.bps[a].type = "hard" /\ c # 0
  BY DEF Fitted, Worlds
<1>2. c \in Cs /\ a \notin High
  BY <1>1, Sizes DEF Sorted
<1>3. p \in Points /\ p.set = 0 /\ p.type = "hard" /\ p.orig = x.bps[a].orig
  BY <1>1, PointSet
<1>4. u = [x EXCEPT !.used = [x.used EXCEPT ![c] = FALSE], !.fpcr = [x.fpcr EXCEPT ![c] = 0],
                    !.bps = [x.bps EXCEPT ![a] = p]]
  BY DEF Worlds, Freed
<1>5. y \in WriteComparator(u, c)
  OBVIOUS
<1> HIDE DEF p, u
<1>6. /\ u \in Worlds
      /\ u.used = [x.used EXCEPT ![c] = FALSE] /\ u.fpcr = [x.fpcr EXCEPT ![c] = 0]
      /\ u.bps = [x.bps EXCEPT ![a] = p] /\ u.mem = x.mem /\ u.comp = x.comp
      /\ u.enabled = x.enabled /\ u.on = x.on
  BY <1>2, <1>3, <1>4, Sizes DEF Worlds
<1>7. /\ y \in Worlds
      /\ y.bps = u.bps /\ y.used = u.used /\ y.fpcr = u.fpcr /\ y.mem = u.mem
      /\ y.enabled = u.enabled /\ y.on = u.on
      /\ "unit" \notin env.fails => y.comp = [u.comp EXCEPT ![c] = u.fpcr[c]]
  <2>1. u \in Worlds /\ c \in Cs
    BY <1>2, <1>6
  <2> QED BY <1>5, <2>1, WriteEffect
<1>8. /\ y.bps[a] = p /\ \A o \in Program \ {a} : y.bps[o] = x.bps[o]
      /\ \A d \in Cs : y.used[d] = (IF d = c THEN FALSE ELSE x.used[d])
      /\ \A d \in Cs : y.fpcr[d] = (IF d = c THEN 0 ELSE x.fpcr[d])
  <2>1. x.bps \in [Program -> Points] /\ x.used \in [Cs -> BOOLEAN] /\ x.fpcr \in [Cs -> Program \cup {0}]
    BY DEF Worlds
  <2>2. y.bps = [x.bps EXCEPT ![a] = p] /\ y.used = [x.used EXCEPT ![c] = FALSE]
        /\ y.fpcr = [x.fpcr EXCEPT ![c] = 0]
    BY <1>6, <1>7
  <2>3. y.bps[a] = p /\ \A o \in Program \ {a} : y.bps[o] = x.bps[o]
    BY <2>1, <2>2
  <2>4. \A d \in Cs : y.used[d] = (IF d = c THEN FALSE ELSE x.used[d])
    BY <1>2, <2>1, <2>2
  <2>5. \A d \in Cs : y.fpcr[d] = (IF d = c THEN 0 ELSE x.fpcr[d])
    BY <1>2, <2>1, <2>2
  <2> QED BY <2>3, <2>4, <2>5
<1>9. /\ \A o \in Program \ {a} : Fitted(y, o) <=> Fitted(x, o)
      /\ ~Fitted(y, a)
  BY <1>3, <1>8 DEF Fitted
<1>10. Sorted(y)
  BY <1>2, <1>3, <1>8, Sizes DEF Sorted
<1>11. Owned(x) => Owned(y)
  <2> SUFFICES ASSUME Owned(x) PROVE Owned(y)
    OBVIOUS
  <2>1. x.used[c] /\ x.fpcr[c] = a
    BY DEF Owned
  <2>2. ASSUME NEW o \in Program, Fitted(y, o)
        PROVE  y.bps[o].set \in Cs /\ y.used[y.bps[o].set] /\ y.fpcr[y.bps[o].set] = o
    <3>1. o # a /\ Fitted(x, o) /\ y.bps[o] = x.bps[o]
      BY <1>8, <1>9, <2>2
    <3>2. x.bps[o].set \in Cs /\ x.used[x.bps[o].set] /\ x.fpcr[x.bps[o].set] = o
      BY <3>1 DEF Owned
    <3>3. x.bps[o].set # c
      BY <2>1, <3>1, <3>2
    <3> QED BY <1>8, <3>1, <3>2, <3>3, ZenonT(40)
  <2>3. ASSUME NEW d \in Cs, y.used[d]
        PROVE  y.fpcr[d] \in Program /\ Fitted(y, y.fpcr[d]) /\ y.bps[y.fpcr[d]].set = d
    <3>1. d # c /\ x.used[d] /\ y.fpcr[d] = x.fpcr[d]
      BY <1>8, <2>3
    <3>2. x.fpcr[d] \in Program /\ Fitted(x, x.fpcr[d]) /\ x.bps[x.fpcr[d]].set = d
      BY <3>1 DEF Owned
    <3>3. x.fpcr[d] # a
      BY <3>1, <3>2
    <3> QED BY <1>8, <1>9, <3>1, <3>2, <3>3
  <2>4. ASSUME NEW d \in Cs, ~y.used[d] PROVE y.fpcr[d] = 0
    BY <1>8, <2>4, ZenonT(40) DEF Owned
  <2> QED BY <2>2, <2>3, <2>4 DEF Owned
<1>12. "unit" \notin env.fails => (Synced(x) => Synced(y))
  <2>1. u.fpcr[c] = 0
    BY <1>2, <1>6 DEF Worlds
  <2> QED BY <1>6, <1>7, <2>1 DEF Synced
<1>13. Enabled(x) => Enabled(y)
  BY <1>6, <1>7, <1>9 DEF Enabled
<1>14. Clean(x) => Clean(y)
  BY <1>1, <1>3, <1>6, <1>7, <1>8 DEF Clean
<1>15. Elsewhere(x, y, a)
  BY <1>6, <1>7, <1>8 DEF Elsewhere
<1> QED BY <1>2, <1>3, <1>6, <1>7, <1>8, <1>10, <1>11, <1>12, <1>13, <1>14, <1>15 DEF Keeps

LEMMA UnsetEffect ==
  ASSUME NEW x \in Worlds, Sorted(x), NEW a \in Listed(x), NEW y \in UnsetBreakpoint(x, a)
  PROVE  /\ Keeps(x, y) /\ Elsewhere(x, y, a) /\ y.bps[a].type = x.bps[a].type
         /\ "memory" \notin env.fails => y.bps[a].set = 0
         /\ y.bps[a].type = "hard" => y.bps[a].set = 0
         /\ Fitted(x, a) => \E c \in Cs : ~y.used[c]
         /\ \A d \in Cs : y.used[d] => x.used[d]
<1>0. a \in Program /\ x.bps[a].type # "none" /\ x.bps[a] \in Points
  BY DEF Listed, Worlds
<1> DEFINE c == x.bps[a].set
           restored == [x EXCEPT !.mem[a] = x.bps[a].orig]
           unset == [restored EXCEPT !.bps[a].set = 0]
<1>1. CASE c = 0
  <2>1. y = x
    BY <1>1 DEF UnsetBreakpoint
  <2> QED BY <1>1, <2>1, KeepsItself DEF Elsewhere, Fitted
<1>2. CASE c # 0 /\ x.bps[a].type = "hard"
  <2>1. y \in WriteComparator(Freed(x, a, c), c)
    BY <1>2, Zenon DEF UnsetBreakpoint, Freed
  <2>2. Fitted(x, a)
    BY <1>2 DEF Fitted
  <2>3. /\ Keeps(x, y) /\ Elsewhere(x, y, a) /\ y.bps[a].type = "hard" /\ y.bps[a].set = 0
        /\ c \in Cs /\ ~y.used[c] /\ \A d \in Cs : y.used[d] => x.used[d]
    <3> HIDE DEF c
    <3>1. c = x.bps[a].set
      BY DEF c
    <3> QED BY <1>0, <2>1, <2>2, <3>1, FreedKeeps
  <2> QED BY <1>2, <2>3
<1>3. CASE c # 0 /\ x.bps[a].type # "hard"
  <2>1. y = unset \/ ("memory" \in env.fails /\ (y = x \/ y = restored))
    BY <1>3, Zenon DEF UnsetBreakpoint, IfFails
  <2>2. x.bps[a].orig \in {"code", "own", "bkpt"}
    BY <1>0 DEF Points
  <2>3. /\ restored \in Worlds /\ restored.bps = x.bps /\ restored.used = x.used
        /\ restored.fpcr = x.fpcr /\ restored.comp = x.comp /\ restored.enabled = x.enabled
        /\ restored.on = x.on /\ restored.mem = [x.mem EXCEPT ![a] = x.bps[a].orig]
    BY <1>0, <2>2 DEF Worlds
  <2> DEFINE p == [x.bps[a] EXCEPT !.set = 0]
  <2>4. p \in Points /\ p.set = 0 /\ p.type = x.bps[a].type /\ p.orig = x.bps[a].orig
    BY <1>0, PointSet
  <2>5. unset = [restored EXCEPT !.bps = [x.bps EXCEPT ![a] = p]]
    BY <2>3 DEF Worlds
  <2> HIDE DEF restored, unset, p
  <2>6. /\ unset \in Worlds /\ unset.bps = [x.bps EXCEPT ![a] = p] /\ unset.used = x.used
        /\ unset.fpcr = x.fpcr /\ unset.comp = x.comp /\ unset.enabled = x.enabled
        /\ unset.on = x.on /\ unset.mem = [x.mem EXCEPT ![a] = x.bps[a].orig]
    BY <1>0, <2>3, <2>4, <2>5 DEF Worlds
  <2>7. /\ unset.bps[a] = p /\ unset.mem[a] = x.bps[a].orig
        /\ Elsewhere(x, unset, a)
    BY <1>0, <2>6 DEF Worlds, Elsewhere
  <2>8. ~Fitted(x, a) /\ ~Fitted(unset, a)
    BY <1>3, <2>4, <2>7 DEF Fitted
  <2>9. CASE y = unset
    <3>1. Clean(x) => x.bps[a].orig = Original(a)
      BY <1>0, <1>3 DEF Clean
    <3>2. Keeps(x, unset)
      BY <1>0, <1>3, <2>4, <2>6, <2>7, <2>8, <3>1, SoftKeeps
    <3> QED BY <1>3, <2>4, <2>6, <2>7, <2>8, <2>9, <3>2
  <2>10. CASE "memory" \in env.fails /\ (y = x \/ y = restored)
    <3>1. /\ y \in Worlds /\ y.bps = x.bps /\ y.used = x.used /\ y.fpcr = x.fpcr /\ y.comp = x.comp
          /\ y.enabled = x.enabled /\ y.on = x.on /\ Elsewhere(x, y, a)
      BY <1>0, <2>3, <2>10 DEF Elsewhere, Worlds
    <3>2. ~Fitted(y, a)
      BY <2>8, <3>1 DEF Fitted
    <3>3. Keeps(x, y)
      BY <1>0, <1>3, <2>8, <2>10, <3>1, <3>2, SoftKeeps
    <3> QED BY <1>3, <2>8, <2>10, <3>1, <3>3
  <2> QED BY <2>1, <2>9, <2>10
<1> QED BY <1>1, <1>2, <1>3

\* A breakpoint that is forgotten: it is in no comparator.
LEMMA DropEffect ==
  ASSUME NEW x \in Worlds, NEW a \in Program
  PROVE  /\ Drop(x, a) \in Worlds /\ Drop(x, a).bps = [x.bps EXCEPT ![a] = NoBreak]
         /\ Drop(x, a).bps[a] = NoBreak /\ Elsewhere(x, Drop(x, a), a)
         /\ Drop(x, a).used = x.used /\ Drop(x, a).fpcr = x.fpcr /\ Drop(x, a).comp = x.comp
         /\ Drop(x, a).enabled = x.enabled /\ Drop(x, a).on = x.on /\ Drop(x, a).mem = x.mem
         /\ ~Fitted(Drop(x, a), a)
<1>1. NoBreak \in Points /\ NoBreak.type = "none"
  BY Sizes DEF NoBreak, Points
<1> QED BY <1>1 DEF Drop, Worlds, Elsewhere, Fitted

LEMMA RemoveEffect ==
  ASSUME NEW x \in Worlds, Sorted(x), NEW a \in Listed(x), NEW y \in RemoveBreakpoint(x, a)
  PROVE  /\ Keeps(x, y) /\ Elsewhere(x, y, a) /\ y.bps[a] = NoBreak
         /\ Listed(y) = Listed(x) \ {a}
         /\ Fitted(x, a) => \E c \in Cs : ~y.used[c]
         /\ \A d \in Cs : y.used[d] => x.used[d]
<1>0. a \in Program
  BY DEF Listed
<1>1. PICK u \in UnsetBreakpoint(x, a) : y = Drop(u, a)
  BY DEF RemoveBreakpoint
<1>2. /\ Keeps(x, u) /\ Elsewhere(x, u, a) /\ u.bps[a].type = x.bps[a].type
      /\ "memory" \notin env.fails => u.bps[a].set = 0
      /\ u.bps[a].type = "hard" => u.bps[a].set = 0
      /\ Fitted(x, a) => \E c \in Cs : ~u.used[c]
      /\ \A d \in Cs : u.used[d] => x.used[d]
  BY <1>1, UnsetEffect
<1>3. u \in Worlds
  BY <1>2 DEF Keeps
<1>4. /\ y \in Worlds /\ y.bps = [u.bps EXCEPT ![a] = NoBreak]
      /\ y.bps[a] = NoBreak /\ Elsewhere(u, y, a)
      /\ y.used = u.used /\ y.fpcr = u.fpcr /\ y.comp = u.comp
      /\ y.enabled = u.enabled /\ y.on = u.on /\ y.mem = u.mem
      /\ ~Fitted(y, a)
  BY <1>0, <1>1, <1>3, DropEffect
<1>5. NoBreak.type = "none" /\ NoBreak.set = 0
  BY DEF NoBreak
<1>6. ~Fitted(u, a)
  BY <1>2 DEF Fitted
<1>7. "memory" \notin env.fails /\ Clean(u) => y.mem[a] = Original(a)
  BY <1>0, <1>2, <1>4 DEF Clean
<1>8. Keeps(u, y)
  BY <1>0, <1>3, <1>4, <1>5, <1>6, <1>7, SoftKeeps
<1>9. Keeps(x, y)
  BY <1>2, <1>8, KeepsThen
<1>10. Elsewhere(x, y, a)
  BY <1>2, <1>4 DEF Elsewhere
<1>11. Listed(y) = Listed(x) \ {a}
  BY <1>0, <1>4, <1>5, <1>10 DEF Listed, Elsewhere
<1> QED BY <1>2, <1>4, <1>9, <1>10, <1>11

LEMMA AddEffect ==
  ASSUME NEW x \in Worlds, Sorted(x), NEW a \in Program, NEW type \in {"hard", "soft"},
         NEW r \in AddBreakpoint(x, a, type)
  PROVE  /\ r.ok \in BOOLEAN /\ Keeps(x, r.b) /\ Elsewhere(x, r.b, a)
         /\ r.ok => /\ a \notin Listed(x) /\ Listed(r.b) = Listed(x) \cup {a}
                    /\ r.b.bps[a].type = type /\ r.b.bps[a].set # 0
         /\ ~r.ok => r.b.bps = x.bps
<1>1. CASE a \in Listed(x)
  <2>1. r = Bad(x)
    BY <1>1 DEF AddBreakpoint
  <2>2. r.b = x /\ r.ok = FALSE
    BY <2>1 DEF Bad
  <2> QED BY <2>2, KeepsItself DEF Elsewhere
<1>2. CASE a \notin Listed(x)
  <2> DEFINE p == [NoBreak EXCEPT !.type = type]
             x1 == [x EXCEPT !.bps[a] = p]
  <2>1. PICK s \in SetBreakpoint(x1, a) : r = IF s.ok THEN s ELSE Bad(Drop(s.b, a))
    BY <1>2, Zenon DEF AddBreakpoint
  <2>2. p \in Points /\ p.type = type /\ p.set = 0 /\ p.orig = "code"
    BY Sizes DEF NoBreak, Points
  <2>3. x.bps[a] = NoBreak /\ x.bps[a].type = "none"
    BY <1>2 DEF Listed, Sorted
  <2>4. x.bps[a].set = 0
    BY <2>3 DEF NoBreak
  <2>5. x1 = [x EXCEPT !.bps = [x.bps EXCEPT ![a] = p]]
    BY DEF Worlds
  <2> HIDE DEF p, x1
  <2>6. /\ x1 \in Worlds /\ x1.bps = [x.bps EXCEPT ![a] = p] /\ x1.used = x.used
        /\ x1.fpcr = x.fpcr /\ x1.comp = x.comp /\ x1.enabled = x.enabled /\ x1.on = x.on
        /\ x1.mem = x.mem
    BY <2>2, <2>5 DEF Worlds
  <2>7. x1.bps[a] = p /\ Elsewhere(x, x1, a) /\ ~Fitted(x, a) /\ ~Fitted(x1, a)
    BY <2>2, <2>4, <2>6 DEF Worlds, Elsewhere, Fitted
  <2>8. Clean(x) => x.mem[a] = Original(a)
    BY <2>4 DEF Clean
  <2>9. a \in Listed(x1) /\ Listed(x1) = Listed(x) \cup {a}
    BY <2>2, <2>7 DEF Listed, Elsewhere
  <2>10. ASSUME NEW u, u \in Worlds, Elsewhere(x1, u, a)
         PROVE  /\ Elsewhere(x, Drop(u, a), a) /\ Drop(u, a).bps = x.bps /\ Drop(u, a) \in Worlds
    <3>1. /\ Drop(u, a) \in Worlds /\ Drop(u, a).bps[a] = NoBreak /\ Elsewhere(u, Drop(u, a), a)
      BY <2>10, DropEffect
    <3> DEFINE y == Drop(u, a)
    <3> HIDE DEF y
    <3>2. Elsewhere(x, y, a)
      BY <2>7, <2>10, <3>1 DEF Elsewhere, y
    <3>3. y.bps = x.bps
      <4>1. \A o \in Program : y.bps[o] = x.bps[o]
        BY <2>3, <3>1, <3>2 DEF y, Elsewhere
      <4>2. y.bps \in [Program -> Points] /\ x.bps \in [Program -> Points]
        BY <3>1 DEF y, Worlds
      <4> QED BY <4>1, <4>2
    <3> QED BY <3>1, <3>2, <3>3 DEF y
  <2>11. ASSUME NEW u, u \in Worlds, Elsewhere(x1, u, a),
                u.used = x1.used, u.fpcr = x1.fpcr, u.comp = x1.comp, u.enabled = x1.enabled,
                u.on = x1.on, "memory" \in env.fails \/ u.mem = x1.mem
         PROVE  Keeps(x, Drop(u, a))
    <3> DEFINE y == Drop(u, a)
    <3>1. /\ y \in Worlds /\ Elsewhere(x, y, a) /\ y.bps = x.bps /\ y.used = x.used /\ y.fpcr = x.fpcr
          /\ y.comp = x.comp /\ y.enabled = x.enabled /\ y.on = x.on /\ y.mem = u.mem
      BY <2>6, <2>10, <2>11, DropEffect
    <3> HIDE DEF y
    <3>2. ~Fitted(y, a)
      BY <2>7, <3>1 DEF Fitted
    <3>3. Keeps(x, y)
      BY <2>3, <2>4, <2>6, <2>7, <2>8, <2>11, <3>1, <3>2, SoftKeeps
    <3> QED BY <3>3 DEF y
  <2>12. CASE type = "hard" /\ a \in High
    <3>1. s \in SetHard(x1, a)
      BY <2>1, <2>2, <2>7, <2>12 DEF SetBreakpoint
    <3>2. \E u : s = Bad(u) /\ u \in {x1} \cup {[x1 EXCEPT !.bps[a].set = c] : c \in Cs}
      <4>1. s = Bad(x1) \/ \E c \in Cs : s = Bad([x1 EXCEPT !.bps[a].set = c])
        BY <2>6, <2>12, <3>1, SetHardEffect, ZenonT(30)
      <4> QED BY <4>1, Zenon
    <3>3. PICK u : s.b = u /\ s.ok = FALSE /\ u \in {x1} \cup {[x1 EXCEPT !.bps[a].set = c] : c \in Cs}
      BY <3>2 DEF Bad
    <3>4. /\ u \in Worlds /\ Elsewhere(x1, u, a) /\ u.used = x1.used /\ u.fpcr = x1.fpcr
          /\ u.comp = x1.comp /\ u.enabled = x1.enabled /\ u.on = x1.on /\ u.mem = x1.mem
      <4>1. CASE u = x1
        BY <2>6, <4>1 DEF Elsewhere
      <4>2. CASE \E c \in Cs : u = [x1 EXCEPT !.bps[a].set = c]
        <5>1. PICK c \in Cs : u = [x1 EXCEPT !.bps[a].set = c]
          BY <4>2
        <5>2. [x1.bps[a] EXCEPT !.set = c] \in Points
          BY <2>2, <2>7, PointSet
        <5>3. u = [x1 EXCEPT !.bps = [x1.bps EXCEPT ![a] = [x1.bps[a] EXCEPT !.set = c]]]
          BY <2>6, <5>1 DEF Worlds
        <5> QED BY <2>6, <5>2, <5>3 DEF Worlds, Elsewhere
      <4> QED BY <3>3, <4>1, <4>2
    <3>5. Keeps(x, Drop(u, a)) /\ Elsewhere(x, Drop(u, a), a) /\ Drop(u, a).bps = x.bps
      BY <2>10, <2>11, <3>4
    <3>6. r.b = Drop(u, a) /\ r.ok = FALSE
      BY <2>1, <3>3 DEF Bad
    <3> QED BY <3>5, <3>6
  <2>13. CASE ~(type = "hard" /\ a \in High)
    <3>1. Keeps(x, x1)
      BY <2>2, <2>6, <2>7, <2>8, <2>13, SoftKeeps
    <3>2. Sorted(x1)
      BY <3>1 DEF Keeps
    <3>3. /\ Keeps(x1, s.b) /\ Elsewhere(x1, s.b, a) /\ s.b.bps[a].type = type
          /\ s.ok \in BOOLEAN /\ s.ok => s.b.bps[a].set # 0
      BY <2>1, <2>2, <2>6, <2>7, <2>9, <3>2, SetEffect, ZenonT(40)
    <3>4. CASE s.ok
      <4>1. r = s
        BY <2>1, <3>4
      <4>2. Keeps(x, s.b) /\ Elsewhere(x, s.b, a)
        BY <2>7, <3>1, <3>3, KeepsThen DEF Elsewhere
      <4>3. Listed(s.b) = Listed(x) \cup {a}
        BY <3>3, <4>2 DEF Listed, Elsewhere
      <4> QED BY <1>2, <3>3, <3>4, <4>1, <4>2, <4>3
    <3>5. CASE ~s.ok
      <4>1. r.b = Drop(s.b, a) /\ r.ok = FALSE
        BY <2>1, <3>5 DEF Bad
      <4>2. s.b \in Worlds
        BY <3>3 DEF Keeps
      <4>3. /\ Elsewhere(x, Drop(s.b, a), a) /\ Drop(s.b, a).bps = x.bps /\ Drop(s.b, a) \in Worlds
        BY <2>10, <3>3, <4>2
      <4>4. Keeps(x, Drop(s.b, a))
        <5>1. CASE type = "soft"
          <6>1. s \in SetSoft(x1, a)
            BY <2>1, <2>2, <2>7, <5>1 DEF SetBreakpoint
          <6>2. /\ s.b.used = x1.used /\ s.b.fpcr = x1.fpcr /\ s.b.comp = x1.comp
                /\ s.b.enabled = x1.enabled /\ s.b.on = x1.on
                /\ "memory" \notin env.fails => s.ok
            BY <2>6, <6>1, SetSoftEffect
          <6> QED BY <2>11, <3>3, <3>5, <4>2, <6>2
        <5>2. CASE type = "hard"
          <6>1. s \in SetHard(x1, a)
            BY <2>1, <2>2, <2>7, <5>2 DEF SetBreakpoint
          <6>2. CASE s = Bad(x1)
            <7>1. s.b = x1
              BY <6>2 DEF Bad
            <7> QED BY <2>11, <3>3, <4>2, <7>1
          <6>3. CASE /\ \E c \in Cs : Took(x1, s.b, a, c)
                     /\ x1.enabled \/ "unit" \notin env.fails => s.ok
            <7>1. PICK c \in Cs : Took(x1, s.b, a, c)
              BY <6>3
            <7>2. ~x.enabled /\ "unit" \in env.fails
              BY <2>6, <3>5, <6>3
            <7> DEFINE y == Drop(s.b, a)
            <7>3. y.mem = x.mem /\ y.bps = x.bps /\ y \in Worlds
              BY <2>6, <4>2, <4>3, <7>1, DropEffect DEF Took
            <7> HIDE DEF y
            <7>4. (Sorted(x) => Sorted(y)) /\ (Clean(x) => Clean(y))
              BY <7>3 DEF Sorted, Clean
            <7>5. Keeps(x, y)
              BY <7>2, <7>3, <7>4 DEF Keeps
            <7> QED BY <7>5 DEF y
          <6> QED BY <2>6, <2>13, <5>2, <6>1, <6>2, <6>3, SetHardEffect
        <5> QED BY <5>1, <5>2
      <4> QED BY <4>1, <4>3, <4>4
    <3> QED BY <3>3, <3>4, <3>5
  <2> QED BY <2>12, <2>13
<1> QED BY <1>1, <1>2

-----------------------------------------------------------------------------
(* Folds: breakpoints, and watchpoints, are set one by one. *)

One(B) == CHOOSE a \in B : TRUE
Applied(kind, X, a) == IF kind = "breakpoints" THEN SetIn(X, a) ELSE SetWatchpoint(X, a)
IsFold(kind, f, S, A) ==
  f = [B \in SUBSET A |-> IF B = {} THEN S ELSE Applied(kind, f[B \ {One(B)}], One(B))]

\* A step of the fold.
LEMMA FoldStep ==
  ASSUME NEW f, NEW kind, NEW S, NEW A, IsFold(kind, f, S, A), NEW B \in SUBSET A
  PROVE  /\ B = {} => f[B] = S
         /\ B # {} => /\ f[B] = Applied(kind, f[B \ {One(B)}], One(B))
                      /\ One(B) \in B /\ B \ {One(B)} \in SUBSET A /\ B \ {One(B)} # B
<1>1. B # {} => One(B) \in B
  BY DEF One
<1> DEFINE e(C) == IF C = {} THEN S ELSE Applied(kind, f[C \ {One(C)}], One(C))
<1>2. f = [C \in SUBSET A |-> e(C)]
  BY Zenon DEF IsFold
<1>3. f[B] = e(B)
  <2> HIDE DEF e
  <2> QED BY <1>2
<1> QED BY <1>1, <1>3

\* Two folds agree where both are defined.
LEMMA FoldsAgree ==
  ASSUME NEW kind, NEW S, NEW A, IsFiniteSet(A),
         NEW B \in SUBSET A, NEW C \in SUBSET A, NEW f, NEW g,
         IsFold(kind, f, S, B), IsFold(kind, g, S, C),
         NEW D \in SUBSET A, D \subseteq B, D \subseteq C
  PROVE  f[D] = g[D]
<1> DEFINE T == {E \in SUBSET A : E \subseteq B /\ E \subseteq C /\ f[E] # g[E]}
<1>1. SUFFICES ASSUME T # {} PROVE FALSE
  OBVIOUS
<1>2. PICK E \in T : \A F \in T : F \subseteq E => F = E
  <2> HIDE DEF T
  <2>1. T \in SUBSET SUBSET A
    BY DEF T
  <2> QED BY <1>1, <2>1, SmallestSubset
<1>3. E # {}
  <2>1. E \in SUBSET B /\ E \in SUBSET C /\ f[E] # g[E]
    BY <1>2
  <2>2. E = {} => f[E] = S /\ g[E] = S
    BY <2>1, FoldStep
  <2> QED BY <2>1, <2>2
<1>4. /\ f[E] = Applied(kind, f[E \ {One(E)}], One(E))
      /\ g[E] = Applied(kind, g[E \ {One(E)}], One(E))
      /\ E \ {One(E)} # E
  BY <1>3, FoldStep
<1>5. E \ {One(E)} \notin T
  BY <1>2, <1>4
<1>6. f[E \ {One(E)}] = g[E \ {One(E)}]
  BY <1>5
<1> QED BY <1>4, <1>6

\* There is a fold over a finite set.
LEMMA FoldExists ==
  ASSUME NEW kind, NEW S, NEW A, IsFiniteSet(A)
  PROVE  \E f : IsFold(kind, f, S, A)
<1> DEFINE T == {B \in SUBSET A : \A f : ~IsFold(kind, f, S, B)}
<1>1. SUFFICES ASSUME T # {} PROVE FALSE
  OBVIOUS
<1>2. PICK B \in T : \A C \in T : C \subseteq B => C = B
  <2> HIDE DEF T
  <2>1. T \in SUBSET SUBSET A
    BY DEF T
  <2> QED BY <1>1, <2>1, SmallestSubset
<1> DEFINE G(C) == CHOOSE f : IsFold(kind, f, S, C)
<1>3. ASSUME NEW C \in SUBSET B, C # B PROVE IsFold(kind, G(C), S, C)
  <2>1. C \in SUBSET A /\ C \notin T
    BY <1>2, <1>3
  <2>2. \E f : IsFold(kind, f, S, C)
    BY <2>1
  <2> QED BY <2>2
<1> HIDE DEF G
<1> DEFINE last == Applied(kind, IF B \ {One(B)} = {} THEN S ELSE G(B \ {One(B)})[B \ {One(B)}], One(B))
           v(C) == IF C = {} THEN S ELSE IF C = B THEN last ELSE G(C)[C]
           f == [C \in SUBSET B |-> v(C)]
           e(C) == IF C = {} THEN S ELSE Applied(kind, f[C \ {One(C)}], One(C))
<1>4. ASSUME NEW C \in SUBSET B, C # {} PROVE v(C) = Applied(kind, f[C \ {One(C)}], One(C))
  <2> DEFINE D == C \ {One(C)}
  <2>1. One(C) \in C /\ D \in SUBSET B /\ D # B /\ D # C
    BY <1>4 DEF One
  <2>2. f[D] = IF D = {} THEN S ELSE G(D)[D]
    BY <2>1
  <2>3. CASE C = B
    BY <1>4, <2>2, <2>3
  <2>4. CASE C # B
    <3>1. v(C) = G(C)[C]
      BY <1>4, <2>4
    <3>2. IsFold(kind, G(C), S, C) /\ IsFold(kind, G(D), S, D)
      BY <1>3, <2>1, <2>4
    <3>3. G(C)[C] = Applied(kind, G(C)[D], One(C))
      BY <3>2, <1>4, FoldStep
    <3>4. G(C)[D] = G(D)[D]
      <4>1. B \in SUBSET A
        BY <1>2
      <4>2. C \in SUBSET A /\ D \in SUBSET A /\ D \subseteq C
        BY <4>1, <2>1
      <4> HIDE DEF D
      <4> QED BY <3>2, <4>2, FoldsAgree
    <3>5. D = {} => G(D)[D] = S
      <4>1. D \in SUBSET D /\ IsFold(kind, G(D), S, D)
        BY <3>2
      <4> HIDE DEF D, v, f
      <4> QED BY <4>1, FoldStep
    <3> HIDE DEF D, v, f
    <3> QED BY <3>1, <3>3, <3>4, <3>5, <2>2 DEF D
  <2> QED BY <2>3, <2>4
<1>5. \A C \in SUBSET B : v(C) = e(C)
  <2> HIDE DEF f, v
  <2>1. v({}) = S
    BY DEF v
  <2> QED BY <1>4, <2>1
<1>6. f = [C \in SUBSET B |-> e(C)]
  <2> HIDE DEF e, v
  <2> QED BY <1>5
<1>7. IsFold(kind, f, S, B)
  <2> HIDE DEF f
  <2> QED BY <1>6, Zenon DEF IsFold
<1> QED BY <1>2, <1>7

BreakpointFold(f, S, A) ==
  f = [B \in SUBSET A |-> IF B = {} THEN S ELSE SetIn(f[B \ {One(B)}], One(B))]
WatchpointFold(f, S, A) ==
  f = [B \in SUBSET A |-> IF B = {} THEN S ELSE SetWatchpoint(f[B \ {One(B)}], One(B))]

\* What enabling them leaves is a fold.
LEMMA EnableIsFold ==
  ASSUME NEW x, IsFiniteSet(Unset(x))
  PROVE  \E f : IsFold("breakpoints", f, {x}, Unset(x)) /\ EnableBreakpoints(x) = f[Unset(x)]
<1> DEFINE A == Unset(x)
           f == CHOOSE g : BreakpointFold(g, {x}, A)
<1>1. EnableBreakpoints(x) = f[A]
  BY Zenon DEF EnableBreakpoints, FoldSet, MapThenFoldSet, BreakpointFold, One
<1>2. \A g : IsFold("breakpoints", g, {x}, A) <=> BreakpointFold(g, {x}, A)
  <2> HIDE DEF A
  <2>1. \A X, a : Applied("breakpoints", X, a) = SetIn(X, a)
    BY DEF Applied
  <2> QED BY <2>1, Zenon DEF IsFold, BreakpointFold
<1>3. \E g : IsFold("breakpoints", g, {x}, A)
  <2>1. IsFiniteSet(A)
    OBVIOUS
  <2> HIDE DEF A
  <2> QED BY <2>1, FoldExists
<1>4. BreakpointFold(f, {x}, A)
  <2> HIDE DEF A
  <2> QED BY <1>2, <1>3
<1> HIDE DEF f
<1> QED BY <1>1, <1>2, <1>4

LEMMA EnableWatchesIsFold ==
  ASSUME NEW x, IsFiniteSet(Pending(x))
  PROVE  \E f : IsFold("watchpoints", f, x, Pending(x)) /\ EnableWatchpoints(x) = f[Pending(x)]
<1> DEFINE A == Pending(x)
           f == CHOOSE g : WatchpointFold(g, x, A)
<1>1. EnableWatchpoints(x) = f[A]
  BY Zenon DEF EnableWatchpoints, FoldSet, MapThenFoldSet, WatchpointFold, One
<1>2. \A g : IsFold("watchpoints", g, x, A) <=> WatchpointFold(g, x, A)
  <2> HIDE DEF A
  <2>1. \A X, a : Applied("watchpoints", X, a) = SetWatchpoint(X, a)
    BY DEF Applied
  <2> QED BY <2>1, Zenon DEF IsFold, WatchpointFold
<1>3. \E g : IsFold("watchpoints", g, x, A)
  <2>1. IsFiniteSet(A)
    OBVIOUS
  <2> HIDE DEF A
  <2> QED BY <2>1, FoldExists
<1>4. WatchpointFold(f, x, A)
  <2> HIDE DEF A
  <2> QED BY <1>2, <1>3
<1> HIDE DEF f
<1> QED BY <1>1, <1>2, <1>4

\* What setting a breakpoint leaves, by and by.
Settles(x, y) ==
  /\ Keeps(x, y)
  /\ \A a \in Program : /\ y.bps[a].type = x.bps[a].type
                        /\ x.bps[a].set # 0 => y.bps[a].set = x.bps[a].set

LEMMA EnableAllEffect ==
  ASSUME NEW x \in Worlds, Sorted(x)
  PROVE  /\ \A y \in EnableBreakpoints(x) : Settles(x, y)
         /\ Unset(x) = {} => EnableBreakpoints(x) = {x}
<1> DEFINE A == Unset(x)
<1>1. A \in SUBSET Program /\ A \subseteq Listed(x)
  BY DEF Unset, Listed
<1>2. IsFiniteSet(A)
  <2>1. IsFiniteSet(Program)
    BY Sizes, FS_Interval
  <2> QED BY <1>1, <2>1, FS_Subset
<1>3. PICK f : IsFold("breakpoints", f, {x}, A) /\ EnableBreakpoints(x) = f[A]
  BY <1>2, EnableIsFold
<1>4. A = {} => EnableBreakpoints(x) = {x}
  <2> HIDE DEF A
  <2>1. A \in SUBSET A
    OBVIOUS
  <2> QED BY <1>3, <2>1, FoldStep
<1> DEFINE P(C) == \A y \in f[C] : Settles(x, y)
           T == {C \in SUBSET A : ~P(C)}
<1> HIDE DEF A
<1>5. SUFFICES ASSUME T # {} PROVE FALSE
  <2>1. A \in SUBSET A
    OBVIOUS
  <2>2. P(A)
    BY <1>5, <2>1
  <2> QED BY <1>3, <1>4, <2>2 DEF A
<1>6. PICK C \in T : \A D \in T : D \subseteq C => D = C
  <2> HIDE DEF T
  <2>1. T \in SUBSET SUBSET A
    BY DEF T
  <2> QED BY <1>2, <1>5, <2>1, SmallestSubset
<1>7. C \in SUBSET A /\ ~P(C)
  BY <1>6
<1>8. CASE C = {}
  <2>1. f[C] = {x}
    <3>1. C \in SUBSET A /\ IsFold("breakpoints", f, {x}, A)
      BY <1>3, <1>7
    <3> HIDE DEF P, T
    <3> QED BY <1>8, <3>1, FoldStep
  <2>2. Settles(x, x)
    BY KeepsItself DEF Settles
  <2> QED BY <1>7, <2>1, <2>2
<1>9. CASE C # {}
  <2> DEFINE o == One(C)
             D == C \ {o}
  <2>1. f[C] = Applied("breakpoints", f[D], o) /\ o \in C /\ D \in SUBSET A /\ D # C
    BY <1>3, <1>7, <1>9, FoldStep
  <2>2. P(D)
    BY <1>6, <2>1
  <2> HIDE DEF o, D, T
  <2>3. ASSUME NEW y \in f[C] PROVE Settles(x, y)
    <3>1. y \in SetIn(f[D], o)
      BY <2>1 DEF Applied
    <3>2. PICK u \in f[D] : \E r \in SetBreakpoint(u, o) : y = r.b
      BY <3>1, Zenon DEF SetIn
    <3>3. PICK r \in SetBreakpoint(u, o) : y = r.b
      BY <3>2
    <3>4. Settles(x, u) /\ Keeps(x, u) /\ u \in Worlds /\ Sorted(u)
      BY <2>2 DEF Settles, Keeps
    <3>5. o \in Listed(u) /\ o \in Program
      <4>1. o \in Listed(x)
        BY <1>1, <1>7, <2>1 DEF A
      <4>2. o \in Program /\ x.bps[o].type # "none"
        BY <4>1 DEF Listed
      <4>3. u.bps[o].type = x.bps[o].type
        BY <3>4, <4>2 DEF Settles
      <4> QED BY <4>2, <4>3 DEF Listed
    <3>6. /\ Keeps(u, y) /\ Elsewhere(u, y, o) /\ y.bps[o].type = u.bps[o].type
          /\ u.bps[o].set # 0 => y = u
      BY <3>3, <3>4, <3>5, SetEffect
    <3>7. Keeps(x, y)
      BY <3>4, <3>6, KeepsThen
    <3> QED BY <3>4, <3>6, <3>7 DEF Settles, Elsewhere
  <2> QED BY <1>7, <2>3
<1> QED BY <1>8, <1>9

-----------------------------------------------------------------------------
(* Watchpoints. *)

ListedWatches(x) == {a \in Watch : x.wps[a] # NotListed}
Counted(x) == x.available + Cardinality(ListedWatches(x)) + x.refused = Dwts
\* The watchpoints that are set have their comparators.
Matched(x) == \A a \in Watch : x.wps[a] > 0 => x.comp[x.wps[a]] = a
\* Those that are armed for nobody were lost to refused removals.
Bounded(x) == Cardinality(Orphans(x)) <= x.refused

LEMMA FewerOrphans ==
  ASSUME NEW x \in Watches, NEW y, Orphans(y) \subseteq Orphans(x), y.refused = x.refused, Bounded(x)
  PROVE  Bounded(y)
<1>1. IsFiniteSet(1 .. Dwts) /\ Orphans(x) \subseteq 1 .. Dwts
  BY FS_Interval, Sizes DEF Orphans
<1>2. IsFiniteSet(Orphans(x))
  BY <1>1, FS_Subset
<1>3. IsFiniteSet(Orphans(y)) /\ Cardinality(Orphans(y)) <= Cardinality(Orphans(x))
  BY <1>2, FS_Subset
<1>4. Cardinality(Orphans(x)) \in Nat /\ Cardinality(Orphans(y)) \in Nat
  BY <1>2, <1>3, FS_CardinalityType
<1>5. x.refused \in Nat
  BY DEF Watches
<1> DEFINE k == Cardinality(Orphans(x))
           l == Cardinality(Orphans(y))
           n == x.refused
<1>6. k \in Nat /\ l \in Nat /\ n \in Nat /\ l <= k /\ k <= n /\ y.refused = n
  BY <1>3, <1>4, <1>5 DEF Bounded
<1> HIDE DEF k, l, n
<1>7. l <= y.refused
  BY <1>6
<1> QED BY <1>7 DEF Bounded, l

LEMMA SetWatchEffect ==
  ASSUME NEW x \in Watches, NEW a \in Pending(x), NEW y, y = SetWatchpoint(x, a)
  PROVE  /\ y \in Watches /\ y.available = x.available /\ ListedWatches(y) = ListedWatches(x)
         /\ y.refused = x.refused /\ Orphans(y) \subseteq Orphans(x)
         /\ Matched(x) => Matched(y)
         /\ \A o \in Watch \ {a} : y.wps[o] = x.wps[o]
<1> DEFINE free == {c \in 1 .. Dwts : x.comp[c] = 0}
           c == Min(free)
<1>0. a \in Watch /\ x.wps[a] = 0
  BY DEF Pending
<1>1. y = IF free = {} THEN x ELSE [x EXCEPT !.wps[a] = c, !.comp[c] = a]
  BY Zenon DEF SetWatchpoint
<1>2. CASE free = {}
  <2>1. y = x
    BY <1>1, <1>2
  <2> QED BY <2>1
<1>3. CASE free # {}
  <2>1. c \in 1 .. Dwts /\ x.comp[c] = 0
    <3>1. free \in SUBSET (1 .. Dwts) /\ Dwts \in Nat
      BY Sizes
    <3> HIDE DEF free
    <3>2. c \in free
      BY <1>3, <3>1, Lowest
    <3> QED BY <3>2 DEF free
  <2>2. y = [x EXCEPT !.wps[a] = c, !.comp[c] = a]
    <3> HIDE DEF c, free
    <3> QED BY <1>1, <1>3
  <2> HIDE DEF c, free
  <2>3. x.wps \in [Watch -> NotListed .. Dwts] /\ x.comp \in [1 .. Dwts -> Watch \cup {0}]
    BY DEF Watches
  <2>4. y = [x EXCEPT !.wps = [x.wps EXCEPT ![a] = c], !.comp = [x.comp EXCEPT ![c] = a]]
    BY <2>2 DEF Watches
  <2>5. /\ y.wps = [x.wps EXCEPT ![a] = c] /\ y.comp = [x.comp EXCEPT ![c] = a]
        /\ y.available = x.available /\ y.refused = x.refused
    BY <2>4 DEF Watches
  <2>6. c \in NotListed .. Dwts /\ c # NotListed /\ c # 0 /\ NotListed # 0
    BY <2>1, Sizes DEF NotListed
  <2>7. y \in Watches
    <3>1. /\ [x.wps EXCEPT ![a] = c] \in [Watch -> NotListed .. Dwts]
          /\ [x.comp EXCEPT ![c] = a] \in [1 .. Dwts -> Watch \cup {0}]
      BY <1>0, <2>1, <2>3, <2>6
    <3> QED BY <2>4, <3>1 DEF Watches
  <2>8. \A o \in Watch : y.wps[o] = (IF o = a THEN c ELSE x.wps[o])
    BY <1>0, <2>3, <2>5
  <2>9. \A d \in 1 .. Dwts : y.comp[d] = (IF d = c THEN a ELSE x.comp[d])
    BY <2>1, <2>3, <2>5
  <2>10. ListedWatches(y) = ListedWatches(x)
    BY <1>0, <2>6, <2>8 DEF ListedWatches
  <2>11. Matched(x) => Matched(y)
    <3>1. SUFFICES ASSUME Matched(x), NEW o \in Watch, y.wps[o] > 0 PROVE y.comp[y.wps[o]] = o
      BY DEF Matched
    <3>2. CASE o = a
      BY <2>1, <2>8, <2>9, <3>2
    <3>3. CASE o # a
      <4> DEFINE d == x.wps[o]
      <4>1. y.wps[o] = d /\ d > 0 /\ d \in NotListed .. Dwts /\ Dwts \in Nat
        BY <2>3, <2>8, <3>1, <3>3, Sizes
      <4>2. x.comp[d] = o
        BY <3>1, <4>1 DEF Matched
      <4> HIDE DEF d
      <4>3. d \in 1 .. Dwts
        BY <4>1 DEF NotListed
      <4>4. d # c
        BY <2>1, <4>2, WatchAssumption
      <4> QED BY <2>9, <4>1, <4>2, <4>3, <4>4
    <3> QED BY <3>2, <3>3
  <2>12. Orphans(y) \subseteq Orphans(x)
    <3>1. SUFFICES ASSUME NEW d \in 1 .. Dwts, y.comp[d] # 0, y.wps[y.comp[d]] # d
                   PROVE  x.comp[d] # 0 /\ x.wps[x.comp[d]] # d
      BY DEF Orphans
    <3>2. d # c
      BY <1>0, <2>8, <2>9, <3>1
    <3>3. y.comp[d] = x.comp[d] /\ x.comp[d] \in Watch
      BY <2>3, <2>9, <3>1, <3>2
    <3>4. d # 0
      BY Sizes
    <3> QED BY <1>0, <2>8, <3>1, <3>3, <3>4
  <2> QED BY <2>5, <2>7, <2>8, <2>10, <2>11, <2>12
<1> QED BY <1>2, <1>3

LEMMA EnableWatchesEffect ==
  ASSUME NEW x \in Watches
  PROVE  LET y == EnableWatchpoints(x) IN
         /\ y \in Watches /\ y.available = x.available /\ ListedWatches(y) = ListedWatches(x)
         /\ y.refused = x.refused /\ Orphans(y) \subseteq Orphans(x)
         /\ Matched(x) => Matched(y)
<1> DEFINE A == Pending(x)
<1>1. IsFiniteSet(A) /\ A \in SUBSET Watch
  BY WatchAssumption, FS_Subset DEF Pending
<1>2. PICK f : IsFold("watchpoints", f, x, A) /\ EnableWatchpoints(x) = f[A]
  BY <1>1, EnableWatchesIsFold
<1> DEFINE P(C) == /\ f[C] \in Watches /\ f[C].available = x.available
                   /\ ListedWatches(f[C]) = ListedWatches(x)
                   /\ f[C].refused = x.refused /\ Orphans(f[C]) \subseteq Orphans(x)
                   /\ Matched(x) => Matched(f[C])
                   /\ \A o \in Watch \ C : f[C].wps[o] = x.wps[o]
           T == {C \in SUBSET A : ~P(C)}
<1>3. SUFFICES ASSUME T # {} PROVE FALSE
  <2>1. A \in SUBSET A
    OBVIOUS
  <2>2. P(A)
    BY <1>3, <2>1
  <2> HIDE DEF A
  <2> QED BY <1>2, <2>2
<1>4. PICK C \in T : \A D \in T : D \subseteq C => D = C
  <2> HIDE DEF T, A
  <2>1. T \in SUBSET SUBSET A
    BY DEF T
  <2> QED BY <1>1, <1>3, <2>1, SmallestSubset
<1>5. C \in SUBSET A /\ ~P(C)
  BY <1>4
<1>6. CASE C = {}
  <2>1. f[C] = x
    <3>1. C \in SUBSET A /\ IsFold("watchpoints", f, x, A)
      BY <1>2, <1>5
    <3> HIDE DEF P, T, A
    <3> QED BY <1>6, <3>1, FoldStep
  <2>2. P(C)
    BY <2>1
  <2> QED BY <1>5, <2>2
<1>7. CASE C # {}
  <2> DEFINE o == One(C)
             D == C \ {o}
             u == f[D]
             y == f[C]
  <2>1. y = SetWatchpoint(u, o) /\ o \in C /\ D \in SUBSET A /\ D # C
    <3>1. C \in SUBSET A /\ IsFold("watchpoints", f, x, A)
      BY <1>2, <1>5
    <3> HIDE DEF P, T, A
    <3> QED BY <1>7, <3>1, FoldStep DEF Applied
  <2>2. P(D)
    BY <1>4, <2>1
  <2>3. /\ u \in Watches /\ u.available = x.available
        /\ ListedWatches(u) = ListedWatches(x)
        /\ u.refused = x.refused /\ Orphans(u) \subseteq Orphans(x)
        /\ Matched(x) => Matched(u)
        /\ \A v \in Watch \ D : u.wps[v] = x.wps[v]
    BY <2>2
  <2>4. o \notin D /\ C = D \cup {o}
    BY <2>1
  <2> HIDE DEF o, D, u, y, T, P
  <2>5. o \in Pending(u)
    <3>1. o \in Watch /\ x.wps[o] = 0
      BY <1>5, <2>1 DEF Pending
    <3> QED BY <2>3, <2>4, <3>1 DEF Pending
  <2>6. /\ y \in Watches /\ y.available = u.available /\ ListedWatches(y) = ListedWatches(u)
        /\ y.refused = u.refused /\ Orphans(y) \subseteq Orphans(u)
        /\ Matched(u) => Matched(y)
        /\ \A v \in Watch \ {o} : y.wps[v] = u.wps[v]
    BY <2>1, <2>3, <2>5, SetWatchEffect
  <2>7. /\ y \in Watches /\ y.available = x.available
        /\ ListedWatches(y) = ListedWatches(x)
        /\ y.refused = x.refused /\ Orphans(y) \subseteq Orphans(x)
        /\ Matched(x) => Matched(y)
        /\ \A v \in Watch \ C : y.wps[v] = x.wps[v]
    BY <2>3, <2>4, <2>6
  <2>8. P(C)
    BY <2>7 DEF P, y
  <2> QED BY <1>5, <2>8
<1> QED BY <1>6, <1>7

\* A watchpoint that is added, or removed, or whose removal is refused.
WithWatch(x, a) == [x EXCEPT !.wps[a] = 0, !.available = @ - 1]
WithoutWatch(x, a) ==
  [UnsetWatchpoint(x, a) EXCEPT !.wps[a] = NotListed, !.available = @ + 1]
RefusedWatch(x, a) == [x EXCEPT !.wps[a] = NotListed, !.refused = @ + 1]

LEMMA AddWatchEffect ==
  ASSUME NEW x \in Watches, x.available >= 1, NEW a \in Watch, x.wps[a] = NotListed,
         NEW y, y = WithWatch(x, a)
  PROVE  /\ y \in Watches /\ (Counted(x) => Counted(y)) /\ (Matched(x) => Matched(y))
         /\ Bounded(x) => Bounded(y)
<1>1. /\ x.wps \in [Watch -> NotListed .. Dwts] /\ x.available \in Nat /\ 0 \in NotListed .. Dwts
      /\ x.comp \in [1 .. Dwts -> Watch \cup {0}] /\ x.refused \in Nat
  BY Sizes DEF Watches, NotListed
<1>2. y = [x EXCEPT !.wps = [x.wps EXCEPT ![a] = 0], !.available = x.available - 1]
  BY DEF Watches, WithWatch
<1>3. /\ y \in Watches /\ y.wps = [x.wps EXCEPT ![a] = 0] /\ y.available = x.available - 1
      /\ y.comp = x.comp /\ y.refused = x.refused
  <2> DEFINE n == x.available - 1
             m == [x.wps EXCEPT ![a] = 0]
  <2>1. n \in Nat /\ m \in [Watch -> NotListed .. Dwts]
    BY <1>1
  <2>2. y = [x EXCEPT !.wps = m, !.available = n]
    BY <1>2
  <2> HIDE DEF n, m
  <2>3. y \in Watches /\ y.wps = m /\ y.available = n /\ y.comp = x.comp
        /\ y.refused = x.refused
    BY <2>1, <2>2 DEF Watches
  <2> QED BY <2>3 DEF n, m
<1>4. \A o \in Watch : y.wps[o] = (IF o = a THEN 0 ELSE x.wps[o])
  BY <1>1, <1>3
<1>5. Counted(x) => Counted(y)
  <2>1. ListedWatches(y) = ListedWatches(x) \cup {a} /\ a \notin ListedWatches(x)
    BY <1>4 DEF ListedWatches, NotListed
  <2>2. IsFiniteSet(ListedWatches(x))
    BY WatchAssumption, FS_Subset DEF ListedWatches
  <2>3. Cardinality(ListedWatches(y)) = Cardinality(ListedWatches(x)) + 1
    BY <2>1, <2>2, FS_AddElement
  <2>4. Cardinality(ListedWatches(x)) \in Nat
    BY <2>2, FS_CardinalityType
  <2> DEFINE n == x.available
             k == Cardinality(ListedWatches(x))
             l == Cardinality(ListedWatches(y))
             m == x.refused
  <2>5. n \in Nat /\ k \in Nat /\ l = k + 1 /\ y.available = n - 1 /\ Dwts \in Nat
        /\ m \in Nat /\ y.refused = m
    BY <1>1, <1>3, <2>3, <2>4, Sizes
  <2> HIDE DEF n, k, l, m
  <2>6. n + k + m = Dwts => y.available + l + y.refused = Dwts
    BY <2>5
  <2> QED BY <2>6 DEF Counted, n, k, l, m
<1>6. Matched(x) => Matched(y)
  BY <1>3, <1>4 DEF Matched
<1>7. Orphans(y) \subseteq Orphans(x)
  <2>1. SUFFICES ASSUME NEW d \in 1 .. Dwts, y.comp[d] # 0, y.wps[y.comp[d]] # d
                 PROVE  x.comp[d] # 0 /\ x.wps[x.comp[d]] # d
    BY DEF Orphans
  <2>2. y.comp[d] = x.comp[d] /\ x.comp[d] \in Watch
    BY <1>1, <1>3, <2>1
  <2>3. d # NotListed
    BY Sizes DEF NotListed
  <2> QED BY <1>4, <2>1, <2>2, <2>3
<1>8. Bounded(x) => Bounded(y)
  BY <1>3, <1>7, FewerOrphans
<1> QED BY <1>3, <1>5, <1>6, <1>8

LEMMA RemoveWatchEffect ==
  ASSUME NEW x \in Watches, NEW a \in Watch, x.wps[a] # NotListed,
         NEW y, y = WithoutWatch(x, a)
  PROVE  /\ y \in Watches /\ (Counted(x) => Counted(y)) /\ (Matched(x) => Matched(y))
         /\ Bounded(x) => Bounded(y)
<1> DEFINE c == x.wps[a]
           comp == IF c > 0 THEN [x.comp EXCEPT ![c] = 0] ELSE x.comp
<1>1. /\ x.wps \in [Watch -> NotListed .. Dwts] /\ x.available \in Nat
      /\ x.comp \in [1 .. Dwts -> Watch \cup {0}] /\ NotListed \in NotListed .. Dwts
      /\ x.refused \in Nat
  BY Sizes DEF Watches, NotListed
<1>2. c > 0 => c \in 1 .. Dwts
  BY <1>1, Sizes DEF NotListed
<1> DEFINE u == UnsetWatchpoint(x, a)
<1>3. u \in Watches /\ u.wps = x.wps /\ u.available = x.available /\ u.comp = comp
      /\ u.refused = x.refused
  <2>1. CASE c > 0
    BY <1>2, <2>1 DEF UnsetWatchpoint, Watches
  <2>2. CASE ~(c > 0)
    BY <2>2 DEF UnsetWatchpoint
  <2> QED BY <2>1, <2>2
<1>4. y = [u EXCEPT !.wps = [u.wps EXCEPT ![a] = NotListed], !.available = u.available + 1]
  <2>1. u \in Watches
    BY <1>3
  <2>2. y = [u EXCEPT !.wps[a] = NotListed, !.available = @ + 1]
    BY DEF WithoutWatch
  <2> HIDE DEF u
  <2> QED BY <2>1, <2>2 DEF Watches
<1> HIDE DEF u
<1>5. /\ y \in Watches /\ y.wps = [x.wps EXCEPT ![a] = NotListed] /\ y.available = x.available + 1
      /\ y.comp = comp /\ y.refused = x.refused
  <2> DEFINE n == x.available + 1
             m == [x.wps EXCEPT ![a] = NotListed]
  <2>1. n \in Nat /\ m \in [Watch -> NotListed .. Dwts]
    BY <1>1
  <2>2. y = [u EXCEPT !.wps = m, !.available = n]
    BY <1>3, <1>4
  <2>3. u \in Watches /\ u.comp = comp /\ u.refused = x.refused
    BY <1>3
  <2> HIDE DEF n, m, comp
  <2>4. y \in Watches /\ y.wps = m /\ y.available = n /\ y.comp = comp
        /\ y.refused = x.refused
    BY <2>1, <2>2, <2>3 DEF Watches
  <2> QED BY <2>4 DEF n, m
<1>6. \A o \in Watch : y.wps[o] = (IF o = a THEN NotListed ELSE x.wps[o])
  BY <1>1, <1>5
<1>7. Counted(x) => Counted(y)
  <2>1. ListedWatches(y) = ListedWatches(x) \ {a} /\ a \in ListedWatches(x)
    BY <1>6 DEF ListedWatches
  <2>2. IsFiniteSet(ListedWatches(x))
    BY WatchAssumption, FS_Subset DEF ListedWatches
  <2>3. Cardinality(ListedWatches(y)) = Cardinality(ListedWatches(x)) - 1
    BY <2>1, <2>2, FS_RemoveElement
  <2>4. Cardinality(ListedWatches(x)) \in Nat
    BY <2>2, FS_CardinalityType
  <2> DEFINE n == x.available
             k == Cardinality(ListedWatches(x))
             l == Cardinality(ListedWatches(y))
             m == x.refused
  <2>5. n \in Nat /\ k \in Nat /\ l = k - 1 /\ y.available = n + 1 /\ Dwts \in Nat
        /\ m \in Nat /\ y.refused = m
    BY <1>1, <1>5, <2>3, <2>4, Sizes
  <2> HIDE DEF n, k, l, m
  <2>6. n + k + m = Dwts => y.available + l + y.refused = Dwts
    BY <2>5
  <2> QED BY <2>6 DEF Counted, n, k, l, m
<1>8. \A d \in 1 .. Dwts : y.comp[d] = (IF d = c THEN 0 ELSE x.comp[d])
  <2>1. CASE c > 0
    <3>1. y.comp = [x.comp EXCEPT ![c] = 0]
      BY <1>5, <2>1
    <3> HIDE DEF comp, c
    <3> QED BY <1>1, <3>1
  <2>2. CASE ~(c > 0)
    <3>1. y.comp = x.comp
      BY <1>5, <2>2
    <3>2. \A d \in 1 .. Dwts : d # c
      BY <2>2, Sizes
    <3> QED BY <3>1, <3>2
  <2> QED BY <2>1, <2>2
<1> HIDE DEF comp
<1>9. Matched(x) => Matched(y)
  <2>1. SUFFICES ASSUME Matched(x), NEW o \in Watch, y.wps[o] > 0 PROVE y.comp[y.wps[o]] = o
    BY DEF Matched
  <2> DEFINE d == x.wps[o]
  <2>2. o # a /\ y.wps[o] = d
    BY <1>6, <2>1 DEF NotListed
  <2>3. d \in NotListed .. Dwts /\ d > 0 /\ Dwts \in Nat
    BY <1>1, <2>1, <2>2, Sizes
  <2>4. x.comp[d] = o
    BY <2>1, <2>3 DEF Matched
  <2>5. c > 0 => x.comp[c] = a
    BY <2>1 DEF Matched
  <2> HIDE DEF c, d
  <2>6. d \in 1 .. Dwts
    BY <2>3 DEF NotListed
  <2>7. d # c
    BY <2>2, <2>3, <2>4, <2>5
  <2> QED BY <1>8, <2>2, <2>4, <2>6, <2>7
<1>10. Orphans(y) \subseteq Orphans(x)
  <2>1. SUFFICES ASSUME NEW d \in 1 .. Dwts, y.comp[d] # 0, y.wps[y.comp[d]] # d
                 PROVE  x.comp[d] # 0 /\ x.wps[x.comp[d]] # d
    BY DEF Orphans
  <2>2. d # c /\ y.comp[d] = x.comp[d] /\ x.comp[d] \in Watch
    BY <1>1, <1>8, <2>1
  <2> QED BY <1>6, <2>1, <2>2
<1>11. Bounded(x) => Bounded(y)
  BY <1>5, <1>10, FewerOrphans
<1> QED BY <1>5, <1>7, <1>9, <1>11

\* A refused removal leaves at most one comparator more that is armed for nobody.
LEMMA RefusedWatchEffect ==
  ASSUME NEW x \in Watches, NEW a \in Watch, x.wps[a] # NotListed,
         NEW y, y = RefusedWatch(x, a)
  PROVE  /\ y \in Watches /\ (Counted(x) => Counted(y)) /\ (Matched(x) => Matched(y))
         /\ Bounded(x) => Bounded(y)
<1>1. /\ x.wps \in [Watch -> NotListed .. Dwts] /\ x.available \in Nat /\ x.refused \in Nat
      /\ x.comp \in [1 .. Dwts -> Watch \cup {0}] /\ NotListed \in NotListed .. Dwts
  BY Sizes DEF Watches, NotListed
<1>2. /\ y \in Watches /\ y.wps = [x.wps EXCEPT ![a] = NotListed] /\ y.refused = x.refused + 1
      /\ y.available = x.available /\ y.comp = x.comp
  <2> DEFINE n == x.refused + 1
             m == [x.wps EXCEPT ![a] = NotListed]
  <2>1. n \in Nat /\ m \in [Watch -> NotListed .. Dwts]
    BY <1>1
  <2>2. y = [x EXCEPT !.wps = m, !.refused = n]
    BY DEF RefusedWatch, Watches
  <2> HIDE DEF n, m
  <2>3. y \in Watches /\ y.wps = m /\ y.refused = n /\ y.available = x.available /\ y.comp = x.comp
    BY <2>1, <2>2 DEF Watches
  <2> QED BY <2>3 DEF n, m
<1>3. \A o \in Watch : y.wps[o] = (IF o = a THEN NotListed ELSE x.wps[o])
  BY <1>1, <1>2
<1>4. Counted(x) => Counted(y)
  <2>1. ListedWatches(y) = ListedWatches(x) \ {a} /\ a \in ListedWatches(x)
    BY <1>3 DEF ListedWatches
  <2>2. IsFiniteSet(ListedWatches(x))
    BY WatchAssumption, FS_Subset DEF ListedWatches
  <2>3. Cardinality(ListedWatches(y)) = Cardinality(ListedWatches(x)) - 1
    BY <2>1, <2>2, FS_RemoveElement
  <2>4. Cardinality(ListedWatches(x)) \in Nat
    BY <2>2, FS_CardinalityType
  <2> DEFINE n == x.available
             k == Cardinality(ListedWatches(x))
             l == Cardinality(ListedWatches(y))
             m == x.refused
  <2>5. /\ n \in Nat /\ k \in Nat /\ l = k - 1 /\ y.available = n /\ Dwts \in Nat
        /\ m \in Nat /\ y.refused = m + 1
    BY <1>1, <1>2, <2>3, <2>4, Sizes
  <2> HIDE DEF n, k, l, m
  <2>6. n + k + m = Dwts => y.available + l + y.refused = Dwts
    BY <2>5
  <2> QED BY <2>6 DEF Counted, n, k, l, m
<1>5. Matched(x) => Matched(y)
  <2>1. SUFFICES ASSUME Matched(x), NEW o \in Watch, y.wps[o] > 0 PROVE y.comp[y.wps[o]] = o
    BY DEF Matched
  <2>2. y.wps[o] = x.wps[o]
    BY <1>3, <2>1 DEF NotListed
  <2> QED BY <1>2, <2>1, <2>2 DEF Matched
<1>6. Bounded(x) => Bounded(y)
  <2> DEFINE more == Orphans(x) \cup {x.wps[a]}
  <2>1. Orphans(y) \subseteq more
    <3>1. SUFFICES ASSUME NEW d \in 1 .. Dwts, y.comp[d] # 0, y.wps[y.comp[d]] # d,
                          d # x.wps[a]
                   PROVE  x.comp[d] # 0 /\ x.wps[x.comp[d]] # d
      BY DEF Orphans
    <3>2. y.comp[d] = x.comp[d] /\ x.comp[d] \in Watch
      BY <1>1, <1>2, <3>1
    <3> QED BY <1>3, <3>1, <3>2
  <2>2. IsFiniteSet(Orphans(x))
    <3>1. IsFiniteSet(1 .. Dwts) /\ Orphans(x) \subseteq 1 .. Dwts
      BY FS_Interval, Sizes DEF Orphans
    <3> QED BY <3>1, FS_Subset
  <2>3. /\ IsFiniteSet(more)
        /\ Cardinality(more) = Cardinality(Orphans(x)) \/ Cardinality(more) = Cardinality(Orphans(x)) + 1
    BY <2>2, FS_AddElement
  <2>4. IsFiniteSet(Orphans(y)) /\ Cardinality(Orphans(y)) <= Cardinality(more)
    <3> HIDE DEF more
    <3> QED BY <2>1, <2>3, FS_Subset
  <2>5. Cardinality(Orphans(x)) \in Nat /\ Cardinality(Orphans(y)) \in Nat
    BY <2>2, <2>4, FS_CardinalityType
  <2> DEFINE k == Cardinality(Orphans(x))
             l == Cardinality(Orphans(y))
             n == x.refused
             m == Cardinality(more)
  <2>6. /\ k \in Nat /\ l \in Nat /\ n \in Nat /\ (m = k \/ m = k + 1) /\ l <= m
        /\ y.refused = n + 1
    BY <1>1, <1>2, <2>3, <2>4, <2>5
  <2> HIDE DEF k, l, m, n, more
  <2>7. k <= n => l <= y.refused
    BY <2>6
  <2> QED BY <2>7 DEF Bounded, k, l, n
<1> QED BY <1>2, <1>4, <1>5, <1>6

-----------------------------------------------------------------------------
(* The core. *)

\* It is in the handler exactly when there is a place to return to.
KnownPlace(c) == c.pc = Handler <=> c.ret # 0

LEMMA ExecutedEffect ==
  ASSUME NEW c \in Cores, KnownPlace(c)
  PROVE  /\ Executed(c) \in Cores /\ KnownPlace(Executed(c)) /\ Executed(c).pc = After(c)
         /\ Executed(c).pc # Handler /\ Executed(c).ret = 0
         /\ Executed(c).halted = c.halted /\ Executed(c).wasReset = c.wasReset
         /\ Executed(c).masked = c.masked
<1>1. c.pc \in 1 .. Last + 1 /\ c.ret \in 0 .. Last
  BY Sizes DEF Cores
<1>2. After(c) \in 1 .. Last /\ (IF c.pc = Handler THEN 0 ELSE c.ret) = 0
  <2>1. CASE c.pc = Handler
    <3>1. c.ret # 0
      BY <2>1 DEF KnownPlace
    <3> QED BY <1>1, <2>1, <3>1, Sizes DEF After
  <2>2. CASE c.pc # Handler
    <3>1. c.ret = 0
      BY <2>2 DEF KnownPlace
    <3> DEFINE k == c.pc
    <3>2. k \in Nat /\ Last \in Nat /\ Last > 0
      BY <1>1, Sizes
    <3> HIDE DEF k
    <3>3. (k % Last) + 1 \in 1 .. Last
      BY <3>2
    <3> QED BY <2>2, <3>1, <3>3 DEF After, k
  <2> QED BY <2>1, <2>2
<1>3. Executed(c) = [c EXCEPT !.pc = After(c), !.ret = 0]
  BY <1>2 DEF Executed
<1>4. After(c) \in Program /\ After(c) # Handler /\ 0 \in 0 .. Last
  BY <1>2, Sizes
<1> DEFINE p == After(c)
<1> HIDE DEF p
<1>5. /\ Executed(c) \in Cores /\ Executed(c).pc = p /\ Executed(c).ret = 0
      /\ Executed(c).halted = c.halted /\ Executed(c).wasReset = c.wasReset
      /\ Executed(c).masked = c.masked
  BY <1>3, <1>4 DEF Cores, p
<1> QED BY <1>4, <1>5 DEF KnownPlace, p

LEMMA InterruptedEffect ==
  ASSUME NEW c \in Cores, KnownPlace(c), c.ret = 0
  PROVE  /\ Interrupted(c) \in Cores /\ KnownPlace(Interrupted(c))
         /\ Interrupted(c).pc = Handler /\ Interrupted(c).ret = c.pc
         /\ Interrupted(c).halted = c.halted /\ Interrupted(c).wasReset = c.wasReset
         /\ Interrupted(c).masked = c.masked
<1>1. c.pc \in 1 .. Last + 1 /\ c.pc # Handler
  BY Sizes DEF Cores, KnownPlace
<1>2. c.pc \in 0 .. Last /\ c.pc # 0
  BY <1>1, Sizes
<1> QED BY <1>2, Sizes DEF Interrupted, Cores, KnownPlace

LEMMA SteppedEffect ==
  ASSUME NEW x, NEW c \in Cores, KnownPlace(c), NEW masked \in BOOLEAN, NEW d \in Stepped(x, c, masked)
  PROVE  /\ d \in Cores /\ KnownPlace(d) /\ d.wasReset = c.wasReset /\ d.masked = c.masked
         /\ "core" \notin env.fails => d.halted
         /\ "core" \notin env.fails /\ masked =>
              IF Stops(x, c.pc) THEN d.pc = c.pc /\ d.ret = c.ret
              ELSE d.pc = After(c) /\ d.ret = 0
<1> DEFINE h == [c EXCEPT !.halted = TRUE]
           m == [h EXCEPT !.met = TRUE]
<1>1. /\ h \in Cores /\ KnownPlace(h) /\ h.pc = c.pc /\ h.ret = c.ret /\ h.halted /\ h.wasReset = c.wasReset
      /\ h.masked = c.masked
  BY DEF Cores, KnownPlace
<1>2. CASE Stops(x, c.pc)
  <2>1. d = m
    BY <1>2 DEF Stepped
  <2>2. /\ m \in Cores /\ KnownPlace(m) /\ m.pc = c.pc /\ m.ret = c.ret /\ m.halted
        /\ m.wasReset = c.wasReset /\ m.masked = c.masked
    <3> HIDE DEF h
    <3> QED BY <1>1 DEF Cores, KnownPlace
  <2> HIDE DEF m
  <2> QED BY <1>2, <2>1, <2>2
<1>3. CASE ~Stops(x, c.pc)
  <2>1. \/ d = Executed(h) \/ (~masked /\ c.ret = 0 /\ d = Interrupted(h))
        \/ ("core" \in env.fails /\ d = c)
    BY <1>3, Zenon DEF Stepped, IfFails
  <2>2. After(h) = After(c)
    BY <1>1 DEF After
  <2> HIDE DEF h, m
  <2>3. CASE d = Executed(h)
    <3>1. /\ Executed(h) \in Cores /\ KnownPlace(Executed(h)) /\ Executed(h).pc = After(h)
          /\ Executed(h).ret = 0
          /\ Executed(h).halted = h.halted /\ Executed(h).wasReset = h.wasReset
          /\ Executed(h).masked = h.masked
      BY <1>1, ExecutedEffect
    <3> QED BY <1>1, <1>3, <2>2, <2>3, <3>1
  <2>4. CASE ~masked /\ c.ret = 0 /\ d = Interrupted(h)
    <3>1. /\ Interrupted(h) \in Cores /\ KnownPlace(Interrupted(h))
          /\ Interrupted(h).halted = h.halted /\ Interrupted(h).wasReset = h.wasReset
          /\ Interrupted(h).masked = h.masked
      BY <1>1, <2>4, InterruptedEffect
    <3> QED BY <1>1, <2>4, <3>1
  <2>5. CASE "core" \in env.fails /\ d = c
    BY <2>5
  <2> QED BY <2>1, <2>3, <2>4, <2>5
<1> QED BY <1>2, <1>3

-----------------------------------------------------------------------------
(* What holds whatever may fail. *)

Types ==
  /\ env \in Environments
  /\ b \in Worlds /\ w \in Watches /\ core \in Cores
  /\ state \in {"running", "halted", "unknown", "reset"}
  /\ reason \in {"none", "request", "step", "breakpoint", "undefined"}
  /\ pc \in Program
  /\ at \in {"idle", "event", "event, skipped", "wait", "waited", "end"}
  /\ found \in -Handler .. Handler /\ from \in Program \cup {0}
  /\ reads \in 0 .. MaxReads /\ timedOut \in BOOLEAN
  /\ asked \subseteq Code

\* A core that met a breakpoint is where the host believes it is.
BreakKnown == reason = "breakpoint" => core.halted /\ pc = core.pc

\* The places of a step.
StepKnown ==
  IF at = "idle" THEN Idle
  ELSE /\ state = "halted" /\ reason = "step"
       /\ from \in Program /\ found \in {0, from, -from}
       /\ at \in {"event", "wait", "waited"} => pc = from
       /\ found > 0 => found \in Listed(b)
       /\ found < 0 => "removeFound" \in env.handlers

Basic == Types /\ Sorted(b) /\ KnownPlace(core) /\ BreakKnown /\ StepKnown

LEMMA BasicTypeOK == ASSUME Basic PROVE TypeOK
BY DEF Basic, Types, TypeOK, Worlds, Watches, Cores, Points, Cs

LEMMA Env ==
  ASSUME env \in Environments
  PROVE  /\ env.code \subseteq Code /\ env.watch \subseteq Watch /\ env.own \subseteq Program
         /\ env.fails \subseteq {"unit", "memory", "core"}
         /\ env.handlers \subseteq {"add", "remove", "removeFound"}
         /\ env.mode \in {"auto", "off", "on", "steponly"}
         /\ env.enabled \in BOOLEAN /\ env.resets \in BOOLEAN /\ env.reexamined \in BOOLEAN
         /\ \A a \in env.code : a \in Program
BY EnvironmentAssumption, LoopAssumption

LEMMA BasicInit == ASSUME Init PROVE Basic
<1>1. NoBreak \in Points
  BY Sizes DEF NoBreak, Points
<1>2. b \in Worlds /\ Sorted(b)
  <2>1. \A a \in Program : b.bps[a] = NoBreak /\ NoBreak.type = "none"
    BY DEF Init, NoBreak
  <2>2. env.enabled \in BOOLEAN
    BY Env DEF Init
  <2>3. b \in Worlds
    BY <1>1, <2>2, Zenon DEF Init, Worlds, Cs
  <2> QED BY <2>1, <2>3 DEF Sorted
<1>3. w \in Watches
  BY Sizes DEF Init, Watches, NotListed
<1>4. core \in Cores /\ KnownPlace(core)
  BY Sizes DEF Init, Cores, KnownPlace
<1>5. BreakKnown /\ StepKnown
  BY DEF Init, BreakKnown, StepKnown, Idle
<1>6. Types
  <2>1. 0 \in -Handler .. Handler /\ 0 \in 0 .. MaxReads /\ 1 \in Program
    BY Sizes
  <2>2. /\ env \in Environments /\ state = "running" /\ reason = "none" /\ pc = 1 /\ at = "idle"
        /\ found = 0 /\ from = 0 /\ reads = 0 /\ timedOut = FALSE /\ asked = {}
    BY DEF Init, Idle
  <2> QED BY <1>2, <1>3, <1>4, <2>1, <2>2 DEF Types
<1> QED BY <1>2, <1>4, <1>5, <1>6 DEF Basic

-----------------------------------------------------------------------------
(* The steps: what they do to the breakpoints. *)

LEMMA HardResult ==
  ASSUME NEW x, NEW a, NEW r \in SetHard(x, a)
  PROVE  r = [b |-> r.b, ok |-> r.ok]
<1> DEFINE free == {c \in 1 .. Comparators : ~x.used[c]}
           c == Min(free)
           x1 == [x EXCEPT !.bps[a].set = c, !.used[c] = TRUE, !.fpcr[c] = a]
<1>1. r \in CASE free = {} -> {Bad(x)}
              [] free # {} /\ a \in High -> {Bad([x EXCEPT !.bps[a].set = c])}
              [] OTHER -> UNION {EnableFpb(x2) : x2 \in WriteComparator(x1, c)}
  BY Zenon DEF SetHard
<1> HIDE DEF c, x1, free
<1>2. ASSUME NEW y, r = Bad(y) PROVE r = [b |-> r.b, ok |-> r.ok]
  BY <1>2 DEF Bad
<1>3. ASSUME NEW y, r = Ok(y) PROVE r = [b |-> r.b, ok |-> r.ok]
  BY <1>3 DEF Ok
<1>4. ASSUME NEW y, r \in EnableFpb(y) PROVE (\E z : r = Ok(z)) \/ (\E z : r = Bad(z))
  <2>1. \/ r = Ok(y) \/ r = Ok([y EXCEPT !.enabled = TRUE, !.on = TRUE])
        \/ r = Bad(y) \/ r = Bad([y EXCEPT !.on = TRUE])
    BY <1>4, Zenon DEF EnableFpb, IfFails
  <2> QED BY <2>1, Zenon
<1>5. (\E z : r = Ok(z)) \/ (\E z : r = Bad(z))
  <2>1. CASE free = {}
    BY <1>1, <2>1
  <2>2. CASE free # {} /\ a \in High
    <3>1. r = Bad([x EXCEPT !.bps[a].set = c])
      BY <1>1, <2>2
    <3> QED BY <3>1, Zenon
  <2>3. CASE free # {} /\ a \notin High
    <3>1. r \in UNION {EnableFpb(x2) : x2 \in WriteComparator(x1, c)}
      BY <1>1, <2>3
    <3>2. \E x2 : r \in EnableFpb(x2)
      BY <3>1, Zenon
    <3> QED BY <1>4, <3>2
  <2> QED BY <2>1, <2>2, <2>3
<1> QED BY <1>2, <1>3, <1>5

\* A freed record takes a comparator, or gives one back; no breakpoint changes.
LEMMA SetFreedEffect ==
  ASSUME NEW x \in Worlds, -found \in Program, NEW r \in SetFreed(x)
  PROVE  r.b \in Worlds /\ r.b.bps = x.bps /\ r.ok \in BOOLEAN
<1> DEFINE a == -found
           p == [x.bps[a] EXCEPT !.type = "hard"]
           y == [x EXCEPT !.bps[a].type = "hard"]
<1>1. r = Ok(x) \/ \E s \in SetHard(y, a) : r = [s EXCEPT !.b.bps = x.bps]
  BY Zenon DEF SetFreed
<1>2. CASE r = Ok(x)
  <2>1. r.b = x /\ r.ok = TRUE
    BY <1>2 DEF Ok
  <2> QED BY <2>1
<1>3. CASE \E s \in SetHard(y, a) : r = [s EXCEPT !.b.bps = x.bps]
  <2>0. a \in Program
    OBVIOUS
  <2>1. p \in Points
    <3>1. x.bps[a] \in Points
      BY <2>0 DEF Worlds
    <3> HIDE DEF a
    <3> QED BY <3>1 DEF Points
  <2> HIDE DEF a
  <2>2. y = [x EXCEPT !.bps = [x.bps EXCEPT ![a] = p]]
    BY <2>0 DEF Worlds
  <2> HIDE DEF y, p
  <2>3. y \in Worlds
    BY <2>0, <2>1, <2>2 DEF Worlds
  <2>4. PICK s \in SetHard(y, a) : r = [s EXCEPT !.b.bps = x.bps]
    BY <1>3
  <2>5. s.b \in Worlds /\ s.ok \in BOOLEAN
    <3>1. CASE s = Bad(y)
      <4>1. s.b = y /\ s.ok = FALSE
        BY <3>1 DEF Bad
      <4> QED BY <2>3, <4>1
    <3>2. CASE \E c \in Cs : s = Bad([y EXCEPT !.bps[a].set = c])
      <4>1. PICK c \in Cs : s = Bad([y EXCEPT !.bps[a].set = c])
        BY <3>2
      <4>2. [y.bps[a] EXCEPT !.set = c] \in Points
        BY <2>0, <2>3, PointSet DEF Worlds
      <4>3. [y EXCEPT !.bps[a].set = c] \in Worlds
        BY <2>0, <2>3, <4>2 DEF Worlds
      <4>4. s.b = [y EXCEPT !.bps[a].set = c] /\ s.ok = FALSE
        BY <4>1 DEF Bad
      <4> QED BY <4>3, <4>4
    <3>3. CASE s.ok \in BOOLEAN /\ \E c \in Cs : Took(y, s.b, a, c)
      BY <3>3 DEF Took
    <3> QED BY <2>0, <2>3, <2>4, <3>1, <3>2, <3>3, SetHardEffect
  <2>6. s = [b |-> s.b, ok |-> s.ok]
    BY <2>4, HardResult
  <2>7. r.b = [s.b EXCEPT !.bps = x.bps] /\ r.ok = s.ok
    BY <2>4, <2>6
  <2> QED BY <2>5, <2>7 DEF Worlds
<1> QED BY <1>1, <1>2, <1>3

LEMMA UnsetFreedEffect ==
  ASSUME NEW x \in Worlds, NEW y \in UnsetFreed(x)
  PROVE  y \in Worlds /\ y.bps = x.bps
<1>1. \/ y = x
      \/ \E c \in Cs : y \in WriteComparator([x EXCEPT !.used[c] = FALSE, !.fpcr[c] = 0], c)
  BY Zenon DEF UnsetFreed, Cs
<1>2. ASSUME NEW c \in Cs, y \in WriteComparator([x EXCEPT !.used[c] = FALSE, !.fpcr[c] = 0], c)
      PROVE  y \in Worlds /\ y.bps = x.bps
  <2> DEFINE u == [x EXCEPT !.used[c] = FALSE, !.fpcr[c] = 0]
  <2>1. u \in Worlds /\ u.bps = x.bps
    BY Sizes DEF Worlds
  <2>2. y \in WriteComparator(u, c)
    BY <1>2
  <2> HIDE DEF u
  <2> QED BY <2>1, <2>2, WriteEffect
<1> QED BY <1>1, <1>2

LEMMA AddedEffect ==
  ASSUME Basic, NEW a \in Code, NEW type \in {"hard", "soft"}, Add(a, type)
  PROVE  /\ Keeps(b, b') /\ Elsewhere(b, b', a) /\ asked' \subseteq Code
         /\ \/ /\ asked' = asked \cup {a} /\ a \notin Listed(b)
               /\ Listed(b') = Listed(b) \cup {a} /\ b'.bps[a].set # 0
            \/ asked' = asked /\ b'.bps = b.bps
<1>1. PICK r \in AddBreakpoint(b, a, type) : b' = r.b /\ asked' = IF r.ok THEN asked \cup {a} ELSE asked
  BY DEF Add
<1>2. a \in Program /\ b \in Worlds /\ Sorted(b) /\ asked \subseteq Code
  BY Sizes DEF Basic, Types
<1>3. /\ r.ok \in BOOLEAN /\ Keeps(b, r.b) /\ Elsewhere(b, r.b, a)
      /\ r.ok => /\ a \notin Listed(b) /\ Listed(r.b) = Listed(b) \cup {a}
                 /\ r.b.bps[a].set # 0
      /\ ~r.ok => r.b.bps = b.bps
  BY <1>1, <1>2, AddEffect
<1> QED BY <1>1, <1>2, <1>3

LEMMA RemovedEffect ==
  ASSUME Basic, NEW a \in Code, Remove(a)
  PROVE  /\ Keeps(b, b') /\ Elsewhere(b, b', a) /\ a \in Listed(b)
         /\ asked' = asked \ {a} /\ Listed(b') = Listed(b) \ {a}
         /\ Fitted(b, a) => \E c \in Cs : ~b'.used[c]
         /\ \A d \in Cs : b'.used[d] => b.used[d]
<1>1. a \in Listed(b) /\ b' \in RemoveBreakpoint(b, a) /\ b \in Worlds /\ Sorted(b) /\ asked' = asked \ {a}
  BY DEF Basic, Types, Remove
<1> QED BY <1>1, RemoveEffect

LEMMA SkippedEffect ==
  ASSUME Basic, NEW x, Skips(x)
  PROVE  /\ Skipped(core) \in Cores /\ KnownPlace(Skipped(core))
         /\ Skipped(core).pc = After(core) /\ Skipped(core).ret = 0
         /\ Skipped(core).halted = core.halted
         /\ Skipped(core).wasReset = core.wasReset /\ Skipped(core).masked = core.masked
         /\ core.halted /\ pc = core.pc
<1>1. core \in Cores /\ KnownPlace(core) /\ pc = core.pc /\ core.halted
  BY DEF Basic, Types, BreakKnown, Skips
<1>2. [core EXCEPT !.pc = pc] = core
  BY <1>1 DEF Cores
<1>3. /\ Executed(core) \in Cores /\ KnownPlace(Executed(core)) /\ Executed(core).pc = After(core)
      /\ Executed(core).ret = 0
      /\ Executed(core).halted = core.halted /\ Executed(core).wasReset = core.wasReset
      /\ Executed(core).masked = core.masked
  BY <1>1, ExecutedEffect
<1> DEFINE d == Executed(core)
<1> HIDE DEF d
<1>4. Skipped(core) = [d EXCEPT !.halted = core.halted]
  BY <1>2 DEF Skipped, d
<1>5. Skipped(core) = d
  BY <1>3, <1>4 DEF Cores, d
<1> QED BY <1>1, <1>3, <1>5 DEF d

LEMMA ResumeEffect ==
  ASSUME Basic, Resume
  PROVE  /\ Keeps(b, b') /\ Listed(b') = Listed(b)
         /\ env.fails = {} /\ Unset(b) = {} => \A a \in Listed(b') : b'.bps[a].set # 0
         /\ core' \in Cores /\ KnownPlace(core') /\ core'.wasReset = core.wasReset
         /\ pc' \in Program
<1>0. b \in Worlds /\ Sorted(b) /\ core \in Cores /\ KnownPlace(core) /\ pc \in Program
  BY DEF Basic, Types
<1>1. PICK handle \in BOOLEAN, x \in EnableBreakpoints(b) :
        LET skip == pc \notin Listed(x) /\ Skips(x)
            c == IF skip THEN Skipped(core) ELSE core
            here == IF skip THEN c.pc ELSE pc
            Run(y, d) ==
              /\ b' = y
              /\ core' \in {[d EXCEPT !.halted = FALSE, !.masked = MaskedRun]} \cup IfFails("core", {d})
        IN /\ pc' = here
           /\ IF handle /\ here \in Listed(x)
              THEN \E y \in UnsetBreakpoint(x, here) : \E d \in Stepped(y, c, TRUE) :
                     \E r \in SetBreakpoint(y, here) : Run(r.b, [d EXCEPT !.met = FALSE])
              ELSE Run(x, c)
  BY Zenon DEF Resume
<1> DEFINE skip == pc \notin Listed(x) /\ Skips(x)
           c == IF skip THEN Skipped(core) ELSE core
           here == IF skip THEN c.pc ELSE pc
           Ran(d) == core' \in {[d EXCEPT !.halted = FALSE, !.masked = MaskedRun]} \cup IfFails("core", {d})
<1>2. /\ pc' = here
      /\ \/ b' = x /\ Ran(c)
         \/ /\ here \in Listed(x)
            /\ \E y \in UnsetBreakpoint(x, here) : \E d \in Stepped(y, c, TRUE) :
                 \E r \in SetBreakpoint(y, here) : b' = r.b /\ Ran([d EXCEPT !.met = FALSE])
  BY <1>1, Zenon
<1>3. c \in Cores /\ KnownPlace(c) /\ here \in Program /\ c.wasReset = core.wasReset
  <2>1. CASE skip
    <3>1. /\ Skipped(core) \in Cores /\ KnownPlace(Skipped(core))
          /\ Skipped(core).wasReset = core.wasReset
      BY <2>1, SkippedEffect
    <3> QED BY <2>1, <3>1 DEF Cores
  <2>2. CASE ~skip
    BY <1>0, <2>2
  <2> QED BY <2>1, <2>2
<1> HIDE DEF skip, c, here
<1>4. MaskedRun \in BOOLEAN
  BY DEF MaskedRun
<1>5. ASSUME NEW d \in Cores, KnownPlace(d), Ran(d)
      PROVE  core' \in Cores /\ KnownPlace(core') /\ core'.wasReset = d.wasReset
  <2>1. core' = d \/ core' = [d EXCEPT !.halted = FALSE, !.masked = MaskedRun]
    BY <1>5, Zenon DEF IfFails
  <2>2. /\ [d EXCEPT !.halted = FALSE, !.masked = MaskedRun] \in Cores
        /\ KnownPlace([d EXCEPT !.halted = FALSE, !.masked = MaskedRun])
        /\ [d EXCEPT !.halted = FALSE, !.masked = MaskedRun].wasReset = d.wasReset
    BY <1>4, <1>5 DEF Cores, KnownPlace
  <2> QED BY <1>5, <2>1, <2>2
<1> HIDE DEF Ran
<1>6. Settles(b, x) /\ (Unset(b) = {} => x = b)
  BY <1>0, EnableAllEffect
<1>7. /\ Keeps(b, x) /\ x \in Worlds /\ Sorted(x) /\ Listed(x) = Listed(b)
      /\ Unset(b) = {} => \A a \in Listed(x) : x.bps[a].set # 0
  <2>1. Keeps(b, x) /\ x \in Worlds /\ Sorted(x) /\ Listed(x) = Listed(b)
    BY <1>0, <1>6 DEF Settles, Keeps, Listed
  <2>2. Unset(b) = {} => \A a \in Listed(b) : b.bps[a].set # 0
    BY DEF Unset
  <2> QED BY <1>6, <2>1, <2>2
<1>8. CASE b' = x /\ Ran(c)
  BY <1>2, <1>3, <1>5, <1>7, <1>8
<1>9. CASE /\ here \in Listed(x)
           /\ \E y \in UnsetBreakpoint(x, here) : \E d \in Stepped(y, c, TRUE) :
                \E r \in SetBreakpoint(y, here) : b' = r.b /\ Ran([d EXCEPT !.met = FALSE])
  <2>0. PICK y \in UnsetBreakpoint(x, here) :
               \E d \in Stepped(y, c, TRUE) :
                 \E r \in SetBreakpoint(y, here) : b' = r.b /\ Ran([d EXCEPT !.met = FALSE])
    BY <1>9
  <2>1. PICK d \in Stepped(y, c, TRUE) :
               \E r \in SetBreakpoint(y, here) : b' = r.b /\ Ran([d EXCEPT !.met = FALSE])
    BY <2>0
  <2>2. PICK r \in SetBreakpoint(y, here) : b' = r.b /\ Ran([d EXCEPT !.met = FALSE])
    BY <2>1
  <2>3. /\ Keeps(x, y) /\ Elsewhere(x, y, here) /\ y.bps[here].type = x.bps[here].type
        /\ y.bps[here].type = "hard" => y.bps[here].set = 0
        /\ Fitted(x, here) => \E e \in Cs : ~y.used[e]
    BY <1>7, <1>9, UnsetEffect
  <2>4. y \in Worlds /\ Sorted(y) /\ here \in Listed(y)
    BY <1>7, <1>9, <2>3 DEF Keeps, Listed
  <2>5. /\ Keeps(y, b') /\ Elsewhere(y, b', here) /\ b'.bps[here].type = y.bps[here].type
        /\ r.ok \in BOOLEAN /\ r.ok => b'.bps[here].set # 0
        /\ env.fails = {} /\ ~r.ok => y.bps[here].type = "hard" /\ \A e \in Cs : y.used[e]
    BY <2>2, <2>4, SetEffect
  <2>6. Keeps(b, b')
    BY <1>7, <2>3, <2>5, KeepsThen
  <2>7. Listed(b') = Listed(b)
    BY <1>7, <2>3, <2>5 DEF Listed, Elsewhere
  <2>8. ASSUME env.fails = {}, Unset(b) = {}, NEW a \in Listed(b') PROVE b'.bps[a].set # 0
    <3>1. CASE a # here
      <4>1. a \in Program /\ a \in Listed(x)
        BY <1>7, <2>7 DEF Listed
      <4> QED BY <1>7, <2>3, <2>5, <2>8, <3>1, <4>1 DEF Elsewhere
    <3>2. CASE a = here
      <4>1. x.bps[here].type = "hard" => Fitted(x, here)
        BY <1>7, <1>9, <2>8 DEF Fitted
      <4> QED BY <2>3, <2>5, <2>8, <3>2, <4>1
    <3> QED BY <3>1, <3>2
  <2>9. [d EXCEPT !.met = FALSE] \in Cores /\ KnownPlace([d EXCEPT !.met = FALSE])
        /\ [d EXCEPT !.met = FALSE].wasReset = core.wasReset
    <3>1. d \in Cores /\ KnownPlace(d) /\ d.wasReset = c.wasReset
      <4>1. TRUE \in BOOLEAN
        OBVIOUS
      <4>2. c \in Cores /\ KnownPlace(c) /\ d \in Stepped(y, c, TRUE)
        BY <1>3, <2>1
      <4> QED BY <4>1, <4>2, SteppedEffect, ZenonT(40)
    <3> QED BY <1>3, <3>1 DEF Cores, KnownPlace
  <2>10. core' \in Cores /\ KnownPlace(core') /\ core'.wasReset = core.wasReset
    BY <1>5, <2>2, <2>9
  <2> QED BY <1>2, <1>3, <2>6, <2>7, <2>8, <2>10
<1> QED BY <1>2, <1>8, <1>9

-----------------------------------------------------------------------------
(* The steps: each keeps what holds whatever may fail. *)

LEMMA BasicFacts ==
  ASSUME Basic
  PROVE  /\ b \in Worlds /\ Sorted(b) /\ w \in Watches /\ core \in Cores /\ KnownPlace(core)
         /\ pc \in Program /\ found \in Int /\ asked \subseteq Code /\ env \in Environments
         /\ 0 \in -Handler .. Handler /\ 0 \in 0 .. MaxReads
         /\ \A a \in Program : a \in -Handler .. Handler /\ -a \in -Handler .. Handler
         /\ at = "idle" => found = 0 /\ from = 0 /\ reads = 0 /\ timedOut = FALSE
         /\ found > 0 => found \in Program /\ found = from /\ found \in Listed(b)
         /\ found < 0 => -found \in Program /\ -found = from /\ "removeFound" \in env.handlers
         /\ at # "idle" => from \in Program /\ state = "halted" /\ reason = "step"
<1>1. Types /\ StepKnown
  BY DEF Basic
<1>2. Handler \in Nat /\ Program = 1 .. Handler
  BY Sizes
<1>3. found \in Int
  <2>1. found \in -Handler .. Handler
    BY <1>1 DEF Types
  <2> QED BY <1>2, <2>1
<1>4. \A a \in Program : a \in -Handler .. Handler /\ -a \in -Handler .. Handler /\ a \in Int
  BY <1>2
<1>5. at = "idle" => found = 0 /\ from = 0 /\ reads = 0 /\ timedOut = FALSE
  BY <1>1 DEF StepKnown, Idle
<1>6. found # 0 => from \in Program /\ found \in {from, -from}
  BY <1>1, <1>5 DEF StepKnown
<1>7. found > 0 => found \in Program /\ found = from /\ found \in Listed(b)
  BY <1>1, <1>2, <1>3, <1>5, <1>6 DEF StepKnown
<1>8. found < 0 => -found \in Program /\ -found = from /\ "removeFound" \in env.handlers
  BY <1>1, <1>2, <1>3, <1>5, <1>6 DEF StepKnown
<1>9. at # "idle" => from \in Program /\ state = "halted" /\ reason = "step"
  BY <1>1 DEF StepKnown
<1>10. 0 \in -Handler .. Handler /\ 0 \in 0 .. MaxReads
  BY <1>2, Sizes
<1> QED BY <1>1, <1>3, <1>4, <1>5, <1>7, <1>8, <1>9, <1>10 DEF Basic, Types

\* The core by itself.
LEMMA BasicCore ==
  ASSUME Basic, CoreRuns \/ CoreInterrupted
  PROVE  Basic'
<1>1. ~core.halted /\ UNCHANGED <<env, b, w, view, step, asked>>
  BY DEF CoreRuns, CoreInterrupted
<1>2. core \in Cores /\ KnownPlace(core)
  BY BasicFacts
<1>3. core' \in Cores /\ KnownPlace(core')
  <2>1. CASE CoreRuns /\ Stops(b, core.pc)
    <3>1. core' = [core EXCEPT !.halted = TRUE, !.met = TRUE]
      BY <2>1 DEF CoreRuns
    <3> QED BY <1>2, <3>1 DEF Cores, KnownPlace
  <2>2. CASE CoreRuns /\ ~Stops(b, core.pc)
    <3>1. core' = Executed(core)
      BY <2>2 DEF CoreRuns
    <3> QED BY <1>2, <3>1, ExecutedEffect
  <2>3. CASE CoreInterrupted
    <3>1. core' = Interrupted(core) /\ core.ret = 0
      BY <2>3 DEF CoreInterrupted
    <3> QED BY <1>2, <3>1, InterruptedEffect
  <2> QED BY <2>1, <2>2, <2>3
<1>4. BreakKnown'
  BY <1>1 DEF Basic, BreakKnown, view
<1>5. StepKnown'
  BY <1>1 DEF Basic, StepKnown, Idle, Listed, view, step
<1> QED BY <1>1, <1>3, <1>4, <1>5 DEF Basic, Types, view, step

LEMMA BasicReset ==
  ASSUME Basic, CoreReset
  PROVE  /\ Basic' /\ b'.bps = b.bps /\ b'.used = b.used /\ b'.fpcr = b.fpcr /\ b'.mem = b.mem
         /\ b'.enabled = b.enabled
<1>1. /\ ~core.halted /\ at = "idle" /\ state = "running"
      /\ UNCHANGED <<env, w, view, step, asked>>
      /\ core' = [core EXCEPT !.pc = 1, !.ret = 0, !.wasReset = TRUE, !.masked = FALSE]
  BY DEF CoreReset
<1>2. core \in Cores /\ KnownPlace(core) /\ b \in Worlds /\ Sorted(b)
  BY BasicFacts
<1>3. core' \in Cores /\ KnownPlace(core')
  <2>1. 1 # Handler /\ 1 \in Program /\ 0 \in 0 .. Last
    BY Sizes
  <2> QED BY <1>1, <1>2, <2>1 DEF Cores, KnownPlace
<1>4. /\ b' \in Worlds /\ b'.bps = b.bps /\ b'.used = b.used /\ b'.fpcr = b.fpcr /\ b'.mem = b.mem
      /\ b'.enabled = b.enabled
  BY <1>2, ZenonT(40) DEF CoreReset, Worlds, Cs
<1>5. Sorted(b') /\ Listed(b') = Listed(b)
  BY <1>2, <1>4 DEF Sorted, Listed
<1>6. BreakKnown'
  BY <1>1 DEF Basic, BreakKnown, view
<1>7. StepKnown'
  BY <1>1 DEF Basic, StepKnown, Idle, view, step
<1> QED BY <1>1, <1>3, <1>4, <1>5, <1>6, <1>7 DEF Basic, Types, view, step

\* What the user does between steps of a program.
LEMMA BasicBreak ==
  ASSUME Basic, Break
  PROVE  Basic' /\ Keeps(b, b')
<1>1. at = "idle" /\ UNCHANGED <<env, w, core, view, step>>
  BY DEF Break
<1>2. PICK a \in env.code : Remove(a) \/ \E type \in {"hard", "soft"} : Add(a, type)
  BY DEF Break
<1>3. a \in Code
  BY <1>2, Env, BasicFacts
<1>4. Keeps(b, b') /\ asked' \subseteq Code
  <2>1. CASE Remove(a)
    BY <1>3, <2>1, RemovedEffect, BasicFacts
  <2>2. CASE \E type \in {"hard", "soft"} : Add(a, type)
    BY <1>3, <2>2, AddedEffect
  <2> QED BY <1>2, <2>1, <2>2
<1>5. b' \in Worlds /\ Sorted(b')
  BY <1>4, BasicFacts DEF Keeps
<1>6. BreakKnown' /\ StepKnown'
  BY <1>1 DEF Basic, BreakKnown, StepKnown, Idle, view, step
<1> QED BY <1>1, <1>4, <1>5, <1>6 DEF Basic, Types, view, step

LEMMA BasicWatch ==
  ASSUME Basic, AddWatchpoint \/ RemoveWatchpoint
  PROVE  /\ Basic' /\ UNCHANGED <<env, b, core, view, step, asked>>
         /\ Counted(w) => Counted(w')
         /\ Matched(w) => Matched(w')
         /\ Bounded(w) => Bounded(w')
<1>1. UNCHANGED <<env, b, core, view, step, asked>>
  BY DEF AddWatchpoint, RemoveWatchpoint
<1>2. w \in Watches
  BY BasicFacts
<1>3. /\ w' \in Watches /\ (Counted(w) => Counted(w')) /\ (Matched(w) => Matched(w'))
      /\ Bounded(w) => Bounded(w')
  <2>1. CASE AddWatchpoint
    <3>1. PICK a \in env.watch :
            w.wps[a] = NotListed /\ w' = WithWatch(w, a)
      BY <2>1 DEF AddWatchpoint, WithWatch
    <3>2. a \in Watch /\ w.available >= 1
      BY <2>1, Env, BasicFacts DEF AddWatchpoint
    <3> QED BY <1>2, <3>1, <3>2, AddWatchEffect
  <2>2. CASE RemoveWatchpoint
    <3>1. PICK a \in {v \in Watch : w.wps[v] # NotListed} :
            w' = IF state = "halted" THEN WithoutWatch(w, a) ELSE RefusedWatch(w, a)
      BY <2>2 DEF RemoveWatchpoint, WithoutWatch, RefusedWatch
    <3>2. a \in Watch /\ w.wps[a] # NotListed
      OBVIOUS
    <3>3. CASE w' = WithoutWatch(w, a)
      BY <1>2, <3>2, <3>3, RemoveWatchEffect
    <3>4. CASE w' = RefusedWatch(w, a)
      BY <1>2, <3>2, <3>4, RefusedWatchEffect
    <3> QED BY <3>1, <3>3, <3>4
  <2> QED BY <2>1, <2>2
<1>4. BreakKnown' /\ StepKnown'
  BY <1>1 DEF Basic, BreakKnown, StepKnown, Idle, Listed, view, step
<1> QED BY <1>1, <1>3, <1>4 DEF Basic, Types, view, step

LEMMA BasicHalt ==
  ASSUME Basic, Halt
  PROVE  Basic'
<1>1. /\ at = "idle" /\ UNCHANGED <<env, b, w, state, pc, step, asked>> /\ reason' = "request"
      /\ core' = core \/ core' = [core EXCEPT !.halted = TRUE]
  BY DEF Halt, IfFails
<1>2. core' \in Cores /\ KnownPlace(core')
  BY <1>1, BasicFacts DEF Cores, KnownPlace
<1>3. BreakKnown' /\ StepKnown'
  BY <1>1 DEF Basic, BreakKnown, StepKnown, Idle, step
<1> QED BY <1>1, <1>2, <1>3 DEF Basic, Types, step

LEMMA BasicResume ==
  ASSUME Basic, Resume
  PROVE  Basic'
<1>1. /\ at = "idle" /\ UNCHANGED <<env, step, asked>> /\ state' = "running" /\ reason' = "none"
      /\ w' = EnableWatchpoints(w)
  BY DEF Resume
<1>2. Keeps(b, b') /\ core' \in Cores /\ KnownPlace(core') /\ pc' \in Program
  BY ResumeEffect
<1>3. b' \in Worlds /\ Sorted(b')
  BY <1>2, BasicFacts DEF Keeps
<1>4. w' \in Watches
  BY <1>1, BasicFacts, EnableWatchesEffect
<1>5. BreakKnown' /\ StepKnown'
  BY <1>1 DEF Basic, BreakKnown, StepKnown, Idle, step
<1> QED BY <1>1, <1>2, <1>3, <1>4, <1>5 DEF Basic, Types, step

LEMMA BasicStepBegins ==
  ASSUME Basic, StepBegins
  PROVE  /\ Basic' /\ Keeps(b, b') /\ Listed(b') = Listed(b) /\ Elsewhere(b, b', pc)
         /\ at' \in {"event", "event, skipped"} /\ from' = pc /\ found' \in {0, pc}
         /\ b'.bps[pc].type = b.bps[pc].type
         /\ found' = 0 => b' = b
         /\ found' # 0 => /\ "memory" \notin env.fails => b'.bps[pc].set = 0
                          /\ Fitted(b, pc) => \E c \in Cs : ~b'.used[c]
         /\ at' = "event" => core' = core /\ pc' = pc
         /\ at' = "event, skipped" => /\ pc = core.pc /\ core'.pc = After(core)
                                      /\ core'.halted = core.halted
                                      /\ core'.wasReset = core.wasReset
<1>1. PICK handle \in BOOLEAN :
       LET hit == handle /\ pc \in Listed(b) IN
       /\ found' = IF hit THEN pc ELSE 0
       /\ b' \in IF hit THEN UnsetBreakpoint(b, pc) ELSE {b}
       /\ IF Skips(b')
          THEN at' = "event, skipped" /\ core' = Skipped(core) /\ pc' = core'.pc
          ELSE at' = "event" /\ UNCHANGED <<core, pc>>
  BY DEF StepBegins
<1>2. /\ at = "idle" /\ state = "halted" /\ from' = pc /\ reads' = 0 /\ timedOut' = FALSE
      /\ reason' = "step" /\ UNCHANGED <<env, w, state, asked>>
  BY DEF StepBegins
<1>3. b \in Worlds /\ Sorted(b) /\ core \in Cores /\ KnownPlace(core) /\ pc \in Program /\ pc # 0
  BY BasicFacts, Sizes
<1>4. /\ Keeps(b, b') /\ Elsewhere(b, b', pc) /\ b'.bps[pc].type = b.bps[pc].type
      /\ found' \in {0, pc} /\ (found' # 0 => pc \in Listed(b))
      /\ found' = 0 => b' = b
      /\ found' # 0 => /\ "memory" \notin env.fails => b'.bps[pc].set = 0
                       /\ Fitted(b, pc) => \E c \in Cs : ~b'.used[c]
  <2>1. CASE handle /\ pc \in Listed(b)
    <3>1. b' \in UnsetBreakpoint(b, pc) /\ found' = pc
      BY <1>1, <2>1
    <3> QED BY <1>3, <2>1, <3>1, UnsetEffect
  <2>2. CASE ~(handle /\ pc \in Listed(b))
    <3>1. b' = b /\ found' = 0
      BY <1>1, <2>2
    <3> QED BY <1>3, <3>1, KeepsItself DEF Elsewhere
  <2> QED BY <2>1, <2>2
<1>5. Listed(b') = Listed(b) /\ b' \in Worlds /\ Sorted(b')
  BY <1>3, <1>4 DEF Listed, Elsewhere, Keeps
<1>6. /\ core' \in Cores /\ KnownPlace(core') /\ pc' \in Program
      /\ at' \in {"event", "event, skipped"}
      /\ at' = "event" => core' = core /\ pc' = pc
      /\ at' = "event, skipped" => /\ pc = core.pc /\ core'.pc = After(core)
                                   /\ core'.halted = core.halted
                                   /\ core'.wasReset = core.wasReset
  <2>1. CASE Skips(b')
    <3>1. /\ Skipped(core) \in Cores /\ KnownPlace(Skipped(core)) /\ Skipped(core).halted = core.halted
          /\ Skipped(core).wasReset = core.wasReset /\ pc = core.pc
          /\ Skipped(core).pc = After(core)
      BY <2>1, SkippedEffect
    <3>2. at' = "event, skipped" /\ core' = Skipped(core) /\ pc' = core'.pc
      BY <1>1, <2>1
    <3> QED BY <3>1, <3>2 DEF Cores
  <2>2. CASE ~Skips(b')
    <3>1. at' = "event" /\ core' = core /\ pc' = pc
      BY <1>1, <2>2
    <3> QED BY <1>3, <3>1
  <2> QED BY <2>1, <2>2
<1>7. StepKnown' /\ BreakKnown'
  <2>1. found' > 0 => found' \in Listed(b')
    BY <1>4, <1>5
  <2>2. ~(found' < 0)
    BY <1>3, <1>4, Sizes
  <2> QED BY <1>2, <1>3, <1>4, <1>6, <2>1, <2>2 DEF StepKnown, BreakKnown
<1>8. Types'
  <2>1. found' \in -Handler .. Handler /\ 0 \in 0 .. MaxReads
    BY <1>4, BasicFacts
  <2> QED BY <1>2, <1>3, <1>5, <1>6, <2>1, BasicFacts DEF Basic, Types
<1> QED BY <1>4, <1>5, <1>6, <1>7, <1>8, <1>2 DEF Basic

LEMMA BasicEventHandler ==
  ASSUME Basic, EventHandler
  PROVE  /\ Basic' /\ Keeps(b, b')
         /\ found' = found \/ found' < 0
<1>1. /\ at \in {"event", "event, skipped"}
      /\ UNCHANGED <<env, w, core, view, at, from, reads, timedOut>>
  BY DEF EventHandler
<1>2. PICK a \in env.code :
       \/ "add" \in env.handlers /\ Add(a, "hard") /\ UNCHANGED found
       \/ "remove" \in env.handlers /\ a # found /\ Remove(a) /\ UNCHANGED found
       \/ "removeFound" \in env.handlers /\ a = found /\ Remove(a) /\ found' = -found
  BY DEF EventHandler
<1>3. a \in Code /\ a \in Program /\ a > 0 /\ b \in Worlds /\ Sorted(b)
  BY <1>2, Env, BasicFacts, Sizes
<1>4. CASE Add(a, "hard") /\ UNCHANGED found
  <2>1. /\ Keeps(b, b') /\ asked' \subseteq Code
        /\ Listed(b) \subseteq Listed(b')
    <3>1. /\ Keeps(b, b') /\ asked' \subseteq Code
          /\ Listed(b') = Listed(b) \cup {a} \/ b'.bps = b.bps
      BY <1>3, <1>4, AddedEffect
    <3> QED BY <3>1 DEF Listed
  <2>2. b' \in Worlds /\ Sorted(b')
    BY <1>3, <2>1 DEF Keeps
  <2>3. StepKnown' /\ BreakKnown'
    BY <1>1, <1>4, <2>1 DEF Basic, StepKnown, BreakKnown, view
  <2> QED BY <1>1, <1>4, <2>1, <2>2, <2>3 DEF Basic, Types, view
<1>5. CASE a # found /\ Remove(a) /\ UNCHANGED found
  <2>1. Keeps(b, b') /\ asked' \subseteq Code /\ Listed(b') = Listed(b) \ {a}
    BY <1>3, <1>5, RemovedEffect, BasicFacts
  <2>2. b' \in Worlds /\ Sorted(b')
    BY <1>3, <2>1 DEF Keeps
  <2>3. StepKnown' /\ BreakKnown'
    BY <1>1, <1>5, <2>1 DEF Basic, StepKnown, BreakKnown, view
  <2> QED BY <1>1, <1>5, <2>1, <2>2, <2>3 DEF Basic, Types, view
<1>6. CASE "removeFound" \in env.handlers /\ a = found /\ Remove(a) /\ found' = -found
  <2>1. Keeps(b, b') /\ asked' \subseteq Code
    BY <1>3, <1>6, RemovedEffect, BasicFacts
  <2>2. b' \in Worlds /\ Sorted(b')
    BY <1>3, <2>1 DEF Keeps
  <2>3. a \in Int
    BY <1>3, Sizes
  <2>4. found = from /\ found' = -from /\ ~(found' > 0) /\ found' < 0 /\ found' \in -Handler .. Handler
    BY <1>3, <1>6, <2>3, BasicFacts
  <2>5. StepKnown' /\ BreakKnown'
    BY <1>1, <1>6, <2>4 DEF Basic, StepKnown, BreakKnown, view
  <2> QED BY <1>1, <2>1, <2>2, <2>4, <2>5 DEF Basic, Types, view
<1> QED BY <1>2, <1>4, <1>5, <1>6

LEMMA BasicStepSkipped ==
  ASSUME Basic, StepSkipped
  PROVE  Basic'
<1>1. /\ at = "event, skipped" /\ at' = "end"
      /\ UNCHANGED <<env, b, w, core, view, found, from, reads, timedOut, asked>>
  BY DEF StepSkipped
<1>2. StepKnown' /\ BreakKnown'
  BY <1>1 DEF Basic, StepKnown, BreakKnown, view, Listed
<1> QED BY <1>1, <1>2 DEF Basic, Types, view

LEMMA BasicStepPlain ==
  ASSUME Basic, StepPlain
  PROVE  Basic'
<1>1. /\ at = "event" /\ at' = "end" /\ core' \in Stepped(b, core, MaskedStep)
      /\ UNCHANGED <<env, b, w, view, found, from, reads, timedOut, asked>>
  BY DEF StepPlain
<1>2. core' \in Cores /\ KnownPlace(core')
  <2>1. MaskedStep \in BOOLEAN
    BY DEF MaskedStep
  <2> QED BY <1>1, <2>1, SteppedEffect, BasicFacts
<1>3. StepKnown' /\ BreakKnown'
  BY <1>1 DEF Basic, StepKnown, BreakKnown, view, Listed
<1> QED BY <1>1, <1>2, <1>3 DEF Basic, Types, view

\* The breakpoint the core is to come back to.
LEMMA TemporaryEffect ==
  ASSUME Basic, at = "event", NEW r \in Temporary
  PROVE  /\ r.ok \in BOOLEAN /\ r.b \in Worlds /\ Sorted(r.b)
         /\ found >= 0 => Keeps(b, r.b) /\ Elsewhere(b, r.b, from)
         /\ found < 0 => r.b.bps = b.bps
         /\ found # 0 => Listed(r.b) = Listed(b)
         /\ found = 0 /\ r.ok => from \notin Listed(b) /\ Listed(r.b) = Listed(b) \cup {from}
         /\ found = 0 /\ ~r.ok => r.b.bps = b.bps
         /\ found >= 0 /\ r.ok => r.b.bps[from].set # 0
         /\ found > 0 /\ ~r.ok /\ env.fails = {} => r.b = b /\ \A c \in Cs : b.used[c]
         /\ found > 0 /\ ~r.ok /\ env.fails = {} => b.bps[found].type = "hard"
<1>1. b \in Worlds /\ Sorted(b) /\ from \in Program /\ pc = from /\ found \in Int
  BY BasicFacts DEF Basic, StepKnown
<1>2. CASE found = 0
  <2> DEFINE type == IF pc \in High THEN "soft" ELSE "hard"
  <2>1. r \in AddBreakpoint(b, from, type) /\ type \in {"hard", "soft"}
    BY <1>1, <1>2 DEF Temporary
  <2> HIDE DEF type
  <2>2. /\ r.ok \in BOOLEAN /\ Keeps(b, r.b) /\ Elsewhere(b, r.b, from)
        /\ r.ok => /\ from \notin Listed(b) /\ Listed(r.b) = Listed(b) \cup {from}
                   /\ r.b.bps[from].set # 0
        /\ ~r.ok => r.b.bps = b.bps
    BY <1>1, <2>1, AddEffect
  <2>3. r.b \in Worlds /\ Sorted(r.b)
    BY <1>1, <2>2 DEF Keeps
  <2> QED BY <1>2, <2>2, <2>3
<1>3. CASE found > 0
  <2>1. r \in SetBreakpoint(b, found) /\ found \in Listed(b) /\ found = from
    BY <1>3, BasicFacts DEF Temporary
  <2>2. /\ Keeps(b, r.b) /\ Elsewhere(b, r.b, found) /\ r.b.bps[found].type = b.bps[found].type
        /\ r.ok \in BOOLEAN
        /\ r.ok => r.b.bps[found].set # 0
        /\ env.fails = {} /\ ~r.ok => r.b = b /\ \A c \in Cs : b.used[c]
        /\ env.fails = {} /\ ~r.ok => b.bps[found].type = "hard"
    BY <1>1, <2>1, SetEffect
  <2>3. r.b \in Worlds /\ Sorted(r.b)
    BY <1>1, <2>2 DEF Keeps
  <2>4. Listed(r.b) = Listed(b)
    BY <2>1, <2>2 DEF Listed, Elsewhere
  <2>5. found >= 0 /\ found # 0 /\ ~(found < 0)
    BY <1>1, <1>3
  <2> QED BY <2>1, <2>2, <2>3, <2>4, <2>5
<1>4. CASE found < 0
  <2>1. r \in SetFreed(b) /\ -found \in Program
    BY <1>4, BasicFacts DEF Temporary
  <2>2. r.b \in Worlds /\ r.b.bps = b.bps /\ r.ok \in BOOLEAN
    BY <1>1, <2>1, SetFreedEffect
  <2>3. Sorted(r.b) /\ Listed(r.b) = Listed(b)
    BY <1>1, <2>2 DEF Sorted, Listed
  <2>4. ~(found >= 0) /\ found # 0 /\ ~(found > 0)
    BY <1>1, <1>4
  <2> QED BY <2>2, <2>3, <2>4
<1> QED BY <1>1, <1>2, <1>3, <1>4

LEMMA BasicStepAuto ==
  ASSUME Basic, StepAuto
  PROVE  Basic'
<1>1. PICK r \in Temporary :
       /\ b' = r.b
       /\ IF r.ok
          THEN /\ at' = "wait"
               /\ core' \in {[core EXCEPT !.halted = FALSE, !.masked = FALSE]} \cup IfFails("core", {core})
          ELSE /\ at' = "end"
               /\ core' \in Stepped(r.b, core, MaskedStep)
  BY DEF StepAuto
<1>2. /\ at = "event" /\ UNCHANGED <<env, w, view, found, from, reads, timedOut, asked>>
  BY DEF StepAuto
<1>3. /\ r.ok \in BOOLEAN /\ b' \in Worlds /\ Sorted(b')
      /\ found # 0 => Listed(b') = Listed(b)
  BY <1>1, <1>2, TemporaryEffect
<1>4. core' \in Cores /\ KnownPlace(core') /\ at' \in {"wait", "end"}
  <2>1. CASE r.ok
    <3>1. at' = "wait" /\ (core' = core \/ core' = [core EXCEPT !.halted = FALSE, !.masked = FALSE])
      BY <1>1, <2>1 DEF IfFails
    <3> QED BY <3>1, BasicFacts DEF Cores, KnownPlace
  <2>2. CASE ~r.ok
    <3>1. at' = "end" /\ core' \in Stepped(r.b, core, MaskedStep) /\ MaskedStep \in BOOLEAN
      BY <1>1, <2>2 DEF MaskedStep
    <3> QED BY <3>1, SteppedEffect, BasicFacts
  <2> QED BY <2>1, <2>2
<1>5. StepKnown' /\ BreakKnown'
  <2>1. found' > 0 => found' \in Listed(b')
    BY <1>2, <1>3, BasicFacts
  <2> QED BY <1>2, <1>4, <2>1 DEF Basic, StepKnown, BreakKnown, view
<1> QED BY <1>2, <1>3, <1>4, <1>5 DEF Basic, Types, view

LEMMA BasicWait ==
  ASSUME Basic, Wait
  PROVE  Basic'
<1>1. /\ at = "wait" /\ at' \in {"wait", "waited"} /\ reads' = Min({reads + 1, MaxReads})
      /\ timedOut' \in BOOLEAN /\ core' = [core EXCEPT !.wasReset = FALSE]
      /\ UNCHANGED <<env, b, w, view, found, from, asked>>
  BY DEF Wait
<1>2. core' \in Cores /\ KnownPlace(core') /\ core'.halted = core.halted /\ core'.pc = core.pc
  BY <1>1, BasicFacts DEF Cores, KnownPlace
<1>3. StepKnown' /\ BreakKnown'
  BY <1>1, <1>2 DEF Basic, StepKnown, BreakKnown, view, Listed
<1>4. reads' \in 0 .. MaxReads
  <2>1. reads \in 0 .. MaxReads /\ MaxReads \in Nat
    BY Sizes DEF Basic, Types
  <2>2. {reads + 1, MaxReads} \in SUBSET Nat /\ {reads + 1, MaxReads} # {}
    BY <2>1
  <2>3. PICK m \in {reads + 1, MaxReads} : \A n \in {reads + 1, MaxReads} : m <= n
    BY <2>2, LeastNat
  <2>4. reads' \in {reads + 1, MaxReads} /\ reads' <= MaxReads
    BY <1>1, <2>3 DEF Min
  <2> QED BY <2>1, <2>4
<1> QED BY <1>1, <1>2, <1>3, <1>4 DEF Basic, Types, view

LEMMA BasicWaitFails ==
  ASSUME Basic, WaitFails
  PROVE  Basic'
<1>1. /\ at' = "idle" /\ found' = 0 /\ from' = 0 /\ reads' = 0 /\ timedOut' = FALSE /\ state' = "unknown"
      /\ UNCHANGED <<env, b, w, core, reason, pc, asked>>
  BY DEF WaitFails, Returns
<1>2. StepKnown' /\ BreakKnown'
  BY <1>1 DEF Basic, StepKnown, BreakKnown, Idle
<1> QED BY <1>1, <1>2, BasicFacts DEF Basic, Types

\* After the wait: a temporary breakpoint is removed, the breakpoint found is unset.
LEMMA RemoveTemporaryEffect ==
  ASSUME Basic, at = "waited", found = 0 => from \in Listed(b), NEW y \in RemoveTemporary
  PROVE  /\ y \in Worlds /\ Sorted(y)
         /\ found >= 0 => Keeps(b, y) /\ Elsewhere(b, y, from)
         /\ found < 0 => y.bps = b.bps
         /\ found = 0 => Listed(y) = Listed(b) \ {from}
         /\ found # 0 => Listed(y) = Listed(b)
         /\ found >= 0 => (Fitted(b, from) => \E c \in Cs : ~y.used[c])
         /\ found > 0 => y.bps[found].type = b.bps[found].type
<1>1. b \in Worlds /\ Sorted(b) /\ from \in Program /\ found \in Int
  BY BasicFacts DEF Basic, StepKnown
<1>2. CASE found = 0
  <2>1. y \in RemoveBreakpoint(b, from) /\ from \in Listed(b)
    BY <1>2 DEF RemoveTemporary
  <2>2. /\ Keeps(b, y) /\ Elsewhere(b, y, from) /\ Listed(y) = Listed(b) \ {from}
        /\ Fitted(b, from) => \E c \in Cs : ~y.used[c]
    BY <1>1, <2>1, RemoveEffect
  <2>3. y \in Worlds /\ Sorted(y)
    BY <1>1, <2>2 DEF Keeps
  <2> QED BY <1>2, <2>2, <2>3
<1>3. CASE found > 0
  <2>1. y \in UnsetBreakpoint(b, found) /\ found \in Listed(b) /\ found = from
    BY <1>3, BasicFacts DEF RemoveTemporary
  <2>2. /\ Keeps(b, y) /\ Elsewhere(b, y, found) /\ y.bps[found].type = b.bps[found].type
        /\ Fitted(b, found) => \E c \in Cs : ~y.used[c]
    BY <1>1, <2>1, UnsetEffect
  <2>3. y \in Worlds /\ Sorted(y)
    BY <1>1, <2>2 DEF Keeps
  <2>4. Listed(y) = Listed(b)
    BY <2>1, <2>2 DEF Listed, Elsewhere
  <2>5. found >= 0 /\ found # 0 /\ ~(found < 0)
    BY <1>1, <1>3
  <2> QED BY <2>1, <2>2, <2>3, <2>4, <2>5
<1>4. CASE found < 0
  <2>1. y \in UnsetFreed(b)
    BY <1>1, <1>4 DEF RemoveTemporary
  <2>2. y \in Worlds /\ y.bps = b.bps
    BY <1>1, <2>1, UnsetFreedEffect
  <2>3. Sorted(y) /\ Listed(y) = Listed(b)
    BY <1>1, <2>2 DEF Sorted, Listed
  <2>4. ~(found >= 0) /\ found # 0 /\ ~(found > 0)
    BY <1>1, <1>4
  <2> QED BY <2>2, <2>3, <2>4
<1> QED BY <1>1, <1>2, <1>3, <1>4

LEMMA BasicWaited ==
  ASSUME Basic, found = 0 => from \in Listed(b), Waited
  PROVE  Basic'
<1>1. /\ at = "waited" /\ at' = "end" /\ b' \in RemoveTemporary
      /\ IF timedOut THEN UNCHANGED core ELSE core' \in LastStep(b')
      /\ UNCHANGED <<env, w, view, found, from, reads, timedOut, asked>>
  BY DEF Waited
<1>2. b' \in Worlds /\ Sorted(b') /\ (found # 0 => Listed(b') = Listed(b))
  BY <1>1, RemoveTemporaryEffect
<1>3. core' \in Cores /\ KnownPlace(core')
  <2>1. TRUE \in BOOLEAN
    OBVIOUS
  <2>2. CASE timedOut
    BY <1>1, <2>2, BasicFacts
  <2>3. CASE ~timedOut
    BY <1>1, <2>1, <2>3, SteppedEffect, BasicFacts DEF LastStep
  <2> QED BY <2>2, <2>3
<1>4. StepKnown' /\ BreakKnown'
  <2>1. found' > 0 => found' \in Listed(b')
    BY <1>1, <1>2, BasicFacts
  <2> QED BY <1>1, <2>1 DEF Basic, StepKnown, BreakKnown, view
<1> QED BY <1>1, <1>2, <1>3, <1>4 DEF Basic, Types, view

\* The breakpoint found is set again.
LEMMA SetAgainEffect ==
  ASSUME Basic, NEW y \in SetAgain
  PROVE  /\ y \in Worlds /\ Sorted(y) /\ Listed(y) = Listed(b)
         /\ found >= 0 => Keeps(b, y)
         /\ found = 0 => y = b
         /\ found < 0 => y.bps = b.bps
         /\ found > 0 => /\ Elsewhere(b, y, found)
                         /\ b.bps[found].set # 0 => y = b
                         /\ \/ y.bps[found].set # 0
                            \/ env.fails # {}
                            \/ b.bps[found].type = "hard" /\ \A c \in Cs : b.used[c]
<1>1. b \in Worlds /\ Sorted(b) /\ found \in Int
  BY BasicFacts
<1>2. CASE found = 0
  <2>1. y = b
    BY <1>2 DEF SetAgain
  <2> QED BY <1>1, <1>2, <2>1, KeepsItself
<1>3. CASE found > 0
  <2>1. \E r \in SetBreakpoint(b, found) : y = r.b
    BY <1>3 DEF SetAgain
  <2>2. PICK r \in SetBreakpoint(b, found) : y = r.b
    BY <2>1
  <2>3. found \in Listed(b)
    BY <1>3, BasicFacts
  <2>4. /\ Keeps(b, y) /\ Elsewhere(b, y, found) /\ y.bps[found].type = b.bps[found].type
        /\ r.ok \in BOOLEAN
        /\ r.ok => y.bps[found].set # 0
        /\ b.bps[found].set # 0 => y = b
        /\ env.fails = {} /\ ~r.ok => \A c \in Cs : b.used[c]
        /\ env.fails = {} /\ ~r.ok => b.bps[found].type = "hard"
    BY <1>1, <2>2, <2>3, SetEffect
  <2>5. y \in Worlds /\ Sorted(y)
    BY <1>1, <2>4 DEF Keeps
  <2>6. Listed(y) = Listed(b)
    BY <2>4 DEF Listed, Elsewhere
  <2>7. found >= 0 /\ found # 0 /\ ~(found < 0)
    BY <1>1, <1>3
  <2> QED BY <2>4, <2>5, <2>6, <2>7
<1>4. CASE found < 0
  <2>1. \E r \in SetFreed(b) : y = r.b
    BY <1>1, <1>4 DEF SetAgain
  <2>2. PICK r \in SetFreed(b) : y = r.b
    BY <2>1
  <2>3. -found \in Program
    BY <1>4, BasicFacts
  <2>4. y \in Worlds /\ y.bps = b.bps
    BY <1>1, <2>2, <2>3, SetFreedEffect
  <2>5. Sorted(y) /\ Listed(y) = Listed(b)
    BY <1>1, <2>4 DEF Sorted, Listed
  <2>6. ~(found >= 0) /\ found # 0 /\ ~(found > 0)
    BY <1>1, <1>4
  <2> QED BY <2>4, <2>5, <2>6
<1> QED BY <1>1, <1>2, <1>3, <1>4

LEMMA BasicStepEnds ==
  ASSUME Basic, StepEnds \/ StepEndFails
  PROVE  Basic'
<1>1. at' = "idle" /\ found' = 0 /\ from' = 0 /\ reads' = 0 /\ timedOut' = FALSE
  BY DEF StepEnds, StepEndFails, Returns
<1>2. (b' \in SetAgain \/ b' = b) /\ at = "end" /\ UNCHANGED <<env, w, asked>>
  BY DEF StepEnds, StepEndFails
<1>3. b' \in Worlds /\ Sorted(b')
  BY <1>2, SetAgainEffect, BasicFacts
<1>4. reason = "step" /\ timedOut \in BOOLEAN /\ state = "halted"
  BY <1>2, BasicFacts DEF Basic, Types
<1>5. /\ core' \in Cores /\ KnownPlace(core') /\ pc' \in Program
      /\ reason' \in {"none", "step"} /\ state' \in {"running", "halted"}
  <2>1. CASE StepEnds
    <3>1. core' = [core EXCEPT !.met = core.met /\ timedOut, !.wasReset = FALSE]
      BY <2>1 DEF StepEnds
    <3>2. (core.met /\ timedOut) \in BOOLEAN
      BY <1>4, BasicFacts DEF Cores
    <3>3. core' \in Cores /\ KnownPlace(core')
      BY <3>1, <3>2, BasicFacts DEF Cores, KnownPlace
    <3>4. pc' = pc \/ pc' = core.pc
      BY <2>1 DEF StepEnds
    <3> QED BY <1>4, <2>1, <3>3, <3>4, BasicFacts DEF StepEnds, Cores
  <2>2. CASE StepEndFails
    <3>1. UNCHANGED <<core, view>>
      BY <2>2 DEF StepEndFails
    <3> QED BY <1>4, <3>1, BasicFacts DEF view
  <2> QED BY <2>1, <2>2
<1>6. StepKnown' /\ BreakKnown'
  BY <1>1, <1>5 DEF StepKnown, BreakKnown, Idle
<1> QED BY <1>1, <1>2, <1>3, <1>5, <1>6, BasicFacts DEF Basic, Types

LEMMA EnterEffect ==
  ASSUME Basic, core.halted, Enter
  PROVE  /\ core' \in Cores /\ KnownPlace(core') /\ pc' \in Program /\ BreakKnown'
         /\ reason' \in {"none", "request", "step", "breakpoint", "undefined"}
         /\ core'.halted /\ core'.wasReset = core.wasReset
         /\ core'.pc = core.pc /\ core'.ret = core.ret
         /\ "core" \notin env.fails => pc' = core'.pc
<1>1. core \in Cores /\ KnownPlace(core) /\ BreakKnown /\ pc \in Program
      /\ reason \in {"none", "request", "step", "breakpoint", "undefined"}
  BY BasicFacts DEF Basic, Types
<1>2. CASE DebugEntry
  <2>1. /\ core' = [core EXCEPT !.met = FALSE] /\ pc' = core.pc
        /\ reason' \in {"none", "request", "step", "breakpoint", "undefined"}
    BY <1>2 DEF DebugEntry
  <2> QED BY <1>1, <2>1 DEF Cores, KnownPlace, BreakKnown
<1>3. CASE "core" \in env.fails /\ UNCHANGED <<core, reason, pc>>
  BY <1>1, <1>3 DEF BreakKnown
<1> QED BY <1>2, <1>3 DEF Enter

LEMMA BasicPoll ==
  ASSUME Basic, PollState \/ PollReset
  PROVE  Basic'
<1>1. at = "idle" /\ UNCHANGED <<env, b, w, step, asked>>
      /\ state' \in {"running", "halted", "unknown", "reset"}
  BY DEF PollState, PollReset
<1>2. /\ core' \in Cores /\ KnownPlace(core') /\ pc' \in Program /\ BreakKnown'
      /\ reason' \in {"none", "request", "step", "breakpoint", "undefined"}
  <2>1. CASE core.halted /\ Enter
    BY <2>1, EnterEffect
  <2>2. CASE UNCHANGED <<core, reason, pc>>
    BY <2>2, BasicFacts DEF Basic, BreakKnown, Types
  <2>3. CASE core' = [core EXCEPT !.wasReset = FALSE] /\ UNCHANGED <<reason, pc>>
    BY <2>3, BasicFacts DEF Basic, BreakKnown, Types, Cores, KnownPlace
  <2> QED BY <2>1, <2>2, <2>3 DEF PollState, PollReset
<1>3. StepKnown'
  BY <1>1 DEF Basic, StepKnown, Idle, step
<1> QED BY <1>1, <1>2, <1>3 DEF Basic, Types, step

\* The end of a reset: comparators are restored, or some.
LEMMA BasicEndReset ==
  ASSUME Basic, PollEndReset \/ EndResetFails
  PROVE  /\ Basic' /\ b'.bps = b.bps /\ b'.used = b.used /\ b'.fpcr = b.fpcr /\ b'.mem = b.mem
         /\ b.enabled => b'.enabled
         /\ PollEndReset => b'.on /\ b'.enabled /\ b'.comp = b'.fpcr
<1>1. at = "idle" /\ UNCHANGED <<env, w, step, asked>>
      /\ state' \in {"running", "halted", "unknown", "reset"}
  BY DEF PollEndReset, EndResetFails
<1>2. /\ core' \in Cores /\ KnownPlace(core') /\ pc' \in Program /\ BreakKnown'
      /\ reason' \in {"none", "request", "step", "breakpoint", "undefined"}
  <2>1. CASE core.halted /\ Enter
    BY <2>1, EnterEffect
  <2>2. CASE UNCHANGED <<core, reason, pc>>
    BY <2>2, BasicFacts DEF Basic, BreakKnown, Types
  <2> QED BY <2>1, <2>2 DEF PollEndReset, EndResetFails
<1>3. StepKnown'
  BY <1>1 DEF Basic, StepKnown, Idle, step
<1>4. b \in Worlds /\ Sorted(b)
  BY BasicFacts
<1>5. /\ b' \in Worlds /\ b'.bps = b.bps /\ b'.used = b.used /\ b'.fpcr = b.fpcr /\ b'.mem = b.mem
      /\ b.enabled => b'.enabled
      /\ PollEndReset => b'.on /\ b'.enabled /\ b'.comp = b'.fpcr
  <2>1. CASE PollEndReset
    <3>1. b' = [b EXCEPT !.on = TRUE, !.enabled = TRUE, !.comp = b.fpcr]
      BY <2>1 DEF PollEndReset, Restored
    <3> QED BY <1>4, <3>1 DEF Worlds
  <2>2. CASE EndResetFails
    <3>0. ~PollEndReset
      <4>1. state = "reset" /\ state' = "unknown"
        BY <2>2 DEF EndResetFails
      <4> QED BY <4>1 DEF PollEndReset
    <3>1. CASE b' = b \/ b' = [b EXCEPT !.on = TRUE]
      BY <1>4, <3>0, <3>1 DEF Worlds
    <3>2. CASE \E n \in 0 .. Comparators - 1 :
                 b' = [b EXCEPT !.on = TRUE, !.enabled = TRUE,
                                !.comp = [c \in 1 .. Comparators |-> IF c <= n THEN b.fpcr[c] ELSE @[c]]]
      <4>1. PICK n : b' = [b EXCEPT !.on = TRUE, !.enabled = TRUE,
                                !.comp = [c \in 1 .. Comparators |-> IF c <= n THEN b.fpcr[c] ELSE @[c]]]
        BY <3>2
      <4> DEFINE k == [c \in Cs |-> IF c <= n THEN b.fpcr[c] ELSE b.comp[c]]
      <4>2. k \in [Cs -> Program \cup {0}]
        BY <1>4 DEF Worlds
      <4>3. b' = [b EXCEPT !.on = TRUE, !.enabled = TRUE, !.comp = k]
        BY <4>1 DEF Cs
      <4> HIDE DEF k
      <4> QED BY <1>4, <3>0, <4>2, <4>3 DEF Worlds
    <3> QED BY <2>2, <3>1, <3>2 DEF EndResetFails
  <2> QED BY <2>1, <2>2
<1>6. Sorted(b')
  BY <1>4, <1>5 DEF Sorted
<1> QED BY <1>1, <1>2, <1>3, <1>5, <1>6 DEF Basic, Types, step

LEMMA BasicPollFails ==
  ASSUME Basic, PollFails
  PROVE  /\ Basic' /\ b'.bps = b.bps
         /\ ~env.reexamined => UNCHANGED <<b, w>> /\ "core" \in env.fails
<1>1. at = "idle" /\ UNCHANGED <<env, core, reason, pc, step, asked>> /\ state' = "unknown"
  BY DEF PollFails
<1>2. b \in Worlds /\ Sorted(b) /\ w \in Watches
  BY BasicFacts
<1>3. b' \in Worlds /\ b'.bps = b.bps /\ w' \in Watches
  <2>1. CASE env.reexamined
    <3>1. Examined
      BY <2>1 DEF PollFails
    <3>2. b' \in Worlds /\ b'.bps = b.bps
      BY <1>2, <3>1 DEF Examined, Worlds, Cs
    <3>3. w' \in Watches
      <4>1. Dwts \in Nat
        BY Sizes
      <4> QED BY <1>2, <3>1, <4>1 DEF Examined, Watches
    <3> QED BY <3>2, <3>3
  <2>2. CASE ~env.reexamined
    BY <1>2, <2>2 DEF PollFails
  <2> QED BY <2>1, <2>2
<1>4. Sorted(b')
  BY <1>2, <1>3 DEF Sorted
<1>5. BreakKnown' /\ StepKnown'
  BY <1>1 DEF Basic, BreakKnown, StepKnown, Idle, step
<1>6. ~env.reexamined => UNCHANGED <<b, w>> /\ "core" \in env.fails
  BY DEF PollFails
<1> QED BY <1>1, <1>3, <1>4, <1>5, <1>6 DEF Basic, Types, step

-----------------------------------------------------------------------------
(* The list is what was asked for. *)

\* The temporary breakpoint of a step.
Temp == IF at \in {"wait", "waited"} /\ found = 0 THEN {from} ELSE {}
AskedKnown ==
  /\ asked \subseteq Listed(b) /\ asked \cap Temp = {} /\ Temp \subseteq Listed(b)
  /\ env.fails = {} => Listed(b) = asked \cup Temp

LEMMA AskedInit == ASSUME Init PROVE AskedKnown
<1>1. Listed(b) = {}
  BY DEF Init, Listed, NoBreak
<1>2. Temp = {} /\ asked = {}
  BY DEF Init, Idle, Temp
<1> QED BY <1>1, <1>2 DEF AskedKnown

LEMMA SameList ==
  ASSUME b'.bps = b.bps
  PROVE  Listed(b') = Listed(b)
BY DEF Listed

LEMMA AskedStep ==
  ASSUME Basic, AskedKnown, [Next]_vars
  PROVE  Basic' /\ AskedKnown'
<1>1. CASE UNCHANGED vars
  <2>1. Basic'
    BY <1>1 DEF vars, view, step, Basic, Types, BreakKnown, StepKnown, Idle, Listed
  <2>2. AskedKnown'
    BY <1>1 DEF vars, view, step, AskedKnown, Listed, Temp
  <2> QED BY <2>1, <2>2
<1>2. ASSUME Basic', env' = env, asked' = asked, Listed(b') = Listed(b), Temp' = Temp
      PROVE  Basic' /\ AskedKnown'
  BY <1>2 DEF AskedKnown
<1>3. CASE CoreRuns \/ CoreInterrupted
  <2>1. UNCHANGED <<env, b, asked, step>>
    BY <1>3 DEF CoreRuns, CoreInterrupted
  <2> QED BY <1>2, <1>3, <2>1, BasicCore, SameList DEF Temp, step
<1>4. CASE CoreReset
  <2>1. UNCHANGED <<env, asked, step>>
    BY <1>4 DEF CoreReset
  <2> QED BY <1>2, <1>4, <2>1, BasicReset, SameList DEF Temp, step
<1>5. CASE Break
  <2>0. at = "idle" /\ Temp = {} /\ Temp' = {} /\ env' = env
    BY <1>5 DEF Break, Temp, step
  <2>1. PICK a \in env.code : Remove(a) \/ \E type \in {"hard", "soft"} : Add(a, type)
    BY <1>5 DEF Break
  <2>2. a \in Code
    BY <2>1, Env, BasicFacts
  <2>3. CASE Remove(a)
    <3>1. asked' = asked \ {a} /\ Listed(b') = Listed(b) \ {a}
      BY <2>2, <2>3, RemovedEffect
    <3> QED BY <1>5, <2>0, <3>1, BasicBreak DEF AskedKnown
  <2>4. CASE \E type \in {"hard", "soft"} : Add(a, type)
    <3>1. \/ asked' = asked \cup {a} /\ Listed(b') = Listed(b) \cup {a}
          \/ asked' = asked /\ b'.bps = b.bps
      BY <2>2, <2>4, AddedEffect
    <3>2. CASE asked' = asked \cup {a} /\ Listed(b') = Listed(b) \cup {a}
      BY <1>5, <2>0, <3>2, BasicBreak DEF AskedKnown
    <3>3. CASE asked' = asked /\ b'.bps = b.bps
      BY <1>2, <1>5, <2>0, <3>3, BasicBreak, SameList
    <3> QED BY <3>1, <3>2, <3>3
  <2> QED BY <2>1, <2>3, <2>4
<1>6. CASE AddWatchpoint \/ RemoveWatchpoint
  BY <1>2, <1>6, BasicWatch, SameList DEF Temp, step
<1>7. CASE Halt
  <2>1. UNCHANGED <<env, b, asked, step>>
    BY <1>7 DEF Halt
  <2> QED BY <1>2, <1>7, <2>1, BasicHalt, SameList DEF Temp, step
<1>8. CASE Resume
  <2>1. UNCHANGED <<env, asked, step>>
    BY <1>8 DEF Resume
  <2> QED BY <1>2, <1>8, <2>1, BasicResume, ResumeEffect DEF Temp, step
<1>9. CASE StepBegins
  <2>1. UNCHANGED <<env, asked>> /\ at = "idle"
    BY <1>9 DEF StepBegins
  <2>2. Basic' /\ Listed(b') = Listed(b) /\ at' \in {"event", "event, skipped"}
    BY <1>9, BasicStepBegins
  <2> QED BY <1>2, <2>1, <2>2 DEF Temp
<1>10. CASE EventHandler
  <2>0. /\ at \in {"event", "event, skipped"} /\ Temp = {} /\ Temp' = {} /\ env' = env
        /\ Basic'
    BY <1>10, BasicEventHandler DEF EventHandler, Temp
  <2>1. PICK a \in env.code : Remove(a) \/ Add(a, "hard")
    BY <1>10 DEF EventHandler
  <2>2. a \in Code
    BY <2>1, Env, BasicFacts
  <2>3. CASE Remove(a)
    <3>1. asked' = asked \ {a} /\ Listed(b') = Listed(b) \ {a}
      BY <2>2, <2>3, RemovedEffect
    <3> QED BY <2>0, <3>1 DEF AskedKnown
  <2>4. CASE Add(a, "hard")
    <3>1. \/ asked' = asked \cup {a} /\ Listed(b') = Listed(b) \cup {a}
          \/ asked' = asked /\ b'.bps = b.bps
      BY <2>2, <2>4, AddedEffect
    <3>2. CASE asked' = asked \cup {a} /\ Listed(b') = Listed(b) \cup {a}
      BY <2>0, <3>2 DEF AskedKnown
    <3>3. CASE asked' = asked /\ b'.bps = b.bps
      BY <1>2, <2>0, <3>3, SameList
    <3> QED BY <3>1, <3>2, <3>3
  <2> QED BY <2>1, <2>3, <2>4
<1>11. CASE StepSkipped
  <2>1. UNCHANGED <<env, b, asked>> /\ at = "event, skipped" /\ at' = "end"
    BY <1>11 DEF StepSkipped
  <2> QED BY <1>2, <1>11, <2>1, BasicStepSkipped, SameList DEF Temp
<1>12. CASE StepPlain
  <2>1. UNCHANGED <<env, b, asked>> /\ at = "event" /\ at' = "end"
    BY <1>12 DEF StepPlain
  <2> QED BY <1>2, <1>12, <2>1, BasicStepPlain, SameList DEF Temp
<1>13. CASE StepAuto
  <2>1. PICK r \in Temporary : b' = r.b /\ IF r.ok THEN at' = "wait" ELSE at' = "end"
    BY <1>13 DEF StepAuto
  <2>2. at = "event" /\ UNCHANGED <<env, found, from, asked>> /\ Basic'
    BY <1>13, BasicStepAuto DEF StepAuto
  <2>3. /\ r.ok \in BOOLEAN
        /\ found # 0 => Listed(b') = Listed(b)
        /\ found = 0 /\ r.ok => from \notin Listed(b) /\ Listed(b') = Listed(b) \cup {from}
        /\ found = 0 /\ ~r.ok => b'.bps = b.bps
    BY <2>1, <2>2, TemporaryEffect
  <2>4. Temp = {}
    BY <2>2 DEF Temp
  <2>5. CASE found = 0 /\ r.ok
    <3>1. Temp' = {from}
      BY <2>1, <2>2, <2>5 DEF Temp
    <3> QED BY <2>2, <2>3, <2>4, <2>5, <3>1 DEF AskedKnown
  <2>6. CASE ~(found = 0 /\ r.ok)
    <3>1. Temp' = {} /\ Listed(b') = Listed(b)
      BY <2>1, <2>2, <2>3, <2>6, SameList DEF Temp
    <3> QED BY <1>2, <2>2, <2>4, <3>1
  <2> QED BY <2>5, <2>6
<1>14. CASE Wait
  <2>1. UNCHANGED <<env, b, asked, found, from>> /\ at = "wait" /\ at' \in {"wait", "waited"}
    BY <1>14 DEF Wait
  <2> QED BY <1>2, <1>14, <2>1, BasicWait, SameList DEF Temp
<1>15. CASE WaitFails
  <2>1. UNCHANGED <<env, b, asked>> /\ at' = "idle" /\ Basic' /\ env.fails # {}
    BY <1>15, BasicWaitFails DEF WaitFails, Returns
  <2>2. Temp' = {}
    BY <2>1 DEF Temp
  <2> QED BY <2>1, <2>2, SameList DEF AskedKnown
<1>16. CASE Waited
  <2>1. /\ at = "waited" /\ at' = "end" /\ b' \in RemoveTemporary
        /\ UNCHANGED <<env, found, from, asked>>
    BY <1>16 DEF Waited
  <2>2. found = 0 => from \in Listed(b)
    BY <2>1 DEF AskedKnown, Temp
  <2>3. /\ found = 0 => Listed(b') = Listed(b) \ {from}
        /\ found # 0 => Listed(b') = Listed(b)
    BY <2>1, <2>2, RemoveTemporaryEffect
  <2>4. Basic' /\ Temp' = {}
    BY <1>16, <2>1, <2>2, BasicWaited DEF Temp
  <2>5. Temp = IF found = 0 THEN {from} ELSE {}
    BY <2>1 DEF Temp
  <2> QED BY <2>1, <2>3, <2>4, <2>5 DEF AskedKnown
<1>17. CASE StepEnds \/ StepEndFails
  <2>1. /\ b' \in SetAgain \/ b' = b
        /\ at = "end" /\ at' = "idle" /\ UNCHANGED <<env, asked>>
    BY <1>17 DEF StepEnds, StepEndFails, Returns
  <2>2. Listed(b') = Listed(b)
    BY <2>1, SetAgainEffect
  <2> QED BY <1>2, <1>17, <2>1, <2>2, BasicStepEnds DEF Temp
<1>18. CASE PollState \/ PollReset
  <2>1. UNCHANGED <<env, b, asked, step>>
    BY <1>18 DEF PollState, PollReset
  <2> QED BY <1>2, <1>18, <2>1, BasicPoll, SameList DEF Temp, step
<1>19. CASE PollEndReset \/ EndResetFails
  <2>1. UNCHANGED <<env, asked, step>>
    BY <1>19 DEF PollEndReset, EndResetFails
  <2> QED BY <1>2, <1>19, <2>1, BasicEndReset, SameList DEF Temp, step
<1>20. CASE PollFails
  <2>1. UNCHANGED <<env, asked, step>>
    BY <1>20 DEF PollFails
  <2> QED BY <1>2, <1>20, <2>1, BasicPollFails, SameList DEF Temp, step
<1> QED BY <1>1, <1>3, <1>4, <1>5, <1>6, <1>7, <1>8, <1>9, <1>10, <1>11, <1>12, <1>13, <1>14,
           <1>15, <1>16, <1>17, <1>18, <1>19, <1>20
        DEF Next, Core, User, Step, Poll

LEMMA BasicAlways == Spec => [](Basic /\ AskedKnown)
<1>1. Init => Basic /\ AskedKnown
  BY BasicInit, AskedInit
<1>2. (Basic /\ AskedKnown) /\ [Next]_vars => (Basic /\ AskedKnown)'
  BY AskedStep
<1> QED BY <1>1, <1>2, PTL DEF Spec

\* Every variable has its type whatever fails and whatever the handlers do.
THEOREM TypeCorrect == Spec => []TypeOK
<1>1. Basic /\ AskedKnown => TypeOK
  BY BasicTypeOK
<1> QED BY <1>1, BasicAlways, PTL

\* Between operations the list is what the user asked for: no temporary breakpoint of a
\* step is left where nothing fails, and none of the user's is lost whatever fails.
THEOREM ListIsAsked == Spec => []ListedIsAsked
<1>1. Basic /\ AskedKnown => ListedIsAsked
  BY DEF AskedKnown, Temp, ListedIsAsked
<1> QED BY <1>1, BasicAlways, PTL

-----------------------------------------------------------------------------
(* Comparators stay accounted for. *)

\* No handler removes the breakpoint a step has found, the target is not examined anew,
\* and the unit is on from the start where an access to it may fail.
Orderly ==
  /\ "removeFound" \notin env.handlers /\ ~env.reexamined
  /\ "unit" \in env.fails => env.enabled

\* A step of the program keeps what an operation on breakpoints keeps, or it is a reset,
\* or the end of one: the host knows what it knew.
LEMMA WorldStep ==
  ASSUME Basic, AskedKnown, [Next]_vars, "removeFound" \notin env.handlers, ~env.reexamined
  PROVE  \/ Keeps(b, b')
         \/ /\ CoreReset \/ PollEndReset \/ EndResetFails
            /\ b'.bps = b.bps /\ b'.used = b.used /\ b'.fpcr = b.fpcr /\ b'.mem = b.mem
            /\ b.enabled => b'.enabled
<1>0. b \in Worlds /\ Sorted(b) /\ found \in Int /\ ~(found < 0) /\ found >= 0
  BY BasicFacts
<1>1. CASE UNCHANGED b
  <2>1. Keeps(b, b)
    BY <1>0, KeepsItself
  <2> QED BY <1>1, <2>1
<1>2. CASE CoreReset
  BY <1>2, BasicReset
<1>3. CASE Break
  BY <1>3, BasicBreak
<1>4. CASE Resume
  BY <1>4, ResumeEffect
<1>5. CASE StepBegins
  BY <1>5, BasicStepBegins
<1>6. CASE EventHandler
  BY <1>6, BasicEventHandler
<1>7. CASE StepAuto
  <2>1. at = "event" /\ \E r \in Temporary : b' = r.b
    BY <1>7 DEF StepAuto
  <2> QED BY <1>0, <2>1, TemporaryEffect
<1>8. CASE Waited
  <2>1. at = "waited" /\ b' \in RemoveTemporary
    BY <1>8 DEF Waited
  <2>2. found = 0 => from \in Listed(b)
    BY <2>1 DEF AskedKnown, Temp
  <2> QED BY <1>0, <2>1, <2>2, RemoveTemporaryEffect
<1>9. CASE StepEnds \/ StepEndFails
  <2>1. b' \in SetAgain \/ b' = b
    BY <1>9 DEF StepEnds, StepEndFails
  <2> QED BY <1>0, <2>1, SetAgainEffect, KeepsItself
<1>10. CASE PollEndReset \/ EndResetFails
  BY <1>10, BasicEndReset
<1>11. CASE PollFails
  BY <1>1, <1>11, BasicPollFails
<1>12. CASE CoreRuns \/ CoreInterrupted \/ AddWatchpoint \/ RemoveWatchpoint \/ Halt
  <2>1. UNCHANGED b
    BY <1>12 DEF CoreRuns, CoreInterrupted, AddWatchpoint, RemoveWatchpoint, Halt
  <2> QED BY <1>1, <2>1
<1>13. CASE StepSkipped \/ StepPlain \/ Wait \/ WaitFails \/ PollState \/ PollReset
  <2>1. UNCHANGED b
    BY <1>13 DEF StepSkipped, StepPlain, Wait, WaitFails, PollState, PollReset
  <2> QED BY <1>1, <2>1
<1>14. CASE UNCHANGED vars
  <2>1. UNCHANGED b
    BY <1>14 DEF vars
  <2> QED BY <1>1, <2>1
<1> QED BY <1>2, <1>3, <1>4, <1>5, <1>6, <1>7, <1>8, <1>9, <1>10, <1>11, <1>12, <1>13, <1>14
        DEF Next, Core, User, Step, Poll

LEMMA SameEnv == ASSUME [Next]_vars PROVE env' = env
<1> USE DEF vars
<1>1. CASE Core
  BY <1>1 DEF Core, CoreRuns, CoreInterrupted, CoreReset
<1>2. CASE User
  BY <1>2 DEF User, Break, AddWatchpoint, RemoveWatchpoint, Halt, Resume, StepBegins
<1>3. CASE EventHandler
  BY <1>3 DEF EventHandler
<1>4. CASE Step
  BY <1>4 DEF Step, StepSkipped, StepPlain, StepAuto, Wait, WaitFails, Waited, StepEnds, StepEndFails
<1>5. CASE Poll
  BY <1>5 DEF Poll, PollState, PollReset, PollEndReset, EndResetFails, PollFails
<1> QED BY <1>1, <1>2, <1>3, <1>4, <1>5 DEF Next

OwnedKnown == Orderly => Owned(b) /\ ("unit" \in env.fails => b.enabled)

LEMMA OwnedInit == ASSUME Init PROVE OwnedKnown
<1>1. \A a \in Program : ~Fitted(b, a)
  BY DEF Init, Fitted, NoBreak
<1>2. \A c \in Cs : ~b.used[c] /\ b.fpcr[c] = 0
  BY DEF Init, Cs
<1> QED BY <1>1, <1>2 DEF Init, Owned, OwnedKnown, Orderly

LEMMA OwnedStep ==
  ASSUME Basic, AskedKnown, OwnedKnown, [Next]_vars
  PROVE  OwnedKnown'
<1>1. SUFFICES ASSUME Orderly PROVE Owned(b') /\ ("unit" \in env.fails => b'.enabled)
  BY SameEnv DEF OwnedKnown, Orderly, Owned, Fitted
<1>2. Owned(b) /\ ("unit" \in env.fails => b.enabled) /\ Sorted(b)
  BY <1>1, BasicFacts DEF OwnedKnown
<1>3. CASE Keeps(b, b')
  BY <1>2, <1>3 DEF Keeps
<1>4. CASE /\ b'.bps = b.bps /\ b'.used = b.used /\ b'.fpcr = b.fpcr /\ b'.mem = b.mem
           /\ b.enabled => b'.enabled
  BY <1>2, <1>4 DEF Owned, Fitted
<1> QED BY <1>1, <1>3, <1>4, WorldStep DEF Orderly

WatchesKnown == ~env.reexamined => Counted(w) /\ Matched(w) /\ Bounded(w)

LEMMA WatchesInit == ASSUME Init PROVE WatchesKnown
<1>1. ListedWatches(w) = {} /\ Orphans(w) = {}
  BY DEF Init, ListedWatches, Orphans
<1>2. /\ Cardinality({}) = 0 /\ Dwts \in Nat
      /\ w.available = Dwts /\ w.refused = 0 /\ \A a \in Watch : w.wps[a] = -1
  BY FS_EmptySet, Sizes DEF Init, NotListed
<1>3. Counted(w) /\ Matched(w) /\ Bounded(w)
  BY <1>1, <1>2 DEF Counted, Matched, Bounded
<1> QED BY <1>3 DEF WatchesKnown

LEMMA WatchesStep ==
  ASSUME Basic, WatchesKnown, [Next]_vars
  PROVE  WatchesKnown'
<1>1. SUFFICES ASSUME ~env.reexamined, Counted(w), Matched(w), Bounded(w)
               PROVE  Counted(w') /\ Matched(w') /\ Bounded(w')
  BY SameEnv DEF WatchesKnown, Counted, Matched, Bounded, ListedWatches, Orphans
<1>2. CASE AddWatchpoint \/ RemoveWatchpoint
  BY <1>1, <1>2, BasicWatch
<1>3. CASE Resume
  <2>1. w' = EnableWatchpoints(w) /\ w \in Watches
    BY <1>3, BasicFacts DEF Resume
  <2>2. /\ w'.available = w.available /\ ListedWatches(w') = ListedWatches(w)
        /\ w'.refused = w.refused /\ Orphans(w') \subseteq Orphans(w)
        /\ Matched(w) => Matched(w')
    BY <2>1, EnableWatchesEffect
  <2>3. Bounded(w')
    BY <1>1, <2>1, <2>2, FewerOrphans
  <2> QED BY <1>1, <2>2, <2>3 DEF Counted
<1>4. CASE UNCHANGED w
  BY <1>1, <1>4
<1>5. CASE PollFails
  BY <1>1, <1>4, <1>5, BasicPollFails
<1>6. CASE Core \/ Break \/ Halt \/ StepBegins \/ EventHandler \/ UNCHANGED vars
  <2>1. UNCHANGED w
    BY <1>6 DEF Core, CoreRuns, CoreInterrupted, CoreReset, Break, Halt, StepBegins, EventHandler, vars
  <2> QED BY <1>4, <2>1
<1>7. CASE Step
  <2>1. UNCHANGED w
    BY <1>7 DEF Step, StepSkipped, StepPlain, StepAuto, Wait, WaitFails, Waited, StepEnds, StepEndFails
  <2> QED BY <1>4, <2>1
<1>8. CASE PollState \/ PollReset \/ PollEndReset \/ EndResetFails
  <2>1. UNCHANGED w
    BY <1>8 DEF PollState, PollReset, PollEndReset, EndResetFails
  <2> QED BY <1>4, <2>1
<1> QED BY <1>2, <1>3, <1>5, <1>6, <1>7, <1>8 DEF Next, User, Poll

LEMMA OwnedAlways == Spec => [](Basic /\ AskedKnown /\ OwnedKnown /\ WatchesKnown)
<1>1. Init => Basic /\ AskedKnown /\ OwnedKnown /\ WatchesKnown
  BY BasicInit, AskedInit, OwnedInit, WatchesInit
<1>2. (Basic /\ AskedKnown /\ OwnedKnown /\ WatchesKnown) /\ [Next]_vars =>
        (Basic /\ AskedKnown /\ OwnedKnown /\ WatchesKnown)'
  BY AskedStep, OwnedStep, WatchesStep
<1> QED BY <1>1, <1>2, PTL DEF Spec

\* In every environment that is orderly the comparators of both units stay accounted
\* for, whatever fails: none has two owners, none is lost but those of watchpoints that
\* were removed while the target was not halted.
THEOREM ComparatorsAccounted == Spec => [](Orderly => ComparatorsOwned)
<1>1. ASSUME Owned(b) PROVE BreakpointsFit
  <2>1. ASSUME NEW c \in Cs
        PROVE  LET owners == {a \in Program : InHard(a) /\ b.bps[a].set = c}
               IN IF b.used[c] THEN owners = {b.fpcr[c]} ELSE owners = {} /\ b.fpcr[c] = 0
    <3>1. \A a \in Program : InHard(a) <=> Fitted(b, a)
      BY DEF InHard, Fitted
    <3>2. CASE b.used[c]
      BY <1>1, <3>1, <3>2 DEF Owned
    <3>3. CASE ~b.used[c]
      BY <1>1, <3>1, <3>3 DEF Owned
    <3> QED BY <3>2, <3>3
  <2> QED BY <2>1 DEF BreakpointsFit, Cs
<1>2. Counted(w) /\ Matched(w) /\ Bounded(w) => WatchpointsFit
  BY DEF Counted, Matched, Bounded, WatchpointsFit, ListedWatches
<1>3. Basic /\ AskedKnown /\ OwnedKnown /\ WatchesKnown => (Orderly => ComparatorsOwned)
  BY <1>1, <1>2 DEF OwnedKnown, WatchesKnown, Orderly, ComparatorsOwned
<1> QED BY <1>3, OwnedAlways, PTL

-----------------------------------------------------------------------------
(* Where nothing fails the unit is as the host believes it is. *)

Sound == env.fails = {} /\ ~env.reexamined /\ "removeFound" \notin env.handlers

\* The chip was reset and the comparators are not restored yet.
Resets == core.wasReset \/ state = "reset"

SyncKnown ==
  Sound => /\ Enabled(b) /\ Clean(b)
           /\ ~Resets => Synced(b)
           /\ state # "unknown" /\ (core.wasReset => state = "running")

LEMMA SyncInit == ASSUME Init PROVE SyncKnown
<1>1. /\ \A a \in Program : b.bps[a] = NoBreak
      /\ \A a \in Program : b.mem[a] = Original(a)
  BY DEF Init, Original
<1>2. NoBreak.type = "none" /\ NoBreak.set = 0
  BY DEF NoBreak
<1>3. Enabled(b) /\ Clean(b)
  BY <1>1, <1>2 DEF Enabled, Fitted, Clean
<1>4. Synced(b)
  BY DEF Init, Synced
<1>5. state = "running"
  BY DEF Init
<1> QED BY <1>3, <1>4, <1>5 DEF SyncKnown

\* What a step does to the host's knowledge of resets.
LEMMA StatusStep ==
  ASSUME Basic, AskedKnown, Sound, state # "unknown", core.wasReset => state = "running",
         [Next]_vars
  PROVE  /\ state' # "unknown" /\ (core'.wasReset => state' = "running")
         /\ Resets /\ ~Resets' => PollEndReset
         /\ CoreReset => Resets'
         /\ ~EndResetFails
<1>0. core \in Cores /\ KnownPlace(core) /\ "core" \notin env.fails /\ "unit" \notin env.fails
  BY BasicFacts DEF Sound
<1>1. ASSUME state' = state, core'.wasReset = core.wasReset, ~CoreReset, ~EndResetFails
      PROVE  /\ state' # "unknown" /\ (core'.wasReset => state' = "running")
             /\ Resets /\ ~Resets' => PollEndReset
             /\ CoreReset => Resets'
             /\ ~EndResetFails
  BY <1>1 DEF Resets
<1>2. ~EndResetFails
  BY <1>0 DEF EndResetFails
<1>3. CASE CoreReset
  <2>1. core'.wasReset /\ state' = state /\ state = "running"
    BY <1>0, <1>3 DEF CoreReset, Cores, view
  <2> QED BY <1>2, <2>1 DEF Resets
<1>4. CASE ~CoreReset /\ (CoreRuns \/ CoreInterrupted)
  <2>1. state' = state
    BY <1>4 DEF CoreRuns, CoreInterrupted, view
  <2>2. core'.wasReset = core.wasReset
    <3>1. CASE CoreRuns
      <4>1. core' = [core EXCEPT !.halted = TRUE, !.met = TRUE] \/ core' = Executed(core)
        BY <3>1 DEF CoreRuns
      <4> QED BY <1>0, <4>1, ExecutedEffect DEF Cores
    <3>2. CASE CoreInterrupted
      <4>1. core' = Interrupted(core) /\ core.ret = 0
        BY <3>2 DEF CoreInterrupted
      <4> QED BY <1>0, <4>1, InterruptedEffect
    <3> QED BY <1>4, <3>1, <3>2
  <2> QED BY <1>1, <1>2, <1>4, <2>1, <2>2
<1>5. CASE Break \/ AddWatchpoint \/ RemoveWatchpoint \/ EventHandler \/ StepSkipped \/ UNCHANGED vars
  <2>1. UNCHANGED <<core, state>>
    BY <1>5 DEF Break, AddWatchpoint, RemoveWatchpoint, EventHandler, StepSkipped, vars, view
  <2> QED BY <1>1, <1>2, <1>3, <2>1
<1>6. CASE Halt
  <2>1. state' = state /\ core'.wasReset = core.wasReset
    BY <1>0, <1>6 DEF Halt, IfFails, Cores
  <2> QED BY <1>1, <1>2, <1>3, <2>1
<1>7. CASE Resume
  <2>1. state = "halted" /\ state' = "running" /\ core'.wasReset = core.wasReset
    BY <1>7, ResumeEffect DEF Resume
  <2> QED BY <1>2, <1>3, <2>1 DEF Resets
<1>8. CASE StepBegins
  <2>1. state' = state /\ core'.wasReset = core.wasReset
    BY <1>8, BasicStepBegins DEF StepBegins
  <2> QED BY <1>1, <1>2, <1>3, <2>1
<1>9. CASE StepPlain \/ StepAuto \/ Waited
  <2>1. state' = state
    BY <1>9 DEF StepPlain, StepAuto, Waited, view
  <2>2. core'.wasReset = core.wasReset
    <3>1. \/ core' = core
          \/ core' = [core EXCEPT !.halted = FALSE, !.masked = FALSE]
          \/ \E x : \E masked \in BOOLEAN : core' \in Stepped(x, core, masked)
      <4>1. MaskedStep \in BOOLEAN /\ TRUE \in BOOLEAN
        BY DEF MaskedStep
      <4>2. CASE StepPlain
        <5>1. core' \in Stepped(b, core, MaskedStep)
          BY <4>2 DEF StepPlain
        <5> QED BY <4>1, <5>1
      <4>3. CASE StepAuto
        <5>1. PICK r \in Temporary :
                IF r.ok
                THEN core' \in {[core EXCEPT !.halted = FALSE, !.masked = FALSE]} \cup IfFails("core", {core})
                ELSE core' \in Stepped(r.b, core, MaskedStep)
          BY <4>3 DEF StepAuto
        <5> QED BY <4>1, <5>1 DEF IfFails
      <4>4. CASE Waited
        <5>1. core' = core \/ core' \in Stepped(b', core, TRUE)
          BY <4>4 DEF Waited, LastStep
        <5> QED BY <4>1, <5>1
      <4> QED BY <1>9, <4>2, <4>3, <4>4
    <3>2. CASE core' = core \/ core' = [core EXCEPT !.halted = FALSE, !.masked = FALSE]
      BY <1>0, <3>2 DEF Cores
    <3>3. CASE \E x : \E masked \in BOOLEAN : core' \in Stepped(x, core, masked)
      BY <1>0, <3>3, SteppedEffect
    <3> QED BY <3>1, <3>2, <3>3
  <2> QED BY <1>1, <1>2, <1>3, <2>1, <2>2
<1>10. CASE Wait \/ StepEnds
  <2>1. at # "idle"
    BY <1>10 DEF Wait, StepEnds
  <2>2. state = "halted" /\ ~core.wasReset
    BY <2>1, BasicFacts
  <2>3. state' \in {"halted", "running"} /\ ~core'.wasReset
    BY <1>0, <1>10, <2>2 DEF Wait, StepEnds, Cores, view
  <2> QED BY <1>2, <1>3, <2>2, <2>3 DEF Resets
<1>11. CASE WaitFails \/ StepEndFails \/ PollFails
  BY <1>0, <1>11 DEF WaitFails, StepEndFails, PollFails, Sound
<1>12. CASE PollState
  <2>1. ~core.wasReset /\ state # "reset" /\ state' \in {"halted", "running"}
    BY <1>12 DEF PollState
  <2>2. core'.wasReset = core.wasReset
    BY <1>12, EnterEffect DEF PollState
  <2> QED BY <1>2, <1>3, <2>1, <2>2 DEF Resets
<1>13. CASE PollReset
  <2>1. state' = "reset" /\ ~core'.wasReset
    BY <1>0, <1>13 DEF PollReset, Cores
  <2> QED BY <1>2, <1>3, <2>1 DEF Resets
<1>14. CASE PollEndReset
  <2>1. ~core.wasReset /\ state' \in {"halted", "running"}
    BY <1>14 DEF PollEndReset
  <2>2. core'.wasReset = core.wasReset
    BY <1>14, EnterEffect DEF PollEndReset
  <2> QED BY <1>2, <1>3, <1>14, <2>1, <2>2
<1> QED BY <1>2, <1>3, <1>4, <1>5, <1>6, <1>7, <1>8, <1>9, <1>10, <1>11, <1>12, <1>13, <1>14
        DEF Next, Core, User, Step, Poll

LEMMA SyncStep ==
  ASSUME Basic, AskedKnown, SyncKnown, [Next]_vars
  PROVE  SyncKnown'
<1>1. env' = env
  BY SameEnv
<1>2. SUFFICES ASSUME Sound
               PROVE  /\ Enabled(b') /\ Clean(b')
                      /\ ~Resets' => Synced(b')
                      /\ state' # "unknown" /\ (core'.wasReset => state' = "running")
  <2>1. Clean(b)' <=> Clean(b')
    BY <1>1 DEF Clean, Original
  <2> QED BY <1>1, <2>1 DEF SyncKnown, Sound, Enabled, Fitted, Synced
<1>3. /\ Enabled(b) /\ Clean(b) /\ (~Resets => Synced(b)) /\ Sorted(b)
      /\ state # "unknown" /\ (core.wasReset => state = "running")
  BY <1>2, BasicFacts DEF SyncKnown
<1>4. /\ state' # "unknown" /\ (core'.wasReset => state' = "running")
      /\ Resets /\ ~Resets' => PollEndReset
      /\ CoreReset => Resets'
      /\ ~EndResetFails
  BY <1>2, <1>3, StatusStep
<1>5. CASE PollEndReset
  <2>1. /\ b'.bps = b.bps /\ b'.mem = b.mem
        /\ b'.on /\ b'.enabled /\ b'.comp = b'.fpcr /\ b' \in Worlds
    BY <1>5, BasicEndReset DEF Basic, Types
  <2>2. b'.on = b'.enabled
    BY <2>1 DEF Worlds
  <2> QED BY <1>3, <1>4, <2>1, <2>2 DEF Enabled, Clean, Synced, Fitted
<1>6. CASE CoreReset
  <2>1. b'.bps = b.bps /\ b'.mem = b.mem /\ b'.enabled = b.enabled
    BY <1>6, BasicReset
  <2> QED BY <1>3, <1>4, <1>6, <2>1 DEF Enabled, Clean, Fitted
<1>7. CASE ~PollEndReset /\ ~CoreReset
  <2>1. Keeps(b, b')
    BY <1>2, <1>4, <1>7, WorldStep DEF Sound
  <2>2. "unit" \notin env.fails /\ "memory" \notin env.fails
    BY <1>2 DEF Sound
  <2> QED BY <1>3, <1>4, <1>7, <2>1, <2>2 DEF Keeps
<1> QED BY <1>5, <1>6, <1>7

\* The core stops at an address exactly when a breakpoint is set there or the program
\* has an instruction for it.
LEMMA StopsIff ==
  ASSUME NEW x \in Worlds, Sorted(x), Owned(x), Synced(x), Enabled(x), Clean(x), NEW a \in Program
  PROVE  Stops(x, a) <=> x.bps[a].set # 0 \/ a \in env.own
<1>1. Armed(x, a) <=> Fitted(x, a)
  <2>1. ASSUME Fitted(x, a) PROVE Armed(x, a)
    <3>1. x.bps[a].set \in Cs /\ x.fpcr[x.bps[a].set] = a /\ x.enabled
      BY <2>1 DEF Owned, Enabled
    <3> QED BY <3>1 DEF Armed, Synced, Cs
  <2>2. ASSUME Armed(x, a) PROVE Fitted(x, a)
    <3>1. PICK c \in Cs : x.comp[c] = a
      BY <2>2 DEF Armed, Cs
    <3>2. x.fpcr[c] = a /\ a # 0
      BY <3>1, Sizes DEF Synced
    <3> QED BY <3>2 DEF Owned
  <2> QED BY <2>1, <2>2
<1>2. x.mem[a] # "code" <=> (x.bps[a].type # "hard" /\ x.bps[a].set # 0) \/ a \in env.own
  <2>1. CASE x.bps[a].type # "hard" /\ x.bps[a].set # 0
    BY <2>1 DEF Clean
  <2>2. CASE ~(x.bps[a].type # "hard" /\ x.bps[a].set # 0)
    BY <2>2 DEF Clean, Original
  <2> QED BY <2>1, <2>2
<1> QED BY <1>1, <1>2 DEF Stops, Fitted

-----------------------------------------------------------------------------
(* Along a step: the breakpoint found, and every other. *)

FoundKnown ==
  Sound => /\ at \in {"event", "event, skipped"} /\ found > 0 => b.bps[found].set = 0
           /\ at \in {"wait", "waited"} => b.bps[from].set # 0

\* Steps that leave what a step keeps alone.
Apart ==
  \/ UNCHANGED vars \/ Core \/ Break \/ AddWatchpoint \/ RemoveWatchpoint \/ Halt \/ Resume
  \/ WaitFails \/ StepEnds \/ StepEndFails \/ Poll

LEMMA ApartEffect ==
  ASSUME Apart
  PROVE  \/ at' = "idle"
         \/ UNCHANGED <<b, at, found, from, timedOut>>
<1>1. CASE UNCHANGED vars \/ CoreRuns \/ CoreInterrupted
  BY <1>1 DEF vars, CoreRuns, CoreInterrupted, step
<1>2. CASE CoreReset \/ Break \/ AddWatchpoint \/ RemoveWatchpoint \/ Halt \/ Resume
  BY <1>2 DEF CoreReset, Break, AddWatchpoint, RemoveWatchpoint, Halt, Resume, step
<1>3. CASE WaitFails \/ StepEnds \/ StepEndFails
  BY <1>3 DEF WaitFails, StepEnds, StepEndFails, Returns
<1>4. CASE Poll
  BY <1>4 DEF Poll, PollState, PollReset, PollEndReset, EndResetFails, PollFails, step
<1> QED BY <1>1, <1>2, <1>3, <1>4 DEF Apart, Core

LEMMA FoundStep ==
  ASSUME Basic, AskedKnown, FoundKnown, [Next]_vars
  PROVE  FoundKnown'
<1>1. env' = env
  BY SameEnv
<1>2. SUFFICES ASSUME Sound
               PROVE  /\ at' \in {"event", "event, skipped"} /\ found' > 0 => b'.bps[found'].set = 0
                      /\ at' \in {"wait", "waited"} => b'.bps[from'].set # 0
  BY <1>1 DEF FoundKnown, Sound
<1>3. /\ at \in {"event", "event, skipped"} /\ found > 0 => b.bps[found].set = 0
      /\ at \in {"wait", "waited"} => b.bps[from].set # 0
  BY <1>2 DEF FoundKnown
<1>4. ~(found < 0) /\ found >= 0 /\ "memory" \notin env.fails
  BY <1>2, BasicFacts DEF Sound
<1>5. CASE Apart
  BY <1>3, <1>5, ApartEffect
<1>6. CASE StepBegins
  <2>1. /\ at' \in {"event", "event, skipped"} /\ found' \in {0, pc}
        /\ found' # 0 => b'.bps[pc].set = 0
    BY <1>4, <1>6, BasicStepBegins
  <2>2. at' # "wait" /\ at' # "waited"
    BY <2>1
  <2>3. found' > 0 => found' = pc /\ found' # 0
    <3>1. pc \in Nat /\ pc # 0
      BY BasicFacts, Sizes
    <3>2. CASE found' = 0
      BY <3>2
    <3>3. CASE found' = pc
      BY <3>1, <3>3
    <3> QED BY <2>1, <3>2, <3>3
  <2> QED BY <2>1, <2>2, <2>3
<1>7. CASE EventHandler
  <2>1. at \in {"event", "event, skipped"} /\ at' = at /\ UNCHANGED from
    BY <1>7 DEF EventHandler
  <2>2. PICK a \in env.code :
         \/ Add(a, "hard") /\ UNCHANGED found
         \/ a # found /\ Remove(a) /\ UNCHANGED found
    BY <1>2, <1>7 DEF EventHandler, Sound
  <2>3. a \in Code
    BY <2>2, Env, BasicFacts
  <2>4. ASSUME found > 0 PROVE b'.bps[found].set = b.bps[found].set
    <3>1. found \in Program /\ found \in Listed(b)
      BY <2>4, BasicFacts
    <3>2. CASE Add(a, "hard")
      <4>1. Elsewhere(b, b', a) /\ (a \notin Listed(b) \/ b'.bps = b.bps)
        BY <2>3, <3>2, AddedEffect
      <4> QED BY <3>1, <4>1 DEF Elsewhere
    <3>3. CASE a # found /\ Remove(a)
      <4>1. Elsewhere(b, b', a)
        BY <2>3, <3>3, RemovedEffect
      <4> QED BY <3>1, <3>3, <4>1 DEF Elsewhere
    <3> QED BY <2>2, <3>2, <3>3
  <2> QED BY <1>3, <2>1, <2>2, <2>4
<1>8. CASE StepSkipped \/ StepPlain \/ Waited
  BY <1>8 DEF StepSkipped, StepPlain, Waited
<1>9. CASE StepAuto
  <2>1. PICK r \in Temporary : b' = r.b /\ IF r.ok THEN at' = "wait" ELSE at' = "end"
    BY <1>9 DEF StepAuto
  <2>2. at = "event" /\ UNCHANGED <<found, from>>
    BY <1>9 DEF StepAuto
  <2>3. r.ok \in BOOLEAN /\ (r.ok => b'.bps[from].set # 0)
    BY <1>4, <2>1, <2>2, TemporaryEffect
  <2> QED BY <2>1, <2>2, <2>3
<1>10. CASE Wait
  <2>1. at = "wait" /\ at' \in {"wait", "waited"} /\ UNCHANGED <<b, from>>
    BY <1>10 DEF Wait
  <2> QED BY <1>3, <2>1
<1> QED BY <1>5, <1>6, <1>7, <1>8, <1>9, <1>10 DEF Next, User, Step, Apart

\* Where no handler adds a breakpoint all listed are set, but the one a step has found,
\* and for that there is a comparator.
Quiet == Sound /\ env.handlers \subseteq {"remove"}

HostKnown ==
  Quiet => /\ \A a \in Listed(b) : a # found => b.bps[a].set # 0
           /\ found > 0 /\ b.bps[found].type = "hard" /\ b.bps[found].set = 0 =>
                \E c \in Cs : ~b.used[c]

LEMMA HostInit == ASSUME Init PROVE HostKnown /\ FoundKnown
<1>1. Listed(b) = {} /\ found = 0 /\ at = "idle"
  BY DEF Init, Listed, NoBreak, Idle
<1> QED BY <1>1 DEF HostKnown, FoundKnown

LEMMA HostStep ==
  ASSUME Basic, AskedKnown, FoundKnown, HostKnown, [Next]_vars
  PROVE  HostKnown'
<1>1. env' = env
  BY SameEnv
<1> DEFINE Free(x) == \E c \in Cs : ~x.used[c]
           Set(x, f) == /\ \A a \in Listed(x) : a # f => x.bps[a].set # 0
                        /\ f > 0 /\ x.bps[f].type = "hard" /\ x.bps[f].set = 0 => Free(x)
<1>2. SUFFICES ASSUME Quiet PROVE Set(b', found')
  BY <1>1 DEF HostKnown, Quiet, Sound
<1>3. Set(b, found)
  BY <1>2 DEF HostKnown
<1>4. Sound /\ ~(found < 0) /\ found >= 0 /\ found \in Int /\ env.fails = {} /\ b \in Worlds /\ Sorted(b)
  BY <1>2, BasicFacts DEF Quiet, Sound
<1>5. CASE UNCHANGED <<b, found>>
  <2> HIDE DEF Set
  <2> QED BY <1>3, <1>5
<1>6. CASE b'.bps = b.bps /\ b'.used = b.used /\ found' = found
  <2>1. Listed(b') = Listed(b)
    BY <1>6, SameList
  <2> QED BY <1>3, <1>6, <2>1
<1>7. CASE UNCHANGED vars \/ CoreRuns \/ CoreInterrupted \/ AddWatchpoint \/ RemoveWatchpoint \/ Halt
  <2>1. UNCHANGED <<b, found>>
    BY <1>7 DEF vars, CoreRuns, CoreInterrupted, AddWatchpoint, RemoveWatchpoint, Halt, step
  <2> QED BY <1>5, <2>1
<1>8. CASE CoreReset
  <2>1. b'.bps = b.bps /\ b'.used = b.used /\ found' = found
    BY <1>8, BasicReset DEF CoreReset, step
  <2> QED BY <1>6, <2>1
<1>9. CASE Break
  <2>0. found = 0 /\ found' = 0
    BY <1>9, BasicFacts DEF Break, step
  <2>1. PICK a \in env.code : Remove(a) \/ \E type \in {"hard", "soft"} : Add(a, type)
    BY <1>9 DEF Break
  <2>2. a \in Code
    BY <2>1, Env, BasicFacts
  <2>3. CASE Remove(a)
    <3>1. Elsewhere(b, b', a) /\ Listed(b') = Listed(b) \ {a}
      BY <2>2, <2>3, RemovedEffect
    <3> QED BY <1>3, <2>0, <3>1 DEF Elsewhere, Listed
  <2>4. CASE \E type \in {"hard", "soft"} : Add(a, type)
    <3>1. /\ Elsewhere(b, b', a)
          /\ \/ Listed(b') = Listed(b) \cup {a} /\ b'.bps[a].set # 0
             \/ b'.bps = b.bps
      BY <2>2, <2>4, AddedEffect
    <3>2. CASE Listed(b') = Listed(b) \cup {a} /\ b'.bps[a].set # 0
      BY <1>3, <2>0, <3>1, <3>2 DEF Elsewhere, Listed
    <3>3. CASE b'.bps = b.bps
      BY <1>3, <2>0, <3>3 DEF Listed
    <3> QED BY <3>1, <3>2, <3>3
  <2> QED BY <2>1, <2>3, <2>4
<1>10. CASE Resume
  <2>1. found = 0 /\ found' = 0
    BY <1>10, BasicFacts DEF Resume, step
  <2>2. Unset(b) = {}
    <3>1. \A a \in Listed(b) : a # 0
      BY Sizes DEF Listed
    <3> QED BY <1>3, <2>1, <3>1 DEF Unset
  <2>3. \A a \in Listed(b') : b'.bps[a].set # 0
    BY <1>4, <1>10, <2>2, ResumeEffect
  <2> QED BY <2>1, <2>3
<1>11. CASE StepBegins
  <2>1. /\ Keeps(b, b') /\ Listed(b') = Listed(b) /\ Elsewhere(b, b', pc) /\ found' \in {0, pc}
        /\ found' = 0 => b' = b
        /\ found' # 0 => (Fitted(b, pc) => Free(b'))
    BY <1>11, BasicStepBegins
  <2>2. found = 0 /\ pc \in Program /\ \A a \in Listed(b) : a # 0 /\ a \in Program
    BY <1>11, BasicFacts, Sizes DEF StepBegins, Listed
  <2>3. CASE found' = 0
    BY <1>3, <2>1, <2>2, <2>3
  <2>4. CASE found' = pc /\ found' # 0
    <3>1. pc \in Listed(b)
      <4>1. found' > 0
        BY <2>2, <2>4, Sizes
      <4>2. found' \in Listed(b')
        BY <1>11, <4>1, BasicStepBegins DEF Basic, StepKnown
      <4> QED BY <2>1, <2>4, <4>2
    <3>2. \A a \in Listed(b') : a # pc => b'.bps[a].set # 0
      BY <1>3, <2>1, <2>2 DEF Elsewhere
    <3>3. b.bps[pc].set # 0
      BY <1>3, <2>2, <3>1
    <3>4. b'.bps[pc].type = "hard" => Free(b')
      <4>1. b'.bps[pc].type = b.bps[pc].type
        BY <1>11, BasicStepBegins
      <4> QED BY <2>1, <2>4, <3>3, <4>1 DEF Fitted
    <3> QED BY <2>4, <3>2, <3>4
  <2> QED BY <2>1, <2>3, <2>4
<1>12. CASE EventHandler
  <2>1. PICK a \in env.code : a # found /\ Remove(a) /\ UNCHANGED found
    BY <1>2, <1>12 DEF EventHandler, Quiet
  <2>2. a \in Code
    BY <2>1, Env, BasicFacts
  <2>3. /\ Elsewhere(b, b', a) /\ Listed(b') = Listed(b) \ {a}
        /\ \A d \in Cs : b'.used[d] => b.used[d]
    BY <2>1, <2>2, RemovedEffect
  <2>4. \A o \in Listed(b') : o # found => b'.bps[o].set # 0
    BY <1>3, <2>3 DEF Elsewhere, Listed
  <2>5. found > 0 => b'.bps[found] = b.bps[found]
    BY <2>1, <2>3, BasicFacts DEF Elsewhere
  <2> QED BY <1>3, <2>1, <2>3, <2>4, <2>5
<1>13. CASE StepSkipped \/ StepPlain \/ Wait
  <2>1. UNCHANGED <<b, found>>
    BY <1>13 DEF StepSkipped, StepPlain, Wait
  <2> QED BY <1>5, <2>1
<1>14. CASE StepAuto
  <2>1. PICK r \in Temporary : b' = r.b
    BY <1>14 DEF StepAuto
  <2>2. at = "event" /\ UNCHANGED <<found, from>> /\ from \in Program
    BY <1>14, BasicFacts DEF StepAuto
  <2>3. /\ r.ok \in BOOLEAN /\ Elsewhere(b, b', from)
        /\ found # 0 => Listed(b') = Listed(b)
        /\ found = 0 /\ r.ok => Listed(b') = Listed(b) \cup {from}
        /\ found = 0 /\ ~r.ok => b'.bps = b.bps
        /\ r.ok => b'.bps[from].set # 0
        /\ found > 0 /\ ~r.ok => b' = b
    BY <1>4, <2>1, <2>2, TemporaryEffect
  <2>4. CASE r.ok
    <3>1. \A a \in Listed(b') : a # found => b'.bps[a].set # 0
      <4> SUFFICES ASSUME NEW a \in Listed(b'), a # found PROVE b'.bps[a].set # 0
        OBVIOUS
      <4>1. CASE a = from
        BY <2>3, <2>4, <4>1
      <4>2. CASE a # from
        <5>1. a \in Listed(b) /\ a \in Program /\ b'.bps[a] = b.bps[a]
          BY <2>3, <2>4, <4>2 DEF Listed, Elsewhere
        <5> QED BY <1>3, <5>1
      <4> QED BY <4>1, <4>2
    <3>2. found > 0 => b'.bps[found].set # 0
      BY <2>3, <2>4, BasicFacts
    <3> QED BY <2>2, <3>1, <3>2
  <2>5. CASE ~r.ok /\ found = 0
    BY <1>3, <2>2, <2>3, <2>5 DEF Listed
  <2>6. CASE ~r.ok /\ found > 0
    <3> HIDE DEF Set
    <3> QED BY <1>3, <2>2, <2>3, <2>6
  <2> QED BY <1>4, <2>3, <2>4, <2>5, <2>6
<1>15. CASE Waited
  <2>1. at = "waited" /\ b' \in RemoveTemporary /\ UNCHANGED <<found, from>>
    BY <1>15 DEF Waited
  <2>2. found = 0 => from \in Listed(b)
    BY <2>1 DEF AskedKnown, Temp
  <2>3. /\ Elsewhere(b, b', from)
        /\ found = 0 => Listed(b') = Listed(b) \ {from}
        /\ found # 0 => Listed(b') = Listed(b)
        /\ Fitted(b, from) => Free(b')
        /\ found > 0 => b'.bps[found].type = b.bps[found].type
    BY <1>4, <2>1, <2>2, RemoveTemporaryEffect
  <2>4. b.bps[from].set # 0
    BY <1>4, <2>1 DEF FoundKnown
  <2>5. found > 0 => found = from
    BY BasicFacts
  <2>6. \A a \in Listed(b') : a # found => b'.bps[a].set # 0
    <3> SUFFICES ASSUME NEW a \in Listed(b'), a # found PROVE b'.bps[a].set # 0
      OBVIOUS
    <3>1. a \in Listed(b) /\ a \in Program /\ a # from
      BY <1>4, <2>3, <2>5 DEF Listed
    <3> QED BY <1>3, <2>3, <3>1 DEF Elsewhere
  <2>7. found > 0 /\ b'.bps[found].type = "hard" => Free(b')
    BY <2>3, <2>4, <2>5 DEF Fitted
  <2> QED BY <2>1, <2>6, <2>7
<1>16. CASE StepEnds
  <2>1. b' \in SetAgain /\ found' = 0
    BY <1>16 DEF StepEnds, Returns
  <2>2. /\ Listed(b') = Listed(b) /\ (found = 0 => b' = b)
        /\ found > 0 => /\ Elsewhere(b, b', found)
                        /\ b.bps[found].set # 0 => b' = b
                        /\ \/ b'.bps[found].set # 0
                           \/ b.bps[found].type = "hard" /\ \A c \in Cs : b.used[c]
    BY <1>4, <2>1, SetAgainEffect
  <2>3. CASE found = 0
    <3> HIDE DEF Set
    <3> QED BY <1>3, <2>1, <2>2, <2>3
  <2>4. CASE found > 0
    <3>1. b'.bps[found].set # 0
      BY <1>3, <2>2, <2>4
    <3>2. \A a \in Listed(b') : b'.bps[a].set # 0
      <4> SUFFICES ASSUME NEW a \in Listed(b'), a # found PROVE b'.bps[a].set # 0
        BY <3>1
      <4>1. a \in Listed(b) /\ a \in Program
        BY <2>2 DEF Listed
      <4> QED BY <1>3, <2>2, <2>4, <4>1 DEF Elsewhere
    <3> QED BY <2>1, <3>2
  <2> QED BY <1>4, <2>3, <2>4
<1>17. CASE WaitFails \/ StepEndFails \/ PollFails \/ EndResetFails
  BY <1>4, <1>17 DEF WaitFails, StepEndFails, PollFails, EndResetFails, Sound
<1>18. CASE PollState \/ PollReset
  <2>1. UNCHANGED <<b, found>>
    BY <1>18 DEF PollState, PollReset, step
  <2> QED BY <1>5, <2>1
<1>19. CASE PollEndReset
  <2>1. b'.bps = b.bps /\ b'.used = b.used /\ found' = found
    BY <1>19, BasicEndReset DEF PollEndReset, step
  <2> QED BY <1>6, <2>1
<1> QED BY <1>7, <1>8, <1>9, <1>10, <1>11, <1>12, <1>13, <1>14, <1>15, <1>16, <1>17, <1>18, <1>19
        DEF Next, Core, User, Step, Poll

-----------------------------------------------------------------------------
(* Where the core is. *)

\* In a step no reset is pending, so that the core stops where a breakpoint is set.
LEMMA StopsInStep ==
  ASSUME Basic, OwnedKnown, SyncKnown, Sound, at # "idle", NEW y, Keeps(b, y), NEW a \in Program
  PROVE  Stops(y, a) <=> y.bps[a].set # 0 \/ a \in env.own
<1>1. state = "halted" /\ b \in Worlds /\ Sorted(b)
  BY BasicFacts
<1>2. Enabled(b) /\ Clean(b) /\ Synced(b)
  BY <1>1 DEF SyncKnown, Resets
<1>3. Owned(b)
  BY DEF OwnedKnown, Orderly, Sound
<1>4. "unit" \notin env.fails /\ "memory" \notin env.fails
  BY DEF Sound
<1>5. y \in Worlds /\ Sorted(y) /\ Owned(y) /\ Synced(y) /\ Enabled(y) /\ Clean(y)
  BY <1>1, <1>2, <1>3, <1>4 DEF Keeps
<1> QED BY <1>5, StopsIff

HaltKnown ==
  Sound => /\ at = "idle" /\ state = "halted" => core.halted /\ pc = core.pc
           /\ at = "event" => core.halted /\ pc = core.pc
           /\ at = "waited" => timedOut \/ core.halted
           /\ at \in {"end", "event, skipped"} /\ ~timedOut => core.halted
           /\ at \notin {"waited", "end"} => ~timedOut

LEMMA HaltInit == ASSUME Init PROVE HaltKnown
BY DEF Init, Idle, HaltKnown

LEMMA HaltStep ==
  ASSUME Basic, SyncKnown, HaltKnown, [Next]_vars
  PROVE  HaltKnown'
<1> DEFINE Halted(p, s, v, c, t) ==
             /\ p = "idle" /\ s = "halted" => c.halted /\ v = c.pc
             /\ p = "event" => c.halted /\ v = c.pc
             /\ p = "waited" => t \/ c.halted
             /\ p \in {"end", "event, skipped"} /\ ~t => c.halted
             /\ p \notin {"waited", "end"} => ~t
<1>1. env' = env
  BY SameEnv
<1>2. SUFFICES ASSUME Sound PROVE Halted(at', state', pc', core', timedOut')
  BY <1>1 DEF HaltKnown, Sound
<1>3. Halted(at, state, pc, core, timedOut)
  BY <1>2 DEF HaltKnown
<1>4. /\ core \in Cores /\ KnownPlace(core) /\ "core" \notin env.fails /\ "unit" \notin env.fails
      /\ ~env.reexamined /\ state # "unknown" /\ (at # "idle" => state = "halted")
      /\ state \in {"running", "halted", "reset"}
  BY <1>2, BasicFacts DEF Sound, SyncKnown, Basic, Types
<1>5. CASE UNCHANGED <<at, state, pc, core, timedOut>>
  BY <1>3, <1>5
<1>6. CASE UNCHANGED vars \/ Break \/ AddWatchpoint \/ RemoveWatchpoint \/ EventHandler
  BY <1>5, <1>6 DEF vars, Break, AddWatchpoint, RemoveWatchpoint, EventHandler, view, step
<1>7. CASE CoreRuns \/ CoreInterrupted
  <2>1. ~core.halted /\ UNCHANGED <<at, state, pc, timedOut>>
    BY <1>7 DEF CoreRuns, CoreInterrupted, view, step
  <2> QED BY <1>3, <2>1
<1>8. CASE CoreReset \/ Halt
  <2>1. at = "idle" /\ state # "halted" /\ UNCHANGED <<at, state, timedOut>>
    BY <1>8 DEF CoreReset, Halt, view, step
  <2> QED BY <1>3, <2>1
<1>9. CASE Resume
  <2>1. at = "idle" /\ state' = "running" /\ UNCHANGED <<at, timedOut>>
    BY <1>9 DEF Resume, step
  <2> QED BY <1>3, <2>1
<1>10. CASE StepBegins
  <2>1. /\ at' \in {"event", "event, skipped"}
        /\ at' = "event" => core' = core /\ pc' = pc
        /\ at' = "event, skipped" => core'.halted = core.halted
    BY <1>10, BasicStepBegins
  <2>2. at = "idle" /\ state = "halted" /\ timedOut' = FALSE
    BY <1>10 DEF StepBegins
  <2> QED BY <1>3, <2>1, <2>2
<1>11. CASE StepSkipped
  BY <1>3, <1>11 DEF StepSkipped
<1>12. CASE StepPlain
  <2>1. at = "event" /\ at' = "end" /\ core' \in Stepped(b, core, MaskedStep) /\ MaskedStep \in BOOLEAN
    BY <1>12 DEF StepPlain, MaskedStep
  <2>2. core'.halted
    BY <1>4, <2>1, SteppedEffect
  <2> QED BY <2>1, <2>2
<1>13. CASE StepAuto
  <2>1. PICK r \in Temporary :
         IF r.ok THEN at' = "wait" ELSE at' = "end" /\ core' \in Stepped(r.b, core, MaskedStep)
    BY <1>13 DEF StepAuto
  <2>2. at = "event" /\ UNCHANGED timedOut /\ MaskedStep \in BOOLEAN
    BY <1>13 DEF StepAuto, MaskedStep
  <2>3. at' = "end" => core'.halted
    BY <1>4, <2>1, <2>2, SteppedEffect
  <2> QED BY <1>3, <2>1, <2>2, <2>3
<1>14. CASE Wait
  <2>1. /\ at' = IF core.halted \/ timedOut' THEN "waited" ELSE "wait"
        /\ core' = [core EXCEPT !.wasReset = FALSE]
    BY <1>14 DEF Wait
  <2>2. core'.halted = core.halted
    BY <1>4, <2>1 DEF Cores
  <2> QED BY <2>1, <2>2
<1>15. CASE Waited
  <2>1. /\ at = "waited" /\ at' = "end" /\ UNCHANGED timedOut
        /\ ~timedOut => core' \in Stepped(b', core, TRUE)
    BY <1>15 DEF Waited, LastStep
  <2>2. ~timedOut => core'.halted
    BY <1>4, <2>1, SteppedEffect
  <2> QED BY <2>1, <2>2
<1>16. CASE StepEnds
  <2>1. /\ at = "end" /\ at' = "idle" /\ timedOut' = FALSE
        /\ state' = IF timedOut THEN "running" ELSE "halted"
        /\ core' = [core EXCEPT !.met = core.met /\ timedOut, !.wasReset = FALSE]
        /\ pc' = IF timedOut THEN pc ELSE core.pc
    BY <1>16 DEF StepEnds, Returns
  <2>2. core'.halted = core.halted /\ core'.pc = core.pc
    BY <1>4, <2>1 DEF Cores
  <2> QED BY <1>3, <2>1, <2>2
<1>17. CASE WaitFails \/ StepEndFails \/ EndResetFails \/ PollFails
  BY <1>4, <1>17 DEF WaitFails, StepEndFails, EndResetFails, PollFails
<1>18. CASE PollState
  <2>1. /\ at = "idle" /\ UNCHANGED <<at, timedOut>> /\ state # "reset"
        /\ IF core.halted /\ state = "running" THEN Enter ELSE UNCHANGED <<core, pc>>
        /\ ~core.halted => state' = "running"
    BY <1>4, <1>18 DEF PollState, step
  <2>2. CASE core.halted /\ state = "running"
    <3>1. core'.halted /\ pc' = core'.pc
      BY <1>4, <2>1, <2>2, EnterEffect
    <3> QED BY <1>3, <2>1, <3>1
  <2>3. CASE core.halted /\ state = "halted"
    BY <1>3, <2>1, <2>3
  <2>4. CASE ~core.halted
    BY <1>3, <2>1, <2>4
  <2> QED BY <1>4, <2>1, <2>2, <2>3, <2>4
<1>19. CASE PollReset
  BY <1>3, <1>19 DEF PollReset, step
<1>20. CASE PollEndReset
  <2>1. /\ at = "idle" /\ UNCHANGED <<at, timedOut>>
        /\ state' = IF core.halted THEN "halted" ELSE "running"
        /\ core.halted => Enter
    BY <1>20 DEF PollEndReset, step
  <2>2. core.halted => core'.halted /\ pc' = core'.pc
    BY <1>4, <2>1, EnterEffect
  <2> QED BY <1>3, <2>1, <2>2
<1> QED BY <1>6, <1>7, <1>8, <1>9, <1>10, <1>11, <1>12, <1>13, <1>14, <1>15, <1>16, <1>17, <1>18, <1>19, <1>20
        DEF Next, Core, User, Step, Poll

\* A step from outside a handler, and not from a BKPT of the program: while the core is
\* awaited it is where it began or in a handler, from which it returns there; then it
\* has arrived.
Homeward == Sound /\ from \notin env.own \cup {Handler}
Back(c, f) == c.pc = f \/ (c.pc = Handler /\ c.ret = f)
Arrived ==
  \/ core.pc = (from % Last) + 1
  \/ core.pc # found /\ Stops(b, core.pc)

PlaceKnown ==
  Homeward =>
    /\ at \in {"wait", "waited"} => /\ Back(core, from)
                                    /\ core.halted => core.pc = from \/ Stops(b, Handler)
    /\ at = "event, skipped" => core.pc = (from % Last) + 1
    /\ at = "end" /\ env.mode = "auto" /\ ~timedOut => Arrived

LEMMA PlaceStep ==
  ASSUME Basic, AskedKnown, OwnedKnown, SyncKnown, FoundKnown, HaltKnown, PlaceKnown, [Next]_vars
  PROVE  PlaceKnown'
<1>1. env' = env
  BY SameEnv
<1>2. SUFFICES ASSUME Sound, from' \notin env.own, from' # Handler, at' # "idle"
               PROVE  /\ at' \in {"wait", "waited"} =>
                           Back(core', from') /\ (core'.halted => core'.pc = from' \/ Stops(b', Handler))
                      /\ at' = "event, skipped" => core'.pc = (from' % Last) + 1
                      /\ at' = "end" /\ env.mode = "auto" /\ ~timedOut' => Arrived'
  BY <1>1 DEF PlaceKnown, Homeward, Sound, Back, Stops, Armed
<1>3. /\ core \in Cores /\ KnownPlace(core) /\ b \in Worlds /\ Sorted(b) /\ pc \in Program
      /\ env.fails = {} /\ "core" \notin env.fails /\ "memory" \notin env.fails /\ found \in Int /\ ~(found < 0)
  BY <1>2, BasicFacts DEF Sound
<1>4. /\ at = "idle" /\ state = "halted" => core.halted /\ pc = core.pc
      /\ at = "event" => core.halted /\ pc = core.pc
      /\ at = "waited" => timedOut \/ core.halted
      /\ at \in {"end", "event, skipped"} /\ ~timedOut => core.halted
  BY <1>2 DEF HaltKnown
<1>5. /\ at \in {"event", "event, skipped"} /\ found > 0 => b.bps[found].set = 0
      /\ at \in {"wait", "waited"} => b.bps[from].set # 0
  BY <1>2 DEF FoundKnown
<1>6. /\ at # "idle" => from \in Program
      /\ found > 0 => found = from
      /\ from \in Program => found # Handler \/ from = Handler
  BY <1>3, BasicFacts, Sizes
<1>7. ASSUME from' = from
      PROVE  /\ at \in {"wait", "waited"} => /\ Back(core, from)
                                             /\ core.halted => core.pc = from \/ Stops(b, Handler)
             /\ at = "event, skipped" => core.pc = (from % Last) + 1
             /\ at = "end" /\ env.mode = "auto" /\ ~timedOut => Arrived
  BY <1>2, <1>7 DEF PlaceKnown, Homeward
\* The next place.
<1>8. ASSUME NEW c \in Cores, c.pc # Handler PROVE After(c) = (c.pc % Last) + 1
  BY <1>8 DEF After
<1>9. CASE CoreReset \/ Break \/ AddWatchpoint \/ RemoveWatchpoint \/ Halt \/ Resume
  BY <1>2, <1>9 DEF CoreReset, Break, AddWatchpoint, RemoveWatchpoint, Halt, Resume, step
<1>10. CASE WaitFails \/ StepEnds \/ StepEndFails
  BY <1>2, <1>10 DEF WaitFails, StepEnds, StepEndFails, Returns
<1>11. CASE Poll
  BY <1>2, <1>11 DEF Poll, PollState, PollReset, PollEndReset, EndResetFails, PollFails, step
<1>12. CASE UNCHANGED vars
  <2>1. UNCHANGED <<b, core, at, found, from, timedOut>>
    BY <1>12 DEF vars, step
  <2> QED BY <1>7, <2>1 DEF Arrived, Stops, Armed, Back
<1>13. CASE CoreRuns \/ CoreInterrupted
  <2>1. ~core.halted /\ UNCHANGED <<b, at, found, from, timedOut>>
    BY <1>13 DEF CoreRuns, CoreInterrupted, step
  <2>2. at \notin {"end", "event, skipped"} \/ timedOut
    BY <1>4, <2>1
  <2>3. at # "event, skipped"
    <3>1. at = "event, skipped" => ~timedOut
      BY <1>2 DEF HaltKnown
    <3> QED BY <2>2, <3>1
  <2>4. ASSUME at \in {"wait", "waited"}
        PROVE  Back(core', from) /\ (core'.halted => core'.pc = from \/ Stops(b, Handler))
    <3>1. Back(core, from) /\ from \in Program /\ from # Handler /\ Stops(b, from)
      <4>1. Stops(b, from) <=> b.bps[from].set # 0 \/ from \in env.own
        BY <1>2, <1>3, <1>6, <2>4, KeepsItself, StopsInStep
      <4> QED BY <1>2, <1>5, <1>6, <1>7, <2>1, <2>4, <4>1
    <3>2. CASE CoreInterrupted
      <4>1. core.ret = 0 /\ core' = Interrupted(core)
        BY <3>2 DEF CoreInterrupted
      <4>2. core'.pc = Handler /\ core'.ret = core.pc /\ core'.halted = core.halted
        BY <1>3, <4>1, InterruptedEffect
      <4>3. core.pc = from
        BY <1>3, <3>1, <4>1 DEF Back, KnownPlace
      <4> QED BY <2>1, <4>2, <4>3 DEF Back
    <3>3. CASE CoreRuns /\ Stops(b, core.pc)
      <4>1. core' = [core EXCEPT !.halted = TRUE, !.met = TRUE]
        BY <3>3 DEF CoreRuns
      <4>2. core'.pc = core.pc /\ core'.ret = core.ret
        BY <1>3, <4>1 DEF Cores
      <4> QED BY <3>1, <3>3, <4>2 DEF Back
    <3>4. CASE CoreRuns /\ ~Stops(b, core.pc)
      <4>1. core' = Executed(core)
        BY <3>4 DEF CoreRuns
      <4>2. core'.pc = After(core) /\ core'.halted = core.halted
        BY <1>3, <4>1, ExecutedEffect
      <4>3. core.pc = Handler /\ core.ret = from
        BY <3>1, <3>4 DEF Back
      <4> QED BY <2>1, <4>2, <4>3 DEF Back, After
    <3> QED BY <1>13, <3>2, <3>3, <3>4
  <2> QED BY <2>1, <2>2, <2>3, <2>4
<1>14. CASE StepBegins
  <2>1. /\ at' \in {"event", "event, skipped"} /\ from' = pc
        /\ at' = "event, skipped" => pc = core.pc /\ core'.pc = After(core)
    BY <1>14, BasicStepBegins
  <2>2. at' = "event, skipped" => core'.pc = (from' % Last) + 1
    BY <1>2, <1>3, <1>8, <2>1
  <2> QED BY <2>1, <2>2
<1>15. CASE EventHandler
  BY <1>7, <1>15 DEF EventHandler
<1>16. CASE StepSkipped
  BY <1>7, <1>16 DEF StepSkipped, Arrived
<1>17. ASSUME at = "event", at' = "end", UNCHANGED <<found, from>>, core' \in Stepped(b', core, MaskedStep),
              found > 0 => b' = b
       PROVE  env.mode = "auto" => Arrived'
  <2> SUFFICES ASSUME env.mode = "auto" PROVE Arrived'
    OBVIOUS
  <2>1. MaskedStep = TRUE
    BY DEF MaskedStep
  <2>2. pc = from /\ core.pc = from /\ from \in Program /\ from # Handler
    BY <1>2, <1>4, <1>17 DEF Basic, StepKnown
  <2>3. IF Stops(b', from) THEN core'.pc = from ELSE core'.pc = (from % Last) + 1
    <3>1. core' \in Stepped(b', core, TRUE)
      BY <1>17, <2>1
    <3>2. IF Stops(b', core.pc) THEN core'.pc = core.pc ELSE core'.pc = After(core)
      BY <1>3, <3>1, SteppedEffect
    <3> QED BY <1>3, <1>8, <2>2, <3>2
  <2>4. CASE found = 0
    BY <1>17, <2>2, <2>3, <2>4, Sizes DEF Arrived, Stops, Armed
  <2>5. CASE found > 0
    <3>1. Stops(b, from) <=> b.bps[from].set # 0 \/ from \in env.own
      BY <1>2, <1>3, <1>17, <2>2, KeepsItself, StopsInStep
    <3>2. ~Stops(b', from)
      BY <1>2, <1>5, <1>6, <1>17, <2>5, <3>1
    <3> QED BY <1>17, <2>3, <3>2 DEF Arrived
  <2> QED BY <1>3, <2>4, <2>5
<1>18. CASE StepPlain
  <2>1. /\ at = "event" /\ at' = "end" /\ core' \in Stepped(b, core, MaskedStep)
        /\ UNCHANGED <<b, found, from>>
    BY <1>18 DEF StepPlain
  <2> QED BY <1>17, <2>1
<1>19. CASE StepAuto
  <2>1. PICK r \in Temporary :
         /\ b' = r.b
         /\ IF r.ok
            THEN /\ at' = "wait"
                 /\ core' \in {[core EXCEPT !.halted = FALSE, !.masked = FALSE]} \cup IfFails("core", {core})
            ELSE at' = "end" /\ core' \in Stepped(r.b, core, MaskedStep)
    BY <1>19 DEF StepAuto
  <2>2. at = "event" /\ UNCHANGED <<found, from>>
    BY <1>19 DEF StepAuto
  <2>3. CASE r.ok
    <3>1. core' = [core EXCEPT !.halted = FALSE, !.masked = FALSE]
      BY <1>3, <2>1, <2>3 DEF IfFails
    <3>2. core'.pc = core.pc /\ ~core'.halted
      BY <1>3, <3>1 DEF Cores
    <3>3. core.pc = from
      BY <1>4, <2>2 DEF Basic, StepKnown
    <3> QED BY <2>1, <2>2, <2>3, <3>2, <3>3 DEF Back
  <2>4. CASE ~r.ok
    <3>1. found > 0 => b' = b
      BY <1>3, <2>1, <2>2, <2>4, TemporaryEffect
    <3> QED BY <1>17, <2>1, <2>2, <2>4, <3>1
  <2> QED BY <2>3, <2>4
<1>20. CASE Wait
  <2>1. /\ at = "wait" /\ at' \in {"wait", "waited"} /\ UNCHANGED <<b, found, from>>
        /\ core' = [core EXCEPT !.wasReset = FALSE]
    BY <1>20 DEF Wait
  <2>2. core'.pc = core.pc /\ core'.ret = core.ret /\ core'.halted = core.halted
    BY <1>3, <2>1 DEF Cores
  <2> QED BY <1>7, <2>1, <2>2 DEF Back
<1>21. CASE Waited
  <2>1. /\ at = "waited" /\ at' = "end" /\ b' \in RemoveTemporary /\ UNCHANGED <<found, from, timedOut>>
        /\ ~timedOut => core' \in Stepped(b', core, TRUE)
    BY <1>21 DEF Waited, LastStep
  <2> SUFFICES ASSUME ~timedOut PROVE Arrived'
    BY <2>1
  <2>2. from \in Program /\ from # Handler /\ from \notin env.own /\ Handler \in Program
    BY <1>2, <1>6, <2>1, Sizes
  <2>3. found = 0 => from \in Listed(b)
    BY <2>1 DEF AskedKnown, Temp
  <2>4. /\ Keeps(b, b') /\ Elsewhere(b, b', from) /\ Sorted(b')
        /\ found = 0 => Listed(b') = Listed(b) \ {from}
    BY <1>3, <2>1, <2>3, RemoveTemporaryEffect
  <2>5. b'.bps[from].set = 0
    <3>1. CASE found = 0
      <4>1. from \notin Listed(b')
        BY <2>4, <3>1
      <4> QED BY <2>2, <2>4, <4>1 DEF Listed, Sorted, NoBreak
    <3>2. CASE found > 0
      <4>1. b' \in UnsetBreakpoint(b, found) /\ found \in Listed(b) /\ found = from
        BY <1>3, <2>1, <3>2, BasicFacts DEF RemoveTemporary
      <4> QED BY <1>3, <4>1, UnsetEffect
    <3> QED BY <1>3, <3>1, <3>2
  <2>6. ~Stops(b', from)
    <3>1. Stops(b', from) <=> b'.bps[from].set # 0 \/ from \in env.own
      BY <1>2, <2>1, <2>2, <2>4, StopsInStep
    <3> QED BY <2>2, <2>5, <3>1
  <2>7. Stops(b, Handler) => Stops(b', Handler)
    <3>1. Stops(b', Handler) <=> b'.bps[Handler].set # 0 \/ Handler \in env.own
      BY <1>2, <2>1, <2>2, <2>4, StopsInStep
    <3>2. Stops(b, Handler) <=> b.bps[Handler].set # 0 \/ Handler \in env.own
      BY <1>2, <1>3, <2>1, <2>2, KeepsItself, StopsInStep
    <3>3. b'.bps[Handler] = b.bps[Handler]
      BY <2>2, <2>4 DEF Elsewhere
    <3> QED BY <3>1, <3>2, <3>3
  <2>8. IF Stops(b', core.pc) THEN core'.pc = core.pc ELSE core'.pc = After(core)
    BY <1>3, <2>1, SteppedEffect
  <2>9. core.pc = from \/ (core.pc = Handler /\ Stops(b, Handler))
    BY <1>4, <1>7, <2>1 DEF Back
  <2>10. CASE core.pc = from
    <3>1. core'.pc = (from % Last) + 1
      BY <1>3, <1>8, <2>2, <2>6, <2>8, <2>10
    <3> QED BY <2>1, <3>1 DEF Arrived
  <2>11. CASE core.pc = Handler /\ Stops(b, Handler)
    <3>1. core'.pc = Handler /\ Stops(b', Handler) /\ Handler # found
      BY <1>6, <2>2, <2>7, <2>8, <2>11
    <3> QED BY <2>1, <3>1 DEF Arrived, Stops, Armed
  <2> QED BY <2>9, <2>10, <2>11
<1> QED BY <1>9, <1>10, <1>11, <1>12, <1>13, <1>14, <1>15, <1>16, <1>18, <1>19, <1>20, <1>21
        DEF Next, Core, User, Step

-----------------------------------------------------------------------------
(* Where nothing fails: listed breakpoints and steps. *)

Known ==
  /\ Basic /\ AskedKnown /\ OwnedKnown
  /\ SyncKnown /\ FoundKnown /\ HostKnown /\ HaltKnown /\ PlaceKnown

LEMMA KnownAlways == Spec => []Known
<1>1. ASSUME Init PROVE Known
  <2>1. PlaceKnown
    BY <1>1 DEF Init, Idle, PlaceKnown
  <2> QED BY <1>1, <2>1, BasicInit, AskedInit, OwnedInit, SyncInit, HostInit, HaltInit DEF Known
<1>2. ASSUME Known, [Next]_vars PROVE Known'
  BY <1>2, AskedStep, OwnedStep, SyncStep, FoundStep, HostStep, HaltStep, PlaceStep DEF Known
<1> QED BY <1>1, <1>2, PTL DEF Spec

\* Where no handler adds a breakpoint and none removes the one a step has found, every
\* breakpoint listed stops the running program if nothing fails, also after a reset.
THEOREM ListedActive ==
  Spec => [](~env.reexamined /\ env.handlers \subseteq {"remove"} => ListedIsActive)
<1>1. ASSUME Known, ~env.reexamined, env.handlers \subseteq {"remove"} PROVE ListedIsActive
  <2> SUFFICES ASSUME env.fails = {}, at = "idle", state = "running", ~core.wasReset,
                      NEW a \in Listed(b)
               PROVE  Stopping(a)
    BY DEF ListedIsActive
  <2>1. Quiet /\ Sound /\ Orderly /\ ~Resets
    BY <1>1 DEF Quiet, Sound, Orderly, Resets
  <2>2. Owned(b) /\ Synced(b) /\ Enabled(b) /\ Clean(b)
    BY <1>1, <2>1 DEF Known, OwnedKnown, SyncKnown
  <2>3. found = 0 /\ b \in Worlds /\ Sorted(b) /\ a \in Program /\ a # found /\ b.bps[a].type # "none"
    BY <1>1, BasicFacts, Sizes DEF Known, Listed
  <2>4. b.bps[a].set # 0
    BY <1>1, <2>1, <2>3 DEF Known, HostKnown
  <2>5. CASE b.bps[a].type = "hard"
    <3>1. Fitted(b, a)
      BY <2>4, <2>5 DEF Fitted
    <3>2. b.bps[a].set \in Cs /\ b.fpcr[b.bps[a].set] = a /\ b.enabled
      BY <2>2, <2>3, <3>1 DEF Owned, Enabled
    <3> QED BY <2>2, <2>4, <2>5, <3>2 DEF Stopping, Synced
  <2>6. CASE b.bps[a].type # "hard"
    BY <2>2, <2>3, <2>4, <2>6 DEF Stopping, Clean
  <2> QED BY <2>5, <2>6
<1> QED BY <1>1, KnownAlways, PTL

\* Where no handler removes the breakpoint a step has found and the target is not
\* examined anew, a step from outside a handler and a BKPT of the program ends on the
\* next instruction or at a breakpoint, never in a handler that happened to be pending.
THEOREM StepIsOne ==
  Spec /\ ~env.reexamined /\ "removeFound" \notin env.handlers => StepOne
<1> DEFINE Tame == ~env.reexamined /\ "removeFound" \notin env.handlers
           Lands == StepEnds /\ env.mode = "auto" /\ env.fails = {} /\ ~timedOut
                    /\ from \notin env.own \cup {Handler} =>
                    \/ core.pc = (from % Last) + 1
                    \/ core.pc # found /\ Stops(b, core.pc)
<1>1. Tame /\ [Next]_vars => Tame'
  BY SameEnv
<1>2. Known /\ Tame => Lands
  BY DEF Known, PlaceKnown, Homeward, Sound, Arrived, StepEnds
<1>3. Known /\ Tame /\ [Next]_vars => [Lands]_vars
  BY <1>2
<1> HIDE DEF Tame
<1>4. Spec /\ Tame => [][Lands]_vars
  BY <1>1, <1>3, KnownAlways, PTL DEF Spec
<1> QED BY <1>4 DEF StepOne, Tame
=============================================================================
