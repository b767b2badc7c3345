------------------------- MODULE WorkingAreaProofs --------------------------
(***************************************************************************)
(* Proofs about WorkingArea, for every size of the region and of a word    *)
(* and for any holders.                                                    *)
(*                                                                         *)
(* The argument is about bytes: the areas cut the region into intervals.   *)
(* Splitting one, lending it and returning it keep that; a merge replaces  *)
(* every run of free areas by one that ends where the next lent area       *)
(* starts.  So areas never overlap, an address stands for one area, and a  *)
(* backup is written back to the bytes it was read from.                   *)
(***************************************************************************)
EXTENDS WorkingArea, FiniteSetTheorems, WellFoundedInduction, TLAPS

Buffers == {None} \cup UNION {[W -> App \cup {Tool}] : W \in SUBSET Words}
Records == [addr : 0 .. Usable, size : 1 .. Usable, free : BOOLEAN,
            user : Holders \cup {None}, saved : Buffers]

Separate(A) == \A a, b \in A : a # b => End(a) <= b.addr \/ End(b) <= a.addr
Covers(A) == \A x \in 0 .. Usable - 1 : \E a \in A : a.addr <= x /\ x < End(a)
Tiling(A) ==
  /\ A \subseteq Records
  /\ \A a \in A : End(a) <= Usable
  /\ Separate(A)
  /\ Covers(A)

\* Only lent areas have a user; a backup has the words of its area.
Kept(A) ==
  \A a \in A : /\ IF a.free THEN a.user = None ELSE a.user \in Holders
               /\ a.saved = None \/ a.saved \in [WordsOf(a) -> App \cup {Tool}]
Apart(A) == \A a, b \in A : a.free /\ b.free => End(a) # b.addr

-----------------------------------------------------------------------------
(* Numbers. *)

\* The region is a number of words, and not empty.
LEMMA UsableType == Usable \in Nat /\ Usable > 0 /\ Usable <= Size
<1>1. Size \in Nat /\ Word \in Nat /\ Word > 0 /\ Size >= Word
  BY SizeAssumption
<1>2. Size % Word \in 0 .. Word - 1
  BY <1>1
<1>3. \A s, w, r \in Int : s >= w /\ 0 <= r /\ r <= w - 1 => s - r > 0 /\ s - r <= s
  OBVIOUS
<1>4. Size - (Size % Word) > 0 /\ Size - (Size % Word) <= Size /\ Size - (Size % Word) \in Int
  BY <1>1, <1>2, <1>3
<1> QED BY <1>1, <1>4 DEF Usable

\* What is asked for, rounded up, is at least a byte.
LEMMA RoundType ==
  ASSUME NEW n \in Nat \ {0}
  PROVE  Round(n) \in Nat /\ Round(n) >= n
<1>1. Word \in Nat /\ Word > 0
  BY SizeAssumption
<1>2. n % Word \in 0 .. Word - 1
  BY <1>1
<1>3. \A w, r \in Int : r \in 0 .. w - 1 => w - r \in Int /\ w - r >= 0
  OBVIOUS
<1> QED BY <1>1, <1>2, <1>3 DEF Round

\* A nonempty set of naturals has a least element.
LEMMA LeastNat ==
  ASSUME NEW S \in SUBSET Nat, S # {}
  PROVE  \E m \in S : \A n \in S : m <= n
<1> DEFINE T == {0 .. n : n \in S}
<1>1. T \subseteq FiniteSubsetsOf(Nat) /\ T # {}
  <2>1. \A n \in S : (0 .. n) \in SUBSET Nat /\ IsFiniteSet(0 .. n)
    BY FS_Interval
  <2> QED BY <2>1 DEF FiniteSubsetsOf
<1>2. IsWellFoundedOn(StrictSubsetOrdering(Nat), FiniteSubsetsOf(Nat))
  BY FS_StrictSubsetOrderingWellFounded
<1>3. \E x \in T : \A y \in T : ~(<<y, x>> \in StrictSubsetOrdering(Nat))
  <2> HIDE DEF T
  <2> QED BY <1>1, <1>2, WFMin
<1>4. PICK m \in S : \A n \in S : ~(<<0 .. n, 0 .. m>> \in StrictSubsetOrdering(Nat))
  BY <1>3
<1>5. ASSUME NEW n \in S, n < m PROVE FALSE
  <2>1. (0 .. n) \subseteq (0 .. m) /\ m \in 0 .. m /\ m \notin 0 .. n
    BY <1>5
  <2>2. <<0 .. n, 0 .. m>> \in StrictSubsetOrdering(Nat)
    BY <2>1 DEF StrictSubsetOrdering
  <2> QED BY <1>4, <2>2
<1> QED BY <1>5

\* And, if it is bounded, a greatest.
LEMMA GreatestNat ==
  ASSUME NEW k \in Nat, NEW S \in SUBSET (0 .. k), S # {}
  PROVE  \E m \in S : \A n \in S : n <= m
<1> DEFINE T == {k - n : n \in S}
<1>1. T \in SUBSET Nat /\ T # {}
  <2>1. \A n \in S : k - n \in Nat
    OBVIOUS
  <2> QED BY <2>1
<1>2. PICK t \in T : \A u \in T : t <= u
  BY <1>1, LeastNat
<1>3. PICK m \in S : t = k - m
  BY <1>2
<1>4. \A n \in S : k - m <= k - n
  BY <1>2, <1>3
<1>5. \A n \in S : n <= m
  BY <1>4
<1> QED BY <1>5

-----------------------------------------------------------------------------
(* Areas that tile the region. *)

\* The numbers of an area.
LEMMA AreaType ==
  ASSUME NEW a \in Records
  PROVE  /\ a.addr \in Nat /\ a.size \in Nat /\ a.size > 0
         /\ End(a) \in Nat /\ a.addr < End(a)
         /\ a.free \in BOOLEAN
<1>1. Usable \in Nat
  BY UsableType
<1>2. a.addr \in 0 .. Usable /\ a.size \in 1 .. Usable /\ a.free \in BOOLEAN
  BY DEF Records
<1>3. \A x \in 0 .. Usable, y \in 1 .. Usable :
        x \in Nat /\ y \in Nat /\ y > 0 /\ x + y \in Nat /\ x < x + y
  BY <1>1
<1> QED BY <1>2, <1>3 DEF End

\* Two areas that share a byte are one.
LEMMA OneArea ==
  ASSUME NEW A, Tiling(A), NEW a \in A, NEW b \in A, a.addr <= b.addr, b.addr < End(a)
  PROVE  a = b
<1>1. a \in Records /\ b \in Records
  BY DEF Tiling
<1>2. /\ a.addr \in Nat /\ End(a) \in Nat /\ b.addr \in Nat /\ End(b) \in Nat
      /\ b.addr < End(b)
  BY <1>1, AreaType
<1> QED BY <1>2 DEF Tiling, Separate

\* The whole region as one free area.
LEMMA WholeTiles ==
  LET A == {Free(0, Usable)} IN Tiling(A) /\ Kept(A) /\ Apart(A) /\ Lent(A) = {}
<1> DEFINE f == Free(0, Usable)
<1>1. Usable \in Nat /\ Usable > 0
  BY UsableType
<1>2. /\ f \in Records /\ f.addr = 0 /\ f.size = Usable /\ f.free = TRUE
      /\ f.user = None /\ f.saved = None
  BY <1>1 DEF Free, Records, Buffers
<1>3. End(f) = Usable
  BY <1>1, <1>2 DEF End
<1> HIDE DEF f
<1>4. Tiling({f})
  BY <1>1, <1>2, <1>3 DEF Tiling, Separate, Covers
<1>5. Kept({f}) /\ Apart({f}) /\ Lent({f}) = {}
  BY <1>1, <1>2, <1>3 DEF Kept, Apart, Lent
<1> QED BY <1>4, <1>5 DEF f

\* An area may be replaced by one of the same bytes.
LEMMA ReplaceTiles ==
  ASSUME NEW A, Tiling(A), NEW c \in A, NEW d \in Records, d.addr = c.addr, d.size = c.size
  PROVE  Tiling((A \ {c}) \cup {d})
<1> DEFINE B == (A \ {c}) \cup {d}
<1>1. End(d) = End(c)
  BY DEF End
<1>2. B \subseteq Records /\ \A a \in B : End(a) <= Usable
  BY <1>1 DEF Tiling
<1>3. Separate(B)
  BY <1>1 DEF Tiling, Separate
<1>4. Covers(B)
  <2> SUFFICES ASSUME NEW x \in 0 .. Usable - 1
               PROVE  \E a \in B : a.addr <= x /\ x < End(a)
    BY DEF Covers
  <2>1. PICK a \in A : a.addr <= x /\ x < End(a)
    BY DEF Tiling, Covers
  <2>2. CASE a = c
    BY <2>1, <2>2, <1>1
  <2>3. CASE a # c
    BY <2>1, <2>3
  <2> QED BY <2>2, <2>3
<1> QED BY <1>2, <1>3, <1>4 DEF Tiling

\* An area and the two it is split into.
LEMMA SplitTiles ==
  ASSUME NEW A, Tiling(A), Kept(A), NEW a \in A, a.free, NEW n \in Nat, n > 0, n <= a.size
  PROVE  LET S == Split(A, a, n) c == Cut(a, n) IN
         /\ Tiling(S) /\ Kept(S)
         /\ c \in S /\ c.free /\ c.addr = a.addr /\ Lent(S) = Lent(A)
         /\ Apart(A) => Apart(S \ {c})
<1> DEFINE S == Split(A, a, n)
           c == Cut(a, n)
           r == Free(a.addr + n, a.size - n)
<1>1. a \in Records /\ a.addr \in Nat /\ a.size \in Nat /\ End(a) = a.addr + a.size
      /\ End(a) <= Usable /\ Usable \in Nat
  BY AreaType, UsableType DEF Tiling, End
<1>2. CASE n = a.size
  <2>1. c = a /\ S = A
    BY <1>1, <1>2 DEF Split, Cut, Rest
  <2>2. Apart(A) => Apart(A \ {a})
    BY DEF Apart
  <2> QED BY <2>1, <2>2
<1>3. CASE n < a.size
  <2>1. c = [a EXCEPT !.size = n, !.saved = None] /\ S = (A \ {a}) \cup {c} \cup {r}
    BY <1>3 DEF Split, Cut, Rest, RestSize
  <2>2. /\ c \in Records /\ c.addr = a.addr /\ c.size = n /\ c.free = a.free
        /\ c.user = a.user /\ c.saved = None
    <3>1. n \in 1 .. Usable
      BY <1>1, <1>3
    <3>2. None \in Buffers
      BY DEF Buffers
    <3>3. \A x \in Records : LET y == [x EXCEPT !.size = n, !.saved = None] IN
            /\ y \in Records /\ y.addr = x.addr /\ y.size = n /\ y.free = x.free
            /\ y.user = x.user /\ y.saved = None
      BY <3>1, <3>2 DEF Records
    <3> QED BY <1>1, <2>1, <3>3
  <2>3. a.addr + n \in 0 .. Usable /\ a.size - n \in 1 .. Usable
    BY <1>1, <1>3
  <2>4. /\ r \in Records /\ r.addr = a.addr + n /\ r.size = a.size - n /\ r.free = TRUE
        /\ r.user = None /\ r.saved = None
    BY <2>3 DEF Free, Records, Buffers
  <2>5. End(c) = a.addr + n /\ End(r) = End(a) /\ End(c) = r.addr
    BY <1>1, <2>2, <2>4 DEF End
  <2> HIDE DEF c, r, S
  <2>6. S \subseteq Records /\ \A b \in S : End(b) <= Usable
    BY <1>1, <1>3, <2>1, <2>2, <2>4, <2>5 DEF Tiling
  <2>7. \A b \in A \ {a} : End(b) <= a.addr \/ End(a) <= b.addr
    BY DEF Tiling, Separate
  <2>8. \A b \in A \ {a} : b.addr \in Nat /\ End(b) \in Nat
    BY AreaType DEF Tiling
  <2>9. \A b \in A \ {a} : /\ End(b) <= c.addr \/ End(c) <= b.addr
                           /\ End(b) <= r.addr \/ End(r) <= b.addr
    BY <1>1, <1>3, <2>2, <2>4, <2>5, <2>7, <2>8
  <2>10. Separate(S)
    <3>1. End(c) <= r.addr
      BY <2>5, <2>4, <1>1
    <3>2. \A b, d \in A \ {a} : b # d => End(b) <= d.addr \/ End(d) <= b.addr
      BY DEF Tiling, Separate
    <3>3. ASSUME NEW b \in S, NEW d \in S, b # d PROVE End(b) <= d.addr \/ End(d) <= b.addr
      <4>1. b \in (A \ {a}) \cup {c} \cup {r} /\ d \in (A \ {a}) \cup {c} \cup {r}
        BY <3>3, <2>1
      <4>2. CASE b \in A \ {a} /\ d \in A \ {a}
        BY <3>2, <3>3, <4>2
      <4>3. CASE b \in A \ {a} /\ d \in {c, r}
        BY <2>9, <4>3
      <4>4. CASE b \in {c, r} /\ d \in A \ {a}
        BY <2>9, <4>4
      <4>5. CASE b \in {c, r} /\ d \in {c, r}
        BY <3>1, <3>3, <4>5
      <4> QED BY ONLY <4>1, <4>2, <4>3, <4>4, <4>5
    <3> QED BY <3>3 DEF Separate
  <2>11. Covers(S)
    <3> SUFFICES ASSUME NEW x \in 0 .. Usable - 1
                 PROVE  \E b \in S : b.addr <= x /\ x < End(b)
      BY DEF Covers
    <3>1. PICK b \in A : b.addr <= x /\ x < End(b)
      BY DEF Tiling, Covers
    <3>2. CASE b # a
      BY <3>1, <3>2, <2>1
    <3>3. CASE b = a
      <4>1. x < a.addr + n \/ a.addr + n <= x
        BY <1>1
      <4> QED BY <3>1, <3>3, <4>1, <2>1, <2>2, <2>4, <2>5
    <3> QED BY <3>2, <3>3
  <2>12. Kept(S)
    BY <2>1, <2>2, <2>4 DEF Kept
  <2>13. Lent(S) = Lent(A)
    BY <2>1, <2>2, <2>4 DEF Lent
  <2>14. ASSUME Apart(A) PROVE Apart(S \ {c})
    <3>1. \A b, d \in A \ {a} : b.free /\ d.free => End(b) # d.addr
      BY <2>14 DEF Apart
    <3>2. \A d \in A \ {a} : d.free => End(r) # d.addr
      BY <2>14, <2>5 DEF Apart
    <3>3. \A b \in A \ {a} : End(b) # r.addr
      BY <2>7, <2>8, <2>4, <1>1, <1>3, AreaType DEF Tiling
    <3>4. End(r) # r.addr
      BY <2>4, AreaType
    <3> QED BY <3>1, <3>2, <3>3, <3>4, <2>1 DEF Apart
  <2>15. c \in S
    BY <2>1
  <2> QED BY <2>2, <2>6, <2>10, <2>11, <2>12, <2>13, <2>14, <2>15 DEF Tiling, c, S
<1> QED BY <1>1, <1>2, <1>3

\* Giving back an area changes neither its bytes nor, but for a lent one, itself.
LEMMA ReleaseType ==
  ASSUME NEW a \in Records
  PROVE  LET r == Release(a) IN
         /\ r \in Records /\ r.addr = a.addr /\ r.size = a.size /\ End(r) = End(a)
         /\ r.free = TRUE /\ r.user = None /\ r.saved = a.saved /\ WordsOf(r) = WordsOf(a)
<1>1. \A x \in Records : LET r == [x EXCEPT !.free = TRUE, !.user = None] IN
        /\ r \in Records /\ r.addr = x.addr /\ r.size = x.size
        /\ r.free = TRUE /\ r.user = None /\ r.saved = x.saved
  BY DEF Records
<1> QED BY <1>1 DEF Release, End, WordsOf

-----------------------------------------------------------------------------
(* Merging. *)

\* Where the run of free areas from a ends: at the end of a free area, before none.
RunEndsAt(A, a, e) ==
  /\ \E c \in A : c.free /\ c.addr >= a.addr /\ e = End(c)
  /\ \A b \in A : b.free => b.addr # e
  /\ \A b \in A : b.addr >= a.addr /\ b.addr < e => b.free

LEMMA RunEnds ==
  ASSUME NEW A, Tiling(A), NEW a \in A, a.free
  PROVE  RunEndsAt(A, a, RunEnd(A, a))
<1> DEFINE Free3(e) == \A b \in A : b.addr >= a.addr /\ b.addr < e => b.free
           Ends == {End(b) : b \in {c \in A : c.free /\ c.addr >= a.addr}}
           S == {n \in 0 .. Usable : n \in Ends /\ Free3(n)}
<1>1. \A b \in A : /\ b.addr \in Nat /\ End(b) \in 0 .. Usable /\ b.addr < End(b)
                   /\ b.free \in BOOLEAN
  BY AreaType, UsableType DEF Tiling
<1>2. Usable \in Nat
  BY UsableType
<1>3. End(a) \in S
  <2>1. End(a) \in Ends
    BY <1>1
  <2>2. Free3(End(a))
    <3> SUFFICES ASSUME NEW b \in A, b.addr >= a.addr, b.addr < End(a) PROVE b.free
      OBVIOUS
    <3>1. a.addr <= b.addr
      BY <1>1
    <3>2. a = b
      BY <3>1, OneArea
    <3> QED BY <3>2
  <2> QED BY <2>1, <2>2, <1>1
<1>4. PICK m \in S : \A n \in S : n <= m
  <2>1. S \in SUBSET (0 .. Usable) /\ S # {}
    BY <1>3
  <2> HIDE DEF S
  <2> QED BY <2>1, <1>2, GreatestNat
<1>5. PICK c \in A : c.free /\ c.addr >= a.addr /\ m = End(c)
  BY <1>4
<1>6. m \in Ends /\ Free3(m)
  BY <1>4
<1>7. ASSUME NEW b \in A, b.free, b.addr = m PROVE FALSE
  <2>1. b.addr >= a.addr
    BY <1>1, <1>5, <1>7
  <2>2. End(b) \in Ends
    BY <2>1, <1>7
  <2>3. Free3(End(b))
    <3> SUFFICES ASSUME NEW d \in A, d.addr >= a.addr, d.addr < End(b) PROVE d.free
      OBVIOUS
    <3>1. CASE d.addr < m
      BY <3>1, <1>6
    <3>2. CASE d.addr >= m
      <4>1. b.addr <= d.addr
        BY <1>1, <1>7, <3>2
      <4>2. b = d
        BY <4>1, OneArea
      <4> QED BY <4>2, <1>7
    <3>3. d.addr \in Nat /\ m \in Nat
      BY <1>1, <1>4
    <3> QED BY <3>1, <3>2, <3>3
  <2>4. End(b) \in S
    BY <2>2, <2>3, <1>1
  <2>5. End(b) <= m /\ m < End(b) /\ m \in Nat /\ End(b) \in Nat
    BY <2>4, <1>1, <1>4, <1>7
  <2> QED BY <2>5
<1> DEFINE Q(e) == /\ \A b \in A : b.free => b.addr # e
                   /\ \A b \in A : b.addr >= a.addr /\ b.addr < e => b.free
<1>8. RunEnd(A, a) = CHOOSE e \in Ends : Q(e)
  BY DEF RunEnd
<1>9. \E e \in Ends : Q(e)
  BY <1>6, <1>7
<1>10. RunEnd(A, a) \in Ends /\ Q(RunEnd(A, a))
  <2> HIDE DEF Ends, Q
  <2> QED BY <1>8, <1>9
<1> QED BY <1>10 DEF RunEndsAt

\* Every free area is in a run that has a start.
LEMMA RunStarts ==
  ASSUME NEW A, Tiling(A), NEW b \in A, b.free
  PROVE  \E a \in Starts(A) :
           a.addr <= b.addr /\ \A d \in A : a.addr <= d.addr /\ d.addr <= b.addr => d.free
<1> DEFINE Free3(n) == \A d \in A : n <= d.addr /\ d.addr <= b.addr => d.free
           S == {n \in 0 .. Usable : \E c \in A : /\ c.free /\ c.addr = n
                                              /\ n <= b.addr /\ Free3(n)}
<1>1. \A d \in A : /\ d.addr \in 0 .. Usable /\ d.addr \in Nat /\ End(d) \in Nat
                   /\ d.addr < End(d) /\ d.free \in BOOLEAN
  BY AreaType DEF Tiling, Records
<1>2. b.addr \in S
  <2>1. Free3(b.addr)
    <3> SUFFICES ASSUME NEW d \in A, b.addr <= d.addr, d.addr <= b.addr PROVE d.free
      OBVIOUS
    <3>1. b.addr <= d.addr /\ d.addr < End(b)
      BY <1>1
    <3>2. b = d
      BY <3>1, OneArea
    <3> QED BY <3>2
  <2> QED BY <2>1, <1>1
<1>3. PICK m \in S : \A n \in S : m <= n
  <2>1. S \in SUBSET Nat /\ S # {}
    BY <1>2, UsableType
  <2> HIDE DEF S
  <2> QED BY <2>1, LeastNat
<1>4. PICK a \in A : a.free /\ a.addr = m /\ m <= b.addr /\ Free3(m)
  BY <1>3
<1>5. ASSUME NEW d \in A, d.free, End(d) = a.addr PROVE FALSE
  <2>1. d.addr <= b.addr /\ d.addr < m
    BY <1>1, <1>4, <1>5
  <2>2. Free3(d.addr)
    <3> SUFFICES ASSUME NEW e \in A, d.addr <= e.addr, e.addr <= b.addr PROVE e.free
      OBVIOUS
    <3>1. CASE m <= e.addr
      BY <3>1, <1>4
    <3>2. CASE e.addr < m
      <4>1. e.addr < End(d)
        BY <3>2, <1>4, <1>5
      <4>2. d = e
        BY <4>1, OneArea
      <4> QED BY <4>2, <1>5
    <3> QED BY <3>1, <3>2, <1>1, <1>4
  <2>3. d.addr \in S
    BY <2>1, <2>2, <1>1, <1>5
  <2> QED BY <2>1, <2>3, <1>1, <1>3, <1>4
<1>6. a \in Starts(A)
  BY <1>4, <1>5 DEF Starts
<1> QED BY <1>4, <1>6

\* The area that a run becomes.
Whole(A, a) ==
  IF RunEnd(A, a) = End(a) THEN a ELSE Free(a.addr, RunEnd(A, a) - a.addr)

LEMMA WholeType ==
  ASSUME NEW A, Tiling(A), Kept(A), NEW a \in Starts(A)
  PROVE  LET v == Whole(A, a) IN
         /\ v \in Records /\ v.addr = a.addr /\ End(v) = RunEnd(A, a) /\ End(v) <= Usable
         /\ v.free = TRUE /\ v.user = None
         /\ v.saved = None \/ v.saved \in [WordsOf(v) -> App \cup {Tool}]
<1> DEFINE e == RunEnd(A, a)
<1>1. a \in A /\ a.free = TRUE
  BY AreaType DEF Starts, Tiling
<1>2. RunEndsAt(A, a, e)
  BY <1>1, RunEnds
<1>3. /\ a \in Records /\ a.addr \in 0 .. Usable /\ End(a) <= Usable
      /\ a.user = None /\ (a.saved = None \/ a.saved \in [WordsOf(a) -> App \cup {Tool}])
  BY <1>1 DEF Tiling, Kept, Records
<1>4. PICK c \in A : c.free /\ c.addr >= a.addr /\ e = End(c)
  BY <1>2 DEF RunEndsAt
<1>5. c.addr \in Nat /\ c.addr < End(c) /\ End(c) \in Nat /\ End(c) <= Usable
  BY AreaType DEF Tiling
<1>6. e \in Nat /\ e <= Usable /\ a.addr < e /\ Usable \in Nat
  BY <1>3, <1>4, <1>5, UsableType
<1> HIDE DEF e
<1>7. CASE e = End(a)
  <2>1. Whole(A, a) = a
    BY <1>7 DEF Whole, e
  <2> QED BY <2>1, <1>1, <1>3, <1>7 DEF e
<1>8. CASE e # End(a)
  <2>1. Whole(A, a) = Free(a.addr, e - a.addr)
    BY <1>8 DEF Whole, e
  <2>2. e - a.addr \in 1 .. Usable /\ a.addr + (e - a.addr) = e
    BY <1>3, <1>6
  <2> DEFINE f == Free(a.addr, e - a.addr)
  <2>3. /\ f \in Records /\ f.addr = a.addr /\ f.size = e - a.addr /\ f.free = TRUE
        /\ f.user = None /\ f.saved = None
    BY <1>3, <2>2 DEF Free, Records, Buffers
  <2>4. End(f) = e
    BY <2>2, <2>3 DEF End
  <2> QED BY <2>1, <2>3, <2>4, <1>6 DEF e
<1> QED BY <1>7, <1>8

\* Two runs do not overlap.
LEMMA RunsApart ==
  ASSUME NEW A, Tiling(A), NEW a \in Starts(A), NEW b \in Starts(A), a.addr < b.addr
  PROVE  RunEnd(A, a) <= b.addr
<1> DEFINE e == RunEnd(A, a)
<1>1. a \in A /\ a.free /\ b \in A /\ b.free /\ \A d \in A : d.free => End(d) # b.addr
  BY DEF Starts
<1>2. RunEndsAt(A, a, e)
  BY <1>1, RunEnds
<1>3. \A d \in A : /\ d.addr \in Nat /\ End(d) \in Nat /\ d.addr < End(d)
                   /\ End(d) <= Usable
  BY AreaType DEF Tiling
<1>4. e \in Nat
  BY <1>2, <1>3 DEF RunEndsAt
<1>5. SUFFICES ASSUME b.addr < e PROVE FALSE
  BY <1>1, <1>3, <1>4
<1>6. b.addr - 1 \in 0 .. Usable - 1
  BY <1>1, <1>3, UsableType
<1>7. PICK d \in A : d.addr <= b.addr - 1 /\ b.addr - 1 < End(d)
  BY <1>6 DEF Tiling, Covers
<1>8. d # b /\ End(d) = b.addr
  <2>1. d # b
    BY <1>1, <1>3, <1>7
  <2>2. End(d) <= b.addr \/ End(b) <= d.addr
    BY <2>1, <1>1 DEF Tiling, Separate
  <2> QED BY <2>1, <2>2, <1>1, <1>3, <1>7
<1>9. d.addr >= a.addr
  <2>1. SUFFICES ASSUME d.addr < a.addr PROVE FALSE
    BY <1>1, <1>3
  <2>2. d.addr <= a.addr /\ a.addr < End(d)
    BY <2>1, <1>1, <1>3, <1>8
  <2>3. d = a
    BY <2>2, <1>1, OneArea
  <2> QED BY <2>1, <2>3, <1>1, <1>3
<1>10. d.addr < e
  BY <1>1, <1>3, <1>4, <1>5, <1>7
<1>11. d.free
  BY <1>2, <1>9, <1>10 DEF RunEndsAt
<1> QED BY <1>1, <1>8, <1>11

\* A free byte is in the run of some start.
LEMMA RunsCover ==
  ASSUME NEW A, Tiling(A), NEW b \in A, b.free,
         NEW x \in 0 .. Usable - 1, b.addr <= x, x < End(b)
  PROVE  \E a \in Starts(A) : a.addr <= x /\ x < RunEnd(A, a)
<1>1. \A d \in A : /\ d.addr \in Nat /\ End(d) \in Nat /\ d.addr < End(d)
                   /\ End(d) <= Usable
  BY AreaType DEF Tiling
<1>2. PICK a \in Starts(A) :
        a.addr <= b.addr /\ \A d \in A : a.addr <= d.addr /\ d.addr <= b.addr => d.free
  BY RunStarts
<1> DEFINE e == RunEnd(A, a)
<1>3. a \in A /\ a.free
  BY DEF Starts
<1>4. RunEndsAt(A, a, e)
  BY <1>3, RunEnds
<1>5. PICK c \in A : c.free /\ c.addr >= a.addr /\ e = End(c)
  BY <1>4 DEF RunEndsAt
<1>6. e \in Nat /\ a.addr < e /\ a.addr <= x
  BY <1>1, <1>2, <1>3, <1>5
<1>7. ASSUME e <= x PROVE FALSE
  <2>1. e \in 0 .. Usable - 1
    BY <1>6, <1>7, UsableType
  <2>2. PICK d \in A : d.addr <= e /\ e < End(d)
    BY <2>1 DEF Tiling, Covers
  <2>3. d # c
    BY <2>2, <1>1, <1>5
  <2>4. End(c) <= d.addr \/ End(d) <= c.addr
    BY <2>3 DEF Tiling, Separate
  <2>5. d.addr = e
    BY <2>2, <2>4, <1>1, <1>5
  <2>6. d.addr <= b.addr
    <3>1. SUFFICES ASSUME b.addr < d.addr PROVE FALSE
      BY <1>1
    <3>2. b.addr <= d.addr /\ d.addr < End(b)
      BY <3>1, <2>5, <1>1, <1>7
    <3>3. b = d
      BY <3>2, OneArea
    <3> QED BY <3>1, <3>3, <1>1
  <2>7. d.free
    BY <2>5, <2>6, <1>1, <1>2, <1>3, <1>6
  <2> QED BY <2>5, <2>7, <1>4 DEF RunEndsAt
<1> QED BY <1>6, <1>7

\* Merging keeps the tiling and the lent areas, and leaves no free neighbours.
LEMMA MergeTiles ==
  ASSUME NEW A, Tiling(A), Kept(A)
  PROVE  LET M == Merge(A) IN
         Tiling(M) /\ Kept(M) /\ Apart(M) /\ Lent(M) = Lent(A)
<1> DEFINE M == Merge(A)
           V == {Whole(A, a) : a \in Starts(A)}
<1>1. M = Lent(A) \cup V
  BY DEF Merge, Whole, Lent
<1> HIDE DEF M
<1>2. \A a \in A : /\ a \in Records /\ a.addr \in Nat /\ End(a) \in Nat /\ a.addr < End(a)
                   /\ End(a) <= Usable /\ a.free \in BOOLEAN
  BY AreaType DEF Tiling
<1>3. \A a \in Starts(A) : a \in A /\ a.free
  BY DEF Starts
<1>4. Lent(A) \subseteq A /\ \A b \in Lent(A) : b.free = FALSE
  BY <1>2 DEF Lent
<1>5. \A a \in Starts(A) : RunEndsAt(A, a, RunEnd(A, a))
  BY <1>3, RunEnds
<1>6. \A a \in Starts(A) :
        LET v == Whole(A, a) IN
        /\ v \in Records /\ v.addr = a.addr /\ End(v) = RunEnd(A, a) /\ End(v) <= Usable
        /\ v.free = TRUE /\ v.user = None
        /\ v.saved = None \/ v.saved \in [WordsOf(v) -> App \cup {Tool}]
  BY WholeType
<1>7. M \subseteq Records /\ \A a \in M : End(a) <= Usable
  BY <1>1, <1>2, <1>4, <1>6
<1>8. ASSUME NEW b \in Lent(A), NEW a \in Starts(A)
      PROVE  End(b) <= a.addr \/ RunEnd(A, a) <= b.addr
  <2>1. b \in A /\ a \in A /\ b # a
    BY <1>3, <1>4
  <2>2. End(b) <= a.addr \/ End(a) <= b.addr
    BY <2>1 DEF Tiling, Separate
  <2>3. ASSUME End(a) <= b.addr PROVE RunEnd(A, a) <= b.addr
    <3>1. b.addr >= a.addr
      BY <2>1, <2>3, <1>2
    <3>2. ~(b.addr < RunEnd(A, a))
      BY <3>1, <2>1, <1>4, <1>5 DEF RunEndsAt
    <3>3. RunEnd(A, a) \in Nat /\ b.addr \in Nat
      BY <2>1, <1>2, <1>6, AreaType
    <3> QED BY <3>2, <3>3
  <2> QED BY <2>2, <2>3
<1>9. ASSUME NEW a \in Starts(A), NEW b \in Starts(A), a # b
      PROVE  RunEnd(A, a) <= b.addr \/ RunEnd(A, b) <= a.addr
  <2>1. a \in A /\ b \in A
    BY <1>3
  <2>2. a.addr # b.addr
    <3>1. SUFFICES ASSUME a.addr = b.addr PROVE FALSE
      OBVIOUS
    <3>2. a.addr <= b.addr /\ b.addr < End(a)
      BY <3>1, <2>1, <1>2
    <3> QED BY <3>2, <2>1, <1>9, OneArea
  <2>3. a.addr < b.addr \/ b.addr < a.addr
    BY <2>1, <2>2, <1>2
  <2> QED BY <2>3, RunsApart
<1>10. Separate(M)
  <2> SUFFICES ASSUME NEW u \in M, NEW v \in M, u # v
               PROVE  End(u) <= v.addr \/ End(v) <= u.addr
    BY DEF Separate
  <2>1. CASE u \in Lent(A) /\ v \in Lent(A)
    BY <2>1, <1>4 DEF Tiling, Separate
  <2>2. CASE u \in Lent(A) /\ v \in V
    BY <2>2, <1>6, <1>8
  <2>3. CASE u \in V /\ v \in Lent(A)
    BY <2>3, <1>6, <1>8
  <2>4. CASE u \in V /\ v \in V
    BY <2>4, <1>6, <1>9
  <2> QED BY <1>1, <2>1, <2>2, <2>3, <2>4
<1>11. Covers(M)
  <2> SUFFICES ASSUME NEW x \in 0 .. Usable - 1
               PROVE  \E u \in M : u.addr <= x /\ x < End(u)
    BY DEF Covers
  <2>1. PICK b \in A : b.addr <= x /\ x < End(b)
    BY DEF Tiling, Covers
  <2>2. CASE ~b.free
    BY <2>1, <2>2, <1>1 DEF Lent
  <2>3. CASE b.free
    <3>1. PICK a \in Starts(A) : a.addr <= x /\ x < RunEnd(A, a)
      BY <2>1, <2>3, RunsCover
    <3> QED BY <3>1, <1>1, <1>6
  <2> QED BY <2>2, <2>3
<1>12. Kept(M)
  BY <1>1, <1>4, <1>6 DEF Kept
<1>13. Lent(M) = Lent(A)
  BY <1>1, <1>4, <1>6 DEF Lent
<1>14. Apart(M)
  <2> SUFFICES ASSUME NEW u \in M, NEW v \in M, u.free, v.free, End(u) = v.addr PROVE FALSE
    BY DEF Apart
  <2>1. PICK a \in Starts(A) : u = Whole(A, a)
    BY <1>1, <1>4
  <2>2. PICK b \in Starts(A) : v = Whole(A, b)
    BY <1>1, <1>4
  <2>3. RunEnd(A, a) = b.addr
    BY <2>1, <2>2, <1>6
  <2> QED BY <2>3, <1>3, <1>5 DEF RunEndsAt
<1> QED BY <1>7, <1>10, <1>11, <1>12, <1>13, <1>14 DEF Tiling, M

-----------------------------------------------------------------------------
(* The words of areas. *)

LEMMA WordType == \A w \in Words : w \in Nat /\ w * Word \in 0 .. Usable - 1
<1>1. Word \in Nat /\ Word > 0 /\ Usable \in Nat
  BY SizeAssumption, UsableType
<1> DEFINE q == Usable \div Word
<1>2. q \in Nat /\ Word * q <= Usable
  BY <1>1
<1>3. \A k, w, u, r \in Nat : w <= r - 1 /\ k > 0 /\ k * r <= u => w * k < u
  <2> SUFFICES ASSUME NEW k \in Nat, NEW w \in Nat, NEW u \in Nat, NEW r \in Nat,
                      w <= r - 1, k > 0, k * r <= u
               PROVE  w * k < u
    OBVIOUS
  <2>1. k * (w + 1) <= k * r
    OBVIOUS
  <2>2. k * (w + 1) = w * k + k /\ w * k \in Nat
    OBVIOUS
  <2> QED BY <2>1, <2>2
<1> SUFFICES ASSUME NEW w \in Words PROVE w \in Nat /\ w * Word \in 0 .. Usable - 1
  OBVIOUS
<1>4. w \in Nat /\ w <= q - 1
  BY <1>2 DEF Words
<1> HIDE DEF q
<1>5. w * Word < Usable /\ w * Word \in Nat
  BY <1>1, <1>2, <1>3, <1>4
<1> QED BY <1>1, <1>4, <1>5

\* Every word is in one area.
LEMMA WordsApart ==
  ASSUME NEW A, Tiling(A), NEW a \in A, NEW b \in A, NEW w,
         w \in WordsOf(a), w \in WordsOf(b)
  PROVE  a = b
<1>1. w \in Words /\ w * Word \in Nat
  BY WordType DEF WordsOf
<1>2. /\ a.addr \in Nat /\ End(a) \in Nat /\ a.addr < End(a)
      /\ b.addr \in Nat /\ End(b) \in Nat /\ b.addr < End(b)
  BY AreaType DEF Tiling
<1>3. w * Word >= a.addr /\ w * Word < End(a) /\ w * Word >= b.addr /\ w * Word < End(b)
  BY DEF WordsOf, End
<1>4. a # b => End(a) <= b.addr \/ End(b) <= a.addr
  BY DEF Tiling, Separate
<1> QED BY <1>1, <1>2, <1>3, <1>4

LEMMA WordsTiled ==
  ASSUME NEW A, Tiling(A), NEW w \in Words
  PROVE  Cardinality({a \in A : w \in WordsOf(a)}) = 1
<1>1. w * Word \in 0 .. Usable - 1
  BY WordType
<1>2. PICK a \in A : a.addr <= w * Word /\ w * Word < End(a)
  BY <1>1 DEF Tiling, Covers
<1>3. w \in WordsOf(a)
  <2>1. a.addr \in Nat /\ w * Word \in Nat
    BY <1>1, AreaType DEF Tiling
  <2> QED BY <1>2, <2>1 DEF WordsOf, End
<1>4. {b \in A : w \in WordsOf(b)} = {a}
  BY <1>3, WordsApart
<1> QED BY <1>4, FS_Singleton

-----------------------------------------------------------------------------
(* The invariant. *)

Sound == areas = {} \/ (Tiling(areas) /\ Kept(areas))

\* A variable that still exists and the area lent to it point at each other.
Pointers ==
  /\ \A h \in gone : ptr[h] = None
  /\ \A h \in Holders \ gone : \A a \in areas : a.user = h => ptr[h] = a.addr
  /\ \A h \in Holders :
       ptr[h] # None => \E a \in Lent(areas) : a.user = h /\ a.addr = ptr[h]

\* With a backup, a lent area has what the application had there.
Backups ==
  backup => \A a \in Lent(areas) :
              a.saved # None /\ \A w \in WordsOf(a) : w \in lost \/ a.saved[w] = app[w]

Variables ==
  /\ backup \in BOOLEAN /\ ptr \in [Holders -> 0 .. Usable \cup {None}] /\ gone \subseteq Locals
  /\ mem \in [Words -> App \cup {Tool}] /\ app \in [Words -> App]
  /\ lost \subseteq Words /\ unmerged \in BOOLEAN

Inv ==
  /\ Variables
  /\ Sound
  /\ unmerged \/ Apart(areas)
  /\ Pointers
  /\ AppMemoryKept
  /\ Backups

\* What the invariant says of single areas.
LEMMA AreasOfInv ==
  ASSUME Sound
  PROVE  /\ \A a \in areas : /\ a \in Records /\ a.addr \in Nat /\ a.free \in BOOLEAN
                             /\ IF a.free THEN a.user = None ELSE a.user \in Holders
                             /\ a.saved = None \/ a.saved \in [WordsOf(a) -> App \cup {Tool}]
         /\ \A a, b \in areas : a.addr = b.addr => a = b
         /\ \A a, b \in areas : \A w : w \in WordsOf(a) /\ w \in WordsOf(b) => a = b
<1>1. CASE areas = {}
  BY <1>1
<1>2. CASE Tiling(areas) /\ Kept(areas)
  <2>1. \A a \in areas : /\ a \in Records /\ a.addr \in Nat /\ End(a) \in Nat
                         /\ a.addr < End(a) /\ a.free \in BOOLEAN
    BY <1>2, AreaType DEF Tiling
  <2>2. ASSUME NEW a \in areas, NEW b \in areas, a.addr = b.addr PROVE a = b
    <3>1. a.addr <= b.addr /\ b.addr < End(a)
      BY <2>1, <2>2
    <3> QED BY <3>1, <1>2, OneArea
  <2>3. ASSUME NEW a \in areas, NEW b \in areas, NEW w, w \in WordsOf(a), w \in WordsOf(b)
        PROVE  a = b
    BY <1>2, <2>3, WordsApart
  <2> QED BY <1>2, <2>1, <2>2, <2>3 DEF Kept
<1> QED BY <1>1, <1>2 DEF Sound

LEMMA InvInit == Init => Inv
<1> SUFFICES ASSUME Init PROVE Inv
  OBVIOUS
<1>1. Variables
  BY DEF Init, Variables, App
<1>2. Lent(areas) = {} /\ areas = {}
  BY DEF Init, Lent
<1>3. Pointers /\ Backups /\ Sound /\ Apart(areas)
  BY <1>2 DEF Init, Pointers, Backups, Sound, Apart
<1>4. AppMemoryKept
  BY DEF Init, AppMemoryKept
<1> QED BY <1>1, <1>3, <1>4 DEF Inv

-----------------------------------------------------------------------------
(* Lending. *)

\* The first area that fits.
LEMMA FirstFits ==
  ASSUME NEW A, A \subseteq Records, NEW n, Fits(A, n) # {}
  PROVE  First(Fits(A, n)) \in Fits(A, n)
<1> DEFINE F == Fits(A, n)
           S == {a.addr : a \in F}
<1>1. F # {} /\ \A a \in F : a.addr \in Nat
  BY AreaType DEF Fits
<1> HIDE DEF F
<1>2. S \in SUBSET Nat /\ S # {}
  BY <1>1
<1>3. PICK m \in S : \A k \in S : m <= k
  BY <1>2, LeastNat
<1>4. \E a \in F : \A b \in F : a.addr <= b.addr
  BY <1>3
<1> QED BY <1>4 DEF First, F

\* The area that is lent has the bytes of the one that was cut.
LEMMA LendType ==
  ASSUME NEW c \in Records, NEW h \in Holders, NEW s \in Buffers
  PROVE  LET d == [c EXCEPT !.free = FALSE, !.user = h, !.saved = s] IN
         /\ d \in Records /\ d.addr = c.addr /\ d.size = c.size
         /\ d.free = FALSE /\ d.user = h /\ d.saved = s /\ WordsOf(d) = WordsOf(c)
<1>1. \A x \in Records : LET d == [x EXCEPT !.free = FALSE, !.user = h, !.saved = s] IN
        /\ d \in Records /\ d.addr = x.addr /\ d.size = x.size
        /\ d.free = FALSE /\ d.user = h /\ d.saved = s
  BY DEF Records
<1> QED BY <1>1 DEF WordsOf

Pool == IF areas = {} THEN {Free(0, Usable)} ELSE areas

\* What is lent is cut from the first area of the pool that fits.
LEMMA PoolSplit ==
  ASSUME Inv, NEW n \in 1 .. Size
  PROVE  /\ Tiling(Pool) /\ Kept(Pool) /\ Lent(Pool) = Lent(areas)
         /\ unmerged \/ Apart(Pool)
         /\ Fits(Pool, Round(n)) # {} =>
              LET a == First(Fits(Pool, Round(n)))
                  c == Cut(a, Round(n))
                  S == Split(Pool, a, Round(n))
              IN  /\ Tiling(S) /\ Kept(S) /\ c \in S /\ c.free /\ Lent(S) = Lent(areas)
                  /\ unmerged \/ Apart(S \ {c})
<1>1. Tiling(Pool) /\ Kept(Pool) /\ Lent(Pool) = Lent(areas) /\ (unmerged \/ Apart(Pool))
  <2>1. CASE areas = {}
    <3>1. Lent(areas) = {}
      BY <2>1 DEF Lent
    <3> QED BY <2>1, <3>1, WholeTiles DEF Pool
  <2>2. CASE areas # {}
    BY <2>2 DEF Pool, Inv, Sound
  <2> QED BY <2>1, <2>2
<1>2. ASSUME Fits(Pool, Round(n)) # {}
      PROVE  LET a == First(Fits(Pool, Round(n)))
                 c == Cut(a, Round(n))
                 S == Split(Pool, a, Round(n))
             IN  /\ Tiling(S) /\ Kept(S) /\ c \in S /\ c.free /\ Lent(S) = Lent(areas)
                 /\ unmerged \/ Apart(S \ {c})
  <2> DEFINE a == First(Fits(Pool, Round(n)))
  <2>1. a \in Fits(Pool, Round(n))
    BY <1>1, <1>2, FirstFits DEF Tiling
  <2>2. a \in Pool /\ a.free /\ a.size >= Round(n)
    BY <2>1 DEF Fits
  <2>3. n \in Nat \ {0}
    BY SizeAssumption
  <2>4. Round(n) \in Nat /\ Round(n) > 0
    BY <2>3, RoundType
  <2>5. Round(n) <= a.size
    BY <1>1, <2>2, <2>4, AreaType DEF Tiling
  <2> HIDE DEF a
  <2>6. /\ Tiling(Split(Pool, a, Round(n))) /\ Kept(Split(Pool, a, Round(n)))
        /\ Cut(a, Round(n)) \in Split(Pool, a, Round(n)) /\ Cut(a, Round(n)).free
        /\ Lent(Split(Pool, a, Round(n))) = Lent(Pool)
        /\ Apart(Pool) => Apart(Split(Pool, a, Round(n)) \ {Cut(a, Round(n))})
    BY <1>1, <2>2, <2>4, <2>5, SplitTiles
  <2> QED BY <1>1, <2>6 DEF a
<1> QED BY <1>1, <1>2

\* Nothing changes but the free areas.
LEMMA OnlyFreeAreasChange ==
  ASSUME Inv, Tiling(areas'), Kept(areas'), Lent(areas') = Lent(areas),
         (unmerged \/ Apart(areas))' , unmerged' \in BOOLEAN,
         UNCHANGED <<backup, ptr, gone, mem, app, lost>>
  PROVE  Inv'
<1>1. Variables' /\ Sound'
  BY DEF Inv, Variables, Sound
<1>2. Lent(areas)' = Lent(areas)
  OBVIOUS
<1>3. Backups'
  BY <1>2 DEF Inv, Backups, WordsOf
<1>4. AppMemoryKept'
  BY <1>2 DEF Inv, AppMemoryKept, WordsIn, WordsOf
<1>5. Pointers'
  <2>1. ASSUME NEW h \in Holders \ gone, NEW a \in areas', a.user = h PROVE ptr[h] = a.addr
    <3>1. ~a.free
      BY <2>1, HoldersAssumption DEF Kept
    <3>2. a \in Lent(areas)
      BY <3>1, <2>1 DEF Lent
    <3> QED BY <2>1, <3>2 DEF Inv, Pointers, Lent
  <2> QED BY <1>2, <2>1 DEF Inv, Pointers
<1> QED BY <1>1, <1>3, <1>4, <1>5 DEF Inv

LEMMA AllocKeeps ==
  ASSUME Inv, NEW h \in Holders, NEW n \in 1 .. Size, Alloc(h, n)
  PROVE  Inv'
<1> DEFINE r == Round(n)
           a == First(Fits(Pool, r))
           c == Cut(a, r)
           S == Split(Pool, a, r)
           s == IF backup THEN ReadBack(c) ELSE c.saved
           d == [c EXCEPT !.free = FALSE, !.user = h, !.saved = s]
<1>1. CASE Fits(Pool, r) = {} /\ areas' = Pool /\ UNCHANGED <<ptr, unmerged>>
  <2>1. UNCHANGED <<backup, ptr, gone, mem, app, lost>>
    BY <1>1 DEF Alloc
  <2>2. unmerged' \in BOOLEAN
    BY <1>1 DEF Inv, Variables
  <2> QED BY <1>1, <2>1, <2>2, PoolSplit, OnlyFreeAreasChange DEF Apart, End
<1>2. CASE Fits(Pool, r) # {} /\ areas' = S /\ unmerged' = TRUE /\ UNCHANGED ptr
  <2>1. UNCHANGED <<backup, ptr, gone, mem, app, lost>>
    BY <1>2 DEF Alloc
  <2>2. Tiling(S) /\ Kept(S) /\ Lent(S) = Lent(areas)
    BY <1>2, PoolSplit
  <2> HIDE DEF S
  <2> QED BY <1>2, <2>1, <2>2, OnlyFreeAreasChange
<1>3. CASE /\ Fits(Pool, r) # {}
           /\ areas' = (S \ {c}) \cup {d} /\ ptr' = [ptr EXCEPT ![h] = c.addr]
           /\ UNCHANGED unmerged
  <2>1. /\ Tiling(S) /\ Kept(S) /\ c \in S /\ c.free /\ Lent(S) = Lent(areas)
        /\ unmerged \/ Apart(S \ {c})
    BY <1>3, PoolSplit
  <2>2. ptr[h] = None /\ h \notin gone /\ UNCHANGED <<backup, gone, mem, app, lost>>
    BY DEF Alloc
  <2>3. Variables /\ Sound /\ Pointers /\ AppMemoryKept /\ Backups
    BY DEF Inv
  <2> HIDE DEF S, c
  <2>4. c \in Records /\ c.addr \in 0 .. Usable /\ c.addr \in Nat
    BY <2>1, AreaType DEF Tiling, Records
  <2>5. WordsOf(c) \subseteq Words
    BY DEF WordsOf
  <2>6. ReadBack(c) \in [WordsOf(c) -> App \cup {Tool}]
    BY <2>3, <2>5 DEF Variables, ReadBack
  <2>7. s \in Buffers /\ (s = None \/ s \in [WordsOf(c) -> App \cup {Tool}])
    <3>1. ReadBack(c) \in Buffers
      BY <2>5, <2>6 DEF Buffers
    <3>2. c.saved \in Buffers /\ (c.saved = None \/ c.saved \in [WordsOf(c) -> App \cup {Tool}])
      BY <2>1, <2>4 DEF Records, Kept
    <3> QED BY <2>6, <3>1, <3>2
  <2>8. backup => s = ReadBack(c)
    OBVIOUS
  <2> HIDE DEF s
  <2>9. /\ d \in Records /\ d.addr = c.addr /\ d.size = c.size
        /\ d.free = FALSE /\ d.user = h /\ d.saved = s /\ WordsOf(d) = WordsOf(c)
    <3>1. \A x \in Records, v \in Buffers :
            LET y == [x EXCEPT !.free = FALSE, !.user = h, !.saved = v] IN
            /\ y \in Records /\ y.addr = x.addr /\ y.size = x.size
            /\ y.free = FALSE /\ y.user = h /\ y.saved = v /\ WordsOf(y) = WordsOf(x)
      BY LendType
    <3> QED BY <2>4, <2>7, <3>1
  <2> HIDE DEF d
  <2>10. areas' = (S \ {c}) \cup {d}
    BY <1>3
  <2>11. Lent(areas') = Lent(areas) \cup {d}
    BY <2>1, <2>9, <2>10 DEF Lent
  <2>12. Tiling(areas')
    BY <2>1, <2>9, <2>10, ReplaceTiles
  <2>13. Kept(areas')
    BY <2>1, <2>7, <2>9, <2>10 DEF Kept
  <2>14. unmerged' \/ Apart(areas')
    <3>1. ASSUME Apart(S \ {c}) PROVE Apart(areas')
      BY <3>1, <2>9, <2>10 DEF Apart
    <3> QED BY <3>1, <2>1, <1>3
  <2>15. ptr' \in [Holders -> 0 .. Usable \cup {None}] /\ ptr'[h] = c.addr
         /\ \A g \in Holders : g # h => ptr'[g] = ptr[g]
    BY <1>3, <2>3, <2>4 DEF Variables
  <2>16. Variables'
    BY <2>2, <2>3, <2>15, <1>3 DEF Variables
  <2>17. Pointers'
    <3>1. \A g \in gone : ptr'[g] = None
      BY <2>2, <2>3, <2>15, HoldersAssumption DEF Pointers, Variables
    <3>2. ASSUME NEW g \in Holders \ gone, NEW b \in areas', b.user = g
          PROVE  ptr'[g] = b.addr
      <4>1. CASE b = d
        BY <4>1, <3>2, <2>9, <2>15
      <4>2. CASE b # d
        <5>1. b \in S /\ ~b.free
          BY <4>2, <3>2, <2>10, <2>1, HoldersAssumption DEF Kept
        <5>2. b \in Lent(areas)
          BY <5>1, <2>1 DEF Lent
        <5>3. b \in areas /\ b.addr \in Nat
          BY <5>2, <2>3, AreasOfInv DEF Lent
        <5>4. ptr[g] = b.addr
          BY <5>3, <3>2, <2>3 DEF Pointers
        <5>5. g # h
          BY <5>3, <5>4, <2>2, NoneAssumption
        <5> QED BY <5>4, <5>5, <2>15
      <4> QED BY <4>1, <4>2
    <3>3. ASSUME NEW g \in Holders, ptr'[g] # None
          PROVE  \E b \in Lent(areas') : b.user = g /\ b.addr = ptr'[g]
      <4>1. CASE g = h
        BY <4>1, <2>9, <2>11, <2>15
      <4>2. CASE g # h
        BY <4>2, <3>3, <2>3, <2>11, <2>15 DEF Pointers
      <4> QED BY <4>1, <4>2
    <3> QED BY <2>2, <3>1, <3>2, <3>3 DEF Pointers
  <2>18. AppMemoryKept'
    BY <2>2, <2>3, <2>11 DEF AppMemoryKept, WordsIn, WordsOf
  <2>19. Backups'
    <3>1. ASSUME backup, NEW b \in Lent(areas)
          PROVE  b.saved # None /\ \A w \in WordsOf(b) : w \in lost \/ b.saved[w] = app[w]
      BY <3>1, <2>3 DEF Backups
    <3>2. ASSUME backup
          PROVE  d.saved # None /\ \A w \in WordsOf(d) : w \in lost \/ d.saved[w] = app[w]
      <4>1. d.saved = ReadBack(c) /\ \A w \in WordsOf(c) : ReadBack(c)[w] = mem[w]
        BY <3>2, <2>8, <2>9 DEF ReadBack
      <4>2. d.saved # None
        BY <4>1, <2>5, <2>6, NoneAssumption
      <4>3. ASSUME NEW w \in WordsOf(c) PROVE w \in lost \/ mem[w] = app[w]
        <5>1. ASSUME NEW b \in Lent(areas), w \in WordsOf(b) PROVE FALSE
          <6>1. b \in S /\ ~b.free
            BY <5>1, <2>1 DEF Lent
          <6>2. b = c
            BY <6>1, <5>1, <4>3, <2>1, WordsApart
          <6> QED BY <6>1, <6>2, <2>1
        <5>2. w \in Words \ WordsIn(Lent(areas))
          BY <5>1, <4>3, <2>5 DEF WordsIn
        <5> QED BY <5>2, <2>3 DEF AppMemoryKept
      <4> QED BY <4>1, <4>2, <4>3, <2>9
    <3>3. ASSUME backup', NEW b \in Lent(areas')
          PROVE  b.saved # None /\ \A w \in WordsOf(b) : w \in lost' \/ b.saved[w] = app'[w]
      BY <3>1, <3>2, <3>3, <2>2, <2>11
    <3> QED BY <3>3 DEF Backups, WordsOf
  <2> QED BY <2>12, <2>13, <2>14, <2>16, <2>17, <2>18, <2>19 DEF Inv, Sound
<1> QED BY <1>1, <1>2, <1>3 DEF Alloc, Pool

-----------------------------------------------------------------------------
(* Returning. *)

\* Memory where areas that do not overlap are written back.
LEMMA RestoredWords ==
  ASSUME Inv, NEW A, A \subseteq Lent(areas), backup
  PROVE  /\ Restored(A) \in [Words -> App \cup {Tool}]
         /\ \A w \in Words \ WordsIn(A) : Restored(A)[w] = mem[w]
         /\ \A a \in A : \A w \in WordsOf(a) : Restored(A)[w] = a.saved[w]
<1>1. /\ \A a \in areas : a.saved = None \/ a.saved \in [WordsOf(a) -> App \cup {Tool}]
      /\ \A a, b \in areas : \A w : w \in WordsOf(a) /\ w \in WordsOf(b) => a = b
  <2>1. Sound
    BY DEF Inv
  <2>2. \A a \in areas : a.saved = None \/ a.saved \in [WordsOf(a) -> App \cup {Tool}]
    BY <2>1 DEF Sound, Kept
  <2>3. \A a, b \in areas : \A w : w \in WordsOf(a) /\ w \in WordsOf(b) => a = b
    BY <2>1, AreasOfInv
  <2> QED BY <2>2, <2>3
<1>2. A \subseteq areas /\ \A a \in A : a.saved # None
  BY DEF Inv, Backups, Lent
<1>3. mem \in [Words -> App \cup {Tool}]
  BY DEF Inv, Variables
<1>4. ASSUME NEW a \in A, NEW w \in WordsOf(a)
      PROVE  w \in Words /\ Restored(A)[w] = a.saved[w] /\ a.saved[w] \in App \cup {Tool}
  <2>1. w \in Words
    BY <1>4 DEF WordsOf
  <2>2. \A b \in A : w \in WordsOf(b) <=> b = a
    BY <1>1, <1>2, <1>4
  <2>3. (CHOOSE b \in A : w \in WordsOf(b)) = a
    BY <2>2, <1>4
  <2>4. \E b \in A : b.saved # None /\ w \in WordsOf(b)
    BY <1>2, <1>4
  <2>5. Restored(A)[w] = a.saved[w]
    BY <2>1, <2>3, <2>4 DEF Restored
  <2>6. a.saved \in [WordsOf(a) -> App \cup {Tool}]
    BY <1>1, <1>2, <1>4
  <2> QED BY <2>1, <2>5, <2>6, <1>4
<1>5. ASSUME NEW w \in Words \ WordsIn(A) PROVE Restored(A)[w] = mem[w]
  BY <1>5 DEF Restored, WordsIn
<1>6. \A w \in Words : Restored(A)[w] \in App \cup {Tool}
  BY <1>3, <1>4, <1>5 DEF WordsIn
<1>7. Restored(A) \in [Words -> App \cup {Tool}]
  BY <1>6 DEF Restored
<1> QED BY <1>4, <1>5, <1>7

\* The area a variable points at is the one lent to it.
LEMMA OwnArea ==
  ASSUME Inv, NEW h \in Holders, ptr[h] # None, NEW a \in areas, a.addr = ptr[h]
  PROVE  /\ a \in Lent(areas) /\ a.user = h /\ h \notin gone
         /\ \A b \in Lent(areas) : b.user = h => b = a
<1>1. PICK b \in Lent(areas) : b.user = h /\ b.addr = ptr[h]
  BY DEF Inv, Pointers
<1>2. b = a
  BY <1>1, AreasOfInv DEF Inv, Lent
<1>3. h \notin gone
  BY DEF Inv, Pointers
<1>4. ASSUME NEW d \in Lent(areas), d.user = h PROVE d = a
  <2>1. d \in areas /\ ptr[h] = d.addr
    BY <1>3, <1>4 DEF Inv, Pointers, Lent
  <2> QED BY <2>1, AreasOfInv DEF Inv
<1> QED BY <1>1, <1>2, <1>3, <1>4

\* What memory has no part in.
LEMMA ListStays ==
  ASSUME Inv, UNCHANGED <<areas, ptr, gone, unmerged>>
  PROVE  Sound' /\ (unmerged \/ Apart(areas))' /\ Pointers'
<1>1. Sound'
  BY DEF Inv, Sound, Tiling, Kept, Separate, Covers, End, WordsOf
<1>2. (unmerged \/ Apart(areas))'
  BY DEF Inv, Apart, End
<1>3. Pointers'
  BY DEF Inv, Pointers, Lent
<1> QED BY <1>1, <1>2, <1>3

LEMMA StutterKeeps ==
  ASSUME Inv, UNCHANGED vars
  PROVE  Inv'
<1>1. Variables'
  BY DEF vars, Inv, Variables
<1>2. Sound' /\ (unmerged \/ Apart(areas))' /\ Pointers'
  BY ListStays DEF vars
<1>3. AppMemoryKept' /\ Backups'
  BY DEF vars, Inv, Backups, AppMemoryKept, Lent, WordsIn, WordsOf
<1> QED BY <1>1, <1>2, <1>3 DEF Inv

LEMMA FreeAreaKeeps ==
  ASSUME Inv, NEW h \in Holders, FreeArea(h)
  PROVE  Inv'
<1>1. PICK a \in Lent(areas) :
        /\ a.addr = ptr[h]
        /\ \/ /\ mem' = IF backup THEN Restored({a}) ELSE mem
              /\ lost' = IF backup THEN lost ELSE lost \cup WordsOf(a)
              /\ areas' = Merge((areas \ {a}) \cup {Release(a)})
              /\ ptr' = Cleared({a.user})
              /\ unmerged' = FALSE /\ UNCHANGED gone
           \/ /\ backup /\ h \notin Locals
              /\ UNCHANGED <<areas, ptr, gone, mem, lost, unmerged>>
           \/ /\ backup /\ h \in Locals
              /\ ptr' = [ptr EXCEPT ![h] = None] /\ gone' = gone \cup {h}
              /\ UNCHANGED <<areas, mem, lost, unmerged>>
  BY DEF FreeArea
<1>2. ptr[h] # None /\ UNCHANGED <<backup, app>>
  BY DEF FreeArea
<1>3. /\ a \in areas /\ a.user = h /\ h \notin gone
      /\ \A b \in Lent(areas) : b.user = h => b = a
  BY <1>1, <1>2, OwnArea DEF Lent
<1>4. Variables /\ Sound /\ Pointers /\ AppMemoryKept /\ Backups
  BY DEF Inv
<1>5. CASE UNCHANGED <<areas, ptr, gone, mem, lost, unmerged>>
  <2>1. UNCHANGED vars
    BY <1>2, <1>5 DEF vars
  <2> QED BY <2>1, StutterKeeps
<1>6. CASE /\ backup /\ h \in Locals
           /\ ptr' = [ptr EXCEPT ![h] = None] /\ gone' = gone \cup {h}
           /\ UNCHANGED <<areas, mem, lost, unmerged>>
  <2>1. Variables'
    BY <1>2, <1>4, <1>6 DEF Variables
  <2>2. Pointers'
    <3>1. ptr'[h] = None /\ \A g \in Holders : g # h => ptr'[g] = ptr[g]
      BY <1>4, <1>6 DEF Variables
    <3>2. \A g \in gone' : ptr'[g] = None
      BY <3>1, <1>4, <1>6, HoldersAssumption DEF Variables, Pointers
    <3>3. \A g \in Holders \ gone' : \A b \in areas' : b.user = g => ptr'[g] = b.addr
      BY <3>1, <1>4, <1>6 DEF Pointers
    <3>4. \A g \in Holders :
            ptr'[g] # None => \E b \in Lent(areas') : b.user = g /\ b.addr = ptr'[g]
      BY <3>1, <1>4, <1>6 DEF Pointers
    <3> QED BY <3>2, <3>3, <3>4 DEF Pointers
  <2>3. Sound' /\ (unmerged \/ Apart(areas))'
    BY <1>6 DEF Inv, Sound, Tiling, Kept, Separate, Covers, End, Apart, WordsOf
  <2>4. AppMemoryKept' /\ Backups'
    BY <1>2, <1>4, <1>6 DEF AppMemoryKept, Backups, WordsIn, WordsOf, Lent
  <2> QED BY <2>1, <2>2, <2>3, <2>4 DEF Inv
<1>7. CASE /\ mem' = IF backup THEN Restored({a}) ELSE mem
           /\ lost' = IF backup THEN lost ELSE lost \cup WordsOf(a)
           /\ areas' = Merge((areas \ {a}) \cup {Release(a)})
           /\ ptr' = Cleared({a.user})
           /\ unmerged' = FALSE /\ UNCHANGED gone
  <2> DEFINE r == Release(a)
             B == (areas \ {a}) \cup {r}
  <2>1. Tiling(areas) /\ Kept(areas) /\ a \in Records
    BY <1>3, <1>4 DEF Sound, Tiling
  <2>2. /\ r \in Records /\ r.addr = a.addr /\ r.size = a.size /\ r.free = TRUE
        /\ r.user = None /\ r.saved = a.saved /\ WordsOf(r) = WordsOf(a)
    BY <2>1, ReleaseType
  <2> HIDE DEF r
  <2>3. Tiling(B)
    BY <1>3, <2>1, <2>2, ReplaceTiles
  <2>4. Kept(B)
    BY <1>3, <2>1, <2>2 DEF Kept
  <2>5. Lent(B) = Lent(areas) \ {a}
    BY <1>1, <2>2 DEF Lent
  <2>6. areas' = Merge(B)
    BY <1>7 DEF r
  <2> HIDE DEF B
  <2>7. Tiling(areas') /\ Kept(areas') /\ Apart(areas') /\ Lent(areas') = Lent(areas) \ {a}
    BY <2>3, <2>4, <2>5, <2>6, MergeTiles
  <2>8. ptr'[h] = None /\ \A g \in Holders : g # h => ptr'[g] = ptr[g]
    BY <1>3, <1>7 DEF Cleared
  <2>9. ptr' \in [Holders -> 0 .. Usable \cup {None}]
    BY <1>4, <1>7 DEF Variables, Cleared
  <2>10. Pointers'
    <3>1. \A g \in gone' : ptr'[g] = None
      BY <2>8, <1>4, <1>7, HoldersAssumption DEF Variables, Pointers
    <3>2. ASSUME NEW g \in Holders \ gone, NEW b \in areas', b.user = g
          PROVE  ptr'[g] = b.addr
      <4>1. ~b.free
        BY <3>2, <2>7, HoldersAssumption DEF Kept
      <4>2. b \in Lent(areas) /\ b # a
        BY <4>1, <3>2, <2>7 DEF Lent
      <4>3. g # h
        BY <4>2, <3>2, <1>3
      <4>4. ptr[g] = b.addr
        BY <4>2, <3>2, <1>4 DEF Pointers, Lent
      <4> QED BY <4>3, <4>4, <2>8
    <3>3. ASSUME NEW g \in Holders, ptr'[g] # None
          PROVE  \E b \in Lent(areas') : b.user = g /\ b.addr = ptr'[g]
      <4>1. g # h /\ ptr'[g] = ptr[g]
        BY <3>3, <2>8
      <4>2. PICK b \in Lent(areas) : b.user = g /\ b.addr = ptr[g]
        BY <4>1, <3>3, <1>4 DEF Pointers
      <4> QED BY <4>1, <4>2, <1>3, <2>7
    <3> QED BY <3>1, <3>2, <3>3, <1>7 DEF Pointers
  <2>11. /\ mem' \in [Words -> App \cup {Tool}] /\ lost' \subseteq Words
         /\ \A w \in Words \ WordsOf(a) : mem'[w] = mem[w]
         /\ \A w \in WordsOf(a) : w \in Words /\ (w \in lost' \/ mem'[w] = app[w])
         /\ lost \subseteq lost'
    <3>1. WordsOf(a) \subseteq Words /\ WordsIn({a}) = WordsOf(a)
      BY DEF WordsOf, WordsIn
    <3>2. CASE backup
      <4>1. {a} \subseteq Lent(areas)
        BY <1>1
      <4>2. /\ Restored({a}) \in [Words -> App \cup {Tool}]
            /\ \A w \in Words \ WordsIn({a}) : Restored({a})[w] = mem[w]
            /\ \A w \in WordsOf(a) : Restored({a})[w] = a.saved[w]
        BY <4>1, <3>2, RestoredWords
      <4>3. \A w \in WordsOf(a) : w \in lost \/ a.saved[w] = app[w]
        BY <1>1, <1>4, <3>2 DEF Backups
      <4> QED BY <1>4, <1>7, <3>1, <3>2, <4>2, <4>3 DEF Variables
    <3>3. CASE ~backup
      BY <1>4, <1>7, <3>1, <3>3 DEF Variables
    <3> QED BY <3>2, <3>3
  <2>12. Variables'
    BY <1>2, <1>4, <1>7, <2>9, <2>11 DEF Variables
  <2>13. AppMemoryKept'
    <3> SUFFICES ASSUME NEW w \in Words \ WordsIn(Lent(areas'))
                 PROVE  w \in lost' \/ mem'[w] = app'[w]
      BY DEF AppMemoryKept, WordsIn, WordsOf
    <3>1. CASE w \in WordsOf(a)
      BY <3>1, <2>11, <1>2
    <3>2. CASE w \notin WordsOf(a)
      <4>1. w \in Words \ WordsIn(Lent(areas))
        BY <3>2, <2>7 DEF WordsIn
      <4> QED BY <4>1, <3>2, <2>11, <1>2, <1>4 DEF AppMemoryKept
    <3> QED BY <3>1, <3>2
  <2>14. Backups'
    <3> SUFFICES ASSUME backup, NEW b \in Lent(areas')
                 PROVE  b.saved # None /\ \A w \in WordsOf(b) : w \in lost' \/ b.saved[w] = app'[w]
      BY <1>2 DEF Backups, WordsOf
    <3> QED BY <1>2, <1>4, <2>7, <2>11 DEF Backups
  <2> QED BY <2>7, <2>10, <2>12, <2>13, <2>14 DEF Inv, Sound
<1> QED BY <1>1, <1>5, <1>6, <1>7

\* All areas are given back at once, and none is restored.
LEMMA ReleaseAllTiles ==
  ASSUME NEW A, Tiling(A), Kept(A)
  PROVE  LET B == {IF a.free THEN a ELSE Release(a) : a \in A} IN
         Tiling(B) /\ Kept(B) /\ Lent(B) = {}
<1> DEFINE R(a) == IF a.free THEN a ELSE Release(a)
           B == {R(a) : a \in A}
<1>1. \A a \in A : a \in Records /\ a.free \in BOOLEAN /\ End(a) <= Usable
  BY AreaType DEF Tiling
<1>2. ASSUME NEW a \in A
      PROVE  /\ R(a) \in Records /\ R(a).addr = a.addr /\ End(R(a)) = End(a)
             /\ R(a).free = TRUE /\ R(a).user = None
             /\ R(a).saved = None \/ R(a).saved \in [WordsOf(R(a)) -> App \cup {Tool}]
  <2>1. a.saved = None \/ a.saved \in [WordsOf(a) -> App \cup {Tool}]
    BY DEF Kept
  <2>2. CASE a.free
    BY <1>1, <2>1, <2>2 DEF Kept
  <2>3. CASE ~a.free
    <3>1. R(a) = Release(a)
      BY <2>3
    <3>2. /\ R(a) \in Records /\ R(a).addr = a.addr /\ End(R(a)) = End(a)
          /\ R(a).free = TRUE /\ R(a).user = None /\ R(a).saved = a.saved
          /\ WordsOf(R(a)) = WordsOf(a)
      BY <1>1, <3>1, ReleaseType
    <3> QED BY <2>1, <3>2
  <2> QED BY <2>2, <2>3
<1> HIDE DEF R
<1>3. B \subseteq Records /\ \A b \in B : End(b) <= Usable
  <2> SUFFICES ASSUME NEW a \in A PROVE R(a) \in Records /\ End(R(a)) <= Usable
    OBVIOUS
  <2> QED BY <1>1, <1>2
<1>4. Separate(B)
  <2> SUFFICES ASSUME NEW a \in A, NEW b \in A, R(a) # R(b)
               PROVE  End(R(a)) <= R(b).addr \/ End(R(b)) <= R(a).addr
    BY DEF Separate
  <2>1. End(a) <= b.addr \/ End(b) <= a.addr
    BY DEF Tiling, Separate
  <2> QED BY <2>1, <1>2
<1>5. Covers(B)
  <2> SUFFICES ASSUME NEW x \in 0 .. Usable - 1
               PROVE  \E b \in B : b.addr <= x /\ x < End(b)
    BY DEF Covers
  <2>1. PICK a \in A : a.addr <= x /\ x < End(a)
    BY DEF Tiling, Covers
  <2> QED BY <2>1, <1>2
<1>6. Kept(B)
  BY <1>2 DEF Kept
<1>7. Lent(B) = {}
  BY <1>2 DEF Lent
<1>8. Tiling(B) /\ Kept(B) /\ Lent(B) = {}
  BY <1>3, <1>4, <1>5, <1>6, <1>7 DEF Tiling
<1> QED BY <1>8 DEF R

\* No variable points anywhere when the pointers of all users are cleared.
LEMMA ClearedAll ==
  ASSUME Inv
  PROVE  Cleared(Users(Lent(areas))) = [h \in Holders |-> None]
<1>1. \A h \in Holders : ptr[h] # None => h \in Users(Lent(areas))
  BY DEF Inv, Pointers, Users
<1> QED BY <1>1 DEF Cleared

LEMMA FreeAllKeeps ==
  ASSUME Inv, FreeAll
  PROVE  Inv'
<1>1. PICK failed \in SUBSET Lent(areas) :
        /\ mem' = IF backup THEN Restored(Lent(areas) \ failed) ELSE mem
        /\ lost' = lost \cup WordsIn(IF backup THEN failed ELSE Lent(areas))
  BY DEF FreeAll
<1>2. /\ ptr' = [h \in Holders |-> None] /\ areas' = {} /\ backup' \in BOOLEAN
      /\ unmerged' = FALSE /\ UNCHANGED <<gone, app>>
  BY ClearedAll DEF FreeAll
<1>3. Lent(areas') = {}
  BY <1>2 DEF Lent
<1>4. Pointers' /\ Backups' /\ Sound' /\ Apart(areas')
  <2>1. \A h \in Holders : ptr'[h] = None
    BY <1>2
  <2>2. gone' \subseteq Holders
    BY <1>2, HoldersAssumption DEF Inv, Variables
  <2> QED BY <1>2, <1>3, <2>1, <2>2 DEF Pointers, Backups, Sound, Apart
<1>5. Variables /\ AppMemoryKept /\ Backups
  BY DEF Inv
<1>6. WordsIn(Lent(areas)) \subseteq Words /\ WordsIn(failed) \subseteq Words
  BY DEF WordsIn, WordsOf
<1>7. mem' \in [Words -> App \cup {Tool}] /\ \A w \in Words : w \in lost' \/ mem'[w] = app[w]
  <2>1. CASE backup
    <3> DEFINE A == Lent(areas) \ failed
    <3>1. /\ mem' \in [Words -> App \cup {Tool}]
          /\ \A w \in Words \ WordsIn(A) : mem'[w] = mem[w]
          /\ \A a \in A : \A w \in WordsOf(a) : mem'[w] = a.saved[w]
      BY <1>1, <2>1, RestoredWords
    <3>2. ASSUME NEW w \in Words PROVE w \in lost' \/ mem'[w] = app[w]
      <4>1. CASE w \in WordsIn(failed)
        BY <1>1, <2>1, <4>1
      <4>2. CASE w \in WordsIn(A)
        <5>1. PICK a \in A : w \in WordsOf(a)
          BY <4>2 DEF WordsIn
        <5>2. w \in lost \/ a.saved[w] = app[w]
          BY <5>1, <1>5, <2>1 DEF Backups
        <5> QED BY <5>1, <5>2, <3>1, <1>1
      <4>3. CASE w \notin WordsIn(A) /\ w \notin WordsIn(failed)
        <5>1. w \in Words \ WordsIn(Lent(areas))
          BY <4>3 DEF WordsIn
        <5> QED BY <5>1, <4>3, <3>1, <1>1, <1>5 DEF AppMemoryKept
      <4> QED BY <4>1, <4>2, <4>3
    <3> QED BY <3>1, <3>2
  <2>2. CASE ~backup
    BY <1>1, <1>5, <2>2 DEF Variables, AppMemoryKept
  <2> QED BY <2>1, <2>2
<1>8. Variables'
  <2>1. lost' \subseteq Words
    BY <1>1, <1>5, <1>6 DEF Variables
  <2>2. ptr' \in [Holders -> 0 .. Usable \cup {None}]
    BY <1>2
  <2> QED BY <1>2, <1>5, <1>7, <2>1, <2>2 DEF Variables
<1>9. AppMemoryKept'
  BY <1>2, <1>7 DEF AppMemoryKept
<1> QED BY <1>2, <1>4, <1>8, <1>9 DEF Inv

LEMMA ResetKeeps ==
  ASSUME Inv, FreeAllAtReset
  PROVE  Inv'
<1> DEFINE B == {IF a.free THEN a ELSE Release(a) : a \in areas}
<1>1. /\ areas' = Merge(B) /\ ptr' = [h \in Holders |-> None]
      /\ lost' = lost \cup WordsIn(Lent(areas)) /\ unmerged' = FALSE
      /\ UNCHANGED <<backup, gone, mem, app>>
  BY ClearedAll DEF FreeAllAtReset
<1>2. Variables /\ Sound /\ AppMemoryKept
  BY DEF Inv
<1>3. Sound' /\ Apart(areas') /\ Lent(areas') = {} /\ (areas' = {} \/ Kept(areas'))
  <2>1. CASE areas = {}
    <3>1. B = {}
      BY <2>1
    <3>2. areas' = {}
      BY <1>1, <3>1 DEF Merge, Starts
    <3> QED BY <3>2 DEF Sound, Apart, Lent
  <2>2. CASE Tiling(areas) /\ Kept(areas)
    <3>1. Tiling(B) /\ Kept(B) /\ Lent(B) = {}
      BY <2>2, ReleaseAllTiles
    <3> HIDE DEF B
    <3>2. Tiling(areas') /\ Kept(areas') /\ Apart(areas') /\ Lent(areas') = {}
      BY <1>1, <3>1, MergeTiles
    <3> QED BY <3>2 DEF Sound
  <2> QED BY <1>2, <2>1, <2>2 DEF Sound
<1>4. Pointers'
  <2>1. \A h \in Holders : ptr'[h] = None
    BY <1>1
  <2>2. gone' \subseteq Holders
    BY <1>1, <1>2, HoldersAssumption DEF Variables
  <2>3. ASSUME NEW a \in areas' PROVE a.user \notin Holders
    BY <1>3, <2>3, HoldersAssumption DEF Kept, Lent
  <2> QED BY <2>1, <2>2, <2>3 DEF Pointers
<1>5. Variables'
  <2>1. WordsIn(Lent(areas)) \subseteq Words
    BY DEF WordsIn, WordsOf
  <2>2. ptr' \in [Holders -> 0 .. Usable \cup {None}]
    BY <1>1
  <2> QED BY <1>1, <1>2, <2>1, <2>2 DEF Variables
<1>6. AppMemoryKept' /\ Backups'
  <2>1. \A w \in Words : w \in lost' \/ mem'[w] = app'[w]
    BY <1>1, <1>2 DEF AppMemoryKept
  <2> QED BY <2>1, <1>3 DEF AppMemoryKept, Backups
<1> QED BY <1>1, <1>3, <1>4, <1>5, <1>6 DEF Inv

-----------------------------------------------------------------------------
(* Memory. *)

LEMMA UseKeeps ==
  ASSUME Inv, NEW h \in Holders, Use(h)
  PROVE  Inv'
<1>1. PICK a \in areas : /\ a.addr = ptr[h] /\ ptr[h] # None
                         /\ mem' = [w \in Words |-> IF w \in WordsOf(a) THEN Tool ELSE mem[w]]
  BY DEF Use
<1>2. UNCHANGED <<areas, backup, ptr, gone, app, lost, unmerged>>
  BY DEF Use
<1>3. a \in Lent(areas)
  BY <1>1, OwnArea
<1>4. Variables /\ AppMemoryKept
  BY DEF Inv
<1>5. Variables'
  BY <1>1, <1>2, <1>4 DEF Variables
<1>6. AppMemoryKept'
  <2> SUFFICES ASSUME NEW w \in Words \ WordsIn(Lent(areas))
               PROVE  w \in lost \/ mem'[w] = app[w]
    BY <1>2 DEF AppMemoryKept, WordsIn, WordsOf, Lent
  <2>1. w \notin WordsOf(a)
    BY <1>3 DEF WordsIn
  <2> QED BY <2>1, <1>1, <1>4 DEF AppMemoryKept
<1>7. Sound' /\ (unmerged \/ Apart(areas))' /\ Pointers'
  BY <1>2, ListStays
<1>8. Backups'
  BY <1>2 DEF Inv, Backups, Lent, WordsOf
<1> QED BY <1>5, <1>6, <1>7, <1>8 DEF Inv

LEMMA AppWritesKeeps ==
  ASSUME Inv, NEW w \in Words, AppWrites(w)
  PROVE  Inv'
<1>1. /\ w \notin WordsIn(Lent(areas))
      /\ app' = [app EXCEPT ![w] = 1 - app[w]] /\ mem' = [mem EXCEPT ![w] = app'[w]]
      /\ lost' = lost \ {w} /\ UNCHANGED <<areas, backup, ptr, gone, unmerged>>
  BY DEF AppWrites
<1>2. Variables /\ AppMemoryKept /\ Backups
  BY DEF Inv
<1>3. app[w] \in {0, 1}
  BY <1>2 DEF Variables, App
<1>4. 1 - app[w] \in App
  BY <1>3 DEF App
<1>5. /\ app' \in [Words -> App] /\ mem' \in [Words -> App \cup {Tool}]
      /\ mem'[w] = app'[w]
      /\ \A v \in Words : v # w => app'[v] = app[v] /\ mem'[v] = mem[v]
  BY <1>1, <1>2, <1>4 DEF Variables
<1>6. Variables'
  BY <1>1, <1>2, <1>5 DEF Variables
<1>7. AppMemoryKept'
  <2> SUFFICES ASSUME NEW v \in Words \ WordsIn(Lent(areas))
               PROVE  v \in lost' \/ mem'[v] = app'[v]
    BY <1>1 DEF AppMemoryKept, WordsIn, WordsOf, Lent
  <2> QED BY <1>1, <1>2, <1>5 DEF AppMemoryKept
<1>8. Backups'
  <2> SUFFICES ASSUME backup, NEW a \in Lent(areas)
               PROVE  a.saved # None /\ \A v \in WordsOf(a) : v \in lost' \/ a.saved[v] = app'[v]
    BY <1>1 DEF Backups, Lent, WordsOf
  <2>1. \A v \in WordsOf(a) : v \in Words /\ v # w
    BY <1>1 DEF WordsIn, WordsOf
  <2> QED BY <2>1, <1>1, <1>2, <1>5 DEF Backups
<1>9. Sound' /\ (unmerged \/ Apart(areas))' /\ Pointers'
  BY <1>1, ListStays
<1> QED BY <1>6, <1>7, <1>8, <1>9 DEF Inv

-----------------------------------------------------------------------------
(* The theorems. *)

LEMMA Invariance == Spec => []Inv
<1>1. Inv /\ [Next]_vars => Inv'
  <2> SUFFICES ASSUME Inv, [Next]_vars PROVE Inv'
    OBVIOUS
  <2>1. CASE \E h \in Holders, n \in 1 .. Size : Alloc(h, n)
    BY <2>1, AllocKeeps
  <2>2. CASE \E h \in Holders : FreeArea(h)
    BY <2>2, FreeAreaKeeps
  <2>3. CASE \E h \in Holders : Use(h)
    BY <2>3, UseKeeps
  <2>4. CASE FreeAll
    BY <2>4, FreeAllKeeps
  <2>5. CASE FreeAllAtReset
    BY <2>5, ResetKeeps
  <2>6. CASE \E w \in Words : AppWrites(w)
    BY <2>6, AppWritesKeeps
  <2>7. CASE UNCHANGED vars
    BY <2>7, StutterKeeps
  <2> QED BY <2>1, <2>2, <2>3, <2>4, <2>5, <2>6, <2>7 DEF Next
<1> QED BY InvInit, <1>1, PTL DEF Spec

\* Every variable keeps its type, in whatever order areas are lent, returned and lost.
THEOREM TypeCorrect == Spec => []TypeOK
<1>1. Inv => TypeOK
  <2> SUFFICES ASSUME Inv PROVE TypeOK
    OBVIOUS
  <2>1. Variables /\ Sound
    BY DEF Inv
  <2>2. ASSUME NEW a \in areas
        PROVE  /\ [addr |-> a.addr, size |-> a.size, free |-> a.free, user |-> a.user] \in Areas
               /\ a.saved = None \/ a.saved \in [WordsOf(a) -> App \cup {Tool}]
    <3>1. a \in Records /\ (a.saved = None \/ a.saved \in [WordsOf(a) -> App \cup {Tool}])
      BY <2>1 DEF Sound, Tiling, Kept
    <3> QED BY <3>1 DEF Records, Areas
  <2> QED BY <2>1, <2>2 DEF Variables, TypeOK
<1> QED BY <1>1, Invariance, PTL

\* The areas tile the region, and two neighbours are free only after an allocation that
\* failed half-way: the splitting and merging of target.c, for any sizes.
THEOREM ListIsSound == Spec => []ListSound
<1>1. Inv => ListSound
  <2> SUFFICES ASSUME Inv PROVE ListSound
    OBVIOUS
  <2>1. Sound /\ (unmerged \/ Apart(areas))
    BY DEF Inv
  <2>2. Tiled
    BY <2>1, WordsTiled DEF Sound, Tiled
  <2>3. Coalesced
    BY <2>1 DEF Coalesced, Apart
  <2> QED BY <2>2, <2>3 DEF ListSound
<1> QED BY <1>1, Invariance, PTL

\* A variable that still exists points at the area lent to it, or nowhere.
THEOREM PointersRight == Spec => []PointersAgree
<1>1. Inv => PointersAgree
  <2> SUFFICES ASSUME Inv, NEW h \in Holders \ gone
               PROVE  IF ptr[h] = None THEN \A a \in areas : a.user # h
                      ELSE \E a \in areas : ~a.free /\ a.user = h /\ a.addr = ptr[h]
    BY DEF PointersAgree
  <2>1. Sound /\ Pointers
    BY DEF Inv
  <2>2. CASE ptr[h] = None
    <3>1. \A a \in areas : a.addr \in Nat
      BY <2>1, AreasOfInv
    <3> QED BY <2>1, <2>2, <3>1, NoneAssumption DEF Pointers
  <2>3. CASE ptr[h] # None
    BY <2>1, <2>3 DEF Pointers, Lent
  <2> QED BY <2>2, <2>3
<1> QED BY <1>1, Invariance, PTL

\* The application finds its memory as it was, whatever was lent, failed or freed at
\* once, unless the loss was reported or asked for.
THEOREM MemoryIsKept == Spec => []AppMemoryKept
<1>1. Inv => AppMemoryKept
  BY DEF Inv
<1> QED BY <1>1, Invariance, PTL

-----------------------------------------------------------------------------
(* What can be allocated: every area is a number of words. *)

Multiples == {k * Word : k \in Nat}
Aligned(A) == \A a \in A : a.addr \in Multiples /\ a.size \in Multiples

\* Sums and differences of numbers of words.
LEMMA MultiplesAdd ==
  ASSUME NEW x \in Multiples, NEW y \in Multiples
  PROVE  x \in Nat /\ x + y \in Multiples /\ (x <= y => y - x \in Multiples)
<1>1. Word \in Nat /\ Word > 0
  BY SizeAssumption
<1>2. PICK k \in Nat, j \in Nat : x = k * Word /\ y = j * Word
  BY DEF Multiples
<1>3. \A w, p, q \in Nat : p * w \in Nat /\ p * w + q * w = (p + q) * w
  OBVIOUS
<1>4. \A w, p, q \in Nat : w > 0 /\ p * w <= q * w => p <= q
  OBVIOUS
<1>5. x \in Nat /\ x + y = (k + j) * Word /\ k + j \in Nat
  BY <1>1, <1>2, <1>3
<1>6. ASSUME x <= y PROVE y - x \in Multiples
  <2>1. k <= j
    BY <1>1, <1>2, <1>4, <1>6
  <2>2. j - k \in Nat /\ (j - k) + k = j
    BY <2>1
  <2>3. (j - k) * Word \in Nat /\ (j - k) * Word + k * Word = j * Word
    <3> DEFINE d == j - k
    <3>1. d \in Nat /\ d + k = j
      BY <2>2
    <3> HIDE DEF d
    <3>2. d * Word \in Nat /\ d * Word + k * Word = j * Word
      BY <1>1, <1>3, <3>1
    <3> QED BY <3>2 DEF d
  <2>4. y - x = (j - k) * Word
    <3>1. \A d, p, q \in Nat : d + p = q => q - p = d
      OBVIOUS
    <3>2. x \in Nat /\ y \in Nat
      BY <1>1, <1>2, <1>3
    <3> QED BY <1>2, <2>3, <3>1, <3>2
  <2> QED BY <2>2, <2>4 DEF Multiples
<1> QED BY <1>5, <1>6 DEF Multiples

\* What is left of a number after the words in it.
LEMMA WholeWords ==
  ASSUME NEW n \in Nat
  PROVE  n % Word \in 0 .. Word - 1 /\ n - (n % Word) \in Multiples
<1>1. Word \in Nat /\ Word > 0
  BY SizeAssumption
<1>2. n % Word \in 0 .. Word - 1
  BY <1>1
<1>3. n \div Word \in Nat /\ n = Word * (n \div Word) + (n % Word)
  BY <1>1
<1>4. n - (n % Word) = (n \div Word) * Word
  <2>1. \A w, q, r \in Nat : (w * q + r) - r = q * w
    OBVIOUS
  <2>2. n % Word \in Nat
    BY <1>1, <1>2
  <2> QED BY <1>1, <1>3, <2>1, <2>2
<1> QED BY <1>2, <1>3, <1>4 DEF Multiples

LEMMA UsableWords == Usable \in Multiples /\ 0 \in Multiples /\ Word \in Multiples
<1>1. Word \in Nat /\ 0 * Word = 0 /\ 1 * Word = Word
  BY SizeAssumption
<1>2. Usable \in Multiples
  BY SizeAssumption, WholeWords DEF Usable
<1> QED BY <1>1, <1>2 DEF Multiples

\* Round takes a size to the least number of words that holds it.
LEMMA RoundWords ==
  ASSUME NEW n \in Nat \ {0}
  PROVE  /\ Round(n) \in Multiples
         /\ \A m \in Multiples : m >= n => m >= Round(n)
<1> DEFINE r == n % Word
           b == n - r
<1>1. Word \in Nat /\ Word > 0
  BY SizeAssumption
<1>2. r \in 0 .. Word - 1 /\ b \in Multiples
  BY WholeWords
<1>3. r \in Nat /\ r < Word /\ n = b + r
  BY <1>1, <1>2
<1>4. Round(n) = IF r = 0 THEN n ELSE n + (Word - r)
  BY DEF Round
<1> HIDE DEF r, b
<1>5. b \in Nat /\ b + Word \in Multiples
  BY <1>2, MultiplesAdd, UsableWords
<1>6. Round(n) = IF r = 0 THEN b ELSE b + Word
  BY <1>1, <1>3, <1>4, <1>5
<1>7. ASSUME NEW m \in Multiples, m >= n PROVE m >= Round(n)
  <2>1. m \in Nat /\ (b <= m => m - b \in Multiples)
    BY <1>2, MultiplesAdd
  <2>2. m >= b /\ m - b \in Nat /\ (r # 0 => m - b > 0)
    BY <1>3, <1>5, <1>7, <2>1
  <2>3. PICK k \in Nat : m - b = k * Word
    BY <2>1, <2>2, <1>5 DEF Multiples
  <2>4. ASSUME r # 0 PROVE m - b >= Word
    <3>1. k # 0
      BY <2>2, <2>3, <2>4, <1>1
    <3>2. \A w, p \in Nat : p > 0 => p * w >= w
      OBVIOUS
    <3> QED BY <3>1, <3>2, <2>3, <1>1
  <2> QED BY <2>1, <2>2, <2>4, <1>1, <1>5, <1>6
<1> QED BY <1>2, <1>5, <1>6, <1>7

\* Splitting and merging keep the areas numbers of words.
LEMMA SplitAligned ==
  ASSUME NEW A, A \subseteq Records, Aligned(A), NEW a \in A, NEW n \in Multiples, n > 0
  PROVE  /\ Aligned(Split(A, a, n))
         /\ Cut(a, n).addr \in Multiples /\ Cut(a, n).size \in Multiples
<1> DEFINE c == Cut(a, n)
           f == Free(a.addr + n, a.size - n)
<1>1. /\ a \in Records /\ a.addr \in Multiples /\ a.size \in Multiples /\ n \in Nat
      /\ a.size \in Nat
  BY AreaType, MultiplesAdd DEF Aligned
<1>2. \A x \in Records : [x EXCEPT !.size = n, !.saved = None].addr = x.addr
                         /\ [x EXCEPT !.size = n, !.saved = None].size = n
  BY DEF Records
<1>3. c.addr \in Multiples /\ c.size \in Multiples
  BY <1>1, <1>2 DEF Cut
<1>4. ASSUME n < a.size PROVE f.addr \in Multiples /\ f.size \in Multiples
  <2>1. n <= a.size
    BY <1>1, <1>4
  <2>2. a.addr + n \in Multiples /\ a.size - n \in Multiples
    BY <2>1, <1>1, MultiplesAdd
  <2> QED BY <2>2 DEF Free
<1>5. \A b \in Rest(a, n) : b = f /\ n < a.size
  BY DEF Rest, RestSize
<1>6. \A b \in Split(A, a, n) : b \in A \/ b = c \/ b \in Rest(a, n)
  BY DEF Split
<1> HIDE DEF c, f
<1>7. Aligned(Split(A, a, n))
  BY <1>3, <1>4, <1>5, <1>6 DEF Aligned
<1> QED BY <1>3, <1>7 DEF c

LEMMA MergeAligned ==
  ASSUME NEW A, Tiling(A), Kept(A), Aligned(A)
  PROVE  Aligned(Merge(A))
<1>1. ASSUME NEW a \in Starts(A)
      PROVE  Whole(A, a).addr \in Multiples /\ Whole(A, a).size \in Multiples
  <2> DEFINE e == RunEnd(A, a)
  <2>1. a \in A /\ a.free
    BY DEF Starts
  <2>2. a.addr \in Multiples /\ a.size \in Multiples
    BY <2>1 DEF Aligned
  <2>3. PICK c \in A : c.free /\ c.addr >= a.addr /\ e = End(c)
    BY <2>1, RunEnds DEF RunEndsAt
  <2>4. e \in Multiples
    BY <2>3, MultiplesAdd DEF Aligned, End
  <2>5. c \in Records /\ a \in Records
    BY <2>1 DEF Tiling
  <2>6. c.addr \in Nat /\ End(c) \in Nat /\ c.addr < End(c) /\ a.addr \in Nat
    BY <2>5, AreaType
  <2>7. a.addr <= e
    BY <2>3, <2>6
  <2>8. e - a.addr \in Multiples
    BY <2>2, <2>4, <2>7, MultiplesAdd
  <2> HIDE DEF e
  <2>9. Free(a.addr, e - a.addr).addr = a.addr /\ Free(a.addr, e - a.addr).size = e - a.addr
    BY DEF Free
  <2>10. Whole(A, a) = a \/ Whole(A, a) = Free(a.addr, e - a.addr)
    BY DEF Whole, e
  <2> QED BY <2>2, <2>8, <2>9, <2>10
<1>2. Merge(A) = Lent(A) \cup {Whole(A, a) : a \in Starts(A)}
  BY DEF Merge, Whole, Lent
<1> QED BY <1>1, <1>2 DEF Aligned, Lent

LEMMA PoolAligned ==
  ASSUME Aligned(areas)
  PROVE  Aligned(Pool)
<1>1. Free(0, Usable).addr = 0 /\ Free(0, Usable).size = Usable
  BY DEF Free
<1> QED BY <1>1, UsableWords DEF Pool, Aligned

LEMMA AlignedStep ==
  ASSUME Inv, Aligned(areas), [Next]_vars
  PROVE  Aligned(areas')
<1>1. ASSUME NEW h \in Holders, NEW n \in 1 .. Size, Alloc(h, n) PROVE Aligned(areas')
  <2> DEFINE r == Round(n)
             a == First(Fits(Pool, r))
             c == Cut(a, r)
             S == Split(Pool, a, r)
             s == IF backup THEN ReadBack(c) ELSE c.saved
             d == [c EXCEPT !.free = FALSE, !.user = h, !.saved = s]
  <2>1. \/ areas' = Pool
        \/ Fits(Pool, r) # {} /\ areas' = S
        \/ Fits(Pool, r) # {} /\ areas' = (S \ {c}) \cup {d}
    BY <1>1 DEF Alloc, Pool
  <2>2. Tiling(Pool) /\ Aligned(Pool)
    BY PoolSplit, PoolAligned
  <2>3. r \in Multiples /\ r > 0
    <3>1. n \in Nat \ {0}
      BY SizeAssumption
    <3>2. Round(n) \in Nat /\ Round(n) >= n /\ Round(n) \in Multiples
      BY <3>1, RoundType, RoundWords
    <3> QED BY <3>1, <3>2
  <2>4. ASSUME Fits(Pool, r) # {}
        PROVE  Aligned(S) /\ c \in Records /\ c.addr \in Multiples /\ c.size \in Multiples
    <3>1. a \in Pool
      BY <2>2, <2>4, FirstFits DEF Tiling, Fits
    <3>2. Pool \subseteq Records
      BY <2>2 DEF Tiling
    <3>3. Aligned(S) /\ c.addr \in Multiples /\ c.size \in Multiples
      <4> HIDE DEF r, a
      <4> QED BY <2>2, <2>3, <3>1, <3>2, SplitAligned
    <3>4. Tiling(S) /\ c \in S
      BY <2>4, PoolSplit
    <3> QED BY <3>3, <3>4 DEF Tiling
  <2>5. ASSUME c \in Records PROVE d.addr = c.addr /\ d.size = c.size
    <3>1. \A x \in Records : \A v :
            LET y == [x EXCEPT !.free = FALSE, !.user = h, !.saved = v] IN
            y.addr = x.addr /\ y.size = x.size
      BY DEF Records
    <3> HIDE DEF c, s
    <3> QED BY <2>5, <3>1
  <2> HIDE DEF c, d, S
  <2> QED BY <2>1, <2>2, <2>4, <2>5 DEF Aligned
<1>2. ASSUME NEW h \in Holders, FreeArea(h) PROVE Aligned(areas')
  <2>1. PICK a \in Lent(areas) :
          \/ areas' = Merge((areas \ {a}) \cup {Release(a)})
          \/ UNCHANGED areas
    BY <1>2 DEF FreeArea
  <2> DEFINE B == (areas \ {a}) \cup {Release(a)}
  <2>2. a \in areas /\ Tiling(areas) /\ Kept(areas)
    BY DEF Lent, Inv, Sound
  <2>3. LET q == Release(a) IN
        /\ q \in Records /\ q.addr = a.addr /\ q.size = a.size /\ End(q) = End(a)
        /\ q.free = TRUE /\ q.user = None /\ q.saved = a.saved /\ WordsOf(q) = WordsOf(a)
    BY <2>2, ReleaseType DEF Tiling
  <2>4. Tiling(B)
    BY <2>2, <2>3, ReplaceTiles
  <2>5. Kept(B)
    BY <2>2, <2>3 DEF Kept
  <2>6. Aligned(B)
    BY <2>2, <2>3 DEF Aligned
  <2>7. Aligned(Merge(B))
    <3> HIDE DEF B
    <3> QED BY <2>4, <2>5, <2>6, MergeAligned
  <2> QED BY <2>1, <2>7
<1>3. ASSUME FreeAllAtReset PROVE Aligned(areas')
  <2> DEFINE B == {IF a.free THEN a ELSE Release(a) : a \in areas}
  <2>1. areas' = Merge(B)
    BY <1>3 DEF FreeAllAtReset
  <2>2. CASE areas = {}
    <3>1. B = {}
      BY <2>2
    <3>2. areas' = {}
      BY <2>1, <3>1 DEF Merge, Starts
    <3> QED BY <3>2 DEF Aligned
  <2>3. CASE Tiling(areas) /\ Kept(areas)
    <3>1. Tiling(B) /\ Kept(B)
      BY <2>3, ReleaseAllTiles
    <3>2. \A a \in areas : Release(a).addr = a.addr /\ Release(a).size = a.size
      BY <2>3, ReleaseType DEF Tiling
    <3>3. Aligned(B)
      BY <3>2 DEF Aligned
    <3> HIDE DEF B
    <3> QED BY <2>1, <3>1, <3>3, MergeAligned
  <2> QED BY <2>2, <2>3 DEF Inv, Sound
<1>4. ASSUME FreeAll PROVE Aligned(areas')
  BY <1>4 DEF FreeAll, Aligned
<1>5. ASSUME NEW h \in Holders, Use(h) PROVE Aligned(areas')
  BY <1>5 DEF Use
<1>6. ASSUME NEW w \in Words, AppWrites(w) PROVE Aligned(areas')
  BY <1>6 DEF AppWrites
<1>7. ASSUME UNCHANGED vars PROVE Aligned(areas')
  BY <1>7 DEF vars
<1> QED BY <1>1, <1>2, <1>3, <1>4, <1>5, <1>6, <1>7 DEF Next

\* The greatest size among some areas.
LEMMA LargestOf ==
  ASSUME NEW A, A \subseteq Records, A # {}
  PROVE  \E a \in A : Largest(A) = a.size /\ \A b \in A : b.size <= a.size
<1> DEFINE S == {a.size : a \in A}
<1>1. Usable \in Nat /\ \A a \in A : a.size \in 0 .. Usable
  BY UsableType DEF Records
<1>2. S \in SUBSET (0 .. Usable) /\ S # {}
  BY <1>1
<1>3. PICK m \in S : \A k \in S : k <= m
  BY <1>1, <1>2, GreatestNat
<1>4. \E a \in A : \A b \in A : b.size <= a.size
  BY <1>3
<1> DEFINE g == CHOOSE a \in A : \A b \in A : b.size <= a.size
<1>5. g \in A /\ \A b \in A : b.size <= g.size
  BY <1>4
<1>6. Largest(A) = g.size
  BY DEF Largest
<1> QED BY <1>5, <1>6

\* A size fits when it rounds to no more than a free area has, and no area has the next.
LEMMA AvailOfInv ==
  ASSUME Inv, Aligned(areas), Size % Word = 0
  PROVE  AvailFits
<1> DEFINE CanAlloc(n) == Fits(Pool, Round(n)) # {}
<1>1. SUFFICES (Avail > 0 => CanAlloc(Avail)) /\ ~CanAlloc(Avail + 1)
  BY DEF AvailFits, Pool
<1>2. Usable = Size /\ Usable \in Nat /\ Usable > 0 /\ Usable \in Multiples
  BY SizeAssumption, UsableType, UsableWords DEF Usable
<1>3. \A b \in Pool : b \in Records /\ b.size \in Nat /\ b.size \in Multiples
  <2>1. 1 \in 1 .. Size
    BY SizeAssumption
  <2>2. Pool \subseteq Records
    BY <2>1, PoolSplit DEF Tiling
  <2>3. \A b \in Pool : b.size \in Multiples
    BY PoolAligned DEF Aligned
  <2> QED BY <2>2, <2>3, AreaType
<1>4. \E top \in Nat :
        /\ Avail = top /\ \A b \in Pool : b.free => b.size <= top
        /\ top > 0 => \E b \in Pool : b.free /\ b.size = top
  <2>1. CASE areas = {}
    <3>1. Pool = {Free(0, Usable)} /\ Avail = Usable
      BY <2>1, <1>2 DEF Pool, Avail
    <3>2. Free(0, Usable).free = TRUE /\ Free(0, Usable).size = Usable
      BY DEF Free
    <3> QED BY <3>1, <3>2, <1>2
  <2>2. CASE areas # {}
    <3> DEFINE F == {a \in areas : a.free}
    <3>1. Pool = areas /\ Avail = IF F = {} THEN 0 ELSE Largest(F)
      BY <2>2 DEF Pool, Avail
    <3>2. CASE F = {}
      BY <3>1, <3>2
    <3>3. CASE F # {}
      <4>1. F \subseteq Records
        BY <3>1, <1>3
      <4>2. PICK a \in F : Largest(F) = a.size /\ \A b \in F : b.size <= a.size
        <5> HIDE DEF F
        <5> QED BY <3>3, <4>1, LargestOf
      <4>3. a.size \in Nat /\ a \in Pool /\ a.free
        BY <3>1, <1>3
      <4> QED BY <3>1, <3>3, <4>2, <4>3
    <3> QED BY <3>2, <3>3
  <2> QED BY <2>1, <2>2
<1>5. PICK top \in Nat :
        /\ Avail = top /\ \A b \in Pool : b.free => b.size <= top
        /\ top > 0 => \E b \in Pool : b.free /\ b.size = top
  BY <1>4
<1>6. ASSUME top > 0 PROVE CanAlloc(top)
  <2>1. PICK b \in Pool : b.free /\ b.size = top
    BY <1>5, <1>6
  <2>2. top \in Multiples /\ top >= top /\ top \in Nat \ {0}
    BY <1>3, <1>6, <2>1
  <2>3. top >= Round(top)
    BY <2>2, RoundWords
  <2>4. b \in Fits(Pool, Round(top))
    BY <2>1, <2>3 DEF Fits
  <2> QED BY <2>4
<1>7. ~CanAlloc(top + 1)
  <2>1. top + 1 \in Nat \ {0}
    OBVIOUS
  <2>2. Round(top + 1) \in Nat /\ Round(top + 1) >= top + 1
    BY <2>1, RoundType
  <2>3. ASSUME NEW b \in Pool, b.free, b.size >= Round(top + 1) PROVE FALSE
    <3>1. b.size <= top /\ b.size \in Nat
      BY <1>3, <1>5, <2>3
    <3> QED BY <2>2, <2>3, <3>1
  <2> QED BY <2>3 DEF Fits
<1> QED BY <1>5, <1>6, <1>7

\* In a region of whole words, target_get_working_area_avail tells the largest size that
\* can be allocated, whatever was split, failed and merged before.
THEOREM AvailIsRight == Size % Word = 0 => (Spec => []AvailFits)
<1>1. Init => Aligned(areas)
  BY DEF Init, Aligned
<1>2. Inv /\ Aligned(areas) /\ [Next]_vars => Aligned(areas)'
  BY AlignedStep
<1>3. Spec => []Aligned(areas)
  BY <1>1, <1>2, Invariance, PTL DEF Spec
<1>4. Size % Word = 0 => (Inv /\ Aligned(areas) => AvailFits)
  BY AvailOfInv
<1>5. CASE Size % Word = 0
  <2>1. Inv /\ Aligned(areas) => AvailFits
    BY <1>4, <1>5
  <2> QED BY <1>3, <2>1, Invariance, PTL
<1>6. CASE Size % Word # 0
  BY <1>6
<1> QED BY <1>5, <1>6
=============================================================================
