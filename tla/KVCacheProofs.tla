--------------------------- MODULE KVCacheProofs ---------------------------
(***************************************************************************)
(* Theorems about KVCache: for every set of sequences, every n_ubatch, all *)
(* contexts and all calls.                                                 *)
(*                                                                         *)
(* The steps of the model compute with functions that are defined from one *)
(* place to the next (copies of streams, splits, trials and their undoing).*)
(* What such a function does at one place is a lemma about the operator it *)
(* iterates; Throughout and Recursion carry it to all places.  The parts:  *)
(* numbers and iterations; cells; slots and micro-batches; prepare, that   *)
(* is, trials in their order and undone in the reverse one; the splits of  *)
(* a batch; the state and each operation on sequences; decode, compute and *)
(* failure; the theorems, and those for contexts without a window.         *)
(***************************************************************************)
EXTENDS KVCache, FiniteSetTheorems, SequenceTheorems, WellFoundedInduction, TLAPS
-----------------------------------------------------------------------------
(* Numbers. *)

(* The least of a set of numbers. *)
LEMMA Least ==
    ASSUME NEW T \in SUBSET Nat, T # {}
    PROVE  LET x == CHOOSE x \in T : \A y \in T : x <= y
           IN  x \in T /\ \A y \in T : x <= y
<1> DEFINE UpTo(x) == {y \in T : y <= x}
           all == {UpTo(x) : x \in T}
<1>1. \A x \in T : UpTo(x) \in FiniteSubsetsOf(T)
  <2> TAKE x \in T
  <2>1. UpTo(x) \in SUBSET Nat /\ \A y \in UpTo(x) : y <= x
    OBVIOUS
  <2>2. IsFiniteSet(UpTo(x))
    <3> HIDE DEF UpTo
    <3> QED
      BY <2>1, FS_BoundedSetOfNaturals
  <2> QED
    BY <2>2 DEF FiniteSubsetsOf
<1>2. all \subseteq FiniteSubsetsOf(T) /\ all # {}
  BY <1>1
<1>3. PICK least \in all : \A other \in all : ~(<<other, least>> \in StrictSubsetOrdering(T))
  <2> HIDE DEF all
  <2> QED
    BY <1>2, FS_StrictSubsetOrderingWellFounded, WFMin
<1>4. PICK x \in T : least = UpTo(x)
  BY <1>3
<1>5. \A y \in T : x <= y
  <2> SUFFICES ASSUME NEW y \in T, y < x PROVE FALSE
    OBVIOUS
  <2>1. UpTo(y) \subseteq UpTo(x) /\ x \in UpTo(x) /\ x \notin UpTo(y)
    <3>1. \A z \in T : z \in Nat
      OBVIOUS
    <3>2. x \in Nat /\ y \in Nat /\ y < x
      BY <3>1
    <3>3. \A z \in T : z <= y => z <= x
      BY <3>1, <3>2
    <3>4. x <= x /\ ~(x <= y)
      BY <3>2
    <3> QED
      BY <3>3, <3>4, Zenon
  <2>2. UpTo(y) \in all /\ UpTo(y) \in SUBSET T /\ UpTo(x) \in SUBSET T
    OBVIOUS
  <2> HIDE DEF UpTo, all
  <2>3. <<UpTo(y), UpTo(x)>> \in StrictSubsetOrdering(T)
    BY <2>1, <2>2 DEF StrictSubsetOrdering
  <2> QED
    BY <2>2, <2>3, <1>3, <1>4
<1> QED
  BY <1>5

(* A property of 0 that each number passes on to the next holds up to n.   *)
LEMMA Upto ==
    ASSUME NEW n \in Nat, NEW S, 0 \in S, \A k \in 1 .. n : k - 1 \in S => k \in S
    PROVE  0 .. n \subseteq S
<1> DEFINE bad == {k \in Nat : k <= n /\ k \notin S}
<1> SUFFICES ASSUME bad # {} PROVE FALSE
  OBVIOUS
<1> DEFINE x == CHOOSE x \in bad : \A y \in bad : x <= y
<1>1. x \in bad /\ \A y \in bad : x <= y
  <2>1. bad \in SUBSET Nat
    OBVIOUS
  <2> HIDE DEF bad
  <2> QED
    BY <2>1, Least
<1> HIDE DEF x
<1>2. x \in 1 .. n /\ x \notin S
  BY <1>1
<1>3. x - 1 \notin bad
  BY <1>1, <1>2
<1> QED
  BY <1>2, <1>3

LEMMA MinIs ==
    ASSUME NEW T \in SUBSET Nat, T # {}
    PROVE  Min(T) \in T /\ \A y \in T : Min(T) <= y
BY Least DEF Min

LEMMA MaxIs ==
    ASSUME NEW n \in Nat, NEW T \in SUBSET (0 .. n), T # {}
    PROVE  Max(T) \in T /\ \A y \in T : y <= Max(T)
<1> DEFINE bounds == {m \in Nat : \A y \in T : y <= m}
           x == CHOOSE x \in bounds : \A y \in bounds : x <= y
<1>1. x \in bounds /\ \A y \in bounds : x <= y
  <2>1. bounds \in SUBSET Nat /\ n \in bounds
    OBVIOUS
  <2> HIDE DEF bounds
  <2> QED
    BY <2>1, Least
<1> HIDE DEF x
<1>2. x \in T
  <2> SUFFICES ASSUME x \notin T PROVE FALSE
    OBVIOUS
  <2>1. x \in Nat /\ \A y \in T : y \in Nat /\ y <= x /\ y # x
    BY <1>1
  <2>2. PICK y \in T : TRUE
    OBVIOUS
  <2>3. x > 0
    BY <2>1, <2>2
  <2>4. x - 1 \in bounds
    BY <2>1, <2>3
  <2> QED
    BY <1>1, <2>1, <2>4
<1>3. x \in T /\ \A y \in T : x >= y
  BY <1>1, <1>2
<1>4. Max(T) \in T /\ \A y \in T : Max(T) >= y
  BY <1>3, Zenon DEF Max
<1> QED
  BY <1>4

(* InOrder lists the numbers of a finite set, ascending, each once. *)
LEMMA InOrderIs ==
    ASSUME NEW S \in SUBSET Nat, IsFiniteSet(S)
    PROVE  /\ Cardinality(S) \in Nat
           /\ InOrder(S) \in Seq(S) /\ Len(InOrder(S)) = Cardinality(S)
           /\ DOMAIN InOrder(S) = 1 .. Cardinality(S)
           /\ \A k \in 1 .. Cardinality(S) : InOrder(S)[k] \in S
           /\ \A k, l \in 1 .. Cardinality(S) : k < l => InOrder(S)[k] < InOrder(S)[l]
           /\ \A i \in S : \E k \in 1 .. Cardinality(S) : InOrder(S)[k] = i
<1> DEFINE n == Cardinality(S)
           f == InOrder(S)
           below == [i \in S |-> {j \in S : j < i}]
           rank == [i \in S |-> Cardinality(below[i]) + 1]
<1>0. \A i \in S : i \in Nat /\ ~(i < i)
  OBVIOUS
<1>1. n \in Nat
  BY FS_CardinalityType
<1>2. \A i \in S : IsFiniteSet(below[i]) /\ Cardinality(below[i]) \in Nat
  BY FS_Subset, FS_CardinalityType
<1>3. \A i \in S : rank[i] \in Nat /\ rank[i] >= 1 /\ Cardinality(below[i]) = rank[i] - 1
  <2> HIDE DEF below
  <2> QED
    BY <1>2
<1>4. ASSUME NEW i \in S, NEW T \in SUBSET S, below[i] \union {i} \subseteq T
      PROVE  rank[i] <= Cardinality(T)
  <2>1. i \notin below[i]
    BY <1>0
  <2>2. /\ IsFiniteSet(below[i] \union {i})
        /\ Cardinality(below[i] \union {i}) = Cardinality(below[i]) + 1
    BY <1>2, <2>1, FS_AddElement
  <2>3. IsFiniteSet(T)
    BY <1>4, FS_Subset
  <2>4. Cardinality(below[i] \union {i}) <= Cardinality(T)
    BY <2>3, <1>4, FS_Subset
  <2> QED
    BY <2>2, <2>4
<1>5. \A i \in S : rank[i] <= n
  <2> TAKE i \in S
  <2>1. below[i] \union {i} \subseteq S
    OBVIOUS
  <2> QED
    BY <2>1, <1>4
<1>6. \A i, j \in S : i < j => rank[i] < rank[j]
  <2> SUFFICES ASSUME NEW i \in S, NEW j \in S, i < j PROVE rank[i] < rank[j]
    OBVIOUS
  <2>1. below[i] \union {i} \subseteq below[j] /\ below[j] \in SUBSET S
    <3>1. below[i] = {x \in S : x < i} /\ below[j] = {x \in S : x < j}
      OBVIOUS
    <3>2. \A x \in S : x < i => x < j
      BY <1>0
    <3> HIDE DEF below
    <3> QED
      BY <3>1, <3>2
  <2>2. rank[i] <= Cardinality(below[j])
    BY <2>1, <1>4
  <2> HIDE DEF below, rank
  <2> QED
    BY <2>2, <1>3
<1>7. f = [k \in 1 .. n |-> CHOOSE i \in S : Cardinality({j \in S : j < i}) = k - 1]
  BY DEF InOrder
<1>8. \A i \in S : Cardinality({j \in S : j < i}) = rank[i] - 1
  BY <1>3
<1> HIDE DEF below, f
<1>9. rank \in [S -> 1 .. n]
  <2>1. rank = [i \in S |-> rank[i]]
    OBVIOUS
  <2> HIDE DEF rank
  <2> QED
    BY <2>1, <1>3, <1>5, <1>1
<1> HIDE DEF rank
<1>10. rank \in Injection(S, 1 .. n)
  <2>1. \A i, j \in S : rank[i] = rank[j] => i = j
    <3> SUFFICES ASSUME NEW i \in S, NEW j \in S, i # j PROVE rank[i] # rank[j]
      OBVIOUS
    <3>1. i < j \/ j < i
      OBVIOUS
    <3> QED
      BY <3>1, <1>6, <1>3
  <2> QED
    BY <2>1, <1>9 DEF Injection, IsInjective
<1>11. rank \in Surjection(S, 1 .. n)
  <2>1. IsFiniteSet(1 .. n) /\ Cardinality(1 .. n) = n
    BY <1>1, FS_Interval
  <2> QED
    BY <1>10, <2>1, FS_Injection
<1>12. \A k \in 1 .. n : f[k] \in S /\ rank[f[k]] = k
  <2> TAKE k \in 1 .. n
  <2>1. PICK i \in S : rank[i] = k
    BY <1>11 DEF Surjection
  <2>2. Cardinality({j \in S : j < i}) = k - 1
    BY <2>1, <1>8
  <2>3. f[k] \in S /\ Cardinality({j \in S : j < f[k]}) = k - 1
    BY <2>2, <1>7
  <2>4. rank[f[k]] - 1 = k - 1 /\ rank[f[k]] \in Nat
    BY <2>3, <1>8, <1>3
  <2> QED
    BY <2>3, <2>4
<1>13. \A i \in S : rank[i] \in 1 .. n /\ f[rank[i]] = i
  <2> TAKE i \in S
  <2>1. rank[i] \in 1 .. n
    BY <1>9
  <2>2. f[rank[i]] \in S /\ rank[f[rank[i]]] = rank[i]
    BY <2>1, <1>12
  <2> QED
    BY <2>1, <2>2, <1>10 DEF Injection, IsInjective
<1>14. f \in Seq(S) /\ Len(f) = n /\ DOMAIN f = 1 .. n
  <2>1. \A k \in 1 .. n : (CHOOSE i \in S : Cardinality({j \in S : j < i}) = k - 1) \in S
    BY <1>7, <1>12
  <2>2. f \in [1 .. n -> S]
    BY <1>7, <2>1
  <2>3. f \in Seq(S) /\ DOMAIN f = 1 .. n
    BY <2>2, <1>1
  <2>4. Len(f) \in Nat /\ DOMAIN f = 1 .. Len(f)
    BY <2>3, LenProperties
  <2> QED
    BY <2>3, <2>4, <1>1
<1>15. \A k, l \in 1 .. n : k < l => f[k] < f[l]
  <2> SUFFICES ASSUME NEW k \in 1 .. n, NEW l \in 1 .. n, k < l PROVE f[k] < f[l]
    OBVIOUS
  <2>1. f[k] \in S /\ f[l] \in S /\ rank[f[k]] = k /\ rank[f[l]] = l
    BY <1>12
  <2>2. f[k] \in Nat /\ f[l] \in Nat
    BY <2>1, <1>0
  <2>3. k \in Nat /\ l \in Nat /\ k # l /\ ~(l < k)
    BY <1>1
  <2>4. f[k] # f[l]
    BY <2>1, <2>3
  <2>5. ~(f[l] < f[k])
    BY <2>1, <2>3, <1>6
  <2> QED
    BY <2>2, <2>4, <2>5
<1>16. \A i \in S : \E k \in 1 .. n : f[k] = i
  BY <1>13
<1> QED
  BY <1>1, <1>12, <1>14, <1>15, <1>16 DEF f

-----------------------------------------------------------------------------
(* Recursive functions: they exist, and what holds of the start and is     *)
(* kept by every step holds of them all along.                             *)

LEMMA Throughout ==
    ASSUME NEW n \in Nat, NEW T, NEW f, f[0] \in T, \A k \in 1 .. n : f[k - 1] \in T => f[k] \in T
    PROVE  \A k \in 0 .. n : f[k] \in T
<1> DEFINE S == {k \in 0 .. n : f[k] \in T}
<1>1. 0 \in S /\ \A k \in 1 .. n : k - 1 \in S => k \in S
  OBVIOUS
<1>2. 0 .. n \subseteq S
  <2> HIDE DEF S
  <2> QED
    BY <1>1, Upto
<1> QED
  BY <1>2

Iterates(f, n, T, a, F) ==
    f \in [0 .. n -> T] /\ f[0] = a /\ \A k \in 1 .. n : f[k] = F[k][f[k - 1]]

LEMMA Recursion ==
    ASSUME NEW n \in Nat, NEW T, NEW a \in T, NEW F, \A k \in 1 .. n, t \in T : F[k][t] \in T
    PROVE  \E f : Iterates(f, n, T, a, F)
<1> DEFINE Sol(m, f) == f = [k \in 0 .. m |-> IF k = 0 THEN a ELSE F[k][f[k - 1]]]
           S == {m \in 0 .. n : \E f : Sol(m, f)}
<1>1. 0 \in S
  <2> DEFINE f == [k \in 0 .. 0 |-> a]
  <2>1. f = [k \in 0 .. 0 |-> IF k = 0 THEN a ELSE F[k][f[k - 1]]]
    OBVIOUS
  <2>2. Sol(0, f)
    BY <2>1
  <2> HIDE DEF Sol
  <2> QED
    BY <2>2
<1>2. ASSUME NEW m \in 1 .. n, m - 1 \in S PROVE m \in S
  <2>1. PICK f : Sol(m - 1, f)
    BY <1>2
  <2> DEFINE g == [k \in 0 .. m |-> IF k = m THEN F[m][f[m - 1]] ELSE f[k]]
  <2>2. m \in Nat /\ m - 1 \in 0 .. m - 1 /\ m \in 0 .. m /\ m # 0
    OBVIOUS
  <2>3. \A k \in 0 .. m - 1 : f[k] = IF k = 0 THEN a ELSE F[k][f[k - 1]]
    BY <2>1
  <2>4. \A k \in 0 .. m - 1 : k # m /\ k \in 0 .. m
    BY <2>2
  <2>5. \A k \in 0 .. m - 1 : g[k] = f[k]
    BY <2>4
  <2>6. g[m] = F[m][f[m - 1]]
    BY <2>2
  <2>7. \A k \in 0 .. m - 1 : k # 0 => k - 1 \in 0 .. m - 1
    BY <2>2
  <2>8. DOMAIN g = 0 .. m /\ g = [k \in 0 .. m |-> g[k]]
    OBVIOUS
  <2>9. \A k \in 0 .. m : k = m \/ k \in 0 .. m - 1
    BY <2>2
  <2> HIDE DEF g
  <2>10. \A k \in 0 .. m : g[k] = IF k = 0 THEN a ELSE F[k][g[k - 1]]
    BY <2>2, <2>3, <2>5, <2>6, <2>7, <2>9
  <2>11. Sol(m, g)
    BY <2>8, <2>10
  <2> HIDE DEF Sol
  <2> QED
    BY <2>11, <2>2
<1>3. 0 .. n \subseteq S
  <2> HIDE DEF S
  <2> QED
    BY <1>1, <1>2, Upto
<1>4. PICK f : Sol(n, f)
  BY <1>3
<1>5. f[0] = a /\ \A k \in 1 .. n : f[k] = F[k][f[k - 1]]
  BY <1>4
<1>6. \A k \in 0 .. n : f[k] \in T
  <2>1. \A k \in 1 .. n : f[k - 1] \in T => f[k] \in T
    BY <1>5
  <2> HIDE DEF Sol
  <2> QED
    BY <1>5, <2>1, Throughout
<1>7. f \in [0 .. n -> T]
  BY <1>4, <1>6
<1>8. Iterates(f, n, T, a, F)
  BY <1>5, <1>7 DEF Iterates
<1> QED
  BY <1>8

(* The copies of streams, one after the other. *)
OneCopy(t, c) == [t EXCEPT ![c[2]] = t[c[1]]]
CopiesStep(f, buf, cp) == f[0] = buf /\ \A k \in 1 .. Len(cp) : f[k] = OneCopy(f[k - 1], cp[k])

LEMMA CopyStepsAre ==
    ASSUME NEW B, NEW buf \in [Seqs -> B], NEW cp \in Seq(Seqs \X Seqs)
    PROVE  /\ CopiesStep(CopySteps(buf, cp), buf, cp)
           /\ \A k \in 0 .. Len(cp) : CopySteps(buf, cp)[k] \in [Seqs -> B]
<1> DEFINE n == Len(cp)
           T == [Seqs -> B]
           Step(k, t) == [t EXCEPT ![cp[k][2]] = t[cp[k][1]]]
           F == [k \in 1 .. n |-> [t \in T |-> Step(k, t)]]
           f == CopySteps(buf, cp)
<1>0. n \in Nat
  OBVIOUS
<1>1. \A k \in 1 .. n, t \in T : Step(k, t) \in T
  <2> TAKE k \in 1 .. n, t \in T
  <2>1. cp[k][1] \in Seqs /\ cp[k][2] \in Seqs
    OBVIOUS
  <2> QED
    BY <2>1
<1> HIDE DEF Step, T, n
<1>2. (\A k \in 1 .. n, t \in T : F[k][t] \in T) /\ buf \in T
  BY <1>1 DEF T, n
<1>3. PICK g : Iterates(g, n, T, buf, F)
  <2> HIDE DEF F
  <2> QED
    BY <1>0, <1>2, Recursion
<1>5. g = [k \in 0 .. n |-> IF k = 0 THEN buf ELSE Step(k, g[k - 1])]
  <2>1. \A k \in 0 .. n : k # 0 => k \in 1 .. n /\ k - 1 \in 0 .. n
    BY <1>0
  <2>2. \A k \in 0 .. n : g[k] \in T
    BY <1>3 DEF Iterates
  <2>3. \A k \in 0 .. n : k # 0 => F[k][g[k - 1]] = Step(k, g[k - 1])
    BY <2>1, <2>2
  <2> HIDE DEF F
  <2> QED
    BY <1>3, <2>1, <2>3 DEF Iterates
<1>6. f = [k \in 0 .. n |-> IF k = 0 THEN buf ELSE Step(k, f[k - 1])]
  BY <1>5 DEF CopySteps, Step, n
<1> HIDE DEF f
<1>7. f[0] = buf /\ \A k \in 1 .. n : f[k] = Step(k, f[k - 1])
  BY <1>0, <1>6
<1>8. \A k \in 0 .. n : f[k] \in T
  <2>1. \A k \in 1 .. n : f[k - 1] \in T => f[k] \in T
    BY <1>1, <1>7
  <2> QED
    BY <1>0, <1>2, <1>7, <2>1, Throughout
<1> QED
  BY <1>7, <1>8 DEF f, Step, T, n, CopiesStep, OneCopy

LEMMA CopiedNothing ==
    ASSUME NEW B, NEW buf \in [Seqs -> B]
    PROVE  CopySteps(buf, <<>>)[Len(<<>>)] = buf
<1>1. <<>> \in Seq(Seqs \X Seqs) /\ Len(<<>>) = 0
  OBVIOUS
<1>2. CopiesStep(CopySteps(buf, <<>>), buf, <<>>)
  BY <1>1, CopyStepsAre
<1> QED
  BY <1>1, <1>2 DEF CopiesStep

(* One copy more. *)
CopiesOneMore(buf, cp, e) ==
    CopySteps(buf, Append(cp, e))[Len(Append(cp, e))] = OneCopy(CopySteps(buf, cp)[Len(cp)], e)

LEMMA CopiedOneMore ==
    ASSUME NEW B, NEW buf \in [Seqs -> B], NEW cp \in Seq(Seqs \X Seqs), NEW e \in Seqs \X Seqs
    PROVE  CopiesOneMore(buf, cp, e)
<1> DEFINE n == Len(cp)
           more == Append(cp, e)
           f == CopySteps(buf, cp)
           g == CopySteps(buf, more)
<1>1. n \in Nat /\ more \in Seq(Seqs \X Seqs) /\ Len(more) = n + 1 /\ more[n + 1] = e
      /\ \A k \in 1 .. n : more[k] = cp[k]
  OBVIOUS
<1> HIDE DEF more, f, g, n
<1>2. /\ f[0] = buf /\ \A k \in 0 .. n : f[k] \in [Seqs -> B]
      /\ \A k \in 1 .. n : f[k] = OneCopy(f[k - 1], cp[k])
  <2>1. CopiesStep(f, buf, cp) /\ \A k \in 0 .. n : f[k] \in [Seqs -> B]
    BY CopyStepsAre DEF f, n
  <2> QED
    BY <2>1 DEF CopiesStep, n
<1>3. /\ g[0] = buf
      /\ \A k \in 1 .. n + 1 : g[k] = OneCopy(g[k - 1], more[k])
  <2>1. CopiesStep(g, buf, more)
    BY <1>1, CopyStepsAre DEF g
  <2> QED
    BY <2>1, <1>1 DEF CopiesStep
<1>4. \A k \in 0 .. n : g[k] = f[k]
  <2> DEFINE S == {k \in 0 .. n : g[k] = f[k]}
  <2>1. 0 \in S
    BY <1>1, <1>2, <1>3
  <2>2. \A k \in 1 .. n : k - 1 \in S => k \in S
    <3> SUFFICES ASSUME NEW k \in 1 .. n, g[k - 1] = f[k - 1] PROVE g[k] = f[k]
      BY <1>1
    <3>1. k \in 1 .. n + 1 /\ more[k] = cp[k]
      BY <1>1
    <3> QED
      BY <3>1, <1>2, <1>3
  <2>3. 0 .. n \subseteq S
    <3> HIDE DEF S
    <3> QED
      BY <2>1, <2>2, <1>1, Upto
  <2> QED
    BY <2>3
<1>5. g[n + 1] = OneCopy(f[n], e) /\ f[n] \in [Seqs -> B]
  <2>1. n + 1 \in 1 .. n + 1 /\ n \in 0 .. n /\ (n + 1) - 1 = n
    BY <1>1
  <2> QED
    BY <2>1, <1>1, <1>2, <1>3, <1>4
<1> QED
  BY <1>1, <1>5 DEF f, g, more, n, CopiesOneMore
-----------------------------------------------------------------------------
(* Cells. *)

LEMMA Numbers == Seqs \in SUBSET Nat /\ IsFiniteSet(Seqs) /\ 0 \in Seqs /\ Cardinality(Seqs) \in Nat
BY KVAssumption, FS_CardinalityType

LEMMA CellFacts ==
    ASSUME NEW c \in Cell
    PROVE  /\ c.seqs \in SUBSET Seqs /\ c.shift \in Int
           /\ c.seqs = {} <=> c = NoCell
           /\ c # NoCell => c.pos \in Pos /\ c.value \in Seqs
<1>1. CASE c = NoCell
  BY <1>1 DEF NoCell
<1>2. CASE c # NoCell
  <2>1. c \in [pos : Pos, shift : Int, seqs : (SUBSET Seqs) \ {{}}, value : Seqs]
    BY <1>2 DEF Cell, Pos
  <2>2. c.pos \in Pos /\ c.shift \in Int /\ c.seqs \in (SUBSET Seqs) \ {{}} /\ c.value \in Seqs
    BY <2>1
  <2> QED
    BY <2>2, <1>2
<1> QED
  BY <1>1, <1>2

LEMMA NoCellTyped == NoCell \in Cell /\ NoCell.seqs = {} /\ NoCell.shift = 0 /\ NoCell.pos = -1
BY DEF Cell, NoCell

(* A cell that is what the other one is, or what some of its sequences     *)
(* left of it.                                                             *)
Below(a, b) ==
    \/ a = NoCell
    \/ /\ b # NoCell /\ a # NoCell /\ a.seqs \subseteq b.seqs
       /\ a.pos = b.pos /\ a.shift = b.shift /\ a.value = b.value

LEMMA BelowItself == \A c : Below(c, c)
BY DEF Below

LEMMA BelowBelow ==
    ASSUME NEW a, NEW b, NEW c, Below(a, b), Below(b, c)
    PROVE  Below(a, c)
BY DEF Below

LEMMA WithoutFacts ==
    ASSUME NEW c \in Cell, NEW gone
    PROVE  /\ Without(c, gone) \in Cell
           /\ Below(Without(c, gone), c)
           /\ Without(c, gone).seqs = c.seqs \ gone
           /\ Without(c, gone) # NoCell => Without(c, gone) = [c EXCEPT !.seqs = @ \ gone]
<1>1. CASE c.seqs \subseteq gone
  <2>1. Without(c, gone) = NoCell
    BY <1>1 DEF Without
  <2>2. c.seqs \ gone = {}
    BY <1>1
  <2> QED
    BY <2>1, <2>2, NoCellTyped DEF Below
<1>2. CASE ~(c.seqs \subseteq gone)
  <2> DEFINE d == [c EXCEPT !.seqs = @ \ gone]
  <2>1. Without(c, gone) = d
    BY <1>2 DEF Without
  <2>2. c # NoCell
    BY <1>2, NoCellTyped
  <2>3. c \in [pos : Pos, shift : Int, seqs : (SUBSET Seqs) \ {{}}, value : Seqs]
    BY <2>2 DEF Cell, Pos
  <2>4. /\ d.seqs = c.seqs \ gone /\ d.pos = c.pos /\ d.shift = c.shift /\ d.value = c.value
        /\ d \in [pos : Pos, shift : Int, seqs : (SUBSET Seqs) \ {{}}, value : Seqs]
    BY <2>3, <1>2
  <2>5. d \in Cell /\ d # NoCell
    BY <2>4, NoCellTyped DEF Cell, Pos
  <2> HIDE DEF d
  <2>6. Below(d, c)
    BY <2>2, <2>4, <2>5 DEF Below
  <2> QED
    BY <2>1, <2>4, <2>5, <2>6 DEF d
<1> QED
  BY <1>1, <1>2

LEMMA WithoutNone ==
    ASSUME NEW c \in Cell
    PROVE  Without(c, {}) = c
<1>1. CASE c = NoCell
  BY <1>1, NoCellTyped DEF Without
<1>2. CASE c # NoCell
  <2>1. c \in [pos : Pos, shift : Int, seqs : (SUBSET Seqs) \ {{}}, value : Seqs]
    BY <1>2 DEF Cell, Pos
  <2>2. c = [c EXCEPT !.seqs = @ \ {}]
    BY <2>1
  <2>3. ~(c.seqs \subseteq {})
    BY <1>2, CellFacts
  <2> QED
    BY <2>2, <2>3 DEF Without
<1> QED
  BY <1>1, <1>2

(* The cells of a stream, and those of all. *)
StreamCells(st) == {cs \in [Cells -> Cell] : \A i \in Cells : \A s \in cs[i].seqs : StreamOf(s) = st}
AllCells == {all \in [Seqs -> [Cells -> Cell]] : \A st \in Seqs : all[st] \in StreamCells(st)}

LEMMA ContextFacts ==
    ASSUME ctx \in Contexts
    PROVE  /\ ctx.size \in Nat \ {0} /\ ctx.window \in Nat /\ ctx.last \in Nat
           /\ ctx.unified \in BOOLEAN /\ ctx.lengths \subseteq Nat \ {0}
           /\ Cells \in SUBSET Nat /\ IsFiniteSet(Cells) /\ Cells = 0 .. ctx.size - 1
<1>1. ctx \in Context
  BY KVAssumption
<1>2. /\ ctx.size \in Nat \ {0} /\ ctx.window \in Nat /\ ctx.last \in Nat
      /\ ctx.unified \in BOOLEAN /\ ctx.lengths \subseteq Nat \ {0}
  BY <1>1 DEF Context
<1>3. IsFiniteSet(0 .. ctx.size - 1)
  <2>1. 0 \in Int /\ ctx.size - 1 \in Int
    BY <1>2
  <2> QED
    BY <2>1, FS_Interval
<1> QED
  BY <1>2, <1>3 DEF Cells

LEMMA StreamFacts ==
    ASSUME ctx \in Contexts
    PROVE  \A s \in Seqs : StreamOf(s) \in Streams /\ StreamOf(s) \in Seqs
BY Numbers DEF StreamOf, Streams

LEMMA StreamsAre == Streams \subseteq Seqs
BY Numbers DEF StreamOf, Streams

-----------------------------------------------------------------------------
(* Cells for a group. *)

(* Going round. *)
LEMMA Wrap ==
    ASSUME NEW n \in Nat \ {0}, NEW a \in 0 .. 2 * n - 1
    PROVE  a % n = IF a < n THEN a ELSE a - n
<1>1. CASE a < n
  <2>1. a = n * 0 + a
    OBVIOUS
  <2> QED
    BY <1>1, <2>1
<1>2. CASE a >= n
  <2> DEFINE m == a - n
  <2>1. m \in 0 .. n - 1 /\ a = n * 1 + m
    BY <1>2
  <2>2. (n * 1 + m) % n = m
    BY <2>1
  <2> QED
    BY <1>2, <2>1, <2>2
<1> QED
  BY <1>1, <1>2

LEMMA FoundSlot ==
    ASSUME ctx \in Contexts, NEW cs, NEW head \in 0 .. ctx.size, NEW n \in Nat \ {0},
           FindSlot(cs, head, n) # <<>>
    PROVE  /\ FindSlot(cs, head, n) \in [1 .. n -> Cells]
           /\ FindSlot(cs, head, n) \in Seq(Cells) /\ Len(FindSlot(cs, head, n)) = n
           /\ \A k, l \in 1 .. n : FindSlot(cs, head, n)[k] = FindSlot(cs, head, n)[l] => k = l
           /\ \A k \in 1 .. n : CanUse(cs, FindSlot(cs, head, n)[k])
<1> DEFINE start == IF head > Cardinality(Used(cs)) + 2 * n THEN 0 ELSE head
           cell(k) == (start + k) % ctx.size
           able == {k \in Cells : CanUse(cs, cell(k))}
           usable == InOrder(able)
           slot == [j \in 1 .. n |-> cell(usable[j])]
<1>1. ctx.size \in Nat \ {0} /\ Cells = 0 .. ctx.size - 1 /\ IsFiniteSet(Cells) /\ Cells \in SUBSET Nat
  BY ContextFacts
<1>2. FindSlot(cs, head, n) = slot /\ ~(Len(usable) < n)
  BY DEF FindSlot
<1>3. start \in 0 .. ctx.size
  BY <1>1
<1> HIDE DEF start
<1>4. \A k \in Cells : cell(k) = IF start + k < ctx.size THEN start + k ELSE start + k - ctx.size
  <2> TAKE k \in Cells
  <2>1. start + k \in 0 .. 2 * ctx.size - 1
    BY <1>1, <1>3
  <2> DEFINE n0 == ctx.size
             a == start + k
  <2>2. n0 \in Nat \ {0} /\ a \in 0 .. 2 * n0 - 1
    BY <1>1, <2>1
  <2> HIDE DEF n0, a
  <2>3. a % n0 = IF a < n0 THEN a ELSE a - n0
    BY <2>2, Wrap
  <2>4. cell(k) = a % n0
    BY DEF n0, a
  <2> HIDE DEF cell
  <2>5. cell(k) = IF a < n0 THEN a ELSE a - n0
    BY <2>3, <2>4
  <2> QED
    BY <2>5, <1>1, <1>3 DEF n0, a
<1>5. /\ \A k \in Cells : cell(k) \in Cells
      /\ \A k, l \in Cells : cell(k) = cell(l) => k = l
  <2> HIDE DEF cell
  <2>1. \A k \in Cells : cell(k) \in Cells
    BY <1>1, <1>3, <1>4
  <2>2. ASSUME NEW k \in Cells, NEW l \in Cells, k # l PROVE cell(k) # cell(l)
    <3>1. k \in Int /\ l \in Int /\ k < ctx.size /\ l < ctx.size /\ k >= 0 /\ l >= 0
          /\ start \in Int /\ ctx.size \in Int
      BY <1>1, <1>3
    <3>2. /\ cell(k) = IF start + k < ctx.size THEN start + k ELSE start + k - ctx.size
          /\ cell(l) = IF start + l < ctx.size THEN start + l ELSE start + l - ctx.size
      BY <1>4
    <3> QED
      BY <3>1, <3>2, <2>2
  <2> QED
    BY <2>1, <2>2
<1> HIDE DEF cell
<1>6. able \in SUBSET Nat /\ able \subseteq Cells /\ IsFiniteSet(able)
  BY <1>1, FS_Subset
<1>7. \A k \in able : CanUse(cs, cell(k))
  OBVIOUS
<1> HIDE DEF able
<1>8. /\ Cardinality(able) \in Nat /\ Len(usable) = Cardinality(able)
      /\ \A k \in 1 .. Cardinality(able) : usable[k] \in able
      /\ \A k, l \in 1 .. Cardinality(able) : k < l => usable[k] < usable[l]
  BY <1>6, InOrderIs
<1> HIDE DEF usable
<1>9. n <= Cardinality(able)
  BY <1>2, <1>8
<1>10. /\ \A k \in 1 .. n : usable[k] \in able /\ usable[k] \in Nat
       /\ \A k, l \in 1 .. n : usable[k] = usable[l] => k = l
  <2>1. \A k \in 1 .. n : k \in 1 .. Cardinality(able)
    BY <1>8, <1>9
  <2>2. \A k \in 1 .. n : usable[k] \in able /\ usable[k] \in Nat
    BY <2>1, <1>8, <1>6
  <2>3. \A k, l \in 1 .. n : k < l => usable[k] < usable[l]
    BY <2>1, <1>8
  <2>4. \A k, l \in 1 .. n : usable[k] = usable[l] => k = l
    <3> SUFFICES ASSUME NEW k \in 1 .. n, NEW l \in 1 .. n, k # l PROVE usable[k] # usable[l]
      OBVIOUS
    <3>1. k < l \/ l < k
      OBVIOUS
    <3> QED
      BY <3>1, <2>2, <2>3
  <2> QED
    BY <2>2, <2>4
<1>11. /\ \A k \in 1 .. n : cell(usable[k]) \in Cells /\ CanUse(cs, cell(usable[k]))
       /\ \A k, l \in 1 .. n : cell(usable[k]) = cell(usable[l]) => k = l
  BY <1>5, <1>6, <1>7, <1>10
<1>12. slot \in [1 .. n -> Cells] /\ \A k \in 1 .. n : slot[k] = cell(usable[k])
  BY <1>11
<1>13. slot \in Seq(Cells) /\ Len(slot) = n
  <2> HIDE DEF slot
  <2> QED
    BY <1>12
<1> HIDE DEF slot
<1> QED
  BY <1>2, <1>11, <1>12, <1>13

-----------------------------------------------------------------------------
(* Tokens, groups of tokens of a stream, micro-batches, and slots for one. *)
Token == [seqs : (SUBSET Seqs) \ {{}}, pos : Pos, value : Seqs]
Group == {g \in Seq(Token) : /\ g # <<>>
                             /\ \A k \in DOMAIN g : \A s \in g[k].seqs : StreamOf(s) = StreamOfGroup(g)}
Microbatch == {ub \in Seq(Group) :
    /\ Len(ub) <= Cardinality(Seqs)
    /\ \A i, j \in DOMAIN ub : StreamOfGroup(ub[i]) = StreamOfGroup(ub[j]) => i = j}
SlotsFor(ub) == {slots \in Seq(Seq(Cells)) :
    /\ Len(slots) = Len(ub)
    /\ \A j \in DOMAIN ub : Len(slots[j]) = Len(ub[j])
    /\ \A j \in DOMAIN ub : \A k, l \in DOMAIN ub[j] : slots[j][k] = slots[j][l] => k = l}

(* The cell of a token just placed, and which token a cell is for. *)
Fresh(t) == [pos |-> t.pos, shift |-> 0, seqs |-> t.seqs, value |-> t.value]
Among(idxs, i) == \E k \in DOMAIN idxs : idxs[k] = i
At(idxs, i) == CHOOSE k \in DOMAIN idxs : idxs[k] = i

LEMMA AtIs ==
    ASSUME NEW idxs, NEW i, Among(idxs, i)
    PROVE  At(idxs, i) \in DOMAIN idxs /\ idxs[At(idxs, i)] = i
BY DEF Among, At

LEMMA FreshCell ==
    ASSUME NEW t \in Token
    PROVE  Fresh(t) \in Cell /\ Fresh(t) # NoCell /\ Fresh(t).seqs = t.seqs
<1>1. t.seqs \in (SUBSET Seqs) \ {{}} /\ t.pos \in Pos /\ t.value \in Seqs
  BY DEF Token
<1>2. Fresh(t) \in [pos : Pos, shift : Int, seqs : (SUBSET Seqs) \ {{}}, value : Seqs]
  BY <1>1 DEF Fresh
<1>3. Fresh(t) \in Cell /\ Fresh(t).seqs = t.seqs /\ t.seqs # {}
  BY <1>1, <1>2 DEF Cell, Pos, Fresh
<1> QED
  BY <1>3, NoCellTyped

Placing(cs, g, idxs) == [i \in Cells |-> IF Among(idxs, i) THEN Fresh(g[At(idxs, i)]) ELSE cs[i]]
Over(cs, idxs) == [s \in Seqs |-> {cs[idxs[k]].pos : k \in {j \in DOMAIN idxs : cs[idxs[j]].seqs = {s}}}]

LEMMA PlaceIs ==
    ASSUME NEW cs, NEW g, NEW idxs
    PROVE  Place(cs, g, idxs) = Purge(Placing(cs, g, idxs), Over(cs, idxs))
BY DEF Place, Placing, Over, Among, At, Fresh

LEMMA PlacedStream ==
    ASSUME NEW st, NEW cs \in StreamCells(st), NEW g \in Group, StreamOfGroup(g) = st,
           NEW idxs \in Seq(Cells), Len(idxs) = Len(g)
    PROVE  /\ Place(cs, g, idxs) \in StreamCells(st)
           /\ \A i \in Cells : Among(idxs, i) => Below(Place(cs, g, idxs)[i], Fresh(g[At(idxs, i)]))
           /\ \A i \in Cells : ~Among(idxs, i) => Below(Place(cs, g, idxs)[i], cs[i])
<1> DEFINE placed == Placing(cs, g, idxs)
           gone(i) == {s \in Seqs : \E p \in Over(cs, idxs)[s] : placed[i].pos <= p}
<1>1. g \in Seq(Token) /\ \A k \in DOMAIN g : g[k] \in Token
  BY DEF Group
<1>2. \A k \in DOMAIN idxs : k \in DOMAIN g
  BY <1>1
<1>3. ASSUME NEW i \in Cells, Among(idxs, i)
      PROVE  /\ placed[i] = Fresh(g[At(idxs, i)]) /\ placed[i] \in Cell
             /\ \A s \in placed[i].seqs : StreamOf(s) = st
  <2>1. At(idxs, i) \in DOMAIN g
    BY <1>2, <1>3, AtIs
  <2>2. placed[i] = Fresh(g[At(idxs, i)])
    BY <1>3 DEF Placing
  <2>3. g[At(idxs, i)] \in Token /\ \A s \in g[At(idxs, i)].seqs : StreamOf(s) = st
    BY <2>1, <1>1 DEF Group
  <2> QED
    BY <2>2, <2>3, FreshCell
<1>4. ASSUME NEW i \in Cells, ~Among(idxs, i)
      PROVE  /\ placed[i] = cs[i] /\ placed[i] \in Cell
             /\ \A s \in placed[i].seqs : StreamOf(s) = st
  <2>1. placed[i] = cs[i]
    BY <1>4 DEF Placing
  <2> QED
    BY <2>1 DEF StreamCells
<1>5. Place(cs, g, idxs) = [i \in Cells |-> Without(placed[i], gone(i))]
  BY PlaceIs DEF Purge
<1> HIDE DEF placed, gone
<1>6. \A i \in Cells : /\ Place(cs, g, idxs)[i] \in Cell
                       /\ Below(Place(cs, g, idxs)[i], placed[i])
                       /\ Place(cs, g, idxs)[i].seqs \subseteq placed[i].seqs
  BY <1>3, <1>4, <1>5, WithoutFacts
<1>7. Place(cs, g, idxs) \in [Cells -> Cell]
  BY <1>5, <1>6
<1>8. Place(cs, g, idxs) \in StreamCells(st)
  BY <1>3, <1>4, <1>6, <1>7 DEF StreamCells
<1> QED
  BY <1>3, <1>4, <1>6, <1>8

(* Without a window only empty cells can be used, and nothing is purged. *)
LEMMA PlacedFree ==
    ASSUME NEW st, NEW cs \in StreamCells(st), NEW g \in Group, StreamOfGroup(g) = st,
           NEW idxs \in Seq(Cells), Len(idxs) = Len(g), \A k \in DOMAIN idxs : cs[idxs[k]] = NoCell
    PROVE  /\ \A i \in Cells : Among(idxs, i) => Place(cs, g, idxs)[i] = Fresh(g[At(idxs, i)])
           /\ \A i \in Cells : ~Among(idxs, i) => Place(cs, g, idxs)[i] = cs[i]
<1> DEFINE placed == Placing(cs, g, idxs)
           over == Over(cs, idxs)
           gone(i) == {s \in Seqs : \E p \in over[s] : placed[i].pos <= p}
<1>1. \A s \in Seqs : over[s] = {}
  BY NoCellTyped DEF Over
<1> HIDE DEF over
<1>2. \A i \in Cells : gone(i) = {}
  BY <1>1
<1>3. Place(cs, g, idxs) = [i \in Cells |-> Without(placed[i], gone(i))]
  BY PlaceIs DEF Purge, over
<1>4. g \in Seq(Token) /\ \A k \in DOMAIN g : g[k] \in Token
  BY DEF Group
<1>5. \A k \in DOMAIN idxs : k \in DOMAIN g
  BY <1>4
<1>6. \A i \in Cells : Among(idxs, i) => placed[i] = Fresh(g[At(idxs, i)]) /\ placed[i] \in Cell
  BY <1>4, <1>5, AtIs, FreshCell DEF Placing
<1>7. \A i \in Cells : ~Among(idxs, i) => placed[i] = cs[i] /\ placed[i] \in Cell
  BY DEF Placing, StreamCells
<1> HIDE DEF placed, gone
<1>8. \A i \in Cells : Place(cs, g, idxs)[i] = placed[i]
  BY <1>2, <1>3, <1>6, <1>7, WithoutNone
<1> QED
  BY <1>6, <1>7, <1>8

(* All groups of a micro-batch: a stream has one of them or none. *)
Has(ub, st) == Groups(ub, st) # {}
GroupOf(ub, st) == CHOOSE j \in Groups(ub, st) : TRUE
Slot(ub, slots, st) == slots[GroupOf(ub, st)]
Takes(ub, slots, st, i) == Has(ub, st) /\ Among(Slot(ub, slots, st), i)
TokenAt(ub, slots, st, i) == ub[GroupOf(ub, st)][At(Slot(ub, slots, st), i)]

LEMMA GroupIs ==
    ASSUME NEW ub \in Microbatch, NEW st, Has(ub, st)
    PROVE  /\ GroupOf(ub, st) \in DOMAIN ub /\ GroupOf(ub, st) \in 1 .. Len(ub)
           /\ GroupOf(ub, st) - 1 \in Seqs
           /\ ub[GroupOf(ub, st)] \in Group /\ StreamOfGroup(ub[GroupOf(ub, st)]) = st
<1>1. GroupOf(ub, st) \in Groups(ub, st)
  BY DEF GroupOf, Has
<1>2. GroupOf(ub, st) \in DOMAIN ub /\ StreamOfGroup(ub[GroupOf(ub, st)]) = st
  BY <1>1 DEF Groups
<1>3. ub \in Seq(Group) /\ Len(ub) <= Cardinality(Seqs)
  BY DEF Microbatch
<1>4. Cardinality(Seqs) \in Nat /\ Seqs = 0 .. Cardinality(Seqs) - 1
  BY Numbers, KVAssumption
<1> QED
  BY <1>2, <1>3, <1>4

(* Each group of a micro-batch is the one of its stream. *)
LEMMA OwnGroup ==
    ASSUME NEW ub \in Microbatch, NEW j \in DOMAIN ub
    PROVE  Has(ub, StreamOfGroup(ub[j])) /\ GroupOf(ub, StreamOfGroup(ub[j])) = j
<1>1. j \in Groups(ub, StreamOfGroup(ub[j]))
  BY DEF Groups
<1>2. Has(ub, StreamOfGroup(ub[j]))
  BY <1>1 DEF Has
<1>3. /\ GroupOf(ub, StreamOfGroup(ub[j])) \in DOMAIN ub
      /\ StreamOfGroup(ub[GroupOf(ub, StreamOfGroup(ub[j]))]) = StreamOfGroup(ub[j])
  BY <1>2, GroupIs
<1> QED
  BY <1>2, <1>3 DEF Microbatch

LEMMA SlotIs ==
    ASSUME NEW ub \in Microbatch, NEW slots \in SlotsFor(ub), NEW st, Has(ub, st)
    PROVE  /\ Slot(ub, slots, st) \in Seq(Cells)
           /\ Len(Slot(ub, slots, st)) = Len(ub[GroupOf(ub, st)])
           /\ Len(Slot(ub, slots, st)) \in Nat \ {0}
           /\ DOMAIN Slot(ub, slots, st) = DOMAIN ub[GroupOf(ub, st)]
<1> DEFINE j == GroupOf(ub, st)
<1>1. j \in DOMAIN ub /\ ub[j] \in Group /\ ub \in Seq(Group)
  BY GroupIs DEF Microbatch
<1>2. slots \in Seq(Seq(Cells)) /\ Len(slots) = Len(ub) /\ Len(slots[j]) = Len(ub[j])
  BY <1>1 DEF SlotsFor
<1> HIDE DEF j
<1>3. slots[j] \in Seq(Cells)
  BY <1>1, <1>2
<1>4. ub[j] \in Seq(Token) /\ ub[j] # <<>>
  BY <1>1 DEF Group
<1>5. Len(ub[j]) \in Nat \ {0}
  BY <1>4, EmptySeq
<1>6. DOMAIN slots[j] = 1 .. Len(slots[j]) /\ DOMAIN ub[j] = 1 .. Len(ub[j])
  BY <1>3, <1>4, LenProperties
<1> QED
  BY <1>2, <1>3, <1>5, <1>6 DEF j, Slot

LEMMA TokenIs ==
    ASSUME NEW ub \in Microbatch, NEW slots \in SlotsFor(ub), NEW st, NEW i, Takes(ub, slots, st, i)
    PROVE  /\ TokenAt(ub, slots, st, i) \in Token
           /\ \A s \in TokenAt(ub, slots, st, i).seqs : StreamOf(s) = st
           /\ TokenAt(ub, slots, st, i) \in TokensOf(ub)
<1> DEFINE j == GroupOf(ub, st)
           k == At(Slot(ub, slots, st), i)
<1>1. Has(ub, st) /\ Among(Slot(ub, slots, st), i)
  BY DEF Takes
<1>2. j \in DOMAIN ub /\ ub[j] \in Group /\ StreamOfGroup(ub[j]) = st
  BY <1>1, GroupIs
<1>3. k \in DOMAIN ub[j]
  BY <1>1, AtIs, SlotIs
<1>4. TokenAt(ub, slots, st, i) = ub[j][k]
  BY DEF TokenAt
<1> HIDE DEF j, k
<1>5. ub[j][k] \in Token /\ \A s \in ub[j][k].seqs : StreamOf(s) = st
  BY <1>2, <1>3 DEF Group
<1>6. ub[j][k] \in TokensOf(ub)
  BY <1>2, <1>3 DEF TokensOf
<1> QED
  BY <1>4, <1>5, <1>6

LEMMA PlaceAllIs ==
    ASSUME NEW all, NEW ub, NEW slots
    PROVE  PlaceAll(all, ub, slots) =
             [st \in Seqs |-> IF Has(ub, st) THEN Place(all[st], ub[GroupOf(ub, st)], Slot(ub, slots, st))
                              ELSE all[st]]
BY DEF PlaceAll, Has, GroupOf, Slot

LEMMA PlacedAll ==
    ASSUME NEW all \in AllCells, NEW ub \in Microbatch, NEW slots \in SlotsFor(ub)
    PROVE  /\ PlaceAll(all, ub, slots) \in AllCells
           /\ \A st \in Seqs, i \in Cells : Takes(ub, slots, st, i) =>
                Below(PlaceAll(all, ub, slots)[st][i], Fresh(TokenAt(ub, slots, st, i)))
           /\ \A st \in Seqs, i \in Cells : ~Takes(ub, slots, st, i) =>
                Below(PlaceAll(all, ub, slots)[st][i], all[st][i])
<1> DEFINE new == PlaceAll(all, ub, slots)
<1>1. ASSUME NEW st \in Seqs
      PROVE  /\ new[st] \in StreamCells(st)
             /\ \A i \in Cells : Takes(ub, slots, st, i) => Below(new[st][i], Fresh(TokenAt(ub, slots, st, i)))
             /\ \A i \in Cells : ~Takes(ub, slots, st, i) => Below(new[st][i], all[st][i])
  <2>0. all[st] \in StreamCells(st)
    BY DEF AllCells
  <2>1. CASE Has(ub, st)
    <3> DEFINE g == ub[GroupOf(ub, st)]
               idxs == Slot(ub, slots, st)
    <3>1. new[st] = Place(all[st], g, idxs)
      BY <2>1, PlaceAllIs
    <3>2. g \in Group /\ StreamOfGroup(g) = st /\ idxs \in Seq(Cells) /\ Len(idxs) = Len(g)
      BY <2>1, GroupIs, SlotIs
    <3>3. \A i : Takes(ub, slots, st, i) <=> Among(idxs, i)
      BY <2>1 DEF Takes
    <3>4. \A i : TokenAt(ub, slots, st, i) = g[At(idxs, i)]
      BY DEF TokenAt
    <3> HIDE DEF new, g, idxs
    <3>5. /\ new[st] \in StreamCells(st)
          /\ \A i \in Cells : Among(idxs, i) => Below(new[st][i], Fresh(g[At(idxs, i)]))
          /\ \A i \in Cells : ~Among(idxs, i) => Below(new[st][i], all[st][i])
      BY <2>0, <3>1, <3>2, PlacedStream
    <3> QED
      BY <3>3, <3>4, <3>5
  <2>2. CASE ~Has(ub, st)
    <3>1. new[st] = all[st]
      BY <2>2, PlaceAllIs
    <3>2. \A i : ~Takes(ub, slots, st, i)
      BY <2>2 DEF Takes
    <3> QED
      BY <2>0, <3>1, <3>2, BelowItself
  <2> QED
    BY <2>1, <2>2
<1>2. new = [st \in Seqs |-> new[st]]
  BY PlaceAllIs
<1> HIDE DEF new
<1>3. new \in [Seqs -> [Cells -> Cell]]
  <2>1. \A st \in Seqs : new[st] \in [Cells -> Cell]
    BY <1>1 DEF StreamCells
  <2> QED
    BY <1>2, <2>1
<1> QED
  BY <1>1, <1>3 DEF AllCells, new

(* The slots are free. *)
FreeSlots(all, ub, slots) ==
    \A st \in Seqs, i \in Cells : Takes(ub, slots, st, i) => all[st][i] = NoCell

LEMMA PlacedAllFree ==
    ASSUME NEW all \in AllCells, NEW ub \in Microbatch, NEW slots \in SlotsFor(ub),
           FreeSlots(all, ub, slots)
    PROVE  /\ \A st \in Seqs, i \in Cells : Takes(ub, slots, st, i) =>
                PlaceAll(all, ub, slots)[st][i] = Fresh(TokenAt(ub, slots, st, i))
           /\ \A st \in Seqs, i \in Cells : ~Takes(ub, slots, st, i) =>
                PlaceAll(all, ub, slots)[st][i] = all[st][i]
<1> DEFINE new == PlaceAll(all, ub, slots)
<1> SUFFICES ASSUME NEW st \in Seqs
    PROVE  /\ \A i \in Cells : Takes(ub, slots, st, i) => new[st][i] = Fresh(TokenAt(ub, slots, st, i))
           /\ \A i \in Cells : ~Takes(ub, slots, st, i) => new[st][i] = all[st][i]
  OBVIOUS
<1>0. all[st] \in StreamCells(st)
  BY DEF AllCells
<1>1. CASE Has(ub, st)
  <2> DEFINE g == ub[GroupOf(ub, st)]
             idxs == Slot(ub, slots, st)
  <2>1. new[st] = Place(all[st], g, idxs)
    BY <1>1, PlaceAllIs
  <2>2. g \in Group /\ StreamOfGroup(g) = st /\ idxs \in Seq(Cells) /\ Len(idxs) = Len(g)
    BY <1>1, GroupIs, SlotIs
  <2>3. \A i : Takes(ub, slots, st, i) <=> Among(idxs, i)
    BY <1>1 DEF Takes
  <2>4. \A i : TokenAt(ub, slots, st, i) = g[At(idxs, i)]
    BY DEF TokenAt
  <2> HIDE DEF new, g, idxs
  <2>5. \A k \in DOMAIN idxs : idxs[k] \in Cells /\ Among(idxs, idxs[k])
    BY <2>2 DEF Among
  <2>6. \A k \in DOMAIN idxs : all[st][idxs[k]] = NoCell
    BY <2>3, <2>5 DEF FreeSlots
  <2>7. /\ \A i \in Cells : Among(idxs, i) => new[st][i] = Fresh(g[At(idxs, i)])
        /\ \A i \in Cells : ~Among(idxs, i) => new[st][i] = all[st][i]
    BY <1>0, <2>1, <2>2, <2>6, PlacedFree
  <2> QED
    BY <2>3, <2>4, <2>7
<1>2. CASE ~Has(ub, st)
  BY <1>2, PlaceAllIs DEF Takes
<1> QED
  BY <1>1, <1>2

Heads == [Seqs -> 0 .. ctx.size]

LEMMA HeadsPlaced ==
    ASSUME ctx \in Contexts, NEW hs \in Heads, NEW ub \in Microbatch, NEW slots \in SlotsFor(ub)
    PROVE  HeadsAfter(hs, ub, slots) \in Heads
<1>1. HeadsAfter(hs, ub, slots) =
        [st \in Seqs |-> IF Has(ub, st)
                         THEN Slot(ub, slots, st)[Len(Slot(ub, slots, st))] + 1 ELSE hs[st]]
  BY DEF HeadsAfter, Has, Slot, GroupOf
<1>2. ASSUME NEW st \in Seqs, Has(ub, st)
      PROVE  Slot(ub, slots, st)[Len(Slot(ub, slots, st))] + 1 \in 0 .. ctx.size
  <2> DEFINE idxs == Slot(ub, slots, st)
  <2>1. idxs \in Seq(Cells) /\ Len(idxs) \in Nat \ {0}
    BY <1>2, SlotIs
  <2> HIDE DEF idxs
  <2>2. idxs[Len(idxs)] \in Cells
    BY <2>1
  <2>3. idxs[Len(idxs)] + 1 \in 0 .. ctx.size
    BY <2>2, ContextFacts
  <2> QED
    BY <2>3 DEF idxs
<1> QED
  BY <1>1, <1>2 DEF Heads

-----------------------------------------------------------------------------
(* Looking for the cells of a batch: all is placed, one micro-batch after  *)
(* the other.                                                              *)
Old == [all : AllCells, hs : Heads]
Trial == [ok : BOOLEAN, all : AllCells, hs : Heads, slots : Seq(Seq(Seq(Cells))), olds : Seq(Old)]

Usable(all, ub, slots) ==
    \A j \in DOMAIN ub : \A k \in DOMAIN slots[j] : CanUse(all[StreamOfGroup(ub[j])], slots[j][k])

LEMMA FirstIs ==
    ASSUME NEW ss \in SUBSET Seqs, ss # {}
    PROVE  First(ss) \in ss
<1>1. ss \in SUBSET Nat
  BY Numbers
<1> QED
  BY <1>1, MinIs DEF First

LEMMA GroupStream ==
    ASSUME ctx \in Contexts, NEW g \in Group
    PROVE  StreamOfGroup(g) \in Seqs /\ StreamOfGroup(g) \in Streams
<1>1. g[1] \in Token
  BY EmptySeq DEF Group
<1>2. First(g[1].seqs) \in Seqs
  BY <1>1, FirstIs DEF Token
<1> QED
  BY <1>2, StreamFacts DEF StreamOfGroup

FoundSlots(t, ub) ==
    [j \in DOMAIN ub |-> FindSlot(t.all[StreamOfGroup(ub[j])], t.hs[StreamOfGroup(ub[j])], Len(ub[j]))]

LEMMA SlotsFound ==
    ASSUME ctx \in Contexts, NEW t \in Trial, NEW ub \in Microbatch,
           \A j \in DOMAIN ub : FoundSlots(t, ub)[j] # <<>>
    PROVE  FoundSlots(t, ub) \in SlotsFor(ub) /\ Usable(t.all, ub, FoundSlots(t, ub))
<1> DEFINE slots == FoundSlots(t, ub)
<1>1. ub \in Seq(Group) /\ Len(ub) \in Nat /\ DOMAIN ub = 1 .. Len(ub)
  BY LenProperties DEF Microbatch
<1>2. slots = [j \in 1 .. Len(ub) |-> slots[j]]
  BY <1>1 DEF FoundSlots
<1>3. ASSUME NEW j \in DOMAIN ub
      PROVE  /\ slots[j] \in Seq(Cells) /\ Len(slots[j]) = Len(ub[j])
             /\ \A k, l \in DOMAIN ub[j] : slots[j][k] = slots[j][l] => k = l
             /\ \A k \in DOMAIN slots[j] : CanUse(t.all[StreamOfGroup(ub[j])], slots[j][k])
  <2> DEFINE st == StreamOfGroup(ub[j])
             n == Len(ub[j])
  <2>1. ub[j] \in Group
    BY <1>1
  <2>2. n \in Nat \ {0} /\ DOMAIN ub[j] = 1 .. n
    BY <2>1, EmptySeq, LenProperties DEF Group
  <2>3. st \in Seqs
    BY <2>1, GroupStream
  <2>4. t.hs[st] \in 0 .. ctx.size
    BY <2>3 DEF Trial, Heads
  <2>5. slots[j] = FindSlot(t.all[st], t.hs[st], n) /\ slots[j] # <<>>
    BY DEF FoundSlots
  <2> HIDE DEF slots, st, n
  <2> DEFINE cs == t.all[st]
             head == t.hs[st]
  <2>6. head \in 0 .. ctx.size /\ FindSlot(cs, head, n) # <<>>
    BY <2>4, <2>5
  <2> HIDE DEF cs, head
  <2>7. /\ FindSlot(cs, head, n) \in [1 .. n -> Cells]
        /\ FindSlot(cs, head, n) \in Seq(Cells) /\ Len(FindSlot(cs, head, n)) = n
        /\ \A k, l \in 1 .. n : FindSlot(cs, head, n)[k] = FindSlot(cs, head, n)[l] => k = l
        /\ \A k \in 1 .. n : CanUse(cs, FindSlot(cs, head, n)[k])
    BY <2>2, <2>6, FoundSlot
  <2>8. /\ slots[j] \in [1 .. n -> Cells] /\ slots[j] \in Seq(Cells) /\ Len(slots[j]) = n
        /\ \A k, l \in 1 .. n : slots[j][k] = slots[j][l] => k = l
        /\ \A k \in 1 .. n : CanUse(t.all[st], slots[j][k])
    BY <2>5, <2>7 DEF cs, head
  <2>9. DOMAIN slots[j] = 1 .. n
    BY <2>8
  <2> QED
    BY <2>2, <2>8, <2>9 DEF st, n
<1> HIDE DEF slots
<1>4. slots \in Seq(Seq(Cells)) /\ Len(slots) = Len(ub)
  <2>1. slots \in [1 .. Len(ub) -> Seq(Cells)]
    BY <1>1, <1>2, <1>3
  <2> QED
    BY <1>1, <2>1
<1> QED
  BY <1>3, <1>4 DEF SlotsFor, Usable, slots

LEMMA TryIs ==
    ASSUME ctx \in Contexts, NEW t \in Trial, NEW ub \in Microbatch
    PROVE  /\ Try(t, ub) \in Trial
           /\ \/ Try(t, ub) = [t EXCEPT !.ok = FALSE]
              \/ /\ t.ok
                 /\ \E slots \in SlotsFor(ub) :
                       Usable(t.all, ub, slots) /\ Try(t, ub) = Emplaced(t, ub, slots)
<1> DEFINE slots == FoundSlots(t, ub)
<1>0. DOMAIN slots = DOMAIN ub
  BY DEF FoundSlots
<1>1. Try(t, ub) = IF ~t.ok \/ \E j \in DOMAIN slots : slots[j] = <<>> THEN [t EXCEPT !.ok = FALSE]
                   ELSE Emplaced(t, ub, slots)
  BY DEF Try, FoundSlots
<1>2. CASE ~t.ok \/ \E j \in DOMAIN slots : slots[j] = <<>>
  <2>1. Try(t, ub) = [t EXCEPT !.ok = FALSE]
    BY <1>1, <1>2
  <2>2. [t EXCEPT !.ok = FALSE] \in Trial
    BY DEF Trial
  <2> QED
    BY <2>1, <2>2
<1>3. CASE ~(~t.ok \/ \E j \in DOMAIN slots : slots[j] = <<>>)
  <2>1. Try(t, ub) = Emplaced(t, ub, slots) /\ t.ok
    BY <1>1, <1>3
  <2>2. slots \in SlotsFor(ub) /\ Usable(t.all, ub, slots)
    BY <1>0, <1>3, SlotsFound
  <2> HIDE DEF slots
  <2>3. PlaceAll(t.all, ub, slots) \in AllCells /\ HeadsAfter(t.hs, ub, slots) \in Heads
    BY <2>2, PlacedAll, HeadsPlaced DEF Trial
  <2>4. Append(t.slots, slots) \in Seq(Seq(Seq(Cells)))
    BY <2>2 DEF Trial, SlotsFor
  <2>5. [all |-> t.all, hs |-> t.hs] \in Old
    BY DEF Trial, Old
  <2>6. Append(t.olds, [all |-> t.all, hs |-> t.hs]) \in Seq(Old)
    BY <2>5 DEF Trial
  <2>7. Emplaced(t, ub, slots) \in Trial
    BY <2>3, <2>4, <2>6 DEF Emplaced, Trial
  <2> QED
    BY <2>1, <2>2, <2>7
<1> QED
  BY <1>2, <1>3

Start(all, hs) == [ok |-> TRUE, all |-> all, hs |-> hs, slots |-> <<>>, olds |-> <<>>]
TriesStep(f, all, hs, ubs) == f[0] = Start(all, hs) /\ \A k \in 1 .. Len(ubs) : f[k] = Try(f[k - 1], ubs[k])

LEMMA TriesAre ==
    ASSUME ctx \in Contexts, NEW all \in AllCells, NEW hs \in Heads, NEW ubs \in Seq(Microbatch)
    PROVE  /\ TriesStep(Tries(all, hs, ubs), all, hs, ubs)
           /\ \A k \in 0 .. Len(ubs) : Tries(all, hs, ubs)[k] \in Trial
<1> DEFINE n == Len(ubs)
           a == Start(all, hs)
           F == [k \in 1 .. n |-> [t \in Trial |-> Try(t, ubs[k])]]
           f == Tries(all, hs, ubs)
<1>0. n \in Nat /\ \A k \in 1 .. n : ubs[k] \in Microbatch
  OBVIOUS
<1>1. \A k \in 1 .. n, t \in Trial : Try(t, ubs[k]) \in Trial
  BY <1>0, TryIs
<1>2. a \in Trial
  BY DEF Start, Trial
<1>3. \A k \in 1 .. n, t \in Trial : F[k][t] \in Trial
  BY <1>1
<1> HIDE DEF n, a
<1>4. PICK g : Iterates(g, n, Trial, a, F)
  <2> HIDE DEF F
  <2> QED
    BY <1>0, <1>2, <1>3, Recursion
<1>5. g = [k \in 0 .. n |-> IF k = 0 THEN a ELSE Try(g[k - 1], ubs[k])]
  <2>1. \A k \in 0 .. n : k # 0 => k \in 1 .. n /\ k - 1 \in 0 .. n
    BY <1>0
  <2>2. \A k \in 0 .. n : g[k] \in Trial
    BY <1>4 DEF Iterates
  <2>3. \A k \in 0 .. n : k # 0 => F[k][g[k - 1]] = Try(g[k - 1], ubs[k])
    BY <2>1, <2>2
  <2> HIDE DEF F
  <2> QED
    BY <1>4, <2>1, <2>3 DEF Iterates
<1>6. f = [k \in 0 .. n |-> IF k = 0 THEN a ELSE Try(f[k - 1], ubs[k])]
  BY <1>5 DEF Tries, n, a, Start
<1> HIDE DEF f
<1>7. f[0] = a /\ \A k \in 1 .. n : f[k] = Try(f[k - 1], ubs[k])
  BY <1>0, <1>6
<1>8. \A k \in 0 .. n : f[k] \in Trial
  <2>1. \A k \in 1 .. n : f[k - 1] \in Trial => f[k] \in Trial
    BY <1>1, <1>7
  <2> QED
    BY <1>0, <1>2, <1>7, <2>1, Throughout
<1> QED
  BY <1>7, <1>8 DEF f, n, a, TriesStep

(* What was there before each of the micro-batches that were placed, and   *)
(* what is there after the last one.                                       *)
Before(t, k) == IF k <= Len(t.slots) THEN t.olds[k].all ELSE t.all

(* After m tries: each placed one was usable and led to the next.          *)
Chain(t, m, all, ubs) ==
    /\ Len(t.olds) = Len(t.slots) /\ Len(t.slots) <= m
    /\ t.ok => Len(t.slots) = m
    /\ Before(t, 1) = all
    /\ \A k \in 1 .. Len(t.slots) :
         /\ t.slots[k] \in SlotsFor(ubs[k])
         /\ Usable(Before(t, k), ubs[k], t.slots[k])
         /\ Before(t, k + 1) = PlaceAll(Before(t, k), ubs[k], t.slots[k])

LEMMA ChainedOne ==
    ASSUME ctx \in Contexts, NEW all, NEW ubs \in Seq(Microbatch), NEW m \in 1 .. Len(ubs),
           NEW t \in Trial, Chain(t, m - 1, all, ubs)
    PROVE  Chain(Try(t, ubs[m]), m, all, ubs)
<1> DEFINE ub == ubs[m]
<1>0. m \in Nat \ {0} /\ ub \in Microbatch /\ Len(t.slots) \in Nat
  BY DEF Trial
<1>1. CASE Try(t, ub) = [t EXCEPT !.ok = FALSE]
  <2> DEFINE u == [t EXCEPT !.ok = FALSE]
  <2>1. u.slots = t.slots /\ u.olds = t.olds /\ u.all = t.all /\ u.ok = FALSE
    BY DEF Trial
  <2>2. \A k : Before(u, k) = Before(t, k)
    BY <2>1 DEF Before
  <2> HIDE DEF u
  <2>3. Len(t.slots) <= m
    BY <1>0 DEF Chain
  <2>4. Chain(u, m, all, ubs)
    BY <2>1, <2>2, <2>3 DEF Chain
  <2> QED
    BY <1>1, <2>4 DEF u
<1>2. ASSUME t.ok, NEW slots \in SlotsFor(ub), Usable(t.all, ub, slots), Try(t, ub) = Emplaced(t, ub, slots)
      PROVE  Chain(Try(t, ub), m, all, ubs)
  <2> DEFINE u == Emplaced(t, ub, slots)
             n == Len(t.slots)
             old == [all |-> t.all, hs |-> t.hs]
  <2>1. n = m - 1 /\ n \in Nat /\ Len(t.olds) = n
    BY <1>0, <1>2 DEF Chain
  <2>2. /\ u.slots = Append(t.slots, slots) /\ u.olds = Append(t.olds, old)
        /\ u.all = PlaceAll(t.all, ub, slots)
    BY DEF Emplaced
  <2>3. /\ Len(u.slots) = m /\ u.slots[m] = slots
        /\ \A k \in 1 .. n : u.slots[k] = t.slots[k]
    BY <2>1, <2>2 DEF Trial
  <2>4. /\ Len(u.olds) = m /\ u.olds[m] = old
        /\ \A k \in 1 .. n : u.olds[k] = t.olds[k]
    BY <2>1, <2>2 DEF Trial
  <2>5. old.all = t.all
    OBVIOUS
  <2> HIDE DEF u, n, old
  <2>6. \A k \in 1 .. n : Before(u, k) = Before(t, k)
    BY <2>1, <2>3, <2>4 DEF Before, n
  <2>7. Before(t, m) = t.all /\ Before(u, m) = t.all
    BY <2>1, <2>3, <2>4, <2>5 DEF Before, n
  <2>8. Before(u, m + 1) = PlaceAll(t.all, ub, slots)
    BY <1>0, <2>2, <2>3 DEF Before
  <2>9. \A k \in 1 .. m : k = m \/ (k \in 1 .. n /\ (k + 1 = m \/ k + 1 \in 1 .. n))
    BY <2>1
  <2>10. \A k \in 1 .. m : Before(u, k) = Before(t, k)
    BY <2>6, <2>7, <2>9
  <2>11. Before(u, 1) = all
    <3>1. 1 \in 1 .. m
      BY <1>0
    <3> QED
      BY <3>1, <2>10 DEF Chain
  <2>12. ASSUME NEW k \in 1 .. n
         PROVE  /\ u.slots[k] \in SlotsFor(ubs[k])
                /\ Usable(Before(u, k), ubs[k], u.slots[k])
                /\ Before(u, k + 1) = PlaceAll(Before(u, k), ubs[k], u.slots[k])
    <3>1. k \in 1 .. m /\ k + 1 \in 1 .. m
      BY <2>1
    <3>2. u.slots[k] = t.slots[k] /\ Before(u, k) = Before(t, k) /\ Before(u, k + 1) = Before(t, k + 1)
      BY <3>1, <2>3, <2>10
    <3>3. /\ t.slots[k] \in SlotsFor(ubs[k])
          /\ Usable(Before(t, k), ubs[k], t.slots[k])
          /\ Before(t, k + 1) = PlaceAll(Before(t, k), ubs[k], t.slots[k])
      BY DEF Chain, n
    <3> QED
      BY <3>2, <3>3
  <2>13. /\ u.slots[m] \in SlotsFor(ubs[m])
         /\ Usable(Before(u, m), ubs[m], u.slots[m])
         /\ Before(u, m + 1) = PlaceAll(Before(u, m), ubs[m], u.slots[m])
    BY <1>2, <2>3, <2>7, <2>8
  <2>14. Chain(u, m, all, ubs)
    BY <1>0, <2>3, <2>4, <2>9, <2>11, <2>12, <2>13 DEF Chain
  <2> QED
    BY <1>2, <2>14 DEF u
<1> QED
  BY <1>0, <1>1, <1>2, TryIs

LEMMA Chained ==
    ASSUME ctx \in Contexts, NEW all \in AllCells, NEW hs \in Heads, NEW ubs \in Seq(Microbatch)
    PROVE  /\ Tries(all, hs, ubs)[Len(ubs)] \in Trial
           /\ Chain(Tries(all, hs, ubs)[Len(ubs)], Len(ubs), all, ubs)
<1> DEFINE n == Len(ubs)
           f == Tries(all, hs, ubs)
           S == {k \in 0 .. n : Chain(f[k], k, all, ubs)}
<1>0. n \in Nat
  OBVIOUS
<1>1. TriesStep(f, all, hs, ubs) /\ \A k \in 0 .. n : f[k] \in Trial
  BY TriesAre
<1>2. f[0] = Start(all, hs) /\ \A k \in 1 .. n : f[k] = Try(f[k - 1], ubs[k])
  BY <1>1 DEF TriesStep
<1> HIDE DEF f, n
<1>3. 0 \in S
  <2> DEFINE a == Start(all, hs)
  <2>1. a.all = all /\ a.slots = <<>> /\ a.olds = <<>> /\ Len(a.slots) = 0 /\ Len(a.olds) = 0
    BY DEF Start
  <2> HIDE DEF a
  <2>2. Chain(a, 0, all, ubs)
    BY <2>1 DEF Chain, Before
  <2> QED
    BY <1>0, <1>2, <2>2 DEF a
<1>4. \A k \in 1 .. n : k - 1 \in S => k \in S
  <2> SUFFICES ASSUME NEW k \in 1 .. n, Chain(f[k - 1], k - 1, all, ubs) PROVE Chain(f[k], k, all, ubs)
    BY <1>0
  <2>1. k - 1 \in 0 .. n /\ f[k - 1] \in Trial
    BY <1>0, <1>1
  <2>2. k \in 1 .. Len(ubs)
    BY DEF n
  <2>3. f[k] = Try(f[k - 1], ubs[k])
    BY <1>2
  <2> QED
    BY <2>1, <2>2, <2>3, ChainedOne
<1>5. 0 .. n \subseteq S
  <2> HIDE DEF S
  <2> QED
    BY <1>0, <1>3, <1>4, Upto
<1>6. n \in 0 .. n
  BY <1>0
<1>7. Chain(f[n], n, all, ubs) /\ f[n] \in Trial
  BY <1>1, <1>5, <1>6
<1> QED
  BY <1>7 DEF f, n

-----------------------------------------------------------------------------
(* Putting everything back: what a trial leaves is what was there, or what *)
(* some sequences left of it, since the cells that were purged stay so.    *)
BelowAll(a, b) == \A st \in Seqs, i \in Cells : Below(a[st][i], b[st][i])

UndoneStream(b, ub, slots, old, st) ==
    IF Has(ub, st) THEN PutBack(b.all[st], old.all[st], Slot(ub, slots, st)) ELSE b.all[st]

UndoneHead(b, ub, old, st) == IF Has(ub, st) THEN old.hs[GroupOf(ub, st) - 1] ELSE b.hs[st]

LEMMA UndoIs ==
    ASSUME NEW b, NEW ub, NEW slots, NEW old
    PROVE  Undo(b, ub, slots, old) = [all |-> [st \in Seqs |-> UndoneStream(b, ub, slots, old, st)],
                                      hs |-> [st \in Seqs |-> UndoneHead(b, ub, old, st)]]
<1> DEFINE u == Undo(b, ub, slots, old)
<1>1. u.all = [st \in Seqs |-> UndoneStream(b, ub, slots, old, st)]
  BY DEF Undo, UndoneStream, Has, GroupOf, Slot
<1>2. u.hs = [st \in Seqs |-> UndoneHead(b, ub, old, st)]
  BY DEF Undo, UndoneHead, Has, GroupOf
<1>3. u = [all |-> u.all, hs |-> u.hs]
  BY DEF Undo
<1> QED
  BY <1>1, <1>2, <1>3

LEMMA UndoIsAt ==
    ASSUME NEW b, NEW ub, NEW slots, NEW old, NEW st \in Seqs
    PROVE  /\ Undo(b, ub, slots, old).all[st] = UndoneStream(b, ub, slots, old, st)
           /\ Undo(b, ub, slots, old).hs[st] = UndoneHead(b, ub, old, st)
BY DEF Undo, UndoneStream, UndoneHead, Has, GroupOf, Slot

LEMMA UndoneCell ==
    ASSUME NEW b, NEW ub, NEW slots, NEW old, NEW st \in Seqs, NEW i \in Cells
    PROVE  Undo(b, ub, slots, old).all[st][i] =
             IF Takes(ub, slots, st, i) THEN old.all[st][i] ELSE b.all[st][i]
<1>1. Undo(b, ub, slots, old).all[st] = UndoneStream(b, ub, slots, old, st)
  BY UndoIsAt
<1>2. CASE Has(ub, st)
  <2>1. UndoneStream(b, ub, slots, old, st)[i] =
          IF Among(Slot(ub, slots, st), i) THEN old.all[st][i] ELSE b.all[st][i]
    BY <1>2 DEF UndoneStream, PutBack, Among
  <2> QED
    BY <1>1, <1>2, <2>1 DEF Takes
<1>3. CASE ~Has(ub, st)
  BY <1>1, <1>3 DEF UndoneStream, Takes
<1> QED
  BY <1>2, <1>3

LEMMA UndoneTyped ==
    ASSUME NEW b \in Old, NEW ub \in Microbatch, NEW slots \in SlotsFor(ub), NEW old \in Old
    PROVE  Undo(b, ub, slots, old) \in Old
<1> DEFINE u == Undo(b, ub, slots, old)
<1>1. b.all \in AllCells /\ old.all \in AllCells /\ b.hs \in Heads /\ old.hs \in Heads
  BY DEF Old
<1>2. ASSUME NEW st \in Seqs
      PROVE  u.all[st] \in StreamCells(st)
  <2>0. u.all[st] = UndoneStream(b, ub, slots, old, st)
    BY UndoIsAt
  <2>1. b.all[st] \in StreamCells(st) /\ old.all[st] \in StreamCells(st)
    BY <1>1 DEF AllCells
  <2>2. UndoneStream(b, ub, slots, old, st) \in [Cells -> Cell]
    BY <2>1 DEF UndoneStream, PutBack, StreamCells
  <2>3. \A i \in Cells : u.all[st][i] \in {b.all[st][i], old.all[st][i]}
    BY UndoneCell
  <2> QED
    BY <2>0, <2>1, <2>2, <2>3 DEF StreamCells
<1>3. u.all \in [Seqs -> [Cells -> Cell]]
  <2>1. \A st \in Seqs : UndoneStream(b, ub, slots, old, st) \in [Cells -> Cell]
    BY <1>2, UndoIsAt DEF StreamCells
  <2> QED
    BY <2>1, UndoIs
<1>4. u.all \in AllCells
  BY <1>2, <1>3 DEF AllCells
<1>5. u.hs \in Heads
  <2>1. \A st \in Seqs : Has(ub, st) => old.hs[GroupOf(ub, st) - 1] \in 0 .. ctx.size
    BY <1>1, GroupIs DEF Heads
  <2>2. \A st \in Seqs : b.hs[st] \in 0 .. ctx.size
    BY <1>1 DEF Heads
  <2>3. \A st \in Seqs : UndoneHead(b, ub, old, st) \in 0 .. ctx.size
    BY <2>1, <2>2 DEF UndoneHead
  <2> QED
    BY <2>3, UndoIs DEF Heads
<1>6. u = [all |-> u.all, hs |-> u.hs]
  BY UndoIs
<1> HIDE DEF u
<1> QED
  BY <1>4, <1>5, <1>6 DEF u, Old

LEMMA UndoneBelow ==
    ASSUME NEW b \in Old, NEW ub \in Microbatch, NEW slots \in SlotsFor(ub), NEW old \in Old,
           BelowAll(b.all, PlaceAll(old.all, ub, slots))
    PROVE  BelowAll(Undo(b, ub, slots, old).all, old.all)
<1> SUFFICES ASSUME NEW st \in Seqs, NEW i \in Cells
             PROVE  Below(Undo(b, ub, slots, old).all[st][i], old.all[st][i])
  BY DEF BelowAll
<1>1. CASE Takes(ub, slots, st, i)
  BY <1>1, UndoneCell, BelowItself
<1>2. CASE ~Takes(ub, slots, st, i)
  <2>1. Below(b.all[st][i], PlaceAll(old.all, ub, slots)[st][i])
    BY DEF BelowAll
  <2>2. Below(PlaceAll(old.all, ub, slots)[st][i], old.all[st][i])
    BY <1>2, PlacedAll DEF Old
  <2>3. Undo(b, ub, slots, old).all[st][i] = b.all[st][i]
    BY <1>2, UndoneCell
  <2> QED
    BY <2>1, <2>2, <2>3, BelowBelow
<1> QED
  BY <1>1, <1>2

LEMMA SameCells ==
    ASSUME NEW a \in AllCells, NEW b \in AllCells, \A st \in Seqs, i \in Cells : a[st][i] = b[st][i]
    PROVE  a = b
<1>1. a \in [Seqs -> [Cells -> Cell]] /\ b \in [Seqs -> [Cells -> Cell]]
  BY DEF AllCells
<1>2. ASSUME NEW st \in Seqs
      PROVE  a[st] = b[st]
  <2>1. a[st] \in [Cells -> Cell] /\ b[st] \in [Cells -> Cell]
    BY <1>1
  <2> QED
    BY <2>1
<1> QED
  BY <1>1, <1>2

LEMMA UndoneFree ==
    ASSUME NEW ub \in Microbatch, NEW slots \in SlotsFor(ub), NEW old \in Old, NEW b \in Old,
           b.all = PlaceAll(old.all, ub, slots), FreeSlots(old.all, ub, slots)
    PROVE  Undo(b, ub, slots, old).all = old.all
<1>1. old.all \in AllCells /\ Undo(b, ub, slots, old).all \in AllCells
  BY UndoneTyped DEF Old
<1>2. ASSUME NEW st \in Seqs, NEW i \in Cells
      PROVE  Undo(b, ub, slots, old).all[st][i] = old.all[st][i]
  <2>1. CASE Takes(ub, slots, st, i)
    BY <2>1, UndoneCell
  <2>2. CASE ~Takes(ub, slots, st, i)
    BY <1>1, <2>2, UndoneCell, PlacedAllFree
  <2> QED
    BY <2>1, <2>2
<1> QED
  BY <1>1, <1>2, SameCells

(* Without a window only free cells can be used. *)
LEMMA UsableAreFree ==
    ASSUME ctx \in Contexts, ctx.window = 0, NEW all, NEW ub \in Microbatch, NEW slots \in SlotsFor(ub),
           Usable(all, ub, slots)
    PROVE  FreeSlots(all, ub, slots)
<1> SUFFICES ASSUME NEW st \in Seqs, NEW i \in Cells, Takes(ub, slots, st, i)
             PROVE  all[st][i] = NoCell
  BY DEF FreeSlots
<1> DEFINE j == GroupOf(ub, st)
<1>1. Has(ub, st) /\ Among(Slot(ub, slots, st), i)
  BY DEF Takes
<1>2. j \in DOMAIN ub /\ StreamOfGroup(ub[j]) = st
  BY <1>1, GroupIs
<1>3. PICK k \in DOMAIN slots[j] : slots[j][k] = i
  BY <1>1 DEF Among, Slot
<1>4. CanUse(all[st], i)
  BY <1>2, <1>3 DEF Usable
<1> QED
  BY <1>4 DEF CanUse, Masked

(* The micro-batch that is put back as the k-th, and the states between.   *)
Back(b, k, placed, ubs) ==
    LET m == Len(placed.slots) + 1 - k IN Undo(b, ubs[m], placed.slots[m], placed.olds[m])
Backs(f, placed, ubs) ==
    /\ f[0] = [all |-> placed.all, hs |-> placed.hs]
    /\ \A k \in 1 .. Len(placed.slots) : f[k] = Back(f[k - 1], k, placed, ubs)
    /\ \A k \in 0 .. Len(placed.slots) : f[k] \in Old
    /\ Undone(placed, ubs) = f[Len(placed.slots)]

LEMMA ChainFacts ==
    ASSUME NEW all \in AllCells, NEW ubs \in Seq(Microbatch), NEW placed \in Trial,
           Chain(placed, Len(ubs), all, ubs), NEW m \in 1 .. Len(placed.slots)
    PROVE  /\ m \in 1 .. Len(ubs)
           /\ ubs[m] \in Microbatch /\ placed.slots[m] \in SlotsFor(ubs[m]) /\ placed.olds[m] \in Old
           /\ Usable(Before(placed, m), ubs[m], placed.slots[m])
           /\ Before(placed, m) = placed.olds[m].all
           /\ Before(placed, m + 1) = PlaceAll(placed.olds[m].all, ubs[m], placed.slots[m])
<1>1. Len(placed.slots) \in Nat /\ Len(ubs) \in Nat /\ placed.olds \in Seq(Old)
  BY DEF Trial
<1>2. Len(placed.slots) <= Len(ubs) /\ Len(placed.olds) = Len(placed.slots)
  BY DEF Chain
<1>3. m \in 1 .. Len(ubs) /\ m \in 1 .. Len(placed.olds) /\ m <= Len(placed.slots)
  BY <1>1, <1>2
<1>4. ubs[m] \in Microbatch /\ placed.olds[m] \in Old
  BY <1>1, <1>3
<1>5. Before(placed, m) = placed.olds[m].all
  BY <1>3 DEF Before
<1> QED
  BY <1>3, <1>4, <1>5 DEF Chain

LEMMA UndoneAre ==
    ASSUME NEW all \in AllCells, NEW ubs \in Seq(Microbatch), NEW placed \in Trial,
           Chain(placed, Len(ubs), all, ubs)
    PROVE  \E f : Backs(f, placed, ubs)
<1> DEFINE n == Len(placed.slots)
           a == [all |-> placed.all, hs |-> placed.hs]
           F == [k \in 1 .. n |-> [b \in Old |-> Back(b, k, placed, ubs)]]
           f == CHOOSE f : f = [k \in 0 .. n |-> IF k = 0 THEN a ELSE Back(f[k - 1], k, placed, ubs)]
<1>0. n \in Nat
  BY DEF Trial
<1>1. \A k \in 1 .. n, b \in Old : Back(b, k, placed, ubs) \in Old
  <2> TAKE k \in 1 .. n, b \in Old
  <2> DEFINE m == n + 1 - k
  <2>1. m \in 1 .. n
    BY <1>0
  <2> HIDE DEF m
  <2>2. ubs[m] \in Microbatch /\ placed.slots[m] \in SlotsFor(ubs[m]) /\ placed.olds[m] \in Old
    BY <2>1, ChainFacts
  <2>3. Undo(b, ubs[m], placed.slots[m], placed.olds[m]) \in Old
    BY <2>2, UndoneTyped
  <2> QED
    BY <2>3 DEF Back, m
<1>2. a \in Old
  BY DEF Old, Trial
<1>3. \A k \in 1 .. n, b \in Old : F[k][b] \in Old
  BY <1>1
<1>4. Undone(placed, ubs) = f[n]
  BY DEF Undone, Back
<1> HIDE DEF n, a
<1>5. PICK g : Iterates(g, n, Old, a, F)
  <2> HIDE DEF F
  <2> QED
    BY <1>0, <1>2, <1>3, Recursion
<1>6. g = [k \in 0 .. n |-> IF k = 0 THEN a ELSE Back(g[k - 1], k, placed, ubs)]
  <2>1. \A k \in 0 .. n : k # 0 => k \in 1 .. n /\ k - 1 \in 0 .. n
    BY <1>0
  <2>2. \A k \in 0 .. n : g[k] \in Old
    BY <1>5 DEF Iterates
  <2>3. \A k \in 0 .. n : k # 0 => F[k][g[k - 1]] = Back(g[k - 1], k, placed, ubs)
    BY <2>1, <2>2
  <2> HIDE DEF F
  <2> QED
    BY <1>5, <2>1, <2>3 DEF Iterates
<1>7. f = [k \in 0 .. n |-> IF k = 0 THEN a ELSE Back(f[k - 1], k, placed, ubs)]
  BY <1>6
<1> HIDE DEF f
<1>8. f[0] = a /\ \A k \in 1 .. n : f[k] = Back(f[k - 1], k, placed, ubs)
  BY <1>0, <1>7
<1>9. \A k \in 0 .. n : f[k] \in Old
  <2>1. \A k \in 1 .. n : f[k - 1] \in Old => f[k] \in Old
    BY <1>1, <1>8
  <2> QED
    BY <1>0, <1>2, <1>8, <2>1, Throughout
<1>10. Backs(f, placed, ubs)
  BY <1>4, <1>8, <1>9 DEF n, a, Backs
<1> QED
  BY <1>10

(* After k micro-batches are put back there is, of what was before the     *)
(* last k, the same or less.                                               *)
LEMMA UndoneLess ==
    ASSUME NEW all \in AllCells, NEW ubs \in Seq(Microbatch), NEW placed \in Trial,
           Chain(placed, Len(ubs), all, ubs)
    PROVE  Undone(placed, ubs) \in Old /\ BelowAll(Undone(placed, ubs).all, all)
<1> DEFINE n == Len(placed.slots)
<1>0. n \in Nat
  BY DEF Trial
<1>1. PICK f : Backs(f, placed, ubs)
  BY UndoneAre
<1> DEFINE S == {k \in 0 .. n : BelowAll(f[k].all, Before(placed, n + 1 - k))}
<1>2. /\ f[0].all = placed.all /\ \A k \in 1 .. n : f[k] = Back(f[k - 1], k, placed, ubs)
      /\ \A k \in 0 .. n : f[k] \in Old
      /\ Undone(placed, ubs) = f[n]
  BY <1>1 DEF Backs
<1>3. 0 \in S
  <2>1. Before(placed, n + 1) = placed.all
    BY <1>0 DEF Before
  <2> QED
    BY <1>0, <1>2, <2>1, BelowItself DEF BelowAll
<1>4. ASSUME NEW k \in 1 .. n, k - 1 \in S
      PROVE  k \in S
  <2> DEFINE m == n + 1 - k
             b == f[k - 1]
             old == placed.olds[m]
  <2>1. m \in 1 .. n /\ n + 1 - (k - 1) = m + 1 /\ k - 1 \in 0 .. n
    BY <1>0
  <2>2. BelowAll(b.all, Before(placed, m + 1)) /\ b \in Old
    BY <1>2, <1>4, <2>1
  <2>3. f[k] = Undo(b, ubs[m], placed.slots[m], old)
    BY <1>2 DEF Back
  <2> HIDE DEF n
  <2> HIDE DEF m, b
  <2>4. /\ ubs[m] \in Microbatch /\ placed.slots[m] \in SlotsFor(ubs[m]) /\ old \in Old
        /\ Before(placed, m) = old.all
        /\ Before(placed, m + 1) = PlaceAll(old.all, ubs[m], placed.slots[m])
    BY <2>1, ChainFacts DEF n
  <2> HIDE DEF old
  <2>5. BelowAll(b.all, PlaceAll(old.all, ubs[m], placed.slots[m]))
    BY <2>2, <2>4
  <2>6. BelowAll(f[k].all, Before(placed, m))
    BY <2>2, <2>3, <2>4, <2>5, UndoneBelow
  <2> QED
    BY <2>6, <1>0 DEF m
<1>5. 0 .. n \subseteq S
  <2> HIDE DEF S, n
  <2> QED
    BY <1>0, <1>3, <1>4, Upto
<1>6. n \in S
  BY <1>0, <1>5
<1>7. BelowAll(f[n].all, Before(placed, 1)) /\ f[n] \in Old
  BY <1>0, <1>2, <1>6
<1>8. Before(placed, 1) = all
  BY DEF Chain
<1> QED
  BY <1>2, <1>7, <1>8

(* Without a window, the same.                                             *)
LEMMA UndoneExactly ==
    ASSUME ctx \in Contexts, ctx.window = 0,
           NEW all \in AllCells, NEW ubs \in Seq(Microbatch), NEW placed \in Trial,
           Chain(placed, Len(ubs), all, ubs)
    PROVE  Undone(placed, ubs).all = all
<1> DEFINE n == Len(placed.slots)
<1>0. n \in Nat
  BY DEF Trial
<1>1. PICK f : Backs(f, placed, ubs)
  BY UndoneAre
<1> DEFINE S == {k \in 0 .. n : f[k].all = Before(placed, n + 1 - k)}
<1>2. /\ f[0].all = placed.all /\ \A k \in 1 .. n : f[k] = Back(f[k - 1], k, placed, ubs)
      /\ \A k \in 0 .. n : f[k] \in Old
      /\ Undone(placed, ubs) = f[n]
  BY <1>1 DEF Backs
<1>3. 0 \in S
  <2>1. Before(placed, n + 1) = placed.all
    BY <1>0 DEF Before
  <2> QED
    BY <1>0, <1>2, <2>1
<1>4. ASSUME NEW k \in 1 .. n, k - 1 \in S
      PROVE  k \in S
  <2> DEFINE m == n + 1 - k
             b == f[k - 1]
             old == placed.olds[m]
  <2>1. m \in 1 .. n /\ n + 1 - (k - 1) = m + 1 /\ k - 1 \in 0 .. n
    BY <1>0
  <2>2. b.all = Before(placed, m + 1) /\ b \in Old
    BY <1>2, <1>4, <2>1
  <2>3. f[k] = Undo(b, ubs[m], placed.slots[m], old)
    BY <1>2 DEF Back
  <2> HIDE DEF n
  <2> HIDE DEF m, b
  <2>4. /\ ubs[m] \in Microbatch /\ placed.slots[m] \in SlotsFor(ubs[m]) /\ old \in Old
        /\ Usable(old.all, ubs[m], placed.slots[m])
        /\ Before(placed, m) = old.all
        /\ Before(placed, m + 1) = PlaceAll(old.all, ubs[m], placed.slots[m])
    BY <2>1, ChainFacts DEF n
  <2> HIDE DEF old
  <2>5. FreeSlots(old.all, ubs[m], placed.slots[m])
    BY <2>4, UsableAreFree
  <2>6. f[k].all = old.all
    BY <2>2, <2>3, <2>4, <2>5, UndoneFree
  <2> QED
    BY <2>4, <2>6, <1>0 DEF m
<1>5. 0 .. n \subseteq S
  <2> HIDE DEF S, n
  <2> QED
    BY <1>0, <1>3, <1>4, Upto
<1>6. n \in S
  BY <1>0, <1>5
<1>7. f[n].all = Before(placed, 1)
  BY <1>0, <1>6
<1>8. Before(placed, 1) = all
  BY DEF Chain
<1> QED
  BY <1>2, <1>7, <1>8

-----------------------------------------------------------------------------
(* What prepare returns.                                                   *)
Entry == {e \in [ub : Microbatch, slots : Seq(Seq(Cells))] : e.slots \in SlotsFor(e.ub)}

EntriesFor(entries, ubs) ==
    Len(entries) = Len(ubs) /\ \A k \in DOMAIN entries : entries[k].ub = ubs[k]

LEMMA PreparedIs ==
    ASSUME ctx \in Contexts, NEW all \in AllCells, NEW hs \in Heads, NEW ubs \in Seq(Microbatch)
    PROVE  LET p == Prepared(all, hs, ubs)
           IN  /\ p.all \in AllCells /\ p.hs \in Heads /\ BelowAll(p.all, all)
               /\ ctx.window = 0 => p.all = all
               /\ p.todo \in Seq(Entry)
               /\ p.todo # <<>> => EntriesFor(p.todo, ubs)
<1> DEFINE p == Prepared(all, hs, ubs)
           placed == Tries(all, hs, ubs)[Len(ubs)]
           undone == Undone(placed, ubs)
           entries == [k \in DOMAIN ubs |-> [ub |-> ubs[k], slots |-> placed.slots[k]]]
<1>1. placed \in Trial /\ Chain(placed, Len(ubs), all, ubs)
  BY Chained
<1>2. p.all = undone.all /\ p.hs = undone.hs /\ p.todo = IF placed.ok THEN entries ELSE <<>>
  BY DEF Prepared
<1> HIDE DEF p, placed
<1>3. undone \in Old /\ BelowAll(undone.all, all)
  BY <1>1, UndoneLess
<1>4. ctx.window = 0 => undone.all = all
  BY <1>1, UndoneExactly
<1>5. Len(ubs) \in Nat /\ DOMAIN ubs = 1 .. Len(ubs)
  BY LenProperties
<1>6. ASSUME placed.ok
      PROVE  entries \in Seq(Entry) /\ EntriesFor(entries, ubs)
  <2>1. Len(placed.slots) = Len(ubs)
    BY <1>1, <1>6 DEF Chain
  <2>2. ASSUME NEW k \in 1 .. Len(ubs)
        PROVE  [ub |-> ubs[k], slots |-> placed.slots[k]] \in Entry
    <3>1. ubs[k] \in Microbatch /\ placed.slots[k] \in SlotsFor(ubs[k])
      BY <1>1, <2>1, ChainFacts
    <3> QED
      BY <3>1 DEF Entry, SlotsFor
  <2>3. entries \in [1 .. Len(ubs) -> Entry] /\ \A k \in 1 .. Len(ubs) : entries[k].ub = ubs[k]
    BY <1>5, <2>2
  <2> HIDE DEF entries
  <2>4. entries \in Seq(Entry) /\ Len(entries) = Len(ubs) /\ DOMAIN entries = 1 .. Len(ubs)
    BY <1>5, <2>3
  <2> QED
    BY <2>3, <2>4 DEF EntriesFor
<1> HIDE DEF entries, undone
<1>7. p.all \in AllCells /\ p.hs \in Heads /\ BelowAll(p.all, all) /\ (ctx.window = 0 => p.all = all)
  BY <1>2, <1>3, <1>4 DEF Old
<1>8. p.todo \in Seq(Entry) /\ (p.todo # <<>> => EntriesFor(p.todo, ubs))
  BY <1>2, <1>6
<1> QED
  BY <1>7, <1>8 DEF p

(* Without a window the slots of a batch are free and apart.               *)
SlotsApart(e, f) == \A st \in Seqs, i \in Cells : ~(Takes(e.ub, e.slots, st, i) /\ Takes(f.ub, f.slots, st, i))
FreeFor(all, entries) ==
    /\ \A k \in DOMAIN entries : FreeSlots(all, entries[k].ub, entries[k].slots)
    /\ \A k, l \in DOMAIN entries : k < l => SlotsApart(entries[k], entries[l])

Taking(t, ubs, m, st, i) == Takes(ubs[m], t.slots[m], st, i)
FreeUpto(t, ubs, all, n) ==
    \A st \in Seqs, i \in Cells :
        /\ Before(t, n + 1)[st][i] = NoCell => all[st][i] = NoCell
        /\ \A m \in 1 .. n : Taking(t, ubs, m, st, i) =>
              /\ all[st][i] = NoCell /\ Before(t, n + 1)[st][i] # NoCell
              /\ \A k \in 1 .. m - 1 : ~Taking(t, ubs, k, st, i)

LEMMA FreeOneMore ==
    ASSUME ctx \in Contexts, ctx.window = 0,
           NEW all \in AllCells, NEW ubs \in Seq(Microbatch), NEW placed \in Trial,
           Chain(placed, Len(ubs), all, ubs), NEW n \in 1 .. Len(placed.slots),
           FreeUpto(placed, ubs, all, n - 1)
    PROVE  FreeUpto(placed, ubs, all, n)
<1> DEFINE before == Before(placed, n)
           after == Before(placed, n + 1)
<1>0. n \in Nat \ {0} /\ (n - 1) + 1 = n
  BY DEF Trial
<1>1. /\ ubs[n] \in Microbatch /\ placed.slots[n] \in SlotsFor(ubs[n]) /\ before \in AllCells
      /\ Usable(before, ubs[n], placed.slots[n])
      /\ after = PlaceAll(before, ubs[n], placed.slots[n])
  BY ChainFacts DEF Old
<1> HIDE DEF before, after
<1>2. FreeSlots(before, ubs[n], placed.slots[n])
  BY <1>1, UsableAreFree
<1>3. ASSUME NEW st \in Seqs, NEW i \in Cells
      PROVE  /\ Taking(placed, ubs, n, st, i) => before[st][i] = NoCell /\ after[st][i] # NoCell
             /\ ~Taking(placed, ubs, n, st, i) => after[st][i] = before[st][i]
  <2>1. CASE Taking(placed, ubs, n, st, i)
    <3>1. Takes(ubs[n], placed.slots[n], st, i)
      BY <2>1 DEF Taking
    <3>2. after[st][i] = Fresh(TokenAt(ubs[n], placed.slots[n], st, i))
      BY <1>1, <1>2, <3>1, PlacedAllFree
    <3>3. TokenAt(ubs[n], placed.slots[n], st, i) \in Token
      BY <1>1, <3>1, TokenIs
    <3>4. before[st][i] = NoCell
      BY <1>2, <3>1 DEF FreeSlots
    <3> QED
      BY <2>1, <3>2, <3>3, <3>4, FreshCell
  <2>2. CASE ~Taking(placed, ubs, n, st, i)
    BY <1>1, <1>2, <2>2, PlacedAllFree DEF Taking
  <2> QED
    BY <2>1, <2>2
<1>4. ASSUME NEW st \in Seqs, NEW i \in Cells
      PROVE  /\ before[st][i] = NoCell => all[st][i] = NoCell
             /\ \A m \in 1 .. n - 1 : Taking(placed, ubs, m, st, i) =>
                   /\ all[st][i] = NoCell /\ before[st][i] # NoCell
                   /\ \A k \in 1 .. m - 1 : ~Taking(placed, ubs, k, st, i)
  BY <1>0 DEF FreeUpto, before
<1> SUFFICES ASSUME NEW st \in Seqs, NEW i \in Cells
    PROVE  /\ after[st][i] = NoCell => all[st][i] = NoCell
           /\ \A m \in 1 .. n : Taking(placed, ubs, m, st, i) =>
                 /\ all[st][i] = NoCell /\ after[st][i] # NoCell
                 /\ \A k \in 1 .. m - 1 : ~Taking(placed, ubs, k, st, i)
  BY DEF FreeUpto, after
<1>5. after[st][i] = NoCell => before[st][i] = NoCell
  BY <1>3
<1>6. ASSUME NEW m \in 1 .. n, Taking(placed, ubs, m, st, i)
      PROVE  /\ all[st][i] = NoCell /\ after[st][i] # NoCell
             /\ \A k \in 1 .. m - 1 : ~Taking(placed, ubs, k, st, i)
  <2>1. CASE m = n
    <3>1. before[st][i] = NoCell /\ after[st][i] # NoCell
      BY <1>3, <1>6, <2>1
    <3>2. \A k \in 1 .. n - 1 : ~Taking(placed, ubs, k, st, i)
      BY <1>4, <3>1
    <3> QED
      BY <1>4, <2>1, <3>1, <3>2
  <2>2. CASE m # n
    <3>1. m \in 1 .. n - 1
      BY <1>0, <2>2
    <3> QED
      BY <1>4, <1>5, <1>6, <3>1
  <2> QED
    BY <2>1, <2>2
<1> QED
  BY <1>4, <1>5, <1>6

LEMMA PreparedFree ==
    ASSUME ctx \in Contexts, ctx.window = 0,
           NEW all \in AllCells, NEW hs \in Heads, NEW ubs \in Seq(Microbatch)
    PROVE  FreeFor(all, Prepared(all, hs, ubs).todo)
<1> DEFINE todos == Prepared(all, hs, ubs).todo
           placed == Tries(all, hs, ubs)[Len(ubs)]
           entries == [k \in DOMAIN ubs |-> [ub |-> ubs[k], slots |-> placed.slots[k]]]
           n == Len(placed.slots)
           S == {k \in 0 .. n : FreeUpto(placed, ubs, all, k)}
<1>1. placed \in Trial /\ Chain(placed, Len(ubs), all, ubs)
  BY Chained
<1>2. todos = IF placed.ok THEN entries ELSE <<>>
  BY DEF Prepared
<1> HIDE DEF placed, todos
<1>0. n \in Nat
  BY <1>1 DEF Trial
<1>3. 0 \in S
  <2>1. Before(placed, 1) = all
    BY <1>1 DEF Chain
  <2>2. FreeUpto(placed, ubs, all, 0)
    BY <2>1 DEF FreeUpto
  <2> QED
    BY <1>0, <2>2
<1>4. ASSUME NEW k \in 1 .. n, k - 1 \in S
      PROVE  k \in S
  BY <1>0, <1>1, <1>4, FreeOneMore
<1>5. FreeUpto(placed, ubs, all, n)
  <2>1. 0 .. n \subseteq S
    <3> HIDE DEF S, n
    <3> QED
      BY <1>0, <1>3, <1>4, Upto
  <2> QED
    BY <1>0, <2>1
<1>6. ASSUME placed.ok
      PROVE  FreeFor(all, entries)
  <2>1. Len(ubs) = n
    BY <1>1, <1>6 DEF Chain
  <2>2. DOMAIN entries = 1 .. n
    BY <2>1
  <2>3. \A k \in 1 .. n : entries[k].ub = ubs[k] /\ entries[k].slots = placed.slots[k]
    BY <2>2
  <2> HIDE DEF entries, n
  <2>4. ASSUME NEW k \in 1 .. n
        PROVE  FreeSlots(all, entries[k].ub, entries[k].slots)
    <3>1. \A st \in Seqs, i \in Cells : Takes(ubs[k], placed.slots[k], st, i) => all[st][i] = NoCell
      BY <1>5 DEF FreeUpto, Taking
    <3> QED
      BY <2>3, <3>1 DEF FreeSlots
  <2>5. ASSUME NEW k \in 1 .. n, NEW l \in 1 .. n, k < l
        PROVE  SlotsApart(entries[k], entries[l])
    <3>1. k \in 1 .. l - 1
      BY <1>0, <2>5
    <3>2. \A st \in Seqs, i \in Cells :
            Takes(ubs[l], placed.slots[l], st, i) => ~Takes(ubs[k], placed.slots[k], st, i)
      BY <1>5, <3>1 DEF FreeUpto, Taking
    <3> QED
      BY <2>3, <3>2 DEF SlotsApart
  <2> QED
    BY <2>2, <2>4, <2>5 DEF FreeFor
<1>7. FreeFor(all, <<>>)
  BY DEF FreeFor
<1> HIDE DEF entries
<1>8. FreeFor(all, todos)
  BY <1>2, <1>6, <1>7
<1> QED
  BY <1>8 DEF todos

-----------------------------------------------------------------------------
(* Sequences of sequences, made flat. *)
Flattens(f, T, qs) ==
    /\ f \in [0 .. Len(qs) -> Seq(T)] /\ f[0] = <<>>
    /\ \A k \in 1 .. Len(qs) : f[k] = f[k - 1] \o qs[k]
    /\ FlattenSeq(qs) = f[Len(qs)]

LEMMA FlattenIs ==
    ASSUME NEW T, NEW qs \in Seq(Seq(T)), qs # <<>>
    PROVE  \E f : Flattens(f, T, qs)
<1> DEFINE n == Len(qs)
           F == [k \in 1 .. n |-> [t \in Seq(T) |-> t \o qs[k]]]
           f == CHOOSE f : f = [i \in 1 .. n |-> IF i = 1 THEN qs[i] ELSE f[i - 1] \o qs[i]]
<1>0. n \in Nat \ {0} /\ \A k \in 1 .. n : qs[k] \in Seq(T)
  BY EmptySeq
<1>1. FlattenSeq(qs) = f[n]
  BY <1>0 DEF FlattenSeq
<1> HIDE DEF n
<1>2. \A k \in 1 .. n, t \in Seq(T) : F[k][t] \in Seq(T)
  BY <1>0, ConcatProperties
<1>3. <<>> \in Seq(T)
  OBVIOUS
<1>4. PICK g : Iterates(g, n, Seq(T), <<>>, F)
  <2> HIDE DEF F
  <2> QED
    BY <1>0, <1>2, <1>3, Recursion
<1>5. /\ g \in [0 .. n -> Seq(T)] /\ g[0] = <<>>
      /\ \A k \in 1 .. n : g[k] = g[k - 1] \o qs[k]
  <2>1. \A k \in 1 .. n : k - 1 \in 0 .. n
    BY <1>0
  <2>2. g \in [0 .. n -> Seq(T)] /\ g[0] = <<>> /\ \A k \in 1 .. n : g[k] = F[k][g[k - 1]]
    BY <1>4 DEF Iterates
  <2> QED
    BY <2>1, <2>2
<1>51. g[1] = qs[1]
  <2>1. 1 \in 1 .. n /\ 1 - 1 = 0
    BY <1>0
  <2>2. g[1] = g[0] \o qs[1]
    BY <1>5, <2>1
  <2>3. <<>> \o qs[1] = qs[1]
    BY <1>0, <2>1
  <2> QED
    BY <1>5, <2>2, <2>3
<1> DEFINE h == [i \in 1 .. n |-> g[i]]
<1>6. h = [i \in 1 .. n |-> IF i = 1 THEN qs[i] ELSE h[i - 1] \o qs[i]]
  <2>1. ASSUME NEW i \in 1 .. n
        PROVE  h[i] = IF i = 1 THEN qs[i] ELSE h[i - 1] \o qs[i]
    <3>1. CASE i = 1
      <4> QED
        BY <1>0, <1>51, <3>1
    <3>2. CASE i # 1
      <4>1. i - 1 \in 1 .. n
        BY <1>0, <3>2
      <4> QED
        BY <1>5, <3>2, <4>1
    <3> QED
      BY <3>1, <3>2
  <2>2. h = [i \in 1 .. n |-> h[i]]
    OBVIOUS
  <2> HIDE DEF h
  <2> QED
    BY <2>1, <2>2
<1>7. f = [i \in 1 .. n |-> IF i = 1 THEN qs[i] ELSE f[i - 1] \o qs[i]]
  <2> HIDE DEF h
  <2> QED
    BY <1>6
<1> HIDE DEF f, h
<1>8. \A k \in 1 .. n : f[k] = g[k]
  <2> DEFINE S == {k \in 0 .. n : k # 0 => f[k] = g[k]}
  <2>1. 0 \in S
    BY <1>0
  <2>2. ASSUME NEW k \in 1 .. n, k - 1 \in S
        PROVE  k \in S
    <3>1. CASE k = 1
      <4>1. f[1] = qs[1]
        BY <1>0, <1>7
      <4> QED
        BY <1>0, <1>51, <3>1, <4>1
    <3>2. CASE k # 1
      <4>1. f[k - 1] = g[k - 1]
        BY <2>2, <3>2
      <4>2. f[k] = f[k - 1] \o qs[k] /\ g[k] = g[k - 1] \o qs[k]
        BY <1>5, <1>7, <3>2
      <4>3. f[k] = g[k]
        BY <4>1, <4>2, Zenon
      <4> QED
        BY <1>0, <4>3
    <3> QED
      BY <3>1, <3>2
  <2>3. 0 .. n \subseteq S
    <3> HIDE DEF S
    <3> QED
      BY <1>0, <2>1, <2>2, Upto
  <2> QED
    BY <1>0, <2>3
<1>9. FlattenSeq(qs) = g[n]
  BY <1>0, <1>1, <1>8
<1>10. Flattens(g, T, qs)
  BY <1>5, <1>9 DEF Flattens, n
<1> QED
  BY <1>10

LEMMA FlatTyped ==
    ASSUME NEW T, NEW qs \in Seq(Seq(T)), qs # <<>>
    PROVE  FlattenSeq(qs) \in Seq(T) /\ (qs[Len(qs)] # <<>> => FlattenSeq(qs) # <<>>)
<1>1. PICK f : Flattens(f, T, qs)
  BY FlattenIs
<1> DEFINE n == Len(qs)
<1>2. n \in Nat \ {0} /\ qs[n] \in Seq(T) /\ n \in 1 .. n
  BY EmptySeq
<1>3. f[n] \in Seq(T) /\ f[n - 1] \in Seq(T) /\ f[n] = f[n - 1] \o qs[n] /\ FlattenSeq(qs) = f[n]
  <2>1. n \in 0 .. n /\ n - 1 \in 0 .. n
    BY <1>2
  <2>2. /\ f \in [0 .. n -> Seq(T)] /\ \A k \in 1 .. n : f[k] = f[k - 1] \o qs[k]
        /\ FlattenSeq(qs) = f[n]
    BY <1>1 DEF Flattens
  <2> HIDE DEF n
  <2> QED
    BY <1>2, <2>1, <2>2
<1> HIDE DEF n
<1>4. qs[n] # <<>> => f[n] # <<>>
  <2> SUFFICES ASSUME qs[n] # <<>> PROVE f[n] # <<>>
    OBVIOUS
  <2>1. Len(qs[n]) \in Nat \ {0} /\ Len(f[n - 1]) \in Nat
    BY <1>2, <1>3, EmptySeq
  <2>2. Len(f[n]) = Len(f[n - 1]) + Len(qs[n])
    BY <1>2, <1>3, ConcatProperties
  <2>3. \A a \in Nat, b \in Nat \ {0} : a + b # 0
    OBVIOUS
  <2>4. Len(f[n]) # 0
    BY <2>1, <2>2, <2>3
  <2> QED
    BY <2>4, EmptySeq
<1> QED
  BY <1>3, <1>4 DEF n

-----------------------------------------------------------------------------
(* Splitting a batch into micro-batches: their tokens are from S, they are *)
(* small enough, and the tokens of a sequence come in their order.         *)
Small(ub) == Cardinality(TokensOf(ub)) <= Ubatch
Later(t, u) == \A s \in t.seqs \cap u.seqs : t.pos < u.pos
After(ub, vb) == \A t \in TokensOf(ub), u \in TokensOf(vb) : Later(t, u)
InTurn(q) == \A k, l \in DOMAIN q : k < l => Later(q[k], q[l])
Ascending(ubs) == \A k, l \in DOMAIN ubs : k < l => After(ubs[k], ubs[l])
From(ubs, S) == \A k \in DOMAIN ubs : TokensOf(ubs[k]) \subseteq S
AllSmall(ubs) == \A k \in DOMAIN ubs : Small(ubs[k])

LEMMA TokensAre ==
    ASSUME NEW ub
    PROVE  \A t : t \in TokensOf(ub) <=> \E j \in DOMAIN ub : \E k \in DOMAIN ub[j] : t = ub[j][k]
BY DEF TokensOf

(* A group alone, in the only stream. *)
LEMMA OneGroup ==
    ASSUME ctx.unified, NEW S \in SUBSET Token, NEW q \in Seq(S), q # <<>>
    PROVE  /\ <<q>> \in Microbatch
           /\ TokensOf(<<q>>) = {q[k] : k \in 1 .. Len(q)}
           /\ TokensOf(<<q>>) \subseteq S
           /\ Cardinality(TokensOf(<<q>>)) <= Len(q)
<1>1. Len(q) \in Nat \ {0} /\ DOMAIN q = 1 .. Len(q) /\ \A k \in 1 .. Len(q) : q[k] \in S
  BY EmptySeq, LenProperties
<1>2. q \in Seq(Token)
  <2>1. q \in [1 .. Len(q) -> Token]
    BY <1>1, LenProperties
  <2> QED
    BY <1>1, <2>1
<1>3. q \in Group
  BY <1>2 DEF Group, StreamOfGroup, StreamOf
<1>4. Cardinality(Seqs) >= 1
  <2>1. 0 \in 0 .. Cardinality(Seqs) - 1 /\ Cardinality(Seqs) \in Nat
    BY Numbers, KVAssumption
  <2> QED
    BY <2>1
<1>5. <<q>> \in Seq(Group) /\ Len(<<q>>) = 1 /\ DOMAIN <<q>> = {1} /\ <<q>>[1] = q
  BY <1>3
<1>6. <<q>> \in Microbatch
  BY <1>4, <1>5 DEF Microbatch
<1>7. TokensOf(<<q>>) = {q[k] : k \in 1 .. Len(q)}
  <2> DEFINE ub == <<q>>
  <2>1. \A t : t \in TokensOf(ub) <=> \E j \in DOMAIN ub : \E k \in DOMAIN ub[j] : t = ub[j][k]
    BY TokensAre
  <2>3. DOMAIN ub = {1} /\ ub[1] = q
    BY <1>5
  <2> HIDE DEF ub
  <2>4. \A t : t \in TokensOf(ub) <=> \E k \in DOMAIN q : t = q[k]
    BY <2>1, <2>3
  <2>2. \A t : t \in TokensOf(<<q>>) <=> \E k \in DOMAIN q : t = q[k]
    BY <2>4 DEF ub
  <2> QED
    BY <1>1, <2>2
<1>8. Cardinality(TokensOf(<<q>>)) <= Len(q)
  <2> DEFINE f == [k \in 1 .. Len(q) |-> q[k]]
             R == {q[k] : k \in 1 .. Len(q)}
  <2>1. f \in Surjection(1 .. Len(q), R)
    BY DEF Surjection
  <2>2. IsFiniteSet(1 .. Len(q)) /\ Cardinality(1 .. Len(q)) = Len(q)
    BY <1>1, FS_Interval
  <2> HIDE DEF f, R
  <2>3. Cardinality(R) <= Cardinality(1 .. Len(q))
    BY <2>1, <2>2, FS_Surjection
  <2> QED
    BY <1>7, <2>2, <2>3 DEF R
<1> QED
  BY <1>1, <1>6, <1>7, <1>8

(* The first and the last place of a chunk. *)
LEMMA ChunkBounds ==
    ASSUME NEW u \in Nat \ {0}, NEW n \in Nat, NEW k \in 1 .. (n + u - 1) \div u
    PROVE  /\ (k - 1) * u \in Nat /\ (k - 1) * u + 1 <= n /\ k * u = (k - 1) * u + u
           /\ k \in Nat \ {0}
<1> DEFINE m == (n + u - 1) \div u
<1>1. m \in Int /\ m * u <= n + u - 1
  OBVIOUS
<1> HIDE DEF m
<1>2. k \in Nat \ {0} /\ k <= m
  BY <1>1 DEF m
<1>3. k * u <= m * u
  BY <1>1, <1>2
<1>4. k * u = (k - 1) * u + u /\ (k - 1) * u \in Nat
  BY <1>2
<1> QED
  BY <1>1, <1>2, <1>3, <1>4

Chunk(q, k) == SubSeq(q, (k - 1) * Ubatch + 1, Min({k * Ubatch, Len(q)}))

LEMMA ChunkIs ==
    ASSUME NEW S, NEW q \in Seq(S), NEW k \in 1 .. (Len(q) + Ubatch - 1) \div Ubatch
    PROVE  /\ Chunk(q, k) \in Seq(S) /\ Chunk(q, k) # <<>>
           /\ Len(Chunk(q, k)) \in 1 .. Ubatch
           /\ \A j \in 1 .. Len(Chunk(q, k)) :
                /\ (k - 1) * Ubatch + j \in 1 .. Len(q)
                /\ Chunk(q, k)[j] = q[(k - 1) * Ubatch + j]
<1> DEFINE a == (k - 1) * Ubatch
           b == k * Ubatch
           n == Len(q)
           z == Min({b, n})
           c == SubSeq(q, a + 1, z)
<1>1. n \in Nat /\ Ubatch \in Nat \ {0} /\ \A i \in 1 .. n : q[i] \in S
  BY KVAssumption
<1>2. a \in Nat /\ a + 1 <= n /\ b = a + Ubatch
  <2> DEFINE u == Ubatch
  <2>1. u \in Nat \ {0} /\ k \in 1 .. (n + u - 1) \div u
    BY <1>1
  <2> HIDE DEF u, n
  <2>2. (k - 1) * u \in Nat /\ (k - 1) * u + 1 <= n /\ k * u = (k - 1) * u + u
    BY <1>1, <2>1, ChunkBounds
  <2> QED
    BY <2>2 DEF u
<1>3. Chunk(q, k) = c
  BY DEF Chunk
<1> HIDE DEF a, b, n
<1>4. z \in {b, n} /\ z <= b /\ z <= n
  <2>1. {b, n} \in SUBSET Nat
    BY <1>1, <1>2
  <2>2. Min({b, n}) \in {b, n} /\ \A y \in {b, n} : Min({b, n}) <= y
    BY <2>1, MinIs
  <2> QED
    BY <2>2
<1> HIDE DEF z
<1>5. z \in Nat /\ a + 1 <= z /\ z - a \in 1 .. Ubatch
  BY <1>1, <1>2, <1>4
<1>6. \A i \in a + 1 .. z : q[i] \in S
  BY <1>1, <1>2, <1>4, <1>5
<1>7. /\ c \in Seq(S) /\ Len(c) = z - a
      /\ \A j \in 1 .. z - a : c[j] = q[a + j]
  <2>1. a + 1 \in Int /\ z \in Int
    BY <1>2, <1>5
  <2>2. /\ c \in Seq(S) /\ Len(c) = IF a + 1 <= z THEN z - (a + 1) + 1 ELSE 0
        /\ \A j \in 1 .. z - (a + 1) + 1 : c[j] = q[(a + 1) + j - 1]
    BY <1>6, <2>1, SubSeqProperties
  <2>3. z - (a + 1) + 1 = z - a /\ \A j \in 1 .. z - a : (a + 1) + j - 1 = a + j
    BY <1>2, <1>5
  <2> HIDE DEF c
  <2> QED
    BY <1>5, <2>2, <2>3
<1> HIDE DEF c
<1>8. \A j \in 1 .. z - a : a + j \in 1 .. n
  BY <1>1, <1>2, <1>4, <1>5
<1>9. c # <<>>
  BY <1>5, <1>7, EmptySeq
<1> QED
  BY <1>3, <1>5, <1>7, <1>8, <1>9 DEF a, n

(* What a chunk holds.                                                     *)
LEMMA ChunkTokens ==
    ASSUME ctx.unified, NEW S \in SUBSET Token, NEW q \in Seq(S),
           NEW k \in 1 .. (Len(q) + Ubatch - 1) \div Ubatch
    PROVE  /\ <<Chunk(q, k)>> \in Microbatch /\ TokensOf(<<Chunk(q, k)>>) \subseteq S
           /\ Small(<<Chunk(q, k)>>)
           /\ \A t \in TokensOf(<<Chunk(q, k)>>) :
                \E j \in 1 .. Ubatch :
                    (k - 1) * Ubatch + j \in 1 .. Len(q) /\ t = q[(k - 1) * Ubatch + j]
<1> DEFINE c == Chunk(q, k)
<1>1. /\ c \in Seq(S) /\ c # <<>> /\ Len(c) \in 1 .. Ubatch
      /\ \A j \in 1 .. Len(c) :
            (k - 1) * Ubatch + j \in 1 .. Len(q) /\ c[j] = q[(k - 1) * Ubatch + j]
  BY ChunkIs
<1> HIDE DEF c
<1>2. /\ <<c>> \in Microbatch
      /\ TokensOf(<<c>>) = {c[i] : i \in 1 .. Len(c)}
      /\ TokensOf(<<c>>) \subseteq S
      /\ Cardinality(TokensOf(<<c>>)) <= Len(c)
  BY <1>1, OneGroup
<1>3. Small(<<c>>)
  <2>1. c \in Seq(Token)
    BY <1>1, LenProperties
  <2>2. IsFiniteSet(TokensOf(<<c>>))
    <3> DEFINE f == [i \in 1 .. Len(c) |-> c[i]]
               R == {c[i] : i \in 1 .. Len(c)}
    <3>1. f \in Surjection(1 .. Len(c), R)
      BY DEF Surjection
    <3>2. IsFiniteSet(1 .. Len(c))
      BY <1>1, FS_Interval
    <3> HIDE DEF f, R
    <3>3. IsFiniteSet(R)
      BY <3>1, <3>2, FS_Surjection
    <3> QED
      BY <1>2, <3>3 DEF R
  <2>3. Cardinality(TokensOf(<<c>>)) \in Nat
    BY <2>2, FS_CardinalityType
  <2> QED
    BY <1>1, <1>2, <2>3, KVAssumption DEF Small
<1>4. \A t \in TokensOf(<<c>>) :
        \E j \in 1 .. Ubatch : (k - 1) * Ubatch + j \in 1 .. Len(q) /\ t = q[(k - 1) * Ubatch + j]
  <2> DEFINE at(j) == (k - 1) * Ubatch + j
  <2>1. /\ Len(c) \in 1 .. Ubatch /\ Ubatch \in Nat
        /\ \A j \in 1 .. Len(c) : at(j) \in 1 .. Len(q) /\ c[j] = q[at(j)]
    BY <1>1, KVAssumption
  <2> HIDE DEF at
  <2>2. \A j \in 1 .. Len(c) : j \in 1 .. Ubatch
    BY <2>1
  <2>3. \A t \in TokensOf(<<c>>) : \E j \in 1 .. Ubatch : at(j) \in 1 .. Len(q) /\ t = q[at(j)]
    BY <1>2, <2>1, <2>2
  <2> QED
    BY <2>3 DEF at
<1> QED
  BY <1>2, <1>3, <1>4 DEF c

(* split_simple.                                                           *)
LEMMA ChunksAre ==
    ASSUME ctx.unified, NEW S \in SUBSET Token, NEW q \in Seq(S)
    PROVE  /\ Chunks(q) \in Seq(Microbatch) /\ From(Chunks(q), S) /\ AllSmall(Chunks(q))
           /\ InTurn(q) => Ascending(Chunks(q))
<1> DEFINE n == (Len(q) + Ubatch - 1) \div Ubatch
           ubs == Chunks(q)
<1>1. ubs = [k \in 1 .. n |-> <<Chunk(q, k)>>]
  BY DEF Chunks, Chunk
<1>2. n \in Nat
  BY KVAssumption
<1> HIDE DEF n
<1>3. \A k \in 1 .. n : /\ ubs[k] \in Microbatch /\ TokensOf(ubs[k]) \subseteq S /\ Small(ubs[k])
  BY <1>1, ChunkTokens DEF n
<1>4. ubs \in Seq(Microbatch) /\ DOMAIN ubs = 1 .. n
  <2>1. ubs \in [1 .. n -> Microbatch]
    BY <1>1, <1>3
  <2> HIDE DEF ubs
  <2> QED
    BY <1>2, <2>1
<1>5. ASSUME InTurn(q), NEW k \in 1 .. n, NEW l \in 1 .. n, k < l
      PROVE  After(ubs[k], ubs[l])
  <2> SUFFICES ASSUME NEW t \in TokensOf(ubs[k]), NEW u \in TokensOf(ubs[l])
               PROVE  Later(t, u)
    BY DEF After
  <2>1. PICK i \in 1 .. Ubatch : (k - 1) * Ubatch + i \in 1 .. Len(q) /\ t = q[(k - 1) * Ubatch + i]
    BY <1>1, ChunkTokens DEF n
  <2>2. PICK j \in 1 .. Ubatch : (l - 1) * Ubatch + j \in 1 .. Len(q) /\ u = q[(l - 1) * Ubatch + j]
    BY <1>1, ChunkTokens DEF n
  <2>3. (k - 1) * Ubatch + i < (l - 1) * Ubatch + j
    <3>1. Ubatch \in Nat /\ k \in Int /\ l \in Int /\ k <= l - 1
      BY <1>5, KVAssumption
    <3>2. k * Ubatch <= (l - 1) * Ubatch
      BY <3>1
    <3>3. k * Ubatch = (k - 1) * Ubatch + Ubatch
      BY <3>1
    <3>4. (k - 1) * Ubatch \in Int /\ (l - 1) * Ubatch \in Int /\ k * Ubatch \in Int
      BY <3>1
    <3> QED
      BY <3>1, <3>2, <3>3, <3>4
  <2>4. DOMAIN q = 1 .. Len(q)
    BY LenProperties
  <2> QED
    BY <1>5, <2>1, <2>2, <2>3, <2>4 DEF InTurn
<1> HIDE DEF ubs
<1>6. From(ubs, S) /\ AllSmall(ubs) /\ (InTurn(q) => Ascending(ubs))
  BY <1>3, <1>4, <1>5 DEF From, AllSmall, Ascending
<1> QED
  BY <1>4, <1>6 DEF ubs

-----------------------------------------------------------------------------
(* split_equal.                                                            *)
BatchOf(tokens, ss, S) ==
    /\ tokens \in [ss -> Seq(S)]
    /\ \A s \in ss : InTurn(tokens[s]) /\ \A i \in DOMAIN tokens[s] : tokens[s][i].seqs = {s}
TakenOf(tokens, ss) == {taken \in [ss -> Nat] : \A s \in ss : taken[s] <= Len(tokens[s])}

(* turns says which sequence has each token of the batch. *)
TurnsOf(turns, tokens, ss) ==
    /\ \E n \in Nat : DOMAIN turns = 1 .. n
    /\ \A k \in DOMAIN turns : turns[k] \in ss /\ Nth(turns, k) \in 1 .. Len(tokens[turns[k]])
    /\ \A k, l \in DOMAIN turns : k < l /\ turns[k] = turns[l] => Nth(turns, k) < Nth(turns, l)

(* m different elements of T. *)
Lists(order, m, T) ==
    /\ m \in Nat \ {0} /\ DOMAIN order = 1 .. m
    /\ \A k \in 1 .. m : order[k] \in T
    /\ \A k, l \in 1 .. m : k < l => order[k] # order[l]

LEMMA UptoFinite == \A k \in Nat : IsFiniteSet(1 .. k)
<1> TAKE k \in Nat
<1> QED
  BY FS_Interval

LEMMA ListedAre ==
    ASSUME NEW T, NEW order, NEW m, Lists(order, m, T)
    PROVE  /\ Range(order) \in SUBSET T /\ Range(order) = {order[k] : k \in 1 .. m}
           /\ IsFiniteSet(Range(order)) /\ Cardinality(Range(order)) = m
<1> DEFINE f == [k \in 1 .. m |-> order[k]]
           R == Range(order)
<1>1. m \in Nat \ {0} /\ R = {order[k] : k \in 1 .. m} /\ R \in SUBSET T
  BY DEF Lists, Range
<1>2. \A k, l \in 1 .. m : order[k] = order[l] => k = l
  <2> SUFFICES ASSUME NEW k \in 1 .. m, NEW l \in 1 .. m, order[k] = order[l] PROVE k = l
    OBVIOUS
  <2>1. ~(k < l) /\ ~(l < k)
    BY DEF Lists
  <2> QED
    BY <1>1, <2>1
<1>3. f \in Surjection(1 .. m, R) /\ f \in Injection(1 .. m, R)
  BY <1>1, <1>2 DEF Surjection, Injection, IsInjective
<1>4. IsFiniteSet(1 .. m) /\ Cardinality(1 .. m) = m
  <2>1. \A k \in Nat \ {0} : IsFiniteSet(1 .. k) /\ Cardinality(1 .. k) = k
    BY FS_Interval
  <2> QED
    BY <1>1, <2>1
<1> HIDE DEF f, R
<1>5. IsFiniteSet(R) /\ Cardinality(R) = m
  BY <1>3, <1>4, FS_Surjection
<1> QED
  BY <1>1, <1>5 DEF R

LEMMA ListsPrefix ==
    ASSUME NEW T, NEW order, NEW m, Lists(order, m, T), NEW n \in 1 .. m
    PROVE  Lists(SubSeq(order, 1, n), n, T)
<1> DEFINE q == SubSeq(order, 1, n)
<1>1. /\ m \in Nat \ {0} /\ n \in Nat \ {0}
      /\ \A k \in 1 .. n : k \in 1 .. m /\ order[k] \in T
  BY DEF Lists
<1>2. q \in Seq(T) /\ Len(q) = n /\ \A k \in 1 .. n : q[k] = order[k]
  <2>1. /\ SubSeq(order, 1, n) \in Seq(T)
        /\ Len(SubSeq(order, 1, n)) = IF 1 <= n THEN n - 1 + 1 ELSE 0
        /\ \A k \in 1 .. n - 1 + 1 : SubSeq(order, 1, n)[k] = order[1 + k - 1]
    BY <1>1, SubSeqProperties
  <2>2. n - 1 + 1 = n /\ 1 <= n /\ \A k \in 1 .. n : 1 + k - 1 = k
    BY <1>1
  <2> QED
    BY <2>1, <2>2
<1> HIDE DEF q
<1>3. DOMAIN q = 1 .. n
  BY <1>2, LenProperties
<1>4. Lists(q, n, T)
  BY <1>1, <1>2, <1>3 DEF Lists
<1> QED
  BY <1>4 DEF q

(* Of a row of tokens split_equal selects different sequences, at least    *)
(* one.                                                                    *)
LEMMA Selected ==
    ASSUME NEW turns, NEW n \in Nat, NEW left \in SUBSET (1 .. n), left # {}, \A k \in left : turns[k] \in Seqs
    PROVE  \E m : Lists(Together(turns, left), m, {turns[k] : k \in left})
<1> DEFINE T == {turns[k] : k \in left}
           start == turns[Min(left)]
           F == {k \in left : \A j \in left : turns[j] = turns[k] => k <= j}
           firsts == InOrder(F)
           follows(s) == \E at \in [start .. s -> left] : \A x \in start .. s :
                            turns[at[x]] = x /\ (x > start => at[x - 1] < at[x])
           W == {s \in Seqs : s >= start /\ follows(s)}
           order == IF ctx.unified THEN [j \in DOMAIN firsts |-> turns[firsts[j]]] ELSE InOrder(W)
<1>1. Together(turns, left) = SubSeq(order, 1, Min({Ubatch + 1, Len(order)}))
  BY DEF Together
<1>2. Min(left) \in left /\ \A k \in left : Min(left) <= k
  <2>1. left \in SUBSET Nat
    OBVIOUS
  <2> QED
    BY <2>1, MinIs
<1>3. start \in Nat /\ start \in Seqs
  BY <1>2, Numbers
<1>4. ASSUME ctx.unified
      PROVE  \E m : Lists(order, m, T) /\ Len(order) = m
  <2>1. F \in SUBSET Nat /\ IsFiniteSet(F) /\ F # {}
    <3>1. IsFiniteSet(1 .. n) /\ F \in SUBSET (1 .. n) /\ F \in SUBSET Nat
      <4>1. IsFiniteSet(1 .. n)
        BY UptoFinite
      <4>2. F \in SUBSET left /\ left \in SUBSET Nat
        OBVIOUS
      <4> QED
        BY <4>1, <4>2
    <3>2. IsFiniteSet(F)
      <4> HIDE DEF F
      <4> QED
        BY <3>1, FS_Subset
    <3>3. Min(left) \in F
      BY <1>2
    <3> QED
      BY <3>1, <3>2, <3>3
  <2> DEFINE m == Cardinality(F)
  <2>2. F \subseteq left /\ \A k, l \in F : turns[k] = turns[l] => k = l
    <3>1. \A k, l \in F : k \in Nat /\ l \in Nat /\ (turns[k] = turns[l] => k <= l /\ l <= k)
      OBVIOUS
    <3> QED
      BY <3>1
  <2>3. order = [j \in DOMAIN firsts |-> turns[firsts[j]]]
    BY <1>4
  <2> HIDE DEF F, order
  <2>4. /\ m \in Nat /\ DOMAIN firsts = 1 .. m
        /\ \A k \in 1 .. m : firsts[k] \in F
        /\ \A k, l \in 1 .. m : k < l => firsts[k] < firsts[l]
    BY <2>1, InOrderIs
  <2>5. m # 0
    BY <2>1, FS_EmptySet
  <2> HIDE DEF m, firsts
  <2>6. DOMAIN order = 1 .. m /\ \A k \in 1 .. m : order[k] = turns[firsts[k]]
    BY <2>3, <2>4
  <2>7. \A k \in 1 .. m : order[k] \in T
    BY <2>2, <2>4, <2>6
  <2>8. \A k, l \in 1 .. m : k < l => order[k] # order[l]
    <3> SUFFICES ASSUME NEW k \in 1 .. m, NEW l \in 1 .. m, k < l, order[k] = order[l] PROVE FALSE
      OBVIOUS
    <3>1. turns[firsts[k]] = turns[firsts[l]]
      BY <2>6
    <3>2. firsts[k] \in F /\ firsts[l] \in F /\ firsts[k] < firsts[l]
      BY <2>4
    <3>3. firsts[k] = firsts[l] /\ firsts[k] \in Nat
      BY <2>1, <2>2, <3>1, <3>2
    <3> QED
      BY <3>2, <3>3
  <2>9. Lists(order, m, T)
    BY <2>4, <2>5, <2>6, <2>7, <2>8 DEF Lists
  <2>10. Len(order) = m
    <3>1. order = [j \in 1 .. m |-> turns[firsts[j]]]
      BY <2>3, <2>4
    <3> QED
      BY <2>4, <3>1
  <2> QED
    BY <2>9, <2>10
<1>5. ASSUME ~ctx.unified
      PROVE  \E m : Lists(order, m, T) /\ Len(order) = m
  <2>1. start \in W
    <3> DEFINE at == [x \in start .. start |-> Min(left)]
    <3>1. start .. start = {start} /\ start >= start
      BY <1>3
    <3>2. at \in [start .. start -> left] /\ at[start] = Min(left)
      BY <1>2, <3>1
    <3>3. \A x \in start .. start : turns[at[x]] = x /\ ~(x > start)
      BY <1>3, <3>1, <3>2
    <3>4. follows(start)
      BY <3>2, <3>3
    <3> QED
      BY <1>3, <3>1, <3>4
  <2>2. W \subseteq T
    <3> SUFFICES ASSUME NEW s \in W PROVE s \in T
      OBVIOUS
    <3>1. s >= start /\ s \in Nat /\ follows(s)
      BY Numbers
    <3>2. s \in start .. s
      BY <1>3, <3>1
    <3>3. PICK at \in [start .. s -> left] : \A x \in start .. s : turns[at[x]] = x
      BY <3>1
    <3>4. at[s] \in left /\ turns[at[s]] = s
      BY <3>2, <3>3
    <3> QED
      BY <3>4
  <2>3. W \in SUBSET Seqs
    OBVIOUS
  <2>4. order = InOrder(W)
    BY <1>5
  <2> HIDE DEF W, order
  <2>5. W \in SUBSET Nat /\ IsFiniteSet(W)
    BY <2>3, Numbers, FS_Subset
  <2> DEFINE m == Cardinality(W)
  <2>6. /\ m \in Nat /\ DOMAIN order = 1 .. m
        /\ \A k \in 1 .. m : order[k] \in W
        /\ \A k, l \in 1 .. m : k < l => order[k] < order[l]
    BY <2>4, <2>5, InOrderIs
  <2>7. m # 0
    BY <2>1, <2>5, FS_EmptySet
  <2> HIDE DEF m
  <2>8. \A k, l \in 1 .. m : k < l => order[k] # order[l]
    <3> SUFFICES ASSUME NEW k \in 1 .. m, NEW l \in 1 .. m, k < l, order[k] = order[l] PROVE FALSE
      OBVIOUS
    <3>1. order[k] \in Nat /\ order[k] < order[l]
      BY <2>5, <2>6
    <3> QED
      BY <3>1
  <2>9. Lists(order, m, T)
    BY <2>2, <2>6, <2>7, <2>8 DEF Lists
  <2>10. Len(order) = m
    <3> DEFINE e(j) == CHOOSE x \in W : Cardinality({y \in W : y < x}) = j - 1
    <3>1. order = [j \in 1 .. m |-> e(j)]
      BY <2>4 DEF InOrder, m
    <3> HIDE DEF e
    <3> QED
      BY <2>6, <3>1
  <2> QED
    BY <2>9, <2>10
<1> HIDE DEF order
<1>6. PICK m : Lists(order, m, T) /\ Len(order) = m
  BY <1>4, <1>5
<1>7. m \in Nat \ {0} /\ Len(order) = m
  BY <1>6 DEF Lists
<1> DEFINE c == Min({Ubatch + 1, m})
<1>8. c \in 1 .. m
  <2>1. {Ubatch + 1, m} \in SUBSET Nat /\ {Ubatch + 1, m} # {}
    BY <1>7, KVAssumption
  <2>2. c \in {Ubatch + 1, m} /\ c <= m
    BY <2>1, MinIs
  <2> HIDE DEF c
  <2>3. c \in Nat \ {0}
    BY <1>7, <2>2, KVAssumption
  <2> QED
    BY <1>7, <2>2, <2>3
<1> HIDE DEF c, T
<1>9. Lists(SubSeq(order, 1, c), c, T)
  BY <1>6, <1>8, ListsPrefix
<1>10. Together(turns, left) = SubSeq(order, 1, c)
  BY <1>1, <1>7 DEF c
<1> QED
  BY <1>9, <1>10 DEF T

LEMMA ShareIs ==
    ASSUME NEW ss \in SUBSET Seqs, NEW S \in SUBSET Token, NEW tokens, BatchOf(tokens, ss, S),
           NEW taken \in TakenOf(tokens, ss), NEW sel \in SUBSET ss, \A s \in sel : taken[s] < Len(tokens[s]),
           IsFiniteSet(sel), Cardinality(sel) \in Nat \ {0}
    PROVE  /\ Share(tokens, sel, taken) \in Nat \ {0}
           /\ \A s \in sel : taken[s] + Share(tokens, sel, taken) <= Len(tokens[s])
           /\ Cardinality(sel) <= Ubatch => Cardinality(sel) * Share(tokens, sel, taken) <= Ubatch
<1> DEFINE c == Cardinality(sel)
           d == Ubatch \div c
           most == Max({1, d})
           rest == {Len(tokens[s]) - taken[s] : s \in sel}
           n == Share(tokens, sel, taken)
<1>1. Ubatch \in Nat \ {0} /\ c \in Nat \ {0}
  BY KVAssumption
<1>2. d \in Nat /\ c * d <= Ubatch /\ (c <= Ubatch => d >= 1)
  <2> DEFINE u == Ubatch
  <2>1. u \in Nat \ {0} /\ c \in Nat \ {0}
    BY <1>1
  <2>2. \A x \in Nat \ {0}, y \in Nat \ {0} :
           x \div y \in Nat /\ y * (x \div y) <= x /\ (y <= x => x \div y >= 1)
    OBVIOUS
  <2> HIDE DEF u, c
  <2>3. u \div c \in Nat /\ c * (u \div c) <= u /\ (c <= u => u \div c >= 1)
    BY <2>1, <2>2
  <2> QED
    BY <2>3 DEF u
<1>3. n = Min({most} \union rest)
  BY DEF Share
<1> HIDE DEF c, d
<1>4. most \in {1, d} /\ most >= 1 /\ most >= d
  <2>1. {1, d} \in SUBSET (0 .. d + 1) /\ d + 1 \in Nat
    BY <1>2
  <2>2. Max({1, d}) \in {1, d} /\ \A y \in {1, d} : y <= Max({1, d})
    BY <2>1, MaxIs
  <2> QED
    BY <1>2, <2>2
<1> HIDE DEF most, n
<1>5. \A s \in sel : s \in ss /\ Len(tokens[s]) \in Nat /\ taken[s] \in Nat /\ taken[s] < Len(tokens[s])
  BY DEF BatchOf, TakenOf
<1>6. \A x \in rest : x \in Nat \ {0}
  BY <1>5
<1>7. most \in Nat \ {0}
  BY <1>2, <1>4
<1>8. \A s \in sel : Len(tokens[s]) - taken[s] \in rest
  OBVIOUS
<1> HIDE DEF rest
<1> DEFINE all == {most} \union rest
<1>9. all \in SUBSET Nat /\ all # {} /\ 0 \notin all
  BY <1>6, <1>7
<1>10. n \in all /\ \A y \in all : n <= y
  <2> HIDE DEF all
  <2> QED
    BY <1>9, <1>3, MinIs DEF all
<1>11. n \in Nat \ {0} /\ n <= most /\ \A s \in sel : n <= Len(tokens[s]) - taken[s]
  BY <1>8, <1>9, <1>10
<1>12. \A s \in sel : taken[s] + n <= Len(tokens[s])
  BY <1>5, <1>11
<1>13. c <= Ubatch => c * n <= Ubatch
  <2> SUFFICES ASSUME c <= Ubatch PROVE c * n <= Ubatch
    OBVIOUS
  <2>1. n <= d
    BY <1>2, <1>4, <1>11
  <2>2. c * n <= c * d
    BY <1>1, <1>2, <1>11, <2>1
  <2> QED
    BY <1>1, <1>2, <1>11, <2>2
<1> QED
  BY <1>11, <1>12, <1>13 DEF c, n

(* The tokens taken of a sequence, and those of all.                       *)
Piece(tokens, taken, n, s) == SubSeq(tokens[s], taken[s] + 1, taken[s] + n)
Row(tokens, taken, n, order) == [j \in DOMAIN order |-> Piece(tokens, taken, n, order[j])]

PieceOf(tokens, taken, n, s, S) ==
    LET g == Piece(tokens, taken, n, s)
    IN  /\ g \in Group /\ Len(g) = n
        /\ StreamOfGroup(g) = StreamOf(s)
        /\ \A j \in 1 .. n : /\ taken[s] + j \in 1 .. Len(tokens[s])
                             /\ g[j] = tokens[s][taken[s] + j] /\ g[j] \in S

LEMMA PieceIs ==
    ASSUME ctx \in Contexts, NEW ss \in SUBSET Seqs, NEW S \in SUBSET Token, NEW tokens, BatchOf(tokens, ss, S),
           NEW taken \in TakenOf(tokens, ss), NEW s \in ss, NEW n \in Nat \ {0},
           taken[s] + n <= Len(tokens[s])
    PROVE  PieceOf(tokens, taken, n, s, S)
<1> DEFINE q == tokens[s]
           a == taken[s]
           g == Piece(tokens, taken, n, s)
<1>1. /\ q \in Seq(S) /\ Len(q) \in Nat /\ DOMAIN q = 1 .. Len(q)
      /\ \A i \in DOMAIN q : q[i] \in S /\ q[i].seqs = {s}
      /\ a \in Nat
  BY LenProperties DEF BatchOf, TakenOf
<1>2. g = SubSeq(q, a + 1, a + n)
  BY DEF Piece
<1>3. a + n <= Len(q)
  OBVIOUS
<1> HIDE DEF q, a, g
<1>4. \A j \in 1 .. n : a + j \in 1 .. Len(q)
  BY <1>1, <1>3
<1>5. /\ g \in Seq(S) /\ Len(g) = n
      /\ \A j \in 1 .. n : g[j] = q[a + j]
  <2>1. a + 1 \in Int /\ a + n \in Int /\ \A i \in a + 1 .. a + n : q[i] \in S
    BY <1>1, <1>3
  <2>2. /\ SubSeq(q, a + 1, a + n) \in Seq(S)
        /\ Len(SubSeq(q, a + 1, a + n)) = IF a + 1 <= a + n THEN (a + n) - (a + 1) + 1 ELSE 0
        /\ \A j \in 1 .. (a + n) - (a + 1) + 1 : SubSeq(q, a + 1, a + n)[j] = q[(a + 1) + j - 1]
    BY <2>1, SubSeqProperties
  <2>3. (a + n) - (a + 1) + 1 = n /\ a + 1 <= a + n /\ \A j \in 1 .. n : (a + 1) + j - 1 = a + j
    BY <1>1
  <2> HIDE DEF q
  <2> QED
    BY <1>2, <2>2, <2>3
<1>6. \A j \in 1 .. n : g[j] \in S /\ g[j].seqs = {s}
  BY <1>1, <1>4, <1>5
<1>7. g \in Seq(Token) /\ DOMAIN g = 1 .. n /\ g # <<>>
  <2>1. g \in [1 .. n -> Token]
    BY <1>5, <1>6, LenProperties
  <2> QED
    BY <1>5, <2>1, EmptySeq
<1>8. StreamOfGroup(g) = StreamOf(s)
  <2>1. g[1].seqs = {s}
    BY <1>6
  <2>2. First({s}) = s
    BY FirstIs
  <2> QED
    BY <2>1, <2>2 DEF StreamOfGroup
<1>9. g \in Group
  BY <1>6, <1>7, <1>8 DEF Group
<1> QED
  BY <1>4, <1>5, <1>6, <1>8, <1>9 DEF q, a, g, PieceOf

(* A micro-batch of groups of n tokens each.                               *)
RowOf(tokens, taken, n, order, m, S) ==
    LET row == Row(tokens, taken, n, order)
    IN  /\ row \in Seq(Group) /\ row # <<>> /\ Len(row) = m
        /\ ~ctx.unified => row \in Microbatch
        /\ \A t \in TokensOf(row) : \E s \in Range(order) : \E j \in 1 .. n : t = tokens[s][taken[s] + j]
        /\ TokensOf(row) \subseteq S
        /\ Cardinality(TokensOf(row)) <= m * n
        /\ IsFiniteSet(TokensOf(row))

LEMMA RowIs ==
    ASSUME ctx \in Contexts, NEW ss \in SUBSET Seqs, NEW S \in SUBSET Token, NEW tokens, BatchOf(tokens, ss, S),
           NEW taken \in TakenOf(tokens, ss), NEW order, NEW m, Lists(order, m, ss),
           NEW n \in Nat \ {0}, \A s \in Range(order) : taken[s] + n <= Len(tokens[s])
    PROVE  RowOf(tokens, taken, n, order, m, S)
<1> DEFINE sel == Range(order)
           row == Row(tokens, taken, n, order)
           P(s) == Piece(tokens, taken, n, s)
<1>1. sel \in SUBSET ss /\ sel \in SUBSET Nat /\ m \in Nat \ {0}
  BY ListedAre, Numbers DEF Lists
<1>2. /\ DOMAIN order = 1 .. m /\ \A k \in 1 .. m : order[k] \in sel
      /\ \A k, l \in 1 .. m : k < l => order[k] # order[l]
  <2>1. sel = {order[k] : k \in 1 .. m}
    BY ListedAre
  <2> HIDE DEF sel
  <2>2. \A k \in 1 .. m : order[k] \in sel
    BY <2>1
  <2> QED
    BY <2>2 DEF Lists
<1>3. row = [j \in 1 .. m |-> P(order[j])]
  BY <1>2 DEF Row
<1> HIDE DEF sel
<1>4. \A s \in sel : /\ P(s) \in Group /\ Len(P(s)) = n
                     /\ StreamOfGroup(P(s)) = StreamOf(s)
                     /\ \A j \in 1 .. n : P(s)[j] = tokens[s][taken[s] + j] /\ P(s)[j] \in S
  <2> TAKE s \in sel
  <2>1. s \in ss /\ taken[s] + n <= Len(tokens[s])
    BY <1>1 DEF sel
  <2>2. PieceOf(tokens, taken, n, s, S)
    BY <2>1, PieceIs
  <2> QED
    BY <2>2 DEF PieceOf
<1> HIDE DEF P, row
<1>5. row \in Seq(Group) /\ Len(row) = m /\ DOMAIN row = 1 .. m /\ row # <<>>
  <2>1. row \in [1 .. m -> Group]
    BY <1>2, <1>3, <1>4
  <2>2. row \in Seq(Group) /\ Len(row) = m
    BY <1>1, <2>1
  <2> QED
    BY <1>1, <2>1, <2>2, EmptySeq
<1>6. ASSUME ~ctx.unified
      PROVE  row \in Microbatch
  <2>1. ASSUME NEW i \in 1 .. m, NEW j \in 1 .. m, StreamOfGroup(row[i]) = StreamOfGroup(row[j])
        PROVE  i = j
    <3>1. StreamOfGroup(row[i]) = order[i] /\ StreamOfGroup(row[j]) = order[j]
      BY <1>2, <1>3, <1>4, <1>6 DEF StreamOf
    <3>2. order[i] = order[j] /\ order[i] \in Nat
      BY <1>1, <1>2, <2>1, <3>1
    <3>3. ~(i < j) /\ ~(j < i)
      BY <1>2, <3>2
    <3> QED
      BY <1>1, <3>3
  <2>2. m <= Cardinality(Seqs)
    <3>1. sel \in SUBSET Seqs /\ Cardinality(sel) = m
      <4>1. Cardinality(sel) = m
        BY ListedAre DEF sel
      <4> QED
        BY <1>1, <4>1
    <3> QED
      BY <3>1, Numbers, FS_Subset
  <2> QED
    BY <1>5, <2>1, <2>2 DEF Microbatch
<1>7. \A j \in 1 .. m : /\ row[j] = P(order[j]) /\ DOMAIN row[j] = 1 .. n
  <2> TAKE j \in 1 .. m
  <2>1. row[j] = P(order[j]) /\ P(order[j]) \in Group /\ Len(P(order[j])) = n
    BY <1>2, <1>3, <1>4
  <2>2. P(order[j]) \in Seq(Token)
    BY <2>1 DEF Group
  <2> QED
    BY <2>1, <2>2, LenProperties
<1>8. ASSUME NEW t \in TokensOf(row)
      PROVE  \E s \in sel : \E j \in 1 .. n : t = tokens[s][taken[s] + j] /\ t \in S
  <2>1. PICK i \in 1 .. m : \E j \in 1 .. n : t = row[i][j]
    BY <1>5, <1>7, TokensAre
  <2>2. PICK j \in 1 .. n : t = row[i][j]
    BY <2>1
  <2>3. order[i] \in sel /\ t = P(order[i])[j]
    BY <1>2, <1>7, <2>2
  <2> QED
    BY <1>4, <2>3
<1>9. Cardinality(TokensOf(row)) <= m * n /\ IsFiniteSet(TokensOf(row))
  <2> DEFINE pairs == (1 .. m) \X (1 .. n)
             f == [p \in pairs |-> row[p[1]][p[2]]]
  <2>1. f \in Surjection(pairs, TokensOf(row))
    <3>1. \A p \in pairs : p[1] \in 1 .. m /\ p[2] \in 1 .. n
      OBVIOUS
    <3>2. \A p \in pairs : f[p] \in TokensOf(row)
      <4> TAKE p \in pairs
      <4>1. p[1] \in DOMAIN row /\ p[2] \in DOMAIN row[p[1]] /\ f[p] = row[p[1]][p[2]]
        BY <1>5, <1>7, <3>1
      <4> HIDE DEF f, pairs
      <4> QED
        BY <4>1, TokensAre
    <3>3. ASSUME NEW t \in TokensOf(row)
          PROVE  \E p \in pairs : f[p] = t
      <4>1. PICK i \in DOMAIN row : \E j \in DOMAIN row[i] : t = row[i][j]
        BY TokensAre
      <4>2. PICK j \in DOMAIN row[i] : t = row[i][j]
        BY <4>1
      <4>3. <<i, j>> \in pairs
        BY <1>5, <1>7
      <4>4. f[<<i, j>>] = t
        BY <4>2, <4>3
      <4> QED
        BY <4>3, <4>4
    <3>4. f \in [pairs -> TokensOf(row)]
      BY <3>2
    <3> HIDE DEF f, pairs
    <3> QED
      BY <3>3, <3>4 DEF Surjection
  <2>2. IsFiniteSet(1 .. m) /\ Cardinality(1 .. m) = m /\ IsFiniteSet(1 .. n) /\ Cardinality(1 .. n) = n
    <3>1. \A k \in Nat \ {0} : IsFiniteSet(1 .. k) /\ Cardinality(1 .. k) = k
      BY FS_Interval
    <3> QED
      BY <1>1, <3>1
  <2>3. IsFiniteSet(pairs) /\ Cardinality(pairs) = m * n
    BY <2>2, FS_Product
  <2> HIDE DEF f, pairs
  <2>4. Cardinality(TokensOf(row)) <= Cardinality(pairs) /\ IsFiniteSet(TokensOf(row))
    BY <2>1, <2>3, FS_Surjection
  <2> QED
    BY <2>3, <2>4
<1>10. TokensOf(row) \subseteq S /\ \A t \in TokensOf(row) : \E s \in sel : \E j \in 1 .. n : t = tokens[s][taken[s] + j]
  BY <1>8
<1> QED
  BY <1>5, <1>6, <1>9, <1>10 DEF sel, row, RowOf

Even(ub, S) ==
    /\ ub # <<>> /\ TokensOf(ub) \subseteq S /\ IsFiniteSet(TokensOf(ub))
    /\ ~ctx.unified => ub \in Microbatch
    /\ Cardinality(Seqs) <= Ubatch => Small(ub)
OfTaken(ub, tokens, taken, ss) ==
    \A u \in TokensOf(ub) : \E s \in ss : \E i \in 1 .. taken[s] : u = tokens[s][i]
Shares(tokens, ss, S) ==
    {t \in [taken : TakenOf(tokens, ss), ubs : Seq(Seq(Group))] :
        /\ \A k \in DOMAIN t.ubs : Even(t.ubs[k], S) /\ OfTaken(t.ubs[k], tokens, t.taken, ss)
        /\ Ascending(t.ubs)}

NextRow(tokens, turns, taken, ss, S) ==
    LET order == Together(turns, Left(turns, taken))
        n == Share(tokens, Range(order), taken)
    IN  /\ Range(order) \in SUBSET ss
        /\ n \in Nat \ {0} /\ \A s \in Range(order) : taken[s] + n <= Len(tokens[s])
        /\ \E m : RowOf(tokens, taken, n, order, m, S)
        /\ Even(Row(tokens, taken, n, order), S)

LEMMA RowIsEven ==
    ASSUME ctx \in Contexts, NEW ss \in SUBSET Seqs, NEW S \in SUBSET Token, NEW tokens, BatchOf(tokens, ss, S),
           NEW turns, TurnsOf(turns, tokens, ss),
           NEW taken \in TakenOf(tokens, ss), Left(turns, taken) # {}
    PROVE  NextRow(tokens, turns, taken, ss, S)
<1> DEFINE left == Left(turns, taken)
           order == Together(turns, left)
           sel == Range(order)
           n == Share(tokens, sel, taken)
           row == Row(tokens, taken, n, order)
<1>1. PICK N \in Nat : DOMAIN turns = 1 .. N
  BY DEF TurnsOf
<1>2. left \in SUBSET (1 .. N) /\ left # {}
  BY <1>1 DEF Left
<1>3. \A k \in left : turns[k] \in ss /\ taken[turns[k]] < Len(tokens[turns[k]])
  <2> SUFFICES ASSUME NEW k \in left PROVE turns[k] \in ss /\ taken[turns[k]] < Len(tokens[turns[k]])
    OBVIOUS
  <2>1. k \in DOMAIN turns /\ Nth(turns, k) > taken[turns[k]]
    BY DEF Left
  <2>2. turns[k] \in ss /\ Nth(turns, k) \in 1 .. Len(tokens[turns[k]])
    BY <2>1 DEF TurnsOf
  <2>3. taken[turns[k]] \in Nat /\ Len(tokens[turns[k]]) \in Nat
    BY <2>2, LenProperties DEF TakenOf, BatchOf
  <2> DEFINE x == Nth(turns, k)
             y == taken[turns[k]]
             z == Len(tokens[turns[k]])
  <2>4. x \in 1 .. z /\ x > y /\ y \in Nat /\ z \in Nat
    BY <2>1, <2>2, <2>3
  <2> HIDE DEF x, y, z
  <2>5. y < z
    BY <2>4
  <2> QED
    BY <2>2, <2>5 DEF y, z
<1> HIDE DEF left
<1> DEFINE T == {turns[k] : k \in left}
<1>4. PICK m : Lists(order, m, T)
  <2>1. \A k \in left : turns[k] \in Seqs
    BY <1>3
  <2> QED
    BY <1>2, <2>1, Selected
<1>5. T \subseteq ss /\ \A s \in T : taken[s] < Len(tokens[s])
  BY <1>3
<1> HIDE DEF order, T
<1>6. Lists(order, m, ss)
  BY <1>4, <1>5 DEF Lists
<1>7. /\ sel \in SUBSET ss /\ sel \in SUBSET T /\ IsFiniteSet(sel) /\ Cardinality(sel) = m /\ m \in Nat \ {0}
      /\ m <= Cardinality(Seqs)
  <2>1. /\ sel \in SUBSET ss /\ IsFiniteSet(sel) /\ Cardinality(sel) = m
    BY <1>6, ListedAre
  <2>2. sel \in SUBSET T
    BY <1>4, ListedAre
  <2>3. m \in Nat \ {0}
    BY <1>4 DEF Lists
  <2> HIDE DEF sel
  <2>4. sel \in SUBSET Seqs
    BY <2>1
  <2>5. Cardinality(sel) <= Cardinality(Seqs)
    BY <2>4, Numbers, FS_Subset
  <2> QED
    BY <2>1, <2>2, <2>3, <2>5
<1>8. /\ n \in Nat \ {0} /\ \A s \in sel : taken[s] + n <= Len(tokens[s])
      /\ m <= Ubatch => m * n <= Ubatch
  <2>1. \A s \in sel : taken[s] < Len(tokens[s])
    BY <1>5, <1>7
  <2> HIDE DEF sel
  <2>2. Cardinality(sel) \in Nat \ {0}
    BY <1>7
  <2>3. /\ n \in Nat \ {0} /\ \A s \in sel : taken[s] + n <= Len(tokens[s])
        /\ Cardinality(sel) <= Ubatch => Cardinality(sel) * n <= Ubatch
    BY <1>7, <2>1, <2>2, ShareIs
  <2> QED
    BY <1>7, <2>3
<1> HIDE DEF n
<1>9. RowOf(tokens, taken, n, order, m, S)
  BY <1>6, <1>8, RowIs
<1> HIDE DEF row
<1>10. /\ row # <<>> /\ TokensOf(row) \subseteq S /\ (~ctx.unified => row \in Microbatch)
       /\ Cardinality(TokensOf(row)) <= m * n
       /\ IsFiniteSet(TokensOf(row))
  BY <1>9 DEF RowOf, row
<1>11. Cardinality(Seqs) <= Ubatch => Small(row)
  <2> SUFFICES ASSUME Cardinality(Seqs) <= Ubatch PROVE Cardinality(TokensOf(row)) <= Ubatch
    BY DEF Small
  <2> DEFINE x == Cardinality(TokensOf(row))
             y == m * n
             z == Cardinality(Seqs)
  <2>1. m \in Nat /\ x \in Nat /\ y \in Nat /\ z \in Nat /\ Ubatch \in Nat
    BY <1>7, <1>8, <1>10, FS_CardinalityType, Numbers, KVAssumption
  <2>2. m <= z /\ z <= Ubatch /\ x <= y /\ (m <= Ubatch => y <= Ubatch)
    BY <1>7, <1>8, <1>10
  <2> HIDE DEF x, y, z
  <2>3. x <= Ubatch
    BY <2>1, <2>2
  <2> QED
    BY <2>3 DEF x
<1>12. Even(row, S)
  BY <1>10, <1>11 DEF Even
<1> QED
  BY <1>7, <1>8, <1>9, <1>12 DEF left, order, sel, n, row, NextRow

LEMMA TakenEqual ==
    ASSUME ctx \in Contexts, NEW ss \in SUBSET Seqs, NEW S \in SUBSET Token, NEW tokens, BatchOf(tokens, ss, S),
           NEW turns, TurnsOf(turns, tokens, ss),
           NEW t \in Shares(tokens, ss, S), Left(turns, t.taken) # {}
    PROVE  TakeEqual(tokens, turns, t) \in Shares(tokens, ss, S)
<1> DEFINE taken == t.taken
           order == Together(turns, Left(turns, taken))
           sel == Range(order)
           n == Share(tokens, sel, taken)
           row == Row(tokens, taken, n, order)
           new == [s \in ss |-> taken[s] + (IF s \in sel THEN n ELSE 0)]
           ubs == Append(t.ubs, row)
           m == Len(t.ubs)
<1>1. /\ taken \in TakenOf(tokens, ss) /\ t.ubs \in Seq(Seq(Group)) /\ Ascending(t.ubs)
      /\ \A k \in DOMAIN t.ubs : Even(t.ubs[k], S) /\ OfTaken(t.ubs[k], tokens, taken, ss)
  BY DEF Shares
<1>2. DOMAIN tokens = ss /\ \A s \in ss : tokens[s] \in Seq(S) /\ Len(tokens[s]) \in Nat /\ taken[s] \in Nat
  BY <1>1, LenProperties DEF BatchOf, TakenOf
<1>3. TakeEqual(tokens, turns, t) = [taken |-> new, ubs |-> ubs]
  BY <1>2 DEF TakeEqual, Row, Piece
<1> HIDE DEF taken
<1>4. /\ sel \in SUBSET ss /\ n \in Nat \ {0} /\ \A s \in sel : taken[s] + n <= Len(tokens[s])
      /\ \E k : RowOf(tokens, taken, n, order, k, S)
      /\ Even(row, S)
  <2>1. NextRow(tokens, turns, taken, ss, S)
    BY <1>1, RowIsEven DEF taken
  <2> QED
    BY <2>1 DEF NextRow
<1> HIDE DEF n
<1>5. row \in Seq(Group) /\ \A u \in TokensOf(row) : \E s \in sel : \E j \in 1 .. n : u = tokens[s][taken[s] + j]
  BY <1>4 DEF RowOf
<1> HIDE DEF row, sel, order
<1>6. m \in Nat /\ DOMAIN t.ubs = 1 .. m
  BY <1>1, LenProperties
<1>7. /\ ubs \in Seq(Seq(Group)) /\ DOMAIN ubs = 1 .. m + 1
      /\ ubs[m + 1] = row /\ \A k \in 1 .. m : ubs[k] = t.ubs[k]
  BY <1>1, <1>5, <1>6, AppendProperties, LenProperties
<1> HIDE DEF ubs, m
<1>8. new \in TakenOf(tokens, ss) /\ \A s \in ss : new[s] >= taken[s] /\ (s \in sel => new[s] = taken[s] + n)
  <2>1. \A s \in ss : taken[s] <= Len(tokens[s])
    BY <1>1 DEF TakenOf
  <2>2. \A s \in ss : new[s] \in Nat /\ new[s] <= Len(tokens[s])
    BY <1>2, <1>4, <2>1
  <2>3. new \in [ss -> Nat]
    BY <1>2, <1>4
  <2>4. \A s \in ss : new[s] >= taken[s] /\ (s \in sel => new[s] = taken[s] + n)
    BY <1>2, <1>4
  <2> HIDE DEF new
  <2> QED
    BY <2>2, <2>3, <2>4 DEF TakenOf
<1> HIDE DEF new
<1>9. \A s \in ss : new[s] \in Nat
  BY <1>8 DEF TakenOf
<1>10. ASSUME NEW k \in 1 .. m + 1
       PROVE  Even(ubs[k], S) /\ OfTaken(ubs[k], tokens, new, ss)
  <2>1. CASE k = m + 1
    <3>1. ASSUME NEW u \in TokensOf(row)
          PROVE  \E s \in ss : \E i \in 1 .. new[s] : u = tokens[s][i]
      <4>1. PICK s \in sel : \E j \in 1 .. n : u = tokens[s][taken[s] + j]
        BY <1>5
      <4>2. PICK j \in 1 .. n : u = tokens[s][taken[s] + j]
        BY <4>1
      <4>3. s \in ss /\ taken[s] + j \in 1 .. new[s]
        BY <1>2, <1>4, <1>8
      <4> QED
        BY <4>2, <4>3
    <3> QED
      BY <1>4, <1>7, <2>1, <3>1 DEF OfTaken
  <2>2. CASE k # m + 1
    <3>1. k \in 1 .. m /\ ubs[k] = t.ubs[k]
      BY <1>6, <1>7, <2>2
    <3>2. Even(ubs[k], S) /\ OfTaken(ubs[k], tokens, taken, ss)
      BY <1>1, <1>6, <3>1
    <3>3. \A s \in ss : \A i \in 1 .. taken[s] : i \in 1 .. new[s]
      BY <1>2, <1>8, <1>9
    <3> QED
      BY <3>2, <3>3 DEF OfTaken
  <2> QED
    BY <2>1, <2>2
<1>11. ASSUME NEW k \in 1 .. m + 1, NEW l \in 1 .. m + 1, k < l
       PROVE  After(ubs[k], ubs[l])
  <2>0. k \in 1 .. m /\ ubs[k] = t.ubs[k]
    BY <1>6, <1>7, <1>11
  <2>1. CASE l = m + 1
    <3> SUFFICES ASSUME NEW u \in TokensOf(t.ubs[k]), NEW v \in TokensOf(row) PROVE Later(u, v)
      BY <1>7, <2>0, <2>1 DEF After
    <3>1. PICK s \in ss : \E i \in 1 .. taken[s] : u = tokens[s][i]
      BY <1>1, <1>6, <2>0 DEF OfTaken
    <3>2. PICK i \in 1 .. taken[s] : u = tokens[s][i]
      BY <3>1
    <3>3. PICK r \in sel : \E j \in 1 .. n : v = tokens[r][taken[r] + j]
      BY <1>5
    <3>4. PICK j \in 1 .. n : v = tokens[r][taken[r] + j]
      BY <3>3
    <3>5. i \in 1 .. Len(tokens[s]) /\ taken[r] + j \in 1 .. Len(tokens[r]) /\ r \in ss
      BY <1>1, <1>2, <1>4 DEF TakenOf
    <3>6. i \in DOMAIN tokens[s] /\ taken[r] + j \in DOMAIN tokens[r]
      BY <1>2, <1>4, <3>5, LenProperties
    <3>7. u.seqs = {s} /\ v.seqs = {r} /\ InTurn(tokens[s])
      BY <1>4, <3>2, <3>4, <3>5, <3>6 DEF BatchOf
    <3>8. CASE s = r
      <4>1. i < taken[r] + j
        BY <1>2, <3>5, <3>8
      <4>2. Later(tokens[s][i], tokens[s][taken[r] + j])
        BY <3>6, <3>7, <3>8, <4>1 DEF InTurn
      <4> QED
        BY <3>2, <3>4, <3>8, <4>2
    <3>9. CASE s # r
      BY <3>7, <3>9 DEF Later
    <3> QED
      BY <3>8, <3>9
  <2>2. CASE l # m + 1
    <3>1. l \in 1 .. m /\ ubs[l] = t.ubs[l]
      BY <1>6, <1>7, <2>2
    <3> QED
      BY <1>1, <1>6, <1>11, <2>0, <3>1 DEF Ascending
  <2> QED
    BY <2>1, <2>2
<1>12. Ascending(ubs)
  BY <1>7, <1>11 DEF Ascending
<1>13. [taken |-> new, ubs |-> ubs] \in Shares(tokens, ss, S)
  BY <1>7, <1>8, <1>10, <1>12 DEF Shares
<1> QED
  BY <1>3, <1>13

LEMMA FiniteMax ==
    ASSUME NEW T \in SUBSET Nat, IsFiniteSet(T), T # {}
    PROVE  Max(T) \in T
<1> DEFINE n == Cardinality(T)
           order == InOrder(T)
<1>1. /\ n \in Nat /\ \A k \in 1 .. n : order[k] \in T
      /\ \A k, l \in 1 .. n : k < l => order[k] < order[l]
      /\ \A x \in T : \E k \in 1 .. n : order[k] = x
  BY InOrderIs
<1> HIDE DEF n, order
<1>2. n \in 1 .. n /\ order[n] \in Nat
  <2>1. PICK x \in T : TRUE
    OBVIOUS
  <2>2. PICK k \in 1 .. n : order[k] = x
    BY <1>1, <2>1
  <2>3. n \in 1 .. n
    BY <1>1, <2>2
  <2> QED
    BY <1>1, <2>3
<1>3. \A x \in T : x \in 0 .. order[n]
  <2> TAKE x \in T
  <2>1. PICK k \in 1 .. n : order[k] = x
    BY <1>1
  <2>2. k = n \/ k < n
    BY <1>2
  <2>3. x = order[n] \/ x < order[n]
    BY <1>1, <1>2, <2>1, <2>2
  <2>4. x \in Nat
    OBVIOUS
  <2> QED
    BY <1>2, <2>3, <2>4
<1>4. T \in SUBSET (0 .. order[n])
  BY <1>3
<1> QED
  BY <1>2, <1>4, MaxIs

LEMMA EqualStepsAre ==
    ASSUME ctx \in Contexts, NEW ss \in SUBSET Seqs, NEW S \in SUBSET Token, NEW tokens, BatchOf(tokens, ss, S),
           NEW turns, TurnsOf(turns, tokens, ss), NEW n \in Nat
    PROVE  EqualSteps(tokens, turns, n)[n] \in Shares(tokens, ss, S)
<1> DEFINE T == Shares(tokens, ss, S)
           a == [taken |-> [s \in DOMAIN tokens |-> 0], ubs |-> <<>>]
           Step(t) == IF Left(turns, t.taken) = {} THEN t ELSE TakeEqual(tokens, turns, t)
           F == [k \in 1 .. n |-> [t \in T |-> Step(t)]]
           f == EqualSteps(tokens, turns, n)
<1>1. \A t \in T : Step(t) \in T
  BY TakenEqual
<1>2. a \in T
  <2>1. DOMAIN tokens = ss /\ \A s \in ss : Len(tokens[s]) \in Nat
    BY LenProperties DEF BatchOf
  <2>2. [s \in DOMAIN tokens |-> 0] \in TakenOf(tokens, ss)
    BY <2>1 DEF TakenOf
  <2>3. <<>> \in Seq(Seq(Group)) /\ DOMAIN <<>> = {} /\ Ascending(<<>>)
    BY DEF Ascending
  <2> QED
    BY <2>2, <2>3 DEF Shares
<1>3. \A k \in 1 .. n, t \in T : F[k][t] \in T
  BY <1>1
<1>4. f = CHOOSE h : h = [k \in 0 .. n |-> IF k = 0 THEN a
                            ELSE IF Left(turns, h[k - 1].taken) = {} THEN h[k - 1]
                            ELSE TakeEqual(tokens, turns, h[k - 1])]
  BY DEF EqualSteps
<1> HIDE DEF a, f, T
<1>5. PICK g : Iterates(g, n, T, a, F)
  <2> HIDE DEF F
  <2> QED
    BY <1>2, <1>3, Recursion
<1>6. g = [k \in 0 .. n |-> IF k = 0 THEN a ELSE Step(g[k - 1])]
  <2>1. \A k \in 0 .. n : k # 0 => k \in 1 .. n /\ k - 1 \in 0 .. n
    OBVIOUS
  <2>2. \A k \in 0 .. n : g[k] \in T
    BY <1>5 DEF Iterates
  <2>3. \A k \in 0 .. n : k # 0 => F[k][g[k - 1]] = Step(g[k - 1])
    BY <2>1, <2>2
  <2> HIDE DEF F, Step
  <2> QED
    BY <1>5, <2>1, <2>3 DEF Iterates
<1>7. f = [k \in 0 .. n |-> IF k = 0 THEN a ELSE Step(f[k - 1])]
  BY <1>4, <1>6
<1> HIDE DEF Step, F
<1>8. f[0] = a /\ \A k \in 1 .. n : f[k] = Step(f[k - 1])
  BY <1>7
<1>9. \A k \in 0 .. n : f[k] \in T
  <2>1. \A k \in 1 .. n : f[k - 1] \in T => f[k] \in T
    BY <1>1, <1>8
  <2> QED
    BY <1>2, <1>8, <2>1, Throughout
<1> QED
  BY <1>9 DEF f, T

LEMMA EqualSplitIs ==
    ASSUME ctx \in Contexts, NEW ss \in SUBSET Seqs, ss # {}, NEW S \in SUBSET Token,
           NEW tokens, BatchOf(tokens, ss, S), NEW turns, TurnsOf(turns, tokens, ss)
    PROVE  /\ EqualSplit(tokens, turns) \in Seq(Seq(Group))
           /\ \A k \in DOMAIN EqualSplit(tokens, turns) : Even(EqualSplit(tokens, turns)[k], S)
           /\ Ascending(EqualSplit(tokens, turns))
<1> DEFINE R == {Len(tokens[s]) : s \in DOMAIN tokens}
           n == Cardinality(DOMAIN tokens) * Max(R)
<1>1. DOMAIN tokens = ss /\ \A s \in ss : Len(tokens[s]) \in Nat
  BY LenProperties DEF BatchOf
<1>2. IsFiniteSet(ss) /\ Cardinality(ss) \in Nat
  BY Numbers, FS_Subset, FS_CardinalityType
<1>3. R \in SUBSET Nat /\ R # {}
  BY <1>1
<1>4. IsFiniteSet(R)
  <2> DEFINE f == [s \in ss |-> Len(tokens[s])]
  <2>1. f \in Surjection(ss, R)
    BY <1>1 DEF Surjection
  <2> HIDE DEF f, R
  <2> QED
    BY <1>2, <2>1, FS_Surjection
<1>5. n \in Nat
  <2> HIDE DEF R
  <2>1. Max(R) \in Nat
    BY <1>3, <1>4, FiniteMax
  <2> QED
    BY <1>1, <1>2, <2>1
<1>6. EqualSplit(tokens, turns) = EqualSteps(tokens, turns, n)[n].ubs
  BY DEF EqualSplit
<1> HIDE DEF n
<1>7. EqualSteps(tokens, turns, n)[n] \in Shares(tokens, ss, S)
  BY <1>5, EqualStepsAre
<1> QED
  BY <1>6, <1>7 DEF Shares

(* The tokens of a batch, in its order: each sequence's ascend.            *)
LEMMA InTurnsIs ==
    ASSUME NEW ss \in SUBSET Seqs, NEW S \in SUBSET Token, NEW tokens, BatchOf(tokens, ss, S),
           NEW turns, TurnsOf(turns, tokens, ss)
    PROVE  InTurns(tokens, turns) \in Seq(S) /\ InTurn(InTurns(tokens, turns))
<1> DEFINE q == InTurns(tokens, turns)
           at(k) == Nth(turns, k)
<1>1. PICK n \in Nat : DOMAIN turns = 1 .. n
  BY DEF TurnsOf
<1>2. q = [k \in 1 .. n |-> tokens[turns[k]][at(k)]]
  BY <1>1 DEF InTurns
<1>3. \A k \in 1 .. n : turns[k] \in ss /\ at(k) \in 1 .. Len(tokens[turns[k]])
  BY <1>1 DEF TurnsOf
<1>4. \A k, l \in 1 .. n : k < l /\ turns[k] = turns[l] => at(k) < at(l)
  BY <1>1 DEF TurnsOf
<1> HIDE DEF at, q
<1>5. \A s \in ss : DOMAIN tokens[s] = 1 .. Len(tokens[s]) /\ \A i \in DOMAIN tokens[s] : tokens[s][i] \in S
  BY LenProperties DEF BatchOf
<1>6. \A k \in 1 .. n : q[k] \in S /\ q[k] = tokens[turns[k]][at(k)] /\ at(k) \in DOMAIN tokens[turns[k]]
  BY <1>2, <1>3, <1>5
<1>7. q \in Seq(S) /\ DOMAIN q = 1 .. n
  <2>1. q \in [1 .. n -> S]
    BY <1>2, <1>6
  <2> QED
    BY <2>1
<1>8. ASSUME NEW k \in 1 .. n, NEW l \in 1 .. n, k < l
      PROVE  Later(q[k], q[l])
  <2>1. CASE turns[k] = turns[l]
    <3> DEFINE s == turns[k]
    <3>1. /\ s \in ss /\ InTurn(tokens[s]) /\ at(k) < at(l)
          /\ at(k) \in DOMAIN tokens[s] /\ at(l) \in DOMAIN tokens[s]
          /\ q[k] = tokens[s][at(k)] /\ q[l] = tokens[s][at(l)]
      BY <1>3, <1>4, <1>6, <1>8, <2>1 DEF BatchOf
    <3> HIDE DEF s
    <3> QED
      BY <3>1 DEF InTurn
  <2>2. CASE turns[k] # turns[l]
    <3>1. q[k].seqs = {turns[k]} /\ q[l].seqs = {turns[l]}
      BY <1>3, <1>6 DEF BatchOf
    <3> QED
      BY <2>2, <3>1 DEF Later
  <2> QED
    BY <2>1, <2>2
<1>9. InTurn(q)
  BY <1>7, <1>8 DEF InTurn
<1> QED
  BY <1>7, <1>9 DEF q

LEMMA TurnsAre ==
    ASSUME NEW ss \in SUBSET Seqs, NEW len \in [ss -> Nat], NEW turns \in Turns(len),
           NEW tokens, \A s \in ss : Len(tokens[s]) = len[s]
    PROVE  TurnsOf(turns, tokens, ss)
<1> DEFINE all == UNION {{s} \X (1 .. len[s]) : s \in DOMAIN len}
           N == Cardinality(all)
           upto(k) == {j \in 1 .. k : turns[j] = turns[k]}
           of(s) == {k \in DOMAIN turns : turns[k] = s}
<1>1. N \in Nat
  <2> DEFINE R(s) == {s} \X (1 .. len[s])
             parts == {R(s) : s \in ss}
  <2>1. IsFiniteSet(ss)
    BY Numbers, FS_Subset
  <2>2. \A s \in ss : IsFiniteSet(R(s))
    <3> TAKE s \in ss
    <3>1. IsFiniteSet({s})
      BY FS_Singleton
    <3>2. IsFiniteSet(1 .. len[s])
      BY UptoFinite
    <3> QED
      BY <3>1, <3>2, FS_Product
  <2>3. IsFiniteSet(parts)
    <3> DEFINE f == [s \in ss |-> R(s)]
    <3>1. f \in Surjection(ss, parts)
      BY DEF Surjection
    <3> HIDE DEF f, parts
    <3> QED
      BY <2>1, <3>1, FS_Surjection
  <2>4. all = UNION parts /\ \A P \in parts : IsFiniteSet(P)
    BY <2>2
  <2> HIDE DEF parts, all
  <2>5. IsFiniteSet(all)
    BY <2>3, <2>4, FS_UNION
  <2> QED
    BY <2>5, FS_CardinalityType
<1>2. turns \in [1 .. N -> ss] /\ \A s \in ss : Cardinality(of(s)) = len[s]
  BY DEF Turns
<1> HIDE DEF all, N
<1>3. DOMAIN turns = 1 .. N /\ \A k \in 1 .. N : turns[k] \in ss /\ k \in Nat \ {0}
  BY <1>1, <1>2
<1>4. \A k \in 1 .. N : IsFiniteSet(upto(k)) /\ Nth(turns, k) = Cardinality(upto(k)) /\ Nth(turns, k) \in Nat
  <2> TAKE k \in 1 .. N
  <2>1. k \in Nat
    BY <1>3
  <2>2. IsFiniteSet(1 .. k)
    BY <2>1, FS_Interval
  <2>3. IsFiniteSet({j \in 1 .. k : turns[j] = turns[k]})
    BY <2>2, FS_Subset
  <2> QED
    BY <2>3, FS_CardinalityType DEF Nth
<1>5. ASSUME NEW k \in 1 .. N
      PROVE  Nth(turns, k) \in 1 .. Len(tokens[turns[k]])
  <2> DEFINE s == turns[k]
             U == upto(k)
             O == of(s)
  <2>1. s \in ss /\ U \in SUBSET O /\ k \in U
    BY <1>1, <1>3
  <2>2. IsFiniteSet(O) /\ Cardinality(O) = len[s] /\ len[s] \in Nat
    <3>1. IsFiniteSet(1 .. N) /\ O \in SUBSET (1 .. N)
      BY <1>1, <1>3, FS_Interval
    <3>2. Cardinality(O) = len[s] /\ len[s] \in Nat
      BY <1>2, <2>1
    <3> HIDE DEF O
    <3> QED
      BY <3>1, <3>2, FS_Subset
  <2>3. Nth(turns, k) = Cardinality(U) /\ IsFiniteSet(U) /\ Cardinality(U) \in Nat
    BY <1>4
  <2> HIDE DEF U, O
  <2>4. Cardinality(U) <= Cardinality(O) /\ Cardinality(U) # 0
    BY <2>1, <2>2, <2>3, FS_Subset, FS_EmptySet
  <2>5. Cardinality(U) \in 1 .. len[s]
    BY <2>2, <2>3, <2>4
  <2> QED
    BY <2>1, <2>3, <2>5
<1>6. ASSUME NEW k \in 1 .. N, NEW l \in 1 .. N, k < l, turns[k] = turns[l]
      PROVE  Nth(turns, k) < Nth(turns, l)
  <2> DEFINE A == upto(k)
             B == upto(l)
  <2>1. A \in SUBSET B /\ l \in B /\ l \notin A
    BY <1>3, <1>6
  <2>2. /\ Nth(turns, k) = Cardinality(A) /\ Nth(turns, l) = Cardinality(B) /\ IsFiniteSet(B)
        /\ Cardinality(A) \in Nat /\ Cardinality(B) \in Nat
    BY <1>4
  <2> HIDE DEF A, B
  <2>3. Cardinality(A) <= Cardinality(B) /\ Cardinality(A) # Cardinality(B)
    BY <2>1, <2>2, FS_Subset
  <2> QED
    BY <2>2, <2>3
<1> QED
  BY <1>1, <1>3, <1>5, <1>6 DEF TurnsOf

(* The groups of a row, put together.                                      *)
LEMMA Joined ==
    ASSUME ctx.unified, NEW S \in SUBSET Token, NEW row \in Seq(Group), Even(row, S)
    PROVE  LET ub == <<FlattenSeq(row)>>
           IN  ub \in Microbatch /\ TokensOf(ub) \subseteq TokensOf(row)
<1> DEFINE T == TokensOf(row)
           q == FlattenSeq(row)
           n == Len(row)
<1>1. n \in Nat \ {0} /\ DOMAIN row = 1 .. n /\ \A j \in 1 .. n : row[j] \in Group
  BY EmptySeq, LenProperties DEF Even
<1> HIDE DEF n
<1>2. \A j \in 1 .. n : row[j] \in Seq(T) /\ row[j] # <<>>
  <2> TAKE j \in 1 .. n
  <2> DEFINE g == row[j]
  <2>1. g \in Seq(Token) /\ g # <<>>
    BY <1>1 DEF Group
  <2>2. \A k \in DOMAIN g : g[k] \in T
    BY <1>1, TokensAre
  <2> HIDE DEF g, T
  <2>3. Len(g) \in Nat /\ DOMAIN g = 1 .. Len(g) /\ g = [k \in 1 .. Len(g) |-> g[k]]
    BY <2>1, LenProperties
  <2>4. g \in [1 .. Len(g) -> T]
    BY <2>2, <2>3
  <2>5. g \in Seq(T)
    BY <2>3, <2>4
  <2> QED
    BY <2>1, <2>5 DEF g
<1>3. T \in SUBSET Token
  BY DEF Even
<1> HIDE DEF T
<1>4. row \in Seq(Seq(T)) /\ row # <<>> /\ Len(row) = n
  <2>1. row = [j \in 1 .. n |-> row[j]]
    BY <1>1, LenProperties
  <2>2. row \in [1 .. n -> Seq(T)]
    BY <1>2, <2>1
  <2> QED
    BY <1>1, <2>2 DEF n, Even
<1>5. q \in Seq(T) /\ (row[n] # <<>> => q # <<>>)
  BY <1>4, FlatTyped
<1>6. n \in 1 .. n
  BY <1>1
<1>7. q # <<>>
  BY <1>2, <1>5, <1>6
<1> HIDE DEF q
<1>8. <<q>> \in Microbatch /\ TokensOf(<<q>>) \subseteq T
  BY <1>3, <1>5, <1>7, OneGroup
<1> QED
  BY <1>8 DEF q, T

SplitOf(ubs, S) ==
    /\ ubs \in Seq(Microbatch) /\ From(ubs, S) /\ Ascending(ubs)
    /\ Cardinality(Seqs) <= Ubatch => AllSmall(ubs)
SplitsOf(splits, S) == Len(splits) \in {1, 2} /\ \A k \in 1 .. Len(splits) : SplitOf(splits[k], S)

LEMMA OneSplit ==
    ASSUME NEW S, NEW a, SplitOf(a, S)
    PROVE  SplitsOf(<<a>>, S)
<1>1. Len(<<a>>) = 1 /\ <<a>>[1] = a /\ 1 .. 1 = {1}
  OBVIOUS
<1> QED
  BY <1>1 DEF SplitsOf

LEMMA TwoSplits ==
    ASSUME NEW S, NEW a, NEW b, SplitOf(a, S), SplitOf(b, S)
    PROVE  SplitsOf(<<a, b>>, S)
<1>1. Len(<<a, b>>) = 2 /\ <<a, b>>[1] = a /\ <<a, b>>[2] = b /\ 1 .. 2 = {1, 2}
  OBVIOUS
<1> QED
  BY <1>1 DEF SplitsOf

LEMMA SplitsAre ==
    ASSUME ctx \in Contexts, NEW ss \in SUBSET Seqs, ss # {}, NEW S \in SUBSET Token,
           NEW tokens, BatchOf(tokens, ss, S), NEW turns, TurnsOf(turns, tokens, ss)
    PROVE  SplitsOf(Splits(tokens, turns), S)
<1> DEFINE q == InTurns(tokens, turns)
           simple == Chunks(q)
           equal == EqualSplit(tokens, turns)
           one == [k \in DOMAIN equal |-> <<FlattenSeq(equal[k])>>]
           m == Len(equal)
<1>2. q \in Seq(S) /\ InTurn(q)
  BY InTurnsIs
<1>3. equal \in Seq(Seq(Group)) /\ (\A k \in DOMAIN equal : Even(equal[k], S)) /\ Ascending(equal)
  BY EqualSplitIs
<1>4. Splits(tokens, turns) = IF ~ctx.unified THEN <<equal>> ELSE IF ctx.window = 0 THEN <<simple>> ELSE <<simple, one>>
  BY DEF Splits
<1> HIDE DEF q, equal
<1>5. m \in Nat /\ DOMAIN equal = 1 .. m /\ equal = [k \in 1 .. m |-> equal[k]]
      /\ \A k \in 1 .. m : equal[k] \in Seq(Group)
  BY <1>3, LenProperties
<1>6. CASE ~ctx.unified
  <2>1. equal \in [1 .. m -> Microbatch]
    BY <1>3, <1>5, <1>6 DEF Even
  <2>2. equal \in Seq(Microbatch)
    BY <1>5, <2>1
  <2>3. From(equal, S) /\ (Cardinality(Seqs) <= Ubatch => AllSmall(equal))
    BY <1>3 DEF Even, From, AllSmall
  <2>4. SplitOf(equal, S)
    BY <1>3, <2>2, <2>3 DEF SplitOf
  <2> QED
    BY <1>4, <1>6, <2>4, OneSplit
<1>7. CASE ctx.unified
  <2>1. simple \in Seq(Microbatch) /\ From(simple, S) /\ AllSmall(simple) /\ (InTurn(q) => Ascending(simple))
    BY <1>2, <1>7, ChunksAre
  <2>2. SplitOf(simple, S)
    BY <1>2, <2>1 DEF SplitOf
  <2> HIDE DEF simple
  <2>3. \A k \in 1 .. m : one[k] = <<FlattenSeq(equal[k])>>
    BY <1>5
  <2>4. one = [k \in 1 .. m |-> one[k]] /\ DOMAIN one = 1 .. m
    BY <1>5
  <2> HIDE DEF one
  <2>5. \A k \in 1 .. m : one[k] \in Microbatch /\ TokensOf(one[k]) \subseteq TokensOf(equal[k])
    BY <1>3, <1>5, <1>7, <2>3, Joined
  <2>6. one \in Seq(Microbatch)
    <3>1. one \in [1 .. m -> Microbatch]
      BY <2>4, <2>5
    <3> QED
      BY <1>5, <3>1
  <2>7. \A k \in 1 .. m : TokensOf(equal[k]) \subseteq S /\ IsFiniteSet(TokensOf(equal[k]))
                          /\ (Cardinality(Seqs) <= Ubatch => Small(equal[k]))
    BY <1>3, <1>5 DEF Even
  <2>8. From(one, S)
    BY <2>4, <2>5, <2>7 DEF From
  <2>9. ASSUME Cardinality(Seqs) <= Ubatch, NEW k \in 1 .. m
        PROVE  Small(one[k])
    <3> DEFINE x == Cardinality(TokensOf(one[k]))
               y == Cardinality(TokensOf(equal[k]))
    <3>1. x \in Nat /\ y \in Nat /\ x <= y
      BY <2>5, <2>7, FS_Subset, FS_CardinalityType
    <3>2. y <= Ubatch /\ Ubatch \in Nat
      BY <2>7, <2>9, KVAssumption DEF Small
    <3> HIDE DEF x, y
    <3>3. x <= Ubatch
      BY <3>1, <3>2
    <3> QED
      BY <3>3 DEF x, Small
  <2>10. ASSUME NEW k \in 1 .. m, NEW l \in 1 .. m, k < l
         PROVE  After(one[k], one[l])
    <3>1. After(equal[k], equal[l])
      BY <1>3, <1>5, <2>10 DEF Ascending
    <3> QED
      BY <2>5, <3>1 DEF After
  <2>11. SplitOf(one, S)
    BY <2>4, <2>6, <2>8, <2>9, <2>10 DEF SplitOf, AllSmall, Ascending
  <2> QED
    BY <1>4, <1>7, <2>2, <2>11, OneSplit, TwoSplits
<1> QED
  BY <1>6, <1>7, ContextFacts

-----------------------------------------------------------------------------
(* The state.                                                              *)
Data == [rot : Int, value : Int]
Buffers == [Seqs -> [Cells -> Data]]

Typed ==
    /\ ctx \in Contexts
    /\ cells \in AllCells
    /\ heads \in Heads
    /\ hasShift \in [Seqs -> BOOLEAN]
    /\ copies \in Seq(Streams \X Streams)
    /\ kbuf \in Buffers
    /\ todo \in Seq(Entry)
    /\ todo # <<>> => copies = <<>>

LEMMA TypedIsTypeOK ==
    ASSUME Typed
    PROVE  KVTypeOK
<1>1. /\ cells \in [Seqs -> [Cells -> Cell]]
      /\ \A st \in Seqs : cells[st] \in StreamCells(st)
  BY DEF Typed, AllCells
<1>2. \A st \in Seqs, i \in Cells : \A s \in cells[st][i].seqs : StreamOf(s) = st
  BY <1>1 DEF StreamCells
<1>3. \A k \in DOMAIN copies : copies[k] \in Streams \X Streams
  BY LenProperties DEF Typed
<1> QED
  BY <1>1, <1>2, <1>3 DEF Typed, Heads, KVTypeOK

(* The parameters of a context do not change, nor what is defined by them. *)
LEMMA SameContext ==
    ASSUME ctx' = ctx
    PROVE  /\ Cells' = Cells /\ Streams' = Streams /\ Cell' = Cell
           /\ AllCells' = AllCells /\ Heads' = Heads /\ Buffers' = Buffers
           /\ \A s : StreamOf(s)' = StreamOf(s)
<1>1. Cells' = Cells /\ Cell' = Cell /\ Pos' = Pos
  BY DEF Cells, Cell, Pos
<1>2. \A s : StreamOf(s)' = StreamOf(s)
  BY DEF StreamOf
<1>3. Streams' = Streams
  BY <1>2 DEF Streams
<1>4. \A st : StreamCells(st)' = StreamCells(st)
  <2> TAKE st
  <2>1. \A cs : cs \in StreamCells(st)' <=> cs \in StreamCells(st)
    BY <1>1, <1>2 DEF StreamCells
  <2> QED
    BY <2>1
<1>5. AllCells' = AllCells
  <2>1. \A all : all \in AllCells' <=> all \in AllCells
    BY <1>1, <1>4 DEF AllCells
  <2> QED
    BY <2>1
<1>6. Heads' = Heads /\ Buffers' = Buffers
  BY <1>1 DEF Heads, Buffers
<1> QED
  BY <1>1, <1>2, <1>3, <1>5, <1>6

LEMMA SameEntries ==
    ASSUME ctx' = ctx
    PROVE  Entry' = Entry
<1>1. Cells' = Cells /\ Pos' = Pos
  BY DEF Cells, Pos
<1>2. Token' = Token
  BY <1>1 DEF Token
<1>3. \A s : StreamOf(s)' = StreamOf(s)
  BY DEF StreamOf
<1>4. \A g : StreamOfGroup(g)' = StreamOfGroup(g)
  BY DEF StreamOfGroup, StreamOf
<1>5. Group' = Group
  <2>1. \A g : g \in Group' <=> g \in Group
    BY <1>2, <1>3, <1>4 DEF Group
  <2> QED
    BY <2>1
<1>6. Microbatch' = Microbatch
  <2>1. \A ub : ub \in Microbatch' <=> ub \in Microbatch
    BY <1>4, <1>5 DEF Microbatch
  <2> QED
    BY <2>1
<1>7. \A ub : SlotsFor(ub)' = SlotsFor(ub)
  <2> TAKE ub
  <2>1. \A slots : slots \in SlotsFor(ub)' <=> slots \in SlotsFor(ub)
    BY <1>1 DEF SlotsFor
  <2> QED
    BY <2>1
<1>8. \A e : e \in Entry' <=> e \in Entry
  BY <1>1, <1>6, <1>7 DEF Entry
<1> QED
  BY <1>8

LEMMA TypedNext ==
    ASSUME ctx' = ctx, ctx \in Contexts, cells' \in AllCells, heads' \in Heads, hasShift' \in [Seqs -> BOOLEAN],
           copies' \in Seq(Streams \X Streams), kbuf' \in Buffers, todo' \in Seq(Entry),
           todo' # <<>> => copies' = <<>>
    PROVE  Typed'
BY SameContext, SameEntries DEF Typed

(* What the buffers hold, and which shifts wait.                           *)
Follows(all, buf) ==
    \A st \in Streams, i \in Cells :
        all[st][i] # NoCell => buf[st][i] = [rot |-> all[st][i].pos - all[st][i].shift, value |-> all[st][i].value]
Known(all, marks, entries) ==
    \A st \in Streams, i \in Cells :
        all[st][i].shift # 0 => marks[st] /\ (entries = <<>> \/ "noshift" \in ctx.calls)

LEMMA FollowsIs == KFollowsCells <=> Follows(cells, Copied)
BY DEF KFollowsCells, Follows

LEMMA KnownIs == ShiftsKnown <=> Known(cells, hasShift, todo)
BY DEF ShiftsKnown, Known

LEMMA FollowsNext ==
    ASSUME ctx' = ctx, Follows(cells', CopySteps(kbuf', copies')[Len(copies')])
    PROVE  KFollowsCells'
<1>1. Copied' = CopySteps(kbuf', copies')[Len(copies')]
  BY DEF Copied, CopySteps
<1> QED
  BY <1>1, SameContext DEF KFollowsCells, Follows

LEMMA KnownNext ==
    ASSUME ctx' = ctx, Known(cells', hasShift', todo')
    PROVE  ShiftsKnown'
BY SameContext DEF ShiftsKnown, Known

LEMMA CopiedTyped ==
    ASSUME Typed
    PROVE  Copied \in Buffers /\ copies \in Seq(Seqs \X Seqs)
<1>1. Streams \X Streams \subseteq Seqs \X Seqs
  BY StreamsAre
<1>2. Len(copies) \in Nat /\ copies \in [1 .. Len(copies) -> Streams \X Streams]
  BY LenProperties DEF Typed
<1>3. copies \in [1 .. Len(copies) -> Seqs \X Seqs]
  BY <1>1, <1>2
<1>4. copies \in Seq(Seqs \X Seqs)
  BY <1>2, <1>3
<1>5. Len(copies) \in 0 .. Len(copies) /\ kbuf \in [Seqs -> [Cells -> Data]]
  BY <1>2 DEF Typed, Buffers
<1> DEFINE B == [Cells -> Data]
<1>6. kbuf \in [Seqs -> B]
  BY <1>5
<1> HIDE DEF B
<1>7. CopySteps(kbuf, copies)[Len(copies)] \in [Seqs -> B]
  BY <1>4, <1>5, <1>6, CopyStepsAre
<1> QED
  BY <1>4, <1>7 DEF Copied, Buffers, B

(* A cell that is empty or holds the same token at the same position.      *)
Kept(a, b) == a = NoCell \/ (b # NoCell /\ a.pos = b.pos /\ a.shift = b.shift /\ a.value = b.value)
KeptAll(a, b) == \A st \in Seqs, i \in Cells : Kept(a[st][i], b[st][i])

LEMMA KeptFollows ==
    ASSUME NEW a, NEW b, NEW buf, KeptAll(a, b), Follows(b, buf)
    PROVE  Follows(a, buf)
BY StreamsAre DEF KeptAll, Kept, Follows

LEMMA KeptKnown ==
    ASSUME NEW a, NEW b, NEW marks, NEW entries, KeptAll(a, b), Known(b, marks, entries)
    PROVE  Known(a, marks, entries)
<1> SUFFICES ASSUME NEW st \in Streams, NEW i \in Cells, a[st][i].shift # 0
             PROVE  marks[st] /\ (entries = <<>> \/ "noshift" \in ctx.calls)
  BY DEF Known
<1>1. st \in Seqs /\ Kept(a[st][i], b[st][i])
  BY StreamsAre DEF KeptAll
<1>2. b[st][i].shift # 0
  BY <1>1, NoCellTyped DEF Kept
<1> QED
  BY <1>2 DEF Known

LEMMA BelowKept ==
    ASSUME NEW a, NEW b, BelowAll(a, b)
    PROVE  KeptAll(a, b)
BY DEF BelowAll, Below, KeptAll, Kept

LEMMA FreedHeadIs ==
    ASSUME ctx \in Contexts, NEW old, NEW new, NEW head \in 0 .. ctx.size
    PROVE  FreedHead(old, new, head) \in 0 .. ctx.size
<1> DEFINE freed == Freed(old, new)
<1>1. freed \in SUBSET Cells
  BY DEF Freed, Used
<1>2. FreedHead(old, new, head) = IF freed = {} THEN head ELSE Min({head, Min(freed)})
  BY DEF FreedHead
<1> HIDE DEF freed
<1>3. CASE freed = {}
  BY <1>2, <1>3
<1>4. CASE freed # {}
  <2>1. freed \in SUBSET Nat
    BY <1>1, ContextFacts
  <2>2. Min(freed) \in freed
    BY <1>4, <2>1, MinIs
  <2> DEFINE x == Min(freed)
  <2>3. x \in 0 .. ctx.size
    BY <1>1, <2>2, ContextFacts
  <2> HIDE DEF x
  <2>4. {head, x} \in SUBSET Nat
    BY <2>3, ContextFacts
  <2>5. Min({head, x}) \in {head, x}
    BY <2>4, MinIs
  <2> QED
    BY <1>2, <1>4, <2>3, <2>5 DEF x
<1> QED
  BY <1>3, <1>4

LEMMA BecomeIs ==
    ASSUME Typed, NEW st \in Seqs, NEW cs \in StreamCells(st), NEW head \in 0 .. ctx.size, Become(st, cs, head)
    PROVE  /\ cells' \in AllCells /\ heads' \in Heads
           /\ cells' = [cells EXCEPT ![st] = cs]
           /\ cells'[st] = cs /\ \A r \in Seqs : r # st => cells'[r] = cells[r]
<1>1. cells \in [Seqs -> [Cells -> Cell]] /\ \A r \in Seqs : cells[r] \in StreamCells(r)
  BY DEF Typed, AllCells
<1>2. cells' = [cells EXCEPT ![st] = cs] /\ heads' = [heads EXCEPT ![st] = head]
  BY DEF Become
<1>3. cells'[st] = cs /\ \A r \in Seqs : r # st => cells'[r] = cells[r]
  BY <1>1, <1>2
<1>4. cs \in [Cells -> Cell]
  BY DEF StreamCells
<1>5. cells' \in [Seqs -> [Cells -> Cell]]
  BY <1>1, <1>2, <1>4
<1>6. \A r \in Seqs : cells'[r] \in StreamCells(r)
  BY <1>1, <1>3
<1>7. heads' \in Heads
  BY <1>2 DEF Heads, Typed
<1> QED
  BY <1>2, <1>3, <1>5, <1>6, <1>7 DEF AllCells

(* Cells of a stream that are kept, or emptied.                            *)
LEMMA KeptStream ==
    ASSUME Typed, NEW st \in Seqs, NEW cs, cells' = [cells EXCEPT ![st] = cs],
           \A i \in Cells : Kept(cs[i], cells[st][i])
    PROVE  KeptAll(cells', cells)
<1>1. cells \in [Seqs -> [Cells -> Cell]]
  BY DEF Typed, AllCells
<1> SUFFICES ASSUME NEW r \in Seqs, NEW i \in Cells PROVE Kept(cells'[r][i], cells[r][i])
  BY DEF KeptAll
<1>2. CASE r = st
  BY <1>1, <1>2
<1>3. CASE r # st
  <2>1. cells'[r] = cells[r]
    BY <1>1, <1>3
  <2> QED
    BY <2>1 DEF Kept
<1> QED
  BY <1>2, <1>3

-----------------------------------------------------------------------------
(* Operations on sequences.                                                *)
Preserved == Typed' /\ (ShiftsKnown => ShiftsKnown') /\ (KFollowsCells => KFollowsCells')

LEMMA KeptOperation ==
    ASSUME Typed, UNCHANGED <<ctx, hasShift, copies, kbuf, todo>>, todo = <<>>,
           cells' \in AllCells, heads' \in Heads, KeptAll(cells', cells)
    PROVE  Preserved
<1>1. Typed'
  BY TypedNext DEF Typed
<1>2. ASSUME ShiftsKnown
      PROVE  ShiftsKnown'
  <2>1. Known(cells', hasShift', todo')
    BY <1>2, KnownIs, KeptKnown
  <2> QED
    BY <2>1, KnownNext
<1>3. ASSUME KFollowsCells
      PROVE  KFollowsCells'
  <2>1. Follows(cells', Copied)
    BY <1>3, FollowsIs, KeptFollows
  <2>2. CopySteps(kbuf', copies')[Len(copies')] = Copied
    BY DEF Copied
  <2> QED
    BY <2>1, <2>2, FollowsNext
<1> QED
  BY <1>1, <1>2, <1>3 DEF Preserved

LEMMA StreamTyped ==
    ASSUME Typed, NEW st \in Seqs
    PROVE  cells[st] \in StreamCells(st) /\ cells[st] \in [Cells -> Cell] /\ heads[st] \in 0 .. ctx.size
           /\ \A i \in Cells : cells[st][i] \in Cell /\ \A s \in cells[st][i].seqs : StreamOf(s) = st
BY DEF Typed, AllCells, StreamCells, Heads

LEMMA SeqRmPreserves ==
    ASSUME Typed, NEW s \in Seqs, NEW r, SeqRm(s, r)
    PROVE  Preserved
<1> DEFINE st == StreamOf(s)
           cs == Removed(cells[st], s, r)
           head == FreedHead(cells[st], cs, heads[st])
<1>1. st \in Seqs /\ ctx \in Contexts
  BY StreamFacts DEF Typed
<1>2. todo = <<>> /\ Become(st, cs, head) /\ UNCHANGED <<ctx, hasShift, copies, kbuf, todo>>
  BY DEF SeqRm
<1>3. cs = [i \in Cells |-> IF In(cells[st][i], r) THEN Without(cells[st][i], {s}) ELSE cells[st][i]]
  BY DEF Removed
<1> HIDE DEF st, cs
<1>4. ASSUME NEW i \in Cells
      PROVE  cs[i] \in Cell /\ Below(cs[i], cells[st][i]) /\ cs[i].seqs \subseteq cells[st][i].seqs
  <2>1. cells[st][i] \in Cell
    BY <1>1, StreamTyped
  <2> QED
    BY <1>3, <2>1, WithoutFacts, BelowItself
<1>5. cs \in StreamCells(st)
  <2>1. cs \in [Cells -> Cell]
    BY <1>3, <1>4
  <2> QED
    BY <1>1, <1>4, <2>1, StreamTyped DEF StreamCells
<1>6. head \in 0 .. ctx.size
  BY <1>1, StreamTyped, FreedHeadIs
<1> HIDE DEF head
<1>7. cells' \in AllCells /\ heads' \in Heads /\ cells' = [cells EXCEPT ![st] = cs]
  BY <1>1, <1>2, <1>5, <1>6, BecomeIs
<1>8. KeptAll(cells', cells)
  <2>1. \A i \in Cells : Kept(cs[i], cells[st][i])
    BY <1>4 DEF Below, Kept
  <2> QED
    BY <1>1, <1>7, <2>1, KeptStream
<1> QED
  BY <1>2, <1>7, <1>8, KeptOperation

LEMMA RmAllPreserves ==
    ASSUME Typed, NEW r, RmAll(r)
    PROVE  Preserved
<1> DEFINE cs(st) == [i \in Cells |-> IF In(cells[st][i], r) THEN NoCell ELSE cells[st][i]]
<1>1. /\ todo = <<>> /\ UNCHANGED <<ctx, hasShift, copies, kbuf, todo>>
      /\ cells' = [st \in Seqs |-> cs(st)]
      /\ heads' = [st \in Seqs |-> FreedHead(cells[st], cs(st), heads[st])]
  BY DEF RmAll
<1>2. ASSUME NEW st \in Seqs
      PROVE  cs(st) \in StreamCells(st) /\ \A i \in Cells : Kept(cs(st)[i], cells[st][i])
  <2>1. \A i \in Cells : cs(st)[i] \in {NoCell, cells[st][i]}
    OBVIOUS
  <2>2. \A i \in Cells : /\ cells[st][i] \in Cell
                         /\ \A s \in cells[st][i].seqs : StreamOf(s) = st
    BY StreamTyped
  <2>3. \A i \in Cells : /\ cs(st)[i] \in Cell /\ Kept(cs(st)[i], cells[st][i])
                         /\ \A s \in cs(st)[i].seqs : StreamOf(s) = st
    BY <2>1, <2>2, NoCellTyped DEF Kept
  <2>4. cs(st) \in [Cells -> Cell]
    BY <2>3
  <2> HIDE DEF cs
  <2> QED
    BY <2>3, <2>4 DEF StreamCells
<1>3. \A st \in Seqs : FreedHead(cells[st], cs(st), heads[st]) \in 0 .. ctx.size
  BY StreamTyped, FreedHeadIs DEF Typed
<1> HIDE DEF cs
<1>4. cells' \in AllCells
  <2>1. \A st \in Seqs : cs(st) \in [Cells -> Cell]
    BY <1>2 DEF StreamCells
  <2> QED
    BY <1>1, <1>2, <2>1 DEF AllCells
<1>5. heads' \in Heads
  BY <1>1, <1>3 DEF Heads
<1>6. KeptAll(cells', cells)
  BY <1>1, <1>2 DEF KeptAll
<1> QED
  BY <1>1, <1>4, <1>5, <1>6, KeptOperation

(* A cell that some other sequences hold.                                  *)
LEMMA Reheld ==
    ASSUME NEW c \in Cell, c # NoCell, NEW ss \in (SUBSET Seqs) \ {{}}
    PROVE  LET d == [c EXCEPT !.seqs = ss]
           IN  d \in Cell /\ d.seqs = ss /\ d # NoCell /\ Kept(d, c)
<1> DEFINE d == [c EXCEPT !.seqs = ss]
<1>1. c \in [pos : Pos, shift : Int, seqs : (SUBSET Seqs) \ {{}}, value : Seqs]
  BY DEF Cell, Pos
<1>2. /\ d \in [pos : Pos, shift : Int, seqs : (SUBSET Seqs) \ {{}}, value : Seqs]
      /\ d.seqs = ss /\ d.pos = c.pos /\ d.shift = c.shift /\ d.value = c.value
  BY <1>1
<1> HIDE DEF d
<1>3. d \in Cell /\ d # NoCell
  <2>1. d \in Cell
    BY <1>2 DEF Cell, Pos
  <2> QED
    BY <1>2, <2>1, NoCellTyped
<1> QED
  BY <1>2, <1>3 DEF Kept, d

LEMMA SeqCpPreserves ==
    ASSUME Typed, NEW s \in Seqs, NEW d \in Seqs, NEW r, SeqCp(s, d, r)
    PROVE  Preserved
<1> DEFINE st == StreamOf(s)
           cs == [i \in Cells |-> IF i \in Hit(s, r)
                                  THEN [cells[st][i] EXCEPT !.seqs = @ \union {d}] ELSE cells[st][i]]
<1>1. st \in Seqs /\ ctx \in Contexts
  BY StreamFacts DEF Typed
<1>2. /\ todo = <<>> /\ StreamOf(d) = st /\ UNCHANGED <<ctx, hasShift, copies, kbuf, todo>>
      /\ Become(st, cs, heads[st])
  BY DEF SeqCp
<1> HIDE DEF st
<1>3. ASSUME NEW i \in Cells
      PROVE  /\ cs[i] \in Cell /\ Kept(cs[i], cells[st][i])
             /\ \A q \in cs[i].seqs : StreamOf(q) = st
  <2> DEFINE c == cells[st][i]
  <2>1. c \in Cell /\ \A q \in c.seqs : StreamOf(q) = st
    BY <1>1, StreamTyped
  <2>2. CASE i \in Hit(s, r)
    <3>0. s \in c.seqs
      BY <2>2 DEF Hit, st
    <3>1. c # NoCell /\ c.seqs \in SUBSET Seqs
      BY <2>1, <3>0, CellFacts
    <3> DEFINE more == c.seqs \union {d}
    <3>2. cs[i] = [c EXCEPT !.seqs = more]
      BY <2>2
    <3>3. more \in (SUBSET Seqs) \ {{}} /\ \A q \in more : StreamOf(q) = st
      BY <1>2, <2>1, <3>1
    <3> HIDE DEF c, more, cs
    <3> QED
      BY <2>1, <3>1, <3>2, <3>3, Reheld DEF c
  <2>3. CASE i \notin Hit(s, r)
    <3>1. cs[i] = c
      BY <2>3
    <3> HIDE DEF cs
    <3> QED
      BY <2>1, <3>1 DEF Kept
  <2> QED
    BY <2>2, <2>3
<1>4. cs \in StreamCells(st)
  <2>1. cs = [i \in Cells |-> cs[i]]
    OBVIOUS
  <2> HIDE DEF cs
  <2>2. cs \in [Cells -> Cell]
    BY <1>3, <2>1
  <2> QED
    BY <1>3, <2>2 DEF StreamCells
<1> HIDE DEF cs
<1>5. cells' \in AllCells /\ heads' \in Heads /\ cells' = [cells EXCEPT ![st] = cs]
  BY <1>1, <1>2, <1>4, StreamTyped, BecomeIs
<1>6. KeptAll(cells', cells)
  BY <1>1, <1>3, <1>5, KeptStream
<1> QED
  BY <1>2, <1>5, <1>6, KeptOperation

LEMMA SeqKeepPreserves ==
    ASSUME Typed, NEW s \in Seqs, SeqKeep(s)
    PROVE  Preserved
<1> DEFINE st == StreamOf(s)
           cs == [i \in Cells |-> IF s \in cells[st][i].seqs THEN [cells[st][i] EXCEPT !.seqs = {s}] ELSE NoCell]
           head == FreedHead(cells[st], cs, heads[st])
<1>1. st \in Seqs /\ ctx \in Contexts
  BY StreamFacts DEF Typed
<1>2. todo = <<>> /\ Become(st, cs, head) /\ UNCHANGED <<ctx, hasShift, copies, kbuf, todo>>
  BY DEF SeqKeep
<1>3. StreamOf(s) = st
  OBVIOUS
<1> HIDE DEF st
<1>4. ASSUME NEW i \in Cells
      PROVE  /\ cs[i] \in Cell /\ Kept(cs[i], cells[st][i])
             /\ \A q \in cs[i].seqs : StreamOf(q) = st
  <2> DEFINE c == cells[st][i]
  <2>1. c \in Cell
    BY <1>1, StreamTyped
  <2>2. CASE s \in c.seqs
    <3>1. c # NoCell
      BY <2>1, <2>2, CellFacts
    <3>2. cs[i] = [c EXCEPT !.seqs = {s}]
      BY <2>2
    <3> HIDE DEF c, cs
    <3> QED
      BY <1>3, <2>1, <3>1, <3>2, Reheld DEF c
  <2>3. CASE s \notin c.seqs
    <3>1. cs[i] = NoCell
      BY <2>3
    <3> HIDE DEF cs
    <3> QED
      BY <3>1, NoCellTyped DEF Kept
  <2> QED
    BY <2>2, <2>3
<1>5. cs \in StreamCells(st)
  <2>1. cs = [i \in Cells |-> cs[i]]
    OBVIOUS
  <2> HIDE DEF cs
  <2>2. cs \in [Cells -> Cell]
    BY <1>4, <2>1
  <2> QED
    BY <1>4, <2>2 DEF StreamCells
<1> HIDE DEF cs
<1>6. head \in 0 .. ctx.size
  BY <1>1, StreamTyped, FreedHeadIs
<1> HIDE DEF head
<1>7. cells' \in AllCells /\ heads' \in Heads /\ cells' = [cells EXCEPT ![st] = cs]
  BY <1>1, <1>2, <1>5, <1>6, BecomeIs
<1>8. KeptAll(cells', cells)
  BY <1>1, <1>4, <1>7, KeptStream
<1> QED
  BY <1>2, <1>7, <1>8, KeptOperation

LEMMA CopyStreamPreserves ==
    ASSUME Typed, NEW s \in Seqs, NEW d \in Seqs, CopyStream(s, d)
    PROVE  Preserved
<1> DEFINE st == StreamOf(s)
           dt == StreamOf(d)
           cs == [i \in Cells |-> IF s \in cells[st][i].seqs
                                  THEN [cells[st][i] EXCEPT !.seqs = {d}] ELSE NoCell]
           e == <<st, dt>>
<1>1. /\ st \in Seqs /\ ctx \in Contexts /\ dt \in Seqs
      /\ e \in Streams \X Streams /\ e \in Seqs \X Seqs /\ e[1] = st /\ e[2] = dt
  BY StreamFacts DEF Typed
<1>2. /\ todo = <<>> /\ Become(dt, cs, heads[st]) /\ UNCHANGED <<ctx, kbuf, todo>>
      /\ hasShift' = [hasShift EXCEPT ![dt] = \E i \in Cells : cs[i].shift # 0]
      /\ copies' = Append(copies, e)
  BY DEF CopyStream
<1>3. StreamOf(d) = dt
  OBVIOUS
<1> HIDE DEF st, dt, e
<1>4. ASSUME NEW i \in Cells
      PROVE  /\ cs[i] \in Cell /\ Kept(cs[i], cells[st][i])
             /\ \A q \in cs[i].seqs : StreamOf(q) = dt
  <2> DEFINE c == cells[st][i]
  <2>1. c \in Cell
    BY <1>1, StreamTyped
  <2>2. CASE s \in c.seqs
    <3>1. c # NoCell
      BY <2>1, <2>2, CellFacts
    <3>2. cs[i] = [c EXCEPT !.seqs = {d}]
      BY <2>2
    <3> HIDE DEF c, cs
    <3> QED
      BY <1>3, <2>1, <3>1, <3>2, Reheld DEF c
  <2>3. CASE s \notin c.seqs
    <3>1. cs[i] = NoCell
      BY <2>3
    <3> HIDE DEF cs
    <3> QED
      BY <3>1, NoCellTyped DEF Kept
  <2> QED
    BY <2>2, <2>3
<1>5. cs \in StreamCells(dt)
  <2>1. cs = [i \in Cells |-> cs[i]]
    OBVIOUS
  <2> HIDE DEF cs
  <2>2. cs \in [Cells -> Cell]
    BY <1>4, <2>1
  <2> QED
    BY <1>4, <2>2 DEF StreamCells
<1> HIDE DEF cs
<1>6. /\ cells' \in AllCells /\ heads' \in Heads
      /\ cells'[dt] = cs /\ \A r \in Seqs : r # dt => cells'[r] = cells[r]
  <2>1. heads[st] \in 0 .. ctx.size
    BY <1>1, StreamTyped
  <2> QED
    BY <1>1, <1>2, <1>5, <2>1, BecomeIs
<1>7. /\ hasShift' \in [Seqs -> BOOLEAN] /\ hasShift'[dt] = (\E i \in Cells : cs[i].shift # 0)
      /\ \A r \in Seqs : r # dt => hasShift'[r] = hasShift[r]
  BY <1>1, <1>2 DEF Typed
<1>8. copies' \in Seq(Streams \X Streams)
  BY <1>1, <1>2 DEF Typed
<1>9. Typed'
  BY <1>2, <1>6, <1>7, <1>8, TypedNext DEF Typed
<1>10. ASSUME ShiftsKnown
       PROVE  ShiftsKnown'
  <2>1. Known(cells, hasShift, todo)
    BY <1>10, KnownIs
  <2>2. ASSUME NEW r \in Streams, NEW i \in Cells, cells'[r][i].shift # 0
        PROVE  hasShift'[r] /\ todo' = <<>>
    <3>0. r \in Seqs
      BY StreamsAre
    <3>1. CASE r = dt
      BY <1>2, <1>6, <1>7, <2>2, <3>1
    <3>2. CASE r # dt
      BY <1>2, <1>6, <1>7, <2>1, <2>2, <3>0, <3>2 DEF Known
    <3> QED
      BY <3>1, <3>2
  <2>3. Known(cells', hasShift', todo')
    BY <2>2 DEF Known
  <2> QED
    BY <1>2, <2>3, KnownNext
<1>11. ASSUME KFollowsCells
       PROVE  KFollowsCells'
  <2>1. Follows(cells, Copied)
    BY <1>11, FollowsIs
  <2>2. copies \in Seq(Seqs \X Seqs) /\ Copied \in Buffers
    BY CopiedTyped
  <2> DEFINE B == [Cells -> Data]
             after == CopySteps(kbuf', copies')[Len(copies')]
  <2>3. kbuf \in [Seqs -> B]
    BY DEF Typed, Buffers
  <2> HIDE DEF B
  <2>4. after = OneCopy(Copied, e)
    <3>1. CopiesOneMore(kbuf, copies, e)
      BY <1>1, <2>2, <2>3, CopiedOneMore
    <3> QED
      BY <1>2, <3>1 DEF Copied, CopiesOneMore
  <2> HIDE DEF after
  <2>5. after[dt] = Copied[st] /\ \A r \in Seqs : r # dt => after[r] = Copied[r]
    <3>1. after = [Copied EXCEPT ![dt] = Copied[st]]
      BY <1>1, <2>4 DEF OneCopy
    <3>2. DOMAIN Copied = Seqs
      BY <2>2 DEF Buffers
    <3> QED
      BY <1>1, <3>1, <3>2
  <2>6. ASSUME NEW r \in Streams, NEW i \in Cells, cells'[r][i] # NoCell
        PROVE  after[r][i] = [rot |-> cells'[r][i].pos - cells'[r][i].shift, value |-> cells'[r][i].value]
    <3>0. r \in Seqs
      BY StreamsAre
    <3>1. CASE r = dt
      <4>1. cells'[r][i] = cs[i] /\ Kept(cs[i], cells[st][i])
        BY <1>4, <1>6, <3>1
      <4>2. st \in Streams
        BY <1>1 DEF e
      <4>3. Copied[st][i] = [rot |-> cells[st][i].pos - cells[st][i].shift, value |-> cells[st][i].value]
        BY <2>1, <2>6, <4>1, <4>2 DEF Follows, Kept
      <4> QED
        BY <2>5, <2>6, <3>1, <4>1, <4>3 DEF Kept
    <3>2. CASE r # dt
      <4>1. cells'[r] = cells[r] /\ after[r] = Copied[r]
        BY <1>6, <2>5, <3>0, <3>2
      <4> QED
        BY <2>1, <2>6, <4>1 DEF Follows
    <3> QED
      BY <3>1, <3>2
  <2>7. Follows(cells', after)
    BY <2>6 DEF Follows
  <2> QED
    BY <1>2, <2>7, FollowsNext DEF after
<1> QED
  BY <1>9, <1>10, <1>11 DEF Preserved

LEMMA ClearPreserves ==
    ASSUME Typed, Clear
    PROVE  Preserved
<1>1. /\ todo = <<>> /\ UNCHANGED <<ctx, copies, todo>>
      /\ cells' = [st \in Seqs |-> [i \in Cells |-> NoCell]]
      /\ heads' = [st \in Seqs |-> 0] /\ hasShift' = [st \in Seqs |-> FALSE]
      /\ kbuf' \in {kbuf, [st \in Seqs |-> [i \in Cells |-> NoData]]}
  BY DEF Clear
<1>2. \A st \in Seqs, i \in Cells : cells'[st][i] = NoCell
  BY <1>1
<1>3. cells' \in AllCells
  <2>1. cells' \in [Seqs -> [Cells -> Cell]]
    BY <1>1, NoCellTyped
  <2> QED
    BY <1>2, <2>1, NoCellTyped DEF AllCells, StreamCells
<1>4. heads' \in Heads
  <2>1. 0 \in 0 .. ctx.size
    BY ContextFacts DEF Typed
  <2> QED
    BY <1>1, <2>1 DEF Heads
<1>5. kbuf' \in Buffers
  <2>1. NoData \in Data
    BY DEF NoData, Data
  <2>2. [st \in Seqs |-> [i \in Cells |-> NoData]] \in Buffers
    BY <2>1 DEF Buffers
  <2> QED
    BY <1>1, <2>2 DEF Typed
<1>6. Typed'
  BY <1>1, <1>3, <1>4, <1>5, TypedNext DEF Typed
<1>7. ShiftsKnown'
  <2>1. Known(cells', hasShift', todo')
    BY <1>2, StreamsAre, NoCellTyped DEF Known
  <2> QED
    BY <1>1, <2>1, KnownNext
<1>8. KFollowsCells'
  <2>1. Follows(cells', CopySteps(kbuf', copies')[Len(copies')])
    BY <1>2, StreamsAre DEF Follows
  <2> QED
    BY <1>1, <2>1, FollowsNext
<1> QED
  BY <1>6, <1>7, <1>8 DEF Preserved

(* Where the shift is what takes a cell back to the position it was        *)
(* rotated for.                                                            *)
TakesBack(r, to, by) == \A p \in Pos : r[1] <= p /\ p < r[2] => to[p] - by[p] = p

LEMMA MovedIs ==
    ASSUME ctx \in Contexts, NEW c \in Cell, c # NoCell, NEW p \in Int, p <= ctx.last, NEW d \in Int
    PROVE  LET m == Moved(c, p, d)
           IN  /\ m \in Cell /\ m.seqs \subseteq c.seqs
               /\ m # NoCell => m.pos = p /\ m.shift = c.shift + d /\ m.value = c.value
<1> DEFINE m == Moved(c, p, d)
<1>1. CASE p < 0
  <2>1. m = NoCell
    BY <1>1 DEF Moved
  <2> QED
    BY <2>1, NoCellTyped
<1>2. CASE ~(p < 0)
  <2>1. m = [c EXCEPT !.pos = p, !.shift = @ + d]
    BY <1>2 DEF Moved
  <2> HIDE DEF m
  <2>2. c \in [pos : Pos, shift : Int, seqs : (SUBSET Seqs) \ {{}}, value : Seqs]
    BY DEF Cell, Pos
  <2>3. p \in Pos
    BY <1>2, ContextFacts DEF Pos
  <2>6. c.shift + d \in Int /\ m = [c EXCEPT !.pos = p, !.shift = c.shift + d]
    BY <2>1, <2>2
  <2>4. /\ m \in [pos : Pos, shift : Int, seqs : (SUBSET Seqs) \ {{}}, value : Seqs]
        /\ m.seqs = c.seqs /\ m.pos = p /\ m.shift = c.shift + d /\ m.value = c.value
    BY <2>6, <2>2, <2>3
  <2>5. m \in Cell
    BY <2>4 DEF Cell, Pos
  <2> QED
    BY <2>4, <2>5 DEF m
<1> QED
  BY <1>1, <1>2

LEMMA MovePreserves ==
    ASSUME Typed, NEW s \in Seqs, NEW r, NEW to \in [Pos -> Int], NEW by \in [Pos -> Int],
           NEW head \in 0 .. ctx.size, Move(s, r, to, by, head)
    PROVE  Typed' /\ (ShiftsKnown => ShiftsKnown') /\ (TakesBack(r, to, by) /\ KFollowsCells => KFollowsCells')
<1> DEFINE st == StreamOf(s)
           hit == Hit(s, r)
           cs == MovedCells(s, r, to, by)
<1>1. st \in Seqs /\ ctx \in Contexts
  BY StreamFacts DEF Typed
<1>2. /\ todo = <<>> /\ Become(st, cs, head) /\ UNCHANGED <<ctx, copies, kbuf, todo>>
      /\ hasShift' = [hasShift EXCEPT ![st] = @ \/ hit # {}]
      /\ \A i \in hit : to[cells[st][i].pos] <= ctx.last
  BY DEF Move
<1>3. cs = [i \in Cells |-> IF i \in hit THEN Moved(cells[st][i], to[cells[st][i].pos], by[cells[st][i].pos])
                            ELSE cells[st][i]]
  BY DEF MovedCells
<1>4. \A i \in hit : i \in Cells /\ s \in cells[st][i].seqs
                     /\ r[1] <= cells[st][i].pos /\ cells[st][i].pos < r[2]
  BY DEF Hit, In
<1> HIDE DEF st, hit, cs
<1>5. ASSUME NEW i \in hit
      PROVE  LET c == cells[st][i]
             IN  /\ cs[i] \in Cell /\ cs[i].seqs \subseteq c.seqs
                 /\ c # NoCell /\ c.pos \in Pos /\ c.shift \in Int
                 /\ cs[i] # NoCell =>
                      cs[i].pos = to[c.pos] /\ cs[i].shift = c.shift + by[c.pos] /\ cs[i].value = c.value
  <2> DEFINE c == cells[st][i]
             m == Moved(c, to[c.pos], by[c.pos])
  <2>1. i \in Cells /\ s \in c.seqs
    BY <1>4
  <2>2. c \in Cell
    BY <1>1, <2>1, StreamTyped
  <2>3. c # NoCell /\ c.pos \in Pos /\ c.shift \in Int
    BY <2>1, <2>2, CellFacts
  <2>4. to[c.pos] <= ctx.last /\ cs[i] = m
    BY <1>2, <1>3, <2>1
  <2> HIDE DEF c, m
  <2> DEFINE p == to[c.pos]
             d == by[c.pos]
  <2>5. p \in Int /\ d \in Int /\ p <= ctx.last
    BY <2>3, <2>4
  <2>6. m = Moved(c, p, d)
    BY DEF m
  <2> HIDE DEF p, d
  <2>7. /\ m \in Cell /\ m.seqs \subseteq c.seqs
        /\ m # NoCell => m.pos = p /\ m.shift = c.shift + d /\ m.value = c.value
    BY <1>1, <2>2, <2>3, <2>5, <2>6, MovedIs
  <2> QED
    BY <2>3, <2>4, <2>7 DEF c, p, d
<1>6. ASSUME NEW i \in Cells, i \notin hit
      PROVE  cs[i] = cells[st][i] /\ cs[i] \in Cell
  BY <1>1, <1>3, <1>6, StreamTyped
<1>7. cs \in StreamCells(st)
  <2>1. cs \in [Cells -> Cell]
    BY <1>3, <1>5, <1>6
  <2>2. \A i \in Cells : cs[i].seqs \subseteq cells[st][i].seqs
    BY <1>5, <1>6
  <2> QED
    BY <1>1, <2>1, <2>2, StreamTyped DEF StreamCells
<1>8. /\ cells' \in AllCells /\ heads' \in Heads
      /\ cells'[st] = cs /\ \A q \in Seqs : q # st => cells'[q] = cells[q]
  BY <1>1, <1>2, <1>7, BecomeIs
<1>9. /\ hasShift' \in [Seqs -> BOOLEAN] /\ hasShift'[st] = (hasShift[st] \/ hit # {})
      /\ \A q \in Seqs : q # st => hasShift'[q] = hasShift[q]
  <2> DEFINE v == hasShift[st] \/ hit # {}
  <2>1. v \in BOOLEAN
    OBVIOUS
  <2>2. hasShift' = [hasShift EXCEPT ![st] = v]
    BY <1>2
  <2> HIDE DEF v
  <2>3. hasShift \in [Seqs -> BOOLEAN]
    BY DEF Typed
  <2>5. hasShift' \in [Seqs -> BOOLEAN]
    BY <2>1, <2>2, <2>3
  <2>6. hasShift'[st] = v
    BY <1>1, <2>2, <2>3
  <2>7. \A q \in Seqs : q # st => hasShift'[q] = hasShift[q]
    BY <1>1, <2>2, <2>3
  <2>4. /\ hasShift' \in [Seqs -> BOOLEAN] /\ hasShift'[st] = v
        /\ \A q \in Seqs : q # st => hasShift'[q] = hasShift[q]
    BY <2>5, <2>6, <2>7
  <2> QED
    BY <2>4 DEF v
<1>10. Typed'
  BY <1>2, <1>8, <1>9, TypedNext DEF Typed
<1>11. ASSUME ShiftsKnown
       PROVE  ShiftsKnown'
  <2>1. Known(cells, hasShift, todo)
    BY <1>11, KnownIs
  <2>2. ASSUME NEW q \in Streams, NEW i \in Cells, cells'[q][i].shift # 0
        PROVE  hasShift'[q]
    <3>0. q \in Seqs
      BY StreamsAre
    <3>1. CASE q = st /\ i \in hit
      BY <1>9, <3>1
    <3>2. CASE q # st
      <4>1. cells'[q] = cells[q]
        BY <1>8, <3>0, <3>2
      <4>2. hasShift[q]
        BY <2>1, <2>2, <4>1 DEF Known
      <4> QED
        BY <1>9, <3>0, <3>2, <4>2
    <3>3. CASE q = st /\ i \notin hit
      <4>1. cells'[q][i] = cells[q][i]
        BY <1>6, <1>8, <3>3
      <4>2. hasShift[q]
        BY <2>1, <2>2, <4>1 DEF Known
      <4> QED
        BY <1>9, <3>3, <4>2
    <3> QED
      BY <3>1, <3>2, <3>3
  <2>3. Known(cells', hasShift', todo')
    BY <1>2, <2>2 DEF Known
  <2> QED
    BY <1>2, <2>3, KnownNext
<1>12. ASSUME TakesBack(r, to, by), KFollowsCells
       PROVE  KFollowsCells'
  <2>1. Follows(cells, Copied)
    BY <1>12, FollowsIs
  <2>2. CopySteps(kbuf', copies')[Len(copies')] = Copied
    BY <1>2 DEF Copied
  <2>3. ASSUME NEW q \in Streams, NEW i \in Cells, cells'[q][i] # NoCell
        PROVE  Copied[q][i] = [rot |-> cells'[q][i].pos - cells'[q][i].shift, value |-> cells'[q][i].value]
    <3>0. q \in Seqs
      BY StreamsAre
    <3>1. CASE q = st /\ i \in hit
      <4> DEFINE c == cells[st][i]
      <4>1. /\ c # NoCell /\ c.pos \in Pos /\ c.shift \in Int
            /\ cs[i].pos = to[c.pos] /\ cs[i].shift = c.shift + by[c.pos] /\ cs[i].value = c.value
        BY <1>5, <1>8, <2>3, <3>1
      <4>2. to[c.pos] - by[c.pos] = c.pos
        BY <1>4, <1>12, <3>1, <4>1 DEF TakesBack
      <4>3. to[c.pos] \in Int /\ by[c.pos] \in Int /\ c.pos \in Int
        BY <1>1, <4>1, ContextFacts DEF Pos
      <4>4. Copied[st][i] = [rot |-> c.pos - c.shift, value |-> c.value]
        BY <2>1, <3>1, <4>1 DEF Follows
      <4> HIDE DEF c
      <4>5. cs[i].pos - cs[i].shift = c.pos - c.shift
        BY <4>1, <4>2, <4>3
      <4> QED
        BY <1>8, <3>1, <4>1, <4>4, <4>5
    <3>2. CASE q # st
      <4>1. cells'[q] = cells[q]
        BY <1>8, <3>0, <3>2
      <4> QED
        BY <2>1, <2>3, <4>1 DEF Follows
    <3>3. CASE q = st /\ i \notin hit
      <4>1. cells'[q][i] = cells[q][i]
        BY <1>6, <1>8, <3>3
      <4> QED
        BY <2>1, <2>3, <4>1 DEF Follows
    <3> QED
      BY <3>1, <3>2, <3>3
  <2>4. Follows(cells', Copied)
    BY <2>3 DEF Follows
  <2> QED
    BY <1>2, <2>2, <2>4, FollowsNext
<1> QED
  BY <1>10, <1>11, <1>12

LEMMA SeqAddPreserves ==
    ASSUME Typed, NEW s \in Seqs, NEW r, NEW d \in Deltas, SeqAdd(s, r, d)
    PROVE  Preserved
<1> DEFINE to == [p \in Pos |-> p + d]
           by == [p \in Pos |-> d]
           freed == Freed(cells[StreamOf(s)], MovedCells(s, r, to, by))
           head == IF freed = {} THEN 0 ELSE Min(freed)
<1>1. ctx \in Contexts /\ d \in Int /\ Pos \subseteq Int
  BY ContextFacts, KVAssumption DEF Typed, Pos
<1>2. to \in [Pos -> Int] /\ by \in [Pos -> Int]
  BY <1>1
<1>3. \A p \in Pos : to[p] - by[p] = p
  BY <1>1
<1>4. Move(s, r, to, by, head)
  BY DEF SeqAdd
<1>5. freed \in SUBSET Cells
  BY DEF Freed, Used
<1> HIDE DEF to, by, freed
<1>6. head \in 0 .. ctx.size
  <2>1. CASE freed = {}
    BY <1>1, <2>1, ContextFacts
  <2>2. CASE freed # {}
    <3>1. freed \in SUBSET Nat
      BY <1>1, <1>5, ContextFacts
    <3>2. Min(freed) \in freed
      BY <2>2, <3>1, MinIs
    <3> QED
      BY <1>1, <1>5, <2>2, <3>2, ContextFacts
  <2> QED
    BY <2>1, <2>2
<1> HIDE DEF head
<1>7. TakesBack(r, to, by)
  BY <1>3 DEF TakesBack
<1> QED
  BY <1>2, <1>4, <1>6, <1>7, MovePreserves DEF Preserved

(* Dividing positions takes the shift in the wrong direction: the buffer   *)
(* follows only cells that stay where they are.                            *)
DivisionKeeps == \A r \in Divided, d \in Divisors, p \in Nat : r[1] <= p /\ p < r[2] => p \div d = p

LEMMA SeqDivPreserves ==
    ASSUME Typed, NEW s \in Seqs, NEW r \in Divided, NEW d \in Divisors, SeqDiv(s, r, d)
    PROVE  Typed' /\ (ShiftsKnown => ShiftsKnown') /\ (DivisionKeeps /\ KFollowsCells => KFollowsCells')
<1> DEFINE to == [p \in Pos |-> p \div d]
           by == [p \in Pos |-> p - p \div d]
<1>1. ctx \in Contexts /\ d \in Nat \ {0} /\ Pos \subseteq Nat
  BY ContextFacts, KVAssumption DEF Typed, Pos
<1>2. \A p \in Pos : p \div d \in Int
  BY <1>1
<1>3. to \in [Pos -> Int] /\ by \in [Pos -> Int]
  BY <1>1, <1>2
<1>4. Move(s, r, to, by, heads[StreamOf(s)])
  BY DEF SeqDiv
<1>5. heads[StreamOf(s)] \in 0 .. ctx.size
  BY <1>1, StreamFacts, StreamTyped
<1>6. DivisionKeeps => TakesBack(r, to, by)
  <2> SUFFICES ASSUME DivisionKeeps, NEW p \in Pos, r[1] <= p, p < r[2] PROVE to[p] - by[p] = p
    BY DEF TakesBack
  <2>1. p \div d = p /\ p \in Nat
    BY <1>1 DEF DivisionKeeps
  <2>2. to[p] = p /\ by[p] = p - p
    BY <2>1
  <2> QED
    BY <2>1, <2>2
<1> HIDE DEF to, by
<1> QED
  BY <1>3, <1>4, <1>5, <1>6, MovePreserves

-----------------------------------------------------------------------------
(* Decoding, up to the first micro-batch.                                  *)
LEMMA UpdatedCell ==
    ASSUME NEW c \in Cell
    PROVE  LET u == [c EXCEPT !.shift = 0]
           IN  /\ u \in Cell /\ (u = NoCell <=> c = NoCell)
               /\ u.pos = c.pos /\ u.seqs = c.seqs /\ u.value = c.value /\ u.shift = 0
<1> DEFINE u == [c EXCEPT !.shift = 0]
<1>1. CASE c = NoCell
  <2>1. u = NoCell
    BY <1>1 DEF NoCell
  <2> QED
    BY <1>1, <2>1, NoCellTyped
<1>2. CASE c # NoCell
  <2>1. c \in [pos : Pos, shift : Int, seqs : (SUBSET Seqs) \ {{}}, value : Seqs]
    BY <1>2 DEF Cell, Pos
  <2>2. /\ u \in [pos : Pos, shift : Int, seqs : (SUBSET Seqs) \ {{}}, value : Seqs]
        /\ u.pos = c.pos /\ u.seqs = c.seqs /\ u.value = c.value /\ u.shift = 0
    BY <2>1
  <2>3. u \in Cell /\ c.seqs # {}
    BY <2>1, <2>2 DEF Cell, Pos
  <2> HIDE DEF u
  <2>4. u # NoCell
    BY <2>2, <2>3, NoCellTyped
  <2> QED
    BY <1>2, <2>2, <2>3, <2>4 DEF u
<1> QED
  BY <1>1, <1>2

UpdatedAt(shifts, st, i) ==
    LET c == cells[st][i]
        u == Updated(shifts)[st][i]
    IN  /\ u \in Cell /\ (u = NoCell <=> c = NoCell)
        /\ u.pos = c.pos /\ u.seqs = c.seqs /\ u.value = c.value
        /\ shifts => u.shift = 0
        /\ ~shifts => u = c

LEMMA UpdatedIs ==
    ASSUME Typed, NEW shifts \in BOOLEAN
    PROVE  Updated(shifts) \in AllCells /\ \A st \in Seqs, i \in Cells : UpdatedAt(shifts, st, i)
<1>1. Updated(shifts) = IF shifts THEN [st \in Seqs |-> [i \in Cells |-> [cells[st][i] EXCEPT !.shift = 0]]] ELSE cells
  BY DEF Updated
<1>2. ASSUME NEW st \in Seqs, NEW i \in Cells
      PROVE  UpdatedAt(shifts, st, i)
  <2> DEFINE c == cells[st][i]
             u == Updated(shifts)[st][i]
  <2>0. c \in Cell
    BY StreamTyped
  <2>1. CASE shifts
    <3>1. u = [c EXCEPT !.shift = 0]
      BY <1>1, <2>1
    <3> HIDE DEF c, u
    <3>2. /\ u \in Cell /\ (u = NoCell <=> c = NoCell)
          /\ u.pos = c.pos /\ u.seqs = c.seqs /\ u.value = c.value /\ u.shift = 0
      BY <2>0, <3>1, UpdatedCell
    <3> QED
      BY <2>1, <3>2 DEF UpdatedAt, c, u
  <2>2. CASE ~shifts
    <3>1. u = c
      BY <1>1, <2>2
    <3> HIDE DEF c, u
    <3> QED
      BY <2>0, <2>2, <3>1 DEF UpdatedAt, c, u
  <2> QED
    BY <2>1, <2>2
<1>3. Updated(shifts) \in AllCells
  <2>1. CASE shifts
    <3>1. \A st \in Seqs, i \in Cells : [cells[st][i] EXCEPT !.shift = 0] \in Cell
      BY StreamTyped, UpdatedCell
    <3>2. Updated(shifts) \in [Seqs -> [Cells -> Cell]]
      BY <1>1, <2>1, <3>1
    <3>3. \A st \in Seqs, i \in Cells : Updated(shifts)[st][i].seqs = cells[st][i].seqs
      BY <1>2 DEF UpdatedAt
    <3> QED
      BY <3>2, <3>3, StreamTyped DEF AllCells, StreamCells
  <2>2. CASE ~shifts
    BY <1>1, <2>2 DEF Typed
  <2> QED
    BY <2>1, <2>2
<1> QED
  BY <1>2, <1>3

LEMMA ShiftedIs ==
    ASSUME Typed, NEW shifts \in BOOLEAN
    PROVE  Shifted(shifts) \in Buffers /\ (KFollowsCells => Follows(Updated(shifts), Shifted(shifts)))
<1> DEFINE new(st, i) == LET c == cells[st][i]
                         IN  IF c = NoCell THEN NoData
                             ELSE IF shifts THEN [Copied[st][i] EXCEPT !.rot = @ + c.shift]
                             ELSE Copied[st][i]
<1>1. Shifted(shifts) = [st \in Seqs |-> [i \in Cells |-> new(st, i)]]
  BY DEF Shifted
<1>2. \A st \in Seqs, i \in Cells : Copied[st][i] \in Data
  BY CopiedTyped DEF Buffers
<1>3. ASSUME NEW st \in Seqs, NEW i \in Cells
      PROVE  new(st, i) \in Data
  <2>1. cells[st][i].shift \in Int
    BY StreamTyped, CellFacts
  <2> DEFINE b == Copied[st][i]
             d == cells[st][i].shift
  <2>2. b \in Data /\ d \in Int
    BY <1>2, <2>1
  <2> HIDE DEF b, d
  <2>3. [b EXCEPT !.rot = @ + d] \in Data
    BY <2>2 DEF Data
  <2>4. NoData \in Data
    BY DEF NoData, Data
  <2> QED
    BY <2>2, <2>3, <2>4 DEF b, d
<1>4. Shifted(shifts) \in Buffers
  BY <1>1, <1>3 DEF Buffers
<1>5. ASSUME KFollowsCells, NEW st \in Streams, NEW i \in Cells, Updated(shifts)[st][i] # NoCell
      PROVE  LET u == Updated(shifts)[st][i] IN Shifted(shifts)[st][i] = [rot |-> u.pos - u.shift, value |-> u.value]
  <2> DEFINE u == Updated(shifts)[st][i]
             c == cells[st][i]
             b == Copied[st][i]
  <2>0. st \in Seqs
    BY StreamsAre
  <2>1. /\ u \in Cell /\ (u = NoCell <=> c = NoCell)
        /\ u.pos = c.pos /\ u.value = c.value
        /\ shifts => u.shift = 0
        /\ ~shifts => u = c
    <3>1. UpdatedAt(shifts, st, i)
      BY <2>0, UpdatedIs
    <3> QED
      BY <3>1 DEF UpdatedAt
  <2>2. c # NoCell /\ c \in Cell
    BY <1>5, <2>0, <2>1, StreamTyped
  <2>3. c.pos \in Int /\ c.shift \in Int
    BY <2>2, CellFacts, ContextFacts DEF Typed, Pos
  <2>4. b = [rot |-> c.pos - c.shift, value |-> c.value]
    BY <1>5, <2>2 DEF KFollowsCells
  <2>5. Shifted(shifts)[st][i] = IF shifts THEN [b EXCEPT !.rot = @ + c.shift] ELSE b
    BY <1>1, <2>0, <2>2
  <2> HIDE DEF u, c, b
  <2>6. CASE shifts
    <3>1. [b EXCEPT !.rot = @ + c.shift] = [rot |-> (c.pos - c.shift) + c.shift, value |-> c.value]
      BY <2>4
    <3>2. (c.pos - c.shift) + c.shift = c.pos /\ c.pos - 0 = c.pos
      BY <2>3
    <3> QED
      BY <2>1, <2>5, <2>6, <3>1, <3>2 DEF u
  <2>7. CASE ~shifts
    BY <2>1, <2>4, <2>5, <2>7 DEF u
  <2> QED
    BY <2>6, <2>7
<1> QED
  BY <1>4, <1>5 DEF Follows

LEMMA UpdatedKnown ==
    ASSUME Typed, ShiftsKnown, NEW shifts \in Shifting, NEW entries
    PROVE  Known(Updated(shifts), IF shifts THEN [st \in Seqs |-> FALSE] ELSE hasShift, entries)
<1> SUFFICES ASSUME NEW st \in Streams, NEW i \in Cells, Updated(shifts)[st][i].shift # 0
             PROVE  ~shifts /\ hasShift[st] /\ "noshift" \in ctx.calls
  BY DEF Known
<1>0. shifts \in BOOLEAN /\ (shifts = Marked \/ (~shifts /\ "noshift" \in ctx.calls))
  BY DEF Shifting, Marked
<1>1. UpdatedAt(shifts, st, i)
  BY <1>0, StreamsAre, UpdatedIs
<1>2. ~shifts
  BY <1>1 DEF UpdatedAt
<1>3. Updated(shifts)[st][i] = cells[st][i]
  BY <1>1, <1>2 DEF UpdatedAt
<1>4. hasShift[st]
  BY <1>3 DEF ShiftsKnown
<1>5. Marked
  BY <1>4 DEF Marked
<1> QED
  BY <1>0, <1>2, <1>4, <1>5


PreparedOf(p, all, ubs) ==
    /\ p.all \in AllCells /\ p.hs \in Heads /\ BelowAll(p.all, all)
    /\ p.todo \in Seq(Entry)
    /\ p.todo # <<>> => EntriesFor(p.todo, ubs)
    /\ ctx.window = 0 => p.all = all /\ FreeFor(all, p.todo)

LEMMA PreparedAre ==
    ASSUME ctx \in Contexts, NEW all \in AllCells, NEW hs \in Heads, NEW ubs \in Seq(Microbatch)
    PROVE  PreparedOf(Prepared(all, hs, ubs), all, ubs)
<1> DEFINE p == Prepared(all, hs, ubs)
<1>1. /\ p.all \in AllCells /\ p.hs \in Heads /\ BelowAll(p.all, all)
      /\ ctx.window = 0 => p.all = all
      /\ p.todo \in Seq(Entry)
      /\ p.todo # <<>> => EntriesFor(p.todo, ubs)
  BY PreparedIs
<1>2. ctx.window = 0 => FreeFor(all, p.todo)
  BY PreparedFree
<1> HIDE DEF p
<1>3. PreparedOf(p, all, ubs)
  BY <1>1, <1>2 DEF PreparedOf
<1> QED
  BY <1>3 DEF p

LEMMA BelowAllBelow ==
    ASSUME NEW a, NEW b, NEW c, BelowAll(a, b), BelowAll(b, c)
    PROVE  BelowAll(a, c)
BY BelowBelow DEF BelowAll

(* What a decode leaves for its micro-batches.                             *)
Ready(splits, updated) ==
    /\ cells' \in AllCells /\ heads' \in Heads /\ BelowAll(cells', updated)
    /\ todo' \in Seq(Entry)
    /\ todo' # <<>> => \E k \in 1 .. Len(splits) : EntriesFor(todo', splits[k])
    /\ ctx.window = 0 => cells' = updated /\ FreeFor(cells', todo')

LEMMA DecodeIs ==
    ASSUME Typed, NEW S, NEW splits, SplitsOf(splits, S), DecodeSplits(splits)
    PROVE  \E shifts \in Shifting :
              /\ shifts \in BOOLEAN
              /\ Ready(splits, Updated(shifts))
              /\ ctx' = ctx /\ text' = text /\ kbuf' = Shifted(shifts) /\ copies' = <<>>
              /\ hasShift' = IF shifts THEN [st \in Seqs |-> FALSE] ELSE hasShift
<1>0. PICK shifts \in Shifting :
         /\ kbuf' = Shifted(shifts)
         /\ hasShift' = IF shifts THEN [st \in Seqs |-> FALSE] ELSE hasShift
         /\ \E first \in {Prepared(Updated(shifts), heads, splits[1])} :
            \E done \in {IF first.todo = <<>> /\ Len(splits) = 2
                         THEN Prepared(first.all, first.hs, splits[2]) ELSE first} :
                cells' = done.all /\ heads' = done.hs /\ todo' = done.todo
  BY DEF DecodeSplits
<1>9. shifts \in BOOLEAN
  BY DEF Shifting, Marked
<1> DEFINE updated == Updated(shifts)
           first == Prepared(updated, heads, splits[1])
           second == Prepared(first.all, first.hs, splits[2])
<1>1. ctx \in Contexts /\ updated \in AllCells /\ heads \in Heads
  BY <1>9, UpdatedIs DEF Typed
<1>2. Len(splits) \in {1, 2} /\ splits[1] \in Seq(Microbatch) /\ (Len(splits) = 2 => splits[2] \in Seq(Microbatch))
  <2>1. Len(splits) \in {1, 2} /\ \A k \in 1 .. Len(splits) : splits[k] \in Seq(Microbatch)
    BY DEF SplitsOf, SplitOf
  <2> QED
    BY <2>1
<1>3. PreparedOf(first, updated, splits[1])
  BY <1>1, <1>2, PreparedAre
<1>4. first.all \in AllCells /\ first.hs \in Heads
  BY <1>3 DEF PreparedOf
<1>5. Len(splits) = 2 => PreparedOf(second, first.all, splits[2])
  <2> DEFINE all == first.all
             hs == first.hs
  <2> HIDE DEF all, hs
  <2>1. all \in AllCells /\ hs \in Heads
    BY <1>4 DEF all, hs
  <2>2. Len(splits) = 2 => PreparedOf(Prepared(all, hs, splits[2]), all, splits[2])
    BY <1>1, <1>2, <2>1, PreparedAre
  <2> QED
    BY <2>2 DEF all, hs
<1>6. \/ cells' = first.all /\ heads' = first.hs /\ todo' = first.todo
      \/ Len(splits) = 2 /\ cells' = second.all /\ heads' = second.hs /\ todo' = second.todo
  BY <1>0
<1> HIDE DEF first, second, updated
<1>7. ASSUME cells' = first.all /\ heads' = first.hs /\ todo' = first.todo
      PROVE  Ready(splits, updated)
  <2>1. 1 \in 1 .. Len(splits)
    BY <1>2
  <2> QED
    BY <1>3, <1>7, <2>1 DEF PreparedOf, Ready
<1>8. ASSUME Len(splits) = 2, cells' = second.all, heads' = second.hs, todo' = second.todo
      PROVE  Ready(splits, updated)
  <2>1. 2 \in 1 .. Len(splits)
    BY <1>8
  <2>2. PreparedOf(second, first.all, splits[2])
    BY <1>5, <1>8
  <2>3. /\ second.all \in AllCells /\ second.hs \in Heads /\ BelowAll(second.all, first.all)
        /\ second.todo \in Seq(Entry)
        /\ second.todo # <<>> => EntriesFor(second.todo, splits[2])
        /\ ctx.window = 0 => second.all = first.all /\ FreeFor(first.all, second.todo)
    BY <2>2 DEF PreparedOf
  <2>4. BelowAll(first.all, updated) /\ (ctx.window = 0 => first.all = updated)
    BY <1>3 DEF PreparedOf
  <2>5. BelowAll(second.all, updated)
    BY <2>3, <2>4, BelowAllBelow
  <2> QED
    BY <1>8, <2>1, <2>3, <2>4, <2>5 DEF Ready
<1>10. Ready(splits, updated)
  BY <1>6, <1>7, <1>8
<1>11. ctx' = ctx /\ text' = text /\ copies' = <<>>
  BY DEF DecodeSplits
<1> QED
  BY <1>0, <1>9, <1>10, <1>11 DEF updated

LEMMA DecodeSplitsPreserves ==
    ASSUME Typed, NEW S, NEW splits, SplitsOf(splits, S), DecodeSplits(splits)
    PROVE  Preserved
<1>0. PICK shifts \in Shifting :
         /\ shifts \in BOOLEAN
         /\ Ready(splits, Updated(shifts))
         /\ ctx' = ctx /\ text' = text /\ kbuf' = Shifted(shifts) /\ copies' = <<>>
         /\ hasShift' = IF shifts THEN [st \in Seqs |-> FALSE] ELSE hasShift
  BY DecodeIs
<1> DEFINE updated == Updated(shifts)
           buffers == Shifted(shifts)
           marks == IF shifts THEN [st \in Seqs |-> FALSE] ELSE hasShift
<1>1. Ready(splits, updated)
  BY <1>0
<1>2. cells' \in AllCells /\ heads' \in Heads /\ BelowAll(cells', updated) /\ todo' \in Seq(Entry)
  BY <1>1 DEF Ready
<1>3. /\ ctx' = ctx /\ kbuf' = buffers /\ copies' = <<>> /\ hasShift' = marks
  BY <1>0
<1>4. KeptAll(cells', updated)
  BY <1>2, BelowKept
<1>5. kbuf' \in Buffers /\ (KFollowsCells => Follows(updated, kbuf'))
  BY <1>0, <1>3, ShiftedIs
<1>6. Typed'
  <2>1. hasShift' \in [Seqs -> BOOLEAN]
    BY <1>3 DEF Typed
  <2>2. ctx \in Contexts
    BY DEF Typed
  <2>3. copies' \in Seq(Streams \X Streams)
    BY <1>3
  <2> QED
    BY <1>2, <1>3, <1>5, <2>1, <2>2, <2>3, TypedNext
<1>7. ASSUME ShiftsKnown
      PROVE  ShiftsKnown'
  <2>1. Known(updated, hasShift', todo')
    BY <1>3, <1>7, UpdatedKnown
  <2>2. Known(cells', hasShift', todo')
    BY <1>4, <2>1, KeptKnown
  <2> QED
    BY <1>3, <2>2, KnownNext
<1>8. ASSUME KFollowsCells
      PROVE  KFollowsCells'
  <2> DEFINE B == [Cells -> Data]
  <2>1. kbuf' \in [Seqs -> B]
    BY <1>5 DEF Buffers
  <2> HIDE DEF B
  <2> DEFINE buf == kbuf'
  <2>2. buf \in [Seqs -> B]
    BY <2>1
  <2> HIDE DEF buf
  <2>3. CopySteps(buf, <<>>)[Len(<<>>)] = buf
    BY <2>2, CopiedNothing
  <2>4. CopySteps(kbuf', copies')[Len(copies')] = kbuf'
    BY <1>3, <2>3 DEF buf
  <2>5. Follows(cells', kbuf')
    BY <1>4, <1>5, <1>8, KeptFollows
  <2> QED
    BY <1>3, <2>4, <2>5, FollowsNext
<1> QED
  BY <1>6, <1>7, <1>8 DEF Preserved

-----------------------------------------------------------------------------
(* The tokens of a batch come after what the cells hold of their           *)
(* sequences, and have one sequence unless batches are shared.             *)
Newer == {t \in Token :
    /\ \A s \in t.seqs : \A p \in Positions(cells[StreamOf(s)], s) : p < t.pos
    /\ "share" \notin ctx.calls => \E s \in Seqs : t.seqs = {s}}

LEMMA PosMaxIs ==
    ASSUME Typed, NEW s \in Seqs
    PROVE  /\ Positions(cells[StreamOf(s)], s) \subseteq Pos
           /\ PosMax(cells[StreamOf(s)], s) \in Int /\ -1 <= PosMax(cells[StreamOf(s)], s)
           /\ \A p \in Positions(cells[StreamOf(s)], s) : p <= PosMax(cells[StreamOf(s)], s)
<1> DEFINE cs == cells[StreamOf(s)]
           P == Positions(cs, s)
<1>0. ctx \in Contexts /\ StreamOf(s) \in Seqs
  BY StreamFacts DEF Typed
<1>1. P \subseteq Pos
  <2>1. \A i \in Cells : s \in cs[i].seqs => cs[i].pos \in Pos
    <3> TAKE i \in Cells
    <3>1. cs[i] \in Cell
      BY <1>0, StreamTyped
    <3> QED
      BY <3>1, CellFacts
  <2> QED
    BY <2>1 DEF Positions
<1>2. PosMax(cs, s) = IF P = {} THEN -1 ELSE Max(P)
  BY DEF PosMax
<1> HIDE DEF P, cs
<1>3. CASE P = {}
  BY <1>1, <1>2, <1>3 DEF P, cs
<1>4. CASE P # {}
  <2>1. P \in SUBSET (0 .. ctx.last) /\ ctx.last \in Nat
    BY <1>0, <1>1, ContextFacts DEF Pos
  <2>2. Max(P) \in P /\ \A y \in P : y <= Max(P)
    BY <1>4, <2>1, MaxIs
  <2> QED
    BY <1>1, <1>2, <1>4, <2>1, <2>2 DEF P, cs
<1> QED
  BY <1>3, <1>4

NewOf(q, seqs, S) ==
    /\ q \in Seq(S) /\ InTurn(q)
    /\ \A k \in DOMAIN q : q[k].seqs = seqs

LEMMA NewIs ==
    ASSUME Typed, NEW seqs \in SUBSET Seqs, seqs # {}, NEW n \in Nat,
           "share" \notin ctx.calls => \E s \in Seqs : seqs = {s},
           \A s \in seqs : PosMax(cells[StreamOf(s)], s) = PosMax(cells[StreamOf(First(seqs))], First(seqs)),
           InBounds(New(seqs, n))
    PROVE  NewOf(New(seqs, n), seqs, Newer) /\ Len(New(seqs, n)) = n
<1> DEFINE f == First(seqs)
           p == PosMax(cells[StreamOf(f)], f)
           q == New(seqs, n)
<1>0. f \in seqs /\ f \in Seqs
  BY FirstIs
<1>1. p \in Int /\ -1 <= p
  BY <1>0, PosMaxIs
<1>2. q = [k \in 1 .. n |-> [seqs |-> seqs, pos |-> p + k, value |-> f]]
  BY DEF New
<1>3. \A s \in seqs : \A x \in Positions(cells[StreamOf(s)], s) : x \in Int /\ x <= p
  <2> TAKE s \in seqs
  <2>0. PosMax(cells[StreamOf(s)], s) = p
    OBVIOUS
  <2>1. /\ Positions(cells[StreamOf(s)], s) \subseteq Pos
        /\ \A x \in Positions(cells[StreamOf(s)], s) : x <= PosMax(cells[StreamOf(s)], s)
    BY PosMaxIs
  <2> HIDE DEF p
  <2> QED
    BY <2>0, <2>1 DEF Pos
<1>4. \A k \in 1 .. n : q[k].pos <= ctx.last
  BY <1>2 DEF InBounds
<1>5. ctx.last \in Nat
  BY ContextFacts DEF Typed
<1> HIDE DEF p, f
<1>6. \A k \in 1 .. n : q[k].seqs = seqs /\ q[k].pos = p + k /\ q[k] = [seqs |-> seqs, pos |-> p + k, value |-> f]
  BY <1>2
<1>7. DOMAIN q = 1 .. n /\ Len(q) = n
  BY <1>2
<1> HIDE DEF q
<1>8. ASSUME NEW k \in 1 .. n
      PROVE  q[k] \in Newer
  <2>1. p + k \in Pos
    <3>1. p + k <= ctx.last
      BY <1>4, <1>6
    <3> QED
      BY <3>1, <1>1, <1>5 DEF Pos
  <2>2. q[k] \in Token
    <3>1. seqs \in (SUBSET Seqs) \ {{}}
      OBVIOUS
    <3> DEFINE x == p + k
    <3>2. x \in Pos
      BY <2>1
    <3> HIDE DEF x
    <3>3. [seqs |-> seqs, pos |-> x, value |-> f] \in Token
      BY <1>0, <3>1, <3>2 DEF Token
    <3> QED
      BY <1>6, <3>3 DEF x
  <2>3. \A s \in seqs : \A x \in Positions(cells[StreamOf(s)], s) : x < p + k
    BY <1>1, <1>3
  <2>4. \A s \in q[k].seqs : \A x \in Positions(cells[StreamOf(s)], s) : x < q[k].pos
    BY <1>6, <2>3
  <2>5. "share" \notin ctx.calls => \E s \in Seqs : q[k].seqs = {s}
    BY <1>6
  <2> QED
    BY <2>2, <2>4, <2>5 DEF Newer
<1>9. q \in Seq(Newer)
  <2>1. q = [k \in 1 .. n |-> q[k]]
    BY <1>2, <1>7 DEF q
  <2>2. q \in [1 .. n -> Newer]
    BY <1>8, <2>1
  <2> QED
    BY <2>2
<1>10. InTurn(q)
  BY <1>1, <1>6, <1>7 DEF InTurn, Later
<1> QED
  BY <1>6, <1>7, <1>9, <1>10 DEF NewOf, q

LEMMA NewerTokens == Newer \in SUBSET Token
BY DEF Newer

(* Both ways to decode split a batch of such tokens.                       *)
LEMMA DecodeSplitsNew ==
    ASSUME Typed, NEW ss \in SUBSET Seqs, ss # {}, NEW len \in [ss -> ctx.lengths], Decode(ss, len)
    PROVE  \E splits : SplitsOf(splits, Newer) /\ DecodeSplits(splits)
<1> DEFINE tokens == [s \in ss |-> New({s}, len[s])]
<1>0. ctx \in Contexts /\ ctx.lengths \subseteq Nat
  BY ContextFacts DEF Typed
<1>1. \A s \in ss : InBounds(tokens[s])
  BY DEF Decode
<1>7. PICK turns \in Turns(len) : DecodeSplits(Splits(tokens, turns))
  BY DEF Decode
<1>2. ASSUME NEW s \in ss
      PROVE  NewOf(New({s}, len[s]), {s}, Newer) /\ Len(New({s}, len[s])) = len[s]
  <2>1. First({s}) = s
    <3>1. First({s}) \in {s}
      BY FirstIs
    <3> QED
      BY <3>1
  <2>2. InBounds(New({s}, len[s])) /\ len[s] \in Nat
    BY <1>0, <1>1
  <2> DEFINE n == len[s]
  <2> HIDE DEF n
  <2>3. InBounds(New({s}, n)) /\ n \in Nat
    BY <2>2 DEF n
  <2>4. NewOf(New({s}, n), {s}, Newer) /\ Len(New({s}, n)) = n
    BY <2>1, <2>3, NewIs
  <2> QED
    BY <2>4 DEF n
<1>3. BatchOf(tokens, ss, Newer)
  <2>1. tokens \in [ss -> Seq(Newer)]
    BY <1>2 DEF NewOf
  <2> QED
    BY <1>2, <2>1 DEF NewOf, BatchOf
<1>4. len \in [ss -> Nat] /\ \A s \in ss : Len(tokens[s]) = len[s]
  BY <1>0, <1>2
<1> HIDE DEF tokens
<1>5. TurnsOf(turns, tokens, ss)
  BY <1>4, TurnsAre
<1>6. SplitsOf(Splits(tokens, turns), Newer)
  BY <1>0, <1>3, <1>5, NewerTokens, SplitsAre
<1> QED
  BY <1>7, <1>6

LEMMA DecodeSplitsShared ==
    ASSUME Typed, NEW ss \in SUBSET Seqs, ss # {}, NEW n \in ctx.lengths, DecodeShared(ss, n)
    PROVE  \E splits : SplitsOf(splits, Newer) /\ DecodeSplits(splits)
<1> DEFINE q == New(ss, n)
           c == Chunks(q)
           splits == IF ctx.window = 0 THEN <<c>> ELSE <<c, c>>
<1>0. n \in Nat
  BY ContextFacts DEF Typed
<1>1. /\ "share" \in ctx.calls /\ ctx.unified /\ InBounds(q)
      /\ \A s, t \in ss : PosMax(cells[0], s) = PosMax(cells[0], t)
      /\ DecodeSplits(splits)
  BY DEF DecodeShared
<1>2. \A s : StreamOf(s) = 0
  BY <1>1 DEF StreamOf
<1>3. First(ss) \in ss
  BY FirstIs
<1>4. \A s \in ss : PosMax(cells[StreamOf(s)], s) = PosMax(cells[StreamOf(First(ss))], First(ss))
  BY <1>1, <1>2, <1>3
<1>5. NewOf(q, ss, Newer)
  BY <1>0, <1>1, <1>4, NewIs
<1> HIDE DEF q
<1>6. c \in Seq(Microbatch) /\ From(c, Newer) /\ AllSmall(c) /\ Ascending(c)
  <2>1. q \in Seq(Newer) /\ InTurn(q)
    BY <1>5 DEF NewOf
  <2> QED
    BY <1>1, <2>1, NewerTokens, ChunksAre
<1> HIDE DEF c
<1>7. SplitOf(c, Newer)
  BY <1>6 DEF SplitOf
<1>8. SplitsOf(splits, Newer)
  BY <1>7, OneSplit, TwoSplits DEF SplitsOf
<1> QED
  BY <1>1, <1>8

-----------------------------------------------------------------------------
(* Computing a micro-batch.                                                *)
LEMMA HeadAndTail ==
    ASSUME NEW T, NEW q \in Seq(T), q # <<>>
    PROVE  /\ Head(q) = q[1] /\ 1 \in DOMAIN q /\ q[1] \in T
           /\ Tail(q) \in Seq(T)
           /\ \A k \in DOMAIN Tail(q) : k \in Int /\ k + 1 \in DOMAIN q /\ Tail(q)[k] = q[k + 1]
<1>1. Len(q) \in Nat \ {0} /\ DOMAIN q = 1 .. Len(q)
  BY EmptySeq, LenProperties
<1>2. Head(q) = q[1] /\ 1 \in DOMAIN q /\ q[1] \in T
  BY <1>1, ElementOfSeq
<1>3. Tail(q) \in Seq(T)
  BY HeadTailProperties
<1>4. \A k \in DOMAIN Tail(q) : k \in Int /\ k + 1 \in DOMAIN q /\ Tail(q)[k] = q[k + 1]
  BY <1>1
<1> QED
  BY <1>2, <1>3, <1>4

StoredAt(ub, slots, st, i) ==
    IF Takes(ub, slots, st, i)
    THEN [rot |-> TokenAt(ub, slots, st, i).pos, value |-> TokenAt(ub, slots, st, i).value]
    ELSE kbuf[st][i]

LEMMA StoredIs ==
    ASSUME NEW ub \in Microbatch, NEW slots \in SlotsFor(ub), NEW st \in Seqs, NEW i \in Cells
    PROVE  Stored(ub, slots)[st][i] = StoredAt(ub, slots, st, i)
<1> DEFINE hit == \E j \in Groups(ub, st) : \E k \in DOMAIN ub[j] : slots[j][k] = i
           j0 == GroupOf(ub, st)
           k0 == CHOOSE k \in DOMAIN ub[j0] : slots[j0][k] = i
<1>1. Stored(ub, slots)[st][i] = IF hit THEN [rot |-> ub[j0][k0].pos, value |-> ub[j0][k0].value] ELSE kbuf[st][i]
  BY DEF Stored, GroupOf
<1>2. \A j \in Groups(ub, st) : j = j0
  BY OwnGroup DEF Groups
<1>3. hit => Has(ub, st)
  BY DEF Has
<1>4. CASE Has(ub, st)
  <2>1. /\ j0 \in Groups(ub, st) /\ Slot(ub, slots, st) = slots[j0]
        /\ DOMAIN slots[j0] = DOMAIN ub[j0] /\ j0 \in DOMAIN ub
    <3>1. Slot(ub, slots, st) = slots[j0]
      BY DEF Slot
    <3>2. DOMAIN Slot(ub, slots, st) = DOMAIN ub[GroupOf(ub, st)] /\ GroupOf(ub, st) \in DOMAIN ub
      BY <1>4, SlotIs, GroupIs
    <3>3. GroupOf(ub, st) \in Groups(ub, st)
      BY <1>4 DEF Has, GroupOf
    <3> QED
      BY <3>1, <3>2, <3>3
  <2>2. hit <=> Among(slots[j0], i)
    BY <1>2, <2>1 DEF Among
  <2>3. Takes(ub, slots, st, i) <=> hit
    BY <1>4, <2>1, <2>2 DEF Takes
  <2>4. ASSUME hit
        PROVE  k0 = At(slots[j0], i)
    <3>1. \E k \in DOMAIN ub[j0] : slots[j0][k] = i
      BY <1>2, <2>4
    <3>2. k0 \in DOMAIN ub[j0] /\ slots[j0][k0] = i
      BY <3>1
    <3>3. At(slots[j0], i) \in DOMAIN ub[j0] /\ slots[j0][At(slots[j0], i)] = i
      BY <2>1, <2>2, <2>4, AtIs
    <3>4. \A k, l \in DOMAIN ub[j0] : slots[j0][k] = slots[j0][l] => k = l
      BY <2>1 DEF SlotsFor
    <3> HIDE DEF k0, j0
    <3> QED
      BY <3>2, <3>3, <3>4
  <2>5. hit => TokenAt(ub, slots, st, i) = ub[j0][k0]
    BY <2>1, <2>4 DEF TokenAt
  <2> HIDE DEF hit, j0, k0
  <2> QED
    BY <1>1, <2>3, <2>5 DEF StoredAt
<1>5. CASE ~Has(ub, st)
  BY <1>1, <1>3, <1>5 DEF StoredAt, Takes
<1> QED
  BY <1>4, <1>5

LEMMA StoredTyped ==
    ASSUME ctx \in Contexts, kbuf \in Buffers, NEW ub \in Microbatch, NEW slots \in SlotsFor(ub)
    PROVE  Stored(ub, slots) \in Buffers
<1>1. ASSUME NEW st \in Seqs, NEW i \in Cells
      PROVE  Stored(ub, slots)[st][i] \in Data
  <2>1. Stored(ub, slots)[st][i] = StoredAt(ub, slots, st, i)
    BY StoredIs
  <2>2. CASE Takes(ub, slots, st, i)
    <3> DEFINE t == TokenAt(ub, slots, st, i)
    <3>1. t \in Token
      BY <2>2, TokenIs
    <3>2. StoredAt(ub, slots, st, i) = [rot |-> t.pos, value |-> t.value]
      BY <2>2 DEF StoredAt
    <3> HIDE DEF t
    <3>3. t.pos \in Int /\ t.value \in Int
      <4>1. t.pos \in Pos /\ t.value \in Seqs
        BY <3>1 DEF Token
      <4>2. t.value \in Nat
        BY <4>1, Numbers
      <4>3. ctx.last \in Nat
        BY ContextFacts
      <4> QED
        BY <4>1, <4>2, <4>3 DEF Pos
    <3> QED
      BY <2>1, <3>2, <3>3 DEF Data
  <2>3. CASE ~Takes(ub, slots, st, i)
    BY <2>1, <2>3 DEF StoredAt, Buffers
  <2> QED
    BY <2>2, <2>3
<1>2. \E F : Stored(ub, slots) = [st \in Seqs |-> [i \in Cells |-> F[st][i]]]
  <2> DEFINE G(st, i) ==
        IF \E j \in Groups(ub, st) : \E k \in DOMAIN ub[j] : slots[j][k] = i
        THEN LET j == CHOOSE j \in Groups(ub, st) : TRUE
                 k == CHOOSE k \in DOMAIN ub[j] : slots[j][k] = i
             IN  [rot |-> ub[j][k].pos, value |-> ub[j][k].value]
        ELSE kbuf[st][i]
  <2>1. Stored(ub, slots) = [st \in Seqs |-> [i \in Cells |-> G(st, i)]]
    BY DEF Stored
  <2> HIDE DEF G
  <2> DEFINE F == [st \in Seqs |-> [i \in Cells |-> G(st, i)]]
  <2>2. Stored(ub, slots) = [st \in Seqs |-> [i \in Cells |-> F[st][i]]]
    BY <2>1
  <2> HIDE DEF F
  <2> QED
    BY <2>2
<1> QED
  BY <1>1, <1>2 DEF Buffers

LEMMA ComputePreserves ==
    ASSUME Typed, Compute
    PROVE  Preserved
<1> DEFINE ub == Head(todo).ub
           slots == Head(todo).slots
<1>1. /\ todo # <<>> /\ cells' = PlaceAll(cells, ub, slots) /\ heads' = HeadsAfter(heads, ub, slots)
      /\ kbuf' = Stored(ub, slots) /\ todo' = Tail(todo) /\ UNCHANGED <<ctx, hasShift, copies>>
  BY DEF Compute
<1>2. /\ ctx \in Contexts /\ cells \in AllCells /\ heads \in Heads /\ hasShift \in [Seqs -> BOOLEAN]
      /\ kbuf \in Buffers /\ todo \in Seq(Entry) /\ copies = <<>>
  BY <1>1 DEF Typed
<1>3. Tail(todo) \in Seq(Entry) /\ Head(todo) \in Entry
  BY <1>1, <1>2, HeadAndTail
<1>4. ub \in Microbatch /\ slots \in SlotsFor(ub)
  BY <1>3 DEF Entry
<1> HIDE DEF ub, slots
<1>5. /\ cells' \in AllCells
      /\ \A st \in Seqs, i \in Cells : Takes(ub, slots, st, i) =>
           Below(cells'[st][i], Fresh(TokenAt(ub, slots, st, i)))
      /\ \A st \in Seqs, i \in Cells : ~Takes(ub, slots, st, i) => Below(cells'[st][i], cells[st][i])
  BY <1>1, <1>2, <1>4, PlacedAll
<1>6. heads' \in Heads
  BY <1>1, <1>2, <1>4, HeadsPlaced
<1>7. kbuf' \in Buffers
  BY <1>1, <1>2, <1>4, StoredTyped
<1>8. Typed'
  <2>1. copies' = <<>> /\ copies' \in Seq(Streams \X Streams)
    BY <1>1, <1>2
  <2> QED
    BY <1>1, <1>2, <1>3, <1>5, <1>6, <1>7, <2>1, TypedNext
<1>9. ASSUME ShiftsKnown
      PROVE  ShiftsKnown'
  <2>1. ASSUME NEW st \in Streams, NEW i \in Cells, cells'[st][i].shift # 0
        PROVE  hasShift[st] /\ "noshift" \in ctx.calls
    <3>1. st \in Seqs
      BY StreamsAre
    <3>2. CASE Takes(ub, slots, st, i)
      <4>1. Below(cells'[st][i], Fresh(TokenAt(ub, slots, st, i)))
        BY <1>5, <3>1, <3>2
      <4> QED
        BY <2>1, <4>1, NoCellTyped DEF Below, Fresh
    <3>3. CASE ~Takes(ub, slots, st, i)
      <4>1. Below(cells'[st][i], cells[st][i])
        BY <1>5, <3>1, <3>3
      <4>2. cells[st][i].shift # 0
        BY <2>1, <4>1, NoCellTyped DEF Below
      <4> QED
        BY <1>1, <1>9, <4>2 DEF ShiftsKnown
    <3> QED
      BY <3>2, <3>3
  <2>2. Known(cells', hasShift', todo')
    BY <1>1, <2>1 DEF Known
  <2> QED
    BY <1>1, <2>2, KnownNext
<1>10. ASSUME KFollowsCells
       PROVE  KFollowsCells'
  <2> DEFINE B == [Cells -> Data]
  <2>1. kbuf \in [Seqs -> B] /\ kbuf' \in [Seqs -> B]
    BY <1>2, <1>7 DEF Buffers
  <2> HIDE DEF B
  <2> DEFINE buf == kbuf'
  <2>2. buf \in [Seqs -> B] /\ kbuf \in [Seqs -> B]
    BY <2>1
  <2> HIDE DEF buf
  <2>3. CopySteps(buf, <<>>)[Len(<<>>)] = buf /\ CopySteps(kbuf, <<>>)[Len(<<>>)] = kbuf
    BY <2>2, CopiedNothing
  <2>4. CopySteps(kbuf', copies')[Len(copies')] = kbuf'
    BY <1>1, <1>2, <2>3 DEF buf
  <2>5. Follows(cells, kbuf)
    BY <1>2, <1>10, <2>3, FollowsIs DEF Copied
  <2>6. ASSUME NEW st \in Streams, NEW i \in Cells, cells'[st][i] # NoCell
        PROVE  kbuf'[st][i] = [rot |-> cells'[st][i].pos - cells'[st][i].shift, value |-> cells'[st][i].value]
    <3>1. st \in Seqs
      BY StreamsAre
    <3>2. kbuf'[st][i] = StoredAt(ub, slots, st, i)
      BY <1>1, <1>4, <3>1, StoredIs
    <3>3. CASE Takes(ub, slots, st, i)
      <4> DEFINE t == TokenAt(ub, slots, st, i)
                 c == cells'[st][i]
      <4>1. t \in Token
        BY <1>4, <3>3, TokenIs
      <4>2. Below(c, Fresh(t))
        BY <1>5, <3>1, <3>3
      <4>3. kbuf'[st][i] = [rot |-> t.pos, value |-> t.value]
        BY <3>2, <3>3 DEF StoredAt
      <4> HIDE DEF t
      <4>4. c.pos = t.pos /\ c.shift = 0 /\ c.value = t.value
        BY <2>6, <4>2 DEF Below, Fresh
      <4>5. t.pos \in Int
        BY <1>2, <4>1, ContextFacts DEF Token, Pos
      <4> QED
        BY <4>3, <4>4, <4>5
    <3>4. CASE ~Takes(ub, slots, st, i)
      <4>1. Below(cells'[st][i], cells[st][i])
        BY <1>5, <3>1, <3>4
      <4>2. kbuf'[st][i] = kbuf[st][i]
        BY <3>2, <3>4 DEF StoredAt
      <4> QED
        BY <2>5, <2>6, <4>1, <4>2 DEF Below, Follows
    <3> QED
      BY <3>3, <3>4
  <2>7. Follows(cells', kbuf')
    BY <2>6 DEF Follows
  <2> QED
    BY <1>1, <2>4, <2>7, FollowsNext
<1> QED
  BY <1>8, <1>9, <1>10 DEF Preserved

-----------------------------------------------------------------------------
(* A micro-batch that fails.                                               *)
Single(entries) ==
    "share" \notin ctx.calls =>
        \A k \in DOMAIN entries : \A t \in TokensOf(entries[k].ub) : \E s \in Seqs : t.seqs = {s}

LEMMA TokensTyped ==
    ASSUME NEW ub \in Microbatch
    PROVE  TokensOf(ub) \subseteq Token
<1>1. \A j \in DOMAIN ub : \A k \in DOMAIN ub[j] : ub[j][k] \in Token
  <2> TAKE j \in DOMAIN ub
  <2>1. ub[j] \in Group
    BY ElementOfSeq, LenProperties DEF Microbatch
  <2>2. ub[j] \in Seq(Token)
    BY <2>1 DEF Group
  <2> QED
    BY <2>2, ElementOfSeq, LenProperties
<1> QED
  BY <1>1, TokensAre

LEMMA DroppedIs ==
    ASSUME NEW ub, NEW c \in Cell
    PROVE  /\ Dropped(c, ub) \in Cell /\ Below(Dropped(c, ub), c)
           /\ Dropped(c, ub).seqs \subseteq c.seqs
<1> DEFINE gone == {s \in {First(t.seqs) : t \in TokensOf(ub)} : c.pos >= DroppedFrom(ub, s)}
<1>1. Dropped(c, ub) = Without(c, gone)
  BY DEF Dropped
<1> HIDE DEF gone
<1> QED
  BY <1>1, WithoutFacts

(* Nothing stays of a token with one sequence.                             *)
LEMMA DroppedFresh ==
    ASSUME ctx \in Contexts, NEW ub \in Microbatch, NEW t \in TokensOf(ub), NEW s \in Seqs, t.seqs = {s},
           NEW c \in Cell, Below(c, Fresh(t))
    PROVE  Dropped(c, ub) = NoCell
<1> DEFINE gone == {x \in {First(u.seqs) : u \in TokensOf(ub)} : c.pos >= DroppedFrom(ub, x)}
<1>1. Dropped(c, ub) = Without(c, gone)
  BY DEF Dropped
<1>2. CASE c = NoCell
  <2>1. c.seqs \subseteq gone
    BY <1>2, NoCellTyped
  <2> QED
    BY <1>1, <2>1 DEF Without
<1>3. CASE c # NoCell
  <2>1. c.seqs \subseteq {s} /\ c.pos = t.pos
    BY <1>3 DEF Below, Fresh
  <2>2. First(t.seqs) = s
    <3>1. First({s}) \in {s}
      BY FirstIs
    <3> QED
      BY <3>1
  <2>3. TokensOf(ub) \subseteq Token
    BY TokensTyped
  <2>4. Decoded(ub, s) \in SUBSET Nat /\ t.pos \in Decoded(ub, s)
    <3>1. \A u \in TokensOf(ub) : u.pos \in Nat
      BY <2>3, ContextFacts DEF Token, Pos
    <3> QED
      BY <3>1 DEF Decoded
  <2>5. Min(Decoded(ub, s)) <= t.pos /\ Min(Decoded(ub, s)) \in Nat
    BY <2>4, MinIs
  <2>6. c.pos >= DroppedFrom(ub, s)
    <3> DEFINE x == Min(Decoded(ub, s))
               y == t.pos
    <3>1. x <= y /\ x \in Nat /\ y \in Nat
      BY <2>4, <2>5
    <3> HIDE DEF x, y
    <3>2. y >= x
      BY <3>1
    <3> QED
      BY <2>1, <3>2 DEF DroppedFrom, x, y
  <2>7. s \in gone
    BY <2>2, <2>6
  <2> QED
    BY <1>1, <2>1, <2>7 DEF Without
<1> QED
  BY <1>2, <1>3

LEMMA FailIs ==
    ASSUME Typed, Fail
    PROVE  LET ub == Head(todo).ub
               slots == Head(todo).slots
           IN  /\ cells' \in AllCells /\ heads' \in Heads
               /\ \A st \in Seqs, i \in Cells : cells'[st][i] = Dropped(PlaceAll(cells, ub, slots)[st][i], ub)
<1> DEFINE ub == Head(todo).ub
           slots == Head(todo).slots
           placed == PlaceAll(cells, ub, slots)
           after == [st \in Seqs |-> [i \in Cells |-> Dropped(placed[st][i], ub)]]
           hs == HeadsAfter(heads, ub, slots)
<1>1. /\ todo # <<>> /\ cells' = after
      /\ heads' = [st \in Seqs |-> FreedHead(placed[st], after[st], hs[st])]
  BY DEF Fail
<1>2. ctx \in Contexts /\ cells \in AllCells /\ heads \in Heads /\ todo \in Seq(Entry)
  BY DEF Typed
<1>3. ub \in Microbatch /\ slots \in SlotsFor(ub)
  <2>1. Head(todo) \in Entry
    BY <1>1, <1>2, HeadAndTail
  <2> QED
    BY <2>1 DEF Entry
<1> HIDE DEF ub, slots
<1>4. placed \in AllCells
  BY <1>2, <1>3, PlacedAll
<1>5. hs \in Heads
  BY <1>2, <1>3, HeadsPlaced
<1> HIDE DEF placed, hs
<1>6. \A st \in Seqs, i \in Cells : /\ placed[st][i] \in Cell
                                    /\ \A s \in placed[st][i].seqs : StreamOf(s) = st
  BY <1>4 DEF AllCells, StreamCells
<1>7. \A st \in Seqs, i \in Cells : /\ Dropped(placed[st][i], ub) \in Cell
                                    /\ Dropped(placed[st][i], ub).seqs \subseteq placed[st][i].seqs
  BY <1>6, DroppedIs
<1>8. after \in [Seqs -> [Cells -> Cell]] /\ \A st \in Seqs, i \in Cells : after[st][i] = Dropped(placed[st][i], ub)
  BY <1>7
<1> HIDE DEF after
<1>9. after \in AllCells
  BY <1>6, <1>7, <1>8 DEF AllCells, StreamCells
<1>10. heads' \in Heads
  <2>1. \A st \in Seqs : hs[st] \in 0 .. ctx.size
    BY <1>5 DEF Heads
  <2>2. \A st \in Seqs : FreedHead(placed[st], after[st], hs[st]) \in 0 .. ctx.size
    BY <1>2, <2>1, FreedHeadIs
  <2> QED
    BY <1>1, <2>2 DEF Heads
<1> QED
  BY <1>1, <1>8, <1>9, <1>10 DEF ub, slots, placed

(* Divisions leave positions as they are, and batches that fail share no   *)
(* tokens.                                                                 *)
Regular ==
    /\ "div" \in ctx.calls => DivisionKeeps
    /\ ~({"share", "fail"} \subseteq ctx.calls)

LEMMA FailPreserves ==
    ASSUME Typed, Single(todo), Fail
    PROVE  Typed' /\ (ShiftsKnown => ShiftsKnown') /\ (Regular /\ KFollowsCells => KFollowsCells')
<1> DEFINE ub == Head(todo).ub
           slots == Head(todo).slots
           placed == PlaceAll(cells, ub, slots)
<1>1. todo # <<>> /\ todo' = <<>> /\ "fail" \in ctx.calls /\ UNCHANGED <<ctx, hasShift, copies, kbuf, text>>
  BY DEF Fail
<1>2. /\ cells' \in AllCells /\ heads' \in Heads
      /\ \A st \in Seqs, i \in Cells : cells'[st][i] = Dropped(placed[st][i], ub)
  BY FailIs
<1>3. /\ ctx \in Contexts /\ cells \in AllCells /\ todo \in Seq(Entry)
  BY <1>1 DEF Typed
<1>4. ub \in Microbatch /\ slots \in SlotsFor(ub) /\ ub = todo[1].ub /\ 1 \in DOMAIN todo
  <2>1. Head(todo) \in Entry /\ Head(todo) = todo[1] /\ 1 \in DOMAIN todo
    BY <1>1, <1>3, HeadAndTail
  <2> QED
    BY <2>1 DEF Entry
<1> HIDE DEF ub, slots
<1>5. /\ placed \in AllCells
      /\ \A st \in Seqs, i \in Cells : Takes(ub, slots, st, i) =>
           Below(placed[st][i], Fresh(TokenAt(ub, slots, st, i)))
      /\ \A st \in Seqs, i \in Cells : ~Takes(ub, slots, st, i) => Below(placed[st][i], cells[st][i])
  BY <1>3, <1>4, PlacedAll
<1> HIDE DEF placed
<1>6. \A st \in Seqs, i \in Cells : placed[st][i] \in Cell /\ Below(cells'[st][i], placed[st][i])
  <2>1. \A st \in Seqs, i \in Cells : placed[st][i] \in Cell
    BY <1>5 DEF AllCells
  <2> QED
    BY <1>2, <2>1, DroppedIs
<1>7. Typed'
  <2>1. hasShift' \in [Seqs -> BOOLEAN] /\ copies' \in Seq(Streams \X Streams) /\ kbuf' \in Buffers
    BY <1>1 DEF Typed
  <2>2. todo' \in Seq(Entry) /\ todo' = <<>>
    BY <1>1
  <2> QED
    BY <1>1, <1>2, <1>3, <2>1, <2>2, TypedNext
<1>8. ASSUME ShiftsKnown
      PROVE  ShiftsKnown'
  <2>1. ASSUME NEW st \in Streams, NEW i \in Cells, cells'[st][i].shift # 0
        PROVE  hasShift[st]
    <3>1. st \in Seqs
      BY StreamsAre
    <3>2. placed[st][i].shift # 0
      <4>1. Below(cells'[st][i], placed[st][i])
        BY <1>6, <3>1
      <4> QED
        BY <2>1, <4>1, NoCellTyped DEF Below
    <3>3. CASE Takes(ub, slots, st, i)
      <4>1. Below(placed[st][i], Fresh(TokenAt(ub, slots, st, i)))
        BY <1>5, <3>1, <3>3
      <4> QED
        BY <3>2, <4>1, NoCellTyped DEF Below, Fresh
    <3>4. CASE ~Takes(ub, slots, st, i)
      <4>1. Below(placed[st][i], cells[st][i])
        BY <1>5, <3>1, <3>4
      <4>2. cells[st][i].shift # 0
        BY <3>2, <4>1, NoCellTyped DEF Below
      <4> QED
        BY <1>8, <4>2 DEF ShiftsKnown
    <3> QED
      BY <3>3, <3>4
  <2>2. Known(cells', hasShift', todo')
    BY <1>1, <2>1 DEF Known
  <2> QED
    BY <1>1, <2>2, KnownNext
<1>9. ASSUME Regular, KFollowsCells
      PROVE  KFollowsCells'
  <2>1. "share" \notin ctx.calls
    BY <1>1, <1>9 DEF Regular
  <2>2. \A t \in TokensOf(ub) : \E s \in Seqs : t.seqs = {s}
    BY <1>4, <2>1 DEF Single
  <2>3. ASSUME NEW st \in Seqs, NEW i \in Cells
        PROVE  Kept(cells'[st][i], cells[st][i])
    <3>1. cells'[st][i] = Dropped(placed[st][i], ub) /\ placed[st][i] \in Cell
      BY <1>2, <1>6
    <3>2. CASE Takes(ub, slots, st, i)
      <4> DEFINE t == TokenAt(ub, slots, st, i)
      <4>1. t \in TokensOf(ub)
        BY <1>4, <3>2, TokenIs
      <4>2. Below(placed[st][i], Fresh(t))
        BY <1>5, <3>2
      <4> HIDE DEF t
      <4>3. PICK s \in Seqs : t.seqs = {s}
        BY <2>2, <4>1
      <4>4. Dropped(placed[st][i], ub) = NoCell
        BY <1>3, <1>4, <3>1, <4>1, <4>2, <4>3, DroppedFresh
      <4> QED
        BY <3>1, <4>4 DEF Kept
    <3>3. CASE ~Takes(ub, slots, st, i)
      <4>1. Below(placed[st][i], cells[st][i]) /\ Below(cells'[st][i], placed[st][i])
        BY <1>5, <1>6, <3>3
      <4>2. Below(cells'[st][i], cells[st][i])
        BY <4>1, BelowBelow
      <4> QED
        BY <4>2 DEF Below, Kept
    <3> QED
      BY <3>2, <3>3
  <2>4. KeptAll(cells', cells)
    BY <2>3 DEF KeptAll
  <2>5. Follows(cells', Copied)
    BY <1>9, <2>4, FollowsIs, KeptFollows
  <2>6. CopySteps(kbuf', copies')[Len(copies')] = Copied
    BY <1>1 DEF Copied
  <2> QED
    BY <1>1, <2>5, <2>6, FollowsNext
<1> QED
  BY <1>7, <1>8, <1>9

-----------------------------------------------------------------------------
(* The micro-batches that wait: what their tokens are, and their order.    *)
AllFit(entries) ==
    Cardinality(Seqs) <= Ubatch => \A k \in DOMAIN entries : Small(entries[k].ub)
InRow(entries) ==
    \A k, l \in DOMAIN entries : k < l => After(entries[k].ub, entries[l].ub)
Waits(entries) == Single(entries) /\ AllFit(entries) /\ InRow(entries)

LEMMA NothingWaits == Waits(<<>>)
BY DEF Waits, Single, AllFit, InRow

LEMMA WaitsLess ==
    ASSUME NEW entries \in Seq(Entry), entries # <<>>, Waits(entries)
    PROVE  Waits(Tail(entries))
<1> DEFINE rest == Tail(entries)
<1>1. \A k \in DOMAIN rest : k \in Int /\ k + 1 \in DOMAIN entries /\ rest[k] = entries[k + 1]
  BY HeadAndTail
<1> HIDE DEF rest
<1>2. Single(rest)
  BY <1>1 DEF Waits, Single
<1>3. AllFit(rest)
  BY <1>1 DEF Waits, AllFit
<1>4. InRow(rest)
  <2> SUFFICES ASSUME NEW k \in DOMAIN rest, NEW l \in DOMAIN rest, k < l
               PROVE  After(rest[k].ub, rest[l].ub)
    BY DEF InRow
  <2>1. k + 1 \in DOMAIN entries /\ l + 1 \in DOMAIN entries /\ k + 1 < l + 1
    BY <1>1
  <2>2. After(entries[k + 1].ub, entries[l + 1].ub)
    BY <2>1 DEF Waits, InRow
  <2> QED
    BY <1>1, <2>2
<1> QED
  BY <1>2, <1>3, <1>4 DEF Waits, rest

LEMMA WaitsNext ==
    ASSUME ctx' = ctx, Waits(todo')
    PROVE  Waits(todo)'
<1>1. Single(todo)'
  BY DEF Waits, Single, TokensOf
<1>2. AllFit(todo)'
  BY DEF Waits, AllFit, Small, TokensOf
<1>3. InRow(todo)'
  BY DEF Waits, InRow, After, Later, TokensOf
<1> QED
  BY <1>1, <1>2, <1>3 DEF Waits

(* The tokens that wait are from S. *)
Of(entries, S) == \A k \in DOMAIN entries : TokensOf(entries[k].ub) \subseteq S

LEMMA ReadyWaits ==
    ASSUME Typed, NEW splits, NEW updated, SplitsOf(splits, Newer), Ready(splits, updated)
    PROVE  Waits(todo') /\ Of(todo', Newer)
<1>1. CASE todo' = <<>>
  BY <1>1, NothingWaits DEF Of
<1>2. CASE todo' # <<>>
  <2>1. PICK n \in 1 .. Len(splits) : EntriesFor(todo', splits[n])
    BY <1>2 DEF Ready
  <2> DEFINE ubs == splits[n]
             entries == todo'
  <2>2. SplitOf(ubs, Newer)
    BY DEF SplitsOf
  <2>3. entries \in Seq(Entry) /\ EntriesFor(entries, ubs)
    BY <2>1 DEF Ready
  <2> HIDE DEF ubs, entries
  <2>4. DOMAIN entries = DOMAIN ubs /\ \A k \in DOMAIN entries : entries[k].ub = ubs[k]
    <3>1. ubs \in Seq(Microbatch)
      BY <2>2 DEF SplitOf
    <3> QED
      BY <2>3, <3>1, LenProperties DEF EntriesFor
  <2>5. Of(entries, Newer)
    BY <2>2, <2>4 DEF SplitOf, From, Of
  <2>6. Single(entries)
    <3>1. ASSUME "share" \notin ctx.calls, NEW t \in Newer
          PROVE  \E s \in Seqs : t.seqs = {s}
      BY <3>1 DEF Newer
    <3> QED
      BY <2>5, <3>1 DEF Single, Of
  <2>7. AllFit(entries)
    BY <2>2, <2>4 DEF SplitOf, AllSmall, AllFit
  <2>8. InRow(entries)
    BY <2>2, <2>4 DEF SplitOf, Ascending, InRow
  <2> QED
    BY <2>5, <2>6, <2>7, <2>8 DEF Waits, entries
<1> QED
  BY <1>1, <1>2

-----------------------------------------------------------------------------
(* What every step preserves.                                              *)
Held == Typed /\ Waits(todo)
Carried == /\ Held'
           /\ ShiftsKnown => ShiftsKnown'
           /\ Regular /\ KFollowsCells => KFollowsCells'

LEMMA InitHolds ==
    ASSUME Init
    PROVE  Held /\ ShiftsKnown /\ KFollowsCells
<1>0. ctx \in Contexts /\ Cells = 0 .. ctx.size - 1
  BY DEF Init, Cells
<1>1. \A st \in Seqs, i \in Cells : cells[st][i] = NoCell
  BY DEF Init
<1>2. Typed
  <2>1. cells \in AllCells
    <3>1. cells \in [Seqs -> [Cells -> Cell]]
      BY NoCellTyped DEF Init
    <3> QED
      BY <1>1, <3>1, NoCellTyped DEF AllCells, StreamCells
  <2>2. heads \in Heads
    BY <1>0, ContextFacts DEF Init, Heads
  <2>3. kbuf \in Buffers
    <3>1. NoData \in Data
      BY DEF NoData, Data
    <3> QED
      BY <3>1 DEF Init, Buffers
  <2>4. todo = <<>> /\ copies = <<>> /\ hasShift \in [Seqs -> BOOLEAN]
    BY DEF Init
  <2> QED
    BY <1>0, <2>1, <2>2, <2>3, <2>4 DEF Typed
<1>3. Waits(todo)
  BY NothingWaits DEF Init
<1>4. ShiftsKnown
  BY <1>1, NoCellTyped, StreamsAre DEF ShiftsKnown
<1>5. KFollowsCells
  BY <1>1, StreamsAre DEF KFollowsCells
<1> QED
  BY <1>2, <1>3, <1>4, <1>5 DEF Held

LEMMA OperateSame ==
    ASSUME Operate
    PROVE  ctx' = ctx /\ todo = <<>> /\ todo' = todo
BY DEF Operate, SeqRm, SeqKeep, CopyStream, SeqCp, SeqAdd, SeqDiv, Move

LEMMA OperateCarries ==
    ASSUME Held, Operate
    PROVE  Carried
<1>1. Typed
  BY DEF Held
<1>2. Typed' /\ (ShiftsKnown => ShiftsKnown') /\ (Regular /\ KFollowsCells => KFollowsCells')
  <2>1. PICK s \in Seqs :
          \/ \E r \in Ranges : SeqRm(s, r)
          \/ SeqKeep(s)
          \/ \E d \in Seqs : CopyStream(s, d) \/ \E r \in Ranges : SeqCp(s, d, r)
          \/ \E r \in Ranges, d \in Deltas : SeqAdd(s, r, d)
          \/ "div" \in ctx.calls /\ \E r \in Divided, d \in Divisors : SeqDiv(s, r, d)
    BY DEF Operate
  <2>2. CASE \E r \in Ranges : SeqRm(s, r)
    BY <1>1, <2>2, SeqRmPreserves DEF Preserved
  <2>3. CASE SeqKeep(s)
    BY <1>1, <2>3, SeqKeepPreserves DEF Preserved
  <2>4. CASE \E d \in Seqs : CopyStream(s, d) \/ \E r \in Ranges : SeqCp(s, d, r)
    BY <1>1, <2>4, CopyStreamPreserves, SeqCpPreserves DEF Preserved
  <2>5. CASE \E r \in Ranges, d \in Deltas : SeqAdd(s, r, d)
    BY <1>1, <2>5, SeqAddPreserves DEF Preserved
  <2>6. CASE "div" \in ctx.calls /\ \E r \in Divided, d \in Divisors : SeqDiv(s, r, d)
    <3>1. Regular => DivisionKeeps
      BY <2>6 DEF Regular
    <3> QED
      BY <1>1, <2>6, <3>1, SeqDivPreserves
  <2> QED
    BY <2>1, <2>2, <2>3, <2>4, <2>5, <2>6
<1>3. Waits(todo)'
  BY OperateSame, NothingWaits, WaitsNext
<1> QED
  BY <1>2, <1>3 DEF Carried, Held

(* A decode of either kind.                                                *)
LEMMA BatchIs ==
    ASSUME Typed, Batch
    PROVE  \E splits : SplitsOf(splits, Newer) /\ DecodeSplits(splits)
<1>1. PICK ss \in (SUBSET Seqs) \ {{}} :
        \/ \E len \in [ss -> ctx.lengths] : Decode(ss, len)
        \/ \E n \in ctx.lengths : DecodeShared(ss, n)
  BY DEF Batch
<1>2. CASE \E len \in [ss -> ctx.lengths] : Decode(ss, len)
  BY <1>2, DecodeSplitsNew
<1>3. CASE \E n \in ctx.lengths : DecodeShared(ss, n)
  BY <1>3, DecodeSplitsShared
<1> QED
  BY <1>1, <1>2, <1>3

LEMMA BatchCarries ==
    ASSUME Held, Batch
    PROVE  Carried
<1>1. Typed
  BY DEF Held
<1>2. PICK splits : SplitsOf(splits, Newer) /\ DecodeSplits(splits)
  BY <1>1, BatchIs
<1>3. Preserved
  BY <1>1, <1>2, DecodeSplitsPreserves
<1>4. PICK shifts : Ready(splits, Updated(shifts)) /\ ctx' = ctx
  BY <1>1, <1>2, DecodeIs
<1>5. ctx' = ctx
  BY <1>4
<1>6. Waits(todo)'
  BY <1>1, <1>2, <1>4, <1>5, ReadyWaits, WaitsNext
<1> QED
  BY <1>3, <1>6 DEF Carried, Held, Preserved

LEMMA ContextStays ==
    ASSUME [Next]_vars
    PROVE  ctx' = ctx
BY OperateSame DEF Next, RmAll, Clear, Batch, Decode, DecodeShared, DecodeSplits, Compute, Fail, vars

LEMMA StepCarries ==
    ASSUME Held, [Next]_vars
    PROVE  Carried
<1>1. Typed
  BY DEF Held
<1>2. CASE Operate
  BY <1>2, OperateCarries
<1>3. CASE \E r \in Ranges : RmAll(r)
  <2>1. Preserved
    BY <1>1, <1>3, RmAllPreserves
  <2>2. ctx' = ctx /\ todo' = <<>>
    BY <1>3 DEF RmAll
  <2> QED
    BY <2>1, <2>2, NothingWaits, WaitsNext DEF Carried, Held, Preserved
<1>4. CASE Clear
  <2>1. Preserved
    BY <1>1, <1>4, ClearPreserves
  <2>2. ctx' = ctx /\ todo' = <<>>
    BY <1>4 DEF Clear
  <2> QED
    BY <2>1, <2>2, NothingWaits, WaitsNext DEF Carried, Held, Preserved
<1>5. CASE Batch
  BY <1>5, BatchCarries
<1>6. CASE Compute
  <2>1. Preserved
    BY <1>1, <1>6, ComputePreserves
  <2>2. ctx' = ctx /\ todo # <<>> /\ todo' = Tail(todo)
    BY <1>6 DEF Compute
  <2>3. Waits(todo')
    BY <2>2, WaitsLess DEF Held, Typed
  <2> QED
    BY <2>1, <2>2, <2>3, WaitsNext DEF Carried, Held, Preserved
<1>7. CASE Fail
  <2>1. ctx' = ctx /\ todo' = <<>>
    BY <1>7 DEF Fail
  <2>2. Typed' /\ (ShiftsKnown => ShiftsKnown') /\ (Regular /\ KFollowsCells => KFollowsCells')
    BY <1>1, <1>7, FailPreserves DEF Held, Waits
  <2> QED
    BY <2>1, <2>2, NothingWaits, WaitsNext DEF Carried, Held
<1>8. CASE UNCHANGED vars
  <2>1. ctx' = ctx /\ cells' = cells /\ heads' = heads /\ hasShift' = hasShift /\ copies' = copies
        /\ kbuf' = kbuf /\ todo' = todo
    BY <1>8 DEF vars
  <2>2. Typed'
    BY <1>1, <2>1, TypedNext DEF Typed
  <2>3. Waits(todo)'
    BY <2>1, WaitsNext DEF Held
  <2>4. ShiftsKnown => ShiftsKnown'
    BY <2>1, KnownIs, KnownNext
  <2>5. KFollowsCells => KFollowsCells'
    <3>1. CopySteps(kbuf', copies')[Len(copies')] = Copied
      BY <2>1 DEF Copied
    <3> QED
      BY <2>1, <3>1, FollowsIs, FollowsNext
  <2> QED
    BY <2>2, <2>3, <2>4, <2>5 DEF Carried, Held
<1> QED
  BY <1>2, <1>3, <1>4, <1>5, <1>6, <1>7, <1>8 DEF Next

-----------------------------------------------------------------------------
LEMMA AlwaysHeld == Spec => []Held
<1>1. Init => Held
  BY InitHolds
<1>2. Held /\ [Next]_vars => Held'
  BY StepCarries DEF Carried
<1> QED
  BY <1>1, <1>2, PTL DEF Spec

(* Types, whatever the context, the batches and the calls: a cell of a     *)
(* stream is empty or has a position, a value and a sequence of that       *)
(* stream, heads and copies stay within the cache.  Of find_slot this      *)
(* needs that its cells differ, of the splits that they only take tokens   *)
(* of the batch, one group for a stream (llama-kv-cache.cpp:1001).         *)
THEOREM KVTypes == Spec => []KVTypeOK
<1>1. Held => KVTypeOK
  BY TypedIsTypeOK DEF Held
<1> QED
  BY <1>1, AlwaysHeld, PTL

(* A shift waits only in a stream that is marked, and, unless its graph    *)
(* may get no memory, never while micro-batches are computed: the copy of  *)
(* a stream takes its mark along, a decode applies all shifts before it    *)
(* splits the batch, and no cell is placed with a shift                    *)
(* (llama-kv-cache.cpp:813, llama-context.cpp:1748).                       *)
THEOREM KVShifts == Spec => []ShiftsKnown
<1>1. Init => Held /\ ShiftsKnown
  BY InitHolds
<1>2. Held /\ ShiftsKnown /\ [Next]_vars => (Held /\ ShiftsKnown)'
  BY StepCarries DEF Carried
<1> QED
  BY <1>1, <1>2, PTL DEF Spec

(* The K vector of a cell is that of its token, rotated for its position   *)
(* less what waits: over operations, copies of streams, decodes and        *)
(* failures.  It holds in a context where divisions leave positions as     *)
(* they are (pos_div adds the shift with the wrong sign) and batches that  *)
(* share tokens do not fail (what is taken back is that of one sequence);  *)
(* either breaks it (llama-kv-cells.h:451, llama-context.cpp:1833).        *)
THEOREM KVFollows == Spec => [](Regular => KFollowsCells)
<1> DEFINE Inv == Held /\ (Regular => KFollowsCells)
<1>1. Init => Inv
  BY InitHolds
<1>2. Inv /\ [Next]_vars => Inv'
  <2> SUFFICES ASSUME Inv, [Next]_vars PROVE Inv'
    OBVIOUS
  <2>1. Regular' <=> Regular
    BY ContextStays DEF Regular
  <2>2. Carried
    BY StepCarries
  <2> QED
    BY <2>1, <2>2 DEF Carried
<1> QED
  BY <1>1, <1>2, PTL DEF Spec

(* A micro-batch is no larger than n_ubatch, if that is no less than the   *)
(* number of sequences: split_equal takes a token of each of them at once  *)
(* (llama-batch.cpp:547).                                                  *)
THEOREM KVFits == Spec /\ Cardinality(Seqs) <= Ubatch => []UbatchFits
<1> SUFFICES ASSUME Cardinality(Seqs) <= Ubatch PROVE Spec => []UbatchFits
  OBVIOUS
<1>1. Held => UbatchFits
  <2> SUFFICES ASSUME Held, todo # <<>> PROVE Cardinality(TokensOf(Head(todo).ub)) <= Ubatch
    BY DEF UbatchFits
  <2>1. Head(todo) = todo[1] /\ 1 \in DOMAIN todo
    BY HeadAndTail DEF Held, Typed
  <2> QED
    BY <2>1 DEF Held, Waits, AllFit, Small
<1> QED
  BY <1>1, AlwaysHeld, PTL

-----------------------------------------------------------------------------
(* Contexts without a sliding window: the cells that were found are empty  *)
(* and stay so, and what the user knows of a sequence stays in its cells.  *)
TextKept(all, txt) == \A s \in Seqs : \A p \in txt[s] : p \in Positions(all[StreamOf(s)], s)
Beyond(entries, txt) ==
    \A k \in DOMAIN entries : \A t \in TokensOf(entries[k].ub) : \A s \in t.seqs : \A p \in txt[s] : p < t.pos
Settled == TextKept(cells, text) /\ Beyond(todo, text) /\ FreeFor(cells, todo)

LEMMA SameTakes ==
    ASSUME ctx' = ctx
    PROVE  \A ub, slots, st, i : Takes(ub, slots, st, i)' <=> Takes(ub, slots, st, i)
<1>1. \A g : StreamOfGroup(g)' = StreamOfGroup(g)
  BY DEF StreamOfGroup, StreamOf
<1>2. \A ub, st : Groups(ub, st)' = Groups(ub, st)
  BY <1>1 DEF Groups
<1>3. \A ub, slots, st : Slot(ub, slots, st)' = Slot(ub, slots, st) /\ (Has(ub, st)' <=> Has(ub, st))
  BY <1>2 DEF Slot, GroupOf, Has
<1> QED
  BY <1>3 DEF Takes, Among

LEMMA SettledNext ==
    ASSUME ctx' = ctx, TextKept(cells', text'), Beyond(todo', text'), FreeFor(cells', todo')
    PROVE  Settled'
<1>1. \A s : StreamOf(s)' = StreamOf(s)
  BY SameContext
<1>2. \A cs, s : Positions(cs, s)' = Positions(cs, s)
  BY SameContext DEF Positions
<1>3. TextKept(cells, text)'
  BY <1>1, <1>2 DEF TextKept
<1>4. Beyond(todo, text)'
  BY DEF Beyond, TokensOf
<1>5. FreeFor(cells, todo)'
  BY SameTakes, SameContext DEF FreeFor, FreeSlots, SlotsApart
<1> QED
  BY <1>3, <1>4, <1>5 DEF Settled

LEMMA SettledIdle ==
    ASSUME ctx' = ctx, todo' = <<>>, TextKept(cells', text')
    PROVE  Settled'
<1>1. Beyond(todo', text') /\ FreeFor(cells', todo')
  BY DEF Beyond, FreeFor
<1> QED
  BY <1>1, SettledNext

(* After an operation the user knows what the cells say. *)
LEMMA TextOfKept ==
    ASSUME NEW all
    PROVE  TextKept(all, TextOf(all))
BY DEF TextKept, TextOf

LEMMA OperationSettles ==
    ASSUME Operate \/ (\E r \in Ranges : RmAll(r)) \/ Clear
    PROVE  Settled'
<1>1. ctx' = ctx /\ todo' = <<>> /\ text' = TextOf(cells')
  BY DEF Operate, SeqRm, SeqKeep, CopyStream, SeqCp, SeqAdd, SeqDiv, Move, Become, RmAll, Clear
<1> QED
  BY <1>1, TextOfKept, SettledIdle

LEMMA BatchSettles ==
    ASSUME Held, Settled, ctx.window = 0, Batch
    PROVE  Settled' /\ cells' = Updated(hasShift' # hasShift)
<1>1. Typed
  BY DEF Held
<1>2. PICK splits : SplitsOf(splits, Newer) /\ DecodeSplits(splits)
  BY <1>1, BatchIs
<1>0. PICK shifts \in Shifting :
         /\ shifts \in BOOLEAN
         /\ Ready(splits, Updated(shifts))
         /\ ctx' = ctx /\ text' = text
         /\ hasShift' = IF shifts THEN [st \in Seqs |-> FALSE] ELSE hasShift
  BY <1>1, <1>2, DecodeIs
<1> DEFINE updated == Updated(shifts)
<1>3. Ready(splits, updated)
  BY <1>0
<1>4. ctx' = ctx /\ text' = text
  BY <1>0
<1>5. cells' = updated /\ FreeFor(cells', todo')
  BY <1>3 DEF Ready
<1>6. Of(todo', Newer)
  BY <1>1, <1>2, <1>3, ReadyWaits
<1>10. updated = Updated(hasShift' # hasShift)
  <2>1. CASE shifts
    <3>1. Marked
      BY <1>0, <2>1 DEF Shifting, Marked
    <3>2. PICK st \in Streams : hasShift[st]
      BY <3>1 DEF Marked
    <3>3. hasShift' = [s \in Seqs |-> FALSE] /\ st \in Seqs
      BY <1>0, <2>1, StreamsAre
    <3>4. (hasShift' # hasShift) = TRUE
      BY <3>2, <3>3
    <3>5. shifts = TRUE
      BY <1>0, <2>1
    <3> QED
      BY <3>4, <3>5
  <2>2. CASE ~shifts
    <3>1. (hasShift' # hasShift) = FALSE /\ shifts = FALSE
      BY <1>0, <2>2
    <3> QED
      BY <3>1
  <2> QED
    BY <2>1, <2>2
<1>7. \A s \in Seqs : Positions(updated[StreamOf(s)], s) = Positions(cells[StreamOf(s)], s)
  <2> TAKE s \in Seqs
  <2>1. StreamOf(s) \in Seqs
    BY StreamFacts DEF Held, Typed
  <2>2. \A i \in Cells : /\ updated[StreamOf(s)][i].seqs = cells[StreamOf(s)][i].seqs
                         /\ updated[StreamOf(s)][i].pos = cells[StreamOf(s)][i].pos
    BY <1>0, <1>1, <2>1, UpdatedIs DEF UpdatedAt
  <2> QED
    BY <2>2 DEF Positions
<1>8. TextKept(cells', text')
  BY <1>4, <1>5, <1>7 DEF Settled, TextKept
<1>9. Beyond(todo', text')
  <2> SUFFICES ASSUME NEW k \in DOMAIN todo', NEW t \in TokensOf(todo'[k].ub), NEW s \in t.seqs, NEW p \in text[s]
               PROVE  p < t.pos
    BY <1>4 DEF Beyond
  <2>1. t \in Newer
    BY <1>6 DEF Of
  <2>2. s \in Seqs
    BY <2>1 DEF Newer, Token
  <2>3. p \in Positions(cells[StreamOf(s)], s)
    BY <2>2 DEF Settled, TextKept
  <2> QED
    BY <2>1, <2>3 DEF Newer
<1> QED
  BY <1>4, <1>5, <1>8, <1>9, <1>10, SettledNext

(* Every token of a micro-batch gets a cell for each of its sequences.     *)
LEMMA TokenPlaced ==
    ASSUME ctx \in Contexts, NEW ub \in Microbatch, NEW slots \in SlotsFor(ub),
           NEW t \in TokensOf(ub), NEW s \in t.seqs
    PROVE  \E i \in Cells : Takes(ub, slots, StreamOf(s), i) /\ TokenAt(ub, slots, StreamOf(s), i) = t
<1>1. PICK j \in DOMAIN ub : \E k \in DOMAIN ub[j] : t = ub[j][k]
  BY TokensAre
<1>2. PICK k \in DOMAIN ub[j] : t = ub[j][k]
  BY <1>1
<1> DEFINE st == StreamOfGroup(ub[j])
<1>3. ub[j] \in Group
  BY ElementOfSeq, LenProperties DEF Microbatch
<1>4. StreamOf(s) = st
  BY <1>2, <1>3 DEF Group
<1>5. Has(ub, st) /\ GroupOf(ub, st) = j
  BY OwnGroup
<1> HIDE DEF st
<1>6. Slot(ub, slots, st) = slots[j]
  BY <1>5 DEF Slot
<1>7. DOMAIN slots[j] = DOMAIN ub[j] /\ slots[j] \in Seq(Cells)
  BY <1>5, <1>6, SlotIs
<1> DEFINE i == slots[j][k]
<1>8. i \in Cells /\ k \in DOMAIN slots[j]
  <2>1. k \in DOMAIN slots[j]
    BY <1>7
  <2> QED
    BY <1>7, <2>1, ElementOfSeq, LenProperties
<1>9. Among(slots[j], i)
  BY <1>8 DEF Among
<1>10. At(slots[j], i) = k
  <2>1. At(slots[j], i) \in DOMAIN ub[j] /\ slots[j][At(slots[j], i)] = slots[j][k]
    BY <1>7, <1>9, AtIs
  <2>2. \A m, l \in DOMAIN ub[j] : slots[j][m] = slots[j][l] => m = l
    BY DEF SlotsFor
  <2> QED
    BY <2>1, <2>2
<1> HIDE DEF i
<1>11. Takes(ub, slots, st, i) /\ TokenAt(ub, slots, st, i) = t
  BY <1>2, <1>5, <1>6, <1>9, <1>10 DEF Takes, TokenAt
<1> QED
  BY <1>4, <1>8, <1>11

(* What the cells say of a sequence stays when a micro-batch is placed in  *)
(* empty cells.                                                            *)
LEMMA PositionsStay ==
    ASSUME NEW all \in AllCells, NEW ub \in Microbatch, NEW slots \in SlotsFor(ub), FreeSlots(all, ub, slots),
           NEW st \in Seqs, NEW i \in Cells, all[st][i] # NoCell
    PROVE  PlaceAll(all, ub, slots)[st][i] = all[st][i]
<1>1. ~Takes(ub, slots, st, i)
  BY DEF FreeSlots
<1> QED
  BY <1>1, PlacedAllFree

LEMMA ComputeSettles ==
    ASSUME Held, Settled, Compute
    PROVE  Settled'
<1> DEFINE ub == Head(todo).ub
           slots == Head(todo).slots
           rest == Tail(todo)
<1>1. /\ todo # <<>> /\ cells' = PlaceAll(cells, ub, slots) /\ ctx' = ctx /\ todo' = rest
      /\ text' = [s \in Seqs |-> text[s] \union Decoded(ub, s)]
  BY DEF Compute
<1>2. ctx \in Contexts /\ cells \in AllCells /\ todo \in Seq(Entry)
  BY DEF Held, Typed
<1>3. /\ Head(todo) = todo[1] /\ 1 \in DOMAIN todo /\ Head(todo) \in Entry
      /\ \A k \in DOMAIN rest : k \in Int /\ k + 1 \in DOMAIN todo /\ rest[k] = todo[k + 1] /\ 1 < k + 1
  <2>1. /\ Head(todo) = todo[1] /\ 1 \in DOMAIN todo /\ todo[1] \in Entry /\ rest \in Seq(Entry)
        /\ \A k \in DOMAIN rest : k \in Int /\ k + 1 \in DOMAIN todo /\ rest[k] = todo[k + 1]
    BY <1>1, <1>2, HeadAndTail
  <2>2. \A k \in DOMAIN rest : 1 < k + 1
    <3>1. DOMAIN rest = 1 .. Len(rest) /\ Len(rest) \in Nat
      BY <2>1, LenProperties
    <3> HIDE DEF rest
    <3> QED
      BY <3>1
  <2> QED
    BY <2>1, <2>2
<1>4. ub \in Microbatch /\ slots \in SlotsFor(ub) /\ ub = todo[1].ub /\ slots = todo[1].slots
  BY <1>3 DEF Entry
<1> HIDE DEF ub, slots, rest
<1>5. FreeSlots(cells, ub, slots)
  BY <1>3, <1>4 DEF Settled, FreeFor
<1>6. /\ \A st \in Seqs, i \in Cells : Takes(ub, slots, st, i) => cells'[st][i] = Fresh(TokenAt(ub, slots, st, i))
      /\ \A st \in Seqs, i \in Cells : ~Takes(ub, slots, st, i) => cells'[st][i] = cells[st][i]
  BY <1>1, <1>2, <1>4, <1>5, PlacedAllFree
<1>7. FreeFor(cells', rest)
  <2>1. ASSUME NEW k \in DOMAIN rest
        PROVE  FreeSlots(cells', rest[k].ub, rest[k].slots)
    <3>1. SlotsApart(todo[1], rest[k]) /\ FreeSlots(cells, rest[k].ub, rest[k].slots)
      BY <1>3 DEF Settled, FreeFor
    <3> QED
      BY <1>4, <1>6, <3>1 DEF SlotsApart, FreeSlots
  <2>2. ASSUME NEW k \in DOMAIN rest, NEW l \in DOMAIN rest, k < l
        PROVE  SlotsApart(rest[k], rest[l])
    <3>1. k + 1 < l + 1 /\ k + 1 \in DOMAIN todo /\ l + 1 \in DOMAIN todo
      BY <1>3, <2>2
    <3>2. SlotsApart(todo[k + 1], todo[l + 1])
      BY <3>1 DEF Settled, FreeFor
    <3> QED
      BY <1>3, <3>2
  <2> QED
    BY <2>1, <2>2 DEF FreeFor
<1>8. TextKept(cells', text')
  <2> SUFFICES ASSUME NEW s \in Seqs, NEW p \in text'[s]
               PROVE  p \in Positions(cells'[StreamOf(s)], s)
    BY DEF TextKept
  <2> DEFINE st == StreamOf(s)
  <2>0. st \in Seqs
    BY <1>2, StreamFacts
  <2>1. CASE p \in text[s]
    <3>1. p \in Positions(cells[st], s)
      BY <2>1 DEF Settled, TextKept
    <3>2. PICK i \in Cells : s \in cells[st][i].seqs /\ cells[st][i].pos = p
      BY <3>1 DEF Positions
    <3>3. cells[st][i] # NoCell
      BY <3>2, NoCellTyped
    <3>4. cells'[st][i] = cells[st][i]
      BY <1>1, <1>2, <1>4, <1>5, <2>0, <3>3, PositionsStay
    <3> QED
      BY <3>2, <3>4 DEF Positions
  <2>2. CASE p \in Decoded(ub, s)
    <3>1. PICK t \in TokensOf(ub) : s \in t.seqs /\ t.pos = p
      BY <2>2 DEF Decoded
    <3>2. PICK i \in Cells : Takes(ub, slots, st, i) /\ TokenAt(ub, slots, st, i) = t
      BY <1>2, <1>4, <3>1, TokenPlaced
    <3>3. cells'[st][i] = Fresh(t)
      BY <1>6, <2>0, <3>2
    <3>4. cells'[st][i].seqs = t.seqs /\ cells'[st][i].pos = p
      BY <3>1, <3>3 DEF Fresh
    <3> QED
      BY <3>1, <3>4 DEF Positions
  <2> QED
    BY <1>1, <2>1, <2>2
<1>9. Beyond(rest, text')
  <2> SUFFICES ASSUME NEW k \in DOMAIN rest, NEW t \in TokensOf(rest[k].ub), NEW s \in t.seqs, NEW p \in text'[s]
               PROVE  p < t.pos
    BY DEF Beyond
  <2>1. k + 1 \in DOMAIN todo /\ rest[k] = todo[k + 1] /\ 1 < k + 1 /\ t \in TokensOf(todo[k + 1].ub)
    BY <1>3
  <2>2. s \in Seqs
    <3>1. todo[k + 1] \in Entry
      BY <1>2, <2>1, ElementOfSeq, LenProperties
    <3>2. t \in Token
      BY <2>1, <3>1, TokensTyped DEF Entry
    <3> QED
      BY <3>2 DEF Token
  <2>3. CASE p \in text[s]
    BY <2>1, <2>3 DEF Settled, Beyond
  <2>4. CASE p \in Decoded(ub, s)
    <3>1. PICK u \in TokensOf(ub) : s \in u.seqs /\ u.pos = p
      BY <2>4 DEF Decoded
    <3>2. After(todo[1].ub, todo[k + 1].ub)
      BY <1>3, <2>1 DEF Held, Waits, InRow
    <3>3. Later(u, t)
      BY <1>4, <2>1, <3>1, <3>2 DEF After
    <3> QED
      BY <3>1, <3>3 DEF Later
  <2> QED
    BY <1>1, <2>2, <2>3, <2>4
<1> QED
  BY <1>1, <1>7, <1>8, <1>9, SettledNext

LEMMA FailSettles ==
    ASSUME Held, Settled, Fail
    PROVE  Settled'
<1> DEFINE ub == Head(todo).ub
           slots == Head(todo).slots
           placed == PlaceAll(cells, ub, slots)
<1>1. todo # <<>> /\ ctx' = ctx /\ todo' = <<>> /\ text' = text
  BY DEF Fail
<1>2. ctx \in Contexts /\ cells \in AllCells /\ todo \in Seq(Entry) /\ Typed
  BY DEF Held, Typed
<1>3. \A st \in Seqs, i \in Cells : cells'[st][i] = Dropped(placed[st][i], ub)
  BY <1>2, FailIs
<1>4. /\ Head(todo) = todo[1] /\ 1 \in DOMAIN todo
      /\ ub \in Microbatch /\ slots \in SlotsFor(ub) /\ ub = todo[1].ub /\ slots = todo[1].slots
  <2>1. Head(todo) = todo[1] /\ 1 \in DOMAIN todo /\ todo[1] \in Entry
    BY <1>1, <1>2, HeadAndTail
  <2> QED
    BY <2>1 DEF Entry
<1> HIDE DEF ub, slots
<1>5. FreeSlots(cells, ub, slots)
  BY <1>4 DEF Settled, FreeFor
<1>6. TextKept(cells', text')
  <2> SUFFICES ASSUME NEW s \in Seqs, NEW p \in text[s]
               PROVE  p \in Positions(cells'[StreamOf(s)], s)
    BY <1>1 DEF TextKept
  <2> DEFINE st == StreamOf(s)
  <2>0. st \in Seqs
    BY <1>2, StreamFacts
  <2>1. p \in Positions(cells[st], s)
    BY DEF Settled, TextKept
  <2>2. PICK i \in Cells : s \in cells[st][i].seqs /\ cells[st][i].pos = p
    BY <2>1 DEF Positions
  <2> DEFINE c == cells[st][i]
             gone == {x \in {First(t.seqs) : t \in TokensOf(ub)} : c.pos >= DroppedFrom(ub, x)}
  <2>3. c \in Cell /\ c # NoCell /\ p \in Pos
    <3>1. c \in Cell
      BY <1>2, <2>0, StreamTyped
    <3> QED
      BY <2>2, <3>1, NoCellTyped, CellFacts
  <2>4. placed[st][i] = c
    BY <1>2, <1>4, <1>5, <2>0, <2>3, PositionsStay
  <2>5. cells'[st][i] = Without(c, gone)
    BY <1>3, <2>0, <2>4 DEF Dropped
  <2>6. s \notin gone
    <3> SUFFICES ASSUME s \in gone PROVE FALSE
      OBVIOUS
    <3>1. PICK t \in TokensOf(ub) : s = First(t.seqs)
      OBVIOUS
    <3>2. TokensOf(ub) \subseteq Token
      BY <1>4, TokensTyped
    <3>3. s \in t.seqs
      <4>1. t.seqs \in SUBSET Seqs /\ t.seqs # {}
        BY <3>2 DEF Token
      <4> QED
        BY <3>1, <4>1, FirstIs
    <3>4. Decoded(ub, s) \in SUBSET Nat /\ Decoded(ub, s) # {}
      <4>1. \A u \in TokensOf(ub) : u.pos \in Nat
        BY <1>2, <3>2, ContextFacts DEF Token, Pos
      <4>2. t.pos \in Decoded(ub, s)
        BY <3>3 DEF Decoded
      <4> QED
        BY <4>1, <4>2 DEF Decoded
    <3>5. Min(Decoded(ub, s)) \in Decoded(ub, s)
      BY <3>4, MinIs
    <3>6. PICK u \in TokensOf(ub) : s \in u.seqs /\ u.pos = Min(Decoded(ub, s))
      BY <3>5 DEF Decoded
    <3>7. p < u.pos
      BY <1>4, <3>6 DEF Settled, Beyond
    <3>8. p >= u.pos
      BY <2>2, <3>6 DEF DroppedFrom
    <3>9. p \in Int /\ u.pos \in Int
      BY <1>2, <2>3, <3>2, <3>6, ContextFacts DEF Token, Pos
    <3> DEFINE x == u.pos
    <3> HIDE DEF x
    <3>10. p < x /\ p >= x /\ p \in Int /\ x \in Int
      BY <3>7, <3>8, <3>9 DEF x
    <3> QED
      BY <3>10
  <2> HIDE DEF c, gone
  <2>7. Without(c, gone).seqs = c.seqs \ gone /\ Below(Without(c, gone), c)
    BY <2>3, WithoutFacts
  <2>8. s \in Without(c, gone).seqs
    BY <2>2, <2>6, <2>7 DEF c
  <2>9. Without(c, gone).pos = p
    <3>1. Without(c, gone) # NoCell
      BY <2>8, NoCellTyped
    <3> QED
      BY <2>2, <2>7, <3>1 DEF Below, c
  <2> QED
    BY <2>5, <2>8, <2>9 DEF Positions
<1> QED
  BY <1>1, <1>6, SettledIdle

LEMMA StepSettles ==
    ASSUME ctx.window = 0, Held, Settled, [Next]_vars
    PROVE  Settled'
<1>1. CASE Operate \/ (\E r \in Ranges : RmAll(r)) \/ Clear
  BY <1>1, OperationSettles
<1>2. CASE Batch
  BY <1>2, BatchSettles
<1>3. CASE Compute
  BY <1>3, ComputeSettles
<1>4. CASE Fail
  BY <1>4, FailSettles
<1>5. CASE UNCHANGED vars
  <2>1. ctx' = ctx /\ cells' = cells /\ todo' = todo /\ text' = text
    BY <1>5 DEF vars
  <2> QED
    BY <2>1, SettledNext DEF Settled
<1> QED
  BY <1>1, <1>2, <1>3, <1>4, <1>5 DEF Next

KVInv == Held /\ (ctx.window = 0 => Settled)

LEMMA AlwaysSettled == Spec => []KVInv
<1>1. Init => KVInv
  <2> SUFFICES ASSUME Init PROVE Held /\ Settled
    BY DEF KVInv
  <2>1. todo = <<>> /\ text = [s \in Seqs |-> {}]
    BY DEF Init
  <2> QED
    BY <2>1, InitHolds DEF Settled, TextKept, Beyond, FreeFor
<1>2. KVInv /\ [Next]_vars => KVInv'
  <2> SUFFICES ASSUME KVInv, [Next]_vars PROVE KVInv'
    OBVIOUS
  <2>1. ctx' = ctx
    BY ContextStays
  <2>2. Held'
    BY StepCarries DEF KVInv, Carried
  <2>3. ctx.window = 0 => Settled'
    BY StepSettles DEF KVInv
  <2> QED
    BY <2>1, <2>2, <2>3 DEF KVInv
<1> QED
  BY <1>1, <1>2, PTL DEF Spec

(* Without a window the cells that prepare found are still empty when      *)
(* their micro-batch is placed: those of a batch are apart, and nothing    *)
(* but the micro-batches before it takes a cell in between                 *)
(* (llama-kv-cache.cpp:747, :1093).                                        *)
THEOREM KVSlots == Spec => [](ctx.window = 0 => SlotsStillUsable)
<1>1. KVInv => (ctx.window = 0 => SlotsStillUsable)
  <2> SUFFICES ASSUME Held, Settled, todo # <<>>, NEW j \in DOMAIN Head(todo).ub
               PROVE  LET slot == Head(todo).slots[j]
                          cs == cells[StreamOfGroup(Head(todo).ub[j])]
                      IN  IsInjective(slot) /\ \A k \in DOMAIN slot : CanUse(cs, slot[k])
    BY DEF SlotsStillUsable, KVInv
  <2> DEFINE ub == Head(todo).ub
             slots == Head(todo).slots
             st == StreamOfGroup(ub[j])
  <2>1. /\ Head(todo) = todo[1] /\ 1 \in DOMAIN todo
        /\ ub \in Microbatch /\ slots \in SlotsFor(ub) /\ ub = todo[1].ub /\ slots = todo[1].slots
    <3>1. Head(todo) = todo[1] /\ 1 \in DOMAIN todo /\ todo[1] \in Entry
      BY HeadAndTail DEF Held, Typed
    <3> QED
      BY <3>1 DEF Entry
  <2>2. FreeSlots(cells, ub, slots)
    BY <2>1 DEF Settled, FreeFor
  <2> HIDE DEF ub, slots
  <2>3. j \in DOMAIN ub
    BY DEF ub
  <2>4. Has(ub, st) /\ GroupOf(ub, st) = j
    BY <2>1, <2>3, OwnGroup
  <2>5. Slot(ub, slots, st) = slots[j] /\ slots[j] \in Seq(Cells) /\ DOMAIN slots[j] = DOMAIN ub[j]
    <3>1. Slot(ub, slots, st) = slots[j]
      BY <2>4 DEF Slot
    <3>2. Slot(ub, slots, st) \in Seq(Cells) /\ DOMAIN Slot(ub, slots, st) = DOMAIN ub[GroupOf(ub, st)]
      BY <2>1, <2>4, SlotIs
    <3> QED
      BY <2>4, <3>1, <3>2
  <2>6. st \in Seqs
    <3>1. ub[j] \in Group
      BY <2>1, <2>3, ElementOfSeq, LenProperties DEF Microbatch
    <3> QED
      BY <3>1, GroupStream DEF Held, Typed
  <2> HIDE DEF st
  <2>7. IsInjective(slots[j])
    BY <2>1, <2>3, <2>5 DEF SlotsFor, IsInjective
  <2>8. ASSUME NEW k \in DOMAIN slots[j]
        PROVE  CanUse(cells[st], slots[j][k])
    <3>1. slots[j][k] \in Cells
      BY <2>5, ElementOfSeq, LenProperties
    <3>2. Takes(ub, slots, st, slots[j][k])
      BY <2>4, <2>5 DEF Takes, Among
    <3> QED
      BY <2>2, <2>6, <3>1, <3>2 DEF FreeSlots, CanUse
  <2> QED
    BY <2>7, <2>8 DEF ub, slots, st
<1> QED
  BY <1>1, AlwaysSettled, PTL

(* Without a window nothing that a sequence has is lost: no cell that is   *)
(* in use is taken, and a failed micro-batch takes back only positions     *)
(* that are not yet the user's (llama-kv-cache.cpp:1139,                   *)
(* llama-context.cpp:1844).                                                *)
THEOREM KVKeepsText == Spec => [](ctx.window = 0 => WindowKept)
<1>1. KVInv => (ctx.window = 0 => WindowKept)
  BY DEF KVInv, Settled, TextKept, WindowKept
<1> QED
  BY <1>1, AlwaysSettled, PTL

NoWindow == \A c \in Contexts : c.window = 0

(* Without a window finding cells for a batch leaves no trace in them,     *)
(* whether all of it fits or not: what was placed is put back, one         *)
(* micro-batch after the other, the last one first, to the cells before    *)
(* (llama-kv-cache.cpp:793, include/llama.h:968).                          *)
THEOREM KVRestores == Spec /\ NoWindow => PrepareRestores
<1> SUFFICES ASSUME NoWindow PROVE Spec => PrepareRestores
  OBVIOUS
<1> DEFINE Restored == \/ cells' = Updated(hasShift' # hasShift)
                       \/ todo' = <<>> /\ ctx.window > 0
                       \/ text' # text \/ ~Batch
<1>1. KVInv /\ [Next]_vars => [Restored]_vars
  <2> SUFFICES ASSUME KVInv, Batch PROVE cells' = Updated(hasShift' # hasShift)
    OBVIOUS
  <2>1. ctx.window = 0
    BY DEF NoWindow, KVInv, Held, Typed
  <2> QED
    BY <2>1, BatchSettles DEF KVInv
<1>2. PrepareRestores <=> [][Restored]_vars
  BY DEF PrepareRestores
<1> QED
  BY <1>1, <1>2, AlwaysSettled, PTL DEF Spec
=============================================================================
