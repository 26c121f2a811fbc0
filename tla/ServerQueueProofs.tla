------------------------- MODULE ServerQueueProofs -------------------------
(***************************************************************************)
(* Proofs about the request path of llama-server, for every set of clients *)
(* and every request they make, every set of slots, and whenever           *)
(* connections are closed, tasks fail, or the server sleeps or is ended:   *)
(* types; a task is in one place at most; no result is left behind and     *)
(* none is lost; and no slot is busy while the server sleeps.              *)
(***************************************************************************)
EXTENDS ServerQueue, FiniteSetTheorems, SequenceTheorems, WellFoundedInduction, TLAPS

(* An element is in a sequence, and not twice. *)
In(s, e) == \E i \in DOMAIN s : s[i] = e
Once(s, e) == \A i, j \in DOMAIN s : s[i] = e /\ s[j] = e => i = j

NextTask == [type |-> "next", id |-> NoTask]

IsQueued(id) == In(queue, Task(id))
IsDeferred(id) == In(deferred, id)
IsRun(id) == \E s \in Slots : slots[s].id = id
IsPending(id) == IsQueued(id) \/ IsDeferred(id) \/ InHand(id)

-----------------------------------------------------------------------------
(* Where tasks are. *)

(* A queue, the deferred ones and the slots have a task once. *)
NoDuplicates ==
    /\ \A id \in TaskIds : Once(queue, Task(id)) /\ Once(deferred, id)
    /\ \A s, t \in Slots : slots[s].id = slots[t].id /\ slots[s].id # NoTask => s = t

(* What is in one place is not in another. *)
Exclusive == \A id \in TaskIds :
    /\ IsQueued(id) => ~IsDeferred(id) /\ ~InHand(id) /\ ~IsRun(id)
    /\ IsDeferred(id) => ~InHand(id) /\ ~IsRun(id)
    /\ InHand(id) => ~IsRun(id)

(* A task that was answered is at most in the slot that is released next. *)
AnsweredIsOver == \A id \in answered :
    /\ ~IsPending(id)
    /\ IsRun(id) => main.pc = "release" /\ slots[First].id = id

(* Nothing has happened to a request that is not posted. *)
NotPosted == \A c \in Clients : at[c] \in {"new", "waits awake", "awake", "post"} =>
    /\ received[c] = 0
    /\ \A id \in Ids(c) : ~IsPending(id) /\ ~IsRun(id) /\ id \notin answered

(* Children are launched with their parent: they are never by themselves   *)
(* in a queue, ...                                                         *)
ChildrenTravel == \A id \in TaskIds :
    Kind[Client(id)] = "parent" /\ id[2] # 1 => ~IsPending(id)

(* ... and not launched while it is.                                       *)
ParentFirst == \A id \in TaskIds :
    IsParent(id) /\ IsPending(id) =>
        \A child \in Children(id) : ~IsRun(child) /\ child \notin answered

(* The loop decodes the slots that are busy, and releases one whose task    *)
(* was answered, or those of children whose parent failed.                 *)
Decoding ==
    /\ main.pc \in {"decode", "release", "drop"} => main.todo \subseteq Busy
    /\ main.pc \in {"release", "drop"} => main.todo # {}
    /\ main.pc = "release" => slots[First].id \in answered

PlacesInv ==
    /\ NoDuplicates /\ Exclusive /\ AnsweredIsOver /\ NotPosted
    /\ ChildrenTravel /\ ParentFirst /\ Decoding

-----------------------------------------------------------------------------
(* What was sent. *)

IsLast(r) == r.kind # "partial"
LastIn(id) == \E i \in DOMAIN results : results[i].id = id /\ IsLast(results[i])
LastOf(c) == {id \in Ids(c) : LastIn(id)}

(* Ids are registered before they are posted and until nobody receives. *)
Registered == \A c \in Clients :
    IF at[c] \in {"post", "receive", "stop"} THEN Ids(c) \subseteq waiting ELSE Ids(c) \intersect waiting = {}

(* Only results that somebody waits for, or will remove, are in the queue,  *)
Expected == \A i \in DOMAIN results :
    /\ results[i].id \in waiting \/ at[Client(results[i].id)] = "remove"
    /\ IsLast(results[i]) => results[i].id \in answered

(* one last one of a task, ... *)
LastOnce == \A i, j \in DOMAIN results :
    IsLast(results[i]) /\ IsLast(results[j]) /\ results[i].id = results[j].id => i = j

(* ... behind its partial ones, as long as somebody waits for it. *)
LastComesLast == \A i \in DOMAIN results :
    results[i].id \in answered \intersect waiting /\ ~IsLast(results[i]) =>
        \E j \in DOMAIN results : i < j /\ results[j].id = results[i].id /\ IsLast(results[j])

(* Last results sent to a client are received or in the queue. *)
Counted == \A c \in Clients :
    LET sent == Cardinality(answered \intersect Ids(c))
        known == received[c] + Cardinality(LastOf(c))
    IN  /\ at[c] = "receive" => sent = known
        /\ at[c] = "stop" => known <= sent

ResultsInv == Registered /\ Expected /\ LastOnce /\ LastComesLast /\ Counted

-----------------------------------------------------------------------------
(* As long as a slot is busy and the loop is about to wait, another round  *)
(* is in the queue.                                                        *)
NextQueued ==
    main.pc \in {"decode", "release", "idle", "waits task"} /\ Busy # {} => In(queue, NextTask)

-----------------------------------------------------------------------------
(* Sequences: what is in them, once. *)

LEMMA Least ==
    ASSUME NEW T \in SUBSET Nat, T # {}
    PROVE  LET x == CHOOSE x \in T : \A y \in T : x <= y
           IN  x \in T /\ \A y \in T : x <= y
<1> DEFINE UpTo(x) == {y \in T : y <= x}
           all == {UpTo(x) : x \in T}
<1>1. \A x \in T : UpTo(x) \in FiniteSubsetsOf(T)
  <2> TAKE x \in T
  <2>1. UpTo(x) \in SUBSET Nat /\ \A y \in UpTo(x) : y <= x
    OBVIOUS
  <2>2. IsFiniteSet(UpTo(x))
    <3> HIDE DEF UpTo
    <3> QED
      BY <2>1, FS_BoundedSetOfNaturals
  <2> QED
    BY <2>2 DEF FiniteSubsetsOf
<1>2. all \subseteq FiniteSubsetsOf(T) /\ all # {}
  BY <1>1
<1>3. PICK least \in all : \A other \in all : ~(<<other, least>> \in StrictSubsetOrdering(T))
  <2> HIDE DEF all
  <2> QED
    BY <1>2, FS_StrictSubsetOrderingWellFounded, WFMin
<1>4. PICK x \in T : least = UpTo(x)
  BY <1>3
<1>5. \A y \in T : x <= y
  <2> SUFFICES ASSUME NEW y \in T, y < x PROVE FALSE
    OBVIOUS
  <2>1. UpTo(y) \subseteq UpTo(x) /\ x \in UpTo(x) /\ x \notin UpTo(y)
    <3>1. \A z \in T : z \in Nat
      OBVIOUS
    <3>2. x \in Nat /\ y \in Nat /\ y < x
      BY <3>1
    <3>3. \A z \in T : z <= y => z <= x
      BY <3>1, <3>2
    <3>4. x <= x /\ ~(x <= y)
      BY <3>2
    <3> QED
      BY <3>3, <3>4, Zenon
  <2>2. UpTo(y) \in all /\ UpTo(y) \in SUBSET T /\ UpTo(x) \in SUBSET T
    OBVIOUS
  <2> HIDE DEF UpTo, all
  <2>3. <<UpTo(y), UpTo(x)>> \in StrictSubsetOrdering(T)
    BY <2>1, <2>2 DEF StrictSubsetOrdering
  <2> QED
    BY <2>2, <2>3, <1>3, <1>4
<1> QED
  BY <1>5

(* Two sequences in a row. *)
LEMMA ConcatIn ==
    ASSUME NEW S, NEW s \in Seq(S), NEW t \in Seq(S)
    PROVE  /\ s \o t \in Seq(S)
           /\ \A e : In(s \o t, e) <=> In(s, e) \/ In(t, e)
           /\ \A e : Once(s, e) /\ Once(t, e) /\ ~(In(s, e) /\ In(t, e)) => Once(s \o t, e)
<1> DEFINE st == s \o t
           m == Len(s)
           n == Len(t)
<1>1. /\ st \in Seq(S) /\ DOMAIN st = 1 .. m + n
      /\ \A i \in 1 .. m + n : st[i] = IF i <= m THEN s[i] ELSE t[i - m]
  BY ConcatProperties, LenProperties
<1>2. m \in Nat /\ n \in Nat /\ DOMAIN s = 1 .. m /\ DOMAIN t = 1 .. n
  BY LenProperties
<1> HIDE DEF st, m, n
<1>3. \A i \in DOMAIN st : \/ i \in DOMAIN s /\ st[i] = s[i]
                           \/ i - m \in DOMAIN t /\ st[i] = t[i - m]
  BY <1>1, <1>2
<1>4. /\ \A i \in DOMAIN s : i \in DOMAIN st /\ st[i] = s[i]
      /\ \A i \in DOMAIN t : i + m \in DOMAIN st /\ st[i + m] = t[i]
  BY <1>1, <1>2
<1>5. \A e : In(st, e) <=> In(s, e) \/ In(t, e)
  BY <1>3, <1>4 DEF In
<1>6. ASSUME NEW e, Once(s, e), Once(t, e), ~(In(s, e) /\ In(t, e))
      PROVE  Once(st, e)
  <2> SUFFICES ASSUME NEW i \in DOMAIN st, NEW j \in DOMAIN st, st[i] = e, st[j] = e
               PROVE  i = j
    BY DEF Once
  <2>1. i \in Int /\ j \in Int
    BY <1>1, <1>2
  <2>2. CASE In(s, e)
    <3>1. i \in DOMAIN s /\ s[i] = e /\ j \in DOMAIN s /\ s[j] = e
      BY <1>3, <1>6, <2>2 DEF In
    <3> QED
      BY <3>1, <1>6 DEF Once
  <2>3. CASE ~In(s, e)
    <3>1. i - m \in DOMAIN t /\ t[i - m] = e /\ j - m \in DOMAIN t /\ t[j - m] = e
      BY <1>3, <2>3 DEF In
    <3>2. i - m = j - m
      BY <3>1, <1>6 DEF Once
    <3> QED
      BY <3>2, <2>1, <1>2
  <2> QED
    BY <2>2, <2>3
<1> QED
  BY <1>1, <1>5, <1>6 DEF st

LEMMA OneIn ==
    ASSUME NEW S, NEW x \in S
    PROVE  <<x>> \in Seq(S) /\ \A e : (In(<<x>>, e) <=> e = x) /\ Once(<<x>>, e)
BY DEF In, Once

LEMMA AppendIn ==
    ASSUME NEW S, NEW s \in Seq(S), NEW x \in S
    PROVE  /\ Append(s, x) \in Seq(S)
           /\ \A e : In(Append(s, x), e) <=> In(s, e) \/ e = x
           /\ \A e : Once(s, e) /\ ~(In(s, e) /\ e = x) => Once(Append(s, x), e)
<1>1. Append(s, x) = s \o <<x>> /\ <<x>> \in Seq(S)
  BY AppendIsConcat, OneIn
<1>2. /\ s \o <<x>> \in Seq(S)
      /\ \A e : In(s \o <<x>>, e) <=> In(s, e) \/ In(<<x>>, e)
      /\ \A e : Once(s, e) /\ Once(<<x>>, e) /\ ~(In(s, e) /\ In(<<x>>, e)) => Once(s \o <<x>>, e)
  BY <1>1, ConcatIn
<1>3. \A e : (In(<<x>>, e) <=> e = x) /\ Once(<<x>>, e)
  BY OneIn
<1> QED
  BY <1>1, <1>2, <1>3, Zenon

LEMMA PushIn ==
    ASSUME NEW S, NEW s \in Seq(S), NEW x \in S
    PROVE  /\ <<x>> \o s \in Seq(S)
           /\ \A e : In(<<x>> \o s, e) <=> In(s, e) \/ e = x
           /\ \A e : Once(s, e) /\ ~(In(s, e) /\ e = x) => Once(<<x>> \o s, e)
BY ConcatIn, OneIn

(* Of s the places in keep are left, in order, and make up t. *)
Kept(t, s, keep) == \E f \in [DOMAIN t -> keep] :
    /\ \A i, j \in DOMAIN t : i < j => f[i] < f[j]
    /\ \A i \in DOMAIN t : t[i] = s[f[i]]
    /\ \A k \in keep : \E i \in DOMAIN t : f[i] = k

LEMMA KeptIn ==
    ASSUME NEW S, NEW s \in Seq(S), NEW t \in Seq(S), NEW keep \in SUBSET DOMAIN s, Kept(t, s, keep)
    PROVE  /\ \A e : In(t, e) <=> \E k \in keep : s[k] = e
           /\ \A e : Once(s, e) => Once(t, e)
<1>1. PICK f \in [DOMAIN t -> keep] :
        /\ \A i, j \in DOMAIN t : i < j => f[i] < f[j]
        /\ \A i \in DOMAIN t : t[i] = s[f[i]]
        /\ \A k \in keep : \E i \in DOMAIN t : f[i] = k
  BY DEF Kept
<1>2. \A i, j \in DOMAIN t : i # j => f[i] # f[j]
  <2>1. DOMAIN t \subseteq Int /\ DOMAIN s \subseteq Int
    BY LenProperties
  <2> QED
    BY <1>1, <2>1
<1>3. \A e : In(t, e) <=> \E k \in keep : s[k] = e
  BY <1>1 DEF In
<1>4. \A e : Once(s, e) => Once(t, e)
  BY <1>1, <1>2 DEF Once
<1> QED
  BY <1>3, <1>4

LEMMA TailKept ==
    ASSUME NEW S, NEW s \in Seq(S), s # <<>>
    PROVE  /\ Tail(s) \in Seq(S) /\ Head(s) \in S
           /\ 1 \in DOMAIN s /\ s[1] = Head(s)
           /\ Kept(Tail(s), s, DOMAIN s \ {1})
<1> DEFINE t == Tail(s)
           n == Len(s)
<1>1. /\ t \in Seq(S) /\ Head(s) \in S
      /\ n \in Nat /\ n # 0 /\ DOMAIN s = 1 .. n /\ DOMAIN t = 1 .. n - 1
      /\ \A i \in 1 .. n - 1 : t[i] = s[i + 1]
  BY HeadTailProperties, LenProperties, EmptySeq
<1>2. s[1] = Head(s)
  OBVIOUS
<1> HIDE DEF t, n
<1> DEFINE f == [i \in DOMAIN t |-> i + 1]
<1>3. /\ f \in [DOMAIN t -> DOMAIN s \ {1}]
      /\ \A i, j \in DOMAIN t : i < j => f[i] < f[j]
      /\ \A i \in DOMAIN t : t[i] = s[f[i]]
      /\ \A k \in DOMAIN s \ {1} : k - 1 \in DOMAIN t /\ f[k - 1] = k
  BY <1>1
<1>4. Kept(t, s, DOMAIN s \ {1})
  <2> HIDE DEF f
  <2> QED
    BY <1>3 DEF Kept
<1> QED
  BY <1>1, <1>2, <1>4 DEF t

LEMMA RemoveAtKept ==
    ASSUME NEW S, NEW s \in Seq(S), NEW k \in DOMAIN s
    PROVE  RemoveAt(s, k) \in Seq(S) /\ Kept(RemoveAt(s, k), s, DOMAIN s \ {k})
<1> DEFINE t == RemoveAt(s, k)
           n == Len(s)
           a == SubSeq(s, 1, k - 1)
           b == SubSeq(s, k + 1, n)
<1>1. n \in Nat /\ DOMAIN s = 1 .. n /\ k \in 1 .. n /\ \A i \in 1 .. n : s[i] \in S
  BY LenProperties, ElementOfSeq
<1>2. /\ a \in Seq(S) /\ Len(a) = k - 1
      /\ \A i \in 1 .. k - 1 : a[i] = s[i]
  <2>1. \A i \in 1 .. k - 1 : s[i] \in S
    BY <1>1
  <2>2. /\ a \in Seq(S) /\ Len(a) = IF 1 <= k - 1 THEN k - 1 - 1 + 1 ELSE 0
        /\ \A i \in 1 .. k - 1 - 1 + 1 : a[i] = s[1 + i - 1]
    BY <1>1, <2>1, SubSeqProperties
  <2> HIDE DEF a
  <2> QED
    BY <2>2, <1>1
<1>3. /\ b \in Seq(S) /\ Len(b) = n - k
      /\ \A i \in 1 .. n - k : b[i] = s[k + i]
  <2>1. \A i \in k + 1 .. n : s[i] \in S
    BY <1>1
  <2>2. /\ b \in Seq(S) /\ Len(b) = IF k + 1 <= n THEN n - (k + 1) + 1 ELSE 0
        /\ \A i \in 1 .. n - (k + 1) + 1 : b[i] = s[(k + 1) + i - 1]
    BY <1>1, <2>1, SubSeqProperties
  <2> HIDE DEF b, n
  <2>3. k \in Nat /\ n \in Nat /\ 1 <= k /\ k <= n
    BY <1>1
  <2>4. /\ n - (k + 1) + 1 = n - k
        /\ (IF k + 1 <= n THEN n - (k + 1) + 1 ELSE 0) = n - k
    BY <2>3
  <2>5. ASSUME NEW i \in 1 .. n - k
        PROVE  b[i] = s[k + i]
    <3>1. (k + 1) + i - 1 = k + i
      BY <2>3
    <3>2. b[i] = s[(k + 1) + i - 1]
      BY <2>2, <2>4
    <3> QED
      BY <3>1, <3>2
  <2> QED
    BY <2>2, <2>4, <2>5
<1>4. /\ t \in Seq(S) /\ DOMAIN t = 1 .. n - 1
      /\ \A i \in 1 .. n - 1 : t[i] = IF i < k THEN s[i] ELSE s[i + 1]
  <2>1. t = a \o b
    BY DEF RemoveAt
  <2> HIDE DEF a, b, t, n
  <2>2. /\ t \in Seq(S) /\ Len(t) = (k - 1) + (n - k)
        /\ \A i \in 1 .. (k - 1) + (n - k) : t[i] = IF i <= k - 1 THEN a[i] ELSE b[i - (k - 1)]
    BY <2>1, <1>2, <1>3, ConcatProperties
  <2>3. DOMAIN t = 1 .. n - 1
    BY <2>2, <1>1, LenProperties
  <2>4. ASSUME NEW i \in 1 .. n - 1
        PROVE  t[i] = IF i < k THEN s[i] ELSE s[i + 1]
    <3>1. i \in 1 .. (k - 1) + (n - k) /\ k \in Int /\ n \in Int
      BY <1>1
    <3>2. t[i] = IF i <= k - 1 THEN a[i] ELSE b[i - (k - 1)]
      BY <2>2, <3>1
    <3>3. CASE i < k
      BY <3>1, <3>2, <3>3, <1>2
    <3>4. CASE ~(i < k)
      <4>1. i - (k - 1) \in 1 .. n - k /\ k + (i - (k - 1)) = i + 1
        BY <3>1, <3>4
      <4>2. b[i - (k - 1)] = s[i + 1]
        BY <4>1, <1>3
      <4> QED
        BY <3>1, <3>2, <3>4, <4>2
    <3> QED
      BY <3>3, <3>4
  <2> QED
    BY <2>2, <2>3, <2>4
<1> HIDE DEF t, n, a, b
<1> DEFINE f == [i \in DOMAIN t |-> IF i < k THEN i ELSE i + 1]
<1>5. /\ f \in [DOMAIN t -> DOMAIN s \ {k}]
      /\ \A i, j \in DOMAIN t : i < j => f[i] < f[j]
      /\ \A i \in DOMAIN t : t[i] = s[f[i]]
  BY <1>1, <1>4
<1>6. \A j \in DOMAIN s \ {k} : \E i \in DOMAIN t : f[i] = j
  <2> TAKE j \in DOMAIN s \ {k}
  <2>1. CASE j < k
    BY <2>1, <1>1, <1>4
  <2>2. CASE j > k
    <3>1. j - 1 \in DOMAIN t /\ f[j - 1] = j
      BY <2>2, <1>1, <1>4
    <3> QED
      BY <3>1
  <2> QED
    BY <2>1, <2>2, <1>1
<1>7. Kept(t, s, DOMAIN s \ {k})
  <2> HIDE DEF f
  <2> QED
    BY <1>5, <1>6 DEF Kept
<1> QED
  BY <1>4, <1>7 DEF t

LEMMA ThinnedKept ==
    ASSUME NEW S, NEW s \in Seq(S), NEW keep \in SUBSET DOMAIN s
    PROVE  Thinned(s, keep) \in Seq(S) /\ Kept(Thinned(s, keep), s, keep)
<1> DEFINE t == Thinned(s, keep)
           n == Cardinality(keep)
           below == [i \in keep |-> {j \in keep : j < i}]
           rank == [i \in keep |-> Cardinality(below[i]) + 1]
           f == [k \in 1 .. n |-> CHOOSE i \in keep : Cardinality({j \in keep : j < i}) = k - 1]
<1>1. /\ IsFiniteSet(keep) /\ n \in Nat /\ keep \subseteq Nat
      /\ \A i \in DOMAIN s : s[i] \in S
  <2>1. Len(s) \in Nat /\ DOMAIN s = 1 .. Len(s) /\ \A i \in DOMAIN s : s[i] \in S
    BY LenProperties, ElementOfSeq
  <2>2. IsFiniteSet(1 .. Len(s))
    BY <2>1, FS_Interval
  <2> QED
    BY <2>1, <2>2, FS_Subset, FS_CardinalityType
<1>2. \A i \in keep : IsFiniteSet(below[i]) /\ Cardinality(below[i]) \in Nat
  BY <1>1, FS_Subset, FS_CardinalityType
<1>3. \A i \in keep : rank[i] \in Nat /\ rank[i] >= 1 /\ Cardinality(below[i]) = rank[i] - 1
  <2> HIDE DEF below
  <2> QED
    BY <1>2
<1>4. ASSUME NEW i \in keep, NEW T \in SUBSET keep, below[i] \union {i} \subseteq T
      PROVE  rank[i] <= Cardinality(T)
  <2>1. i \notin below[i]
    BY <1>1
  <2>2. /\ IsFiniteSet(below[i] \union {i})
        /\ Cardinality(below[i] \union {i}) = Cardinality(below[i]) + 1
    BY <1>2, <2>1, FS_AddElement
  <2>3. IsFiniteSet(T)
    BY <1>1, FS_Subset
  <2>4. Cardinality(below[i] \union {i}) <= Cardinality(T)
    BY <2>3, <1>4, FS_Subset
  <2> QED
    BY <2>2, <2>4
<1>5. \A i \in keep : rank[i] <= n
  <2> TAKE i \in keep
  <2>1. below[i] \union {i} \subseteq keep
    OBVIOUS
  <2> QED
    BY <2>1, <1>4
<1>6. \A i, j \in keep : i < j => rank[i] < rank[j]
  <2> SUFFICES ASSUME NEW i \in keep, NEW j \in keep, i < j PROVE rank[i] < rank[j]
    OBVIOUS
  <2>1. below[i] \union {i} \subseteq below[j] /\ below[j] \in SUBSET keep
    BY <1>1
  <2>2. rank[i] <= Cardinality(below[j])
    BY <2>1, <1>4
  <2> HIDE DEF below, rank
  <2> QED
    BY <2>2, <1>3
<1>7. t = [k \in 1 .. n |-> s[f[k]]]
  BY DEF Thinned
<1>8. \A i \in keep : Cardinality({j \in keep : j < i}) = rank[i] - 1
  BY <1>3
<1> HIDE DEF below, t
<1>9. rank \in [keep -> 1 .. n]
  <2>1. rank = [i \in keep |-> rank[i]]
    OBVIOUS
  <2> HIDE DEF rank
  <2> QED
    BY <2>1, <1>3, <1>5, <1>1
<1> HIDE DEF rank
<1>10. rank \in Injection(keep, 1 .. n)
  <2>1. \A i, j \in keep : rank[i] = rank[j] => i = j
    <3> SUFFICES ASSUME NEW i \in keep, NEW j \in keep, i # j PROVE rank[i] # rank[j]
      OBVIOUS
    <3>1. i < j \/ j < i
      BY <1>1
    <3> QED
      BY <3>1, <1>6, <1>3
  <2> QED
    BY <2>1, <1>9 DEF Injection, IsInjective
<1>11. rank \in Surjection(keep, 1 .. n)
  <2>1. IsFiniteSet(1 .. n) /\ Cardinality(1 .. n) = n
    BY <1>1, FS_Interval
  <2> QED
    BY <1>10, <2>1, FS_Injection
<1>12. \A k \in 1 .. n : f[k] \in keep /\ rank[f[k]] = k
  <2> TAKE k \in 1 .. n
  <2>1. PICK i \in keep : rank[i] = k
    BY <1>11 DEF Surjection
  <2>2. Cardinality({j \in keep : j < i}) = k - 1
    BY <2>1, <1>8
  <2>3. f[k] \in keep /\ Cardinality({j \in keep : j < f[k]}) = k - 1
    BY <2>2
  <2>4. rank[f[k]] - 1 = k - 1 /\ rank[f[k]] \in Nat
    BY <2>3, <1>8, <1>3
  <2> QED
    BY <2>3, <2>4
<1>13. \A i \in keep : rank[i] \in 1 .. n /\ f[rank[i]] = i
  <2> TAKE i \in keep
  <2>1. rank[i] \in 1 .. n
    BY <1>9
  <2>2. f[rank[i]] \in keep /\ rank[f[rank[i]]] = rank[i]
    BY <2>1, <1>12
  <2> HIDE DEF f
  <2> QED
    BY <2>1, <2>2, <1>10 DEF Injection, IsInjective
<1>14. f \in [1 .. n -> keep]
  BY <1>12
<1> HIDE DEF f
<1>15. DOMAIN t = 1 .. n /\ (\A k \in 1 .. n : t[k] = s[f[k]]) /\ t \in Seq(S)
  <2>1. \A k \in 1 .. n : s[f[k]] \in S
    BY <1>1, <1>14
  <2>2. [k \in 1 .. n |-> s[f[k]]] \in Seq(S)
    BY <2>1, <1>1, IsASeq
  <2> QED
    BY <2>2, <1>7
<1>16. \A k, l \in 1 .. n : k < l => f[k] < f[l]
  <2> SUFFICES ASSUME NEW k \in 1 .. n, NEW l \in 1 .. n, k < l PROVE f[k] < f[l]
    OBVIOUS
  <2>1. f[k] \in keep /\ f[l] \in keep /\ rank[f[k]] = k /\ rank[f[l]] = l
    BY <1>12
  <2>2. f[k] \in Nat /\ f[l] \in Nat /\ f[k] # f[l]
    BY <2>1, <1>1
  <2>3. ~(f[l] < f[k])
    BY <2>1, <1>6
  <2> QED
    BY <2>2, <2>3
<1>17. Kept(t, s, keep)
  <2>1. \A i \in keep : \E k \in DOMAIN t : f[k] = i
    BY <1>13, <1>15
  <2>2. f \in [DOMAIN t -> keep]
    BY <1>14, <1>15
  <2>3. \A k, l \in DOMAIN t : k < l => f[k] < f[l]
    BY <1>15, <1>16
  <2>4. \A k \in DOMAIN t : t[k] = s[f[k]]
    BY <1>15
  <2> QED
    BY <2>1, <2>2, <2>3, <2>4, Zenon DEF Kept
<1> QED
  BY <1>15, <1>17 DEF t

LEMMA WithoutIn ==
    ASSUME NEW S, NEW s \in Seq(S), NEW ids
    PROVE  /\ Without(s, ids) \in Seq(S)
           /\ \A e : In(Without(s, ids), e) <=> In(s, e) /\ e \notin ids
           /\ \A e : Once(s, e) => Once(Without(s, ids), e)
<1> DEFINE keep == {i \in DOMAIN s : s[i] \notin ids}
<1>1. Without(s, ids) \in Seq(S) /\ Kept(Without(s, ids), s, keep)
  BY ThinnedKept DEF Without
<1>2. /\ \A e : In(Without(s, ids), e) <=> \E k \in keep : s[k] = e
      /\ \A e : Once(s, e) => Once(Without(s, ids), e)
  BY <1>1, KeptIn
<1> QED
  BY <1>1, <1>2 DEF In

-----------------------------------------------------------------------------
(* Tasks and requests. *)

LEMMA IdFacts ==
    ASSUME NEW c \in Clients
    PROVE  /\ Tasks[c] \in Nat \ {0}
           /\ Ids(c) \subseteq TaskIds
           /\ IsFiniteSet(Ids(c)) /\ Cardinality(Ids(c)) = Tasks[c]
           /\ \A id \in TaskIds : id \in Ids(c) <=> Client(id) = c
<1>1. Tasks[c] \in Nat \ {0} /\ Ids(c) \subseteq TaskIds
  BY ServerAssumption DEF TaskIds
<1>2. \A id \in TaskIds : id \in Ids(c) <=> Client(id) = c
  BY DEF TaskIds, Ids, Client
<1> DEFINE f == [i \in 1 .. Tasks[c] |-> <<c, i>>]
<1>3. f \in [1 .. Tasks[c] -> Ids(c)] /\ \A i \in 1 .. Tasks[c] : f[i] = <<c, i>>
  BY DEF Ids
<1>4. \A id \in Ids(c) : \E i \in 1 .. Tasks[c] : f[i] = id
  BY DEF Ids
<1> HIDE DEF f
<1>5. f \in Surjection(1 .. Tasks[c], Ids(c))
  BY <1>3, <1>4 DEF Surjection
<1>6. f \in Injection(1 .. Tasks[c], Ids(c))
  BY <1>3 DEF Injection, IsInjective
<1>7. IsFiniteSet(1 .. Tasks[c]) /\ Cardinality(1 .. Tasks[c]) = Tasks[c]
  BY <1>1, FS_Interval
<1>8. IsFiniteSet(Ids(c)) /\ Cardinality(Ids(c)) = Tasks[c]
  BY <1>5, <1>6, <1>7, FS_Surjection
<1> QED
  BY <1>1, <1>2, <1>8

LEMMA TaskFacts ==
    ASSUME NEW id \in TaskIds
    PROVE  /\ Client(id) \in Clients /\ id \in Ids(Client(id))
           /\ id = <<Client(id), id[2]>> /\ id[2] \in 1 .. Tasks[Client(id)]
           /\ id # NoTask
           /\ Task(id) \in Requests /\ Task(id).type = "task" /\ Task(id).id = id
           /\ \A r \in Requests : r.type = "task" => r.id \in TaskIds /\ r = Task(r.id)
           /\ Task(id) # NextTask
           /\ \A other : Task(id) = Task(other) => id = other
<1>1. /\ Client(id) \in Clients /\ id \in Ids(Client(id))
      /\ id = <<Client(id), id[2]>> /\ id[2] \in 1 .. Tasks[Client(id)]
  BY DEF TaskIds, Ids, Client
<1> QED
  BY <1>1, NoTaskAssumption DEF Task, Requests, NextTask

LEMMA ChildrenFacts ==
    ASSUME NEW id \in TaskIds, NEW child \in Children(id)
    PROVE  /\ IsParent(id) /\ child \in TaskIds /\ child # id
           /\ Client(child) = Client(id) /\ child[2] # 1
           /\ Kind[Client(child)] = "parent" /\ ~IsParent(child)
<1>1. IsParent(id) /\ child \in Ids(Client(id)) /\ child # id
  BY DEF Children
<1>2. child \in TaskIds /\ Client(child) = Client(id)
  BY <1>1, TaskFacts, IdFacts
<1>3. child = <<Client(child), child[2]>> /\ id = <<Client(id), id[2]>>
  BY <1>2, TaskFacts
<1>4. child[2] # 1
  BY <1>1, <1>2, <1>3 DEF IsParent
<1> QED
  BY <1>1, <1>2, <1>4 DEF IsParent

(* The task that fails after n children were launched, and these. *)
LEMMA NextFacts ==
    ASSUME NEW id \in TaskIds, NEW n \in 0 .. Cardinality(Children(id))
    PROVE  /\ NextOf(id, n) \in TaskIds
           /\ NextOf(id, n) = id \/ NextOf(id, n) \in Children(id)
           /\ Foremost(id, n) \subseteq Children(id) /\ NextOf(id, n) \notin Foremost(id, n)
<1> DEFINE c == Client(id)
<1>1. c \in Clients /\ id = <<c, id[2]>> /\ Tasks[c] \in Nat /\ id \in Ids(c)
  BY TaskFacts, IdFacts
<1>2. CASE ~IsParent(id)
  <2>1. Children(id) = {} /\ n = 0 /\ Cardinality(Children(id)) = 0
    BY <1>2, FS_EmptySet DEF Children
  <2>2. NextOf(id, n) = id /\ Foremost(id, n) = {}
    BY <2>1 DEF NextOf, Foremost
  <2> QED
    BY <2>1, <2>2
<1>3. CASE IsParent(id)
  <2>1. Children(id) = Ids(c) \ {id} /\ id = <<c, 1>>
    BY <1>1, <1>3 DEF Children, IsParent
  <2>2. Cardinality(Children(id)) = Tasks[c] - 1
    BY <1>1, <2>1, IdFacts, FS_RemoveElement
  <2> HIDE DEF c
  <2>3. \A i \in 2 .. Tasks[c] : <<c, i>> \in Children(id)
    <3> TAKE i \in 2 .. Tasks[c]
    <3>1. i \in 1 .. Tasks[c] /\ i # 1
      BY <1>1
    <3> QED
      BY <2>1, <3>1 DEF Ids
  <2>4. \A i \in 2 .. n + 1 : i \in 2 .. Tasks[c] /\ i # 1 /\ i # n + 2
    BY <1>1, <2>2
  <2>5. Foremost(id, n) = {<<c, i>> : i \in 2 .. n + 1}
    BY DEF Foremost, c
  <2>6. Foremost(id, n) \subseteq Children(id)
    BY <2>3, <2>4, <2>5
  <2>7. CASE n = Cardinality(Children(id))
    BY <2>1, <2>4, <2>5, <2>6, <2>7 DEF NextOf
  <2>8. CASE n # Cardinality(Children(id))
    <3>1. NextOf(id, n) = <<c, n + 2>> /\ n + 2 \in 2 .. Tasks[c]
      BY <1>1, <2>2, <2>8 DEF NextOf, c
    <3>2. NextOf(id, n) \in Children(id)
      BY <2>3, <3>1
    <3> QED
      BY <2>4, <2>5, <2>6, <3>1, <3>2, ChildrenFacts
  <2> QED
    BY <2>7, <2>8
<1> QED
  BY <1>2, <1>3

LEMMA FirstFacts ==
    ASSUME main.todo \subseteq Slots, main.todo # {}
    PROVE  First \in main.todo /\ First \in Slots
<1>1. main.todo \in SUBSET Nat
  BY ServerAssumption
<1>2. First \in main.todo
  BY <1>1, Least, Zenon DEF First
<1> QED
  BY <1>2

(* What pop_deferred_task does to the queues: one task at most moves. *)
Moves(moved) ==
    /\ moved \subseteq TaskIds
    /\ \A id \in moved : In(deferred, id)
    /\ \A e : In(queue', e) <=> In(queue, e) \/ \E id \in moved : e = Task(id)
    /\ \A e : Once(queue, e) /\ ~(In(queue, e) /\ \E id \in moved : e = Task(id)) => Once(queue', e)
    /\ \A id : In(deferred', id) => In(deferred, id)
    /\ \A id : Once(deferred, id) => Once(deferred', id) /\ (id \in moved => ~In(deferred', id))

LEMMA PopDeferredMoves ==
    ASSUME ServerTypeOK, NEW s, PopDeferred(s)
    PROVE  /\ queue' \in Seq(Requests) /\ deferred' \in Seq(TaskIds)
           /\ \E moved : Moves(moved)
<1>1. queue \in Seq(Requests) /\ deferred \in Seq(TaskIds)
  BY DEF ServerTypeOK
<1>2. CASE deferred = <<>>
  <2>1. queue' = queue /\ deferred' = deferred
    BY <1>2 DEF PopDeferred
  <2>2. Moves({})
    BY <2>1 DEF Moves
  <2> QED
    BY <1>1, <2>1, <2>2
<1>3. CASE deferred # <<>>
  <2> DEFINE mine == {j \in DOMAIN deferred : WantSlot[Client(deferred[j])] = s /\ Kind[Client(deferred[j])] # "action"}
             k == IF mine = {} THEN 1 ELSE CHOOSE i \in mine : \A j \in mine : i <= j
             id == deferred[k]
             old == deferred
             new == deferred'
  <2>1. queue' = <<Task(id)>> \o queue /\ new = RemoveAt(old, k)
    BY <1>3 DEF PopDeferred
  <2>2. mine \in SUBSET Nat /\ 1 \in DOMAIN old
    BY <1>1, <1>3, LenProperties, EmptySeq
  <2>3. k \in DOMAIN old
    <3>1. CASE mine = {}
      BY <3>1, <2>2
    <3>2. CASE mine # {}
      <4>1. (CHOOSE i \in mine : \A j \in mine : i <= j) \in mine
        <5> HIDE DEF mine
        <5> QED
          BY <3>2, <2>2, Least, Zenon
      <4>2. mine \subseteq DOMAIN old
        OBVIOUS
      <4> HIDE DEF mine
      <4> QED
        BY <3>2, <4>1, <4>2
    <3> QED
      BY <3>1, <3>2
  <2> HIDE DEF mine, k
  <2>4. id \in TaskIds /\ In(old, id)
    BY <2>3, <1>1, LenProperties, ElementOfSeq DEF In
  <2>5. Task(id) \in Requests
    BY <2>4, TaskFacts
  <2>6. /\ queue' \in Seq(Requests)
        /\ \A e : In(queue', e) <=> In(queue, e) \/ e = Task(id)
        /\ \A e : Once(queue, e) /\ ~(In(queue, e) /\ e = Task(id)) => Once(queue', e)
    BY <2>1, <2>5, <1>1, PushIn
  <2>7. new \in Seq(TaskIds) /\ Kept(new, old, DOMAIN old \ {k})
    BY <2>1, <2>3, <1>1, RemoveAtKept
  <2>8. /\ \A e : In(new, e) <=> \E i \in DOMAIN old \ {k} : old[i] = e
        /\ \A e : Once(old, e) => Once(new, e)
    BY <2>7, <1>1, KeptIn
  <2>9. /\ \A e : In(new, e) => In(old, e)
        /\ Once(old, id) => ~In(new, id)
    BY <2>8, <2>3 DEF In, Once
  <2>10. Moves({id})
    BY <2>4, <2>6, <2>8, <2>9 DEF Moves
  <2> QED
    BY <2>6, <2>7, <2>10
<1> QED
  BY <1>2, <1>3

-----------------------------------------------------------------------------
(* Types. *)

LEMMA NotifyFacts ==
    ASSUME NEW rest \in NotifyOne(onTasks)
    PROVE  rest \subseteq onTasks
BY DEF NotifyOne

LEMMA SendTypes ==
    ASSUME ServerTypeOK, NEW id \in TaskIds, NEW kind \in {"partial", "final", "error"}, Send(id, kind)
    PROVE  results' \in Seq(Results)
<1>1. results \in Seq(Results) /\ [id |-> id, kind |-> kind] \in Results
  BY DEF ServerTypeOK, Results
<1> QED
  BY <1>1, AppendProperties DEF Send

LEMMA MainFacts ==
    ASSUME ServerTypeOK
    PROVE  /\ \A pc : MainAt(pc) => main'.pc = pc /\ main'.task = main.task /\ main'.todo = main.todo
           /\ \A pc : Handled(pc) => main'.pc = pc /\ main'.task = NoTask /\ main'.todo = main.todo
           /\ Decoded => main'.pc = main.pc /\ main'.task = main.task /\ main'.todo = main.todo \ {First}
           /\ \A c \in Clients : \A pc : ClientAt(c, pc) =>
                 at'[c] = pc /\ \A d \in Clients \ {c} : at'[d] = at[d]
BY DEF ServerTypeOK, MainAt, Handled, Decoded, ClientAt

LEMMA MainTypes ==
    ASSUME ServerTypeOK
    PROVE  /\ \A pc \in MainPcs \ {"handle"} : MainAt(pc) /\ main.pc # "handle" =>
                  /\ main' \in [pc : MainPcs, task : Requests \union {NoTask}, todo : SUBSET Slots]
                  /\ main'.task \in IF main'.pc = "handle" THEN Requests ELSE {NoTask}
           /\ \A pc \in MainPcs \ {"handle"} : Handled(pc) =>
                  /\ main' \in [pc : MainPcs, task : Requests \union {NoTask}, todo : SUBSET Slots]
                  /\ main'.task \in IF main'.pc = "handle" THEN Requests ELSE {NoTask}
           /\ Decoded /\ main.pc = "decode" =>
                  /\ main' \in [pc : MainPcs, task : Requests \union {NoTask}, todo : SUBSET Slots]
                  /\ main'.task \in IF main'.pc = "handle" THEN Requests ELSE {NoTask}
BY DEF ServerTypeOK, MainAt, Handled, Decoded

LEMMA FunctionSeq ==
    ASSUME NEW S, NEW n \in Nat, NEW f \in [1 .. n -> S]
    PROVE  f \in Seq(S)
<1>1. \A i \in 1 .. n : f[i] \in S
  OBVIOUS
<1>2. [i \in 1 .. n |-> f[i]] \in Seq(S)
  BY <1>1, IsASeq
<1> QED
  BY <1>2

LEMMA InitTypes == Init => ServerTypeOK
<1> SUFFICES ASSUME Init PROVE ServerTypeOK
  OBVIOUS
<1>1. queue \in Seq(Requests) /\ deferred \in Seq(TaskIds) /\ results \in Seq(Results)
  BY EmptySeq DEF Init
<1>2. slots \in [Slots -> Processing] /\ at \in [Clients -> Pcs] /\ received \in [Clients -> Nat]
  BY DEF Init, Processing, Idle, Pcs
<1>3. /\ main \in [pc : MainPcs, task : Requests \union {NoTask}, todo : SUBSET Slots]
      /\ main.task \in IF main.pc = "handle" THEN Requests ELSE {NoTask}
  BY DEF Init, MainPcs
<1> QED
  BY <1>1, <1>2, <1>3 DEF Init, ServerTypeOK

LEMMA CancelsFacts ==
    ASSUME NEW c \in Clients, NEW cancels \in Cancels(c)
    PROVE  cancels \in Seq(Requests) /\ \A e : In(cancels, e) => e.type = "cancel"
<1>1. PICK order \in [1 .. Tasks[c] -> Ids(c)] :
        cancels = [i \in 1 .. Tasks[c] |-> [type |-> "cancel", id |-> order[i]]]
  BY DEF Cancels
<1>2. Tasks[c] \in Nat /\ Ids(c) \subseteq TaskIds
  BY IdFacts
<1>3. \A i \in 1 .. Tasks[c] : [type |-> "cancel", id |-> order[i]] \in Requests
  BY <1>2 DEF Requests
<1>4. cancels \in Seq(Requests)
  BY <1>1, <1>2, <1>3, FunctionSeq
<1> QED
  BY <1>1, <1>4 DEF In

LEMMA ClientTypes ==
    ASSUME ServerTypeOK, NEW c \in Clients, ClientStep(c) \/ Disconnect(c)
    PROVE  ServerTypeOK'
<1> USE DEF Pcs
<1>1. CASE Arrive(c)
  <2>1. onTasks' \subseteq Clients \union {Main}
    <3>1. CASE sleeping
      <4>1. PICK rest \in (IF reqStop THEN {onTasks} ELSE NotifyOne(onTasks)) : onTasks' = rest \union {c}
        BY <1>1, <3>1 DEF Arrive
      <4>2. rest \subseteq onTasks
        BY <4>1, NotifyFacts
      <4> QED
        BY <4>1, <4>2 DEF ServerTypeOK
    <3>2. CASE ~sleeping
      BY <1>1, <3>2 DEF Arrive, ServerTypeOK
    <3> QED
      BY <3>1, <3>2
  <2>2. reqStop' \in BOOLEAN /\ at' \in [Clients -> Pcs]
    BY <1>1 DEF Arrive, ServerTypeOK, ClientAt
  <2> QED
    BY <1>1, <2>1, <2>2 DEF Arrive, ServerTypeOK, resultVars, mainVars
<1>2. CASE Awake(c)
  BY <1>2 DEF Awake, ServerTypeOK, ClientAt, resultVars, mainVars
<1>3. CASE Register(c)
  BY <1>3, IdFacts DEF Register, ServerTypeOK, ClientAt, taskVars, mainVars
<1>4. CASE Post(c)
  <2>1. Posted(c) \in Seq(Requests)
    <3>1. \A i \in 1 .. Tasks[c] : Task(<<c, i>>) \in Requests
      BY IdFacts, TaskFacts DEF Ids
    <3>2. Tasks[c] \in Nat /\ 1 \in 1 .. Tasks[c]
      BY IdFacts
    <3>3. [i \in 1 .. Tasks[c] |-> Task(<<c, i>>)] \in Seq(Requests)
      BY <3>1, <3>2, FunctionSeq
    <3> QED
      BY <3>1, <3>2, <3>3, OneIn DEF Posted
  <2>2. queue' \in Seq(Requests)
    BY <1>4, <2>1, ConcatProperties DEF Post, ServerTypeOK
  <2> QED
    BY <1>4, <2>2, NotifyFacts DEF Post, ServerTypeOK, ClientAt, resultVars, mainVars
<1>5. CASE Receive(c)
  <2>1. PICK i \in DOMAIN results :
          /\ results' = RemoveAt(results, i)
          /\ received' = IF results[i].kind = "final" THEN [received EXCEPT ![c] = @ + 1] ELSE received
          /\ ClientAt(c, "stop") \/ UNCHANGED at
    BY <1>5 DEF Receive
  <2>2. results' \in Seq(Results)
    BY <2>1, RemoveAtKept DEF ServerTypeOK
  <2>3. received' \in [Clients -> Nat]
    <3>1. received \in [Clients -> Nat]
      BY DEF ServerTypeOK
    <3>2. received[c] + 1 \in Nat
      BY <3>1
    <3> QED
      BY <2>1, <3>1, <3>2
  <2>4. at' \in [Clients -> Pcs]
    BY <2>1 DEF ServerTypeOK, ClientAt
  <2> QED
    BY <1>5, <2>2, <2>3, <2>4 DEF Receive, ServerTypeOK, taskVars, mainVars
<1>6. CASE Stop(c)
  BY <1>6 DEF Stop, ServerTypeOK, ClientAt, taskVars, mainVars
<1>7. CASE Discard(c)
  <2>1. results \in Seq(Results) /\ {i \in DOMAIN results : Client(results[i].id) # c} \in SUBSET DOMAIN results
    BY DEF ServerTypeOK
  <2>2. Thinned(results, {i \in DOMAIN results : Client(results[i].id) # c}) \in Seq(Results)
    BY <2>1, ThinnedKept
  <2> QED
    BY <1>7, <2>2 DEF Discard, ServerTypeOK, ClientAt, taskVars, mainVars
<1>8. CASE Cancel(c)
  <2>1. PICK cancels \in Cancels(c) : queue' = cancels \o Without(queue, {Task(id) : id \in Ids(c)})
    BY <1>8 DEF Cancel
  <2>2. cancels \in Seq(Requests)
    BY CancelsFacts
  <2>3. queue' \in Seq(Requests) /\ deferred' \in Seq(TaskIds)
    <3>0. queue \in Seq(Requests) /\ deferred \in Seq(TaskIds)
      BY DEF ServerTypeOK
    <3>1. Without(queue, {Task(id) : id \in Ids(c)}) \in Seq(Requests)
      BY <3>0, WithoutIn
    <3>2. Without(deferred, Ids(c)) \in Seq(TaskIds)
      BY <3>0, WithoutIn
    <3> QED
      BY <1>8, <2>1, <2>2, <3>1, <3>2, ConcatProperties DEF Cancel
  <2> QED
    BY <1>8, <2>3, NotifyFacts DEF Cancel, ServerTypeOK, ClientAt, resultVars, mainVars
<1>9. CASE Disconnect(c)
  BY <1>9 DEF Disconnect, ServerTypeOK, ClientAt, taskVars, resultVars, mainVars
<1> QED
  BY <1>1, <1>2, <1>3, <1>4, <1>5, <1>6, <1>7, <1>8, <1>9 DEF ClientStep

(* A task is launched in slot s, its children in the others of ss. *)
Launches(id, ss, s, child) ==
    /\ ss \in Room(id) /\ s \in ss /\ Fits(id, s)
    /\ child \in [ss \ {s} -> Children(id)] /\ IsInjective(child)
    /\ slots' = [t \in Slots |->
          IF t = s THEN [id |-> id, left |-> Tokens[Client(id)], waits |-> FALSE]
          ELSE IF t \in ss THEN [id |-> child[t], left |-> Tokens[Client(id)], waits |-> TRUE]
          ELSE slots[t]]

LEMMA LaunchIs ==
    ASSUME Launch
    PROVE  \E ss, s, child : Launches(main.task.id, ss, s, child)
<1> DEFINE id == main.task.id
<1>1. PICK ss \in Room(id), s \in Slots :
        /\ s \in ss /\ Fits(id, s)
        /\ \E child \in [ss \ {s} -> Children(id)] :
            /\ IsInjective(child)
            /\ slots' = [t \in Slots |->
                  IF t = s THEN [id |-> id, left |-> Tokens[Client(id)], waits |-> FALSE]
                  ELSE IF t \in ss THEN [id |-> child[t], left |-> Tokens[Client(id)], waits |-> TRUE]
                  ELSE slots[t]]
  BY DEF Launch
<1>2. PICK child \in [ss \ {s} -> Children(id)] :
        /\ IsInjective(child)
        /\ slots' = [t \in Slots |->
              IF t = s THEN [id |-> id, left |-> Tokens[Client(id)], waits |-> FALSE]
              ELSE IF t \in ss THEN [id |-> child[t], left |-> Tokens[Client(id)], waits |-> TRUE]
              ELSE slots[t]]
  BY <1>1
<1>3. Launches(id, ss, s, child)
  BY <1>1, <1>2 DEF Launches
<1> QED
  BY <1>3

(* A launch fails: children of the task in hand are in the slots to, and    *)
(* it or another child is over.                                            *)
FailsAfter(id, over, to, child) ==
    /\ to \subseteq Slots \ Busy /\ IsFiniteSet(to)
    /\ child \in [to -> Children(id)] /\ IsInjective(child)
    /\ \A t \in to : child[t] # over
    /\ slots' = [t \in Slots |->
          IF t \in to THEN [id |-> child[t], left |-> Tokens[Client(id)], waits |-> TRUE]
          ELSE slots[t]]
    /\ over \in TaskIds /\ (over = id \/ over \in Children(id))
    /\ Send(over, "error")
    /\ answered' = answered \union {over}
    /\ \/ main' = [pc |-> "tasks", task |-> NoTask, todo |-> {}] /\ to = {}
       \/ main' = [pc |-> "drop", task |-> NoTask, todo |-> to] /\ to # {}

LEMMA LaunchFailsIs ==
    ASSUME LaunchFails, main.task.id \in TaskIds
    PROVE  \E over, to, child : FailsAfter(main.task.id, over, to, child)
<1> DEFINE id == main.task.id
<1>1. PICK n \in 0 .. Cardinality(Children(id)), ss \in Room(id), s \in Slots, to \in SUBSET Slots :
        /\ to \subseteq ss \ {s} /\ Cardinality(to) = n
        /\ \E child \in [to -> Foremost(id, n)] :
             /\ IsInjective(child)
             /\ slots' = [t \in Slots |->
                  IF t \in to THEN [id |-> child[t], left |-> Tokens[Client(id)], waits |-> TRUE]
                  ELSE slots[t]]
        /\ Send(NextOf(id, n), "error")
        /\ answered' = answered \union {NextOf(id, n)}
        /\ main' = [pc |-> IF n = 0 THEN "tasks" ELSE "drop", task |-> NoTask, todo |-> to]
  BY DEF LaunchFails
<1> HIDE DEF id
<1>0. id = main.task.id /\ id \in TaskIds
  BY DEF id
<1>2. PICK child \in [to -> Foremost(id, n)] :
        /\ IsInjective(child)
        /\ slots' = [t \in Slots |->
             IF t \in to THEN [id |-> child[t], left |-> Tokens[Client(id)], waits |-> TRUE]
             ELSE slots[t]]
  BY <1>1
<1>3. PICK over \in TaskIds : over = NextOf(id, n)
  BY <1>0, NextFacts
<1>4. /\ over = id \/ over \in Children(id)
      /\ Foremost(id, n) \subseteq Children(id) /\ over \notin Foremost(id, n)
  BY <1>0, <1>3, NextFacts
<1>5. child \in [to -> Children(id)] /\ \A t \in to : child[t] # over
  BY <1>2, <1>4
<1>6. to \subseteq Slots \ Busy
  BY <1>1 DEF Room
<1>7. IsFiniteSet(to) /\ (n = 0 <=> to = {})
  <2>1. IsFiniteSet(to)
    BY ServerAssumption, FS_Subset
  <2> QED
    BY <2>1, <1>1, FS_EmptySet
<1>8. \/ main' = [pc |-> "tasks", task |-> NoTask, todo |-> {}] /\ to = {}
      \/ main' = [pc |-> "drop", task |-> NoTask, todo |-> to] /\ to # {}
  BY <1>1, <1>7
<1>9. FailsAfter(id, over, to, child)
  BY <1>1, <1>2, <1>3, <1>4, <1>5, <1>6, <1>7, <1>8 DEF FailsAfter
<1> QED
  BY <1>0, <1>9

LEMMA HandleTypes ==
    ASSUME ServerTypeOK, Take \/ HandleNext \/ Defer \/ Launch \/ AnswerAtOnce \/ LaunchFails \/ HandleCancel
    PROVE  ServerTypeOK'
<1>1. CASE Take
  <2>1. CASE running /\ queue # <<>>
    <3>1. Head(queue) \in Requests /\ Tail(queue) \in Seq(Requests)
      BY <2>1, HeadTailProperties DEF ServerTypeOK
    <3>2. main' = [main EXCEPT !.pc = "handle", !.task = Head(queue)] /\ queue' = Tail(queue)
      BY <1>1, <2>1 DEF Take
    <3> QED
      BY <1>1, <3>1, <3>2 DEF Take, ServerTypeOK, MainPcs, resultVars, clientVars
  <2>2. CASE ~(running /\ queue # <<>>)
    <3>1. \E pc \in {"returned", "update"} : MainAt(pc) /\ UNCHANGED queue
      BY <1>1, <2>2 DEF Take
    <3> QED
      BY <1>1, <3>1, MainTypes DEF Take, ServerTypeOK, MainPcs, resultVars, clientVars
  <2> QED
    BY <2>1, <2>2
<1>2. CASE HandleNext
  BY <1>2, MainTypes DEF HandleNext, ServerTypeOK, MainPcs, taskVars, resultVars, clientVars
<1>3. CASE Defer
  <2>1. main.task.id \in TaskIds
    BY <1>3, NoTaskAssumption DEF Defer, ServerTypeOK, Requests
  <2>2. deferred' \in Seq(TaskIds)
    BY <1>3, <2>1, AppendProperties DEF Defer, ServerTypeOK
  <2> QED
    BY <1>3, <2>2, MainTypes, NotifyFacts DEF Defer, ServerTypeOK, MainPcs, resultVars, clientVars
<1>4. CASE Launch
  <2> DEFINE id == main.task.id
  <2>1. id \in TaskIds
    BY <1>4 DEF Launch, ServerTypeOK, Requests
  <2>2. slots' \in [Slots -> Processing]
    <3>1. PICK ss, s, child : Launches(id, ss, s, child)
      BY <1>4, LaunchIs
    <3>2. Tokens[Client(id)] \in Nat
      BY <2>1, TaskFacts, ServerAssumption
    <3> HIDE DEF id
    <3>3. \A t \in ss \ {s} : child[t] \in TaskIds
      BY <2>1, <3>1, ChildrenFacts DEF Launches
    <3> QED
      BY <2>1, <3>1, <3>2, <3>3 DEF Launches, ServerTypeOK, Processing
  <2> QED
    BY <1>4, <2>2, MainTypes DEF Launch, ServerTypeOK, MainPcs, taskVars, resultVars, clientVars
<1>5. CASE AnswerAtOnce
  <2>1. main.task.id \in TaskIds
    BY <1>5 DEF AnswerAtOnce, ServerTypeOK, Requests
  <2>2. results' \in Seq(Results) /\ answered' \subseteq TaskIds
    BY <1>5, <2>1, SendTypes DEF AnswerAtOnce, ServerTypeOK
  <2> QED
    BY <1>5, <2>2, MainTypes DEF AnswerAtOnce, ServerTypeOK, MainPcs, taskVars, clientVars
<1>6. CASE LaunchFails
  <2>0. PICK id : id = main.task.id
    OBVIOUS
  <2>1. id \in TaskIds
    BY <1>6, <2>0 DEF LaunchFails, ServerTypeOK, Requests
  <2>2. PICK over, to, child : FailsAfter(id, over, to, child)
    BY <1>6, <2>0, <2>1, LaunchFailsIs
  <2>3. results' \in Seq(Results) /\ answered' \subseteq TaskIds
    BY <2>2, SendTypes DEF FailsAfter, ServerTypeOK
  <2>4. slots' \in [Slots -> Processing]
    <3>1. Tokens[Client(id)] \in Nat
      BY <2>1, TaskFacts, ServerAssumption
    <3>2. \A t \in to : child[t] \in TaskIds
      BY <2>1, <2>2, ChildrenFacts DEF FailsAfter
    <3> QED
      BY <2>2, <3>1, <3>2 DEF FailsAfter, ServerTypeOK, Processing
  <2>5. /\ main' \in [pc : MainPcs, task : Requests \union {NoTask}, todo : SUBSET Slots]
        /\ main'.task \in IF main'.pc = "handle" THEN Requests ELSE {NoTask}
    <3>1. main'.task = NoTask /\ main'.pc \in {"tasks", "drop"}
      BY <2>2 DEF FailsAfter
    <3>2. main' \in [pc : MainPcs, task : Requests \union {NoTask}, todo : SUBSET Slots]
      <4>1. to \subseteq Slots /\ {"tasks", "drop"} \subseteq MainPcs /\ NoTask \in Requests \union {NoTask}
        BY <2>2 DEF FailsAfter, MainPcs
      <4>2. \/ main' = [pc |-> "tasks", task |-> NoTask, todo |-> {}]
            \/ main' = [pc |-> "drop", task |-> NoTask, todo |-> to]
        BY <2>2 DEF FailsAfter
      <4> QED
        BY <4>1, <4>2
    <3> QED
      BY <3>1, <3>2
  <2> QED
    BY <1>6, <2>3, <2>4, <2>5 DEF LaunchFails, ServerTypeOK, taskVars, clientVars
<1>7. CASE HandleCancel
  <2>1. queue' \in Seq(Requests) /\ deferred' \in Seq(TaskIds) /\ onTasks' \subseteq onTasks
    BY <1>7, PopDeferredMoves, NotifyFacts DEF HandleCancel, PopDeferred, ServerTypeOK
  <2>2. slots' \in [Slots -> Processing]
    BY <1>7 DEF HandleCancel, ServerTypeOK, Processing
  <2> QED
    BY <1>7, <2>1, <2>2, MainTypes DEF HandleCancel, ServerTypeOK, MainPcs, resultVars, clientVars
<1> QED
  BY <1>1, <1>2, <1>3, <1>4, <1>5, <1>6, <1>7

LEMMA StartedTypes ==
    ASSUME ServerTypeOK, NEW id \in TaskIds
    PROVE  /\ Started(id) \in [Slots -> Processing]
           /\ \A s \in Slots : Started(id)[s].id = slots[s].id /\ Started(id)[s].left = slots[s].left
<1>1. ASSUME NEW s \in Slots
      PROVE  /\ Started(id)[s] \in Processing
             /\ Started(id)[s].id = slots[s].id /\ Started(id)[s].left = slots[s].left
  <2>1. slots[s] \in Processing /\ {slots[s].id} \subseteq TaskIds \union {NoTask}
    BY DEF ServerTypeOK, Processing, Idle
  <2>2. CASE slots[s].id \in Children(id)
    <3>1. slots[s].id # NoTask
      BY <2>2, ChildrenFacts, NoTaskAssumption
    <3>2. slots[s] \in [id : TaskIds, left : Nat, waits : BOOLEAN]
      BY <2>1, <3>1 DEF Processing, Idle
    <3> QED
      BY <2>2, <3>2 DEF Started, Processing
  <2>3. CASE slots[s].id \notin Children(id)
    BY <2>1, <2>3 DEF Started
  <2> QED
    BY <2>2, <2>3
<1> QED
  BY <1>1 DEF Started

LEMMA BusyFacts ==
    ASSUME ServerTypeOK, NEW s \in Busy
    PROVE  slots[s].id \in TaskIds /\ slots[s] \in [id : TaskIds, left : Nat, waits : BOOLEAN]
BY DEF Busy, ServerTypeOK, Processing, Idle

LEMMA UpdateTypes ==
    ASSUME ServerTypeOK, Decoding,
           Update \/ ChildWaits \/ Partial \/ Finish \/ Release \/ Drop \/ Updated
    PROVE  ServerTypeOK'
<1>a. ASSUME main.pc \in {"decode", "release", "drop"}, main.todo # {}
      PROVE  First \in main.todo /\ First \in Slots /\ First \in Busy
  BY <1>a, FirstFacts DEF ServerTypeOK, Decoding
<1>1. CASE Update
  <2>1. CASE Busy = {}
    BY <1>1, <2>1, MainTypes DEF Update, ServerTypeOK, MainPcs, resultVars, clientVars
  <2>2. CASE Busy # {}
    <3>1. queue' \in Seq(Requests)
      <4>1. NextTask \in Requests
        BY DEF NextTask, Requests
      <4> QED
        <5>1. queue' = Append(queue, NextTask) /\ queue \in Seq(Requests)
          BY <1>1, <2>2 DEF Update, ServerTypeOK, NextTask
        <5> QED
          BY <4>1, <5>1, AppendProperties
    <3>2. main' = [main EXCEPT !.pc = "decode", !.todo = Busy] /\ Busy \subseteq Slots
      BY <1>1, <2>2 DEF Update, Busy
    <3> QED
      BY <1>1, <2>2, <3>1, <3>2, NotifyFacts DEF Update, ServerTypeOK, MainPcs, resultVars, clientVars
  <2> QED
    BY <2>1, <2>2
<1>2. CASE ChildWaits
  BY <1>2, MainTypes DEF ChildWaits, ServerTypeOK, taskVars, resultVars, clientVars
<1>3. CASE Partial
  <2>1. First \in Slots /\ slots[First].id \in TaskIds /\ slots[First].left \in Nat
    BY <1>3, <1>a, BusyFacts DEF Partial
  <2>2. results' \in Seq(Results)
    BY <1>3, <2>1, SendTypes DEF Partial
  <2>3. slots' \in [Slots -> Processing]
    <3> DEFINE new == Started(slots[First].id)
               f == First
    <3>1. new \in [Slots -> Processing] /\ new[f].id \in TaskIds /\ new[f].left > 1 /\ new[f].left \in Nat
      BY <1>3, <2>1, StartedTypes DEF Partial
    <3>2. slots' = [new EXCEPT ![f].left = @ - 1] /\ f \in Slots
      BY <1>3, <2>1 DEF Partial
    <3> HIDE DEF new, f
    <3>3. new[f] \in [id : TaskIds, left : Nat, waits : BOOLEAN]
      BY <3>1, <3>2, NoTaskAssumption DEF Processing, Idle
    <3>4. [new[f] EXCEPT !.left = @ - 1] \in Processing
      BY <3>1, <3>3 DEF Processing
    <3> QED
      BY <3>1, <3>2, <3>4
  <2> QED
    BY <1>3, <2>2, <2>3, MainTypes DEF Partial, ServerTypeOK, taskVars, clientVars
<1>4. CASE Finish
  <2>1. First \in Slots /\ slots[First].id \in TaskIds
    BY <1>4, <1>a, BusyFacts DEF Finish
  <2>2. results' \in Seq(Results)
    BY <1>4, <2>1, SendTypes DEF Finish
  <2>3. slots' \in [Slots -> Processing]
    <3>1. slots' = slots \/ slots' = Started(slots[First].id)
      BY <1>4 DEF Finish
    <3> QED
      BY <2>1, <3>1, StartedTypes DEF ServerTypeOK
  <2>4. answered' \subseteq TaskIds
    BY <1>4, <2>1 DEF Finish, ServerTypeOK
  <2> QED
    BY <1>4, <2>2, <2>3, <2>4, MainTypes DEF Finish, ServerTypeOK, MainPcs, taskVars, clientVars
<1>5. CASE Release
  <2>1. First \in Slots
    BY <1>5, <1>a DEF Release, Decoding
  <2>2. queue' \in Seq(Requests) /\ deferred' \in Seq(TaskIds) /\ onTasks' \subseteq onTasks
    BY <1>5, PopDeferredMoves, NotifyFacts DEF Release, PopDeferred
  <2>3. slots' \in [Slots -> Processing]
    BY <1>5 DEF Release, ServerTypeOK, Processing
  <2> QED
    BY <1>5, <2>2, <2>3 DEF Release, ServerTypeOK, MainPcs, resultVars, clientVars
<1>6. CASE Updated
  BY <1>6, MainTypes DEF Updated, ServerTypeOK, MainPcs, taskVars, resultVars, clientVars
<1>7. CASE Drop
  <2>1. First \in Slots
    BY <1>7, <1>a DEF Drop, Decoding
  <2>2. queue' \in Seq(Requests) /\ deferred' \in Seq(TaskIds) /\ onTasks' \subseteq onTasks
    BY <1>7, PopDeferredMoves, NotifyFacts DEF Drop, PopDeferred
  <2>3. slots' \in [Slots -> Processing]
    BY <1>7 DEF Drop, ServerTypeOK, Processing
  <2> QED
    BY <1>7, <2>2, <2>3 DEF Drop, ServerTypeOK, MainPcs, resultVars, clientVars
<1> QED
  BY <1>1, <1>2, <1>3, <1>4, <1>5, <1>6, <1>7

(* Steps that change neither tasks nor results: the loop or a thread waits, *)
(* wakes up, falls asleep or ends.                                          *)
Rests == \/ FallAsleep \/ WaitTask \/ TaskArrived \/ MainTimeout \/ WakeUp \/ SleepOn
         \/ Terminate \/ SpuriousWakeup \/ Over

LEMMA RestTypes ==
    ASSUME ServerTypeOK, Rests
    PROVE  ServerTypeOK'
<1>1. CASE FallAsleep
  BY <1>1, MainTypes DEF FallAsleep, ServerTypeOK, MainPcs, resultVars, clientVars
<1>2. CASE WaitTask
  BY <1>2, MainTypes DEF WaitTask, ServerTypeOK, MainPcs, resultVars, clientVars
<1>3. CASE TaskArrived
  BY <1>3, MainTypes DEF TaskArrived, ServerTypeOK, MainPcs, resultVars, clientVars
<1>4. CASE MainTimeout
  BY <1>4, MainTypes DEF MainTimeout, ServerTypeOK, MainPcs, resultVars, clientVars
<1>5. CASE WakeUp
  BY <1>5, MainTypes DEF WakeUp, ServerTypeOK, MainPcs, resultVars, clientVars
<1>6. CASE SleepOn
  BY <1>6, MainTypes DEF SleepOn, ServerTypeOK, MainPcs, resultVars, clientVars
<1>7. CASE Terminate
  BY <1>7 DEF Terminate, ServerTypeOK, resultVars, mainVars, clientVars
<1>8. CASE SpuriousWakeup
  BY <1>8 DEF SpuriousWakeup, ServerTypeOK, resultVars, mainVars, clientVars
<1>9. CASE Over
  BY <1>9 DEF Over, ServerTypeOK, vars, taskVars, resultVars, mainVars, clientVars
<1> QED
  BY <1>1, <1>2, <1>3, <1>4, <1>5, <1>6, <1>7, <1>8, <1>9 DEF Rests

-----------------------------------------------------------------------------
(* Where tasks are: a step that brings no task in only has to keep apart   *)
(* the places of those that are there, and to answer what is over.         *)

NotYet == {"new", "waits awake", "awake", "post"}

Releasing(id) == main.pc = "release" /\ slots[First].id = id

NoneAdded ==
    /\ \A id \in TaskIds : Once(queue', Task(id)) /\ Once(deferred', id)
    /\ \A id \in TaskIds : IsPending(id)' => IsPending(id)
    /\ \A id \in TaskIds : /\ IsQueued(id)' => ~IsDeferred(id)' /\ ~InHand(id)'
                           /\ IsDeferred(id)' => ~InHand(id)'
    /\ \A s \in Slots : slots'[s].id \in {slots[s].id, NoTask}
    /\ \A id \in answered' : IsRun(id)' => Releasing(id)'
    /\ \A id \in answered' \ answered :
          /\ id \in TaskIds /\ ~IsPending(id)' /\ at[Client(id)] \notin NotYet
          /\ \A parent \in TaskIds : id \in Children(parent) => ~IsPending(parent)'
    /\ \A c \in Clients : at'[c] \in NotYet => at[c] \in NotYet /\ received'[c] = received[c]
    /\ Decoding'

LEMMA PlacesStep ==
    ASSUME ServerTypeOK, PlacesInv, NoneAdded
    PROVE  PlacesInv'
<1>1. \A id \in TaskIds : IsRun(id)' => IsRun(id)
  BY NoTaskAssumption DEF NoneAdded, IsRun
<1>2. NoDuplicates'
  BY DEF NoneAdded, PlacesInv, NoDuplicates
<1>3. Exclusive'
  <2> SUFFICES ASSUME NEW id \in TaskIds
               PROVE  /\ IsQueued(id)' => ~IsDeferred(id)' /\ ~InHand(id)' /\ ~IsRun(id)'
                      /\ IsDeferred(id)' => ~InHand(id)' /\ ~IsRun(id)'
                      /\ InHand(id)' => ~IsRun(id)'
    BY DEF Exclusive
  <2>1. IsPending(id)' => ~IsRun(id)'
    BY <1>1 DEF NoneAdded, PlacesInv, Exclusive, IsPending
  <2> QED
    BY <2>1 DEF NoneAdded, IsPending
<1>4. AnsweredIsOver'
  <2> SUFFICES ASSUME NEW id \in answered'
               PROVE  ~IsPending(id)' /\ (IsRun(id)' => Releasing(id)')
    BY DEF AnsweredIsOver, Releasing
  <2>1. IsRun(id)' => Releasing(id)'
    BY DEF NoneAdded
  <2>2. ~IsPending(id)'
    <3>1. CASE id \in answered
      BY <3>1 DEF NoneAdded, PlacesInv, AnsweredIsOver, ServerTypeOK
    <3>2. CASE id \notin answered
      BY <3>2 DEF NoneAdded
    <3> QED
      BY <3>1, <3>2
  <2> QED
    BY <2>1, <2>2
<1>5. NotPosted'
  <2> SUFFICES ASSUME NEW c \in Clients, at'[c] \in NotYet
               PROVE  /\ received'[c] = 0
                      /\ \A id \in Ids(c) : ~IsPending(id)' /\ ~IsRun(id)' /\ id \notin answered'
    BY DEF NotPosted, NotYet
  <2>1. at[c] \in NotYet /\ received'[c] = received[c]
    BY DEF NoneAdded
  <2>2. /\ received[c] = 0
        /\ \A id \in Ids(c) : ~IsPending(id) /\ ~IsRun(id) /\ id \notin answered
    BY <2>1 DEF PlacesInv, NotPosted, NotYet
  <2>3. \A id \in Ids(c) : id \in TaskIds /\ Client(id) = c
    BY IdFacts
  <2> QED
    BY <1>1, <2>1, <2>2, <2>3 DEF NoneAdded
<1>6. ChildrenTravel'
  BY DEF NoneAdded, PlacesInv, ChildrenTravel
<1>7. ParentFirst'
  <2> SUFFICES ASSUME NEW id \in TaskIds, IsParent(id), IsPending(id)', NEW child \in Children(id)
               PROVE  ~IsRun(child)' /\ child \notin answered'
    BY DEF ParentFirst
  <2>1. ~IsRun(child) /\ child \notin answered
    BY DEF NoneAdded, PlacesInv, ParentFirst
  <2>2. child \in TaskIds
    BY ChildrenFacts
  <2> QED
    BY <1>1, <2>1, <2>2 DEF NoneAdded
<1> QED
  BY <1>2, <1>3, <1>4, <1>5, <1>6, <1>7 DEF PlacesInv, NoneAdded

(* A step that leaves the queues and the slots' tasks as they are. *)
LEMMA PlacesQuiet ==
    ASSUME ServerTypeOK, PlacesInv,
           UNCHANGED <<queue, deferred, answered>>,
           \A s \in Slots : slots'[s].id = slots[s].id,
           main'.pc # "handle" \/ main' = main,
           main.pc = "release" => main'.pc = "release" /\ main'.todo = main.todo,
           main'.pc = "release" => main.pc = "release",
           main'.pc = "drop" => main.pc = "drop" /\ main'.todo = main.todo,
           main'.pc = "decode" => main.pc = "decode" /\ main'.todo \subseteq main.todo,
           \A c \in Clients : at'[c] \in NotYet => at[c] \in NotYet /\ received'[c] = received[c]
    PROVE  PlacesInv'
<1>1. \A id : (IsQueued(id)' <=> IsQueued(id)) /\ (IsDeferred(id)' <=> IsDeferred(id))
  BY DEF IsQueued, IsDeferred
<1>2. \A id : InHand(id)' => InHand(id)
  BY DEF InHand
<1>3. \A id : IsPending(id)' => IsPending(id)
  BY <1>1, <1>2 DEF IsPending
<1>4. \A id \in TaskIds : Once(queue', Task(id)) /\ Once(deferred', id)
  BY DEF PlacesInv, NoDuplicates
<1>5. \A id \in TaskIds : /\ IsQueued(id)' => ~IsDeferred(id)' /\ ~InHand(id)'
                          /\ IsDeferred(id)' => ~InHand(id)'
  BY <1>1, <1>2 DEF PlacesInv, Exclusive
<1>6. Busy' = Busy
  BY DEF Busy
<1>7. main.pc = "release" => First' = First /\ First \in Slots
  <2>1. main.pc = "release" => First' = First
    BY DEF First
  <2> QED
    BY <2>1, FirstFacts DEF PlacesInv, Decoding, ServerTypeOK
<1>8. Decoding'
  BY <1>6, <1>7 DEF PlacesInv, Decoding
<1>9. \A id \in answered' : IsRun(id)' => Releasing(id)'
  <2> SUFFICES ASSUME NEW id \in answered, IsRun(id)' PROVE Releasing(id)'
    OBVIOUS
  <2>1. IsRun(id)
    BY DEF IsRun
  <2>2. main.pc = "release" /\ slots[First].id = id
    BY <2>1 DEF PlacesInv, AnsweredIsOver
  <2> QED
    BY <2>2, <1>7 DEF Releasing
<1>10. NoneAdded
  BY <1>3, <1>4, <1>5, <1>8, <1>9 DEF NoneAdded
<1> QED
  BY <1>10, PlacesStep

LEMMA InitPlaces == Init => PlacesInv
<1> SUFFICES ASSUME Init PROVE PlacesInv
  OBVIOUS
<1>1. DOMAIN queue = {} /\ DOMAIN deferred = {}
  BY DEF Init
<1>2. \A id \in TaskIds : ~IsPending(id) /\ ~IsRun(id)
  BY <1>1, NoTaskAssumption DEF Init, IsPending, IsQueued, IsDeferred, InHand, In, IsRun, Idle
<1>3. NoDuplicates
  BY <1>1 DEF NoDuplicates, Once, Init, Idle
<1>4. Exclusive /\ ChildrenTravel
  BY <1>2 DEF Exclusive, ChildrenTravel, IsPending
<1>5. AnsweredIsOver /\ Decoding
  BY DEF AnsweredIsOver, Decoding, Init
<1>6. NotPosted
  BY <1>2, IdFacts DEF NotPosted, Init
<1>7. ParentFirst
  BY <1>2 DEF ParentFirst
<1> QED
  BY <1>3, <1>4, <1>5, <1>6, <1>7 DEF PlacesInv

LEMMA RestPlaces ==
    ASSUME ServerTypeOK, PlacesInv, Rests
    PROVE  PlacesInv'
<1>1. /\ UNCHANGED <<queue, deferred, answered, slots, at, received>>
      /\ main' = main \/ \E pc \in {"asleep", "tasks", "waits task", "idle"} : main.pc # "release" /\ MainAt(pc)
  <2>1. CASE FallAsleep
    BY <2>1 DEF FallAsleep, resultVars, clientVars
  <2>2. CASE WaitTask
    BY <2>2 DEF WaitTask, resultVars, clientVars
  <2>3. CASE TaskArrived
    BY <2>3 DEF TaskArrived, resultVars, clientVars
  <2>4. CASE MainTimeout
    BY <2>4 DEF MainTimeout, resultVars, clientVars
  <2>5. CASE WakeUp
    BY <2>5 DEF WakeUp, resultVars, clientVars
  <2>6. CASE SleepOn
    BY <2>6 DEF SleepOn, resultVars, clientVars
  <2>7. CASE Terminate
    BY <2>7 DEF Terminate, resultVars, mainVars, clientVars
  <2>8. CASE SpuriousWakeup
    BY <2>8 DEF SpuriousWakeup, resultVars, mainVars, clientVars
  <2>9. CASE Over
    BY <2>9 DEF Over, vars, taskVars, resultVars, mainVars, clientVars
  <2> QED
    BY <2>1, <2>2, <2>3, <2>4, <2>5, <2>6, <2>7, <2>8, <2>9 DEF Rests
<1>2. main' = main \/ (main.pc # "release" /\ main'.pc \in {"asleep", "tasks", "waits task", "idle"})
  BY <1>1, MainFacts
<1> QED
  BY <1>1, <1>2, PlacesQuiet

(* The tasks that a client posts. *)
NewTasks(c) == {id \in Ids(c) : Kind[c] = "parent" => id[2] = 1}

LEMMA PostedFacts ==
    ASSUME NEW c \in Clients
    PROVE  /\ Posted(c) \in Seq(Requests)
           /\ \A e : In(Posted(c), e) <=> \E id \in NewTasks(c) : e = Task(id)
           /\ \A e : Once(Posted(c), e)
<1>1. Tasks[c] \in Nat /\ 1 \in 1 .. Tasks[c]
  BY IdFacts
<1>2. \A i \in 1 .. Tasks[c] : <<c, i>> \in Ids(c) /\ <<c, i>> \in TaskIds /\ Task(<<c, i>>) \in Requests
  BY IdFacts, TaskFacts DEF Ids
<1>3. CASE Kind[c] = "parent"
  <2>1. Posted(c) = <<Task(<<c, 1>>)>>
    BY <1>3 DEF Posted
  <2>2. /\ Posted(c) \in Seq(Requests)
        /\ \A e : (In(Posted(c), e) <=> e = Task(<<c, 1>>)) /\ Once(Posted(c), e)
    BY <2>1, <1>1, <1>2, OneIn
  <2>3. \A id : id \in NewTasks(c) <=> id = <<c, 1>>
    BY <1>1, <1>2, <1>3 DEF NewTasks, Ids
  <2> QED
    BY <2>2, <2>3, Zenon
<1>4. CASE Kind[c] # "parent"
  <2> DEFINE p == [i \in 1 .. Tasks[c] |-> Task(<<c, i>>)]
  <2>1. Posted(c) = p
    BY <1>4 DEF Posted
  <2>2. p \in Seq(Requests)
    BY <1>1, <1>2, FunctionSeq
  <2>3. DOMAIN p = 1 .. Tasks[c] /\ \A i \in 1 .. Tasks[c] : p[i] = Task(<<c, i>>)
    OBVIOUS
  <2> HIDE DEF p
  <2>4. \A e : In(p, e) <=> \E id \in NewTasks(c) : e = Task(id)
    BY <2>3, <1>4 DEF In, NewTasks, Ids
  <2>5. \A i, j \in 1 .. Tasks[c] : p[i] = p[j] => i = j
    <3> TAKE i, j \in 1 .. Tasks[c]
    <3> DEFINE a == <<c, i>>
               b == <<c, j>>
    <3>1. a \in TaskIds /\ p[i] = Task(a) /\ p[j] = Task(b)
      BY <2>3, <1>2
    <3>2. a = b => i = j
      OBVIOUS
    <3> HIDE DEF a, b
    <3>3. Task(a) = Task(b) => a = b
      BY <3>1, TaskFacts
    <3> QED
      BY <3>1, <3>2, <3>3
  <2>6. \A e : Once(p, e)
    BY <2>3, <2>5 DEF Once
  <2> QED
    BY <2>1, <2>2, <2>4, <2>6
<1> QED
  BY <1>3, <1>4

LEMMA PostPlaces ==
    ASSUME ServerTypeOK, PlacesInv, NEW c \in Clients, Post(c)
    PROVE  PlacesInv'
<1>1. /\ queue \in Seq(Requests) /\ queue' = queue \o Posted(c)
      /\ at[c] = "post" /\ at'[c] = "receive" /\ \A d \in Clients \ {c} : at'[d] = at[d]
      /\ UNCHANGED <<deferred, slots, main, answered, received>>
  BY MainFacts DEF Post, ServerTypeOK, resultVars, mainVars
<1>2. /\ \A id : IsQueued(id)' <=> IsQueued(id) \/ \E new \in NewTasks(c) : Task(id) = Task(new)
      /\ \A id : Once(queue, Task(id)) /\ ~(IsQueued(id) /\ In(Posted(c), Task(id))) => Once(queue', Task(id))
  BY <1>1, PostedFacts, ConcatIn, Zenon DEF IsQueued
<1>3. /\ \A id : (IsDeferred(id)' <=> IsDeferred(id)) /\ (InHand(id)' <=> InHand(id)) /\ (IsRun(id)' <=> IsRun(id))
      /\ First' = First /\ Busy' = Busy
  BY <1>1 DEF IsDeferred, InHand, IsRun, First, Busy
<1>4. NewTasks(c) \subseteq TaskIds /\ \A id \in NewTasks(c) : id \in Ids(c) /\ Client(id) = c
  BY IdFacts DEF NewTasks
<1>5. \A id \in TaskIds : IsQueued(id)' <=> IsQueued(id) \/ id \in NewTasks(c)
  BY <1>2, <1>4, TaskFacts
<1>6. \A id \in TaskIds : Client(id) = c => ~IsPending(id) /\ ~IsRun(id) /\ id \notin answered
  BY <1>1, IdFacts DEF PlacesInv, NotPosted
<1>7. NoDuplicates'
  <2>1. ASSUME NEW id \in TaskIds
        PROVE  Once(queue, Task(id)) /\ ~(IsQueued(id) /\ In(Posted(c), Task(id)))
    <3>1. Once(queue, Task(id))
      BY DEF PlacesInv, NoDuplicates
    <3>2. In(Posted(c), Task(id)) => id \in NewTasks(c)
      BY PostedFacts, TaskFacts
    <3> QED
      BY <3>1, <3>2, <1>4, <1>6 DEF IsPending
  <2>2. \A id \in TaskIds : Once(queue', Task(id))
    BY <2>1, <1>2
  <2> QED
    BY <1>1, <2>2 DEF PlacesInv, NoDuplicates
<1>8. Exclusive'
  BY <1>3, <1>4, <1>5, <1>6 DEF PlacesInv, Exclusive, IsPending
<1>9. AnsweredIsOver'
  <2> SUFFICES ASSUME NEW id \in answered
               PROVE  ~IsPending(id)' /\ (IsRun(id)' => Releasing(id)')
    BY <1>1 DEF AnsweredIsOver, Releasing
  <2>1. id \in TaskIds /\ ~IsPending(id) /\ (IsRun(id) => Releasing(id))
    BY DEF PlacesInv, AnsweredIsOver, ServerTypeOK, Releasing
  <2>2. id \notin NewTasks(c)
    BY <1>4, <1>6
  <2> QED
    BY <2>1, <2>2, <1>1, <1>3, <1>5 DEF IsPending, Releasing
<1>10. NotPosted'
  <2> SUFFICES ASSUME NEW d \in Clients, at'[d] \in NotYet
               PROVE  /\ received'[d] = 0
                      /\ \A id \in Ids(d) : ~IsPending(id)' /\ ~IsRun(id)' /\ id \notin answered'
    BY DEF NotPosted, NotYet
  <2>1. d # c /\ at[d] \in NotYet
    BY <1>1 DEF NotYet
  <2>2. /\ received[d] = 0
        /\ \A id \in Ids(d) : ~IsPending(id) /\ ~IsRun(id) /\ id \notin answered
    BY <2>1 DEF PlacesInv, NotPosted, NotYet
  <2>3. \A id \in Ids(d) : id \in TaskIds /\ id \notin NewTasks(c)
    BY <2>1, <1>4, IdFacts
  <2> QED
    BY <2>2, <2>3, <1>1, <1>3, <1>5 DEF IsPending
<1>11. ChildrenTravel'
  BY <1>3, <1>4, <1>5 DEF PlacesInv, ChildrenTravel, IsPending, NewTasks
<1>12. ParentFirst'
  <2> SUFFICES ASSUME NEW id \in TaskIds, IsParent(id), IsPending(id)', NEW child \in Children(id)
               PROVE  ~IsRun(child)' /\ child \notin answered'
    BY DEF ParentFirst
  <2>1. CASE IsPending(id)
    BY <2>1, <1>1, <1>3 DEF PlacesInv, ParentFirst
  <2>2. CASE ~IsPending(id)
    <3>1. id \in NewTasks(c)
      BY <2>2, <1>3, <1>5 DEF IsPending
    <3> QED
      BY <3>1, <1>1, <1>3, <1>4, <1>6, ChildrenFacts
  <2> QED
    BY <2>1, <2>2
<1>13. Decoding'
  BY <1>1, <1>3 DEF PlacesInv, Decoding
<1> QED
  BY <1>7, <1>8, <1>9, <1>10, <1>11, <1>12, <1>13 DEF PlacesInv

(* Whatever waits in a queue is removed by a cancellation. *)
LEMMA CancelPlaces ==
    ASSUME ServerTypeOK, PlacesInv, NEW c \in Clients, Cancel(c)
    PROVE  /\ PlacesInv'
           /\ In(queue, NextTask) => In(queue', NextTask)
<1> DEFINE gone == {Task(id) : id \in Ids(c)}
<1>1. /\ queue \in Seq(Requests) /\ deferred \in Seq(TaskIds)
      /\ deferred' = Without(deferred, Ids(c))
      /\ at[c] = "cancel" /\ at'[c] = "done" /\ \A d \in Clients \ {c} : at'[d] = at[d]
      /\ UNCHANGED <<slots, main, answered, received>>
  BY MainFacts DEF Cancel, ServerTypeOK, resultVars, mainVars
<1>2. PICK cancels \in Cancels(c) :
        /\ queue' = cancels \o Without(queue, gone)
        /\ cancels \in Seq(Requests) /\ \A e : In(cancels, e) => e.type = "cancel"
  BY CancelsFacts DEF Cancel
<1>3. /\ Without(queue, gone) \in Seq(Requests)
      /\ \A e : In(Without(queue, gone), e) <=> In(queue, e) /\ e \notin gone
      /\ \A e : Once(queue, e) => Once(Without(queue, gone), e)
  BY <1>1, WithoutIn
<1>4. /\ \A e : In(queue', e) <=> In(cancels, e) \/ (In(queue, e) /\ e \notin gone)
      /\ \A e : Once(cancels, e) /\ Once(queue, e) /\ ~(In(cancels, e) /\ In(queue, e)) => Once(queue', e)
  <2> HIDE DEF gone
  <2> QED
    BY <1>1, <1>2, <1>3, ConcatIn, Zenon
<1>5. /\ \A id : IsDeferred(id)' => IsDeferred(id)
      /\ \A id : Once(deferred, id) => Once(deferred', id)
  BY <1>1, WithoutIn DEF IsDeferred
<1>6. \A id \in TaskIds : /\ IsQueued(id)' => IsQueued(id)
                          /\ Once(queue', Task(id))
  <2> TAKE id \in TaskIds
  <2>1. ~In(cancels, Task(id))
    BY <1>2, TaskFacts
  <2>2. Once(cancels, Task(id))
    BY <2>1 DEF In, Once
  <2>3. Once(queue, Task(id))
    BY DEF PlacesInv, NoDuplicates
  <2> HIDE DEF gone
  <2> QED
    BY <2>1, <2>2, <2>3, <1>4 DEF IsQueued
<1>7. /\ \A id : (InHand(id)' <=> InHand(id)) /\ (IsRun(id)' <=> IsRun(id))
      /\ First' = First /\ Busy' = Busy
  BY <1>1 DEF InHand, IsRun, First, Busy
<1>8. NoneAdded
  <2>1. \A id \in TaskIds : Once(queue', Task(id)) /\ Once(deferred', id)
    BY <1>5, <1>6 DEF PlacesInv, NoDuplicates
  <2>2. \A id \in TaskIds : IsPending(id)' => IsPending(id)
    BY <1>5, <1>6, <1>7 DEF IsPending
  <2>3. \A id \in TaskIds : /\ IsQueued(id)' => ~IsDeferred(id)' /\ ~InHand(id)'
                            /\ IsDeferred(id)' => ~InHand(id)'
    BY <1>5, <1>6, <1>7 DEF PlacesInv, Exclusive
  <2>4. \A id \in answered' : IsRun(id)' => Releasing(id)'
    BY <1>1, <1>7 DEF PlacesInv, AnsweredIsOver, Releasing
  <2>5. \A d \in Clients : at'[d] \in NotYet => at[d] \in NotYet /\ received'[d] = received[d]
    BY <1>1 DEF NotYet
  <2>6. Decoding'
    BY <1>1, <1>7 DEF PlacesInv, Decoding
  <2> QED
    BY <2>1, <2>2, <2>3, <2>4, <2>5, <2>6, <1>1 DEF NoneAdded
<1>9. In(queue, NextTask) => In(queue', NextTask)
  <2>1. NextTask \notin gone
    BY IdFacts, TaskFacts
  <2> HIDE DEF gone
  <2> QED
    BY <2>1, <1>4
<1> QED
  BY <1>8, <1>9, PlacesStep

LEMMA ClientPlaces ==
    ASSUME ServerTypeOK, PlacesInv, NEW c \in Clients, ClientStep(c) \/ Disconnect(c)
    PROVE  PlacesInv'
<1>1. ASSUME UNCHANGED <<queue, deferred, mainVars>>,
             \/ UNCHANGED <<at, received>>
             \/ /\ \E pc : ClientAt(c, pc) /\ (pc \in NotYet => at[c] \in NotYet)
                /\ received' = received
             \/ /\ at[c] = "receive" /\ (ClientAt(c, "stop") \/ UNCHANGED at)
                /\ \A d \in Clients \ {c} : received'[d] = received[d]
      PROVE  PlacesInv'
  <2>1. \A d \in Clients : at'[d] \in NotYet => at[d] \in NotYet /\ received'[d] = received[d]
    <3>1. CASE UNCHANGED <<at, received>>
      BY <3>1
    <3>2. CASE \E pc : ClientAt(c, pc) /\ (pc \in NotYet => at[c] \in NotYet) /\ received' = received
      BY <3>2, MainFacts
    <3>3. CASE /\ at[c] = "receive" /\ (ClientAt(c, "stop") \/ UNCHANGED at)
               /\ \A d \in Clients \ {c} : received'[d] = received[d]
      <4>1. at'[c] \notin NotYet /\ \A d \in Clients \ {c} : at'[d] = at[d]
        <5>1. CASE UNCHANGED at
          BY <3>3, <5>1 DEF NotYet
        <5>2. CASE ClientAt(c, "stop")
          <6>1. at'[c] = "stop" /\ \A d \in Clients \ {c} : at'[d] = at[d]
            BY <5>2, MainFacts
          <6> QED
            BY <6>1 DEF NotYet
        <5> QED
          BY <3>3, <5>1, <5>2
      <4> QED
        BY <4>1, <3>3
    <3> QED
      BY <1>1, <3>1, <3>2, <3>3
  <2>2. UNCHANGED <<queue, deferred, answered, slots, main>>
    BY <1>1 DEF mainVars
  <2> QED
    BY <2>1, <2>2, PlacesQuiet
<1>2. CASE Arrive(c) \/ Awake(c) \/ Register(c)
  BY <1>2, <1>1 DEF Arrive, Awake, Register, NotYet, taskVars, resultVars
<1>3. CASE Post(c) \/ Cancel(c)
  BY <1>3, PostPlaces, CancelPlaces
<1>4. CASE Receive(c)
  <2>1. \A d \in Clients \ {c} : received'[d] = received[d]
    BY <1>4 DEF Receive, ServerTypeOK
  <2>2. at[c] = "receive" /\ (ClientAt(c, "stop") \/ UNCHANGED at) /\ UNCHANGED <<queue, deferred, mainVars>>
    BY <1>4 DEF Receive, taskVars
  <2> QED
    BY <2>1, <2>2, <1>1
<1>5. CASE Stop(c)
  <2>1. \E pc \in {"remove", "done"} : ClientAt(c, pc)
    BY <1>5 DEF Stop
  <2>2. UNCHANGED <<queue, deferred, mainVars, received>>
    BY <1>5 DEF Stop, taskVars
  <2> QED
    BY <2>1, <2>2, <1>1 DEF NotYet
<1>6. CASE Discard(c)
  <2>1. ClientAt(c, "cancel") /\ UNCHANGED <<queue, deferred, mainVars, received>>
    BY <1>6 DEF Discard, taskVars
  <2>2. "cancel" \notin NotYet
    BY DEF NotYet
  <2> QED
    BY <2>1, <2>2, <1>1
<1>7. CASE Disconnect(c)
  BY <1>7, <1>1 DEF Disconnect, NotYet, taskVars
<1> QED
  BY <1>2, <1>3, <1>4, <1>5, <1>6, <1>7 DEF ClientStep

LEMMA HandFacts ==
    ASSUME ServerTypeOK
    PROVE  /\ main.pc = "handle" /\ main.task.type = "task" =>
                main.task.id \in TaskIds /\ InHand(main.task.id)
                /\ \A id \in TaskIds : InHand(id) => id = main.task.id
           /\ main.pc # "handle" \/ main.task.type # "task" => \A id : ~InHand(id)
<1>1. main.pc = "handle" => main.task \in Requests
  BY DEF ServerTypeOK
<1>2. ASSUME main.pc = "handle", main.task.type = "task"
      PROVE  /\ main.task.id \in TaskIds /\ main.task = Task(main.task.id)
             /\ \A id \in TaskIds : InHand(id) => id = main.task.id
  <2>1. main.task.id \in TaskIds
    BY <1>1, <1>2 DEF Requests
  <2>2. main.task = Task(main.task.id)
    BY <1>1, <1>2, <2>1, TaskFacts
  <2>3. \A id \in TaskIds : InHand(id) => id = main.task.id
    BY TaskFacts DEF InHand
  <2> QED
    BY <2>1, <2>2, <2>3
<1>3. ASSUME main.pc # "handle" \/ main.task.type # "task", NEW id
      PROVE  ~InHand(id)
  BY <1>3 DEF InHand, Task
<1> QED
  BY <1>2, <1>3 DEF InHand

(* A task that is a child of one is a child of no other. *)
LEMMA OneParent ==
    ASSUME NEW p \in TaskIds, NEW q \in TaskIds, NEW child \in Children(p), child \in Children(q)
    PROVE  p = q
<1>1. /\ IsParent(p) /\ IsParent(q) /\ Client(p) = Client(q)
  BY ChildrenFacts
<1>2. p = <<Client(p), p[2]>> /\ q = <<Client(q), q[2]>>
  BY TaskFacts
<1> QED
  BY <1>1, <1>2 DEF IsParent

LEMMA TakePlaces ==
    ASSUME ServerTypeOK, PlacesInv, Take
    PROVE  PlacesInv'
<1>1. CASE running /\ queue # <<>>
  <2> DEFINE head == Head(queue)
             rest == Tail(queue)
  <2>1. /\ main.pc = "tasks" /\ main'.pc = "handle" /\ main'.task = head /\ queue' = rest
        /\ UNCHANGED <<deferred, slots, answered, at, received>>
    BY <1>1 DEF Take, ServerTypeOK, resultVars, clientVars
  <2>2. queue \in Seq(Requests)
    BY DEF ServerTypeOK
  <2>3. /\ rest \in Seq(Requests) /\ Kept(rest, queue, DOMAIN queue \ {1})
        /\ 1 \in DOMAIN queue /\ queue[1] = head
    BY <1>1, <2>2, TailKept
  <2> HIDE DEF head, rest
  <2>4. /\ \A e : In(rest, e) <=> \E k \in DOMAIN queue \ {1} : queue[k] = e
        /\ \A e : Once(queue, e) => Once(rest, e)
    BY <2>2, <2>3, KeptIn
  <2>5. /\ \A id : IsQueued(id)' => IsQueued(id)
        /\ \A id \in TaskIds : InHand(id)' => IsQueued(id) /\ ~IsQueued(id)'
    <3>1. \A id : IsQueued(id)' => IsQueued(id)
      BY <2>1, <2>4 DEF IsQueued, In
    <3>2. ASSUME NEW id \in TaskIds, InHand(id)'
          PROVE  IsQueued(id) /\ ~IsQueued(id)'
      <4>1. queue[1] = Task(id)
        BY <2>1, <2>3, <3>2 DEF InHand
      <4>2. Once(queue, Task(id))
        BY DEF PlacesInv, NoDuplicates
      <4> QED
        BY <2>1, <2>3, <2>4, <4>1, <4>2 DEF IsQueued, In, Once
    <3> QED
      BY <3>1, <3>2
  <2>6. \A id : (IsDeferred(id)' <=> IsDeferred(id)) /\ (IsRun(id)' <=> IsRun(id))
    BY <2>1 DEF IsDeferred, IsRun
  <2>7. NoneAdded
    <3>1. \A id \in TaskIds : Once(queue', Task(id)) /\ Once(deferred', id)
      BY <2>1, <2>4 DEF PlacesInv, NoDuplicates
    <3>2. \A id \in TaskIds : IsPending(id)' => IsPending(id)
      BY <2>5, <2>6 DEF IsPending
    <3>3. \A id \in TaskIds : /\ IsQueued(id)' => ~IsDeferred(id)' /\ ~InHand(id)'
                              /\ IsDeferred(id)' => ~InHand(id)'
      BY <2>5, <2>6 DEF PlacesInv, Exclusive
    <3>4. \A id \in answered' : IsRun(id)' => Releasing(id)'
      BY <2>1, <2>6 DEF PlacesInv, AnsweredIsOver
    <3>5. Decoding'
      BY <2>1 DEF Decoding
    <3> QED
      BY <3>1, <3>2, <3>3, <3>4, <3>5, <2>1 DEF NoneAdded
  <2> QED
    BY <2>7, PlacesStep
<1>2. CASE ~(running /\ queue # <<>>)
  <2>1. \E pc \in {"returned", "update"} : MainAt(pc)
    BY <1>2 DEF Take
  <2>2. main'.pc \in {"returned", "update"} /\ main.pc = "tasks"
    BY <2>1, MainFacts DEF Take
  <2>3. UNCHANGED <<queue, deferred, answered, slots, at, received>>
    BY <1>2 DEF Take, clientVars
  <2> QED
    BY <2>2, <2>3, PlacesQuiet
<1> QED
  BY <1>1, <1>2

LEMMA DeferPlaces ==
    ASSUME ServerTypeOK, PlacesInv, Defer
    PROVE  PlacesInv'
<1> DEFINE id == main.task.id
<1>1. /\ id \in TaskIds /\ InHand(id)
      /\ deferred \in Seq(TaskIds) /\ deferred' = Append(deferred, id)
      /\ main.pc = "handle" /\ main'.pc = "tasks"
      /\ UNCHANGED <<queue, slots, answered, at, received>>
  BY MainFacts, HandFacts DEF Defer, ServerTypeOK, resultVars, clientVars
<1> HIDE DEF id
<1>2. \A x : ~InHand(x)'
  BY <1>1 DEF InHand
<1>3. /\ \A x : IsDeferred(x)' <=> IsDeferred(x) \/ x = id
      /\ \A x : Once(deferred, x) /\ ~(IsDeferred(x) /\ x = id) => Once(deferred', x)
  BY <1>1, AppendIn DEF IsDeferred
<1>4. \A x : (IsQueued(x)' <=> IsQueued(x)) /\ (IsRun(x)' <=> IsRun(x))
  BY <1>1 DEF IsQueued, IsRun
<1>5. ~IsQueued(id) /\ ~IsDeferred(id)
  BY <1>1 DEF PlacesInv, Exclusive
<1>6. NoneAdded
  <2>1. \A x \in TaskIds : Once(queue', Task(x)) /\ Once(deferred', x)
    BY <1>1, <1>3, <1>5 DEF PlacesInv, NoDuplicates
  <2>2. \A x \in TaskIds : IsPending(x)' => IsPending(x)
    BY <1>1, <1>2, <1>3, <1>4 DEF IsPending
  <2>3. \A x \in TaskIds : /\ IsQueued(x)' => ~IsDeferred(x)' /\ ~InHand(x)'
                           /\ IsDeferred(x)' => ~InHand(x)'
    BY <1>2, <1>3, <1>4, <1>5 DEF PlacesInv, Exclusive
  <2>4. \A x \in answered' : IsRun(x)' => Releasing(x)'
    BY <1>1, <1>4 DEF PlacesInv, AnsweredIsOver
  <2>5. Decoding'
    BY <1>1 DEF Decoding
  <2> QED
    BY <2>1, <2>2, <2>3, <2>4, <2>5, <1>1 DEF NoneAdded
<1> QED
  BY <1>6, PlacesStep

(* The task in hand is taken up: it and children of it go to idle slots, or *)
(* are over.                                                               *)
TakesUp(id, ss, over) ==
    /\ id \in TaskIds /\ InHand(id)
    /\ ss \subseteq Slots /\ over \subseteq Children(id) \union {id}
    /\ \A t \in ss : slots[t].id = NoTask /\ slots'[t].id \in (Children(id) \union {id}) \ over
    /\ \A t, u \in ss : slots'[t].id = slots'[u].id => t = u
    /\ \A t \in Slots \ ss : slots'[t].id = slots[t].id
    /\ answered' = answered \union over
    /\ UNCHANGED <<queue, deferred, at, received>>
    /\ main'.pc # "handle" /\ Decoding'

LEMMA TakenUpPlaces ==
    ASSUME ServerTypeOK, PlacesInv, NEW id, NEW ss, NEW over, TakesUp(id, ss, over)
    PROVE  PlacesInv'
<1> USE DEF TakesUp
<1>1. main.pc = "handle" /\ \A x \in TaskIds : InHand(x) => x = id
  BY TaskFacts DEF InHand
<1>2. \A x : ~InHand(x)' /\ (IsQueued(x)' <=> IsQueued(x)) /\ (IsDeferred(x)' <=> IsDeferred(x))
  BY DEF InHand, IsQueued, IsDeferred
<1>3. ~IsQueued(id) /\ ~IsDeferred(id) /\ ~IsRun(id) /\ IsPending(id) /\ id \notin answered
  BY <1>1 DEF PlacesInv, Exclusive, AnsweredIsOver, IsPending
<1>4. \A x \in TaskIds : IsPending(x)' => IsPending(x) /\ x # id
  BY <1>2, <1>3 DEF IsPending
<1>5. \A x \in Children(id) : x \in TaskIds /\ x # id /\ ~IsPending(x) /\ ~IsRun(x) /\ x \notin answered
  BY <1>1, <1>3, ChildrenFacts DEF PlacesInv, ChildrenTravel, ParentFirst
<1>6. \A x \in TaskIds : IsRun(x)' => IsRun(x) \/ ((x = id \/ x \in Children(id)) /\ x \notin over)
  BY DEF IsRun
<1>7. NoDuplicates'
  <2>1. ASSUME NEW t \in Slots, NEW u \in Slots, slots'[t].id = slots'[u].id, slots'[t].id # NoTask
        PROVE  t = u
    <3>1. \A v \in Slots \ ss : slots'[v].id # NoTask => slots[v].id \in TaskIds /\ IsRun(slots[v].id)
      BY BusyFacts DEF IsRun, Busy
    <3>2. CASE t \notin ss /\ u \notin ss
      BY <2>1, <3>2 DEF PlacesInv, NoDuplicates
    <3>3. CASE t \in ss /\ u \in ss
      BY <2>1, <3>3, <1>5
    <3>4. CASE t \in ss /\ u \notin ss
      BY <2>1, <3>1, <3>4, <1>3, <1>5
    <3>5. CASE t \notin ss /\ u \in ss
      BY <2>1, <3>1, <3>5, <1>3, <1>5
    <3> QED
      BY <3>2, <3>3, <3>4, <3>5
  <2>2. \A x \in TaskIds : Once(queue', Task(x)) /\ Once(deferred', x)
    BY <1>1 DEF PlacesInv, NoDuplicates
  <2> QED
    BY <2>1, <2>2 DEF NoDuplicates
<1>8. Exclusive'
  <2> SUFFICES ASSUME NEW x \in TaskIds
               PROVE  /\ IsQueued(x)' => ~IsDeferred(x)' /\ ~InHand(x)' /\ ~IsRun(x)'
                      /\ IsDeferred(x)' => ~InHand(x)' /\ ~IsRun(x)'
                      /\ InHand(x)' => ~IsRun(x)'
    BY DEF Exclusive
  <2>1. IsPending(x)' => ~IsRun(x)'
    <3>1. IsPending(x)' => IsPending(x) /\ x # id /\ x \notin Children(id)
      BY <1>4, <1>5
    <3>2. IsPending(x) => ~IsRun(x)
      BY DEF IsPending, PlacesInv, Exclusive
    <3> QED
      BY <3>1, <3>2, <1>6
  <2>2. IsQueued(x) => ~IsDeferred(x)
    BY DEF PlacesInv, Exclusive
  <2> QED
    BY <2>1, <2>2, <1>2 DEF IsPending
<1>9. AnsweredIsOver'
  <2> SUFFICES ASSUME NEW x \in answered'
               PROVE  ~IsPending(x)' /\ ~IsRun(x)'
    BY DEF AnsweredIsOver
  <2>1. CASE x \in answered
    <3>1. x \in TaskIds /\ ~IsPending(x) /\ ~IsRun(x)
      BY <2>1, <1>1 DEF PlacesInv, AnsweredIsOver, ServerTypeOK
    <3> QED
      BY <2>1, <3>1, <1>3, <1>4, <1>5, <1>6
  <2>2. CASE x \in over
    BY <2>2, <1>3, <1>4, <1>5, <1>6
  <2> QED
    BY <2>1, <2>2
<1>10. NotPosted'
  <2> SUFFICES ASSUME NEW c \in Clients, at[c] \in NotYet
               PROVE  /\ received[c] = 0
                      /\ \A x \in Ids(c) : ~IsPending(x)' /\ ~IsRun(x)' /\ x \notin answered'
    BY DEF NotPosted, NotYet
  <2>1. /\ received[c] = 0
        /\ \A x \in Ids(c) : ~IsPending(x) /\ ~IsRun(x) /\ x \notin answered
    BY DEF PlacesInv, NotPosted, NotYet
  <2>2. \A x \in Ids(c) : x \in TaskIds /\ Client(x) = c
    BY IdFacts
  <2>3. \A x \in Ids(c) : x # id /\ x \notin Children(id)
    <3>1. id \notin Ids(c)
      BY <2>1, <1>3
    <3>2. Client(id) # c
      BY <3>1, <1>1, IdFacts
    <3> QED
      BY <3>1, <3>2, <2>2, <1>1, ChildrenFacts
  <2> QED
    BY <2>1, <2>2, <2>3, <1>4, <1>6
<1>11. ChildrenTravel'
  BY <1>4 DEF PlacesInv, ChildrenTravel
<1>12. ParentFirst'
  <2> SUFFICES ASSUME NEW x \in TaskIds, IsParent(x), IsPending(x)', NEW y \in Children(x)
               PROVE  ~IsRun(y)' /\ y \notin answered'
    BY DEF ParentFirst
  <2>1. IsPending(x) /\ x # id /\ ~IsRun(y) /\ y \notin answered
    BY <1>4 DEF PlacesInv, ParentFirst
  <2>2. y \in TaskIds /\ ~IsPending(y)
    BY ChildrenFacts DEF PlacesInv, ChildrenTravel
  <2>3. y # id /\ y \notin Children(id)
    BY <2>1, <2>2, <1>1, <1>3, OneParent
  <2> QED
    BY <2>1, <2>2, <2>3, <1>6
<1> QED
  BY <1>7, <1>8, <1>9, <1>10, <1>11, <1>12 DEF PlacesInv


LEMMA LaunchPlaces ==
    ASSUME ServerTypeOK, PlacesInv, Launch
    PROVE  PlacesInv'
<1>0. PICK id : id = main.task.id
  OBVIOUS
<1>1. /\ id \in TaskIds /\ InHand(id) /\ main'.pc = "tasks"
      /\ UNCHANGED <<queue, deferred, answered, at, received>>
  BY <1>0, MainFacts, HandFacts DEF Launch, taskVars, clientVars
<1>2. PICK ss, s, child : Launches(id, ss, s, child)
  BY <1>0, LaunchIs
<1>3. /\ \A t \in ss : slots[t].id = NoTask /\ t \in Slots
      /\ s \in ss /\ slots'[s].id = id
      /\ \A t \in ss \ {s} : slots'[t].id = child[t] /\ child[t] \in Children(id)
      /\ \A t \in Slots \ ss : slots'[t].id = slots[t].id
      /\ \A t, u \in ss \ {s} : child[t] = child[u] => t = u
  BY <1>2 DEF Launches, Room, Busy, IsInjective
<1>4. \A child2 \in Children(id) : child2 # id
  BY <1>1, ChildrenFacts
<1>5. /\ ss \in SUBSET Slots
      /\ \A t \in ss : slots[t].id = NoTask /\ slots'[t].id \in Children(id) \union {id}
      /\ \A t, u \in ss : slots'[t].id = slots'[u].id => t = u
  BY <1>3, <1>4
<1>6. Decoding' /\ answered' = answered \union {}
  BY <1>1 DEF Decoding
<1>7. TakesUp(id, ss, {})
  BY <1>1, <1>3, <1>5, <1>6 DEF TakesUp
<1> QED
  BY <1>7, TakenUpPlaces

(* A task that is answered while it is in hand, or a child of it, was not   *)
(* answered before.                                                        *)
LEMMA NotAnswered ==
    ASSUME ServerTypeOK, PlacesInv, NEW id \in TaskIds, InHand(id)
    PROVE  id \notin answered /\ \A child \in Children(id) : child \notin answered
BY ChildrenFacts DEF PlacesInv, AnsweredIsOver, ParentFirst, IsPending

LEMMA AnswerPlaces ==
    ASSUME ServerTypeOK, PlacesInv, AnswerAtOnce
    PROVE  PlacesInv'
<1>0. PICK id : id = main.task.id
  OBVIOUS
<1>1. /\ id \in TaskIds /\ InHand(id) /\ main'.pc = "tasks"
      /\ answered' = answered \union {id}
      /\ UNCHANGED <<queue, deferred, slots, at, received>>
  BY <1>0, MainFacts, HandFacts DEF AnswerAtOnce, taskVars, clientVars
<1>2. Decoding'
  BY <1>1 DEF Decoding
<1>3. TakesUp(id, {}, {id})
  BY <1>1, <1>2 DEF TakesUp
<1> QED
  BY <1>3, TakenUpPlaces

LEMMA LaunchFailsPlaces ==
    ASSUME ServerTypeOK, PlacesInv, LaunchFails
    PROVE  PlacesInv'
<1>0. PICK id : id = main.task.id
  OBVIOUS
<1>1. /\ id \in TaskIds /\ InHand(id)
      /\ UNCHANGED <<queue, deferred, at, received>>
  BY <1>0, HandFacts DEF LaunchFails, taskVars, clientVars
<1>2. PICK x, to, child : FailsAfter(id, x, to, child)
  BY <1>0, <1>1, LaunchFailsIs
<1>3. /\ to \in SUBSET Slots
      /\ \A t \in to : /\ slots[t].id = NoTask /\ slots'[t].id = child[t]
                       /\ child[t] \in Children(id) /\ child[t] # x
      /\ \A t \in Slots \ to : slots'[t].id = slots[t].id
      /\ \A t, u \in to : child[t] = child[u] => t = u
  BY <1>2 DEF FailsAfter, Busy, IsInjective
<1>4. Decoding' /\ main'.pc # "handle"
  <2>1. to \subseteq Busy'
    BY <1>1, <1>3, ChildrenFacts, NoTaskAssumption DEF Busy
  <2> QED
    BY <2>1, <1>2 DEF FailsAfter, Decoding
<1>5. answered' = answered \union {x} /\ x \in Children(id) \union {id}
  BY <1>2 DEF FailsAfter
<1>6. TakesUp(id, to, {x})
  BY <1>1, <1>3, <1>4, <1>5 DEF TakesUp
<1> QED
  BY <1>6, TakenUpPlaces

(* A slot is released, and a deferred task taken up for it. *)
LEMMA PopPlaces ==
    ASSUME ServerTypeOK, PlacesInv, NEW s \in Slots, PopDeferred(s),
           slots' = [slots EXCEPT ![s] = Idle],
           UNCHANGED <<answered, at, received>>,
           \A id : ~InHand(id),
           main'.pc \notin {"handle", "release"},
           \A t \in Slots : slots[t].id \in answered => t = s,
           main'.pc \in {"decode", "drop"} => main'.todo \subseteq Busy \ {s},
           main'.pc = "drop" => main'.todo # {}
    PROVE  /\ PlacesInv'
           /\ In(queue, NextTask) => In(queue', NextTask)
<1>1. PICK moved : Moves(moved)
  BY PopDeferredMoves
<1>2. \A id : ~InHand(id)'
  BY DEF InHand
<1>3. \A id \in TaskIds : IsQueued(id)' <=> IsQueued(id) \/ id \in moved
  BY <1>1, TaskFacts DEF Moves, IsQueued
<1>4. \A id \in TaskIds : id \in moved => IsDeferred(id) /\ ~IsQueued(id) /\ ~IsDeferred(id)'
  BY <1>1 DEF Moves, IsDeferred, PlacesInv, Exclusive, NoDuplicates
<1>5. \A id \in TaskIds : IsDeferred(id)' => IsDeferred(id)
  BY <1>1 DEF Moves, IsDeferred
<1>6. \A t \in Slots : slots'[t].id = IF t = s THEN NoTask ELSE slots[t].id
  BY DEF Idle, ServerTypeOK
<1>7. NoneAdded
  <2>1. \A id \in TaskIds : Once(queue', Task(id)) /\ Once(deferred', id)
    <3> TAKE id \in TaskIds
    <3>1. Once(queue, Task(id)) /\ Once(deferred, id)
      BY DEF PlacesInv, NoDuplicates
    <3>2. ~(In(queue, Task(id)) /\ \E new \in moved : Task(id) = Task(new))
      BY <1>4, TaskFacts DEF IsQueued
    <3> QED
      BY <1>1, <3>1, <3>2 DEF Moves
  <2>2. \A id \in TaskIds : IsPending(id)' => IsPending(id)
    BY <1>2, <1>3, <1>4, <1>5 DEF IsPending
  <2>3. \A id \in TaskIds : /\ IsQueued(id)' => ~IsDeferred(id)' /\ ~InHand(id)'
                            /\ IsDeferred(id)' => ~InHand(id)'
    BY <1>2, <1>3, <1>4, <1>5 DEF PlacesInv, Exclusive
  <2>4. \A id \in answered' : ~IsRun(id)'
    BY <1>6, NoTaskAssumption DEF IsRun, ServerTypeOK
  <2>5. Busy' = Busy \ {s}
    BY <1>6 DEF Busy
  <2>6. Decoding'
    BY <2>5 DEF Decoding
  <2> QED
    BY <1>6, <2>1, <2>2, <2>3, <2>4, <2>6 DEF NoneAdded
<1>8. In(queue, NextTask) => In(queue', NextTask)
  BY <1>1 DEF Moves
<1> QED
  BY <1>7, <1>8, PlacesStep

LEMMA HandleCancelPlaces ==
    ASSUME ServerTypeOK, PlacesInv, HandleCancel
    PROVE  PlacesInv'
<1>1. /\ main.pc = "handle" /\ main'.pc = "tasks"
      /\ UNCHANGED <<answered, at, received>>
  BY MainFacts DEF HandleCancel, clientVars
<1>2. \A id : ~InHand(id)
  BY HandFacts DEF HandleCancel
<1>3. CASE \E s \in Slots : slots[s].id = main.task.id
  <2>1. PICK s \in Slots : slots' = [slots EXCEPT ![s] = Idle] /\ PopDeferred(s)
    BY <1>3 DEF HandleCancel
  <2>2. \A t \in Slots : slots[t].id \notin answered
    BY <1>1 DEF PlacesInv, AnsweredIsOver, IsRun
  <2> QED
    BY <1>1, <1>2, <2>1, <2>2, PopPlaces
<1>4. CASE ~\E s \in Slots : slots[s].id = main.task.id
  <2>1. UNCHANGED <<slots, queue, deferred>>
    BY <1>4 DEF HandleCancel
  <2> QED
    BY <1>1, <2>1, PlacesQuiet
<1> QED
  BY <1>3, <1>4

LEMMA ReleasePlaces ==
    ASSUME ServerTypeOK, PlacesInv, Release
    PROVE  /\ PlacesInv'
           /\ In(queue, NextTask) => In(queue', NextTask)
<1>0. PICK f : f = First
  OBVIOUS
<1>1. /\ main.pc = "release" /\ main'.pc = "decode" /\ main'.todo = main.todo \ {f}
      /\ slots' = [slots EXCEPT ![f] = Idle] /\ PopDeferred(f)
      /\ UNCHANGED <<answered, at, received>>
  BY <1>0 DEF Release, ServerTypeOK, clientVars
<1>2. main.todo \subseteq Busy /\ main.todo # {} /\ f \in Slots
  BY <1>0, <1>1, FirstFacts DEF PlacesInv, Decoding, ServerTypeOK
<1>3. \A id : ~InHand(id)
  BY <1>1 DEF InHand
<1>4. \A t \in Slots : slots[t].id \in answered => t = f
  <2> SUFFICES ASSUME NEW t \in Slots, slots[t].id \in answered PROVE t = f
    OBVIOUS
  <2>1. slots[f].id = slots[t].id
    BY <1>0 DEF PlacesInv, AnsweredIsOver, IsRun
  <2>2. slots[t].id # NoTask
    BY NoTaskAssumption DEF ServerTypeOK
  <2> QED
    BY <2>1, <2>2, <1>2 DEF PlacesInv, NoDuplicates
<1> QED
  BY <1>1, <1>2, <1>3, <1>4, PopPlaces

LEMMA DropPlaces ==
    ASSUME ServerTypeOK, PlacesInv, Drop
    PROVE  PlacesInv'
<1>0. PICK f : f = First
  OBVIOUS
<1>1. /\ main.pc = "drop" /\ main'.pc = (IF main.todo = {f} THEN "tasks" ELSE "drop")
      /\ main'.todo = main.todo \ {f}
      /\ slots' = [slots EXCEPT ![f] = Idle] /\ PopDeferred(f)
      /\ UNCHANGED <<answered, at, received>>
  BY <1>0 DEF Drop, ServerTypeOK, clientVars
<1>2. main.todo \subseteq Busy /\ main.todo # {} /\ f \in Slots
  BY <1>0, <1>1, FirstFacts DEF PlacesInv, Decoding, ServerTypeOK
<1>3. \A id : ~InHand(id)
  BY <1>1 DEF InHand
<1>4. \A t \in Slots : slots[t].id \notin answered
  BY <1>1 DEF PlacesInv, AnsweredIsOver, IsRun
<1> QED
  BY <1>1, <1>2, <1>3, <1>4, PopPlaces

LEMMA UpdatePlaces ==
    ASSUME ServerTypeOK, PlacesInv, Update
    PROVE  /\ PlacesInv'
           /\ Busy # {} => In(queue', NextTask)
<1>1. CASE Busy = {}
  <2>1. main.pc = "update" /\ main'.pc = "idle" /\ UNCHANGED <<queue, deferred, slots, answered, at, received>>
    BY <1>1, MainFacts DEF Update, clientVars
  <2> QED
    BY <1>1, <2>1, PlacesQuiet
<1>2. CASE Busy # {}
  <2>1. /\ main.pc = "update" /\ main'.pc = "decode" /\ main'.todo = Busy
        /\ queue \in Seq(Requests) /\ queue' = Append(queue, NextTask) /\ NextTask \in Requests
        /\ UNCHANGED <<deferred, slots, answered, at, received>>
    BY <1>2 DEF Update, ServerTypeOK, NextTask, Requests, clientVars
  <2>2. /\ \A e : In(queue', e) <=> In(queue, e) \/ e = NextTask
        /\ \A e : Once(queue, e) /\ ~(In(queue, e) /\ e = NextTask) => Once(queue', e)
    BY <2>1, AppendIn
  <2>3. \A id \in TaskIds : (IsQueued(id)' <=> IsQueued(id)) /\ Once(queue', Task(id))
    BY <2>2, TaskFacts DEF IsQueued, PlacesInv, NoDuplicates
  <2>4. \A id : /\ ~InHand(id)' /\ (IsDeferred(id)' <=> IsDeferred(id)) /\ (IsRun(id)' <=> IsRun(id))
    BY <2>1 DEF InHand, IsDeferred, IsRun
  <2>5. NoneAdded
    <3>1. \A id \in TaskIds : Once(queue', Task(id)) /\ Once(deferred', id)
      BY <2>1, <2>3 DEF PlacesInv, NoDuplicates
    <3>2. \A id \in TaskIds : IsPending(id)' => IsPending(id)
      BY <2>3, <2>4 DEF IsPending
    <3>3. \A id \in TaskIds : /\ IsQueued(id)' => ~IsDeferred(id)' /\ ~InHand(id)'
                              /\ IsDeferred(id)' => ~InHand(id)'
      BY <2>3, <2>4 DEF PlacesInv, Exclusive
    <3>4. \A id \in answered' : IsRun(id)' => Releasing(id)'
      BY <2>1, <2>4 DEF PlacesInv, AnsweredIsOver
    <3>5. Decoding'
      BY <2>1 DEF Decoding, Busy
    <3> QED
      BY <3>1, <3>2, <3>3, <3>4, <3>5, <2>1 DEF NoneAdded
  <2> QED
    BY <2>2, <2>5, PlacesStep
<1> QED
  BY <1>1, <1>2

LEMMA FirstIsRun ==
    ASSUME ServerTypeOK, PlacesInv, main.pc \in {"decode", "release"}, main.todo # {}
    PROVE  First \in Slots /\ slots[First].id \in TaskIds /\ IsRun(slots[First].id)
<1>1. First \in Busy /\ First \in Slots
  BY FirstFacts DEF PlacesInv, Decoding, ServerTypeOK
<1> QED
  BY <1>1, BusyFacts DEF IsRun

LEMMA FinishPlaces ==
    ASSUME ServerTypeOK, PlacesInv, Finish
    PROVE  /\ PlacesInv'
           /\ slots[First].id \in TaskIds \ answered
<1>0. PICK a : a = slots[First].id
  OBVIOUS
<1>1. /\ main.pc = "decode" /\ main'.pc = "release" /\ main.todo # {} /\ main'.todo = main.todo
      /\ answered' = answered \union {a}
      /\ UNCHANGED <<queue, deferred, at, received>>
      /\ slots' = slots \/ slots' = Started(a)
  BY <1>0, MainFacts DEF Finish, taskVars, clientVars
<1>2. First \in Slots /\ a \in TaskIds /\ IsRun(a)
  BY <1>0, <1>1, FirstIsRun
<1>3. \A s \in Slots : slots'[s].id = slots[s].id
  BY <1>1, <1>2, StartedTypes
<1>4. \A id : /\ ~InHand(id) /\ ~InHand(id)'
              /\ (IsQueued(id)' <=> IsQueued(id)) /\ (IsDeferred(id)' <=> IsDeferred(id))
              /\ (IsRun(id)' <=> IsRun(id))
  BY <1>1, <1>3 DEF InHand, IsQueued, IsDeferred, IsRun
<1>5. /\ ~IsPending(a) /\ at[Client(a)] \notin NotYet
      /\ \A parent \in TaskIds : a \in Children(parent) => ~IsPending(parent)
  <2>1. ~IsPending(a)
    BY <1>2 DEF PlacesInv, Exclusive, IsPending
  <2>2. at[Client(a)] \notin NotYet
    BY <1>2, TaskFacts DEF PlacesInv, NotPosted, NotYet
  <2>3. \A parent \in TaskIds : a \in Children(parent) => ~IsPending(parent)
    BY <1>2, ChildrenFacts DEF PlacesInv, ParentFirst
  <2> QED
    BY <2>1, <2>2, <2>3
<1>6. \A id : IsPending(id)' <=> IsPending(id)
  BY <1>4 DEF IsPending
<1>7. a \notin answered
  BY <1>1, <1>2 DEF PlacesInv, AnsweredIsOver
<1>8. First' = First /\ Busy' = Busy
  BY <1>1, <1>3 DEF First, Busy
<1>9. NoneAdded
  <2>1. \A id \in TaskIds : Once(queue', Task(id)) /\ Once(deferred', id)
    BY <1>1 DEF PlacesInv, NoDuplicates
  <2>2. \A id \in TaskIds : /\ IsQueued(id)' => ~IsDeferred(id)' /\ ~InHand(id)'
                            /\ IsDeferred(id)' => ~InHand(id)'
    BY <1>4 DEF PlacesInv, Exclusive
  <2>3. \A id \in answered' : IsRun(id)' => Releasing(id)'
    <3> SUFFICES ASSUME NEW id \in answered', IsRun(id)' PROVE Releasing(id)'
      OBVIOUS
    <3>1. id \notin answered
      BY <1>1, <1>4 DEF PlacesInv, AnsweredIsOver
    <3>2. id = a
      BY <3>1, <1>1
    <3> QED
      BY <3>2, <1>0, <1>1, <1>2, <1>3, <1>8 DEF Releasing
  <2>4. Decoding'
    BY <1>0, <1>1, <1>2, <1>3, <1>8 DEF PlacesInv, Decoding
  <2> QED
    BY <2>1, <2>2, <2>3, <2>4, <1>1, <1>2, <1>3, <1>5, <1>6 DEF NoneAdded
<1> QED
  BY <1>0, <1>2, <1>7, <1>9, PlacesStep

LEMMA MainPlaces ==
    ASSUME ServerTypeOK, PlacesInv, MainStep \/ FallAsleep
    PROVE  PlacesInv'
<1>1. CASE Take \/ Defer \/ Launch \/ AnswerAtOnce \/ LaunchFails \/ HandleCancel
  BY <1>1, TakePlaces, DeferPlaces, LaunchPlaces, AnswerPlaces, LaunchFailsPlaces, HandleCancelPlaces
<1>2. CASE Update \/ Finish \/ Release \/ Drop
  BY <1>2, UpdatePlaces, FinishPlaces, ReleasePlaces, DropPlaces
<1>3. CASE HandleNext
  <2>1. main.pc = "handle" /\ main'.pc = "tasks" /\ UNCHANGED <<queue, deferred, slots, answered, at, received>>
    BY <1>3, MainFacts DEF HandleNext, taskVars, clientVars
  <2> QED
    BY <2>1, PlacesQuiet
<1>4. CASE ChildWaits
  <2>1. /\ main.pc = "decode" /\ main'.pc = "decode" /\ main'.todo \subseteq main.todo
        /\ UNCHANGED <<queue, deferred, slots, answered, at, received>>
    BY <1>4, MainFacts DEF ChildWaits, taskVars, clientVars
  <2> QED
    BY <2>1, PlacesQuiet
<1>5. CASE Partial
  <2>1. /\ main.pc = "decode" /\ main.todo # {} /\ main'.pc = "decode" /\ main'.todo \subseteq main.todo
        /\ UNCHANGED <<queue, deferred, answered, at, received>>
    BY <1>5, MainFacts DEF Partial, taskVars, clientVars
  <2>2. First \in Slots /\ slots[First].id \in TaskIds
    BY <2>1, FirstIsRun
  <2>3. \A s \in Slots : slots'[s].id = slots[s].id
    <3> DEFINE new == Started(slots[First].id)
    <3>1. new \in [Slots -> Processing] /\ \A s \in Slots : new[s].id = slots[s].id
      BY <2>2, StartedTypes
    <3>2. slots' = [new EXCEPT ![First].left = @ - 1]
      BY <1>5 DEF Partial
    <3> HIDE DEF new
    <3>3. \A s \in Slots : slots'[s].id = new[s].id
      BY <2>2, <3>1, <3>2 DEF Processing, Idle
    <3> QED
      BY <3>1, <3>3
  <2> QED
    BY <2>1, <2>3, PlacesQuiet
<1>6. CASE Updated
  <2>1. main.pc = "decode" /\ main'.pc = "idle" /\ UNCHANGED <<queue, deferred, slots, answered, at, received>>
    BY <1>6, MainFacts DEF Updated, taskVars, clientVars
  <2> QED
    BY <2>1, PlacesQuiet
<1>7. CASE WaitTask \/ TaskArrived \/ MainTimeout \/ WakeUp \/ SleepOn \/ FallAsleep
  BY <1>7, RestPlaces DEF Rests
<1> QED
  BY <1>1, <1>2, <1>3, <1>4, <1>5, <1>6, <1>7 DEF MainStep

-----------------------------------------------------------------------------
(* What was sent. *)

Listening == {"post", "receive", "stop"}

LEMMA CountFacts ==
    ASSUME NEW c \in Clients
    PROVE  /\ IsFiniteSet(answered \intersect Ids(c)) /\ IsFiniteSet(LastOf(c))
           /\ Cardinality(answered \intersect Ids(c)) \in Nat /\ Cardinality(LastOf(c)) \in Nat
           /\ Cardinality(answered \intersect Ids(c)) <= Tasks[c]
           /\ Cardinality(answered \intersect Ids(c)) = Tasks[c] => Ids(c) \subseteq answered
           /\ Cardinality(LastOf(c)) = 0 => LastOf(c) = {}
<1>1. IsFiniteSet(Ids(c)) /\ Cardinality(Ids(c)) = Tasks[c]
  BY IdFacts
<1>2. answered \intersect Ids(c) \in SUBSET Ids(c) /\ LastOf(c) \in SUBSET Ids(c)
  BY DEF LastOf
<1>3. IsFiniteSet(answered \intersect Ids(c)) /\ IsFiniteSet(LastOf(c))
  BY <1>1, <1>2, FS_Subset
<1>4. /\ Cardinality(answered \intersect Ids(c)) <= Tasks[c]
      /\ Cardinality(answered \intersect Ids(c)) = Tasks[c] => Ids(c) = answered \intersect Ids(c)
  BY <1>1, <1>2, FS_Subset
<1>5. Cardinality(LastOf(c)) = 0 => LastOf(c) = {}
  BY <1>3, FS_EmptySet
<1> QED
  BY <1>3, <1>4, <1>5, FS_CardinalityType

LEMMA ResultOwners ==
    ASSUME ServerTypeOK
    PROVE  \A i \in DOMAIN results : results[i].id \in TaskIds /\ Client(results[i].id) \in Clients
<1>1. \A i \in DOMAIN results : results[i] \in Results
  BY LenProperties, ElementOfSeq DEF ServerTypeOK
<1>2. \A i \in DOMAIN results : results[i].id \in TaskIds
  BY <1>1 DEF Results
<1> QED
  BY <1>2, TaskFacts

(* Neither results nor who listens changes. *)
LEMMA ResultsQuiet ==
    ASSUME ServerTypeOK, ResultsInv, UNCHANGED <<waiting, results, received, answered>>,
           \A c \in Clients :
              /\ at'[c] \in Listening <=> at[c] \in Listening
              /\ at'[c] = "receive" => at[c] = "receive"
              /\ at'[c] = "stop" => at[c] \in {"receive", "stop"}
              /\ at[c] = "remove" => at'[c] = "remove"
    PROVE  ResultsInv'
<1>1. Registered' /\ LastOnce' /\ LastComesLast'
  BY DEF ResultsInv, Registered, LastOnce, LastComesLast, Listening, IsLast
<1>a. Expected'
  BY ResultOwners DEF ResultsInv, Expected, IsLast
<1>2. \A c : LastOf(c)' = LastOf(c)
  BY DEF LastOf, LastIn, IsLast
<1>3. Counted'
  <2> SUFFICES ASSUME NEW c \in Clients
               PROVE  LET sent == Cardinality(answered \intersect Ids(c))
                          known == received[c] + Cardinality(LastOf(c))
                      IN  /\ at'[c] = "receive" => sent = known
                          /\ at'[c] = "stop" => known <= sent
    BY <1>2 DEF Counted
  <2>1. Cardinality(answered \intersect Ids(c)) \in Nat
    BY CountFacts
  <2> QED
    BY <2>1 DEF ResultsInv, Counted
<1> QED
  BY <1>1, <1>a, <1>3 DEF ResultsInv

(* Some results are taken away, but no last one whose partial ones stay. *)
LEMMA ResultsThinned ==
    ASSUME ServerTypeOK, ResultsInv, UNCHANGED <<answered, waiting>>,
           results' \in Seq(Results),
           NEW keep \in SUBSET DOMAIN results, Kept(results', results, keep),
           \A k \in keep, l \in DOMAIN results :
               k < l /\ results[k].id = results[l].id /\ IsLast(results[l]) => l \in keep
    PROVE  /\ LastOnce' /\ LastComesLast'
           /\ \A i \in DOMAIN results' : \E k \in keep : results'[i] = results[k]
           /\ \A id : LastIn(id)' <=> \E k \in keep : results[k].id = id /\ IsLast(results[k])
<1> DEFINE s == results
           t == results'
<1>1. PICK f \in [DOMAIN t -> keep] :
        /\ \A i, j \in DOMAIN t : i < j => f[i] < f[j]
        /\ \A i \in DOMAIN t : t[i] = s[f[i]]
        /\ \A k \in keep : \E i \in DOMAIN t : f[i] = k
  BY DEF Kept
<1>2. DOMAIN t \subseteq Int /\ DOMAIN s \subseteq Int
  BY LenProperties DEF ServerTypeOK
<1>3. \A i, j \in DOMAIN t : f[i] < f[j] => i < j
  <2> SUFFICES ASSUME NEW i \in DOMAIN t, NEW j \in DOMAIN t, f[i] < f[j], ~(i < j) PROVE FALSE
    OBVIOUS
  <2>1. i = j \/ j < i
    BY <1>2
  <2>2. f[i] \in Int /\ f[j] \in Int
    BY <1>2
  <2>3. f[j] < f[i] \/ f[i] = f[j]
    BY <1>1, <2>1
  <2> QED
    BY <2>2, <2>3
<1>4. LastOnce'
  <2> SUFFICES ASSUME NEW i \in DOMAIN t, NEW j \in DOMAIN t,
                      IsLast(t[i]), IsLast(t[j]), t[i].id = t[j].id
               PROVE  i = j
    BY DEF LastOnce, IsLast
  <2>1. f[i] = f[j] /\ f[i] \in Int
    BY <1>1, <1>2 DEF ResultsInv, LastOnce
  <2>2. ~(i < j) /\ ~(j < i)
    BY <1>1, <2>1
  <2> QED
    BY <2>2, <1>2
<1>5. LastComesLast'
  <2> SUFFICES ASSUME NEW i \in DOMAIN t, t[i].id \in answered \intersect waiting, ~IsLast(t[i])
               PROVE  \E j \in DOMAIN t : i < j /\ t[j].id = t[i].id /\ IsLast(t[j])
    BY DEF LastComesLast, IsLast
  <2>1. PICK l \in DOMAIN s : f[i] < l /\ s[l].id = s[f[i]].id /\ IsLast(s[l])
    BY <1>1 DEF ResultsInv, LastComesLast
  <2>2. l \in keep
    BY <2>1, <1>1
  <2>3. PICK j \in DOMAIN t : f[j] = l
    BY <2>2, <1>1
  <2> QED
    BY <2>1, <2>3, <1>1, <1>3
<1>6. \A i \in DOMAIN t : \E k \in keep : t[i] = s[k]
  BY <1>1
<1>7. \A id : LastIn(id)' <=> \E k \in keep : s[k].id = id /\ IsLast(s[k])
  BY <1>1 DEF LastIn, IsLast
<1> QED
  BY <1>4, <1>5, <1>6, <1>7

LEMMA ReceiveResults ==
    ASSUME ServerTypeOK, ResultsInv, NEW c \in Clients, Receive(c)
    PROVE  ResultsInv'
<1>1. PICK i \in DOMAIN results :
        /\ Client(results[i].id) = c
        /\ \A j \in 1 .. i - 1 : Client(results[j].id) # c
        /\ results' = RemoveAt(results, i)
        /\ received' = IF results[i].kind = "final" THEN [received EXCEPT ![c] = @ + 1] ELSE received
        /\ IF results[i].kind = "error" \/ received'[c] = Tasks[c] THEN ClientAt(c, "stop") ELSE UNCHANGED at
  BY DEF Receive
<1>2. at[c] = "receive" /\ UNCHANGED <<waiting, answered>>
  BY DEF Receive, mainVars
<1>3. results \in Seq(Results) /\ DOMAIN results = 1 .. Len(results) /\ Len(results) \in Nat /\ results[i] \in Results
  BY <1>1, LenProperties, ElementOfSeq DEF ServerTypeOK
<1>0. PICK x : x = results[i].id
  OBVIOUS
<1> DEFINE keep == DOMAIN results \ {i}
<1>4. results' \in Seq(Results) /\ Kept(results', results, keep)
  BY <1>1, <1>3, RemoveAtKept
<1>5. \A k \in keep, l \in DOMAIN results :
          k < l /\ results[k].id = results[l].id /\ IsLast(results[l]) => l \in keep
  <2> SUFFICES ASSUME NEW k \in keep, k < i, results[k].id = results[i].id PROVE FALSE
    OBVIOUS
  <2>1. k \in 1 .. i - 1
    BY <1>3
  <2> QED
    BY <2>1, <1>1
<1>6. /\ LastOnce' /\ LastComesLast'
      /\ \A j \in DOMAIN results' : \E k \in keep : results'[j] = results[k]
      /\ \A id : LastIn(id)' <=> \E k \in keep : results[k].id = id /\ IsLast(results[k])
  BY <1>2, <1>4, <1>5, ResultsThinned
<1>7. /\ at'[c] \in {"receive", "stop"}
      /\ \A d \in Clients \ {c} : at'[d] = at[d] /\ received'[d] = received[d]
  BY <1>1, <1>2, MainFacts DEF ServerTypeOK
<1>8. Expected'
  BY <1>2, <1>6, <1>7, ResultOwners DEF Expected, ResultsInv, IsLast
<1>9. Registered'
  BY <1>2, <1>7 DEF ResultsInv, Registered
<1>10. x \in TaskIds /\ x \in Ids(c) /\ results[i].kind \in {"partial", "final", "error"}
  BY <1>0, <1>1, <1>3, IdFacts DEF Results
<1>11. \A id : id # x => (LastIn(id)' <=> LastIn(id))
  BY <1>0, <1>6 DEF LastIn
<1>12. \A d \in Clients \ {c} : LastOf(d)' = LastOf(d)
  BY <1>10, <1>11, IdFacts DEF LastOf
<1>13. CASE IsLast(results[i])
  <2>1. LastIn(x) /\ ~LastIn(x)'
    BY <1>0, <1>6, <1>13 DEF LastIn, ResultsInv, LastOnce
  <2>2. LastOf(c)' = LastOf(c) \ {x} /\ x \in LastOf(c)
    BY <2>1, <1>10, <1>11 DEF LastOf
  <2>3. Cardinality(LastOf(c)') = Cardinality(LastOf(c)) - 1
    BY <2>2, CountFacts, FS_RemoveElement
  <2>4. received[c] \in Nat /\ received'[c] = IF results[i].kind = "final" THEN received[c] + 1 ELSE received[c]
    BY <1>1 DEF ServerTypeOK
  <2>5. results[i].kind # "final" => at'[c] = "stop"
    BY <1>1, <1>10, <1>13, MainFacts DEF IsLast
  <2>6. Counted'
    <3> SUFFICES ASSUME NEW d \in Clients
                 PROVE  LET sent == Cardinality(answered \intersect Ids(d))
                            known == received'[d] + Cardinality(LastOf(d)')
                        IN  /\ at'[d] = "receive" => sent = known
                            /\ at'[d] = "stop" => known <= sent
      BY <1>2 DEF Counted
    <3>1. CASE d = c
      <4>1. Cardinality(answered \intersect Ids(c)) = received[c] + Cardinality(LastOf(c))
        BY <1>2 DEF ResultsInv, Counted
      <4>2. Cardinality(LastOf(c)) \in Nat /\ Cardinality(answered \intersect Ids(c)) \in Nat
        BY CountFacts
      <4> QED
        BY <3>1, <4>1, <4>2, <2>3, <2>4, <2>5
    <3>2. CASE d # c
      BY <3>2, <1>7, <1>12 DEF ResultsInv, Counted
    <3> QED
      BY <3>1, <3>2
  <2> QED
    BY <2>6, <1>6, <1>8, <1>9 DEF ResultsInv
<1>14. CASE ~IsLast(results[i])
  <2>1. LastIn(x)' <=> LastIn(x)
    BY <1>0, <1>6, <1>14 DEF LastIn
  <2>2. LastOf(c)' = LastOf(c)
    BY <2>1, <1>11 DEF LastOf
  <2>3. received' = received
    BY <1>1, <1>14 DEF IsLast
  <2>4. Counted'
    <3> SUFFICES ASSUME NEW d \in Clients
                 PROVE  LET sent == Cardinality(answered \intersect Ids(d))
                            known == received[d] + Cardinality(LastOf(d))
                        IN  /\ at'[d] = "receive" => sent = known
                            /\ at'[d] = "stop" => known <= sent
      BY <1>2, <1>12, <2>2, <2>3 DEF Counted
    <3>1. Cardinality(answered \intersect Ids(d)) \in Nat
      BY CountFacts
    <3>2. CASE d = c
      BY <3>1, <3>2, <1>2 DEF ResultsInv, Counted
    <3>3. CASE d # c
      BY <3>3, <1>7 DEF ResultsInv, Counted
    <3> QED
      BY <3>2, <3>3
  <2> QED
    BY <2>4, <1>6, <1>8, <1>9 DEF ResultsInv
<1> QED
  BY <1>13, <1>14

(* Nothing is left of the tasks of a client that has received everything. *)
LEMMA AllReceived ==
    ASSUME ServerTypeOK, ResultsInv, NEW c \in Clients, at[c] = "stop", ~(received[c] < Tasks[c])
    PROVE  \A i \in DOMAIN results : Client(results[i].id) # c
<1>1. /\ received[c] \in Nat /\ Tasks[c] \in Nat
      /\ received[c] + Cardinality(LastOf(c)) <= Cardinality(answered \intersect Ids(c))
  BY IdFacts DEF ServerTypeOK, ResultsInv, Counted
<1>2. LastOf(c) = {} /\ Ids(c) \subseteq answered
  BY <1>1, CountFacts
<1> SUFFICES ASSUME NEW i \in DOMAIN results, Client(results[i].id) = c PROVE FALSE
  OBVIOUS
<1>3. results[i].id \in Ids(c)
  BY ResultOwners, IdFacts
<1>4. LastIn(results[i].id)
  BY <1>2, <1>3 DEF ResultsInv, Registered, LastComesLast, LastIn
<1> QED
  BY <1>2, <1>3, <1>4 DEF LastOf

LEMMA StopResults ==
    ASSUME ServerTypeOK, ResultsInv, NEW c \in Clients, Stop(c)
    PROVE  ResultsInv'
<1>1. /\ at[c] = "stop" /\ at'[c] = (IF received[c] < Tasks[c] THEN "remove" ELSE "done")
      /\ \A d \in Clients \ {c} : at'[d] = at[d]
      /\ waiting' = waiting \ Ids(c)
      /\ UNCHANGED <<results, received, answered>>
  BY MainFacts DEF Stop, mainVars
<1>2. LastOnce' /\ LastComesLast'
  BY <1>1 DEF ResultsInv, LastOnce, LastComesLast, IsLast
<1>3. Expected'
  <2> SUFFICES ASSUME NEW i \in DOMAIN results
               PROVE  results[i].id \in waiting' \/ at'[Client(results[i].id)] = "remove"
    BY <1>1 DEF Expected, ResultsInv, IsLast
  <2>1. results[i].id \in TaskIds /\ Client(results[i].id) \in Clients
    BY ResultOwners
  <2>2. CASE Client(results[i].id) = c
    BY <2>2, <1>1, AllReceived
  <2>3. CASE Client(results[i].id) # c
    BY <2>1, <2>3, <1>1, IdFacts DEF ResultsInv, Expected
  <2> QED
    BY <2>2, <2>3
<1>4. Registered'
  <2>1. \A d \in Clients \ {c} : Ids(d) \intersect Ids(c) = {}
    BY IdFacts
  <2> QED
    BY <1>1, <2>1 DEF ResultsInv, Registered
<1>5. \A d \in Clients : LastOf(d)' = LastOf(d)
  BY <1>1 DEF LastOf, LastIn, IsLast
<1>6. Counted'
  BY <1>1, <1>5 DEF ResultsInv, Counted
<1> QED
  BY <1>2, <1>3, <1>4, <1>6 DEF ResultsInv

LEMMA DiscardResults ==
    ASSUME ServerTypeOK, ResultsInv, NEW c \in Clients, Discard(c)
    PROVE  ResultsInv'
<1>1. /\ at[c] = "remove" /\ at'[c] = "cancel"
      /\ \A d \in Clients \ {c} : at'[d] = at[d]
      /\ UNCHANGED <<waiting, received, answered>>
  BY MainFacts DEF Discard, mainVars
<1> DEFINE keep == {i \in DOMAIN results : Client(results[i].id) # c}
<1>2. keep \in SUBSET DOMAIN results /\ results' \in Seq(Results) /\ Kept(results', results, keep)
  <2>1. results \in Seq(Results) /\ keep \in SUBSET DOMAIN results
    BY DEF ServerTypeOK
  <2> QED
    BY <2>1, ThinnedKept DEF Discard
<1>3. /\ LastOnce' /\ LastComesLast'
      /\ \A j \in DOMAIN results' : \E k \in keep : results'[j] = results[k]
      /\ \A id : LastIn(id)' <=> \E k \in keep : results[k].id = id /\ IsLast(results[k])
  BY <1>1, <1>2, ResultsThinned
<1>4. Expected'
  <2>1. \A k \in keep : /\ results[k].id \in waiting \/ at'[Client(results[k].id)] = "remove"
                        /\ IsLast(results[k]) => results[k].id \in answered
    BY <1>1, ResultOwners DEF ResultsInv, Expected
  <2> QED
    BY <2>1, <1>1, <1>3 DEF Expected, IsLast
<1>5. Registered'
  BY <1>1 DEF ResultsInv, Registered
<1>6. \A d \in Clients \ {c} : LastOf(d)' = LastOf(d)
  BY <1>3, IdFacts DEF LastOf, LastIn
<1>7. Counted'
  BY <1>1, <1>6 DEF ResultsInv, Counted
<1> QED
  BY <1>3, <1>4, <1>5, <1>7 DEF ResultsInv

LEMMA ClientResults ==
    ASSUME ServerTypeOK, PlacesInv, ResultsInv, NEW c \in Clients, ClientStep(c) \/ Disconnect(c)
    PROVE  ResultsInv'
<1>1. ASSUME UNCHANGED <<waiting, results, received, answered>>,
             \/ UNCHANGED at
             \/ \E pc : /\ ClientAt(c, pc)
                        /\ pc \in Listening <=> at[c] \in Listening
                        /\ pc # "receive" /\ (pc = "stop" => at[c] = "receive")
                        /\ at[c] # "remove"
      PROVE  ResultsInv'
  <2>1. \A d \in Clients : /\ at'[d] \in Listening <=> at[d] \in Listening
                           /\ at'[d] = "receive" => at[d] = "receive"
                           /\ at'[d] = "stop" => at[d] \in {"receive", "stop"}
                           /\ at[d] = "remove" => at'[d] = "remove"
    <3>1. CASE UNCHANGED at
      BY <3>1
    <3>2. CASE ~UNCHANGED at
      <4>1. PICK pc : /\ ClientAt(c, pc)
                      /\ pc \in Listening <=> at[c] \in Listening
                      /\ pc # "receive" /\ (pc = "stop" => at[c] = "receive")
                      /\ at[c] # "remove"
        BY <1>1, <3>2
      <4>2. at'[c] = pc /\ \A d \in Clients \ {c} : at'[d] = at[d]
        BY <4>1, MainFacts
      <4> QED
        BY <4>1, <4>2
    <3> QED
      BY <3>1, <3>2
  <2> QED
    BY <1>1, <2>1, ResultsQuiet
<1>2. CASE Arrive(c)
  <2>1. at[c] = "new" /\ \E pc \in {"awake", "waits awake"} : ClientAt(c, pc)
    BY <1>2 DEF Arrive
  <2> QED
    BY <1>1, <1>2, <2>1 DEF Arrive, resultVars, mainVars, Listening
<1>3. CASE Awake(c)
  <2>1. at[c] = "waits awake" /\ (UNCHANGED at \/ ClientAt(c, "awake"))
    BY <1>3 DEF Awake
  <2>2. UNCHANGED <<waiting, results, received, answered>>
    BY <1>3 DEF Awake, resultVars, mainVars
  <2>3. ("awake" \in Listening <=> at[c] \in Listening) /\ at[c] # "remove"
    BY <2>1 DEF Listening
  <2>4. CASE UNCHANGED at
    BY <1>1, <2>2, <2>4
  <2>5. CASE ClientAt(c, "awake")
    BY <1>1, <2>2, <2>3, <2>5
  <2> QED
    BY <2>1, <2>4, <2>5
<1>4. CASE Register(c)
  <2>1. /\ at[c] = "awake" /\ at'[c] = "post" /\ \A d \in Clients \ {c} : at'[d] = at[d]
        /\ waiting' = waiting \union Ids(c)
        /\ UNCHANGED <<results, received, answered>>
    BY <1>4, MainFacts DEF Register, mainVars
  <2>2. \A d \in Clients \ {c} : Ids(d) \intersect Ids(c) = {}
    BY IdFacts
  <2>3. Registered'
    BY <2>1, <2>2 DEF ResultsInv, Registered
  <2>a. \A i \in DOMAIN results : results[i].id \notin Ids(c) /\ results[i].id \in waiting' => results[i].id \in waiting
    BY <2>1, ResultOwners DEF ResultsInv
  <2>b. \A i \in DOMAIN results : results[i].id \notin Ids(c)
    BY <2>1, ResultOwners, IdFacts DEF ResultsInv, Registered, Expected
  <2>4. Expected' /\ LastOnce' /\ LastComesLast'
    <3>1. Expected'
      BY <2>1, ResultOwners DEF ResultsInv, Expected, IsLast
    <3> QED
      BY <2>1, <2>a, <2>b, <3>1 DEF ResultsInv, LastOnce, LastComesLast, IsLast
  <2>5. \A d : LastOf(d)' = LastOf(d)
    BY <2>1 DEF LastOf, LastIn, IsLast
  <2>6. Counted'
    BY <2>1, <2>5 DEF ResultsInv, Counted
  <2> QED
    BY <2>3, <2>4, <2>6 DEF ResultsInv
<1>5. CASE Post(c)
  <2>1. /\ at[c] = "post" /\ at'[c] = "receive" /\ \A d \in Clients \ {c} : at'[d] = at[d]
        /\ UNCHANGED <<waiting, results, received, answered>>
    BY <1>5, MainFacts DEF Post, resultVars, mainVars
  <2>2. Registered' /\ Expected' /\ LastOnce' /\ LastComesLast'
    <3>1. Expected'
      BY <2>1, ResultOwners DEF ResultsInv, Expected, IsLast
    <3> QED
      BY <2>1, <3>1 DEF ResultsInv, Registered, LastOnce, LastComesLast, IsLast
  <2>3. \A d : LastOf(d)' = LastOf(d)
    BY <2>1 DEF LastOf, LastIn, IsLast
  <2>4. received[c] = 0 /\ answered \intersect Ids(c) = {} /\ LastOf(c) = {}
    <3>1. received[c] = 0 /\ \A id \in Ids(c) : id \notin answered
      BY <2>1 DEF PlacesInv, NotPosted
    <3> QED
      BY <3>1 DEF LastOf, LastIn, ResultsInv, Expected
  <2>5. Cardinality(answered \intersect Ids(c)) = received[c] + Cardinality(LastOf(c))
    BY <2>4, FS_EmptySet
  <2>6. Counted'
    BY <2>1, <2>3, <2>5 DEF ResultsInv, Counted
  <2> QED
    BY <2>2, <2>6 DEF ResultsInv
<1>6. CASE Receive(c)
  BY <1>6, ReceiveResults
<1>7. CASE Stop(c)
  BY <1>7, StopResults
<1>8. CASE Cancel(c)
  BY <1>1, <1>8 DEF Cancel, resultVars, mainVars, Listening
<1>9. CASE Disconnect(c)
  BY <1>1, <1>9 DEF Disconnect, resultVars, mainVars, Listening
<1>10. CASE Discard(c)
  BY <1>10, DiscardResults
<1> QED
  BY <1>2, <1>3, <1>4, <1>5, <1>6, <1>7, <1>8, <1>9, <1>10 DEF ClientStep

LEMMA SendLast ==
    ASSUME ServerTypeOK, ResultsInv, NEW x \in TaskIds, x \notin answered,
           NEW kind \in {"final", "error"}, Send(x, kind),
           answered' = answered \union {x}, UNCHANGED <<waiting, at, received>>
    PROVE  ResultsInv'
<1> DEFINE c == Client(x)
           r == [id |-> x, kind |-> kind]
           n == Len(results)
<1>1. c \in Clients /\ x \in Ids(c) /\ \A d \in Clients \ {c} : x \notin Ids(d)
  BY TaskFacts, IdFacts
<1>2. results \in Seq(Results) /\ n \in Nat /\ DOMAIN results = 1 .. n
  BY LenProperties DEF ServerTypeOK
<1>3. Registered'
  BY DEF ResultsInv, Registered
<1>4. \A i \in DOMAIN results : IsLast(results[i]) => results[i].id # x
  BY DEF ResultsInv, Expected
<1>5. \A d \in Clients \ {c} : answered' \intersect Ids(d) = answered \intersect Ids(d)
  BY <1>1
<1>6. CASE x \in waiting
  <2>1. results' = Append(results, r) /\ r \in Results /\ r.id = x /\ r.kind = kind
    BY <1>6 DEF Send, Results
  <2>2. IsLast(r)
    BY <2>1 DEF IsLast
  <2> HIDE DEF r, c
  <2>3. /\ DOMAIN results' = 1 .. n + 1
        /\ \A i \in 1 .. n : results'[i] = results[i]
        /\ results'[n + 1] = r
    BY <2>1, <1>2, AppendProperties, LenProperties
  <2> HIDE DEF n
  <2>4. \A i \in 1 .. n + 1 : i \in 1 .. n \/ i = n + 1
    BY <1>2
  <2>5. 1 .. n \subseteq 1 .. n + 1 /\ n + 1 \in 1 .. n + 1 /\ \A i \in 1 .. n : i < n + 1
    BY <1>2
  <2>6. Expected'
    BY <1>2, <1>6, <2>1, <2>3, <2>4 DEF ResultsInv, Expected, IsLast
  <2>7. LastOnce'
    BY <1>2, <1>4, <2>1, <2>3, <2>4 DEF ResultsInv, LastOnce, IsLast
  <2>8. LastComesLast'
    <3> SUFFICES ASSUME NEW i \in DOMAIN results', results'[i].id \in answered' \intersect waiting, ~IsLast(results'[i])
                 PROVE  \E j \in DOMAIN results' : i < j /\ results'[j].id = results'[i].id /\ IsLast(results'[j])
      BY DEF LastComesLast, IsLast
    <3>1. i \in 1 .. n /\ results'[i] = results[i]
      BY <2>2, <2>3, <2>4
    <3>2. CASE results[i].id = x
      BY <3>1, <3>2, <2>1, <2>2, <2>3, <2>5
    <3>3. CASE results[i].id # x
      <4>1. \E j \in DOMAIN results : i < j /\ results[j].id = results[i].id /\ IsLast(results[j])
        BY <3>1, <3>3, <1>2 DEF ResultsInv, LastComesLast
      <4> QED
        BY <3>1, <4>1, <1>2, <2>3, <2>5
    <3> QED
      BY <3>2, <3>3
  <2>9. \A id : LastIn(id)' <=> LastIn(id) \/ id = x
    BY <1>2, <2>1, <2>2, <2>3, <2>4, <2>5 DEF LastIn, IsLast
  <2>10. ~LastIn(x)
    BY <1>4 DEF LastIn
  <2>11. \A d \in Clients \ {c} : LastOf(d)' = LastOf(d)
    BY <1>1, <2>9 DEF LastOf
  <2>12. PICK e \in Clients : e = c
    BY <1>1
  <2>13. LastOf(e)' = LastOf(e) \union {x} /\ x \notin LastOf(e)
    BY <1>1, <2>9, <2>10, <2>12 DEF LastOf
  <2>14. Cardinality(LastOf(e)') = Cardinality(LastOf(e)) + 1
    <3>1. IsFiniteSet(LastOf(e))
      BY CountFacts
    <3>2. Cardinality(LastOf(e) \union {x}) = Cardinality(LastOf(e)) + 1
      BY <3>1, <2>13, FS_AddElement
    <3> QED
      BY <3>2, <2>13
  <2>15. Cardinality(answered' \intersect Ids(e)) = Cardinality(answered \intersect Ids(e)) + 1
    <3>1. answered' \intersect Ids(e) = (answered \intersect Ids(e)) \union {x}
      BY <1>1, <2>12
    <3> QED
      BY <3>1, CountFacts, FS_AddElement
  <2>16. Counted'
    <3> SUFFICES ASSUME NEW d \in Clients
                 PROVE  LET sent == Cardinality(answered' \intersect Ids(d))
                            known == received[d] + Cardinality(LastOf(d)')
                        IN  /\ at[d] = "receive" => sent = known
                            /\ at[d] = "stop" => known <= sent
      BY DEF Counted
    <3>1. /\ received[e] \in Nat /\ Cardinality(LastOf(e)) \in Nat
          /\ Cardinality(answered \intersect Ids(e)) \in Nat
      BY CountFacts DEF ServerTypeOK
    <3>2. CASE d = e
      BY <3>1, <3>2, <2>14, <2>15 DEF ResultsInv, Counted
    <3>3. CASE d # e
      BY <3>3, <2>11, <2>12, <1>5 DEF ResultsInv, Counted
    <3> QED
      BY <3>2, <3>3
  <2> QED
    BY <1>3, <2>6, <2>7, <2>8, <2>16 DEF ResultsInv
<1>7. CASE x \notin waiting
  <2>1. results' = results
    BY <1>7 DEF Send
  <2>2. Expected' /\ LastOnce'
    BY <2>1 DEF ResultsInv, Expected, LastOnce, IsLast
  <2>3. LastComesLast'
    BY <1>7, <2>1 DEF ResultsInv, Expected, LastComesLast, IsLast
  <2>4. at[c] \notin Listening
    BY <1>1, <1>7 DEF ResultsInv, Registered, Listening
  <2>5. \A d : LastOf(d)' = LastOf(d)
    BY <2>1 DEF LastOf, LastIn, IsLast
  <2>6. Counted'
    BY <1>5, <2>4, <2>5 DEF ResultsInv, Counted, Listening
  <2> QED
    BY <1>3, <2>2, <2>3, <2>6 DEF ResultsInv
<1> QED
  BY <1>6, <1>7

LEMMA SendPartial ==
    ASSUME ServerTypeOK, ResultsInv, NEW x \in TaskIds, x \notin answered, Send(x, "partial"),
           UNCHANGED <<waiting, answered, at, received>>
    PROVE  ResultsInv'
<1> DEFINE r == [id |-> x, kind |-> "partial"]
           n == Len(results)
<1>1. results \in Seq(Results) /\ n \in Nat /\ DOMAIN results = 1 .. n
  BY LenProperties DEF ServerTypeOK
<1>2. CASE x \in waiting
  <2>1. results' = Append(results, r) /\ r \in Results /\ r.id = x /\ ~IsLast(r)
    BY <1>2 DEF Send, Results, IsLast
  <2> HIDE DEF r
  <2>2. /\ DOMAIN results' = 1 .. n + 1
        /\ \A i \in 1 .. n : results'[i] = results[i]
        /\ results'[n + 1] = r
    BY <2>1, <1>1, AppendProperties, LenProperties
  <2> HIDE DEF n
  <2>3. \A i \in 1 .. n + 1 : i \in 1 .. n \/ i = n + 1
    BY <1>1
  <2>4. 1 .. n \subseteq 1 .. n + 1
    BY <1>1
  <2>5. Expected' /\ LastOnce'
    BY <1>1, <1>2, <2>1, <2>2, <2>3 DEF ResultsInv, Expected, LastOnce, IsLast
  <2>6. LastComesLast'
    <3> SUFFICES ASSUME NEW i \in DOMAIN results', results'[i].id \in answered \intersect waiting, ~IsLast(results'[i])
                 PROVE  \E j \in DOMAIN results' : i < j /\ results'[j].id = results'[i].id /\ IsLast(results'[j])
      BY DEF LastComesLast, IsLast
    <3>1. i \in 1 .. n /\ results'[i] = results[i]
      BY <2>1, <2>2, <2>3
    <3>2. \E j \in DOMAIN results : i < j /\ results[j].id = results[i].id /\ IsLast(results[j])
      BY <3>1, <1>1 DEF ResultsInv, LastComesLast
    <3> QED
      BY <3>1, <3>2, <1>1, <2>2, <2>4
  <2>7. \A id : LastIn(id)' <=> LastIn(id)
    BY <1>1, <2>1, <2>2, <2>3, <2>4 DEF LastIn, IsLast
  <2>8. \A d : LastOf(d)' = LastOf(d)
    BY <2>7 DEF LastOf
  <2>9. Registered' /\ Counted'
    BY <2>8 DEF ResultsInv, Registered, Counted
  <2> QED
    BY <2>5, <2>6, <2>9 DEF ResultsInv
<1>3. CASE x \notin waiting
  <2>1. results' = results
    BY <1>3 DEF Send
  <2> QED
    BY <2>1, ResultsQuiet DEF Listening
<1> QED
  BY <1>2, <1>3

LEMMA InitResults == Init => ResultsInv
<1> SUFFICES ASSUME Init PROVE ResultsInv
  OBVIOUS
<1>1. DOMAIN results = {}
  BY DEF Init
<1>2. Expected /\ LastOnce /\ LastComesLast
  BY <1>1 DEF Expected, LastOnce, LastComesLast
<1>3. Registered /\ Counted
  BY DEF Registered, Counted, Init
<1> QED
  BY <1>2, <1>3 DEF ResultsInv

LEMMA MainResults ==
    ASSUME ServerTypeOK, PlacesInv, ResultsInv, MainStep \/ Rests
    PROVE  ResultsInv'
<1>1. ASSUME UNCHANGED <<waiting, results, received, answered, at>>
      PROVE  ResultsInv'
  BY <1>1, ResultsQuiet DEF Listening
<1>2. CASE Take \/ HandleNext \/ Defer \/ Launch \/ HandleCancel
  BY <1>1, <1>2 DEF Take, HandleNext, Defer, Launch, HandleCancel, resultVars, clientVars
<1>3. CASE AnswerAtOnce \/ LaunchFails
  <2>0. PICK id \in TaskIds : id = main.task.id /\ InHand(id)
    BY <1>3, HandFacts DEF AnswerAtOnce, LaunchFails
  <2>1. PICK x \in TaskIds, kind \in {"final", "error"} :
          Send(x, kind) /\ answered' = answered \union {x} /\ x \notin answered
    <3>1. CASE AnswerAtOnce
      BY <2>0, <3>1, NotAnswered DEF AnswerAtOnce
    <3>2. CASE LaunchFails
      <4>1. PICK x, to, child : FailsAfter(id, x, to, child)
        BY <2>0, <3>2, LaunchFailsIs
      <4> QED
        BY <2>0, <4>1, NotAnswered DEF FailsAfter
    <3> QED
      BY <1>3, <3>1, <3>2
  <2>2. UNCHANGED <<waiting, at, received>>
    BY <1>3 DEF AnswerAtOnce, LaunchFails, clientVars
  <2> QED
    BY <2>1, <2>2, SendLast
<1>4. CASE Update \/ ChildWaits \/ Release \/ Drop \/ Updated
  BY <1>1, <1>4 DEF Update, ChildWaits, Release, Drop, Updated, resultVars, clientVars
<1>5. CASE Partial
  <2>0. PICK x : x = slots[First].id
    OBVIOUS
  <2>1. Send(x, "partial") /\ main.pc = "decode" /\ main.todo # {} /\ UNCHANGED <<waiting, answered, at, received>>
    BY <1>5, <2>0 DEF Partial, clientVars
  <2>2. x \in TaskIds /\ IsRun(x)
    BY <2>0, <2>1, FirstIsRun
  <2>3. x \notin answered
    BY <2>1, <2>2 DEF PlacesInv, AnsweredIsOver
  <2> QED
    BY <2>1, <2>2, <2>3, SendPartial
<1>6. CASE Finish
  <2>0. PICK x : x = slots[First].id
    OBVIOUS
  <2>1. /\ Send(x, "final") \/ Send(x, "error")
        /\ answered' = answered \union {x} /\ UNCHANGED <<waiting, at, received>>
    BY <1>6, <2>0 DEF Finish, clientVars
  <2>2. x \in TaskIds /\ x \notin answered
    BY <1>6, <2>0, FinishPlaces
  <2> QED
    BY <2>1, <2>2, SendLast
<1>7. CASE FallAsleep \/ WaitTask \/ TaskArrived \/ MainTimeout \/ WakeUp \/ SleepOn
  BY <1>1, <1>7 DEF FallAsleep, WaitTask, TaskArrived, MainTimeout, WakeUp, SleepOn, resultVars, clientVars
<1>8. CASE Terminate \/ SpuriousWakeup \/ Over
  BY <1>1, <1>8 DEF Terminate, SpuriousWakeup, Over, vars, resultVars, mainVars, clientVars
<1> QED
  BY <1>2, <1>3, <1>4, <1>5, <1>6, <1>7, <1>8 DEF MainStep, Rests

-----------------------------------------------------------------------------
(* When the server sleeps. *)

SleepInv == SleepsEmpty /\ NextQueued

LEMMA InitSleep == Init => SleepInv
BY DEF Init, SleepInv, SleepsEmpty, NextQueued, Busy, Idle

LEMMA ClientSleep ==
    ASSUME ServerTypeOK, PlacesInv, SleepInv, NEW c \in Clients, ClientStep(c) \/ Disconnect(c)
    PROVE  SleepInv'
<1>1. UNCHANGED <<running, sleeping, slots, main>>
  BY DEF ClientStep, Arrive, Awake, Register, Post, Receive, Stop, Discard, Cancel, Disconnect, taskVars, mainVars
<1>2. In(queue, NextTask) => In(queue', NextTask)
  <2>1. CASE Post(c)
    <3>1. queue \in Seq(Requests) /\ queue' = queue \o Posted(c)
      BY <2>1 DEF Post, ServerTypeOK
    <3> QED
      BY <3>1, PostedFacts, ConcatIn
  <2>2. CASE Cancel(c)
    BY <2>2, CancelPlaces
  <2>3. CASE ~Post(c) /\ ~Cancel(c)
    BY <2>3 DEF ClientStep, Arrive, Awake, Register, Receive, Stop, Discard, Disconnect, taskVars
  <2> QED
    BY <2>1, <2>2, <2>3
<1> QED
  BY <1>1, <1>2 DEF SleepInv, SleepsEmpty, NextQueued, Busy

LEMMA EmptyHasNone ==
    ASSUME queue = <<>>
    PROVE  ~In(queue, NextTask)
BY DEF In

LEMMA MainSleep ==
    ASSUME ServerTypeOK, PlacesInv, SleepInv, MainStep \/ Rests
    PROVE  SleepInv'
<1>1. ASSUME UNCHANGED <<sleeping, queue, slots>>,
             ~sleeping,
             \/ main'.pc \notin {"decode", "release", "idle", "waits task"}
             \/ main.pc \in {"decode", "release", "idle", "waits task"}
      PROVE  SleepInv'
  BY <1>1 DEF SleepInv, SleepsEmpty, NextQueued, Busy
<1>2. main.pc \in {"handle", "update", "decode", "release", "idle", "waits task"} => ~sleeping
  BY DEF SleepInv, SleepsEmpty
<1>3. CASE Take
  <2>1. UNCHANGED <<running, sleeping, slots>> /\ main.pc = "tasks"
    BY <1>3 DEF Take
  <2>2. main'.pc \in {"returned", "handle", "update"} /\ (~running => main'.pc = "returned")
    BY <1>3 DEF Take, MainAt, ServerTypeOK
  <2> QED
    BY <2>1, <2>2 DEF SleepInv, SleepsEmpty, NextQueued, Busy
<1>4. CASE HandleNext \/ Defer \/ Launch \/ AnswerAtOnce \/ HandleCancel
  <2>1. main.pc = "handle" /\ main'.pc = "tasks" /\ sleeping' = sleeping
    BY <1>4, MainFacts DEF HandleNext, Defer, Launch, AnswerAtOnce, HandleCancel, taskVars
  <2> QED
    BY <2>1, <1>2 DEF SleepInv, SleepsEmpty, NextQueued
<1>5. CASE Update
  <2>1. main.pc = "update" /\ UNCHANGED <<sleeping, slots>>
    BY <1>5 DEF Update
  <2>2. Busy # {} => In(queue', NextTask)
    BY <1>5, UpdatePlaces
  <2> QED
    BY <2>1, <2>2, <1>2 DEF SleepInv, SleepsEmpty, NextQueued, Busy
<1>6. CASE ChildWaits \/ Updated
  <2>1. main.pc = "decode" /\ UNCHANGED <<sleeping, queue, slots>>
    BY <1>6 DEF ChildWaits, Updated, taskVars
  <2> QED
    BY <2>1, <1>1, <1>2
<1>7. CASE Partial \/ Finish \/ Release
  <2>1. main.pc \in {"decode", "release"} /\ sleeping' = sleeping /\ main.todo # {}
    BY <1>7 DEF Partial, Finish, Release, taskVars, PlacesInv, Decoding
  <2>2. In(queue, NextTask)
    <3>1. Busy # {}
      BY <2>1 DEF PlacesInv, Decoding
    <3> QED
      BY <2>1, <3>1 DEF SleepInv, NextQueued
  <2>3. In(queue', NextTask)
    <3>1. CASE Partial \/ Finish
      BY <3>1, <2>2 DEF Partial, Finish, taskVars
    <3>2. CASE Release
      BY <3>2, <2>2, ReleasePlaces
    <3> QED
      BY <1>7, <3>1, <3>2
  <2> QED
    BY <2>1, <2>3, <1>2 DEF SleepInv, SleepsEmpty, NextQueued
<1>8. CASE FallAsleep
  <2>1. main.pc = "idle" /\ queue = <<>> /\ main'.pc = "asleep" /\ slots' = slots
    BY <1>8, MainFacts DEF FallAsleep
  <2>2. Busy = {} /\ Busy' = Busy
    BY <2>1, EmptyHasNone DEF SleepInv, NextQueued, Busy
  <2> QED
    BY <2>1, <2>2 DEF SleepInv, SleepsEmpty, NextQueued
<1>9. CASE WaitTask \/ TaskArrived \/ MainTimeout
  <2>1. main.pc \in {"idle", "waits task"} /\ UNCHANGED <<sleeping, queue, slots>>
    BY <1>9 DEF WaitTask, TaskArrived, MainTimeout
  <2> QED
    BY <2>1, <1>1, <1>2
<1>10. CASE WakeUp
  <2>1. main'.pc = "tasks" /\ sleeping' = FALSE
    BY <1>10, MainFacts DEF WakeUp
  <2> QED
    BY <2>1 DEF SleepInv, SleepsEmpty, NextQueued
<1>11. CASE SleepOn
  <2>1. main.pc = "asleep" /\ UNCHANGED <<running, sleeping, slots>>
        /\ (main' = main \/ (~running /\ main'.pc = "tasks"))
    BY <1>11, MainFacts DEF SleepOn
  <2> QED
    BY <2>1 DEF SleepInv, SleepsEmpty, NextQueued, Busy
<1>12. CASE Terminate \/ SpuriousWakeup \/ Over
  <2>1. UNCHANGED <<sleeping, queue, slots, main>> /\ (~running => ~running')
    BY <1>12 DEF Terminate, SpuriousWakeup, Over, vars, taskVars, mainVars
  <2> QED
    BY <2>1 DEF SleepInv, SleepsEmpty, NextQueued, Busy
<1>13. CASE LaunchFails
  <2>1. main.pc = "handle" /\ main'.pc \in {"tasks", "drop"} /\ sleeping' = sleeping
    BY <1>13 DEF LaunchFails, taskVars
  <2> QED
    BY <2>1, <1>2 DEF SleepInv, SleepsEmpty, NextQueued
<1>14. CASE Drop
  <2>1. main.pc = "drop" /\ main'.pc \in {"tasks", "drop"} /\ sleeping' = sleeping
    BY <1>14 DEF Drop, ServerTypeOK
  <2> QED
    BY <2>1 DEF SleepInv, SleepsEmpty, NextQueued
<1> QED
  BY <1>3, <1>4, <1>5, <1>6, <1>7, <1>8, <1>9, <1>10, <1>11, <1>12, <1>13, <1>14 DEF MainStep, Rests

-----------------------------------------------------------------------------
(* The theorems. *)

ServerInv == ServerTypeOK /\ PlacesInv /\ ResultsInv /\ SleepInv

LEMMA StepTypes ==
    ASSUME ServerTypeOK, PlacesInv, MainStep \/ Rests
    PROVE  ServerTypeOK'
<1>1. Decoding
  BY DEF PlacesInv
<1> QED
  BY <1>1, HandleTypes, UpdateTypes, RestTypes DEF MainStep, Rests

LEMMA ServerInductive == ServerInv /\ [Next]_vars => ServerInv'
<1> SUFFICES ASSUME ServerTypeOK, PlacesInv, ResultsInv, SleepInv, [Next]_vars PROVE ServerInv'
  BY DEF ServerInv
<1>1. ASSUME NEW c \in Clients, ClientStep(c) \/ Disconnect(c) PROVE ServerInv'
  BY <1>1, ClientTypes, ClientPlaces, ClientResults, ClientSleep DEF ServerInv
<1>2. CASE MainStep
  BY <1>2, StepTypes, MainPlaces, MainResults, MainSleep DEF ServerInv
<1>3. CASE Rests
  BY <1>3, StepTypes, RestPlaces, MainResults, MainSleep DEF ServerInv
<1>4. CASE UNCHANGED vars
  <2>1. SpuriousWakeup \/ UNCHANGED vars
    BY <1>4
  <2>2. ServerTypeOK'
    BY <1>4 DEF ServerTypeOK, vars, taskVars, resultVars, mainVars, clientVars
  <2>3. PlacesInv'
    BY <1>4, PlacesQuiet DEF vars, taskVars, resultVars, mainVars, clientVars
  <2>4. ResultsInv'
    BY <1>4, ResultsQuiet DEF Listening, vars, taskVars, resultVars, mainVars, clientVars
  <2>5. SleepInv'
    BY <1>4 DEF SleepInv, SleepsEmpty, NextQueued, Busy, vars, taskVars, resultVars, mainVars, clientVars
  <2> QED
    BY <2>2, <2>3, <2>4, <2>5 DEF ServerInv
<1> QED
  BY <1>1, <1>2, <1>3, <1>4 DEF Next, Rests

(* All variables keep their types, the loop has a task in hand exactly     *)
(* while it handles one, and it decodes slots only.                        *)
THEOREM ServerTypes == Spec => []ServerTypeOK
<1>1. Init => ServerInv
  BY InitTypes, InitPlaces, InitResults, InitSleep DEF ServerInv
<1>2. ServerInv => ServerTypeOK
  BY DEF ServerInv
<1> QED
  BY <1>1, <1>2, ServerInductive, PTL DEF Spec

LEMMA ServerInvariant == Spec => []ServerInv
<1>1. Init => ServerInv
  BY InitTypes, InitPlaces, InitResults, InitSleep DEF ServerInv
<1> QED
  BY <1>1, ServerInductive, PTL DEF Spec

LEMMA AtMostOne ==
    ASSUME NEW T, \A x, y \in T : x = y
    PROVE  Cardinality(T) = IF T = {} THEN 0 ELSE 1
<1>1. CASE T = {}
  BY <1>1, FS_EmptySet
<1>2. CASE T # {}
  <2>1. PICK x \in T : T = {x}
    BY <1>2
  <2> QED
    BY <1>2, <2>1, FS_Singleton
<1> QED
  BY <1>1, <1>2

(* A task is in one place at most, in a queue, deferred, in the hand of    *)
(* the main loop or in a slot, and once answered nowhere but in the slot   *)
(* that is about to be released: whatever is posted, deferred, taken up,   *)
(* cancelled or failing in between.                                        *)
THEOREM ServerOnePlace == Spec => []OnePlace
<1>1. ASSUME ServerTypeOK, PlacesInv PROVE OnePlace
  <2> SUFFICES ASSUME NEW id \in TaskIds
               PROVE  LET places == Cardinality(InQueue(id)) + Cardinality(InDeferred(id))
                                      + Cardinality(InSlot(id)) + (IF InHand(id) THEN 1 ELSE 0)
                      IN  /\ places <= 1
                          /\ id \in answered => places = (IF main.pc = "release" /\ slots[First].id = id THEN 1 ELSE 0)
    BY DEF OnePlace
  <2>1. Cardinality(InQueue(id)) = IF IsQueued(id) THEN 1 ELSE 0
    <3>1. \A i \in DOMAIN queue : queue[i] \in Requests
      BY <1>1, LenProperties, ElementOfSeq DEF ServerTypeOK
    <3>2. \A i \in DOMAIN queue : queue[i].type = "task" /\ queue[i].id = id <=> queue[i] = Task(id)
      BY <3>1, TaskFacts
    <3>3. InQueue(id) = {i \in DOMAIN queue : queue[i] = Task(id)}
      BY <3>2 DEF InQueue, Queued
    <3>4. \A i, j \in InQueue(id) : i = j
      BY <1>1, <3>3 DEF PlacesInv, NoDuplicates, Once
    <3>5. InQueue(id) # {} <=> IsQueued(id)
      BY <3>3 DEF IsQueued, In
    <3> QED
      BY <3>4, <3>5, AtMostOne
  <2>2. Cardinality(InDeferred(id)) = IF IsDeferred(id) THEN 1 ELSE 0
    <3>1. \A i, j \in InDeferred(id) : i = j
      BY <1>1 DEF InDeferred, PlacesInv, NoDuplicates, Once
    <3>2. InDeferred(id) # {} <=> IsDeferred(id)
      BY DEF InDeferred, IsDeferred, In
    <3> QED
      BY <3>1, <3>2, AtMostOne
  <2>3. Cardinality(InSlot(id)) = IF IsRun(id) THEN 1 ELSE 0
    <3>1. \A s, t \in InSlot(id) : s = t
      BY <1>1, TaskFacts DEF InSlot, PlacesInv, NoDuplicates
    <3>2. InSlot(id) # {} <=> IsRun(id)
      BY DEF InSlot, IsRun
    <3> QED
      BY <3>1, <3>2, AtMostOne
  <2>4. /\ IsQueued(id) => ~IsDeferred(id) /\ ~InHand(id) /\ ~IsRun(id)
        /\ IsDeferred(id) => ~InHand(id) /\ ~IsRun(id)
        /\ InHand(id) => ~IsRun(id)
    BY <1>1 DEF PlacesInv, Exclusive
  <2>5. id \in answered => /\ ~IsQueued(id) /\ ~IsDeferred(id) /\ ~InHand(id)
                           /\ IsRun(id) <=> main.pc = "release" /\ slots[First].id = id
    <3>1. main.pc = "release" => First \in Slots
      BY <1>1, FirstIsRun DEF PlacesInv, Decoding
    <3> QED
      BY <1>1, <3>1 DEF PlacesInv, AnsweredIsOver, IsPending, IsRun
  <2> QED
    BY <2>1, <2>2, <2>3, <2>4, <2>5
<1> QED
  BY <1>1, ServerInvariant, PTL DEF ServerInv

(* When a client is done, nobody waits for its tasks and none of their     *)
(* results is left: whether it received all of them, met an error or was   *)
(* disconnected, and whatever was sent meanwhile.                          *)
THEOREM ServerNothingLeft == Spec => []NothingLeftBehind
<1>1. ASSUME ServerTypeOK, ResultsInv PROVE NothingLeftBehind
  <2> SUFFICES ASSUME NEW c \in Clients, at[c] = "done"
               PROVE  /\ Ids(c) \intersect waiting = {}
                      /\ \A i \in DOMAIN results : Client(results[i].id) # c
    BY DEF NothingLeftBehind
  <2>1. Ids(c) \intersect waiting = {}
    BY <1>1 DEF ResultsInv, Registered
  <2>2. \A i \in DOMAIN results : results[i].id \in TaskIds
    BY <1>1, ResultOwners
  <2> QED
    BY <1>1, <2>1, <2>2, IdFacts DEF ResultsInv, Expected
<1> QED
  BY <1>1, ServerInvariant, PTL DEF ServerInv

(* No result is lost: while a client waits and no error has come for it,   *)
(* the answers sent to its tasks are those it received and those in the    *)
(* queue of results.                                                       *)
THEOREM ServerNoneLost == Spec => []NoneLost
<1>1. ASSUME ServerTypeOK, ResultsInv PROVE NoneLost
  <2> SUFFICES ASSUME NEW c \in Clients, at[c] = "receive",
                      {i \in DOMAIN results : results[i].kind = "error" /\ Client(results[i].id) = c} = {}
               PROVE  Cardinality(answered \intersect Ids(c)) = received[c]
                        + Cardinality({i \in DOMAIN results : results[i].kind = "final" /\ Client(results[i].id) = c})
    BY DEF NoneLost
  <2> DEFINE finals == {i \in DOMAIN results : results[i].kind = "final" /\ Client(results[i].id) = c}
             f == [i \in finals |-> results[i].id]
  <2>1. \A i \in DOMAIN results : results[i] \in Results
    BY <1>1, LenProperties, ElementOfSeq DEF ServerTypeOK
  <2>2. f \in [finals -> LastOf(c)]
    <3>1. \A i \in finals : results[i].id \in Ids(c) /\ LastIn(results[i].id)
      BY <2>1, IdFacts DEF Results, LastIn, IsLast
    <3> QED
      BY <3>1 DEF LastOf
  <2>3. f \in Injection(finals, LastOf(c))
    <3>1. \A i, j \in finals : f[i] = f[j] => i = j
      BY <1>1 DEF ResultsInv, LastOnce, IsLast
    <3> QED
      BY <2>2, <3>1 DEF Injection, IsInjective
  <2>4. f \in Surjection(finals, LastOf(c))
    <3>1. ASSUME NEW id \in LastOf(c) PROVE \E i \in finals : f[i] = id
      <4>1. PICK i \in DOMAIN results : results[i].id = id /\ results[i].kind # "partial"
        BY DEF LastOf, LastIn, IsLast
      <4>2. Client(id) = c
        BY IdFacts DEF LastOf
      <4>3. results[i].kind = "final"
        BY <2>1, <4>1, <4>2 DEF Results
      <4> QED
        BY <4>1, <4>2, <4>3
    <3> QED
      BY <2>2, <3>1 DEF Surjection
  <2>5. Cardinality(finals) = Cardinality(LastOf(c))
    BY <2>3, <2>4, CountFacts, FS_Injection
  <2> QED
    BY <1>1, <2>5 DEF ResultsInv, Counted
<1> QED
  BY <1>1, ServerInvariant, PTL DEF ServerInv

(* While the server sleeps no slot is busy and the loop does nothing: the  *)
(* round asked for by update_slots keeps the queue from being empty as     *)
(* long as a slot is busy, and only an empty queue lets it fall asleep.    *)
THEOREM ServerSleepsEmpty == Spec => []SleepsEmpty
<1>1. ServerInv => SleepsEmpty
  BY DEF ServerInv, SleepInv
<1> QED
  BY <1>1, ServerInvariant, PTL
=============================================================================
