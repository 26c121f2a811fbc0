---------------------------- MODULE PQLoadProofs ----------------------------
(***************************************************************************)
(* Properties of the registry for every set of files, any number of layers *)
(* and any order of loads: the partial sums are always large enough, a     *)
(* group's members are always what the group says of them, and with one    *)
(* model at a time a decode uses its own model's weights.                  *)
(***************************************************************************)
EXTENDS PQLoad, TLAPS

(* What a kind's entry says is what its file says. *)
Faithful(e, k) ==
    e # NoEntry =>
        /\ e.mode \in {0, 1} /\ e.ds \in Nat
        /\ e.from \in Files /\ e.n_in = e.from.n_in[k] /\ e.n_out = e.from.n_out[k]

KindsFaithful == \A l \in Layers, k \in Kinds : Faithful(registry[<<l, k>>], k)

LoadTyped ==
    /\ load \in [file : Files, ds : DsChoices, mode : ModeChoices]
    /\ layer \in Layers
    /\ wqkv \in [Files -> [Layers -> BOOLEAN]]
    /\ ffnUp \in [Files -> [Layers -> BOOLEAN]]
    /\ pc = "qkv" => member \in 1 .. 3
    /\ pc = "gate_up" => member \in 1 .. 2
    /\ pc = "single" => member \in 1 .. 7

(***************************************************************************)
(* Entries.                                                                *)
(***************************************************************************)
LEMMA EntryFaithful ==
    ASSUME NEW f \in Files, NEW k \in Kinds, NEW mode \in {0, 1}, NEW ds \in Nat
    PROVE  /\ Faithful(Entry(f, k, mode, ds), k)
           /\ Entry(f, k, mode, ds) # NoEntry
           /\ Entry(f, k, mode, ds).from = f
BY DEF Entry, Faithful, NoEntry

LEMMA QuantizedFaithful ==
    ASSUME NEW f \in Files, NEW k \in Kinds, NEW mode \in {0, 1}, NEW ds \in Nat
    PROVE  /\ Faithful(Quantized(f, k, mode, ds), k)
           /\ Quantized(f, k, mode, ds) # NoEntry => Quantized(f, k, mode, ds).from = f
BY EntryFaithful DEF Quantized, Faithful

LEMMA FromLoaderFaithful ==
    ASSUME NEW f \in Files, NEW k \in Kinds
    PROVE  /\ Faithful(FromLoader(f, k), k)
           /\ FromLoader(f, k) # NoEntry => FromLoader(f, k).from = f
<1>1. f.ds \in Nat
  BY FilesAssumption
<1>2. CASE f.side[k] = "S1"
  BY <1>1, <1>2, EntryFaithful DEF FromLoader
<1>3. CASE f.side[k] = "S2"
  BY <1>1, <1>3, EntryFaithful DEF FromLoader
<1>4. CASE f.side[k] \notin {"S1", "S2"}
  BY <1>4 DEF FromLoader, Faithful
<1> QED
  BY <1>2, <1>3, <1>4

(* Whatever is registered under a kind's name describes the file loaded.   *)
LEMMA MemberFaithful ==
    ASSUME NEW f \in Files, NEW k \in Kinds
    PROVE  /\ Faithful(MemberEntry(f, k), k)
           /\ MemberEntry(f, k) # NoEntry => MemberEntry(f, k).from = f
BY FromLoaderFaithful, QuantizedFaithful DEF MemberEntry, FirstOf

LEMMA SingleFaithful ==
    ASSUME NEW f \in Files, NEW k \in Kinds,
           NEW p \in [file : Files, ds : DsChoices, mode : ModeChoices]
    PROVE  /\ Faithful(SingleEntry(f, k, p), k)
           /\ SingleEntry(f, k, p) # NoEntry => SingleEntry(f, k, p).from = f
<1>1. AskedMode(k, p) \in {0, 1} /\ p.ds \in Nat
  BY SizesAssumption DEF AskedMode
<1> QED
  BY <1>1, FromLoaderFaithful, QuantizedFaithful DEF SingleEntry, FirstOf

LEMMA MemberNames ==
    /\ Len(Members("qkv")) = 3 /\ Len(Members("gate_up")) = 2
    /\ Members("qkv")[1] = "q" /\ Members("qkv")[2] = "k" /\ Members("qkv")[3] = "v"
    /\ Members("gate_up")[1] = "gate" /\ Members("gate_up")[2] = "up"
BY DEF Members

LEMMA CandidateKinds == Len(Candidates) = 7 /\ \A i \in 1 .. 7 : Candidates[i] \in Kinds
<1>1. Len(Candidates) = 7
  BY DEF Candidates
<1>2. ASSUME NEW i \in 1 .. 7 PROVE Candidates[i] \in Kinds
  <2>1. i = 1 \/ i = 2 \/ i = 3 \/ i = 4 \/ i = 5 \/ i = 6 \/ i = 7
    OBVIOUS
  <2> QED
    BY <2>1 DEF Candidates, Kinds
<1> QED
  BY <1>1, <1>2

(***************************************************************************)
(* Which names a step touches.  Every step either leaves the registry and  *)
(* the pool alone, clears the registry, puts an entry under the name of a  *)
(* kind, or puts a group under a fused name.                               *)
(***************************************************************************)
PutsKind(k, e) ==
    /\ k \in Kinds /\ Faithful(e, k) /\ (e # NoEntry => e.from = load.file)
    /\ Register(<<layer, k>>, e)

PutsGroup(g) ==
    /\ g \in FusedKinds
    /\ Groupable(load.file, g, layer)
    /\ registry' = [registry EXCEPT ![<<layer, g>>] =
          GroupEntry(load.file, g, registry[<<layer, Members(g)[1]>>].ds)]
    /\ UNCHANGED pool

LEMMA RegistrySteps ==
    ASSUME LoadTyped, [Next]_vars
    PROVE  \/ UNCHANGED <<registry, pool>>
           \/ Begin
           \/ \E k \in Kinds : \/ PutsKind(k, MemberEntry(load.file, k))
                               \/ PutsKind(k, SingleEntry(load.file, k, load))
           \/ \E g \in FusedKinds : PutsGroup(g)
<1> USE DEF LoadTyped
<1>0. load.file \in Files
  OBVIOUS
<1>1. CASE Load
  BY <1>1 DEF Load, LoadPlain, LoadWithPQ
<1>2. CASE RegisterQkv
  <2>1. Members("qkv")[member] \in Kinds
    BY <1>2, MemberNames DEF RegisterQkv, Kinds
  <2>2. PutsKind(Members("qkv")[member], MemberEntry(load.file, Members("qkv")[member]))
    BY <1>0, <1>2, <2>1, MemberFaithful DEF RegisterQkv, PutsKind
  <2> QED
    BY <2>1, <2>2
<1>3. CASE GroupQkv
  BY <1>3, MemberNames DEF GroupQkv, PutsGroup, FusedKinds
<1>4. CASE RegisterGateUp
  <2>1. Members("gate_up")[member] \in Kinds
    BY <1>4, MemberNames DEF RegisterGateUp, Kinds
  <2>2. PutsKind(Members("gate_up")[member], MemberEntry(load.file, Members("gate_up")[member]))
    BY <1>0, <1>4, <2>1, MemberFaithful DEF RegisterGateUp, PutsKind
  <2> QED
    BY <2>1, <2>2
<1>5. CASE GroupGateUp
  BY <1>5, MemberNames DEF GroupGateUp, PutsGroup, FusedKinds
<1>6. CASE Single
  <2>1. Candidates[member] \in Kinds
    BY <1>6, CandidateKinds DEF Single
  <2>2. CASE Grouped(Candidates[member])
    BY <1>6, <2>2 DEF Single
  <2>3. CASE ~Grouped(Candidates[member])
    <3>1. PutsKind(Candidates[member], SingleEntry(load.file, Candidates[member], load))
      BY <1>0, <1>6, <2>1, <2>3, SingleFaithful DEF Single, PutsKind
    <3> QED
      BY <2>1, <3>1
  <2> QED
    BY <2>2, <2>3
<1>7. CASE Free \/ BuildQkv \/ BuildGateUp \/ Finish \/ Gone \/ UNCHANGED vars
  BY <1>7 DEF Free, BuildQkv, BuildGateUp, Finish, Gone, vars
<1> QED
  BY <1>1, <1>2, <1>3, <1>4, <1>5, <1>6, <1>7 DEF Next

LEMMA FlagTyped ==
    ASSUME NEW F \in [Files -> [Layers -> BOOLEAN]], NEW f \in Files, NEW l \in Layers
    PROVE  [F EXCEPT ![f][l] = TRUE] \in [Files -> [Layers -> BOOLEAN]]
<1> DEFINE G == [F[f] EXCEPT ![l] = TRUE]
<1>1. G \in [Layers -> BOOLEAN]
  <2>1. F[f] \in [Layers -> BOOLEAN]
    OBVIOUS
  <2> QED
    BY <2>1
<1>2. [F EXCEPT ![f] = G] \in [Files -> [Layers -> BOOLEAN]]
  <2> HIDE DEF G
  <2> QED
    BY <1>1
<1> QED
  BY <1>2

LEMMA LoadTypedInit == Init => LoadTyped
BY SizesAssumption DEF Init, LoadTyped, Layers

LEMMA LoadTypedStep == LoadTyped /\ [Next]_vars => LoadTyped'
<1> SUFFICES ASSUME LoadTyped, [Next]_vars PROVE LoadTyped'
  OBVIOUS
<1> USE DEF LoadTyped
<1>0. load.file \in Files
  OBVIOUS
<1>1. CASE Load
  <2>1. load' \in [file : Files, ds : DsChoices, mode : ModeChoices]
    BY <1>1 DEF Load, LoadPlain, LoadWithPQ
  <2> QED
    BY <1>1, <2>1, SizesAssumption DEF Load, LoadPlain, LoadWithPQ, Layers
<1>2. CASE Free
  BY <1>2 DEF Free
<1>3. CASE BuildQkv
  BY <1>3 DEF BuildQkv, Create, GoTo
<1>4. CASE RegisterQkv
  <2>1. UNCHANGED <<load, layer, wqkv, ffnUp>>
    BY <1>4 DEF RegisterQkv
  <2>2. pc' \in {"qkv", "groupQkv", "buildGateUp"} /\ (pc' = "qkv" => member < 3 /\ member' = member + 1)
    BY <1>4 DEF RegisterQkv, GoTo
  <2> QED
    BY <1>4, <2>1, <2>2 DEF RegisterQkv
<1>5. CASE GroupQkv
  <2>1. wqkv' = [wqkv EXCEPT ![load.file][layer] = TRUE] \/ UNCHANGED wqkv
    BY <1>5 DEF GroupQkv
  <2>2. wqkv \in [Files -> [Layers -> BOOLEAN]] /\ layer \in Layers
    OBVIOUS
  <2>3. [wqkv EXCEPT ![load.file][layer] = TRUE] \in [Files -> [Layers -> BOOLEAN]]
    <3> HIDE DEF LoadTyped
    <3> QED
      BY <1>0, <2>2, FlagTyped
  <2> QED
    BY <1>5, <2>1, <2>2, <2>3 DEF GroupQkv, GoTo
<1>6. CASE BuildGateUp
  BY <1>6 DEF BuildGateUp, Create, GoTo
<1>7. CASE RegisterGateUp
  BY <1>7 DEF RegisterGateUp, GoTo
<1>8. CASE GroupGateUp
  <2>1. ffnUp' = [ffnUp EXCEPT ![load.file][layer] = TRUE] \/ UNCHANGED ffnUp
    BY <1>8 DEF GroupGateUp
  <2>2. ffnUp \in [Files -> [Layers -> BOOLEAN]] /\ layer \in Layers
    OBVIOUS
  <2>3. [ffnUp EXCEPT ![load.file][layer] = TRUE] \in [Files -> [Layers -> BOOLEAN]]
    <3> HIDE DEF LoadTyped
    <3> QED
      BY <1>0, <2>2, FlagTyped
  <2>4. ffnUp' \in [Files -> [Layers -> BOOLEAN]]
    BY <2>1, <2>3
  <2>5. UNCHANGED <<load, layer, wqkv>> /\ pc' = "single" /\ member' = 1
    BY <1>8 DEF GroupGateUp, GoTo
  <2> QED
    BY <2>4, <2>5
<1>9. CASE Single
  BY <1>9, CandidateKinds, SizesAssumption DEF Single, GoTo, Layers
<1>10. CASE Finish
  BY <1>10 DEF Finish, GoTo
<1>11. CASE Gone \/ UNCHANGED vars
  BY <1>11 DEF Gone, vars
<1> QED
  BY <1>1, <1>2, <1>3, <1>4, <1>5, <1>6, <1>7, <1>8, <1>9, <1>10, <1>11 DEF Next

(***************************************************************************)
(* The partial sums: the pool never shrinks, and the registration of every *)
(* S1 tensor makes room for four products of its height.                   *)
(***************************************************************************)
PoolInv ==
    /\ LoadTyped
    /\ pool \in Nat
    /\ DOMAIN registry = Names
    /\ \A n \in Names :
          registry[n].mode = 0 =>
              registry[n].n_out \in Nat /\ 4 * KMaxThreads * registry[n].n_out <= pool

LEMMA PoolInit == Init => PoolInv
BY LoadTypedInit DEF Init, PoolInv, NoEntry

LEMMA PoolStep == PoolInv /\ [Next]_vars => PoolInv'
<1> SUFFICES ASSUME PoolInv, [Next]_vars PROVE PoolInv'
  OBVIOUS
<1>0. LoadTyped /\ LoadTyped' /\ KMaxThreads \in Nat
  BY LoadTypedStep, SizesAssumption DEF PoolInv
<1>1. CASE UNCHANGED <<registry, pool>>
  BY <1>0, <1>1 DEF PoolInv
<1>2. CASE Begin
  BY <1>0, <1>2 DEF PoolInv, Begin, NoEntry
<1>3. ASSUME NEW k \in Kinds, NEW e, PutsKind(k, e) PROVE PoolInv'
  <2>1. CASE e = NoEntry
    BY <1>0, <1>3, <2>1 DEF PoolInv, PutsKind, Register
  <2>2. CASE e # NoEntry
    <3> DEFINE n == <<layer, k>>
    <3>1. n \in Names /\ registry' = [registry EXCEPT ![n] = e]
      BY <1>0, <1>3, <2>2 DEF PutsKind, Register, LoadTyped, Names
    <3>2. e.n_out \in Nat
      BY <1>3, <2>2, FilesAssumption DEF PutsKind, Faithful
    <3>3. 4 * KMaxThreads * e.n_out \in Nat
      BY <1>0, <3>2
    <3>4. pool' = IF e.mode = 0 /\ pool < 4 * KMaxThreads * e.n_out
                  THEN 4 * KMaxThreads * e.n_out ELSE pool
      BY <1>3, <2>2 DEF PutsKind, Register, Presized
    <3>5. pool' \in Nat /\ pool <= pool' /\ (e.mode = 0 => 4 * KMaxThreads * e.n_out <= pool')
      BY <3>3, <3>4 DEF PoolInv
    <3>6. DOMAIN registry' = Names
      BY <3>1 DEF PoolInv
    <3>7. ASSUME NEW x \in Names, registry'[x].mode = 0
          PROVE  registry'[x].n_out \in Nat /\ 4 * KMaxThreads * registry'[x].n_out <= pool'
      <4>1. CASE x = n
        <5>1. registry'[x] = e
          BY <3>1, <4>1 DEF PoolInv
        <5> QED
          BY <3>2, <3>5, <3>7, <5>1
      <4>2. CASE x # n
        <5>1. registry'[x] = registry[x]
          BY <3>1, <4>2 DEF PoolInv
        <5>2. registry[x].n_out \in Nat /\ 4 * KMaxThreads * registry[x].n_out <= pool
          BY <3>7, <5>1 DEF PoolInv
        <5>3. 4 * KMaxThreads * registry[x].n_out \in Nat
          BY <1>0, <5>2
        <5> QED
          BY <3>5, <5>1, <5>2, <5>3 DEF PoolInv
      <4> QED
        BY <4>1, <4>2
    <3> QED
      BY <1>0, <3>5, <3>6, <3>7 DEF PoolInv
  <2> QED
    BY <2>1, <2>2
<1>4. ASSUME NEW g \in FusedKinds, PutsGroup(g) PROVE PoolInv'
  BY <1>0, <1>4 DEF PoolInv, PutsGroup, GroupEntry, LoadTyped, Names
<1> QED
  BY <1>0, <1>1, <1>2, <1>3, <1>4, RegistrySteps

(* A flush of four products by a full pool of threads fits. *)
LEMMA PoolFits ==
    ASSUME NEW K \in Nat, NEW p \in Nat, NEW a \in Nat, NEW b \in Nat, NEW c \in Nat, NEW d \in Nat,
           4 * K * a <= p, 4 * K * b <= p, 4 * K * c <= p, 4 * K * d <= p
    PROVE  K * (a + b + c + d) <= p
<1>1. K * (a + b + c + d) = K * a + K * b + K * c + K * d
  OBVIOUS
<1>2. K * a \in Nat /\ K * b \in Nat /\ K * c \in Nat /\ K * d \in Nat
  OBVIOUS
<1>3. /\ 4 * (K * a) <= p /\ 4 * (K * b) <= p
      /\ 4 * (K * c) <= p /\ 4 * (K * d) <= p
  OBVIOUS
<1> QED
  BY <1>1, <1>2, <1>3

(* No flush of up to four S1 products by up to kMaxThreads threads has to  *)
(* grow the partial sums.                                                  *)
THEOREM LoadPool == Spec => []PoolSuffices
<1>1. PoolInv => PoolSuffices
  BY PoolFits, SizesAssumption DEF PoolInv, PoolSuffices, S1Heights
<1> QED
  BY <1>1, PoolInit, PoolStep, PTL DEF Spec

(***************************************************************************)
(* Groups.  While a model is loaded everything registered is its own, a    *)
(* group exists only for layers and members that the loop has behind it,   *)
(* and its layer's pointer keeps the members from being registered again.  *)
(***************************************************************************)
Before(g) ==
    {"buildQkv", "qkv", "groupQkv"}
    \union IF g = "qkv" THEN {} ELSE {"buildGateUp", "gate_up", "groupGateUp"}

Pointer(g) == IF g = "qkv" THEN wqkv[load.file][layer] ELSE ffnUp[load.file][layer]

Situated ==
    pc # "idle" =>
        \A l \in Layers, g \in FusedKinds :
            registry[<<l, g>>] # NoEntry =>
                l <= layer /\ (l = layer => pc \notin Before(g) /\ Pointer(g) = TRUE)

OwnEntries ==
    pc # "idle" => \A n \in Names : registry[n] # NoEntry => registry[n].from = load.file

GroupInv ==
    /\ LoadTyped
    /\ DOMAIN registry = Names
    /\ KindsFaithful
    /\ OwnEntries
    /\ Situated
    /\ GroupsSound

LEMMA FusedNames == FusedKinds \intersect Kinds = {} /\ FusedKinds = {"qkv", "gate_up"}
BY DEF FusedKinds, Kinds

LEMMA MembersAreKinds ==
    ASSUME NEW g \in FusedKinds
    PROVE  /\ Len(Members(g)) \in {2, 3}
           /\ \A i \in 1 .. Len(Members(g)) : Members(g)[i] \in Kinds
<1>1. CASE g = "qkv"
  BY <1>1, MemberNames DEF Kinds
<1>2. CASE g = "gate_up"
  BY <1>2, MemberNames DEF Kinds
<1> QED
  BY <1>1, <1>2 DEF FusedKinds

(* A group is as sound as its own entry and its members' entries are.      *)
LEMMA SoundnessIsLocal ==
    ASSUME NEW l \in Layers, NEW g \in FusedKinds, GroupSound(l, g),
           registry'[<<l, g>>] = registry[<<l, g>>],
           \A i \in 1 .. Len(Members(g)) :
               registry'[<<l, Members(g)[i]>>] = registry[<<l, Members(g)[i]>>]
    PROVE  GroupSound(l, g)'
<1>0. Len(Members(g)) \in {2, 3}
  BY MembersAreKinds
<1>1. Len(Members(g)) \in 1 .. Len(Members(g)) /\ 1 \in 1 .. Len(Members(g))
  BY <1>0
<1>2. \A i \in 1 .. Len(Members(g)) - 1 : i \in 1 .. Len(Members(g))
  BY <1>0
<1> QED
  BY <1>1, <1>2 DEF GroupSound

(* A tensor that is in no group of its layer may be registered.            *)
LEMMA PutKindKeepsGroups ==
    ASSUME GroupInv, NEW k \in Kinds, NEW e, PutsKind(k, e),
           \A g \in FusedKinds : registry[<<layer, g>>] # NoEntry =>
               \A i \in 1 .. Len(Members(g)) : Members(g)[i] # k
    PROVE  GroupsSound'
<1> USE DEF GroupInv
<1>1. SUFFICES ASSUME NEW l \in Layers, NEW g \in FusedKinds PROVE GroupSound(l, g)'
  BY DEF GroupsSound
<1>2. GroupSound(l, g)
  BY DEF GroupsSound
<1>3. \A n \in Names : n # <<layer, k>> => registry'[n] = registry[n]
  BY DEF PutsKind, Register
<1>4. <<l, g>> \in Names /\ \A i \in 1 .. Len(Members(g)) : <<l, Members(g)[i]>> \in Names
  BY MembersAreKinds DEF Names
<1>5. registry'[<<l, g>>] = registry[<<l, g>>]
  <2>1. g # k
    BY FusedNames
  <2> QED
    BY <1>3, <1>4, <2>1
<1>6. CASE registry[<<l, g>>] = NoEntry
  BY <1>5, <1>6 DEF GroupSound
<1>7. CASE registry[<<l, g>>] # NoEntry
  <2>1. ASSUME NEW i \in 1 .. Len(Members(g)) PROVE <<l, Members(g)[i]>> # <<layer, k>>
    BY <1>7
  <2>2. \A i \in 1 .. Len(Members(g)) :
            registry'[<<l, Members(g)[i]>>] = registry[<<l, Members(g)[i]>>]
    BY <1>3, <1>4, <2>1
  <2> QED
    BY <1>2, <1>5, <2>2, SoundnessIsLocal
<1> QED
  BY <1>6, <1>7

LEMMA Rows ==
    ASSUME NEW f
    PROVE  /\ Offset(f, "qkv", 1) = 0
           /\ Offset(f, "qkv", 2) = f.n_out["q"]
           /\ Offset(f, "qkv", 3) = f.n_out["q"] + f.n_out["k"]
           /\ Height(f, "qkv") = f.n_out["q"] + f.n_out["k"] + f.n_out["v"]
           /\ Offset(f, "gate_up", 1) = 0
           /\ Offset(f, "gate_up", 2) = f.n_out["gate"]
           /\ Height(f, "gate_up") = f.n_out["gate"] + f.n_out["up"]
<1>1. /\ Offset(f, "qkv", 1) = 0
      /\ Offset(f, "qkv", 2) = f.n_out["q"]
      /\ Offset(f, "qkv", 3) = f.n_out["q"] + f.n_out["k"]
  BY MemberNames DEF Offset
<1>2. Offset(f, "gate_up", 1) = 0 /\ Offset(f, "gate_up", 2) = f.n_out["gate"]
  BY MemberNames DEF Offset
<1> QED
  BY <1>1, <1>2, MemberNames DEF Height

(* A group is sound when it is registered. *)
LEMMA PutGroupSound ==
    ASSUME GroupInv, pc # "idle", NEW g \in FusedKinds, PutsGroup(g),
           NEW l, l = layer
    PROVE  GroupSound(l, g)'
<1> USE DEF GroupInv
<1> DEFINE f == load.file
           ms == Members(g)
           M(i) == registry[<<l, ms[i]>>]
           e == GroupEntry(f, g, M(1).ds)
<1>0. f \in Files /\ l \in Layers
  BY DEF LoadTyped
<1>1. registry'[<<l, g>>] = e
  BY <1>0 DEF PutsGroup, Names
<1>2. \A i \in 1 .. Len(ms) : registry'[<<l, ms[i]>>] = M(i)
  <2>1. \A i \in 1 .. Len(ms) : ms[i] # g /\ <<l, ms[i]>> \in Names
    BY <1>0, MembersAreKinds, FusedNames DEF Names
  <2> QED
    BY <2>1 DEF PutsGroup
<1>3. ASSUME NEW i \in 1 .. Len(ms)
      PROVE  /\ M(i) # NoEntry /\ M(i).mode = 0
             /\ M(i).n_in = f.n_in[ms[1]] /\ M(i).ds = M(1).ds
             /\ M(i).from = f /\ M(i).n_out = f.n_out[ms[i]]
  <2>1. M(i) # NoEntry /\ M(i).mode = 0 /\ M(i).n_in = f.n_in[ms[1]] /\ M(i).ds = M(1).ds
    BY DEF PutsGroup, Groupable
  <2>2. ms[i] \in Kinds /\ <<l, ms[i]>> \in Names
    BY <1>0, MembersAreKinds DEF Names
  <2>3. M(i).from = f
    BY <2>1, <2>2 DEF OwnEntries
  <2>4. M(i).n_out = f.n_out[ms[i]]
    BY <1>0, <2>1, <2>2, <2>3 DEF KindsFaithful, Faithful
  <2> QED
    BY <2>1, <2>3, <2>4
<1>4. /\ e.mode = 2 /\ e.ds = M(1).ds /\ e.n_in = f.n_in[ms[1]] /\ e.from = f
      /\ e.n_out = Height(f, g)
      /\ \A i \in 1 .. Len(ms) : e.offs[i] = Offset(f, g, i)
  BY DEF GroupEntry
<1>5. \A i \in 1 .. Len(ms) : f.n_out[ms[i]] \in Nat
  BY <1>0, MembersAreKinds, FilesAssumption
<1>6. /\ e.offs[1] = 0
      /\ \A i \in 1 .. Len(ms) - 1 : e.offs[i + 1] = e.offs[i] + M(i).n_out
      /\ e.n_out = e.offs[Len(ms)] + M(Len(ms)).n_out
  <2> HIDE DEF M, e, f
  <2>1. CASE g = "qkv"
    <3>1. Len(ms) = 3 /\ ms[1] = "q" /\ ms[2] = "k" /\ ms[3] = "v"
      BY <2>1, MemberNames
    <3> HIDE DEF ms
    <3>2. e.offs[1] = 0 /\ e.offs[2] = f.n_out["q"] /\ e.offs[3] = f.n_out["q"] + f.n_out["k"]
      BY <1>4, <2>1, <3>1, Rows
    <3>3. e.n_out = f.n_out["q"] + f.n_out["k"] + f.n_out["v"]
      BY <1>4, <2>1, Rows
    <3>4. M(1).n_out = f.n_out["q"] /\ M(2).n_out = f.n_out["k"] /\ M(3).n_out = f.n_out["v"]
      BY <1>3, <3>1
    <3>5. f.n_out["q"] \in Nat /\ f.n_out["k"] \in Nat /\ f.n_out["v"] \in Nat
      BY <1>5, <3>1
    <3> QED
      BY <3>1, <3>2, <3>3, <3>4, <3>5
  <2>2. CASE g = "gate_up"
    <3>1. Len(ms) = 2 /\ ms[1] = "gate" /\ ms[2] = "up"
      BY <2>2, MemberNames
    <3> HIDE DEF ms
    <3>2. e.offs[1] = 0 /\ e.offs[2] = f.n_out["gate"]
      BY <1>4, <2>2, <3>1, Rows
    <3>3. e.n_out = f.n_out["gate"] + f.n_out["up"]
      BY <1>4, <2>2, Rows
    <3>4. M(1).n_out = f.n_out["gate"] /\ M(2).n_out = f.n_out["up"]
      BY <1>3, <3>1
    <3>5. f.n_out["gate"] \in Nat /\ f.n_out["up"] \in Nat
      BY <1>5, <3>1
    <3> QED
      BY <3>1, <3>2, <3>3, <3>4, <3>5
  <2> QED
    BY <2>1, <2>2, FusedNames
<1>7. Len(ms) \in 1 .. Len(ms)
  BY MembersAreKinds
<1> QED
  <2> HIDE DEF M, e
  <2>1. \A i \in 1 .. Len(ms) : registry[<<l, ms[i]>>] = M(i)
    BY DEF M
  <2> QED
    BY <1>1, <1>2, <1>3, <1>4, <1>6, <1>7 DEF GroupSound

(***************************************************************************)
(* The invariant is inductive.                                             *)
(***************************************************************************)
LEMMA GroupInit == Init => GroupInv
<1> SUFFICES ASSUME Init PROVE GroupInv
  OBVIOUS
<1>1. LoadTyped
  BY LoadTypedInit
<1>2. \A l \in Layers, k \in Kinds \union FusedKinds : registry[<<l, k>>] = NoEntry
  BY DEF Init, Names
<1>3. KindsFaithful /\ GroupsSound
  BY <1>2 DEF KindsFaithful, Faithful, GroupsSound, GroupSound
<1> QED
  BY <1>1, <1>3 DEF Init, GroupInv, OwnEntries, Situated

LEMMA KindsStep == GroupInv /\ [Next]_vars => DOMAIN registry' = Names /\ KindsFaithful'
<1> SUFFICES ASSUME GroupInv, [Next]_vars PROVE DOMAIN registry' = Names /\ KindsFaithful'
  OBVIOUS
<1> USE DEF GroupInv, KindsFaithful
<1>1. CASE UNCHANGED <<registry, pool>>
  BY <1>1
<1>2. CASE Begin
  BY <1>2 DEF Begin, Faithful, Names
<1>3. ASSUME NEW k \in Kinds, NEW e, PutsKind(k, e) PROVE DOMAIN registry' = Names /\ KindsFaithful'
  BY <1>3 DEF PutsKind, Register, Names
<1>4. ASSUME NEW g \in FusedKinds, PutsGroup(g) PROVE DOMAIN registry' = Names /\ KindsFaithful'
  BY <1>4, FusedNames DEF PutsGroup, Names
<1> QED
  BY <1>1, <1>2, <1>3, <1>4, RegistrySteps

(* Registering a kind leaves the groups' entries alone and adds an entry   *)
(* of the file being loaded; registering a group likewise.                 *)
LEMMA PutKindEntries ==
    ASSUME GroupInv, pc # "idle", NEW k \in Kinds, NEW e, PutsKind(k, e)
    PROVE  /\ \A l \in Layers, g \in FusedKinds : registry'[<<l, g>>] = registry[<<l, g>>]
           /\ \A n \in Names : registry'[n] # NoEntry => registry'[n].from = load.file
<1> USE DEF GroupInv
<1>1. \A n \in Names : registry'[n] = registry[n] \/ (n = <<layer, k>> /\ registry'[n] = e)
  BY DEF PutsKind, Register
<1>2. \A l \in Layers, g \in FusedKinds : <<l, g>> \in Names /\ g # k
  BY FusedNames DEF Names
<1> QED
  BY <1>1, <1>2 DEF PutsKind, OwnEntries

LEMMA PutGroupEntries ==
    ASSUME GroupInv, pc # "idle", NEW h \in FusedKinds, PutsGroup(h)
    PROVE  /\ \A l \in Layers, g \in FusedKinds :
                 l # layer \/ g # h => registry'[<<l, g>>] = registry[<<l, g>>]
           /\ \A n \in Names : registry'[n] # NoEntry => registry'[n].from = load.file
           /\ GroupsSound'
<1> USE DEF GroupInv
<1>0. layer \in Layers
  BY DEF LoadTyped
<1>1. \A n \in Names :
          \/ n # <<layer, h>> /\ registry'[n] = registry[n]
          \/ n = <<layer, h>> /\ registry'[n].from = load.file
  BY DEF PutsGroup, GroupEntry
<1>2. \A l \in Layers, g \in FusedKinds : <<l, g>> \in Names
  BY DEF Names
<1>3. \A l \in Layers, g \in FusedKinds :
          l # layer \/ g # h => registry'[<<l, g>>] = registry[<<l, g>>]
  BY <1>1, <1>2
<1>4. ASSUME NEW l \in Layers, NEW g \in FusedKinds PROVE GroupSound(l, g)'
  <2>1. CASE l = layer /\ g = h
    BY <2>1, PutGroupSound
  <2>2. CASE l # layer \/ g # h
    <3>1. GroupSound(l, g)
      BY DEF GroupsSound
    <3>2. registry'[<<l, g>>] = registry[<<l, g>>]
      BY <1>3, <2>2
    <3>3. \A i \in 1 .. Len(Members(g)) :
              registry'[<<l, Members(g)[i]>>] = registry[<<l, Members(g)[i]>>]
      <4>1. \A i \in 1 .. Len(Members(g)) : Members(g)[i] # h /\ <<l, Members(g)[i]>> \in Names
        BY MembersAreKinds, FusedNames DEF Names
      <4> QED
        BY <1>1, <4>1
    <3> QED
      BY <3>1, <3>2, <3>3, SoundnessIsLocal
  <2> QED
    BY <2>1, <2>2
<1> QED
  BY <1>1, <1>3, <1>4 DEF OwnEntries, GroupsSound

LEMMA GroupStep == GroupInv /\ [Next]_vars => GroupInv'
<1> SUFFICES ASSUME GroupInv, [Next]_vars PROVE GroupInv'
  OBVIOUS
<1>0. LoadTyped /\ LoadTyped' /\ DOMAIN registry' = Names /\ KindsFaithful'
  BY LoadTypedStep, KindsStep DEF GroupInv
<1>u. ASSUME UNCHANGED registry PROVE GroupsSound'
  <2>1. ASSUME NEW l \in Layers, NEW g \in FusedKinds PROVE GroupSound(l, g)'
    <3>1. GroupSound(l, g)
      BY DEF GroupInv, GroupsSound
    <3> QED
      BY <1>u, <3>1, SoundnessIsLocal
  <2> QED
    BY <2>1 DEF GroupsSound
<1>1. CASE Load
  <2>1. ASSUME NEW f \in Files, LoadPlain(f) PROVE OwnEntries' /\ Situated' /\ GroupsSound'
    BY <1>u, <2>1 DEF GroupInv, LoadPlain, OwnEntries, Situated, Before, Pointer
  <2>2. ASSUME NEW f \in Files, LoadWithPQ(f) PROVE OwnEntries' /\ Situated' /\ GroupsSound'
    <3>1. \A n \in Names : registry'[n] = NoEntry
      BY <2>2 DEF LoadWithPQ, Begin
    <3>2. \A l \in Layers, g \in FusedKinds : <<l, g>> \in Names
      BY DEF Names
    <3> QED
      BY <3>1, <3>2 DEF OwnEntries, Situated, GroupsSound, GroupSound
  <2> QED
    BY <1>0, <1>1, <2>1, <2>2 DEF Load, GroupInv
<1>2. CASE Free \/ Finish
  <2>1. UNCHANGED <<registry, load>> /\ pc' = "idle"
    BY <1>2 DEF Free, Finish, GoTo
  <2> QED
    BY <1>0, <1>u, <2>1 DEF GroupInv, OwnEntries, Situated
<1>3. CASE BuildQkv
  <2>1. UNCHANGED <<registry, load, layer, wqkv, ffnUp>> /\ pc = "buildQkv" /\ pc' # "buildQkv"
    BY <1>3 DEF BuildQkv, Create, GoTo
  <2>2. Situated'
    BY <2>1 DEF GroupInv, Situated, Before, Pointer
  <2>3. OwnEntries'
    BY <2>1 DEF GroupInv, OwnEntries
  <2> QED
    BY <1>0, <1>u, <2>1, <2>2, <2>3 DEF GroupInv
<1>4. CASE BuildGateUp
  <2>1. /\ UNCHANGED <<registry, load, layer, wqkv, ffnUp>>
        /\ pc = "buildGateUp" /\ pc' \in {"gate_up", "single", "aborted"}
    BY <1>4 DEF BuildGateUp, Create, GoTo
  <2>2. Situated'
    BY <2>1 DEF GroupInv, Situated, Before, Pointer
  <2>3. OwnEntries'
    BY <2>1 DEF GroupInv, OwnEntries
  <2> QED
    BY <1>0, <1>u, <2>1, <2>2, <2>3 DEF GroupInv
<1>5. CASE RegisterQkv
  <2> DEFINE k == Members("qkv")[member]
             e == MemberEntry(load.file, k)
  <2>1. k \in Kinds /\ load.file \in Files
    BY <1>0, <1>5, MemberNames DEF RegisterQkv, Kinds, LoadTyped
  <2>2. PutsKind(k, e)
    BY <1>5, <2>1, MemberFaithful DEF RegisterQkv, PutsKind
  <2>3. /\ UNCHANGED <<load, layer, wqkv, ffnUp>>
        /\ pc = "qkv" /\ pc' \in {"qkv", "groupQkv", "buildGateUp"}
    BY <1>5 DEF RegisterQkv, GoTo
  <2> HIDE DEF k, e
  <2>4. \A g \in FusedKinds : registry[<<layer, g>>] = NoEntry
    BY <1>0, <2>3 DEF GroupInv, Situated, Before, LoadTyped
  <2>5. GroupsSound'
    BY <2>1, <2>2, <2>4, PutKindKeepsGroups
  <2>6. /\ \A l \in Layers, g \in FusedKinds : registry'[<<l, g>>] = registry[<<l, g>>]
        /\ \A n \in Names : registry'[n] # NoEntry => registry'[n].from = load.file
    BY <2>1, <2>2, <2>3, PutKindEntries
  <2>7. Situated'
    BY <2>3, <2>4, <2>6 DEF GroupInv, Situated, Before, Pointer
  <2> QED
    BY <1>0, <2>3, <2>5, <2>6, <2>7 DEF GroupInv, OwnEntries
<1>6. CASE RegisterGateUp
  <2> DEFINE k == Members("gate_up")[member]
             e == MemberEntry(load.file, k)
  <2>1. k \in {"gate", "up"} /\ k \in Kinds /\ load.file \in Files
    BY <1>0, <1>6, MemberNames DEF RegisterGateUp, Kinds, LoadTyped
  <2>2. PutsKind(k, e)
    BY <1>6, <2>1, MemberFaithful DEF RegisterGateUp, PutsKind
  <2>3. /\ UNCHANGED <<load, layer, wqkv, ffnUp>>
        /\ pc = "gate_up" /\ pc' \in {"gate_up", "groupGateUp"}
    BY <1>6 DEF RegisterGateUp, GoTo
  <2> HIDE DEF k, e
  <2>4. registry[<<layer, "gate_up">>] = NoEntry
    BY <1>0, <2>3, FusedNames DEF GroupInv, Situated, Before, LoadTyped
  <2>5. \A i \in 1 .. Len(Members("qkv")) : Members("qkv")[i] # k
    BY <2>1, MemberNames
  <2>6. GroupsSound'
    BY <2>1, <2>2, <2>4, <2>5, FusedNames, PutKindKeepsGroups
  <2>7. /\ \A l \in Layers, g \in FusedKinds : registry'[<<l, g>>] = registry[<<l, g>>]
        /\ \A n \in Names : registry'[n] # NoEntry => registry'[n].from = load.file
    BY <2>1, <2>2, <2>3, PutKindEntries
  <2>8. Situated'
    BY <2>3, <2>4, <2>7, FusedNames DEF GroupInv, Situated, Before, Pointer
  <2> QED
    BY <1>0, <2>3, <2>6, <2>7, <2>8 DEF GroupInv, OwnEntries
<1>7. CASE GroupQkv
  <2>0. /\ UNCHANGED <<load, layer, ffnUp>> /\ pc = "groupQkv" /\ pc' = "buildGateUp"
        /\ wqkv \in [Files -> [Layers -> BOOLEAN]] /\ load.file \in Files /\ layer \in Layers
    BY <1>0, <1>7 DEF GroupQkv, GoTo, LoadTyped
  <2>1. \A g \in FusedKinds : registry[<<layer, g>>] = NoEntry
    BY <2>0 DEF GroupInv, Situated, Before
  <2>2. CASE Groupable(load.file, "qkv", layer)
    <3>1. PutsGroup("qkv")
      BY <1>7, <2>2, MemberNames DEF GroupQkv, PutsGroup, FusedKinds
    <3>2. wqkv'[load.file][layer] = TRUE
      BY <1>7, <2>0, <2>2 DEF GroupQkv
    <3>3. /\ \A l \in Layers, g \in FusedKinds :
                l # layer \/ g # "qkv" => registry'[<<l, g>>] = registry[<<l, g>>]
          /\ \A n \in Names : registry'[n] # NoEntry => registry'[n].from = load.file
          /\ GroupsSound'
      BY <2>0, <3>1, FusedNames, PutGroupEntries
    <3>4. ASSUME NEW l \in Layers, NEW h \in FusedKinds, registry'[<<l, h>>] # NoEntry
          PROVE  l <= layer /\ (l = layer => pc' \notin Before(h) /\ Pointer(h)' = TRUE)
      <4>1. CASE l = layer /\ h = "qkv"
        BY <2>0, <3>2, <4>1 DEF Before, Pointer, Layers
      <4>2. CASE l # layer \/ h # "qkv"
        <5>1. registry[<<l, h>>] # NoEntry
          BY <3>3, <3>4, <4>2
        <5>2. l <= layer /\ (l = layer => pc \notin Before(h) /\ Pointer(h) = TRUE)
          BY <2>0, <5>1 DEF GroupInv, Situated
        <5> QED
          BY <2>0, <2>1, <4>2, <5>1, <5>2, FusedNames DEF Before, Pointer
      <4> QED
        BY <4>1, <4>2
    <3> QED
      BY <1>0, <2>0, <3>3, <3>4 DEF GroupInv, OwnEntries, Situated
  <2>3. CASE ~Groupable(load.file, "qkv", layer)
    <3>1. UNCHANGED <<registry, wqkv>>
      BY <1>7, <2>3 DEF GroupQkv
    <3>2. Situated'
      BY <2>0, <2>1, <3>1 DEF GroupInv, Situated, Before, Pointer
    <3> QED
      BY <1>0, <1>u, <2>0, <3>1, <3>2 DEF GroupInv, OwnEntries
  <2> QED
    BY <2>2, <2>3
<1>8. CASE GroupGateUp
  <2>0. /\ UNCHANGED <<load, layer, wqkv>> /\ pc = "groupGateUp" /\ pc' = "single"
        /\ ffnUp \in [Files -> [Layers -> BOOLEAN]] /\ load.file \in Files /\ layer \in Layers
    BY <1>0, <1>8 DEF GroupGateUp, GoTo, LoadTyped
  <2>1. registry[<<layer, "gate_up">>] = NoEntry
    BY <2>0, FusedNames DEF GroupInv, Situated, Before
  <2>2. CASE UNCHANGED <<registry, ffnUp>>
    <3>1. Situated'
      BY <2>0, <2>1, <2>2, FusedNames DEF GroupInv, Situated, Before, Pointer
    <3> QED
      BY <1>0, <1>u, <2>0, <2>2, <3>1 DEF GroupInv, OwnEntries
  <2>3. CASE ~UNCHANGED <<registry, ffnUp>>
    <3>1. PutsGroup("gate_up") /\ ffnUp' = [ffnUp EXCEPT ![load.file][layer] = TRUE]
      BY <1>8, <2>3, MemberNames DEF GroupGateUp, PutsGroup, FusedKinds
    <3>2. ffnUp'[load.file][layer] = TRUE
      BY <2>0, <3>1
    <3>3. /\ \A l \in Layers, g \in FusedKinds :
                l # layer \/ g # "gate_up" => registry'[<<l, g>>] = registry[<<l, g>>]
          /\ \A n \in Names : registry'[n] # NoEntry => registry'[n].from = load.file
          /\ GroupsSound'
      BY <2>0, <3>1, FusedNames, PutGroupEntries
    <3>4. ASSUME NEW l \in Layers, NEW h \in FusedKinds, registry'[<<l, h>>] # NoEntry
          PROVE  l <= layer /\ (l = layer => pc' \notin Before(h) /\ Pointer(h)' = TRUE)
      <4>1. CASE l = layer /\ h = "gate_up"
        BY <2>0, <3>2, <4>1 DEF Before, Pointer, Layers
      <4>2. CASE l # layer \/ h # "gate_up"
        <5>1. registry[<<l, h>>] # NoEntry
          BY <3>3, <3>4, <4>2
        <5>2. l <= layer /\ (l = layer => pc \notin Before(h) /\ Pointer(h) = TRUE)
          BY <2>0, <5>1 DEF GroupInv, Situated
        <5> QED
          BY <2>0, <2>1, <4>2, <5>1, <5>2, FusedNames DEF Before, Pointer
      <4> QED
        BY <4>1, <4>2
    <3> QED
      BY <1>0, <2>0, <3>3, <3>4 DEF GroupInv, OwnEntries, Situated
  <2> QED
    BY <2>2, <2>3
<1>9. CASE Single
  <2> DEFINE k == Candidates[member]
             e == SingleEntry(load.file, k, load)
  <2>1. k \in Kinds /\ load.file \in Files /\ layer \in Layers
    BY <1>0, <1>9, CandidateKinds DEF Single, LoadTyped
  <2>2. /\ UNCHANGED <<load, wqkv, ffnUp>> /\ pc = "single"
        /\ \/ layer' = layer /\ pc' \in {"single", "finish"}
           \/ layer' = layer + 1 /\ pc' = "buildQkv"
    BY <1>9 DEF Single, GoTo
  <2>3. ASSUME \A l \in Layers, g \in FusedKinds : registry'[<<l, g>>] = registry[<<l, g>>]
        PROVE  Situated'
    <3>1. layer \in Nat /\ \A l \in Layers : l \in Nat
      BY <2>1 DEF Layers
    <3>2. \A l \in Layers, g \in FusedKinds :
              registry[<<l, g>>] # NoEntry => l <= layer /\ (l = layer => Pointer(g) = TRUE)
      BY <2>2 DEF GroupInv, Situated
    <3> QED
      BY <2>2, <2>3, <3>1, <3>2 DEF Situated, Before, Pointer
  <2>4. CASE Grouped(k)
    <3>1. UNCHANGED registry
      BY <1>9, <2>4 DEF Single
    <3> QED
      BY <1>0, <1>u, <2>2, <2>3, <3>1 DEF GroupInv, OwnEntries
  <2>5. CASE ~Grouped(k)
    <3>1. PutsKind(k, e)
      BY <1>0, <1>9, <2>1, <2>5, SingleFaithful DEF Single, PutsKind, LoadTyped
    <3> HIDE DEF k, e
    <3>2. \A g \in FusedKinds : registry[<<layer, g>>] # NoEntry =>
              \A i \in 1 .. Len(Members(g)) : Members(g)[i] # k
      <4>1. \A g \in FusedKinds : registry[<<layer, g>>] # NoEntry => Pointer(g) = TRUE
        BY <2>1, <2>2 DEF GroupInv, Situated
      <4>2. registry[<<layer, "qkv">>] # NoEntry => k \notin {"q", "k", "v"}
        BY <2>5, <4>1, FusedNames DEF Pointer, Grouped
      <4>3. registry[<<layer, "gate_up">>] # NoEntry => k \notin {"gate", "up"}
        BY <2>5, <4>1, FusedNames DEF Pointer, Grouped
      <4> QED
        BY <4>2, <4>3, FusedNames, MemberNames
    <3>3. GroupsSound'
      BY <2>1, <3>1, <3>2, PutKindKeepsGroups
    <3>4. /\ \A l \in Layers, g \in FusedKinds : registry'[<<l, g>>] = registry[<<l, g>>]
          /\ \A n \in Names : registry'[n] # NoEntry => registry'[n].from = load.file
      BY <2>1, <2>2, <3>1, PutKindEntries
    <3> QED
      BY <1>0, <2>2, <2>3, <3>3, <3>4 DEF GroupInv, OwnEntries
  <2> QED
    BY <2>4, <2>5
<1>10. CASE Gone \/ UNCHANGED vars
  BY <1>0, <1>10, <1>u DEF Gone, vars, GroupInv, OwnEntries, Situated, Before, Pointer
<1> QED
  BY <1>1, <1>2, <1>3, <1>4, <1>5, <1>6, <1>7, <1>8, <1>9, <1>10, Zenon DEF Next

(* A group's members are always registered as S1 tensors of the group's    *)
(* file, input and ds, and their rows are the rows of the group.           *)
THEOREM LoadGroups == Spec => []GroupsSound
<1>1. GroupInv => GroupsSound
  BY DEF GroupInv
<1> QED
  BY <1>1, GroupInit, GroupStep, PTL DEF Spec

(* All that is registered is of the last file loaded with PQ decode.       *)
RegistryOwn ==
    /\ DOMAIN registry = Names
    /\ \A n \in Names : registry[n] # NoEntry => registry[n].from = load.file

LEMMA OwnEntriesStep ==
    ASSUME LoadTyped, RegistryOwn, [Next]_vars, UNCHANGED load
    PROVE  RegistryOwn'
<1>1. CASE UNCHANGED <<registry, pool>>
  BY <1>1 DEF RegistryOwn
<1>2. CASE Begin
  <2>1. DOMAIN registry' = Names /\ \A n \in Names : registry'[n] = NoEntry
    BY <1>2 DEF Begin
  <2> QED
    BY <2>1 DEF RegistryOwn
<1>3. ASSUME NEW k \in Kinds, NEW e, PutsKind(k, e) PROVE RegistryOwn'
  <2>1. /\ DOMAIN registry' = Names
        /\ \A n \in Names : registry'[n] = registry[n] \/ registry'[n] = e
    BY <1>3 DEF PutsKind, Register, RegistryOwn
  <2> QED
    BY <1>3, <2>1 DEF RegistryOwn, PutsKind
<1>4. ASSUME NEW g \in FusedKinds, PutsGroup(g) PROVE RegistryOwn'
  <2>1. /\ DOMAIN registry' = Names
        /\ \A n \in Names : registry'[n] = registry[n] \/ registry'[n].from = load.file
    BY <1>4 DEF PutsGroup, GroupEntry, RegistryOwn
  <2> QED
    BY <2>1 DEF RegistryOwn
<1> QED
  BY <1>1, <1>2, <1>3, <1>4, RegistrySteps

(***************************************************************************)
(* Whose weights a decode uses, if one model is loaded at a time and every *)
(* model loaded after the first with PQ decode asks for it, too.           *)
(***************************************************************************)
OneAtATime == ~Plain /\ ~Together

(* The registry belongs to the last file loaded with PQ decode, and while  *)
(* it is in force no other model is there.                                 *)
OwnInv ==
    /\ LoadTyped
    /\ RegistryOwn
    /\ loaded \in [Files -> {"no", "plain", "pq"}]
    /\ \A f, g \in Files : loaded[f] # "no" /\ loaded[g] # "no" => f = g
    /\ pc # "idle" => \A f \in Files : loaded[f] = "no"
    /\ enabled => \A f \in Files : loaded[f] # "no" => loaded[f] = "pq" /\ f = load.file

LEMMA OwnInit == Init => OwnInv
  BY LoadTypedInit DEF Init, OwnInv, RegistryOwn

LEMMA OwnStep == OneAtATime /\ OwnInv /\ [Next]_vars => OwnInv'
<1> SUFFICES ASSUME OneAtATime, OwnInv, [Next]_vars PROVE OwnInv'
  OBVIOUS
<1>0. LoadTyped /\ LoadTyped' /\ load.file \in Files
  BY LoadTypedStep DEF OwnInv, LoadTyped
<1>r. UNCHANGED load => RegistryOwn'
  BY OwnEntriesStep DEF OwnInv, RegistryOwn
<1>1. CASE Load
  <2>1. PICK f \in Files : /\ loaded[f] = "no"
                           /\ Together \/ \A g \in Files : loaded[g] = "no"
                           /\ ((Plain \/ ~enabled) /\ LoadPlain(f)) \/ LoadWithPQ(f)
    BY <1>1 DEF Load
  <2>2. \A g \in Files : loaded[g] = "no"
    BY <2>1 DEF OneAtATime
  <2>3. CASE ~enabled /\ LoadPlain(f)
    BY <1>0, <1>1, <1>r, <2>2, <2>3 DEF LoadPlain, Load, OwnInv
  <2>4. CASE LoadWithPQ(f)
    BY <1>0, <2>2, <2>4 DEF LoadWithPQ, Begin, OwnInv, RegistryOwn
  <2> QED
    BY <2>1, <2>3, <2>4 DEF OneAtATime
<1>2. CASE Free
  <2>1. UNCHANGED <<registry, enabled, load, pc>> /\ pc = "idle"
    BY <1>2 DEF Free
  <2>2. PICK f \in Files : loaded' = [loaded EXCEPT ![f] = "no"]
    BY <1>2 DEF Free
  <2> QED
    BY <1>0, <1>r, <2>1, <2>2 DEF OwnInv
<1>3. CASE Finish
  <2>1. /\ UNCHANGED <<registry, load>> /\ pc = "finish" /\ pc' = "idle"
        /\ loaded' = [loaded EXCEPT ![load.file] = "pq"]
    BY <1>3 DEF Finish, GoTo
  <2> QED
    BY <1>0, <1>r, <2>1 DEF OwnInv
<1>4. CASE \/ BuildQkv \/ RegisterQkv \/ GroupQkv \/ BuildGateUp \/ RegisterGateUp
           \/ GroupGateUp \/ Single \/ Gone \/ UNCHANGED vars
  <2>1. UNCHANGED <<load, loaded, enabled>> /\ (pc # "idle" \/ UNCHANGED pc)
    BY <1>4 DEF BuildQkv, RegisterQkv, GroupQkv, BuildGateUp, RegisterGateUp,
                GroupGateUp, Single, Gone, vars, settled
  <2> QED
    BY <1>0, <1>r, <2>1 DEF OwnInv
<1> QED
  BY <1>1, <1>2, <1>3, <1>4 DEF Next

(* A decode uses quantized weights only in a model that asked for them,    *)
(* and only that model's.                                                  *)
THEOREM LoadOwnWeights == OneAtATime /\ Spec => []UsesOwnWeights
<1>1. OwnInv => UsesOwnWeights
  <2> SUFFICES ASSUME OwnInv, NEW f \in Files, NEW l \in Layers, loaded[f] # "no",
                      NEW k \in Nodes(f, l), Intercepted(f, l, k)
               PROVE  loaded[f] = "pq" /\ registry[<<l, k>>].from = f
    BY DEF UsesOwnWeights
  <2>1. <<l, k>> \in Names
    BY DEF Nodes, Names, Kinds, FusedKinds
  <2> QED
    BY <2>1 DEF OwnInv, RegistryOwn, Intercepted
<1>2. CASE OneAtATime
  <2>1. OwnInv /\ [Next]_vars => OwnInv'
    BY <1>2, OwnStep
  <2>2. Spec => []UsesOwnWeights
    BY OwnInit, <1>1, <2>1, PTL DEF Spec
  <2> QED
    BY <2>2
<1> QED
  BY <1>2

(***************************************************************************)
(* What is registered is used.  A pointer to a fused tensor is set only    *)
(* with the group's entry and taken back only with the model, and a file   *)
(* that is not loaded has none.                                            *)
(***************************************************************************)
StandsFor(e, g, f) ==
    /\ e # NoEntry
    /\ e.n_in = f.n_in[Members(g)[1]]
    /\ e.n_out = Height(f, g)

Kept ==
    \A l \in Layers :
        /\ wqkv[load.file][l] = TRUE => StandsFor(registry[<<l, "qkv">>], "qkv", load.file)
        /\ ffnUp[load.file][l] = TRUE => StandsFor(registry[<<l, "gate_up">>], "gate_up", load.file)

Fresh ==
    /\ loaded \in [Files -> {"no", "plain", "pq"}]
    /\ pc # "idle" => loaded[load.file] = "no"
    /\ \A f \in Files : loaded[f] = "no" /\ (pc = "idle" \/ f # load.file) =>
          \A l \in Layers : wqkv[f][l] = FALSE /\ ffnUp[f][l] = FALSE

UsedInv == GroupInv /\ RegistryOwn /\ Fresh /\ Kept

LEMMA UsedInit == Init => UsedInv
<1> SUFFICES ASSUME Init PROVE UsedInv
  OBVIOUS
<1>1. GroupInv /\ load.file \in Files
  BY GroupInit DEF GroupInv, LoadTyped
<1>2. \A f \in Files, l \in Layers : wqkv[f][l] = FALSE /\ ffnUp[f][l] = FALSE
  BY DEF Init
<1> QED
  BY <1>1, <1>2 DEF Init, UsedInv, RegistryOwn, Fresh, Kept

(* Steps that leave the pointers and the groups' entries alone. *)
LEMMA KeptUnchanged ==
    ASSUME LoadTyped, Kept, UNCHANGED <<load, wqkv, ffnUp>>,
           \A l \in Layers, g \in FusedKinds : registry'[<<l, g>>] = registry[<<l, g>>]
    PROVE  Kept'
<1>1. "qkv" \in FusedKinds /\ "gate_up" \in FusedKinds
  BY FusedNames
<1> QED
  BY <1>1 DEF Kept

LEMMA KeptGroup ==
    ASSUME GroupInv, Kept, pc # "idle", NEW g \in FusedKinds, PutsGroup(g), UNCHANGED load,
           IF g = "qkv" THEN /\ wqkv' = [wqkv EXCEPT ![load.file][layer] = TRUE]
                             /\ UNCHANGED ffnUp
           ELSE /\ ffnUp' = [ffnUp EXCEPT ![load.file][layer] = TRUE]
                /\ UNCHANGED wqkv
    PROVE  Kept'
<1> DEFINE f == load.file
<1>0. /\ f \in Files /\ layer \in Layers /\ DOMAIN registry = Names
      /\ wqkv \in [Files -> [Layers -> BOOLEAN]] /\ ffnUp \in [Files -> [Layers -> BOOLEAN]]
      /\ "qkv" \in FusedKinds /\ "gate_up" \in FusedKinds
  BY FusedNames DEF GroupInv, LoadTyped
<1>1. \A l \in Layers, h \in FusedKinds : l # layer \/ h # g => registry'[<<l, h>>] = registry[<<l, h>>]
  BY PutGroupEntries
<1>2. registry'[<<layer, g>>] = GroupEntry(f, g, registry[<<layer, Members(g)[1]>>].ds)
  <2>1. <<layer, g>> \in Names
    BY <1>0 DEF Names
  <2> QED
    BY <1>0, <2>1 DEF PutsGroup
<1>3. StandsFor(registry'[<<layer, g>>], g, f)
  BY <1>2 DEF StandsFor, GroupEntry, NoEntry
<1>5. CASE g = "qkv"
  <2>1. /\ \A l \in Layers : l # layer => wqkv'[f][l] = wqkv[f][l]
        /\ ffnUp' = ffnUp
    BY <1>0, <1>5
  <2> QED
    BY <1>0, <1>1, <1>3, <1>5, <2>1 DEF Kept
<1>6. CASE g = "gate_up"
  <2>1. /\ \A l \in Layers : l # layer => ffnUp'[f][l] = ffnUp[f][l]
        /\ wqkv' = wqkv
    BY <1>0, <1>6
  <2> QED
    BY <1>0, <1>1, <1>3, <1>6, <2>1 DEF Kept
<1> QED
  BY <1>5, <1>6, FusedNames

(* A step of the loop over the layers changes the pointers of the file     *)
(* being loaded only.                                                      *)
LEMMA FreshStep ==
    ASSUME LoadTyped, Fresh, pc # "idle", UNCHANGED <<load, loaded>>, pc' # "idle",
           \A f \in Files : f # load.file => wqkv'[f] = wqkv[f] /\ ffnUp'[f] = ffnUp[f]
    PROVE  Fresh'
BY DEF Fresh, LoadTyped

LEMMA UsedStep == UsedInv /\ [Next]_vars => UsedInv'
<1> SUFFICES ASSUME UsedInv, [Next]_vars PROVE UsedInv'
  OBVIOUS
<1>0. /\ GroupInv /\ GroupInv' /\ RegistryOwn /\ Fresh /\ Kept
      /\ LoadTyped /\ load.file \in Files /\ layer \in Layers
      /\ wqkv \in [Files -> [Layers -> BOOLEAN]] /\ ffnUp \in [Files -> [Layers -> BOOLEAN]]
  BY GroupStep DEF UsedInv, GroupInv, LoadTyped
<1>1. UNCHANGED load => RegistryOwn'
  BY <1>0, OwnEntriesStep
<1>2. CASE Load
  <2>1. PICK f \in Files : loaded[f] = "no" /\ (LoadPlain(f) \/ LoadWithPQ(f)) /\ pc = "idle"
    BY <1>2 DEF Load
  <2>2. CASE LoadPlain(f)
    <3>1. loaded' = [loaded EXCEPT ![f] = "plain"] /\ UNCHANGED <<registry, load, pc, wqkv, ffnUp>>
      BY <2>2 DEF LoadPlain
    <3>2. Fresh'
      BY <1>0, <2>1, <3>1 DEF Fresh
    <3>3. Kept'
      BY <1>0, <3>1, KeptUnchanged
    <3> QED
      BY <1>0, <1>1, <3>1, <3>2, <3>3 DEF UsedInv
  <2>3. CASE LoadWithPQ(f)
    <3>1. /\ load'.file = f /\ pc' = "buildQkv" /\ UNCHANGED <<loaded, wqkv, ffnUp>>
          /\ registry' = [n \in Names |-> NoEntry]
      BY <2>3 DEF LoadWithPQ, Begin
    <3>2. \A l \in Layers : wqkv[f][l] = FALSE /\ ffnUp[f][l] = FALSE
      BY <1>0, <2>1 DEF Fresh
    <3>3. Kept'
      BY <3>1, <3>2 DEF Kept
    <3>4. Fresh'
      BY <1>0, <2>1, <3>1 DEF Fresh
    <3>5. RegistryOwn'
      BY <3>1 DEF RegistryOwn
    <3> QED
      BY <1>0, <3>3, <3>4, <3>5 DEF UsedInv
  <2> QED
    BY <2>1, <2>2, <2>3
<1>3. CASE Free
  <2>1. PICK f \in Files : /\ loaded' = [loaded EXCEPT ![f] = "no"]
                           /\ wqkv' = [wqkv EXCEPT ![f] = [l \in Layers |-> FALSE]]
                           /\ ffnUp' = [ffnUp EXCEPT ![f] = [l \in Layers |-> FALSE]]
    BY <1>3 DEF Free
  <2>2. UNCHANGED <<registry, load, pc>> /\ pc = "idle"
    BY <1>3 DEF Free
  <2>3. \A h \in Files : IF h = f THEN \A l \in Layers : wqkv'[h][l] = FALSE /\ ffnUp'[h][l] = FALSE
                         ELSE wqkv'[h] = wqkv[h] /\ ffnUp'[h] = ffnUp[h]
    BY <1>0, <2>1
  <2>4. Fresh'
    BY <1>0, <2>1, <2>2, <2>3 DEF Fresh
  <2>5. Kept'
    BY <1>0, <2>2, <2>3 DEF Kept
  <2> QED
    BY <1>0, <1>1, <2>2, <2>4, <2>5 DEF UsedInv
<1>4. CASE Finish
  <2>1. /\ UNCHANGED <<registry, load, wqkv, ffnUp>> /\ pc = "finish" /\ pc' = "idle"
        /\ loaded' = [loaded EXCEPT ![load.file] = "pq"]
    BY <1>4 DEF Finish, GoTo
  <2>2. Fresh'
    BY <1>0, <2>1 DEF Fresh
  <2>3. Kept'
    BY <1>0, <2>1, KeptUnchanged
  <2> QED
    BY <1>0, <1>1, <2>1, <2>2, <2>3 DEF UsedInv
<1>5. CASE BuildQkv \/ BuildGateUp \/ Gone \/ UNCHANGED vars
  <2>1. /\ UNCHANGED <<registry, load, loaded, wqkv, ffnUp>>
        /\ UNCHANGED pc \/ (pc # "idle" /\ pc' # "idle")
    BY <1>5 DEF BuildQkv, BuildGateUp, Gone, vars, Create, GoTo
  <2>2. Fresh'
    BY <1>0, <2>1 DEF Fresh
  <2>3. Kept'
    BY <1>0, <2>1, KeptUnchanged
  <2> QED
    BY <1>0, <1>1, <2>1, <2>2, <2>3 DEF UsedInv
<1>6. CASE RegisterQkv \/ RegisterGateUp \/ Single
  <2>1. /\ UNCHANGED <<load, loaded, wqkv, ffnUp>> /\ pc # "idle" /\ pc' # "idle"
    BY <1>6 DEF RegisterQkv, RegisterGateUp, Single, GoTo, settled
  <2>2. \A l \in Layers, g \in FusedKinds : registry'[<<l, g>>] = registry[<<l, g>>]
    <3>1. CASE UNCHANGED registry
      BY <3>1
    <3>2. ASSUME NEW k \in Kinds, NEW e, PutsKind(k, e)
          PROVE  \A l \in Layers, g \in FusedKinds : registry'[<<l, g>>] = registry[<<l, g>>]
      BY <1>0, <2>1, <3>2, PutKindEntries
    <3>3. \/ UNCHANGED registry
          \/ \E k \in Kinds : \/ PutsKind(k, MemberEntry(load.file, k))
                              \/ PutsKind(k, SingleEntry(load.file, k, load))
      <4>1. CASE RegisterQkv
        <5>1. Members("qkv")[member] \in Kinds
          BY <1>0, <4>1, MemberNames DEF RegisterQkv, Kinds, LoadTyped
        <5> QED
          BY <1>0, <4>1, <5>1, MemberFaithful DEF RegisterQkv, PutsKind
      <4>2. CASE RegisterGateUp
        <5>1. Members("gate_up")[member] \in Kinds
          BY <1>0, <4>2, MemberNames DEF RegisterGateUp, Kinds, LoadTyped
        <5> QED
          BY <1>0, <4>2, <5>1, MemberFaithful DEF RegisterGateUp, PutsKind
      <4>3. CASE Single
        <5>1. Candidates[member] \in Kinds
          BY <1>0, <4>3, CandidateKinds DEF Single, LoadTyped
        <5> QED
          BY <1>0, <4>3, <5>1, SingleFaithful DEF Single, PutsKind, LoadTyped
      <4> QED
        BY <1>6, <4>1, <4>2, <4>3
    <3> QED
      BY <3>1, <3>2, <3>3
  <2> QED
    BY <1>0, <1>1, <2>1, <2>2, FreshStep, KeptUnchanged DEF UsedInv
<1>7. CASE GroupQkv \/ GroupGateUp
  <2>1. UNCHANGED <<load, loaded>> /\ pc # "idle" /\ pc' # "idle"
    BY <1>7 DEF GroupQkv, GroupGateUp, GoTo, settled
  <2>2. \/ UNCHANGED <<registry, wqkv, ffnUp>>
        \/ \E g \in FusedKinds : /\ PutsGroup(g)
             /\ IF g = "qkv" THEN /\ wqkv' = [wqkv EXCEPT ![load.file][layer] = TRUE]
                                  /\ UNCHANGED ffnUp
                ELSE /\ ffnUp' = [ffnUp EXCEPT ![load.file][layer] = TRUE]
                     /\ UNCHANGED wqkv
    BY <1>7, MemberNames DEF GroupQkv, GroupGateUp, PutsGroup, FusedKinds
  <2>3. \A f \in Files : f # load.file => wqkv'[f] = wqkv[f] /\ ffnUp'[f] = ffnUp[f]
    BY <1>0, <2>2
  <2>4. Kept'
    BY <1>0, <2>1, <2>2, KeptUnchanged, KeptGroup
  <2> QED
    BY <1>0, <1>1, <2>1, <2>3, <2>4, FreshStep DEF UsedInv
<1> QED
  BY <1>2, <1>3, <1>4, <1>5, <1>6, <1>7 DEF Next

(* Whatever was quantized for a model is what its decode runs on: the      *)
(* tensor's own product, or that of a group the tensor is a member of,     *)
(* finds an entry of its dimensions.  For any models in any order.         *)
THEOREM LoadUsed == Spec => []RegisteredAreUsed
<1>1. UsedInv => RegisteredAreUsed
  <2> SUFFICES ASSUME UsedInv, NEW f \in Files, NEW l \in Layers, NEW k \in Kinds, enabled,
                      registry[<<l, k>>].mode # -1, registry[<<l, k>>].from = f
               PROVE  \E n \in Nodes(f, l) :
                          /\ Intercepted(f, l, n)
                          /\ n = k \/ (n \in FusedKinds /\
                                \E i \in 1 .. Len(Members(n)) : Members(n)[i] = k)
    BY DEF RegisteredAreUsed
  <2>0. GroupInv /\ RegistryOwn /\ Kept /\ <<l, k>> \in Names
    BY DEF UsedInv, Names
  <2>1. registry[<<l, k>>] # NoEntry
    BY DEF NoEntry
  <2>2. f = load.file
    BY <2>0, <2>1 DEF RegistryOwn
  <2>3. wqkv[f][l] \in BOOLEAN /\ ffnUp[f][l] \in BOOLEAN
    BY <2>0 DEF GroupInv, LoadTyped
  <2>4. CASE k \in {"q", "k", "v"} /\ wqkv[f][l] = TRUE
    <3>1. StandsFor(registry[<<l, "qkv">>], "qkv", f) /\ "qkv" \in Nodes(f, l) /\ "qkv" \in FusedKinds
      BY <2>0, <2>2, <2>4, FusedNames DEF Kept, Nodes
    <3>2. Intercepted(f, l, "qkv")
      BY <2>2, <3>1 DEF Intercepted, StandsFor, NodeIn, NodeOut
    <3> QED
      BY <2>4, <3>1, <3>2, MemberNames
  <2>5. CASE k \in {"gate", "up"} /\ ffnUp[f][l] = TRUE
    <3>1. StandsFor(registry[<<l, "gate_up">>], "gate_up", f) /\ "gate_up" \in Nodes(f, l) /\ "gate_up" \in FusedKinds
      BY <2>0, <2>2, <2>5, FusedNames DEF Kept, Nodes
    <3>2. Intercepted(f, l, "gate_up")
      BY <2>2, <3>1 DEF Intercepted, StandsFor, NodeIn, NodeOut
    <3> QED
      BY <2>5, <3>1, <3>2, MemberNames
  <2>6. CASE /\ k \in {"q", "k", "v"} => wqkv[f][l] = FALSE
             /\ k \in {"gate", "up"} => ffnUp[f][l] = FALSE
    <3>1. k \in Nodes(f, l)
      BY <2>6 DEF Nodes, Kinds
    <3>2. k \notin FusedKinds
      BY FusedNames
    <3>3. Intercepted(f, l, k)
      BY <2>0, <2>1, <3>2 DEF GroupInv, KindsFaithful, Faithful, Intercepted, NodeIn, NodeOut
    <3> QED
      BY <3>1, <3>3
  <2> QED
    BY <2>3, <2>4, <2>5, <2>6
<1> QED
  BY <1>1, UsedInit, UsedStep, PTL DEF Spec
=============================================================================
