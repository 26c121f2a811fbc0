------------------------------- MODULE PQLoad -------------------------------
(***************************************************************************)
(* Loading and freeing models with PQ decode (llama_model_base::           *)
(* load_tensors, llama-pq.cpp, the registration half of pq-gemv.cpp), and  *)
(* which weights the decode of a loaded model then uses.                   *)
(*                                                                         *)
(* The registry of quantized tensors is one global table indexed by the    *)
(* tensor's name, and every model's layers carry the same names.  A name   *)
(* is <<layer, kind>>.  A registered tensor is modelled by its shape, its  *)
(* partition and the file it was quantized from.                           *)
(*                                                                         *)
(* The side tensors of a file have the shape of the tensor they belong to, *)
(* as llama-pq-convert writes them.                                        *)
(***************************************************************************)
EXTENDS Integers, Sequences, FiniteSets

CONSTANTS
    Files,        \* the model files: records, see FilesAssumption
    NLayers,      \* layers of every model
    MinDim,       \* smallest dimension worth quantizing (256)
    KMaxThreads,  \* kMaxThreads
    ArenaSize,    \* fused tensors the static ggml context has room for
    DsChoices,    \* values of --pq-ds
    ModeChoices,  \* values of --pq-mode: 0 auto, 1 S1, 2 S2
    Plain,        \* are models also loaded without PQ decode while PQ is armed?
    Together      \* are several models loaded at a time?

Kinds == {"q", "k", "v", "o", "gate", "up", "down"}
FusedKinds == {"qkv", "gate_up"}
Layers == 1 .. NLayers
Names == Layers \X (Kinds \union FusedKinds)

Members(g) == IF g = "qkv" THEN <<"q", "k", "v">> ELSE <<"gate", "up">>

(* A file: the shape of its tensors, their precomputed side tensors (kind  *)
(* of partition, or none, or damaged ones whose pq_meta is still readable) *)
(* and their ds, whether the tensors of a group have one memcpy-able type, *)
(* whether it has a native fused QKV instead of q, k and v, whether its    *)
(* attention has biases, and whether its FFN is SwiGLU.                    *)
ASSUME FilesAssumption ==
    \A f \in Files :
        /\ f.n_in \in [Kinds -> Nat \ {0}]
        /\ f.n_out \in [Kinds -> Nat \ {0}]
        /\ f.side \in [Kinds -> {"none", "damaged", "S1", "S2"}]
        /\ f.ds \in Nat \ {0}
        /\ {f.oneType, f.native, f.biases, f.swiglu} \subseteq BOOLEAN

ASSUME SizesAssumption ==
    /\ NLayers \in Nat \ {0}
    /\ {MinDim, KMaxThreads, ArenaSize} \subseteq Nat
    /\ DsChoices \subseteq Nat \ {0}
    /\ ModeChoices \subseteq {0, 1, 2}
    /\ {Plain, Together} \subseteq BOOLEAN

VARIABLES
    registry,  \* g_pq
    enabled,   \* g_pq_enabled
    pool,      \* size of g_s1_partials
    arena,     \* fused tensors created in the static ggml context
    noFusion,  \* GGML_PQ_NO_QKV is set
    loaded,    \* per file: not loaded, loaded without or with PQ decode
    wqkv,      \* per file and layer: layer.wqkv is the fused tensor
    ffnUp,     \* per file and layer: layer.ffn_up is the fused tensor
    load,      \* the load under way: its file and parameters
    pc, layer, member  \* where it is

vars == <<registry, enabled, pool, arena, noFusion, loaded, wqkv, ffnUp,
          load, pc, layer, member>>

settled == <<arena, noFusion, enabled, loaded>>

NoEntry == [mode |-> -1]

Init ==
    /\ registry = [n \in Names |-> NoEntry]
    /\ enabled = FALSE
    /\ pool = 0
    /\ arena = 0
    /\ noFusion \in BOOLEAN
    /\ loaded = [f \in Files |-> "no"]
    /\ wqkv = [f \in Files |-> [l \in Layers |-> FALSE]]
    /\ ffnUp = [f \in Files |-> [l \in Layers |-> FALSE]]
    /\ load \in [file : Files, ds : DsChoices, mode : ModeChoices]
    /\ pc = "idle"
    /\ layer = 1
    /\ member = 1

-----------------------------------------------------------------------------
(* What registering one tensor yields: an entry, or none.                  *)
Entry(f, k, mode, ds) ==
    [mode |-> mode, ds |-> ds, n_in |-> f.n_in[k], n_out |-> f.n_out[k],
     from |-> f]

(* llama_pq_register_tensor: quantized while loading. *)
Quantized(f, k, mode, ds) ==
    IF /\ f.n_in[k] >= MinDim /\ f.n_out[k] >= MinDim
       /\ f.n_in[k] % ds = 0
       /\ mode = 1 => f.n_out[k] % ds = 0
    THEN Entry(f, k, mode, ds)
    ELSE NoEntry

(* llama_pq_register_from_loader: precomputed. *)
FromLoader(f, k) ==
    IF f.side[k] \in {"S1", "S2"}
    THEN Entry(f, k, IF f.side[k] = "S1" THEN 0 ELSE 1, f.ds)
    ELSE NoEntry

FirstOf(e, alternative) == IF e # NoEntry THEN e ELSE alternative

(* A member of a group: without side tensors always S1 with ds 2. *)
MemberEntry(f, k) == FirstOf(FromLoader(f, k), Quantized(f, k, 0, 2))

(* The partition the parameters ask for. *)
AskedMode(k, p) == IF p.mode = 2 \/ (p.mode = 0 /\ k = "down") THEN 1 ELSE 0

(* A tensor of its own: without side tensors as the parameters say. *)
SingleEntry(f, k, p) ==
    FirstOf(FromLoader(f, k),
            Quantized(f, k, AskedMode(k, p), p.ds))

\* Mutant of Presized: one product at a time.
Presized_OneMember(n_out) == KMaxThreads * n_out

(* Room for four products of this height and a full pool of threads. *)
Presized(n_out) == 4 * KMaxThreads * n_out

(* Putting an entry, if there is one, into the registry; S1 tensors make   *)
(* sure of the partial sums.                                               *)
Register(n, e) ==
    IF e = NoEntry
    THEN UNCHANGED <<registry, pool>>
    ELSE /\ registry' = [registry EXCEPT ![n] = e]
         /\ pool' = IF e.mode = 0 /\ pool < Presized(e.n_out)
                    THEN Presized(e.n_out) ELSE pool

(* The row at which member i of a fused tensor begins, and its height. *)
Offset(f, g, i) ==
    CASE i = 1 -> 0
      [] i = 2 -> f.n_out[Members(g)[1]]
      [] i = 3 -> f.n_out[Members(g)[1]] + f.n_out[Members(g)[2]]

Height(f, g) ==
    LET last == Len(Members(g)) IN Offset(f, g, last) + f.n_out[Members(g)[last]]

GroupEntry(f, g, ds) ==
    [mode |-> 2, ds |-> ds, n_in |-> f.n_in[Members(g)[1]], n_out |-> Height(f, g),
     from |-> f, offs |-> [i \in 1 .. Len(Members(g)) |-> Offset(f, g, i)]]

(* ggml_pq_register_group: every member is registered as S1, with the      *)
(* group's n_in and with one ds.                                           *)
Groupable(f, g, l) ==
    LET first == registry[<<l, Members(g)[1]>>]
    IN \A i \in 1 .. Len(Members(g)) :
          LET e == registry[<<l, Members(g)[i]>>]
          IN e # NoEntry /\ e.mode = 0 /\ e.n_in = f.n_in[Members(g)[1]] /\ e.ds = first.ds

(* llama_pq_build_fused_weight: one type that can be copied by rows, and   *)
(* one n_in.                                                               *)
Fusable(f, g) ==
    /\ f.oneType
    /\ \A i \in 1 .. Len(Members(g)) : f.n_in[Members(g)[i]] = f.n_in[Members(g)[1]]

-----------------------------------------------------------------------------
\* Mutant of Begin: the old entries stay.
Begin_KeepsEntries ==
    /\ enabled' = FALSE
    /\ UNCHANGED <<registry, pool>>

(* llama_pq_begin *)
Begin ==
    /\ registry' = [n \in Names |-> NoEntry]
    /\ enabled' = FALSE
    /\ UNCHANGED pool

(* llama_model_load_from_file.  With PQ decode the registry is cleared and *)
(* switched off first; without, PQ is not mentioned at all.                *)
LoadPlain(f) ==
    /\ loaded' = [loaded EXCEPT ![f] = "plain"]
    /\ UNCHANGED <<registry, enabled, pool, arena, noFusion, wqkv, ffnUp,
                   load, pc, layer, member>>

LoadWithPQ(f) ==
    /\ load' \in [file : {f}, ds : DsChoices, mode : ModeChoices]
    /\ Begin
    /\ pc' = "buildQkv"
    /\ layer' = 1
    /\ UNCHANGED <<arena, noFusion, loaded, wqkv, ffnUp, member>>

Load ==
    /\ pc = "idle"
    /\ \E f \in Files :
          /\ loaded[f] = "no"
          /\ Together \/ \A g \in Files : loaded[g] = "no"
          /\ \/ (Plain \/ ~enabled) /\ LoadPlain(f)
             \/ LoadWithPQ(f)

(* llama_model_free: the registry and the fused tensors stay. *)
Free ==
    /\ pc = "idle"
    /\ \E f \in Files :
          /\ loaded[f] # "no"
          /\ loaded' = [loaded EXCEPT ![f] = "no"]
          /\ wqkv' = [wqkv EXCEPT ![f] = [l \in Layers |-> FALSE]]
          /\ ffnUp' = [ffnUp EXCEPT ![f] = [l \in Layers |-> FALSE]]
    /\ UNCHANGED <<registry, enabled, pool, arena, noFusion, load, pc, layer, member>>

-----------------------------------------------------------------------------
(* The loop over the layers.                                               *)
GoTo(p) == pc' = p /\ member' = 1

(* A fused tensor is created: the static context has room, or the process  *)
(* ends.                                                                   *)
Create(next) ==
    IF arena < ArenaSize
    THEN arena' = arena + 1 /\ GoTo(next)
    ELSE GoTo("aborted") /\ UNCHANGED arena

(* A native wqkv goes straight to the registration, which takes the names  *)
(* of q, k and v, which are not there.                                     *)
BuildQkv ==
    /\ pc = "buildQkv"
    /\ \/ load.file.native /\ GoTo("segfault") /\ UNCHANGED arena
       \/ ~load.file.native /\ ~noFusion /\ Fusable(load.file, "qkv") /\ Create("qkv")
       \/ /\ ~load.file.native
          /\ noFusion \/ ~Fusable(load.file, "qkv")
          /\ GoTo("buildGateUp") /\ UNCHANGED arena
    /\ UNCHANGED <<registry, enabled, pool, noFusion, loaded, wqkv, ffnUp, load, layer>>

(* llama_pq_register_qkv_group, member by member: the first that cannot be *)
(* registered, or whose ds is not the first one's, ends it; what is        *)
(* registered by then stays.                                               *)
RegisterQkv ==
    LET k == Members("qkv")[member]
        e == MemberEntry(load.file, k)
        fits == e # NoEntry /\ e.ds = MemberEntry(load.file, "q").ds
    IN  /\ pc = "qkv"
        /\ Register(<<layer, k>>, e)
        /\ \/ ~fits /\ GoTo("buildGateUp")
           \/ fits /\ member < 3 /\ member' = member + 1 /\ UNCHANGED pc
           \/ fits /\ member = 3 /\ GoTo("groupQkv")
        /\ UNCHANGED <<settled, wqkv, ffnUp, load, layer>>

\* Mutant of GroupQkv: layer.wqkv is not taken back on failure.
GroupQkv_NoFallback ==
    /\ pc = "groupQkv"
    /\ IF Groupable(load.file, "qkv", layer)
       THEN registry' = [registry EXCEPT ![<<layer, "qkv">>] =
               GroupEntry(load.file, "qkv", registry[<<layer, "q">>].ds)]
       ELSE UNCHANGED registry
    /\ wqkv' = [wqkv EXCEPT ![load.file][layer] = TRUE]
    /\ GoTo("buildGateUp")
    /\ UNCHANGED <<settled, pool, ffnUp, load, layer>>

GroupQkv ==
    /\ pc = "groupQkv"
    /\ IF Groupable(load.file, "qkv", layer)
       THEN /\ registry' = [registry EXCEPT ![<<layer, "qkv">>] =
                  GroupEntry(load.file, "qkv", registry[<<layer, "q">>].ds)]
            /\ wqkv' = [wqkv EXCEPT ![load.file][layer] = TRUE]
       ELSE UNCHANGED <<registry, wqkv>>
    /\ GoTo("buildGateUp")
    /\ UNCHANGED <<settled, pool, ffnUp, load, layer>>

BuildGateUp ==
    /\ pc = "buildGateUp"
    /\ IF ~noFusion /\ Fusable(load.file, "gate_up")
       THEN Create("gate_up")
       ELSE GoTo("single") /\ UNCHANGED arena
    /\ UNCHANGED <<registry, enabled, pool, noFusion, loaded, wqkv, ffnUp, load, layer>>

(* Both members are tried. *)
RegisterGateUp ==
    LET k == Members("gate_up")[member]
    IN  /\ pc = "gate_up"
        /\ Register(<<layer, k>>, MemberEntry(load.file, k))
        /\ IF member = 1 THEN member' = 2 /\ UNCHANGED pc ELSE GoTo("groupGateUp")
        /\ UNCHANGED <<settled, wqkv, ffnUp, load, layer>>

(* The ds a member's pq_meta names, even if the rest of it is damaged; 0   *)
(* without one.                                                            *)
MetaDs(f, k) == IF f.side[k] = "none" THEN 0 ELSE f.ds

GroupGateUp ==
    LET f == load.file
        groups == /\ MemberEntry(f, "gate") # NoEntry
                  /\ MemberEntry(f, "up") # NoEntry
                  /\ MetaDs(f, "gate") = MetaDs(f, "up")
                  /\ Groupable(f, "gate_up", layer)
    IN  /\ pc = "groupGateUp"
        /\ IF groups
           THEN /\ registry' = [registry EXCEPT ![<<layer, "gate_up">>] =
                      GroupEntry(f, "gate_up", registry[<<layer, "gate">>].ds)]
                /\ ffnUp' = [ffnUp EXCEPT ![f][layer] = TRUE]
           ELSE UNCHANGED <<registry, ffnUp>>
        /\ GoTo("single")
        /\ UNCHANGED <<settled, pool, wqkv, load, layer>>

Candidates == <<"q", "k", "v", "o", "gate", "up", "down">>

\* Mutant of Grouped: members of a group are candidates, too.
Grouped_Never(k) == FALSE

(* cands: a member of a group is not registered again. *)
Grouped(k) ==
    \/ k \in {"q", "k", "v"} /\ wqkv[load.file][layer]
    \/ k \in {"gate", "up"} /\ ffnUp[load.file][layer]

(* One candidate; one that cannot be registered is skipped.  The last      *)
(* candidate of a layer is followed by the next layer.                     *)
Single ==
    LET k == Candidates[member]
    IN  /\ pc = "single"
        /\ IF Grouped(k)
           THEN UNCHANGED <<registry, pool>>
           ELSE Register(<<layer, k>>, SingleEntry(load.file, k, load))
        /\ IF member < Len(Candidates)
           THEN member' = member + 1 /\ UNCHANGED <<pc, layer>>
           ELSE IF layer < NLayers
                THEN GoTo("buildQkv") /\ layer' = layer + 1
                ELSE GoTo("finish") /\ UNCHANGED layer
        /\ UNCHANGED <<settled, wqkv, ffnUp, load>>

(* llama_pq_finish, and the model is there. *)
Finish ==
    /\ pc = "finish"
    /\ enabled' = TRUE
    /\ loaded' = [loaded EXCEPT ![load.file] = "pq"]
    /\ GoTo("idle")
    /\ UNCHANGED <<registry, pool, arena, noFusion, wqkv, ffnUp, load, layer>>

(* A process that is gone stays gone. *)
Gone ==
    /\ pc \in {"aborted", "segfault"}
    /\ UNCHANGED vars

Next ==
    \/ Load \/ Free
    \/ BuildQkv \/ RegisterQkv \/ GroupQkv
    \/ BuildGateUp \/ RegisterGateUp \/ GroupGateUp
    \/ Single \/ Finish \/ Gone

Spec == Init /\ [][Next]_vars

-----------------------------------------------------------------------------
(* The decode of a loaded model: the tensors of the products its graph     *)
(* has (build_qkv, build_ffn), and the entry the hook finds for one.       *)
Nodes(f, l) ==
    (IF wqkv[f][l] THEN {"qkv"} ELSE {"q", "k", "v"})
    \union (IF ffnUp[f][l] THEN {"gate_up"} ELSE {"gate", "up"})
    \union {"o", "down"}

NodeIn(f, k) == IF k \in FusedKinds THEN f.n_in[Members(k)[1]] ELSE f.n_in[k]
NodeOut(f, k) == IF k \in FusedKinds THEN Height(f, k) ELSE f.n_out[k]

Intercepted(f, l, k) ==
    LET e == registry[<<l, k>>]
    IN enabled /\ e # NoEntry /\ e.n_in = NodeIn(f, k) /\ e.n_out = NodeOut(f, k)

(* Types of the variables. *)
Entries ==
    {NoEntry}
    \union [mode : {0, 1}, ds : Nat, n_in : Nat, n_out : Nat, from : Files]
    \union [mode : {2}, ds : Nat, n_in : Nat, n_out : Nat, from : Files, offs : Seq(Nat)]

TypeOK ==
    /\ \A n \in Names : registry[n] \in Entries
    /\ DOMAIN registry = Names
    /\ enabled \in BOOLEAN
    /\ pool \in Nat
    /\ arena \in 0 .. ArenaSize
    /\ noFusion \in BOOLEAN
    /\ loaded \in [Files -> {"no", "plain", "pq"}]
    /\ wqkv \in [Files -> [Layers -> BOOLEAN]]
    /\ ffnUp \in [Files -> [Layers -> BOOLEAN]]
    /\ load \in [file : Files, ds : DsChoices, mode : ModeChoices]
    /\ pc \in {"idle", "buildQkv", "qkv", "groupQkv", "buildGateUp", "gate_up",
               "groupGateUp", "single", "finish", "aborted", "segfault"}
    /\ layer \in Layers
    /\ member \in 1 .. Len(Candidates)

(* A group's members are what its entry says of them ("Members must be S1  *)
(* with equal n_in and equal ds", ggml-pq.h): registered, S1, of its n_in, *)
(* ds and file, and their rows are the group's rows, one after the other.  *)
GroupSound(l, g) ==
    LET e == registry[<<l, g>>]
        M(i) == registry[<<l, Members(g)[i]>>]
        last == Len(Members(g))
    IN  e # NoEntry =>
          /\ e.mode = 2
          /\ \A i \in 1 .. last :
                /\ M(i) # NoEntry /\ M(i).mode = 0
                /\ M(i).n_in = e.n_in /\ M(i).ds = e.ds /\ M(i).from = e.from
          /\ e.offs[1] = 0
          /\ \A i \in 1 .. last - 1 : e.offs[i + 1] = e.offs[i] + M(i).n_out
          /\ e.n_out = e.offs[last] + M(last).n_out

GroupsSound == \A l \in Layers, g \in FusedKinds : GroupSound(l, g)

S1Heights == {registry[n].n_out : n \in {m \in Names : registry[m].mode = 0}}

(* The partial sums are presized such that no flush ever has to grow them: *)
(* growing moves them away under the other threads (pq_s1_flush, "grow     *)
(* defensively").  A flush holds at most four S1 products and one row of   *)
(* sums per thread and product.                                            *)
PoolSuffices ==
    \A a, b, c, d \in S1Heights : KMaxThreads * (a + b + c + d) <= pool

(* A product is computed with weights of its own model, and with quantized *)
(* ones only if the model asked for PQ decode.                             *)
UsesOwnWeights ==
    \A f \in Files, l \in Layers :
        loaded[f] # "no" =>
            \A k \in Nodes(f, l) :
                Intercepted(f, l, k) =>
                    loaded[f] = "pq" /\ registry[<<l, k>>].from = f

(* What has been quantized is used: "Decode (n_tokens==1) mul_mat calls on *)
(* registered tensors then run the PQ GEMV kernels" (llama-model.cpp).     *)
RegisteredAreUsed ==
    \A f \in Files, l \in Layers, k \in Kinds :
        enabled /\ loaded[f] = "pq" /\ registry[<<l, k>>].mode # -1
            /\ registry[<<l, k>>].from = f =>
                \E n \in Nodes(f, l) :
                    /\ Intercepted(f, l, n)
                    /\ n = k \/ (n \in FusedKinds /\ \E i \in 1 .. Len(Members(n)) : Members(n)[i] = k)

(* Precomputed tensors are used as the file has them, whatever --pq-ds and *)
(* --pq-mode say (docs/pq.md, 4.1).                                        *)
SideTensorsWin ==
    \A f \in Files, l \in Layers, k \in Kinds :
        enabled /\ loaded[f] = "pq" /\ load.file = f /\ f.side[k] \in {"S1", "S2"} =>
            registry[<<l, k>>] = FromLoader(f, k)

(* --pq-ds overrides ds and --pq-mode the partition of what is quantized   *)
(* while loading (docs/pq.md, 4.1; llama.h).                               *)
ParametersCount ==
    \A l \in Layers, k \in Kinds :
        LET e == registry[<<l, k>>]
        IN  enabled /\ loaded[load.file] = "pq" /\ e # NoEntry
              /\ load.file.side[k] = "none" =>
                /\ e.ds = load.ds
                /\ e.mode = AskedMode(k, load)

(* A fused tensor stands in for its members only where the graph still     *)
(* computes the same: build_qkv drops the biases of q, k and v, build_ffn  *)
(* splits the fused output only in a SwiGLU ("the PQ-fused models have     *)
(* none", llama-graph.cpp).                                                *)
FusionKeepsTheGraph ==
    \A f \in Files, l \in Layers :
        /\ wqkv[f][l] => ~f.biases
        /\ ffnUp[f][l] => f.swiglu

(* Loading never ends the process. *)
SurvivesLoading == pc \notin {"aborted", "segfault"}
=============================================================================
