---------------------------- MODULE ReproInputs ----------------------------
(***************************************************************************)
(* Input preparation of the reproduction (Makefile, prepare-inputs and     *)
(* check-inputs; ppl_gguf_compare.py, prepare_dataset): the EdgePQ model,  *)
(* its checkpoint and tokenizer, the two baselines and the dataset are     *)
(* downloaded into directories that outlive every run, and reused.  Two    *)
(* stamp files say what has been verified: one beside the model holds its  *)
(* digest and counts while it is newer than the model, one holds the       *)
(* revision of checkpoint and tokenizer.                                   *)
(*                                                                         *)
(* A file is modelled by the revision its bytes are of; 0 is no file.      *)
(* Different revisions have different digests.  What huggingface's `hf     *)
(* download` does is external: a file appears whole or not at all, files   *)
(* of one download one after the other.                                    *)
(***************************************************************************)
EXTENDS Naturals

CONSTANTS
    Settings,       \* the settings that are ever used
    EdgePQ,         \* EDGE_PQ_REVISION (and the digest that goes with it)
    Fp16,           \* FP16_REVISION
    Q2,             \* Q2_REVISION
    Checkpoint,     \* the files of the checkpoint
    Tokenizer,      \* the files of the tokenizer
    Damaged         \* a file that is of no revision

AuxFiles == Checkpoint \union Tokenizer
Revisions == {EdgePQ[k] : k \in Settings}
Baselines == {Fp16[k] : k \in Settings} \union {Q2[k] : k \in Settings}

(* What ReproPipeline, which gives these constants their values, assumes.  *)
RevisionsOK ==
    /\ EdgePQ \in [Settings -> Nat \ {0}]
    /\ Fp16 \in [Settings -> Nat \ {0}]
    /\ Q2 \in [Settings -> Nat \ {0}]
    /\ Damaged \in Nat \ {0}
    /\ Damaged \notin Revisions

VARIABLES
    key,        \* the settings in force
    model,      \* base-pq-4c8b.gguf
    verified,   \* the stamp beside it: the digest it was found to have
    newer,      \* is that stamp newer than the model?
    aux,        \* the files of checkpoint and tokenizer
    auxStamp,   \* the stamp of checkpoint and tokenizer
    fp16,       \* the FP16 baseline
    q2,         \* the Q2_K baseline
    dataset,    \* the dataset's directory
    at          \* where preparation is

files == <<model, verified, newer, aux, auxStamp, fp16, q2, dataset>>
inputVars == <<key, files, at>>

Init ==
    /\ key \in Settings
    /\ model = 0 /\ verified = 0 /\ newer = FALSE
    /\ aux = [f \in AuxFiles |-> 0] /\ auxStamp = 0
    /\ fp16 = 0 /\ q2 = 0
    /\ dataset = "none"
    /\ at = "none"

Pinned == EdgePQ[key]

(* make prepare-inputs, by itself or as the second step of all and demo.   *)
Begin ==
    /\ at = "none"
    /\ at' = "model"
    /\ UNCHANGED <<key, files>>

-----------------------------------------------------------------------------
(* prepare-edgepq-model *)

StampCounts == verified # 0 /\ newer

(* verify_model: a stamp that counts decides, else the digest itself. *)
Verifies == IF StampCounts THEN verified = Pinned ELSE model = Pinned

(* The stamp is written after the model, hence newer. *)
WriteStamp == verified' = Pinned /\ newer' = TRUE

ReuseModel ==
    /\ at = "model"
    /\ model # 0 /\ Verifies
    /\ IF StampCounts THEN UNCHANGED <<verified, newer>> ELSE WriteStamp
    /\ at' = "checkpoint"
    /\ UNCHANGED <<key, model, aux, auxStamp, fp16, q2, dataset>>

RemoveStamp ==
    /\ at = "model"
    /\ ~(model # 0 /\ Verifies)
    /\ verified' = 0 /\ newer' = FALSE
    /\ at' = "download"
    /\ UNCHANGED <<key, model, aux, auxStamp, fp16, q2, dataset>>

Download ==
    /\ at = "download"
    /\ model' \in {Pinned, Damaged}
    /\ newer' = FALSE
    /\ at' = "verify"
    /\ UNCHANGED <<key, verified, aux, auxStamp, fp16, q2, dataset>>

(* What was downloaded is verified, too; there is no stamp at this point.  *)
VerifyDownload ==
    /\ at = "verify"
    /\ IF Verifies THEN WriteStamp /\ at' = "checkpoint"
                   ELSE at' = "none" /\ UNCHANGED <<verified, newer>>
    /\ UNCHANGED <<key, model, aux, auxStamp, fp16, q2, dataset>>

-----------------------------------------------------------------------------
(* prepare-edgepq-assets *)

\* Mutant of Reusable: all files are there, whatever the stamp says.
Reusable_AnyRevision(group) == \A f \in group : aux[f] # 0

(* The stamp names the revision asked for, and all files are there. *)
Reusable(group) == auxStamp = Pinned /\ \A f \in group : aux[f] # 0

ReuseAux(here, group, next) ==
    /\ at = here
    /\ Reusable(group)
    /\ at' = next
    /\ UNCHANGED <<key, files>>

(* Files that are not of this revision are replaced, one by one ... *)
FetchAux(here, group) ==
    /\ at = here
    /\ ~Reusable(group)
    /\ \E f \in group : aux[f] # Pinned /\ aux' = [aux EXCEPT ![f] = Pinned]
    /\ UNCHANGED <<key, model, verified, newer, auxStamp, fp16, q2, dataset, at>>

(* ... until all of them are. *)
AuxFetched(here, group, next) ==
    /\ at = here
    /\ ~Reusable(group)
    /\ \A f \in group : aux[f] = Pinned
    /\ at' = next
    /\ UNCHANGED <<key, files>>

CheckpointStep ==
    \/ ReuseAux("checkpoint", Checkpoint, "tokenizer")
    \/ FetchAux("checkpoint", Checkpoint)
    \/ AuxFetched("checkpoint", Checkpoint, "tokenizer")

TokenizerStep ==
    \/ ReuseAux("tokenizer", Tokenizer, "aux stamp")
    \/ FetchAux("tokenizer", Tokenizer)
    \/ AuxFetched("tokenizer", Tokenizer, "aux stamp")

WriteAuxStamp ==
    /\ at = "aux stamp"
    /\ \A f \in AuxFiles : aux[f] # 0
    /\ auxStamp' = Pinned
    /\ at' = "fp16"
    /\ UNCHANGED <<key, model, verified, newer, aux, fp16, q2, dataset>>

-----------------------------------------------------------------------------
(* prepare-baselines: a file that exists is reused as it is. *)
PrepareFp16 ==
    /\ at = "fp16"
    /\ fp16' = IF fp16 = 0 THEN Fp16[key] ELSE fp16
    /\ at' = "q2"
    /\ UNCHANGED <<key, model, verified, newer, aux, auxStamp, q2, dataset>>

PrepareQ2 ==
    /\ at = "q2"
    /\ q2' = IF q2 = 0 THEN Q2[key] ELSE q2
    /\ at' = "dataset"
    /\ UNCHANGED <<key, model, verified, newer, aux, auxStamp, fp16, dataset>>

(* prepare-dataset: a directory that exists is reused, whatever is in it;  *)
(* a new one is there from the first file that is saved to it.             *)
ReuseDataset ==
    /\ at = "dataset"
    /\ dataset # "none"
    /\ at' = "check"
    /\ UNCHANGED <<key, files>>

SaveDataset ==
    /\ at = "dataset"
    /\ dataset = "none"
    /\ dataset' = "partial"
    /\ at' = "saving"
    /\ UNCHANGED <<key, model, verified, newer, aux, auxStamp, fp16, q2>>

DatasetSaved ==
    /\ at = "saving"
    /\ dataset' = "complete"
    /\ at' = "check"
    /\ UNCHANGED <<key, model, verified, newer, aux, auxStamp, fp16, q2>>

AllThere ==
    /\ model # 0 /\ fp16 # 0 /\ q2 # 0
    /\ \A f \in AuxFiles : aux[f] # 0
    /\ dataset # "none"

(* check-inputs: everything is there.  What follows may use it. *)
CheckInputs ==
    /\ at = "check"
    /\ at' = IF AllThere THEN "ready" ELSE "none"
    /\ UNCHANGED <<key, files>>

(* A download or a command fails, or make is interrupted. *)
Stop ==
    /\ at \notin {"none", "ready"}
    /\ at' = "none"
    /\ UNCHANGED <<key, files>>

Prepare ==
    \/ Begin \/ ReuseModel \/ RemoveStamp \/ Download \/ VerifyDownload
    \/ CheckpointStep \/ TokenizerStep \/ WriteAuxStamp
    \/ PrepareFp16 \/ PrepareQ2 \/ ReuseDataset \/ SaveDataset \/ DatasetSaved
    \/ CheckInputs \/ Stop

(* Somebody copies another model file over it (which makes it newer than   *)
(* the stamp), while nothing runs.                                         *)
CopyModel ==
    /\ at = "none"
    /\ model' \in Revisions \union {Damaged}
    /\ newer' = FALSE
    /\ UNCHANGED <<key, verified, aux, auxStamp, fp16, q2, dataset, at>>

-----------------------------------------------------------------------------
Places == {"none", "model", "download", "verify", "checkpoint", "tokenizer",
           "aux stamp", "fp16", "q2", "dataset", "saving", "check", "ready"}

(* Types of the variables. *)
InputsTypeOK ==
    /\ key \in Settings
    /\ model \in Revisions \union {0, Damaged}
    /\ verified \in Revisions \union {0}
    /\ newer \in BOOLEAN
    /\ aux \in [AuxFiles -> Revisions \union {0}]
    /\ auxStamp \in Revisions \union {0}
    /\ fp16 \in Baselines \union {0} /\ q2 \in Baselines \union {0}
    /\ dataset \in {"none", "partial", "complete"}
    /\ at \in Places

(* A stamp that counts says what the model is (README.md: EdgePQ is        *)
(* verified by its SHA-256, and again only when the file has changed).     *)
StampHonest == StampCounts => model = verified

(* "downloads only missing or stale inputs, validates them" (README.md),   *)
(* for what belongs to EdgePQ: when preparation is over, model, checkpoint *)
(* and tokenizer are of the revision asked for, also after failures and    *)
(* interruptions in the middle of a download of another revision.          *)
EdgePQPrepared ==
    at = "ready" => model = Pinned /\ \A f \in AuxFiles : aux[f] = Pinned
=============================================================================
