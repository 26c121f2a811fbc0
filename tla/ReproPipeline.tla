--------------------------- MODULE ReproPipeline ---------------------------
(***************************************************************************)
(* Input preparation and result cache together: `make all` and `make demo` *)
(* prepare the inputs, check them, and measure with what is then in the    *)
(* directories.  ReproCache says which settings a CSV row is measured      *)
(* under; here it also carries the revisions of the files it was measured  *)
(* with, which no row of the real files does.                              *)
(***************************************************************************)
EXTENDS ReproCache

CONSTANTS EdgePQ, Fp16, Q2, Checkpoint, Tokenizer, Damaged

VARIABLES
    model, verified, newer, aux, auxStamp, fp16, q2, dataset, at,
    measured    \* the revisions behind the CSV rows

Inputs == INSTANCE ReproInputs

ASSUME RevisionsAssumption == Inputs!RevisionsOK

files == <<model, verified, newer, aux, auxStamp, fp16, q2, dataset>>

cacheRest == <<used, throughput, ppl, stamp, target, step>>

None == [model |-> 0, fp16 |-> 0, q2 |-> 0]

PipelineInit ==
    /\ Init
    /\ Inputs!Init
    /\ measured = [throughput |-> None, baselines |-> None, edgepq |-> [f \in Inputs!AuxFiles |-> 0]]

(* Preparation, and copying files, happen while nothing is measured.       *)
Preparing ==
    /\ target = "none"
    /\ Inputs!Prepare \/ Inputs!CopyModel
    /\ UNCHANGED <<cacheRest, measured>>

\* Mutant of Ready: inputs that are there are not prepared.
Ready_WhenThere == at = "ready" \/ (at = "none" /\ Inputs!AllThere)

Ready == at = "ready"

(* all and demo measure when inputs, build and self-test are done. *)
Measure ==
    /\ Ready
    /\ Make
    /\ at' = "none"
    /\ UNCHANGED <<files, measured>>

(* The measurements open the files as they are then.  A dataset whose      *)
(* directory is incomplete does not load.                                  *)
Open ==
    \/ /\ Benchmark
       /\ measured' = [measured EXCEPT !.throughput = [model |-> model, fp16 |-> fp16, q2 |-> q2]]
    \/ /\ Ppl
       /\ dataset = "complete"
       /\ measured' = [measured EXCEPT !.baselines = [None EXCEPT !.fp16 = fp16, !.q2 = q2]]
    \/ /\ PqPpl
       /\ dataset = "complete"
       /\ measured' = [measured EXCEPT !.edgepq = aux]

(* Other settings; of another revision of EdgePQ only one that was never   *)
(* asked for before, unless Again.                                         *)
ChangePins ==
    /\ at = "none"
    /\ Change
    /\ \/ Again
       \/ EdgePQ[key'] = EdgePQ[key]
       \/ \A k \in used : EdgePQ[k] # EdgePQ[key']

Elsewhere ==
    \/ ChangePins
    \/ Decide \/ Fail \/ Record \/ Reuse \/ Plot \/ Kill
    \/ DistClean /\ at = "none"

PipelineNext ==
    \/ Preparing
    \/ Measure
    \/ Open /\ UNCHANGED <<files, at>>
    \/ Elsewhere /\ UNCHANGED <<files, at, measured>>

PipelineSpec == PipelineInit /\ [][PipelineNext]_<<vars, files, at, measured>>

-----------------------------------------------------------------------------
(* Types of the variables of both parts. *)
PipelineTypeOK == TypeOK /\ Inputs!InputsTypeOK

(* Between preparation and measurement nothing is lost: when inputs are    *)
(* ready they are what Inputs says of them.                                *)
EdgePQPrepared == Inputs!EdgePQPrepared

StampHonest == Inputs!StampHonest

(* "It reuses result CSVs only when their cache key matches the pinned     *)
(* models" (README.md): the EdgePQ files behind the rows that demo reuses  *)
(* or plots are of the revision in force.                                  *)
MeasuredAsPinned ==
    step \in {"reuse", "plot"} =>
        /\ measured.throughput.model = EdgePQ[key]
        /\ \A f \in Inputs!AuxFiles : measured.edgepq[f] = EdgePQ[key]

(* The same of the baselines. *)
BaselinesAsPinned ==
    step \in {"reuse", "plot"} =>
        /\ measured.throughput.fp16 = Fp16[key] /\ measured.throughput.q2 = Q2[key]
        /\ measured.baselines.fp16 = Fp16[key] /\ measured.baselines.q2 = Q2[key]
=============================================================================
