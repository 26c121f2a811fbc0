-------------------------- MODULE ReproCacheProofs --------------------------
(***************************************************************************)
(* Under which conditions the result cache keeps its promise, for every    *)
(* set of settings: nothing recorded is measured or used again, the        *)
(* targets that write CSVs are not run by themselves, and no step of demo  *)
(* fails (each of the three is needed).  And under which conditions what   *)
(* is measured is of the revisions in the key: that no revision of EdgePQ  *)
(* is left and asked for again, for every set of settings and files.       *)
(***************************************************************************)
EXTENDS ReproPipeline, TLAPS

Undisturbed == ~DemoStepsFail /\ ~Standalone /\ ~Again

Measuring == {"benchmark", "ppl", "pq-ppl", "record"}

(* What each step of a measurement has behind it, and what the stamp and a *)
(* decision to reuse vouch for.                                            *)
CacheInv ==
    /\ TypeOK
    /\ key \in used
    /\ target \in {"none", "all", "demo"}
    /\ stamp \in used \union {0}
    /\ stamp = key => AllMeasuredWith(key) /\ step \notin Measuring
    /\ step \in Measuring \ {"benchmark"} => throughput = key
    /\ step \in {"pq-ppl", "record"} => ppl.baselines = key
    /\ step \in {"record", "plot", "reuse"} => AllMeasuredWith(key)
    /\ step = "reuse" => stamp = key

LEMMA CacheInit == Init => CacheInv
BY SettingsAssumption DEF Init, CacheInv, TypeOK, Measuring, AllMeasuredWith

(* The invariant is inductive: measuring starts only with settings that    *)
(* have no stamp, and new settings never match an old one.                 *)
LEMMA CacheStep == Undisturbed /\ CacheInv /\ [Next]_vars => CacheInv'
<1> SUFFICES ASSUME Undisturbed, CacheInv, [Next]_vars PROVE CacheInv'
  OBVIOUS
<1> USE SettingsAssumption DEF Undisturbed, CacheInv, TypeOK, Measuring, AllMeasuredWith
<1>1. CASE Change
  BY <1>1 DEF Change
<1>2. CASE Make
  BY <1>2 DEF Make, Targets, FirstStep
<1>3. CASE Decide
  BY <1>3 DEF Decide, Cached, PplExists
<1>4. CASE Benchmark
  BY <1>4 DEF Benchmark, GoOn, NextStep, Idle
<1>5. CASE Ppl
  BY <1>5 DEF Ppl, GoOn, NextStep, Idle
<1>6. CASE PqPpl
  BY <1>6 DEF PqPpl, GoOn, NextStep, Idle
<1>7. CASE Fail
  BY <1>7 DEF Fail, Idle
<1>8. CASE Record
  BY <1>8 DEF Record, Idle
<1>9. CASE Reuse
  BY <1>9 DEF Reuse
<1>10. CASE Plot \/ Kill
  BY <1>10 DEF Plot, Kill, Idle
<1>11. CASE DistClean
  BY <1>11 DEF DistClean
<1>12. CASE UNCHANGED vars
  BY <1>12 DEF vars
<1> QED
  BY <1>1, <1>2, <1>3, <1>4, <1>5, <1>6, <1>7, <1>8, <1>9, <1>10, <1>11, <1>12 DEF Next

(* What demo reuses was measured, all of it, with the settings in force.   *)
THEOREM CacheReuse == Undisturbed /\ Spec => []ReuseMatches
<1>1. CacheInv => ReuseMatches
  BY DEF CacheInv, ReuseMatches
<1>2. CASE Undisturbed
  <2>1. CacheInv /\ [Next]_vars => CacheInv'
    BY <1>2, CacheStep
  <2>2. Spec => []ReuseMatches
    BY CacheInit, <1>1, <2>1, PTL DEF Spec
  <2> QED
    BY <2>2
<1> QED
  BY <1>2

(* What demo plots was measured, all of it, with the settings in force.    *)
THEOREM CachePlot == Undisturbed /\ Spec => []PlotMatches
<1>1. CacheInv => PlotMatches
  BY DEF CacheInv, PlotMatches
<1>2. CASE Undisturbed
  <2>1. CacheInv /\ [Next]_vars => CacheInv'
    BY <1>2, CacheStep
  <2>2. Spec => []PlotMatches
    BY CacheInit, <1>1, <2>1, PTL DEF Spec
  <2> QED
    BY <2>2
<1> QED
  BY <1>2

-----------------------------------------------------------------------------
(* The inputs.                                                             *)

Pinned == EdgePQ[key]
Asked == {EdgePQ[k] : k \in used}
AuxPinned(group) == \A f \in group : aux[f] = Pinned

(* What preparation has behind it at each place.  A stamp of checkpoint    *)
(* and tokenizer that names the revision in force stands for all files:    *)
(* downloads of other revisions begin only after that revision was left,   *)
(* and it is never asked for again.                                        *)
FilesInv ==
    /\ StampHonest
    /\ at \in {"download", "verify"} => verified = 0
    /\ at \notin {"none", "model", "download", "verify"} => model = Pinned
    /\ auxStamp \in Asked \union {0}
    /\ auxStamp = Pinned => AuxPinned(Inputs!AuxFiles)
    /\ at \in {"tokenizer", "aux stamp"} => AuxPinned(Checkpoint)
    /\ at \notin {"none", "model", "download", "verify", "checkpoint", "tokenizer"}
          => AuxPinned(Inputs!AuxFiles)

(* Measuring uses what was prepared, and what is recorded was measured     *)
(* with it.                                                                *)
MeasuredModel == measured.throughput.model = Pinned
MeasuredAux == \A f \in Inputs!AuxFiles : measured.edgepq[f] = Pinned

FileSet == [model : Nat, fp16 : Nat, q2 : Nat]

MeasuredInv ==
    /\ measured \in [throughput : FileSet, baselines : FileSet, edgepq : [Inputs!AuxFiles -> Nat]]
    /\ target # "none" => at = "none"
    /\ step \in Measuring => model = Pinned /\ AuxPinned(Inputs!AuxFiles)
    /\ step = "decide" => model = Pinned /\ AuxPinned(Inputs!AuxFiles)
    /\ step \in Measuring \ {"benchmark"} => MeasuredModel
    /\ step = "record" => MeasuredAux
    /\ stamp = key => MeasuredModel /\ MeasuredAux
    /\ step \in {"plot", "reuse"} => MeasuredModel /\ MeasuredAux

PipelineInv == CacheInv /\ Inputs!InputsTypeOK /\ FilesInv /\ MeasuredInv

LEMMA RevisionTypes ==
    /\ \A k \in Settings : EdgePQ[k] \in Inputs!Revisions /\ EdgePQ[k] \in Nat \ {0}
    /\ Inputs!Revisions \subseteq Nat \ {0}
    /\ \A k \in Settings : Fp16[k] \in Inputs!Baselines /\ Q2[k] \in Inputs!Baselines
    /\ Inputs!Baselines \subseteq Nat \ {0}
    /\ Damaged \in Nat \ {0} /\ Damaged \notin Inputs!Revisions
BY RevisionsAssumption DEF Inputs!RevisionsOK, Inputs!Revisions, Inputs!Baselines

LEMMA PipelineInitial == PipelineInit => PipelineInv
<1> SUFFICES ASSUME PipelineInit PROVE PipelineInv
  OBVIOUS
<1>1. CacheInv
  BY CacheInit DEF PipelineInit
<1> USE RevisionTypes DEF PipelineInit, Inputs!Init
<1>2. Inputs!InputsTypeOK
  BY DEF Inputs!InputsTypeOK, Inputs!Places
<1>3. FilesInv
  BY <1>1 DEF FilesInv, StampHonest, Inputs!StampHonest, Inputs!StampCounts, Pinned, Asked, CacheInv, TypeOK
<1>4. MeasuredInv
  BY SettingsAssumption DEF Init, MeasuredInv, FileSet, None, Measuring
<1> QED
  BY <1>1, <1>2, <1>3, <1>4 DEF PipelineInv

(* Preparation leaves FilesInv as it was. *)
LEMMA PrepareKeepsFiles ==
    ASSUME CacheInv, Inputs!InputsTypeOK, FilesInv, Preparing
    PROVE  Inputs!InputsTypeOK' /\ FilesInv' /\ key' = key
<1> USE DEF StampHonest, Inputs!StampHonest, Inputs!StampCounts, Inputs!Pinned, Pinned, Asked, AuxPinned
<1>1. /\ key' = key
      /\ used' = used
  BY DEF Inputs!Prepare, Inputs!Begin, Inputs!ReuseModel, Inputs!RemoveStamp, Inputs!Download,
     Inputs!VerifyDownload, Inputs!CheckpointStep, Inputs!TokenizerStep, Inputs!ReuseAux,
     Inputs!FetchAux, Inputs!AuxFetched, Inputs!WriteAuxStamp, Inputs!PrepareFp16, Inputs!PrepareQ2,
     Inputs!ReuseDataset, Inputs!SaveDataset, Inputs!DatasetSaved, Inputs!CheckInputs, Inputs!Stop,
     Inputs!CopyModel, cacheRest, Preparing
<1>2. /\ EdgePQ[key] \in Inputs!Revisions /\ EdgePQ[key] # 0 /\ EdgePQ[key] \in Asked
      /\ Fp16[key] \in Inputs!Baselines /\ Q2[key] \in Inputs!Baselines
      /\ key \in Settings
  BY RevisionTypes DEF CacheInv, TypeOK
<1>3. CASE Inputs!Begin
  <2>1. Inputs!InputsTypeOK'
    BY <1>3, <1>1, <1>2 DEF Inputs!InputsTypeOK, Inputs!files, Inputs!Begin, Inputs!Places
  <2>2. FilesInv'
    BY <1>3, <1>1, <1>2 DEF FilesInv, Inputs!files, Inputs!Begin
  <2> QED
    BY <1>1, <2>1, <2>2
<1>4. CASE Inputs!CheckInputs \/ Inputs!Stop
  <2>1. Inputs!InputsTypeOK'
    BY <1>4, <1>1, <1>2 DEF Inputs!InputsTypeOK, Inputs!files, Inputs!CheckInputs, Inputs!Stop, Inputs!Places
  <2>2. FilesInv'
    <3>1. at' \in {"none", "ready"} /\ (at' = "ready" => at = "check") /\ UNCHANGED Inputs!files
      BY <1>4 DEF Inputs!CheckInputs, Inputs!Stop
    <3>2. StampHonest'
      BY <3>1 DEF FilesInv, Inputs!files
    <3> QED
      BY <3>1, <3>2, <1>1 DEF FilesInv, Inputs!files
  <2> QED
    BY <1>1, <2>1, <2>2
<1>5. CASE Inputs!ReuseModel
  <2>1. Inputs!InputsTypeOK'
    BY <1>5, <1>1, <1>2 DEF Inputs!InputsTypeOK, Inputs!files, Inputs!ReuseModel, Inputs!Places, Inputs!WriteStamp
  <2>2. FilesInv'
    BY <1>5, <1>1, <1>2 DEF FilesInv, Inputs!files, Inputs!ReuseModel, Inputs!Verifies, Inputs!WriteStamp
  <2> QED
    BY <1>1, <2>1, <2>2
<1>6. CASE Inputs!VerifyDownload
  <2>1. Inputs!InputsTypeOK'
    BY <1>6, <1>1, <1>2 DEF Inputs!InputsTypeOK, Inputs!files, Inputs!VerifyDownload, Inputs!Places, Inputs!WriteStamp
  <2>2. FilesInv'
    BY <1>6, <1>1, <1>2 DEF FilesInv, Inputs!files, Inputs!VerifyDownload, Inputs!Verifies, Inputs!WriteStamp
  <2> QED
    BY <1>1, <2>1, <2>2
<1>7. CASE Inputs!RemoveStamp
  <2>1. Inputs!InputsTypeOK'
    BY <1>7, <1>1, <1>2 DEF Inputs!InputsTypeOK, Inputs!files, Inputs!RemoveStamp, Inputs!Places
  <2>2. FilesInv'
    BY <1>7, <1>1, <1>2 DEF FilesInv, Inputs!files, Inputs!RemoveStamp
  <2> QED
    BY <1>1, <2>1, <2>2
<1>8. CASE Inputs!Download
  <2>1. Inputs!InputsTypeOK'
    BY <1>8, <1>1, <1>2 DEF Inputs!InputsTypeOK, Inputs!files, Inputs!Download, Inputs!Places
  <2>2. FilesInv'
    BY <1>8, <1>1, <1>2 DEF FilesInv, Inputs!files, Inputs!Download
  <2> QED
    BY <1>1, <2>1, <2>2
<1>9. CASE Inputs!CopyModel
  <2>1. Inputs!InputsTypeOK'
    BY <1>9, <1>1, <1>2 DEF Inputs!InputsTypeOK, Inputs!files, Inputs!CopyModel, Inputs!Places
  <2>2. FilesInv'
    BY <1>9, <1>1, <1>2 DEF FilesInv, Inputs!files, Inputs!CopyModel
  <2> QED
    BY <1>1, <2>1, <2>2
<1>10. CASE Inputs!ReuseAux("checkpoint", Checkpoint, "tokenizer")
  <2>1. Inputs!InputsTypeOK'
    BY <1>10, <1>1, <1>2 DEF Inputs!InputsTypeOK, Inputs!files, Inputs!ReuseAux, Inputs!Places
  <2>2. FilesInv'
    BY <1>10, <1>1, <1>2 DEF FilesInv, Inputs!files, Inputs!ReuseAux, Inputs!Reusable, Inputs!AuxFiles
  <2> QED
    BY <1>1, <2>1, <2>2
<1>11. CASE Inputs!AuxFetched("checkpoint", Checkpoint, "tokenizer")
  <2>1. Inputs!InputsTypeOK'
    BY <1>11, <1>1, <1>2 DEF Inputs!InputsTypeOK, Inputs!files, Inputs!AuxFetched, Inputs!Places
  <2>2. FilesInv'
    BY <1>11, <1>1, <1>2 DEF FilesInv, Inputs!files, Inputs!AuxFetched, Inputs!Reusable, Inputs!AuxFiles
  <2> QED
    BY <1>1, <2>1, <2>2
<1>12. CASE Inputs!ReuseAux("tokenizer", Tokenizer, "aux stamp")
  <2>1. Inputs!InputsTypeOK'
    BY <1>12, <1>1, <1>2 DEF Inputs!InputsTypeOK, Inputs!files, Inputs!ReuseAux, Inputs!Places
  <2>2. FilesInv'
    BY <1>12, <1>1, <1>2 DEF FilesInv, Inputs!files, Inputs!ReuseAux, Inputs!Reusable, Inputs!AuxFiles
  <2> QED
    BY <1>1, <2>1, <2>2
<1>13. CASE Inputs!AuxFetched("tokenizer", Tokenizer, "aux stamp")
  <2>1. Inputs!InputsTypeOK'
    BY <1>13, <1>1, <1>2 DEF Inputs!InputsTypeOK, Inputs!files, Inputs!AuxFetched, Inputs!Places
  <2>2. FilesInv'
    BY <1>13, <1>1, <1>2 DEF FilesInv, Inputs!files, Inputs!AuxFetched, Inputs!Reusable, Inputs!AuxFiles
  <2> QED
    BY <1>1, <2>1, <2>2
<1>14. CASE Inputs!FetchAux("checkpoint", Checkpoint) \/ Inputs!FetchAux("tokenizer", Tokenizer)
  <2>1. PICK f \in Inputs!AuxFiles : aux' = [aux EXCEPT ![f] = Pinned]
    BY <1>14 DEF Inputs!FetchAux, Inputs!AuxFiles
  <2>2. UNCHANGED <<key, model, verified, newer, auxStamp, fp16, q2, dataset, at>>
    BY <1>14 DEF Inputs!FetchAux
  <2>3. aux \in [Inputs!AuxFiles -> Inputs!Revisions \union {0}]
    BY DEF Inputs!InputsTypeOK
  <2>4. Inputs!InputsTypeOK'
    BY <1>2, <2>1, <2>2 DEF Inputs!InputsTypeOK
  <2>5. \A g \in Inputs!AuxFiles : aux[g] = Pinned => aux'[g] = Pinned
    BY <2>1, <2>3
  <2>6. FilesInv'
    BY <1>1, <2>2, <2>5 DEF FilesInv, Inputs!files, Inputs!AuxFiles
  <2> QED
    BY <1>1, <2>4, <2>6
<1>15. CASE Inputs!WriteAuxStamp
  <2>1. Inputs!InputsTypeOK'
    BY <1>15, <1>1, <1>2 DEF Inputs!InputsTypeOK, Inputs!files, Inputs!WriteAuxStamp, Inputs!Places
  <2>2. FilesInv'
    BY <1>15, <1>1, <1>2 DEF FilesInv, Inputs!files, Inputs!WriteAuxStamp
  <2> QED
    BY <1>1, <2>1, <2>2
<1>16. CASE Inputs!PrepareFp16
  <2>1. Inputs!InputsTypeOK'
    BY <1>16, <1>1, <1>2 DEF Inputs!InputsTypeOK, Inputs!files, Inputs!PrepareFp16, Inputs!Places
  <2>2. FilesInv'
    BY <1>16, <1>1, <1>2 DEF FilesInv, Inputs!files, Inputs!PrepareFp16
  <2> QED
    BY <1>1, <2>1, <2>2
<1>17. CASE Inputs!PrepareQ2
  <2>1. Inputs!InputsTypeOK'
    BY <1>17, <1>1, <1>2 DEF Inputs!InputsTypeOK, Inputs!files, Inputs!PrepareQ2, Inputs!Places
  <2>2. FilesInv'
    BY <1>17, <1>1, <1>2 DEF FilesInv, Inputs!files, Inputs!PrepareQ2
  <2> QED
    BY <1>1, <2>1, <2>2
<1>18. CASE Inputs!ReuseDataset
  <2>1. Inputs!InputsTypeOK'
    BY <1>18, <1>1, <1>2 DEF Inputs!InputsTypeOK, Inputs!files, Inputs!ReuseDataset, Inputs!Places
  <2>2. FilesInv'
    BY <1>18, <1>1, <1>2 DEF FilesInv, Inputs!files, Inputs!ReuseDataset
  <2> QED
    BY <1>1, <2>1, <2>2
<1>19. CASE Inputs!SaveDataset
  <2>1. Inputs!InputsTypeOK'
    BY <1>19, <1>1, <1>2 DEF Inputs!InputsTypeOK, Inputs!files, Inputs!SaveDataset, Inputs!Places
  <2>2. FilesInv'
    BY <1>19, <1>1, <1>2 DEF FilesInv, Inputs!files, Inputs!SaveDataset
  <2> QED
    BY <1>1, <2>1, <2>2
<1>20. CASE Inputs!DatasetSaved
  <2>1. Inputs!InputsTypeOK'
    BY <1>20, <1>1, <1>2 DEF Inputs!InputsTypeOK, Inputs!files, Inputs!DatasetSaved, Inputs!Places
  <2>2. FilesInv'
    BY <1>20, <1>1, <1>2 DEF FilesInv, Inputs!files, Inputs!DatasetSaved
  <2> QED
    BY <1>1, <2>1, <2>2
<1> QED
  BY <1>3, <1>4, <1>5, <1>6, <1>7, <1>8, <1>9, <1>10, <1>11, <1>12, <1>13, <1>14, <1>15, <1>16, <1>17, <1>18, <1>19, <1>20 DEF Preparing, Inputs!Prepare, Inputs!CheckpointStep, Inputs!TokenizerStep

LEMMA FileTypes ==
    ASSUME Inputs!InputsTypeOK
    PROVE  model \in Nat /\ fp16 \in Nat /\ q2 \in Nat /\ aux \in [Inputs!AuxFiles -> Nat]
<1>1. /\ \A r \in Inputs!Revisions \union {0, Damaged} : r \in Nat
      /\ \A r \in Inputs!Baselines \union {0} : r \in Nat
  <2>1. Inputs!Revisions \subseteq Nat \ {0} /\ Inputs!Baselines \subseteq Nat \ {0} /\ Damaged \in Nat
    BY RevisionTypes
  <2> QED
    BY <2>1
<1>2. aux \in [Inputs!AuxFiles -> Nat]
  BY <1>1 DEF Inputs!InputsTypeOK
<1> QED
  BY <1>1, <1>2 DEF Inputs!InputsTypeOK

(* Steps that leave the files alone. *)
LEMMA FilesKept ==
    ASSUME Inputs!InputsTypeOK, FilesInv, UNCHANGED <<key, used, files, at>>
    PROVE  Inputs!InputsTypeOK' /\ FilesInv'
<1>1. Inputs!InputsTypeOK'
  BY DEF files, Inputs!InputsTypeOK
<1>2. StampHonest'
  BY DEF files, FilesInv, StampHonest, Inputs!StampHonest, Inputs!StampCounts
<1>3. FilesInv'
  BY <1>2 DEF files, FilesInv, Pinned, Asked, AuxPinned
<1> QED
  BY <1>1, <1>3

LEMMA PipelineStep ==
    ASSUME Undisturbed, PipelineInv, [PipelineNext]_<<vars, files, at, measured>>
    PROVE  PipelineInv'
<1> USE DEF PipelineInv
<1>1. CacheInv'
  <2>1. [Next]_vars
    <3>1. CASE Preparing
      BY <3>1, PrepareKeepsFiles DEF Preparing, cacheRest, vars
    <3> QED
      BY <3>1 DEF PipelineNext, Measure, Open, Elsewhere, ChangePins, Next, vars
  <2> QED
    BY <2>1, CacheStep
<1>2. CASE Preparing
  <2>1. Inputs!InputsTypeOK' /\ FilesInv' /\ key' = key
    BY <1>2, PrepareKeepsFiles
  <2>2. target = "none" /\ target' = "none" /\ step = "none" /\ step' = "none"
    BY <1>2 DEF Preparing, cacheRest, CacheInv, TypeOK
  <2>3. MeasuredInv'
    BY <1>2, <2>1, <2>2 DEF Preparing, cacheRest, MeasuredInv, MeasuredModel, MeasuredAux, Pinned, Measuring
  <2> QED
    BY <1>1, <2>1, <2>3
<1>3. CASE Measure
  <2>1. at = "ready" /\ at' = "none" /\ UNCHANGED <<key, used, files, measured, stamp>>
    BY <1>3 DEF Measure, Ready, Make
  <2>2. Inputs!InputsTypeOK' /\ FilesInv'
    BY <2>1 DEF files, FilesInv, Inputs!InputsTypeOK, Inputs!Places, StampHonest, Inputs!StampHonest,
       Inputs!StampCounts, Pinned, Asked, AuxPinned
  <2>3. step' \in {"decide", "benchmark"} /\ (step' = "benchmark" => stamp # key) /\ target' # "none"
    BY <1>3 DEF Measure, Make, FirstStep, Targets, Undisturbed
  <2>4. model' = Pinned' /\ AuxPinned(Inputs!AuxFiles)'
    BY <2>1 DEF files, FilesInv, Pinned, AuxPinned
  <2>5. MeasuredInv'
    BY <2>1, <2>3, <2>4 DEF MeasuredInv, MeasuredModel, MeasuredAux, Measuring, Pinned
  <2> QED
    BY <1>1, <2>2, <2>5
<1>4. CASE Open /\ UNCHANGED <<files, at>>
  <2>1. UNCHANGED <<key, used, files, at, stamp>>
    BY <1>4 DEF Open, Benchmark, Ppl, PqPpl
  <2>2. Inputs!InputsTypeOK' /\ FilesInv'
    BY <2>1, FilesKept
  <2>3. model \in Nat /\ fp16 \in Nat /\ q2 \in Nat
    BY FileTypes
  <2>4. aux \in [Inputs!AuxFiles -> Nat]
    BY FileTypes
  <2>5. target \in {"all", "demo"} /\ stamp # key /\ at = "none" /\ step \in Measuring
    BY <1>4 DEF CacheInv, TypeOK, Open, Benchmark, Ppl, PqPpl, Measuring, MeasuredInv
  <2>6. model = Pinned /\ AuxPinned(Inputs!AuxFiles)
    BY <2>5 DEF MeasuredInv
  <2>7. UNCHANGED <<model, aux, Pinned>> /\ AuxPinned(Inputs!AuxFiles)'
    BY <2>1, <2>6 DEF files, Pinned, AuxPinned
  <2>8. measured \in [throughput : FileSet, baselines : FileSet, edgepq : [Inputs!AuxFiles -> Nat]]
    BY DEF MeasuredInv
  <2>9. CASE Benchmark
    <3>1. measured' = [measured EXCEPT !.throughput = [model |-> model, fp16 |-> fp16, q2 |-> q2]]
      BY <1>4, <2>9 DEF Open, Benchmark, Ppl, PqPpl
    <3>2. measured' \in [throughput : FileSet, baselines : FileSet, edgepq : [Inputs!AuxFiles -> Nat]]
      BY <2>3, <2>8, <3>1 DEF FileSet
    <3>3. MeasuredModel'
      BY <2>6, <2>7, <2>8, <3>1 DEF MeasuredModel
    <3>4. step' = "ppl"
      BY <2>5, <2>9 DEF Benchmark, GoOn, NextStep
    <3>5. MeasuredInv'
      BY <2>1, <2>5, <2>6, <2>7, <3>2, <3>3, <3>4 DEF MeasuredInv, Measuring
    <3> QED
      BY <1>1, <2>2, <3>5
  <2>10. CASE Ppl
    <3>1. measured' = [measured EXCEPT !.baselines = [None EXCEPT !.fp16 = fp16, !.q2 = q2]]
      BY <1>4, <2>10 DEF Open, Benchmark, Ppl, PqPpl
    <3>2. measured' \in [throughput : FileSet, baselines : FileSet, edgepq : [Inputs!AuxFiles -> Nat]]
      BY <2>3, <2>8, <3>1 DEF FileSet, None
    <3>3. MeasuredModel'
      BY <2>7, <2>8, <2>10, <3>1 DEF MeasuredModel, MeasuredInv, Measuring, Ppl
    <3>4. step' = "pq-ppl"
      BY <2>5, <2>10 DEF Ppl, GoOn, NextStep
    <3>5. MeasuredInv'
      BY <2>1, <2>5, <2>6, <2>7, <3>2, <3>3, <3>4 DEF MeasuredInv, Measuring
    <3> QED
      BY <1>1, <2>2, <3>5
  <2>11. CASE PqPpl
    <3>1. measured' = [measured EXCEPT !.edgepq = aux]
      BY <1>4, <2>11 DEF Open, Benchmark, Ppl, PqPpl
    <3>2. measured' \in [throughput : FileSet, baselines : FileSet, edgepq : [Inputs!AuxFiles -> Nat]]
      BY <2>4, <2>8, <3>1
    <3>3. MeasuredModel' /\ MeasuredAux'
      BY <2>6, <2>7, <2>8, <2>11, <3>1 DEF MeasuredModel, MeasuredAux, AuxPinned, MeasuredInv, Measuring, PqPpl
    <3>4. step' = "record"
      BY <2>5, <2>11 DEF PqPpl, GoOn, NextStep
    <3>5. MeasuredInv'
      BY <2>1, <2>5, <2>6, <2>7, <3>2, <3>3, <3>4 DEF MeasuredInv, Measuring
    <3> QED
      BY <1>1, <2>2, <3>5
  <2> QED
    BY <1>4, <2>9, <2>10, <2>11 DEF Open
<1>5. CASE ChangePins /\ UNCHANGED <<files, at, measured>>
  <2>1. /\ key' \in Settings /\ key' \notin used /\ used' = used \union {key'}
        /\ target = "none" /\ at = "none"
        /\ UNCHANGED <<throughput, ppl, stamp, target, step>>
    BY <1>5 DEF ChangePins, Change, Undisturbed
  <2>2. stamp' # key'
    BY <2>1, SettingsAssumption DEF CacheInv, TypeOK
  <2>3. EdgePQ[key'] = EdgePQ[key] \/ EdgePQ[key'] \notin Asked
    BY <1>5 DEF ChangePins, Change, Asked, Undisturbed
  <2>4. EdgePQ[key'] # 0
    BY <2>1, RevisionTypes
  <2>5. FilesInv' /\ Inputs!InputsTypeOK'
    BY <1>5, <2>1, <2>3, <2>4 DEF files, FilesInv, Inputs!InputsTypeOK, StampHonest,
       Inputs!StampHonest, Inputs!StampCounts, Pinned, Asked, AuxPinned
  <2>6. MeasuredInv'
    BY <1>5, <2>1, <2>2 DEF MeasuredInv, Measuring, CacheInv, TypeOK
  <2> QED
    BY <1>1, <2>5, <2>6
<1>6. CASE (Decide \/ Fail \/ Record \/ Reuse \/ Plot \/ Kill \/ (DistClean /\ at = "none"))
              /\ UNCHANGED <<files, at, measured>>
  <2>1. UNCHANGED <<key, used>>
    BY <1>6 DEF Decide, Fail, Record, Reuse, Plot, Kill, DistClean
  <2>2. FilesInv' /\ Inputs!InputsTypeOK'
    BY <1>6, <2>1, FilesKept
  <2>3. UNCHANGED <<Pinned, model, MeasuredModel, MeasuredAux, AuxPinned(Inputs!AuxFiles), at, measured>>
    BY <1>6, <2>1 DEF files, Pinned, MeasuredModel, MeasuredAux, AuxPinned
  <2> USE DEF MeasuredInv, Measuring
  <2>4. CASE Decide
    BY <1>1, <1>6, <2>1, <2>2, <2>3, <2>4 DEF Decide, Cached
  <2>5. CASE Record
    BY <1>1, <1>6, <2>1, <2>2, <2>3, <2>5 DEF Record, Idle, CacheInv
  <2>6. CASE Reuse
    BY <1>1, <1>6, <2>1, <2>2, <2>3, <2>6 DEF Reuse
  <2>7. CASE Fail
    <3>1. target' = "none" /\ step' = "none" /\ stamp' = stamp
      BY <2>7 DEF Fail, Idle, Undisturbed
    <3> QED
      BY <1>1, <2>1, <2>2, <2>3, <3>1
  <2>8. CASE Plot \/ Kill
    <3>1. target' = "none" /\ step' = "none" /\ stamp' = stamp
      BY <2>8 DEF Plot, Kill, Idle
    <3> QED
      BY <1>1, <2>1, <2>2, <2>3, <3>1
  <2>9. CASE DistClean
    BY <1>1, <1>6, <2>1, <2>2, <2>3, <2>9, SettingsAssumption DEF DistClean, CacheInv, TypeOK
  <2> QED
    BY <1>6, <2>4, <2>5, <2>6, <2>7, <2>8, <2>9
<1>7. CASE UNCHANGED <<vars, files, at, measured>>
  <2>1. FilesInv' /\ Inputs!InputsTypeOK'
    BY <1>7, FilesKept DEF vars
  <2>2. MeasuredInv'
    BY <1>7 DEF vars, files, MeasuredInv, MeasuredModel, MeasuredAux, Pinned, AuxPinned
  <2> QED
    BY <1>1, <2>1, <2>2
<1> QED
  BY <1>2, <1>3, <1>4, <1>5, <1>6, <1>7 DEF PipelineNext, Elsewhere

LEMMA PipelineInvariant == Undisturbed /\ PipelineSpec => []PipelineInv
<1>1. CASE Undisturbed
  <2>1. PipelineInv /\ [PipelineNext]_<<vars, files, at, measured>> => PipelineInv'
    BY <1>1, PipelineStep
  <2>2. PipelineSpec => []PipelineInv
    BY PipelineInitial, <2>1, PTL DEF PipelineSpec
  <2> QED
    BY <2>2
<1> QED
  BY <1>1

(* A stamp beside the model that counts says what the model is. *)
THEOREM PipelineStamp == Undisturbed /\ PipelineSpec => []StampHonest
<1>1. PipelineInv => StampHonest
  BY DEF PipelineInv, FilesInv
<1> QED
  BY PipelineInvariant, <1>1, PTL

(* Inputs that are ready are of the revision of EdgePQ in force, however   *)
(* often preparation of this or other revisions was interrupted.           *)
THEOREM PipelinePrepared == Undisturbed /\ PipelineSpec => []EdgePQPrepared
<1>1. PipelineInv => EdgePQPrepared
  BY DEF PipelineInv, FilesInv, EdgePQPrepared, Inputs!EdgePQPrepared, AuxPinned, Inputs!Pinned, Pinned
<1> QED
  BY PipelineInvariant, <1>1, PTL

(* The EdgePQ files behind the rows that demo reuses or plots are of the   *)
(* revision in force.                                                      *)
THEOREM PipelineMeasured == Undisturbed /\ PipelineSpec => []MeasuredAsPinned
<1>1. PipelineInv => MeasuredAsPinned
  BY DEF PipelineInv, MeasuredInv, MeasuredAsPinned, MeasuredModel, MeasuredAux, Pinned
<1> QED
  BY PipelineInvariant, <1>1, PTL
=============================================================================
