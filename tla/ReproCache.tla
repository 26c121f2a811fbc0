----------------------------- MODULE ReproCache -----------------------------
(***************************************************************************)
(* The result cache of the reproduction (Makefile): `make demo` shows the  *)
(* CSV files in the output directory instead of measuring again when a     *)
(* stamp file holds the key of the settings in force; `make all` always    *)
(* measures.  The targets that write the CSVs do not know of the stamp.    *)
(*                                                                         *)
(* Settings are whatever goes into RESULTS_CACHE_KEY: the revisions of the *)
(* models, the protocol, and every variable that can be given on make's    *)
(* command line.  They do not change while a target runs.  A CSV row is    *)
(* modelled by the settings it was measured with; 0 is no row or no file.  *)
(***************************************************************************)
EXTENDS Naturals

CONSTANTS
    Settings,       \* the settings that are ever used
    DemoStepsFail,  \* may a measurement of `make demo` fail?
    Standalone,     \* are benchmark, ppl and pq-ppl run by themselves?
    Again           \* are recorded results measured again, or old settings used again?

ASSUME SettingsAssumption ==
    /\ Settings \subseteq Nat \ {0}
    /\ Settings # {}
    /\ {DemoStepsFail, Standalone, Again} \subseteq BOOLEAN

VARIABLES
    key,        \* the settings in force
    used,       \* the settings used so far
    throughput, \* throughput.csv
    ppl,        \* perplexity.csv: the rows of the baselines, the EdgePQ row
    stamp,      \* the cache stamp
    target,     \* the target make is running
    step        \* its next step

vars == <<key, used, throughput, ppl, stamp, target, step>>

Init ==
    /\ key \in Settings
    /\ used = {key}
    /\ throughput = 0
    /\ ppl = [baselines |-> 0, edgepq |-> 0]
    /\ stamp = 0
    /\ target = "none"
    /\ step = "none"

Idle == target' = "none" /\ step' = "none"

-----------------------------------------------------------------------------
(* Other settings: another revision is checked out, or other variables are *)
(* given to the next make.                                                 *)
Change ==
    /\ target = "none"
    /\ key' \in IF Again THEN Settings ELSE Settings \ used
    /\ used' = used \union {key'}
    /\ UNCHANGED <<throughput, ppl, stamp, target, step>>

Targets == {"all", "demo"} \union IF Standalone THEN {"benchmark", "ppl", "pq-ppl"} ELSE {}

FirstStep(t) == CASE t = "all" -> "benchmark"
                  [] t = "demo" -> "decide"
                  [] OTHER -> t

(* The inputs, the build and the self-test come first and stop the run     *)
(* when they fail.                                                         *)
Make ==
    /\ target = "none"
    /\ target' \in Targets
    /\ Again \/ ~(target' = "all" /\ stamp = key)
    /\ step' = FirstStep(target')
    /\ UNCHANGED <<key, used, throughput, ppl, stamp>>

PplExists == ppl.baselines # 0 \/ ppl.edgepq # 0

\* Mutant of Cached: the stamp only has to exist.
Cached_AnyStamp == throughput # 0 /\ PplExists /\ stamp # 0

(* Both files are there and the stamp names the settings in force.         *)
Cached == throughput # 0 /\ PplExists /\ stamp = key

Decide ==
    /\ step = "decide"
    /\ step' = IF Cached THEN "reuse" ELSE "benchmark"
    /\ UNCHANGED <<key, used, throughput, ppl, stamp, target>>

\* Mutant of NextStep: the EdgePQ row first, which the baselines then wipe.
NextStep_Swapped(s) == CASE s = "benchmark" -> "pq-ppl"
                         [] s = "pq-ppl" -> "ppl"
                         [] s = "ppl" -> "record"

NextStep(s) == CASE s = "benchmark" -> "ppl"
                 [] s = "ppl" -> "pq-ppl"
                 [] s = "pq-ppl" -> "record"

(* A measurement is over: all and demo go on to the next one. *)
GoOn ==
    IF target \in {"all", "demo"}
    THEN step' = NextStep(step) /\ UNCHANGED target
    ELSE Idle

Benchmark ==
    /\ step = "benchmark"
    /\ throughput' = key
    /\ GoOn
    /\ UNCHANGED <<key, used, ppl, stamp>>

(* The baselines' rows replace the file ... *)
Ppl ==
    /\ step = "ppl"
    /\ ppl' = [baselines |-> key, edgepq |-> 0]
    /\ GoOn
    /\ UNCHANGED <<key, used, throughput, stamp>>

(* ... and the EdgePQ row is appended to it. *)
PqPpl ==
    /\ step = "pq-ppl"
    /\ ppl' = [ppl EXCEPT !.edgepq = key]
    /\ GoOn
    /\ UNCHANGED <<key, used, throughput, stamp>>

(* A measurement fails: it ends before it writes its file.  The lines of   *)
(* `all` are commands of their own, the first failure stops make; demo's   *)
(* are one shell command, joined by semicolons, and the next one runs.     *)
Fail ==
    /\ step \in {"benchmark", "ppl", "pq-ppl"}
    /\ target = "demo" => DemoStepsFail
    /\ IF target = "demo" THEN GoOn ELSE Idle
    /\ UNCHANGED <<key, used, throughput, ppl, stamp>>

(* record-results-cache, after which demo plots. *)
Record ==
    /\ step = "record"
    /\ stamp' = key
    /\ IF target = "demo" THEN step' = "plot" /\ UNCHANGED target ELSE Idle
    /\ UNCHANGED <<key, used, throughput, ppl>>

Reuse ==
    /\ step = "reuse"
    /\ step' = "plot"
    /\ UNCHANGED <<key, used, throughput, ppl, stamp, target>>

(* The charts and the summary are made of whatever the files hold; a file  *)
(* that is missing is an error.                                            *)
Plot ==
    /\ step = "plot"
    /\ Idle
    /\ UNCHANGED <<key, used, throughput, ppl, stamp>>

(* distclean removes the output directory, stamp and all. *)
DistClean ==
    /\ target = "none"
    /\ throughput' = 0
    /\ ppl' = [baselines |-> 0, edgepq |-> 0]
    /\ stamp' = 0
    /\ UNCHANGED <<key, used, target, step>>

(* Make is interrupted. *)
Kill ==
    /\ target # "none"
    /\ Idle
    /\ UNCHANGED <<key, used, throughput, ppl, stamp>>

Next ==
    \/ Change \/ Make \/ Decide
    \/ Benchmark \/ Ppl \/ PqPpl \/ Fail \/ Record \/ Reuse \/ Plot \/ Kill
    \/ DistClean

Spec == Init /\ [][Next]_vars

-----------------------------------------------------------------------------
(* Types of the variables; a step belongs to a target that has it. *)
TypeOK ==
    /\ key \in Settings
    /\ used \subseteq Settings
    /\ throughput \in Settings \union {0}
    /\ ppl \in [baselines : Settings \union {0}, edgepq : Settings \union {0}]
    /\ stamp \in Settings \union {0}
    /\ target \in {"none", "all", "demo", "benchmark", "ppl", "pq-ppl"}
    /\ step \in {"none", "decide", "reuse", "benchmark", "ppl", "pq-ppl", "record", "plot"}
    /\ target = "none" <=> step = "none"
    /\ step \in {"decide", "reuse", "plot"} => target = "demo"

AllMeasuredWith(k) == throughput = k /\ ppl = [baselines |-> k, edgepq |-> k]

(* "It reuses result CSVs only when their cache key matches the pinned     *)
(* models and evaluation protocol" (README.md): what is reused was         *)
(* measured with the settings in force, all of it.                         *)
ReuseMatches == step = "reuse" => AllMeasuredWith(key)

(* What demo plots, measured or reused, was measured with the settings in  *)
(* force.                                                                  *)
PlotMatches == step = "plot" => AllMeasuredWith(key)
=============================================================================
