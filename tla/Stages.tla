-------------------------------- MODULE Stages --------------------------------
(***************************************************************************)
(* The stages of a research run: the classes that implement them, the      *)
(* registry's rules (stages/registry.py), the validator of what goes in    *)
(* and comes out (stages/validator.py), the contracts, and the echo stages *)
(* of the package.  The runner that resolves, validates and executes one   *)
(* stage after the other, and goes back on a signal, is not part of the    *)
(* repository; its order here is that of the chain test                    *)
(* (tests/integration/stages/test_pipeline_chain.py).                      *)
(*                                                                         *)
(* A payload maps fields to the types of their values.  A model is         *)
(* identified by the stage it is the contract of, and an echo stage by the *)
(* stage it stands for.                                                    *)
(***************************************************************************)
EXTENDS Naturals, Sequences

CONSTANTS
  Plugins,     \* classes of stages of other packages
  PluginVars,  \* their class variables
  MaxTimes     \* bound of the times a plugin registers one class

STAGE_NAMES ==
  <<"literature_review", "plan_formulation", "data_exploration", "data_preparation",
    "experimentation", "interpretation", "report_writing", "peer_review">>

Stages == {"literature_review", "plan_formulation", "data_exploration", "data_preparation",
           "experimentation", "interpretation", "report_writing", "peer_review"}

Names == Stages \cup {"other"}

-----------------------------------------------------------------------------
(* Contracts *)

LiteratureReviewInput ==
  [question |-> "Question", prior_corpus_ids |-> "Strings", target_count_min |-> "Int"]
LiteratureReviewOutput ==
  [citations |-> "Citations", summaries |-> "Summaries", corpus_id |-> "String"]

PlanFormulationInput ==
  [citations |-> "Citations", corpus_id |-> "String", question |-> "Question"]
PlanFormulationOutput ==
  [hypotheses |-> "Hypotheses", methodology |-> "String",
   success_criteria |-> "Strings", accepted_citation_ids |-> "Strings"]

DataExplorationInput == [dataset |-> "Dataset", hypotheses |-> "Hypotheses"]
DataExplorationOutput ==
  [summary_stats |-> "Stats", plots |-> "Artifacts",
   characterization |-> "String", exec_log |-> "ExecLog"]

DataPreparationInput ==
  [dataset |-> "Dataset", characterization |-> "String", plan_excerpt |-> "String"]
DataPreparationOutput ==
  [prep_script |-> "Artifact", splits |-> "Splits",
   transforms |-> "Strings", exec_log |-> "ExecLog"]

ExperimentationInput ==
  [hypotheses |-> "Hypotheses", splits |-> "Splits", prep_script |-> "Artifact"]
ExperimentationOutput ==
  [metrics |-> "Metrics", artifacts |-> "Artifacts",
   exec_logs |-> "ExecLogs", memory_entries_created |-> "Strings"]

InterpretationInput ==
  [metrics |-> "Metrics", artifacts |-> "Artifacts", hypotheses |-> "Hypotheses"]
InterpretationOutput == [findings |-> "Findings", confidence_notes |-> "Strings"]

ReportWritingInput ==
  [findings |-> "Findings", citations |-> "Citations",
   metrics |-> "Metrics", methodology |-> "String"]
ReportWritingOutput ==
  [report_markdown |-> "Artifact", report_latex |-> "Artifact", report_pdf |-> "Artifact",
   cited_chunk_ids |-> "Strings", pandoc_log |-> "ExecLog"]

PeerReviewInput ==
  [report_markdown |-> "Artifact", findings |-> "Findings",
   metrics |-> "Metrics", methodology |-> "String"]
PeerReviewOutput ==
  [critique |-> "String", action_items |-> "Items", recommended_backtrack |-> "Signal"]

\* CANONICAL_CONTRACTS.
Input ==
  [literature_review |-> LiteratureReviewInput, plan_formulation |-> PlanFormulationInput,
   data_exploration  |-> DataExplorationInput,  data_preparation |-> DataPreparationInput,
   experimentation   |-> ExperimentationInput,  interpretation   |-> InterpretationInput,
   report_writing    |-> ReportWritingInput,    peer_review      |-> PeerReviewInput]

Output ==
  [literature_review |-> LiteratureReviewOutput, plan_formulation |-> PlanFormulationOutput,
   data_exploration  |-> DataExplorationOutput,  data_preparation |-> DataPreparationOutput,
   experimentation   |-> ExperimentationOutput,  interpretation   |-> InterpretationOutput,
   report_writing    |-> ReportWritingOutput,    peer_review      |-> PeerReviewOutput]

\* Fields with a default, and fields that must be present but may be None.
Optional == {"prior_corpus_ids", "target_count_min", "memory_entries_created"}
Nullable == {"report_latex", "report_pdf", "pandoc_log", "recommended_backtrack"}

\* model_validate: extra="forbid", every field without a default, every type.
Validates(payload, model) ==
  /\ DOMAIN payload \subseteq DOMAIN model
  /\ DOMAIN model \ Optional \subseteq DOMAIN payload
  /\ \A f \in DOMAIN payload :
       payload[f] # model[f] => f \in Nullable /\ payload[f] = "None"

STAGE_REPRODUCIBILITY_REQUIRED == {"experimentation"}

CANONICAL_BACKTRACK_TARGETS ==
  [literature_review |-> {},
   plan_formulation  |-> {"literature_review"},
   data_exploration  |-> {"plan_formulation"},
   data_preparation  |-> {"data_exploration"},
   experimentation   |-> {"plan_formulation", "data_preparation", "data_exploration"},
   interpretation    |-> {"experimentation"},
   report_writing    |-> {"interpretation"},
   peer_review       |-> Stages \ {"peer_review"}]

CANONICAL_PRESERVE_TAGS ==
  [literature_review |-> {},
   plan_formulation  |-> {"accepted_citation_ids"},
   data_exploration  |-> {"summary_stats", "plots", "characterization"},
   data_preparation  |-> {"prep_script", "splits", "transforms"},
   experimentation   |-> {"metrics", "artifacts", "memory_entries_created"},
   interpretation    |-> {"findings"},
   report_writing    |-> {"report_markdown", "report_latex", "report_pdf", "cited_chunk_ids"},
   peer_review       |-> {"action_items"}]

-----------------------------------------------------------------------------
(* Classes *)

\* What __init_subclass__ lets through: the four class variables of their types.
ClassVars ==
  [name : Names, input : Names, output : Names, repro : BOOLEAN, targets : SUBSET Names]

ASSUME PluginsAssumption ==
  /\ Plugins \cap Names = {}
  /\ PluginVars \in [Plugins -> ClassVars]
  /\ MaxTimes \in Nat \ {0}

Classes == Stages \cup Plugins

EchoVars ==
  [s \in Stages |-> [name |-> s, input |-> s, output |-> s, repro |-> s = "experimentation",
                     targets |-> CANONICAL_BACKTRACK_TARGETS[s]]]

Vars(c) == IF c \in Stages THEN EchoVars[c] ELSE PluginVars[c]

\* Mutant: the flag of the class is not compared with the canonical set.
ConformsButRepro(c) ==
  LET v == Vars(c) IN
  /\ v.name \in Stages
  /\ v.input = v.name /\ v.output = v.name
  /\ v.targets \subseteq CANONICAL_BACKTRACK_TARGETS[v.name]

\* Rules 1 to 4 of register; the fifth only warns.
Conforms(c) ==
  LET v == Vars(c) IN
  /\ v.name \in Stages
  /\ v.input = v.name /\ v.output = v.name
  /\ v.repro <=> v.name \in STAGE_REPRODUCIBILITY_REQUIRED
  /\ v.targets \subseteq CANONICAL_BACKTRACK_TARGETS[v.name]

-----------------------------------------------------------------------------
(* Results of execute *)

Nothing == [kind |-> "none", payload |-> <<>>, repro |-> "none", target |-> "other", preserve |-> {}]

Returned(payload, repro) == [Nothing EXCEPT !.kind = "output", !.payload = payload, !.repro = repro]

Signal(target, preserve) == [Nothing EXCEPT !.kind = "signal", !.target = target, !.preserve = preserve]

\* What the echo stages return: what is nullable is None.
EchoResult(s) ==
  Returned([f \in DOMAIN Output[s] |-> IF f \in Nullable THEN "None" ELSE Output[s][f]],
           IF s = "experimentation" THEN "whole" ELSE "none")

\* What a class of a plugin may return for the stage: an output that is right, lacks a
\* field, has one too many or a value of another type or None, and a signal.
Payloads(s) ==
  LET model  == Output[s]
      fields == DOMAIN model
  IN  {[f \in fields \ {g} |-> model[f]] : g \in fields \cup {"extra"}}
        \cup {[f \in fields |-> IF f = g THEN t ELSE model[f]] : g \in fields, t \in {"None", "Junk"}}
        \cup {[f \in fields \cup {"extra"} |-> IF f = "extra" THEN "Junk" ELSE model[f]]}

PluginResults(s) ==
  {Returned(p, r) : p \in Payloads(s), r \in {"none", "partial", "whole"}}
    \cup {Signal(t, k) : t \in Names, k \in {{}, CANONICAL_PRESERVE_TAGS[s], {"extra"}}}

Results(c) == IF c \in Stages THEN {EchoResult(c)} ELSE PluginResults(Vars(c).name)

\* Whether a class returns what its class variables promise.
Honours(c, r) ==
  LET v == Vars(c) IN
  \/ /\ r.kind = "output"
     /\ Validates(r.payload, Output[v.output])
     /\ IF v.repro THEN r.repro = "whole" ELSE r.repro # "partial"
  \/ /\ r.kind = "signal"
     /\ r.target \in v.targets
     /\ r.preserve \subseteq CANONICAL_PRESERVE_TAGS[v.name]

-----------------------------------------------------------------------------
(* The validator *)

ValidInput(s, payload) == Validates(payload, Input[s])

ValidOutput(s, r) ==
  /\ Validates(r.payload, Output[s])
  /\ s \in STAGE_REPRODUCIBILITY_REQUIRED => r.repro # "none"
  /\ r.repro # "partial"

\* Mutant: any stage is a target.
ValidBacktrackAnywhere(s, r) ==
  /\ r.target \in Stages
  /\ r.preserve \subseteq CANONICAL_PRESERVE_TAGS[s]

ValidBacktrack(s, r) ==
  /\ r.target \in CANONICAL_BACKTRACK_TARGETS[s]
  /\ r.preserve \subseteq CANONICAL_PRESERVE_TAGS[s]

-----------------------------------------------------------------------------
(* State *)

VARIABLES
  registered,  \* registered[c]: how often the registry lists the class
  phase,       \* what the runner does next, or how the run ended
  at,          \* position of the stage in STAGE_NAMES
  carried,     \* carried[f]: type of the value the runner has for a field of an input
  running,     \* the class that was resolved for the stage
  result       \* what it returned

vars == <<registered, phase, at, carried, running, result>>

NoClass == "none"

Terminal == {"idle", "unresolved", "input_refused", "raised", "refused", "done"}
Phases   == Terminal \cup {"resolve", "input", "execute", "judge"}

Stage == STAGE_NAMES[at]

Position(s) == CHOOSE i \in 1..Len(STAGE_NAMES) : STAGE_NAMES[i] = s

\* The fields the chain takes from one stage to a later one, and its two seeds.
Seeds  == [question |-> "Question", dataset |-> "Dataset"]
Fields == {"question", "dataset", "citations", "corpus_id", "hypotheses", "methodology",
           "characterization", "splits", "prep_script", "metrics", "artifacts", "findings",
           "report_markdown"}

\* The plan excerpt is the methodology; every other field keeps its name.
Source(f) == IF f = "plan_excerpt" THEN "methodology" ELSE f

OnlySeeds == [f \in Fields |-> IF f \in DOMAIN Seeds THEN Seeds[f] ELSE "None"]

ResultTypeOK(r) ==
  /\ r.kind \in {"none", "output", "signal"}
  /\ r.repro \in {"none", "partial", "whole"}
  /\ r.target \in Names

TypeOK ==
  /\ registered \in [Classes -> 0..MaxTimes]
  /\ phase \in Phases
  /\ at \in 1..Len(STAGE_NAMES)
  /\ DOMAIN carried = Fields
  /\ running \in Classes \cup {NoClass}
  /\ ResultTypeOK(result)
  /\ phase \in {"input", "execute", "judge", "refused"} =>
       running \in Classes /\ Conforms(running) /\ Vars(running).name = Stage

Init ==
  /\ registered = [c \in Classes |-> 0]
  /\ phase = "idle"
  /\ at = 1
  /\ carried = OnlySeeds
  /\ running = NoClass
  /\ result = Nothing

-----------------------------------------------------------------------------
(* The registry *)

\* discover_stages on a new registry: the entry points are the echo stages and those of
\* plugins, in any order, and the first that does not conform ends it.
Discover ==
  /\ \A c \in Classes : registered[c] = 0
  /\ \E entries \in SUBSET Plugins :
       LET fine == {c \in Stages \cup entries : Conforms(c)} IN
       \E loaded \in SUBSET fine :
         /\ fine = Stages \cup entries => loaded = fine
         /\ registered' = [c \in Classes |-> IF c \in loaded THEN 1 ELSE 0]
  /\ UNCHANGED <<phase, at, carried, running, result>>

\* register by other code; it does not ask whether the class is listed.
Register(c) ==
  /\ c \in Plugins /\ registered[c] < MaxTimes
  /\ Conforms(c)
  /\ registered' = [registered EXCEPT ![c] = @ + 1]
  /\ UNCHANGED <<phase, at, carried, running, result>>

\* default_for: the sole implementation, or LookupError, or NotImplementedError.
Listed(s) == {c \in Classes : registered[c] > 0 /\ Vars(c).name = s}

Default(c, s) == Listed(s) = {c} /\ registered[c] = 1

-----------------------------------------------------------------------------
(* A run *)

Start ==
  /\ phase \in Terminal
  /\ phase' = "resolve"
  /\ at' = 1
  /\ carried' = OnlySeeds
  /\ running' = NoClass
  /\ result' = Nothing
  /\ UNCHANGED registered

Resolve ==
  /\ phase = "resolve"
  /\ \/ \E c \in Classes : Default(c, Stage) /\ running' = c /\ phase' = "input"
     \/ /\ \A c \in Classes : ~Default(c, Stage)
        /\ phase' = "unresolved" /\ UNCHANGED running
  /\ result' = Nothing
  /\ UNCHANGED <<registered, at, carried>>

\* The input of the stage from what is carried, with any of the optional fields.
InputOf(s, given) ==
  [f \in (DOMAIN Input[s] \ Optional) \cup given |->
     IF f \in given THEN Input[s][f] ELSE carried[Source(f)]]

ValidateInput ==
  /\ phase = "input"
  /\ \E given \in SUBSET (DOMAIN Input[Stage] \cap Optional) :
       phase' = IF ValidInput(Stage, InputOf(Stage, given)) THEN "execute" ELSE "input_refused"
  /\ UNCHANGED <<registered, at, carried, running, result>>

Execute ==
  /\ phase = "execute"
  /\ \/ \E r \in Results(running) : result' = r /\ phase' = "judge"
     \/ running \in Plugins /\ phase' = "raised" /\ UNCHANGED result
  /\ UNCHANGED <<registered, at, carried, running>>

Accept ==
  /\ phase = "judge" /\ result.kind = "output" /\ ValidOutput(Stage, result)
  /\ carried' = [f \in Fields |-> IF f \in DOMAIN result.payload THEN result.payload[f]
                                  ELSE carried[f]]
  /\ IF at < Len(STAGE_NAMES) THEN at' = at + 1 /\ phase' = "resolve"
                              ELSE UNCHANGED at /\ phase' = "done"
  /\ UNCHANGED <<registered, running, result>>

\* The run goes back; what the target and the stages after it made is gone.
GoBack ==
  /\ phase = "judge" /\ result.kind = "signal" /\ ValidBacktrack(Stage, result)
  /\ at' = Position(result.target)
  /\ carried' = [f \in Fields |->
                   IF \E i \in at'..Len(STAGE_NAMES) : f \in DOMAIN Output[STAGE_NAMES[i]]
                     THEN "None" ELSE carried[f]]
  /\ phase' = "resolve"
  /\ UNCHANGED <<registered, running, result>>

Refuse ==
  /\ phase = "judge"
  /\ result.kind = "output" => ~ValidOutput(Stage, result)
  /\ result.kind = "signal" => ~ValidBacktrack(Stage, result)
  /\ phase' = "refused"
  /\ UNCHANGED <<registered, at, carried, running, result>>

Next ==
  \/ Discover \/ \E c \in Plugins : Register(c)
  \/ Start \/ Resolve \/ ValidateInput \/ Execute \/ Accept \/ GoBack \/ Refuse

Spec == Init /\ [][Next]_vars

(***************************************************************************)
(* Properties                                                              *)
(***************************************************************************)
\* A run is stopped by the validator only for what the class that was resolved has just
\* returned against its own declarations: the registry's rules, the contracts of all the
\* stages, their order and the targets of signals leave no other reason, so an input
\* never fails and an echo stage is never refused.
OnlyResultsAreRefused ==
  /\ phase # "input_refused"
  /\ phase = "refused" => running \in Plugins /\ ~Honours(running, result)
===============================================================================
