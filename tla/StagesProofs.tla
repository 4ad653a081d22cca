----------------------------- MODULE StagesProofs -----------------------------
(***************************************************************************)
(* Theorems about Stages, for any classes of plugins.  The argument: every *)
(* field of every input is made by one earlier stage with the type the     *)
(* input asks for (Maker, FieldType), an accepted output has the types of  *)
(* its contract, and an accepted signal goes strictly back.                *)
(***************************************************************************)
EXTENDS Stages, TLAPS

\* The position of the stage that makes a field, 0 for the seeds of the chain.
Maker ==
  [question |-> 0, dataset |-> 0, citations |-> 1, corpus_id |-> 1, hypotheses |-> 2,
   methodology |-> 2, characterization |-> 3, splits |-> 4, prep_script |-> 4,
   metrics |-> 5, artifacts |-> 5, findings |-> 6, report_markdown |-> 7]

FieldType ==
  [question |-> "Question", dataset |-> "Dataset", citations |-> "Citations",
   corpus_id |-> "String", hypotheses |-> "Hypotheses", methodology |-> "String",
   characterization |-> "String", splits |-> "Splits", prep_script |-> "Artifact",
   metrics |-> "Metrics", artifacts |-> "Artifacts", findings |-> "Findings",
   report_markdown |-> "Artifact"]

-----------------------------------------------------------------------------
(* The tables *)

\* The pipeline has eight stages, each at one position.
LEMMA Names8 ==
  /\ Len(STAGE_NAMES) = 8
  /\ STAGE_NAMES[1] = "literature_review" /\ STAGE_NAMES[2] = "plan_formulation"
  /\ STAGE_NAMES[3] = "data_exploration"  /\ STAGE_NAMES[4] = "data_preparation"
  /\ STAGE_NAMES[5] = "experimentation"   /\ STAGE_NAMES[6] = "interpretation"
  /\ STAGE_NAMES[7] = "report_writing"    /\ STAGE_NAMES[8] = "peer_review"
BY DEF STAGE_NAMES

LEMMA StageAt ==
  ASSUME NEW n \in 1..8
  PROVE  STAGE_NAMES[n] \in Stages
<1>1. n = 1 \/ n = 2 \/ n = 3 \/ n = 4 \/ n = 5 \/ n = 6 \/ n = 7 \/ n = 8
  OBVIOUS
<1> QED BY <1>1, Names8 DEF Stages

LEMMA PositionOK ==
  ASSUME NEW s \in Stages
  PROVE  Position(s) \in 1..8 /\ STAGE_NAMES[Position(s)] = s
<1>1. \E i \in 1..8 : STAGE_NAMES[i] = s
  BY Names8 DEF Stages
<1> QED BY <1>1, Names8 DEF Position

\* A canonical target is earlier than the stage that may name it.
LEMMA TargetsAreEarlier ==
  ASSUME NEW a \in 1..8, NEW n \in 1..8,
         STAGE_NAMES[n] \in CANONICAL_BACKTRACK_TARGETS[STAGE_NAMES[a]]
  PROVE  n < a
<1> DEFINE T == CANONICAL_BACKTRACK_TARGETS
<1>1. /\ T["literature_review"] = {} /\ T["plan_formulation"] = {"literature_review"}
      /\ T["data_exploration"] = {"plan_formulation"}
      /\ T["data_preparation"] = {"data_exploration"}
      /\ T["experimentation"] = {"plan_formulation", "data_preparation", "data_exploration"}
      /\ T["interpretation"] = {"experimentation"}
      /\ T["report_writing"] = {"interpretation"}
      /\ T["peer_review"] = Stages \ {"peer_review"}
  BY DEF CANONICAL_BACKTRACK_TARGETS
<1>2. n = 1 \/ n = 2 \/ n = 3 \/ n = 4 \/ n = 5 \/ n = 6 \/ n = 7 \/ n = 8
  OBVIOUS
<1> HIDE DEF T
<1>3. STAGE_NAMES[n] \in T[STAGE_NAMES[a]]
  BY DEF T
<1>4. CASE a = 1 BY <1>1, <1>2, <1>3, <1>4, Names8
<1>5. CASE a = 2 BY <1>1, <1>2, <1>3, <1>5, Names8
<1>6. CASE a = 3 BY <1>1, <1>2, <1>3, <1>6, Names8
<1>7. CASE a = 4 BY <1>1, <1>2, <1>3, <1>7, Names8
<1>8. CASE a = 5 BY <1>1, <1>2, <1>3, <1>8, Names8
<1>9. CASE a = 6 BY <1>1, <1>2, <1>3, <1>9, Names8
<1>10. CASE a = 7 BY <1>1, <1>2, <1>3, <1>10, Names8
<1>11. CASE a = 8 BY <1>1, <1>2, <1>3, <1>11, Names8
<1> QED BY <1>4, <1>5, <1>6, <1>7, <1>8, <1>9, <1>10, <1>11

\* A canonical target is a stage.
LEMMA TargetsAreStages ==
  ASSUME NEW s \in Stages, NEW t \in CANONICAL_BACKTRACK_TARGETS[s]
  PROVE  t \in Stages
BY DEF Stages, CANONICAL_BACKTRACK_TARGETS

\* The output of a stage makes the fields that have its position, with their types.
LEMMA OutputsMake ==
  ASSUME NEW n \in 1..8, NEW f \in Fields
  PROVE  /\ f \in DOMAIN Output[STAGE_NAMES[n]] <=> Maker[f] = n
         /\ Maker[f] = n => Output[STAGE_NAMES[n]][f] = FieldType[f]
<1> DEFINE Goal(k) == /\ f \in DOMAIN Output[STAGE_NAMES[k]] <=> Maker[f] = k
                      /\ Maker[f] = k => Output[STAGE_NAMES[k]][f] = FieldType[f]
<1>1. Output[STAGE_NAMES[1]] = LiteratureReviewOutput /\ Output[STAGE_NAMES[2]] = PlanFormulationOutput
  BY Names8 DEF Output
<1>2. Output[STAGE_NAMES[3]] = DataExplorationOutput /\ Output[STAGE_NAMES[4]] = DataPreparationOutput
  BY Names8 DEF Output
<1>3. Output[STAGE_NAMES[5]] = ExperimentationOutput /\ Output[STAGE_NAMES[6]] = InterpretationOutput
  BY Names8 DEF Output
<1>4. Output[STAGE_NAMES[7]] = ReportWritingOutput /\ Output[STAGE_NAMES[8]] = PeerReviewOutput
  BY Names8 DEF Output
<1>5. Goal(1) BY <1>1 DEF LiteratureReviewOutput, Fields, Maker, FieldType
<1>6. Goal(2) BY <1>1 DEF PlanFormulationOutput, Fields, Maker, FieldType
<1>7. Goal(3) BY <1>2 DEF DataExplorationOutput, Fields, Maker, FieldType
<1>8. Goal(4) BY <1>2 DEF DataPreparationOutput, Fields, Maker, FieldType
<1>9. Goal(5) BY <1>3 DEF ExperimentationOutput, Fields, Maker, FieldType
<1>10. Goal(6) BY <1>3 DEF InterpretationOutput, Fields, Maker, FieldType
<1>11. Goal(7) BY <1>4 DEF ReportWritingOutput, Fields, Maker, FieldType
<1>12. Goal(8) BY <1>4 DEF PeerReviewOutput, Fields, Maker, FieldType
<1>13. n = 1 \/ n = 2 \/ n = 3 \/ n = 4 \/ n = 5 \/ n = 6 \/ n = 7 \/ n = 8
  OBVIOUS
<1> QED BY <1>5, <1>6, <1>7, <1>8, <1>9, <1>10, <1>11, <1>12, <1>13

\* What an input asks for is made by an earlier stage, with the type it asks for.
LEMMA InputsAreMade ==
  ASSUME NEW n \in 1..8, NEW f \in DOMAIN Input[STAGE_NAMES[n]], f \notin Optional
  PROVE  /\ Source(f) \in Fields /\ Maker[Source(f)] < n
         /\ FieldType[Source(f)] = Input[STAGE_NAMES[n]][f]
<1> DEFINE Goal(k, I) == \A g \in DOMAIN I : g \notin Optional =>
                       /\ Source(g) \in Fields /\ Maker[Source(g)] < k
                       /\ FieldType[Source(g)] = I[g]
<1>1. Input[STAGE_NAMES[1]] = LiteratureReviewInput /\ Input[STAGE_NAMES[2]] = PlanFormulationInput
  BY Names8 DEF Input
<1>2. Input[STAGE_NAMES[3]] = DataExplorationInput /\ Input[STAGE_NAMES[4]] = DataPreparationInput
  BY Names8 DEF Input
<1>3. Input[STAGE_NAMES[5]] = ExperimentationInput /\ Input[STAGE_NAMES[6]] = InterpretationInput
  BY Names8 DEF Input
<1>4. Input[STAGE_NAMES[7]] = ReportWritingInput /\ Input[STAGE_NAMES[8]] = PeerReviewInput
  BY Names8 DEF Input
<1>5. Goal(1, LiteratureReviewInput) BY DEF LiteratureReviewInput, Optional, Source, Fields, Maker, FieldType
<1>6. Goal(2, PlanFormulationInput) BY DEF PlanFormulationInput, Optional, Source, Fields, Maker, FieldType
<1>7. Goal(3, DataExplorationInput) BY DEF DataExplorationInput, Optional, Source, Fields, Maker, FieldType
<1>8. Goal(4, DataPreparationInput) BY DEF DataPreparationInput, Optional, Source, Fields, Maker, FieldType
<1>9. Goal(5, ExperimentationInput) BY DEF ExperimentationInput, Optional, Source, Fields, Maker, FieldType
<1>10. Goal(6, InterpretationInput) BY DEF InterpretationInput, Optional, Source, Fields, Maker, FieldType
<1>11. Goal(7, ReportWritingInput) BY DEF ReportWritingInput, Optional, Source, Fields, Maker, FieldType
<1>12. Goal(8, PeerReviewInput) BY DEF PeerReviewInput, Optional, Source, Fields, Maker, FieldType
<1>13. Goal(n, Input[STAGE_NAMES[n]])
  <2>1. n = 1 \/ n = 2 \/ n = 3 \/ n = 4 \/ n = 5 \/ n = 6 \/ n = 7 \/ n = 8
    OBVIOUS
  <2> HIDE DEF Goal
  <2> QED BY <2>1, <1>1, <1>2, <1>3, <1>4, <1>5, <1>6, <1>7, <1>8, <1>9, <1>10, <1>11, <1>12
<1> QED BY <1>13

-----------------------------------------------------------------------------
(* Classes and the validator *)

\* An echo stage returns an output that the validator takes.
LEMMA EchoIsValid ==
  ASSUME NEW s \in Stages
  PROVE  EchoResult(s).kind = "output" /\ ValidOutput(s, EchoResult(s))
<1> DEFINE p == [f \in DOMAIN Output[s] |-> IF f \in Nullable THEN "None" ELSE Output[s][f]]
           r == IF s = "experimentation" THEN "whole" ELSE "none"
<1>1. /\ EchoResult(s).kind = "output" /\ EchoResult(s).payload = p
      /\ EchoResult(s).repro = r
  BY DEF EchoResult, Returned, Nothing
<1>2. Validates(p, Output[s])
  BY DEF Validates
<1>3. (s \in STAGE_REPRODUCIBILITY_REQUIRED => r # "none") /\ r # "partial"
  BY DEF STAGE_REPRODUCIBILITY_REQUIRED
<1> HIDE DEF p, r
<1> QED BY <1>1, <1>2, <1>3 DEF ValidOutput

\* What a registered class declares and returns accordingly, the validator takes.
LEMMA HonouredIsValid ==
  ASSUME NEW c, Conforms(c), NEW r, Honours(c, r)
  PROVE  \/ r.kind = "output" /\ ValidOutput(Vars(c).name, r)
         \/ r.kind = "signal" /\ ValidBacktrack(Vars(c).name, r)
BY DEF Conforms, Honours, ValidOutput, ValidBacktrack

\* A class returns an output or a signal.
LEMMA ResultsTyped ==
  ASSUME NEW c, NEW r \in Results(c)
  PROVE  ResultTypeOK(r)
<1>1. CASE c \in Stages
  <2>1. r = EchoResult(c)
    BY <1>1 DEF Results
  <2> QED BY <2>1 DEF EchoResult, Returned, Nothing, ResultTypeOK, Names
<1>2. CASE c \notin Stages
  <2>1. r \in PluginResults(Vars(c).name)
    BY <1>2 DEF Results
  <2>2. CASE \E p \in Payloads(Vars(c).name), q \in {"none", "partial", "whole"} : r = Returned(p, q)
    BY <2>2 DEF Returned, Nothing, ResultTypeOK, Names
  <2>3. CASE \E t \in Names, k \in {{}, CANONICAL_PRESERVE_TAGS[Vars(c).name], {"extra"}} : r = Signal(t, k)
    BY <2>3 DEF Signal, Nothing, ResultTypeOK
  <2> QED BY <2>1, <2>2, <2>3 DEF PluginResults
<1> QED BY <1>1, <1>2

-----------------------------------------------------------------------------
(* The invariant *)

\* Every listed class passed the rules.
RegisteredConform == \A c \in Classes : registered[c] > 0 => Conforms(c)

\* The runner has what the stages before the current one make.
FieldsCarried == \A f \in Fields : Maker[f] < at => carried[f] = FieldType[f]

\* The result is one of the resolved class.
ResultOfRunning == phase \in {"judge", "refused"} => result \in Results(running)

IInv == TypeOK /\ RegisteredConform /\ FieldsCarried /\ ResultOfRunning /\ OnlyResultsAreRefused

LEMMA MakerType == Maker \in [Fields -> 0..7] BY DEF Maker, Fields

LEMMA SeedsCarried ==
  /\ DOMAIN OnlySeeds = Fields
  /\ \A f \in Fields : Maker[f] < 1 => OnlySeeds[f] = FieldType[f]
BY DEF OnlySeeds, Seeds, Fields, Maker, FieldType

LEMMA NothingTyped == ResultTypeOK(Nothing)
BY DEF Nothing, ResultTypeOK, Names

LEMMA InitInv == Init => IInv
<1> SUFFICES ASSUME Init PROVE IInv
  OBVIOUS
<1> USE PluginsAssumption, NothingTyped, SeedsCarried, Names8
<1>1. TypeOK BY DEF Init, TypeOK, Phases, Terminal
<1>2. RegisteredConform BY DEF Init, RegisteredConform
<1>3. FieldsCarried BY DEF Init, FieldsCarried
<1>4. ResultOfRunning BY DEF Init, ResultOfRunning
<1>5. OnlyResultsAreRefused BY DEF Init, OnlyResultsAreRefused
<1> QED BY <1>1, <1>2, <1>3, <1>4, <1>5 DEF IInv

LEMMA DiscoverInv == IInv /\ Discover => IInv'
<1> SUFFICES ASSUME IInv, Discover PROVE IInv'
  OBVIOUS
<1> USE DEF IInv
<1>1. PICK loaded : /\ \A c \in loaded : Conforms(c)
                    /\ registered' = [c \in Classes |-> IF c \in loaded THEN 1 ELSE 0]
  BY DEF Discover
<1>2. UNCHANGED <<phase, at, carried, running, result>>
  BY DEF Discover
<1>a. registered' \in [Classes -> 0..MaxTimes]
  BY <1>1, PluginsAssumption
<1>3. TypeOK'
  BY <1>a, <1>2 DEF TypeOK, Stage
<1>4. RegisteredConform'
  BY <1>1 DEF RegisteredConform
<1>5. FieldsCarried' /\ ResultOfRunning' /\ OnlyResultsAreRefused'
  BY <1>2 DEF FieldsCarried, ResultOfRunning, OnlyResultsAreRefused
<1> QED BY <1>3, <1>4, <1>5

LEMMA RegisterInv == ASSUME IInv, NEW k \in Plugins, Register(k) PROVE IInv'
<1> USE DEF IInv
<1>1. UNCHANGED <<phase, at, carried, running, result>>
  BY DEF Register
<1>a. registered' \in [Classes -> 0..MaxTimes]
  BY PluginsAssumption DEF Register, TypeOK, Classes
<1>2. TypeOK'
  BY <1>a, <1>1 DEF TypeOK, Stage
<1>3. RegisteredConform'
  BY DEF RegisteredConform, Register, TypeOK
<1>4. FieldsCarried' /\ ResultOfRunning' /\ OnlyResultsAreRefused'
  BY <1>1 DEF FieldsCarried, ResultOfRunning, OnlyResultsAreRefused
<1> QED BY <1>2, <1>3, <1>4

LEMMA StartInv == IInv /\ Start => IInv'
<1> SUFFICES ASSUME IInv, Start PROVE IInv'
  OBVIOUS
<1> USE DEF IInv
<1>1. TypeOK'
  BY NothingTyped, SeedsCarried, Names8 DEF TypeOK, Start, Phases
<1>2. RegisteredConform'
  BY DEF Start, RegisteredConform
<1>3. FieldsCarried'
  BY SeedsCarried DEF Start, FieldsCarried
<1>4. ResultOfRunning' /\ OnlyResultsAreRefused'
  BY DEF Start, ResultOfRunning, OnlyResultsAreRefused
<1> QED BY <1>1, <1>2, <1>3, <1>4

LEMMA ResolveInv == IInv /\ Resolve => IInv'
<1> SUFFICES ASSUME IInv, Resolve PROVE IInv'
  OBVIOUS
<1> USE DEF IInv
<1>1. result' = Nothing /\ UNCHANGED <<registered, at, carried>>
  BY DEF Resolve
<1>2. RegisteredConform' /\ FieldsCarried'
  BY <1>1 DEF RegisteredConform, FieldsCarried
<1>3. CASE \E c \in Classes : Default(c, Stage) /\ running' = c /\ phase' = "input"
  <2>1. PICK c \in Classes : Default(c, Stage) /\ running' = c /\ phase' = "input"
    BY <1>3
  <2>2. registered[c] > 0 /\ Vars(c).name = Stage
    BY <2>1 DEF Default, Listed
  <2>3. Conforms(c)
    BY <2>2 DEF RegisteredConform
  <2>4. Stage' = Stage
    BY <1>1 DEF Stage
  <2>5. TypeOK'
    BY <1>1, <2>1, <2>2, <2>3, <2>4, NothingTyped DEF TypeOK, Phases
  <2>6. ResultOfRunning' /\ OnlyResultsAreRefused'
    BY <2>1 DEF ResultOfRunning, OnlyResultsAreRefused
  <2> QED BY <1>2, <2>5, <2>6
<1>4. CASE phase' = "unresolved" /\ UNCHANGED running
  <2>1. TypeOK'
    BY <1>1, <1>4, NothingTyped DEF TypeOK, Phases, Terminal
  <2>2. ResultOfRunning' /\ OnlyResultsAreRefused'
    BY <1>4 DEF ResultOfRunning, OnlyResultsAreRefused
  <2> QED BY <1>2, <2>1, <2>2
<1> QED BY <1>3, <1>4 DEF Resolve

LEMMA ValidateInputInv == IInv /\ ValidateInput => IInv'
<1> SUFFICES ASSUME IInv, ValidateInput PROVE IInv'
  OBVIOUS
<1> USE DEF IInv
<1>1. PICK given \in SUBSET (DOMAIN Input[Stage] \cap Optional) :
        phase' = IF ValidInput(Stage, InputOf(Stage, given)) THEN "execute" ELSE "input_refused"
  BY DEF ValidateInput
<1>2. at \in 1..8
  BY Names8 DEF TypeOK
<1>3. ValidInput(Stage, InputOf(Stage, given))
  <2> DEFINE p == InputOf(Stage, given)
             I == Input[Stage]
  <2>1. DOMAIN p = (DOMAIN I \ Optional) \cup given
    BY DEF InputOf
  <2>2. \A f \in DOMAIN p : p[f] = IF f \in given THEN I[f] ELSE carried[Source(f)]
    BY DEF InputOf
  <2>3. ASSUME NEW f \in DOMAIN p, f \notin given PROVE p[f] = I[f]
    <3>1. f \in DOMAIN Input[STAGE_NAMES[at]] /\ f \notin Optional
      BY <2>1, <2>3 DEF Stage
    <3>2. /\ Source(f) \in Fields /\ Maker[Source(f)] < at
          /\ FieldType[Source(f)] = Input[STAGE_NAMES[at]][f]
      BY <1>2, <3>1, InputsAreMade
    <3>3. carried[Source(f)] = FieldType[Source(f)]
      BY <3>2 DEF FieldsCarried
    <3> QED BY <2>2, <2>3, <3>2, <3>3 DEF Stage
  <2>4. \A f \in DOMAIN p : p[f] = I[f]
    BY <2>2, <2>3
  <2> HIDE DEF p, I
  <2>5. Validates(p, I)
    BY <2>1, <2>4, <1>1 DEF Validates, I
  <2> QED BY <2>5 DEF ValidInput, p, I
<1>4. phase' = "execute"
  BY <1>1, <1>3
<1>5. phase = "input" /\ UNCHANGED <<registered, at, carried, running, result>>
  BY DEF ValidateInput
<1>6. TypeOK'
  BY <1>4, <1>5 DEF TypeOK, Phases, Stage
<1>7. RegisteredConform' /\ FieldsCarried' /\ ResultOfRunning' /\ OnlyResultsAreRefused'
  BY <1>4, <1>5 DEF RegisteredConform, FieldsCarried, ResultOfRunning, OnlyResultsAreRefused
<1> QED BY <1>6, <1>7

LEMMA ExecuteInv == IInv /\ Execute => IInv'
<1> SUFFICES ASSUME IInv, Execute PROVE IInv'
  OBVIOUS
<1> USE DEF IInv
<1>1. phase = "execute" /\ UNCHANGED <<registered, at, carried, running>>
  BY DEF Execute
<1>2. RegisteredConform' /\ FieldsCarried'
  BY <1>1 DEF RegisteredConform, FieldsCarried
<1>3. CASE \E r \in Results(running) : result' = r /\ phase' = "judge"
  <2>1. ResultTypeOK(result')
    BY <1>3, ResultsTyped
  <2>2. TypeOK'
    BY <1>1, <1>3, <2>1 DEF TypeOK, Phases, Stage
  <2>3. ResultOfRunning' /\ OnlyResultsAreRefused'
    BY <1>1, <1>3 DEF ResultOfRunning, OnlyResultsAreRefused
  <2> QED BY <1>2, <2>2, <2>3
<1>4. CASE phase' = "raised" /\ UNCHANGED result
  <2>1. TypeOK'
    BY <1>1, <1>4 DEF TypeOK, Phases, Terminal
  <2>2. ResultOfRunning' /\ OnlyResultsAreRefused'
    BY <1>4 DEF ResultOfRunning, OnlyResultsAreRefused
  <2> QED BY <1>2, <2>1, <2>2
<1> QED BY <1>3, <1>4 DEF Execute

LEMMA AcceptInv == IInv /\ Accept => IInv'
<1> SUFFICES ASSUME IInv, Accept PROVE IInv'
  OBVIOUS
<1> USE DEF IInv
<1>1. at \in 1..8
  BY Names8 DEF TypeOK
<1>2. /\ carried' = [f \in Fields |-> IF f \in DOMAIN result.payload THEN result.payload[f]
                                        ELSE carried[f]]
      /\ UNCHANGED <<registered, running, result>>
  BY DEF Accept
<1>3. \/ at < 8 /\ at' = at + 1 /\ phase' = "resolve"
      \/ at' = at /\ phase' = "done"
  BY Names8 DEF Accept
<1>4. Validates(result.payload, Output[STAGE_NAMES[at]])
  BY DEF Accept, ValidOutput, Stage
<1>5. ASSUME NEW f \in Fields, Maker[f] <= at PROVE carried'[f] = FieldType[f]
  <2>1. Maker[f] \in 0..7 /\ f \notin Optional /\ f \notin Nullable
    BY MakerType DEF Fields, Optional, Nullable
  <2>2. /\ f \in DOMAIN Output[STAGE_NAMES[at]] <=> Maker[f] = at
        /\ Maker[f] = at => Output[STAGE_NAMES[at]][f] = FieldType[f]
    BY <1>1, OutputsMake
  <2>3. CASE Maker[f] = at
    <3>1. f \in DOMAIN result.payload
      BY <1>4, <2>1, <2>2, <2>3 DEF Validates
    <3>2. result.payload[f] = FieldType[f]
      BY <1>4, <2>1, <2>2, <2>3, <3>1 DEF Validates
    <3> QED BY <1>2, <3>1, <3>2
  <2>4. CASE Maker[f] # at
    <3>1. f \notin DOMAIN result.payload
      BY <1>4, <2>2, <2>4 DEF Validates
    <3>2. carried[f] = FieldType[f]
      BY <1>1, <1>5, <2>1, <2>4 DEF FieldsCarried
    <3> QED BY <1>2, <3>1, <3>2
  <2> QED BY <2>3, <2>4
<1>6. FieldsCarried'
  <2> SUFFICES ASSUME NEW f \in Fields, Maker[f] < at' PROVE carried'[f] = FieldType[f]
    BY DEF FieldsCarried
  <2>1. Maker[f] <= at
    BY <1>1, <1>3, MakerType
  <2> QED BY <1>5, <2>1
<1>7. at' \in 1..8 /\ phase' \in {"resolve", "done"}
  BY <1>1, <1>3
<1>8. TypeOK'
  BY <1>2, <1>7, Names8 DEF TypeOK, Phases, Terminal
<1>9. RegisteredConform' /\ ResultOfRunning' /\ OnlyResultsAreRefused'
  BY <1>2, <1>7 DEF RegisteredConform, ResultOfRunning, OnlyResultsAreRefused
<1> QED BY <1>6, <1>8, <1>9

LEMMA GoBackInv == IInv /\ GoBack => IInv'
<1> SUFFICES ASSUME IInv, GoBack PROVE IInv'
  OBVIOUS
<1> USE DEF IInv
<1>1. at \in 1..8
  BY Names8 DEF TypeOK
<1>2. STAGE_NAMES[at] \in Stages
  BY <1>1, StageAt
<1>3. result.target \in CANONICAL_BACKTRACK_TARGETS[STAGE_NAMES[at]]
  BY DEF GoBack, ValidBacktrack, Stage
<1>4. result.target \in Stages
  BY <1>2, <1>3, TargetsAreStages
<1>5. at' \in 1..8 /\ STAGE_NAMES[at'] = result.target
  BY <1>4, PositionOK DEF GoBack
<1>6. at' < at
  BY <1>1, <1>3, <1>5, TargetsAreEarlier
<1>7. /\ carried' = [f \in Fields |->
                       IF \E i \in at'..8 : f \in DOMAIN Output[STAGE_NAMES[i]]
                         THEN "None" ELSE carried[f]]
      /\ phase' = "resolve" /\ UNCHANGED <<registered, running, result>>
  BY Names8 DEF GoBack
<1>8. FieldsCarried'
  <2> SUFFICES ASSUME NEW f \in Fields, Maker[f] < at' PROVE carried'[f] = FieldType[f]
    BY DEF FieldsCarried
  <2>1. Maker[f] \in 0..7
    BY MakerType
  <2>2. ASSUME NEW i \in at'..8 PROVE f \notin DOMAIN Output[STAGE_NAMES[i]]
    <3>1. i \in 1..8 /\ Maker[f] # i
      BY <1>5, <2>1, <2>2
    <3> QED BY <3>1, OutputsMake
  <2>3. carried'[f] = carried[f]
    BY <1>7, <2>2
  <2>4. Maker[f] < at
    BY <1>1, <1>5, <1>6, <2>1
  <2> QED BY <2>3, <2>4 DEF FieldsCarried
<1>9. TypeOK'
  BY <1>5, <1>7, Names8 DEF TypeOK, Phases
<1>10. RegisteredConform' /\ ResultOfRunning' /\ OnlyResultsAreRefused'
  BY <1>7 DEF RegisteredConform, ResultOfRunning, OnlyResultsAreRefused
<1> QED BY <1>8, <1>9, <1>10

LEMMA RefuseInv == IInv /\ Refuse => IInv'
<1> SUFFICES ASSUME IInv, Refuse PROVE IInv'
  OBVIOUS
<1> USE DEF IInv
<1>1. /\ phase = "judge" /\ phase' = "refused"
      /\ UNCHANGED <<registered, at, carried, running, result>>
  BY DEF Refuse
<1>2. running \in Classes /\ Conforms(running) /\ Vars(running).name = Stage
  BY <1>1 DEF TypeOK
<1>3. ~(result.kind = "output" /\ ValidOutput(Stage, result))
  BY DEF Refuse
<1>4. ~(result.kind = "signal" /\ ValidBacktrack(Stage, result))
  BY DEF Refuse
<1>5. ~Honours(running, result)
  BY <1>2, <1>3, <1>4, HonouredIsValid
<1>6. running \notin Stages
  <2> SUFFICES ASSUME running \in Stages PROVE FALSE
    OBVIOUS
  <2>1. result = EchoResult(running)
    BY <1>1 DEF ResultOfRunning, Results
  <2>2. Stage = running
    BY <1>2 DEF Vars, EchoVars
  <2> QED BY <1>3, <2>1, <2>2, EchoIsValid
<1>7. OnlyResultsAreRefused'
  BY <1>1, <1>2, <1>5, <1>6 DEF OnlyResultsAreRefused, Classes
<1>8. TypeOK'
  BY <1>1 DEF TypeOK, Phases, Terminal, Stage
<1>9. RegisteredConform' /\ FieldsCarried' /\ ResultOfRunning'
  BY <1>1 DEF RegisteredConform, FieldsCarried, ResultOfRunning
<1> QED BY <1>7, <1>8, <1>9

LEMMA NextInv == IInv /\ [Next]_vars => IInv'
<1> SUFFICES ASSUME IInv, [Next]_vars PROVE IInv'
  OBVIOUS
<1>1. CASE Discover BY <1>1, DiscoverInv
<1>2. CASE \E c \in Plugins : Register(c) BY <1>2, RegisterInv
<1>3. CASE Start BY <1>3, StartInv
<1>4. CASE Resolve BY <1>4, ResolveInv
<1>5. CASE ValidateInput BY <1>5, ValidateInputInv
<1>6. CASE Execute BY <1>6, ExecuteInv
<1>7. CASE Accept BY <1>7, AcceptInv
<1>8. CASE GoBack BY <1>8, GoBackInv
<1>9. CASE Refuse BY <1>9, RefuseInv
<1>10. CASE UNCHANGED vars
  <2>1. UNCHANGED <<registered, phase, at, carried, running, result>>
    BY <1>10 DEF vars
  <2> QED BY <2>1 DEF IInv, TypeOK, RegisteredConform, FieldsCarried, ResultOfRunning,
                      OnlyResultsAreRefused, Stage
<1> QED BY <1>1, <1>2, <1>3, <1>4, <1>5, <1>6, <1>7, <1>8, <1>9, <1>10 DEF Next

LEMMA Invariance == Spec => []IInv
<1> QED BY InitInv, NextInv, PTL DEF Spec

\* Every reachable state has its type: a class that is executed and judged passed the
\* rules of register and stands for the current stage.
THEOREM TypeCorrect == Spec => []TypeOK
<1>1. IInv => TypeOK
  BY DEF IInv
<1> QED BY <1>1, Invariance, PTL

\* Whatever classes plugins bring, register, return and signal: an input never fails, an
\* echo stage is never refused, and another class only for what it returned against its
\* own declarations (register, validate_input, validate_output, validate_backtrack).
THEOREM OnlyResultsAreRefusedAlways == Spec => []OnlyResultsAreRefused
<1>1. IInv => OnlyResultsAreRefused
  BY DEF IInv
<1> QED BY <1>1, Invariance, PTL
===============================================================================
