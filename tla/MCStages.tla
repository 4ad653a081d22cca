------------------------------- MODULE MCStages -------------------------------
EXTENDS Stages

CONSTANTS careful, loose, review, foreign

\* A narrower experiment, one that promises no contract, a review, and a stage there is
\* not.
MCPluginVars ==
  [c \in {careful, loose, review, foreign} |->
     CASE c = careful -> [EchoVars["experimentation"] EXCEPT !.targets = {"data_preparation"}]
       [] c = loose   -> [EchoVars["experimentation"] EXCEPT !.repro = FALSE]
       [] c = review  -> EchoVars["peer_review"]
       [] c = foreign -> [EchoVars["peer_review"] EXCEPT !.name = "other"]]
===============================================================================
