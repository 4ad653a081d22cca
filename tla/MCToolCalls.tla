----------------------------- MODULE MCToolCalls -----------------------------
EXTENDS ToolCalls, FiniteSets

\* Bound: of the requests of an instance, so many ever start.
AtMostThreeStart == Cardinality({r \in Requests : pc[r] # "idle"}) <= 3

\* Bound: the arguments of a call hold one value at most, under either key.
OneValuePassed ==
  /\ \A i \in Invocations :
       /\ args[i].secret \cup args[i].ordinary \subseteq {FromEnv}
       /\ args[i].secret \cap args[i].ordinary = {}
  /\ \A e \in waiting : e.payload.args \cup e.payload.reason \subseteq {FromEnv}
==============================================================================
