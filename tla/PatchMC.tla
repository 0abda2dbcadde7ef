------------------------------ MODULE PatchMC ------------------------------
(***************************************************************************)
(* Instances of Patch: presets of two equations over three variables.      *)
(***************************************************************************)
EXTENDS Patch, SequencesExt

q == Var("q")
zoom == Var("zoom")
time == Var("time")
one == Const("1")

\* Copies, sums of products, nested and repeated operands, trigonometry, a comparison and an
\* operator that the compiler does not know.
Expressions == {
  one, time, q,
  Apply("+", <<q, one>>),
  Apply("*", <<Apply("+", <<q, time>>), Apply("-", <<zoom, one>>)>>),
  Apply("+", <<Apply("sin", <<time>>), Apply("cos", <<zoom>>)>>),
  Apply("above", <<Apply("*", <<zoom, zoom>>), Const("2")>>),
  Apply("+", <<Apply("*", <<q, q>>), Apply("*", <<Apply("*", <<time, q>>), zoom>>)>>),
  Apply("%", <<Apply("+", <<q, time>>), one>>) }

\* The expressions and their parts, as deep as they are.
Parts(S) == S \cup UNION {IF n.label = "" THEN {} ELSE Range(n.args) : n \in S}
NodesMC == Parts(Parts(Parts(Expressions)))
Within(S) == {n \in NodesMC : n.label = "" \/ Range(n.args) \subseteq S}
DepthMC ==
  [n \in NodesMC |-> IF n \in Within({}) THEN 0
                     ELSE IF n \in Within(Within({})) THEN 1
                     ELSE IF n \in Within(Within(Within({}))) THEN 2 ELSE 3]

Equation(t, e) == [target |-> t, node |-> e]

\* A first equation that always emits code, and any second and third.
Pairs ==
  {<<Equation("q", e1), Equation(t, e2), Equation("zoom", e3)>> :
     e1 \in {Apply("+", <<q, time>>), zoom}, t \in {"q", "zoom", "decay"},
     e2 \in Expressions, e3 \in Expressions}

PresetsMC ==
  {[parameters |-> IF eqs[2].target = "decay" THEN [fDecay |-> "3"] ELSE [zoom |-> "5"],
    equations |-> eqs] : eqs \in Pairs}
=============================================================================
