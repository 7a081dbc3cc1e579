--------------------------- MODULE MCHealPipeline ---------------------------
(***************************************************************************)
(* Instances of HealPipeline for TLC.                                      *)
(***************************************************************************)
EXTENDS HealPipeline, TLC

CONSTANTS t1, t2, r1, r2

ThreeSteps == [r \in Rule |-> 3]
NoAncestors == [t \in Target |-> {}]
SecondNeedsFirst == [t \in Target |-> IF t = t2 THEN {t1} ELSE {}]

\* Threads are interchangeable; so are rules that have equal chains.
RuleSymmetry ==
  Permutations(Handler) \union Permutations(Worker) \union Permutations(Rule)
=============================================================================
