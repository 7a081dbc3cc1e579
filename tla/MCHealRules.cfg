\* Two rules on one target, one permit, chains cut by the depth limit; only
\* the circuit breaker changes a level.
CONSTANTS
  t1 = t1  t2 = t2  r1 = r1  r2 = r2
  Target = {t1}
  Rule = {r1, r2}
  Handler = {h1, h2}
  Worker = {w1, w2, w3}
  Slots = 1
  ChainLen <- ThreeSteps
  MaxDepth = 2
  Threshold = 1
  Ancestors <- NoAncestors
  Source = {"alert"}
  InitLevels = {"execute"}
  AdminLevels = {}
  NoKey = NoKey
SYMMETRY RuleSymmetry
SPECIFICATION Spec
INVARIANTS
  EscalationHasOwner
  OneOwnerPerEscalation
  StepsFollowChain
  PermitsConserved
  TrackedTargetHasHeal
PROPERTY ImplementsLease
