\* One rule on two targets; only the circuit breaker changes its level.
CONSTANTS
  t1 = t1  t2 = t2  r1 = r1  r2 = r2
  Target = {t1, t2}
  Rule = {r1}
  Handler = {h1}
  Worker = {w1, w2, w3}
  Slots = 1
  ChainLen <- ThreeSteps
  MaxDepth = 6
  Threshold = 2
  Ancestors <- SecondNeedsFirst
  Source = {"alert"}
  InitLevels = {"execute"}
  AdminLevels = {}
  NoKey = NoKey
SPECIFICATION Spec
PROPERTY EscalatesOnlyAtExecuteTrust
