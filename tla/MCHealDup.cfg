\* Two rules whose action names the same target.
CONSTANTS
  t1 = t1  t2 = t2  r1 = r1  r2 = r2
  Target = {t1}
  Rule = {r1, r2}
  Handler = {h1}
  Worker = {w1, w2, w3}
  Slots = 2
  ChainLen <- ThreeSteps
  MaxDepth = 6
  Threshold = 3
  Ancestors <- NoAncestors
  Source = {"alert"}
  InitLevels = {"execute"}
  AdminLevels = {"notify", "execute"}
  NoKey = NoKey
SPECIFICATION Spec
INVARIANT NoDuplicateHeals
