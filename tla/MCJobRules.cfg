\* Two runs in a pool of one (a family can do what a child can), and one
\* thread that cancels, while the server may be stopped or crash.
CONSTANTS
  Run = {r1, r2}
  MaxJobs = 1
  Caller = {c1}
  Stopper = Stopper
  Kind = {"family", "reply"}
SYMMETRY RunSymmetry
SPECIFICATION Spec
INVARIANTS
  WorkIsBounded
  RunningRowIsAttended
  OutcomeIsTrue
PROPERTY KeepsContract
