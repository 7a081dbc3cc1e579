\* One run of every kind; one gate row, one row of the heal pipeline, one fault;
\* the constants of the escalations are in MCFlow.
CONSTANTS
  Approval = {a1, a2}
  HealRow = {a1}
  ApprovalFaults = 1
  fork = fork  gate = gate  yes = yes  no = no  act = act  pause = pause  cond = cond
  none = none
  Node = {fork, gate, yes, no, act, pause, cond}
  NoNode = none
  Graph <- MCGraph
  Entry = fork
  Worker = {1, 2}
  MaxDepth = 5
  Steps = 3
  Missing = {2}
  Retries = 1
  Run = {r1}
  MaxJobs = 1
  Caller = {c1}
  Stopper = Stopper
  Kind = {"child", "family", "privileged", "reply", "nothing"}
SPECIFICATION FlowSpec
INVARIANTS
  ExecutedAsDecided
  GateIsPassed
PROPERTIES
  JobEnds
  EscalationEnds
  KeepsPromise
  AutoApprovedHasResult
  WorkflowEnds
CHECK_DEADLOCK FALSE
