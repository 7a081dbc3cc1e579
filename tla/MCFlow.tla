------------------------------- MODULE MCFlow -------------------------------
(***************************************************************************)
(* Instances for TLC of what must end: the jobs of JobRunner, the          *)
(* workflows whose steps they are with their approvals, and the            *)
(* escalations of HealPipeline.  Workflow takes a job for what JobRunner   *)
(* promises of it, and the three share no state: each behaviour is one of  *)
(* one of them.                                                            *)
(***************************************************************************)
EXTENDS JobRunner, Workflow

CONSTANTS fork, gate, yes, no, act, pause, cond, none

VARIABLES part,   \* "jobs", "workflows" or "heals"
          \* Those of HealPipeline; targets is its active.
          window, alerts, targets, esc, stuck, permits, handling, heal, trust, fails

healVars == <<window, alerts, targets, esc, stuck, permits, handling, heal, trust, fails>>

\* One rule whose chain has three steps, one target and one permit, which a heal
\* thread and the thread of its next step compete for.
Heals == INSTANCE HealPipeline WITH
    active <- targets, Target <- {"t"}, Rule <- {"r"}, Handler <- {"h1", "h2"}, Worker <- 1..3,
    Slots <- 1, ChainLen <- [r \in {"r"} |-> 3], MaxDepth <- 6, Threshold <- 1,
    Ancestors <- [t \in {"t"} |-> {}], Source <- {"alert"}, InitLevels <- {"execute"},
    AdminLevels <- {"execute"}, NoKey <- none

Plain(type, next) == [type |-> type, next |-> next, other |-> none, branches |-> <<>>]

\* Every type of node: a fan-out into a gate, whose join runs round through an
\* action, a delay and a condition.
MCGraph == [n \in {fork, gate, yes, no, act, pause, cond} |->
    CASE n = fork  -> [Plain("parallel", act) EXCEPT !.branches = <<gate>>]
      [] n = gate  -> [Plain("gate", yes) EXCEPT !.other = no]
      [] n = yes   -> Plain("action", none)
      [] n = no    -> Plain("notify", none)
      [] n = act   -> Plain("action", pause)
      [] n = pause -> Plain("delay", cond)
      [] n = cond  -> Plain("condition", act)]

\* All workflows have ended, which takes no step that fairness asks for.
NoWorkflow ==
    /\ QueueInit
    /\ kind = "chain" /\ flow = [w \in Worker |-> IdleWorker]
    /\ gateOf = [a \in Approval |-> NoNode]
    /\ ran = {} /\ begun = [i \in Step |-> 0]
    /\ chain = [step |-> 1, attempt |-> 0, mode |-> "stopped"]

FlowInit ==
    /\ part \in {"jobs", "workflows", "heals"}
    /\ Init /\ Heals!Init
    /\ IF part = "workflows" THEN WorkflowInit ELSE NoWorkflow

FlowNext ==
    /\ UNCHANGED part
    /\ IF part = "jobs" THEN Next ELSE UNCHANGED vars
    /\ IF part = "workflows" THEN WorkflowNext ELSE UNCHANGED workflowVars
    /\ IF part = "heals" THEN Heals!Next ELSE UNCHANGED healVars

FlowSpec ==
    /\ FlowInit /\ [][FlowNext]_<<part, vars, workflowVars, healVars>>
    /\ Fairness /\ WorkflowFairness /\ Heals!Fairness

\* An escalation ends, by success, exhaustion or deferral, or is lost: none
\* waits for a permit for ever.
EscalationEnds == Heals!EscalationEnds
=============================================================================
