------------------------------ MODULE Workflow ------------------------------
(***************************************************************************)
(* The workflow engine, workflow_engine.py, composed with the approval     *)
(* queue its gates write to.  One workflow of one of the three kinds runs: *)
(* a graph of nodes, a chain of steps with retries, or a fan of steps that *)
(* are submitted at once.  What a job does in between is JobRunner; here a *)
(* submission is refused (the pool is full) or the job ends with "done" or *)
(* not, and the end calls the workflow back.  Nodes of a graph run on the  *)
(* thread that reaches them: a thread is a stack of nodes still to run.    *)
(***************************************************************************)
EXTENDS Approvals, Sequences

CONSTANTS Node, NoNode,  \* nodes of the graph
          Graph,         \* node -> [type, next, other, branches]
          Entry,         \* where it starts
          Worker,        \* bound: threads, jobs and sleeps a graph has at once
          MaxDepth,      \* _MAX_GRAPH_DEPTH, 200 in the code
          Steps,         \* length of a chain or a fan
          Missing,       \* its steps whose automation is gone or has no builder
          Retries        \* retries of a chain

NodeType == {"action", "condition", "gate", "parallel", "delay", "notify"}

ASSUME WorkflowAssumption ==
    /\ NoNode \notin Node /\ Entry \in Node
    /\ Graph \in [Node -> [type : NodeType, next : Node \union {NoNode},
                           other : Node \union {NoNode}, branches : Seq(Node)]]
    /\ {MaxDepth, Steps, Retries} \subseteq Nat
    /\ Missing \subseteq 1..Steps

VARIABLES kind,    \* "graph", "chain", "fan"
          flow,    \* what each worker does: idle, run, insert (a gate), job, sleep
          gateOf,  \* the gate that inserted a row
          ran,     \* nodes of the graph that were executed
          chain,   \* the step and attempt of a chain
          begun    \* how often a step was given to the job runner

flowVars == <<flow, gateOf, ran>>
chainVars == <<chain, begun>>
workflowVars == <<queueVars, kind, flowVars, chainVars>>

IdleWorker == [mode |-> "idle", stack |-> <<>>, approval |-> {}]
Step == 1..Steps

WorkflowTypeOK ==
    /\ QueueTypeOK
    /\ kind \in {"graph", "chain", "fan"}
    /\ \A w \in Worker : /\ flow[w].mode \in {"idle", "run", "insert", "job", "sleep"}
                         /\ flow[w].approval \subseteq Approval
                         /\ \A i \in DOMAIN flow[w].stack :
                               /\ flow[w].stack[i].node \in Node
                               /\ flow[w].stack[i].visited \subseteq Node
    /\ gateOf \in [Approval -> Node \union {NoNode}]
    /\ ran \subseteq Node
    /\ chain \in [step : 1..Steps + 1, attempt : 0..Retries, mode : {"submit", "job", "stopped"}]
    /\ begun \in [Step -> 0..Retries + 1]

Frame(n, visited) == [node |-> n, visited |-> visited]

\* The frames of a node that may be absent.
Go(n, visited) == IF n = NoNode THEN <<>> ELSE <<Frame(n, visited)>>

WorkflowInit ==
    /\ QueueInit
    /\ kind \in {"graph", "chain", "fan"}
    /\ LET first == CHOOSE w \in Worker : TRUE IN
         flow = [w \in Worker |-> IF w = first /\ kind = "graph"
                           THEN [IdleWorker EXCEPT !.mode = "run", !.stack = <<Frame(Entry, {})>>]
                           ELSE IdleWorker]
    /\ gateOf = [a \in Approval |-> NoNode]
    /\ ran = {}
    /\ chain = [step |-> 1, attempt |-> 0, mode |-> IF kind = "graph" THEN "stopped" ELSE "submit"]
    /\ begun = [i \in Step |-> 0]

-----------------------------------------------------------------------------
(* _execute_node and the functions of the node types. *)

StopsByDepth(top) == Cardinality(top.visited) >= MaxDepth

\* The cycle check and the depth limit.
Stops(top) == top.node \in top.visited \/ Cardinality(top.visited) >= MaxDepth

\* A thread ends with its stack.
Continue(stack) ==
    [IdleWorker EXCEPT !.mode = IF stack = <<>> THEN "idle" ELSE "run", !.stack = stack]

\* Another worker takes up what f leaves to it.
Spawned(f, mode, stack) ==
    LET u == CHOOSE v \in Worker : f[v].mode = "idle" IN
    [f EXCEPT ![u] = [IdleWorker EXCEPT !.mode = mode, !.stack = stack]]

Room(f) == \E w \in Worker : f[w].mode = "idle"

Top(w) == Head(flow[w].stack)
Rest(w) == Tail(flow[w].stack)
Seen(w) == Top(w).visited \union {Top(w).node}

\* A frame that repeats a node of its own path, or is too deep, is dropped.
StopNode(w) ==
    /\ flow[w].mode = "run" /\ Stops(Top(w))
    /\ flow' = [flow EXCEPT ![w] = Continue(Rest(w))]
    /\ UNCHANGED <<queueVars, kind, gateOf, ran, chainVars>>

Reaches(w, type) ==
    /\ flow[w].mode = "run" /\ ~Stops(Top(w)) /\ Graph[Top(w).node].type = type
    /\ ran' = ran \union {Top(w).node}
    /\ UNCHANGED <<kind, chainVars>>

\* The expression is evaluated over the latest figures: either may be next.
RunCondition(w) ==
    /\ Reaches(w, "condition")
    /\ \E n \in {Graph[Top(w).node].next, Graph[Top(w).node].other} :
          flow' = [flow EXCEPT ![w] = Continue(Go(n, Seen(w)) \o Rest(w))]
    /\ UNCHANGED <<queueVars, gateOf>>

\* The notification has a thread of its own; the workflow goes on.
RunNotification(w) ==
    /\ Reaches(w, "notify")
    /\ flow' = [flow EXCEPT ![w] = Continue(Go(Graph[Top(w).node].next, Seen(w)) \o Rest(w))]
    /\ UNCHANGED <<queueVars, gateOf>>

\* One branch after the other is started, each with a copy of the nodes
\* visited; the join comes next, whether the branches are at their end or not.
RunParallel(w) ==
    /\ Reaches(w, "parallel")
    /\ LET node == Graph[Top(w).node]
           branches == [i \in DOMAIN node.branches |-> Frame(node.branches[i], Seen(w))]
       IN flow' = [flow EXCEPT ![w] = Continue(branches \o Go(node.next, Seen(w)) \o Rest(w))]
    /\ UNCHANGED <<queueVars, gateOf>>

\* A job is submitted, or the submission is refused and this path ends.
RunAction(w) ==
    /\ Reaches(w, "action")
    /\ LET left == [flow EXCEPT ![w] = Continue(Rest(w))] IN
         \/ flow' = left
         \/ Room(left) /\ flow' = Spawned(left, "job", Go(Graph[Top(w).node].next, Seen(w)))
    /\ UNCHANGED <<queueVars, gateOf>>

\* The sleeping thread is the worker that goes on.
RunDelay(w) ==
    /\ Reaches(w, "delay")
    /\ LET left == [flow EXCEPT ![w] = Continue(Rest(w))] IN
         Room(left) /\ flow' = Spawned(left, "sleep", Go(Graph[Top(w).node].next, Seen(w)))
    /\ UNCHANGED <<queueVars, gateOf>>

\* A gate inserts its row, or fails to and this path ends ...
RunGate(w) ==
    /\ Reaches(w, "gate")
    /\ \/ \E a \in Approval :
            /\ a \notin HealRow /\ approval[a] = NoRow
            /\ approval' = Inserted(a, "none")
            /\ gateOf' = [gateOf EXCEPT ![a] = Top(w).node]
            /\ flow' = [flow EXCEPT ![w] = [mode |-> "insert", stack |-> Rest(w), approval |-> {a}]]
            /\ UNCHANGED mishaps
       \/ /\ Mishap
          /\ flow' = [flow EXCEPT ![w] = Continue(Rest(w))]
          /\ UNCHANGED <<approval, gateOf>>
    /\ UNCHANGED <<decider, acting, pass, quiet, executed>>

\* ... and then saves the workflow in it; a failure of that is swallowed.
SaveContext(w) ==
    /\ flow[w].mode = "insert"
    /\ \/ /\ approval' = [a \in Approval |-> IF a \in flow[w].approval THEN [approval[a] EXCEPT !.context = TRUE]
                                        ELSE approval[a]]
          /\ UNCHANGED mishaps
       \/ Mishap /\ UNCHANGED approval
    /\ flow' = [flow EXCEPT ![w] = Continue(flow[w].stack)]
    /\ UNCHANGED <<decider, acting, pass, quiet, executed, kind, gateOf, ran, chainVars>>

\* on_complete of an action, after the slot was returned: only "done" goes on.
NodeJobEnds(w) ==
    /\ flow[w].mode = "job"
    /\ flow' \in {[flow EXCEPT ![w] = Continue(flow[w].stack)], [flow EXCEPT ![w] = IdleWorker]}
    /\ UNCHANGED <<queueVars, kind, gateOf, ran, chainVars>>

Wakes(w) ==
    /\ flow[w].mode = "sleep"
    /\ flow' = [flow EXCEPT ![w] = Continue(flow[w].stack)]
    /\ UNCHANGED <<queueVars, kind, gateOf, ran, chainVars>>

ApprovedNext(a, decision) == Graph[gateOf[a]].next

\* api_decide_approval finds the workflow in the row it decided: a new thread
\* runs the branch of the decision, with no node visited.
ResumedNode(a, decision) ==
    IF decision = "approved" THEN Graph[gateOf[a]].next ELSE Graph[gateOf[a]].other

DecideResumes ==
    /\ decider.step = "decided" /\ approval[decider.id].context
    /\ LET n == ResumedNode(decider.id, decider.decision) IN
         IF n = NoNode THEN UNCHANGED flow
         ELSE Room(flow) /\ flow' = Spawned(flow, "run", Go(n, {}))
    /\ decider' = NoDecision
    /\ UNCHANGED <<approval, acting, pass, quiet, executed, mishaps, kind, gateOf, ran, chainVars>>

-----------------------------------------------------------------------------
(* _run_workflow and _run_parallel_workflow. *)

\* A step that cannot be built is skipped, with the attempts counted anew.
SkipStep ==
    /\ chain.mode = "submit" /\ chain.step \in Missing
    /\ chain' = [chain EXCEPT !.step = @ + 1, !.attempt = 0]
    /\ UNCHANGED <<queueVars, kind, flowVars, begun>>

\* The job of a step is submitted; a fan goes on to the next step at once.
SubmitStep ==
    /\ chain.mode = "submit" /\ chain.step \in Step \ Missing
    /\ begun' = [begun EXCEPT ![chain.step] = @ + 1]
    /\ chain' = IF kind = "fan" THEN [chain EXCEPT !.step = @ + 1]
                ELSE [chain EXCEPT !.mode = "job"]
    /\ UNCHANGED <<queueVars, kind, flowVars>>

\* The submission is refused: a chain ends there, a fan lacks the step.
StepRefused ==
    /\ chain.mode = "submit" /\ chain.step \in Step \ Missing
    /\ chain' = IF kind = "fan" THEN [chain EXCEPT !.step = @ + 1]
                ELSE [chain EXCEPT !.mode = "stopped"]
    /\ UNCHANGED <<queueVars, kind, flowVars, begun>>

LastStepEnds ==
    /\ chain.mode = "submit" /\ chain.step > Steps
    /\ chain' = [chain EXCEPT !.mode = "stopped"]
    /\ UNCHANGED <<queueVars, kind, flowVars, begun>>

StepDone ==
    /\ chain.mode = "job"
    /\ chain' = [step |-> chain.step + 1, attempt |-> 0, mode |-> "submit"]
    /\ UNCHANGED <<queueVars, kind, flowVars, begun>>

RetriedAgain == [chain EXCEPT !.attempt = @ + 1, !.mode = "submit"]

\* Another attempt of the same step, or the end of the chain.
Retried == IF chain.attempt < Retries
             THEN [chain EXCEPT !.attempt = @ + 1, !.mode = "submit"]
             ELSE [chain EXCEPT !.mode = "stopped"]

\* The job failed, timed out or was cancelled: all three are retried.
StepFails ==
    /\ chain.mode = "job"
    /\ chain' = Retried
    /\ UNCHANGED <<queueVars, kind, flowVars, begun>>

-----------------------------------------------------------------------------
\* The process ends: threads, jobs and sleeps are gone, nothing resumes them.
Crash ==
    /\ QueueCrash
    /\ flow' = [w \in Worker |-> IdleWorker] /\ chain' = [chain EXCEPT !.mode = "stopped"]
    /\ UNCHANGED <<kind, gateOf, ran, begun>>

Works(w) ==
    \/ StopNode(w) \/ RunCondition(w) \/ RunNotification(w) \/ RunParallel(w) \/ RunAction(w)
    \/ RunDelay(w) \/ RunGate(w) \/ SaveContext(w) \/ NodeJobEnds(w) \/ Wakes(w)

ChainStep == SkipStep \/ SubmitStep \/ StepRefused \/ LastStepEnds \/ StepDone \/ StepFails

WorkflowNext ==
    \/ QueueStep /\ UNCHANGED <<kind, flowVars, chainVars>>
    \/ \E w \in Worker : Works(w)
    \/ DecideResumes \/ ChainStep \/ Crash

WorkflowSpec == WorkflowInit /\ [][WorkflowNext]_workflowVars

\* A thread runs, a job ends (JobRunner's JobEnds), a sleep passes.
WorkflowFairness ==
    /\ QueueFairness
    /\ WF_workflowVars(DecideResumes) /\ WF_workflowVars(ChainStep)
    /\ \A w \in Worker : WF_workflowVars(Works(w))

WorkflowFairSpec == WorkflowSpec /\ WorkflowFairness

-----------------------------------------------------------------------------
(* Properties. *)

\* The nodes whose only way in is one branch of gate g.
OnlyBehind(g, decision) ==
    LET n == IF decision = "approved" THEN Graph[g].next ELSE Graph[g].other IN
    {m \in {n} \ {NoNode, Entry} :
        /\ Graph[g].next # Graph[g].other
        /\ \A k \in Node \ {g} : m \notin {Graph[k].next, Graph[k].other} \union
                                          {Graph[k].branches[i] : i \in DOMAIN Graph[k].branches}}

\* A node behind a gate is executed only after the row of that gate was decided
\* that way by an operator: no parallel branch, join, retry, crash or expired
\* deadline leads past a gate.
GateIsPassed ==
    \A g \in Node : Graph[g].type = "gate" =>
        \A decision \in {"approved", "denied"} :
            (OnlyBehind(g, decision) \intersect ran # {}) =>
                \E a \in Approval : gateOf[a] = g /\ approval[a].status = decision

\* A workflow ends: a graph with a cycle of actions, delays or joins does not
\* run round for ever, and a chain does not retry for ever.
WorkflowEnds == <>[](chain.mode = "stopped" /\ \A w \in Worker : flow[w].mode = "idle")
=============================================================================
