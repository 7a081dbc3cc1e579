----------------------------- MODULE Approvals -----------------------------
(***************************************************************************)
(* The approval queue of db/automations.py and who works on it: the        *)
(* handler api_decide_approval on the event loop, the background threads   *)
(* that execute approved actions, and the scheduler's pass that approves   *)
(* what nobody decided in time and executes it.  A call to the database    *)
(* is one step; a handler may be overtaken by the other threads between    *)
(* two of its calls, and the server may die there.                         *)
(*                                                                         *)
(* Rows are added by the heal pipeline (HealRow), with a deadline or       *)
(* without (today's callers give none, rows of earlier releases have one), *)
(* and by gates of workflows: see Workflow.                                *)
(***************************************************************************)
EXTENDS Naturals, FiniteSets

CONSTANTS Approval,       \* ids of approval_queue
          HealRow,        \* those the heal pipeline inserts
          ApprovalFaults  \* bound: crashes, failed actions and failed writes

ASSUME ApprovalAssumption ==
    Approval # {} /\ HealRow \subseteq Approval /\ ApprovalFaults \in Nat

VARIABLES approval,  \* approval_queue
          decider,   \* api_decide_approval
          acting,    \* rows a background thread executes: "act", "store"
          pass,      \* _process_auto_approvals
          quiet,     \* a maintenance window is open: ticks do nothing
          executed,  \* how often the action of a row was executed
          mishaps

queueVars == <<approval, decider, acting, pass, quiet, executed, mishaps>>

NoRow == [status |-> "none", deadline |-> "none", context |-> FALSE, result |-> FALSE]
NoDecision == [step |-> "idle", id |-> CHOOSE a \in Approval : TRUE, decision |-> "denied"]
IdlePass == [todo |-> {}, ran |-> {}]

QueueTypeOK ==
    /\ approval \in [Approval -> [status : {"none", "pending", "approved", "denied", "auto_approved"},
                             deadline : {"none", "later", "past"},
                             context : BOOLEAN, result : BOOLEAN]]
    /\ decider \in [step : {"idle", "read", "decided"}, id : Approval,
                    decision : {"approved", "denied"}]
    /\ acting \in [Approval -> {"none", "act", "store"}]
    /\ pass \in [todo : SUBSET Approval, ran : SUBSET Approval]
    /\ quiet \in BOOLEAN
    /\ executed \in [Approval -> Nat]
    /\ mishaps \in 0..ApprovalFaults

QueueInit ==
    /\ approval = [a \in Approval |-> NoRow]
    /\ decider = NoDecision
    /\ acting = [a \in Approval |-> "none"]
    /\ pass = IdlePass
    /\ quiet = FALSE
    /\ executed = [a \in Approval |-> 0]
    /\ mishaps = 0

Mishap == mishaps < ApprovalFaults /\ mishaps' = mishaps + 1

\* insert_approval.
Inserted(a, deadline) ==
    [approval EXCEPT ![a] = [status |-> "pending", deadline |-> deadline,
                             context |-> FALSE, result |-> FALSE]]

\* The heal pipeline queues an action for approval.
QueueHeal(a) ==
    /\ a \in HealRow /\ approval[a] = NoRow
    /\ approval' \in {Inserted(a, "none"), Inserted(a, "later")}
    /\ UNCHANGED <<decider, acting, pass, quiet, executed, mishaps>>

-----------------------------------------------------------------------------
(* api_decide_approval. *)

\* get_approval: the row is pending when the handler reads it.
DecideReads(a, decision) ==
    /\ decider.step = "idle" /\ approval[a].status = "pending"
    /\ decider' = [step |-> "read", id |-> a, decision |-> decision]
    /\ UNCHANGED <<approval, acting, pass, quiet, executed, mishaps>>

DecideWritesOver ==
    /\ decider.step = "read"
    /\ approval' = [approval EXCEPT ![decider.id].status = decider.decision]
    /\ decider' = [decider EXCEPT !.step = "decided"]
    /\ UNCHANGED <<acting, pass, quiet, executed, mishaps>>

DecideWritesUngated ==
    /\ decider.step = "read"
    /\ approval' = [approval EXCEPT ![decider.id].status = IF @ = "pending" THEN decider.decision ELSE @]
    /\ decider' = [decider EXCEPT !.step = "decided"]
    /\ UNCHANGED <<acting, pass, quiet, executed, mishaps>>

\* decide_approval: UPDATE ... WHERE status = 'pending', and the handler goes
\* on only if it changed the row.
DecideWrites ==
    /\ decider.step = "read"
    /\ IF approval[decider.id].status = "pending"
         THEN /\ approval' = [approval EXCEPT ![decider.id].status = decider.decision]
              /\ decider' = [decider EXCEPT !.step = "decided"]
         ELSE decider' = NoDecision /\ UNCHANGED approval
    /\ UNCHANGED <<acting, pass, quiet, executed, mishaps>>

\* The UPDATE fails: an error for the user, the row stays pending.
DecideFails ==
    /\ decider.step = "read" /\ Mishap
    /\ decider' = NoDecision
    /\ UNCHANGED <<approval, acting, pass, quiet, executed>>

\* A decided row without a workflow: a thread executes what was approved.
DecideActs ==
    /\ decider.step = "decided" /\ ~approval[decider.id].context
    /\ acting' = IF decider.decision = "approved"
                   THEN [acting EXCEPT ![decider.id] = "act"] ELSE acting
    /\ decider' = NoDecision
    /\ UNCHANGED <<approval, pass, quiet, executed, mishaps>>

\* execute_action of remediation.py, and the end of a thread it raises in.
RunApproved(a) ==
    /\ acting[a] = "act"
    /\ executed' = [executed EXCEPT ![a] = @ + 1]
    /\ \/ acting' = [acting EXCEPT ![a] = "store"] /\ UNCHANGED mishaps
       \/ acting' = [acting EXCEPT ![a] = "none"] /\ Mishap
    /\ UNCHANGED <<approval, decider, pass, quiet>>

\* update_approval_result, which swallows its failure.
StoreApproved(a) ==
    /\ acting[a] = "store"
    /\ acting' = [acting EXCEPT ![a] = "none"]
    /\ \/ approval' = [approval EXCEPT ![a].result = TRUE] /\ UNCHANGED mishaps
       \/ UNCHANGED approval /\ Mishap
    /\ UNCHANGED <<decider, pass, quiet, executed>>

-----------------------------------------------------------------------------
(* _process_auto_approvals, in the scheduler's thread. *)

Overdue == {a \in Approval : approval[a].status = "pending" /\ approval[a].deadline = "past"}

StartPassFresh ==
    /\ ~quiet /\ pass = IdlePass
    /\ approval' = [a \in Approval |-> IF a \in Overdue
                  THEN [approval[a] EXCEPT !.status = "auto_approved"] ELSE approval[a]]
    /\ pass' = [pass EXCEPT !.todo = Overdue]
    /\ UNCHANGED <<decider, acting, quiet, executed, mishaps>>

\* auto_approve_expired, then the list of what was auto-approved and has no
\* result, those an earlier pass left included.
StartPass ==
    /\ ~quiet /\ pass = IdlePass
    /\ approval' = [a \in Approval |-> IF a \in Overdue
                  THEN [approval[a] EXCEPT !.status = "auto_approved"] ELSE approval[a]]
    /\ pass' = [pass EXCEPT !.todo = {a \in Approval : /\ approval'[a].status = "auto_approved"
                                                       /\ ~approval[a].result}]
    /\ UNCHANGED <<decider, acting, quiet, executed, mishaps>>

\* The action is executed; when it raises the pass goes on with the next row.
RunOverdue(a) ==
    /\ a \in pass.todo /\ pass.ran = {}
    /\ executed' = [executed EXCEPT ![a] = @ + 1]
    /\ \/ pass' = [pass EXCEPT !.ran = {a}] /\ UNCHANGED mishaps
       \/ pass' = [pass EXCEPT !.todo = @ \ {a}] /\ Mishap
    /\ UNCHANGED <<approval, decider, acting, quiet>>

StoreOverdue(a) ==
    /\ a \in pass.ran
    /\ pass' = [todo |-> pass.todo \ {a}, ran |-> {}]
    /\ \/ approval' = [approval EXCEPT ![a].result = TRUE] /\ UNCHANGED mishaps
       \/ UNCHANGED approval /\ Mishap
    /\ UNCHANGED <<decider, acting, quiet, executed>>

-----------------------------------------------------------------------------
\* The clock reaches a deadline.
DeadlinePasses(a) ==
    /\ approval[a].deadline = "later"
    /\ approval' = [approval EXCEPT ![a].deadline = "past"]
    /\ UNCHANGED <<decider, acting, pass, quiet, executed, mishaps>>

\* in_maintenance_window of alerts.py changes its answer.
WindowOpens ==
    ~quiet /\ quiet' = TRUE /\ UNCHANGED <<approval, decider, acting, pass, executed, mishaps>>

WindowCloses ==
    quiet /\ quiet' = FALSE /\ UNCHANGED <<approval, decider, acting, pass, executed, mishaps>>

\* The process ends and a new one starts: the rows stay.
QueueCrash ==
    /\ Mishap
    /\ decider' = NoDecision /\ acting' = [a \in Approval |-> "none"] /\ pass' = IdlePass
    /\ UNCHANGED <<approval, quiet, executed>>

QueueStep ==
    \/ \E a \in Approval :
         \/ QueueHeal(a) \/ RunApproved(a) \/ StoreApproved(a) \/ RunOverdue(a)
         \/ StoreOverdue(a) \/ DeadlinePasses(a)
         \/ \E decision \in {"approved", "denied"} : DecideReads(a, decision)
    \/ DecideWrites \/ DecideFails \/ DecideActs \/ StartPass \/ WindowOpens \/ WindowCloses

\* The threads that have work do it, the scheduler ticks, windows close.
QueueFairness ==
    /\ WF_queueVars(DecideWrites) /\ WF_queueVars(DecideActs)
    /\ SF_queueVars(StartPass) /\ WF_queueVars(WindowCloses)
    /\ \A a \in Approval : /\ WF_queueVars(RunApproved(a)) /\ WF_queueVars(StoreApproved(a))
                           /\ WF_queueVars(RunOverdue(a)) /\ WF_queueVars(StoreOverdue(a))

-----------------------------------------------------------------------------
(* Properties. *)

\* A row is decided once: by the first of the operators and the scheduler that
\* changes it, and by nobody after that, whatever each of them had read.
DecidedOnce ==
    [][\A a \in Approval : approval[a].status \in {"approved", "denied", "auto_approved"}
                             => approval'[a].status = approval[a].status]_approval

\* An action is executed only when its row is approved, at most once when an
\* operator approved it, and by the scheduler once more at most for every crash,
\* exception or failed write that left the row without a result.
ExecutedAsDecided ==
    \A a \in Approval :
        executed[a] <= CASE approval[a].status = "approved" -> 1
                         [] approval[a].status = "auto_approved" -> 1 + mishaps
                         [] OTHER -> 0

Promise == INSTANCE ApprovalContract
    WITH Row <- Approval, status <- [a \in Approval |-> approval[a].status],
         due <- {a \in Approval : approval[a].deadline = "past"},
         results <- {a \in Approval : approval[a].result}, runs <- executed, faults <- mishaps

\* Handlers that are overtaken between two calls, threads that fail, passes of
\* the scheduler and crashes show whoever queues an action nothing that
\* ApprovalContract does not allow: no row is decided twice or before its time,
\* none executed again once it has a result, and no result is of nothing.
KeepsPromise == Promise!Spec

\* What the scheduler approved is executed and has a result in the end, through
\* crashes, exceptions, failed writes and maintenance windows.
AutoApprovedHasResult ==
    \A a \in Approval : approval[a].status = "auto_approved" ~> approval[a].result
=============================================================================
