--------------------------- MODULE WorkflowProofs ---------------------------
(***************************************************************************)
(* Proofs about the approval queue and the workflow engine, for every      *)
(* graph, any approvals, threads and number of faults.                     *)
(*                                                                         *)
(* QueueInv says what each actor of the queue still owes: it gives         *)
(* ExecutedAsDecided and DecidedOnce.  FlowInv says which nodes a stack    *)
(* may hold: as long as a gate was not decided one way, none whose only    *)
(* way in is that branch.  It gives GateIsPassed.                          *)
(* Each step of either is one of ApprovalContract, by QueueInv.  ChainInv  *)
(* counts how often a step was tried: it completes the types.              *)
(***************************************************************************)
EXTENDS Workflow, SequenceTheorems, TLAPS

-----------------------------------------------------------------------------
(* The queue. *)

\* The row is decided and nobody has executed its action yet.
Decided(a, decision) ==
    approval[a].status = decision /\ executed[a] = 0 /\ acting[a] = "none"

\* What the row owes to whoever works on it.
RowInv(a) ==
    /\ acting[a] # "none" => approval[a].status = "approved"
    /\ acting[a] = "act" => executed[a] = 0
    /\ acting[a] = "store" \/ a \in pass.ran => executed[a] > 0
    /\ a \in pass.todo => approval[a].status = "auto_approved"
    /\ a \in pass.todo \ pass.ran => ~approval[a].result
    /\ a \in pass.ran => a \in pass.todo /\ pass.ran = {a}
    /\ approval[a].status \in {"none", "pending", "denied"} => executed[a] = 0
    /\ approval[a].status = "approved" => executed[a] <= 1
    /\ approval[a].status = "auto_approved" =>
          /\ executed[a] <= 1 + mishaps
          /\ ~approval[a].result /\ a \notin pass.ran => executed[a] <= mishaps

DeciderInv == decider.step = "decided" => Decided(decider.id, decider.decision)

QueueInv == QueueTypeOK /\ DeciderInv /\ \A a \in Approval : RowInv(a)

\* No step undoes a decision.
RowStays(a) ==
    approval[a].status \in {"approved", "denied", "auto_approved"}
        => approval'[a].status = approval[a].status

RowsStay == \A a \in Approval : RowStays(a)

RowType == [status : {"none", "pending", "approved", "denied", "auto_approved"},
            deadline : {"none", "later", "past"}, context : BOOLEAN, result : BOOLEAN]

LEMMA QueueInitInv == QueueInit => QueueInv
<1> SUFFICES ASSUME QueueInit PROVE QueueInv
  OBVIOUS
<1>1. NoRow \in RowType
  BY DEF NoRow, RowType
<1>2. NoDecision \in [step : {"idle", "read", "decided"}, id : Approval,
                      decision : {"approved", "denied"}]
  BY ApprovalAssumption DEF NoDecision
<1>3. approval \in [Approval -> RowType]
  BY <1>1, Zenon DEF QueueInit
<1>4. quiet \in BOOLEAN
  BY Zenon DEF QueueInit
<1>5. QueueTypeOK
  BY <1>2, <1>3, <1>4, ApprovalAssumption DEF QueueInit, QueueTypeOK, RowType, IdlePass
<1>6. DeciderInv
  BY DEF QueueInit, DeciderInv, NoDecision
<1>7. ASSUME NEW a \in Approval PROVE RowInv(a)
  <2>1. approval[a].status = "none"
    BY DEF QueueInit, NoRow
  <2> QED
    BY <2>1 DEF QueueInit, RowInv, IdlePass
<1> QED
  BY <1>5, <1>6, <1>7 DEF QueueInv

\* What a step that changes one row does to the rows.
LEMMA RowChanges ==
  ASSUME NEW rows, NEW a \in Approval, NEW r \in RowType,
         approval \in [Approval -> RowType], rows = [approval EXCEPT ![a] = r]
  PROVE  /\ rows \in [Approval -> RowType]
         /\ rows[a] = r
         /\ \A b \in Approval \ {a} : rows[b] = approval[b]
  OBVIOUS

\* A result that is stored.
LEMMA ResultStored ==
  ASSUME NEW r \in RowType
  PROVE  /\ [r EXCEPT !.result = TRUE] \in RowType
         /\ [r EXCEPT !.result = TRUE].status = r.status
         /\ [r EXCEPT !.result = TRUE].result
<1>1. [r EXCEPT !.result = TRUE] \in RowType
  BY Zenon DEF RowType
<1>2. [r EXCEPT !.result = TRUE].status = r.status
  BY DEF RowType
<1>3. [r EXCEPT !.result = TRUE].result
  BY DEF RowType
<1> QED BY <1>1, <1>2, <1>3

\* A pending row is added, by the heal pipeline or by a gate.
LEMMA InsertInv ==
  ASSUME QueueInv, NEW a \in Approval, NEW d \in {"none", "later"},
         approval[a] = NoRow, approval' = Inserted(a, d),
         UNCHANGED <<decider, acting, pass, quiet, executed, mishaps>>
  PROVE  QueueInv' /\ RowsStay
<1> USE DEF QueueInv, QueueTypeOK, DeciderInv, RowInv, Decided, RowsStay, RowStays
<1> DEFINE r == [status |-> "pending", deadline |-> d, context |-> FALSE, result |-> FALSE]
<1>1. r \in RowType /\ r.status = "pending"
  BY DEF RowType
<1>2. approval' = [approval EXCEPT ![a] = r]
  BY DEF Inserted
<1>3. approval[a].status = "none"
  BY DEF NoRow
<1> HIDE DEF r
<1>4. /\ approval' \in [Approval -> RowType]
      /\ approval'[a] = r
      /\ \A b \in Approval \ {a} : approval'[b] = approval[b]
  BY <1>1, <1>2, RowChanges DEF RowType
<1>5. QueueTypeOK'
  BY <1>4 DEF RowType
<1>6. DeciderInv'
  BY <1>3, <1>4
<1>7. RowInv(a)' /\ RowStays(a)
  BY <1>1, <1>3, <1>4
<1>8. ASSUME NEW b \in Approval \ {a} PROVE RowInv(b)' /\ RowStays(b)
  BY <1>4
<1> QED
  BY <1>5, <1>6, <1>7, <1>8

\* Nothing of the queue changes, unless a fault is counted.
LEMMA FaultInv ==
  ASSUME QueueInv, UNCHANGED <<approval, decider, acting, pass, quiet, executed>>,
         UNCHANGED mishaps \/ Mishap
  PROVE  QueueInv' /\ RowsStay
  BY ApprovalAssumption
  DEF QueueInv, QueueTypeOK, DeciderInv, RowInv, Decided, RowsStay, RowStays, Mishap

LEMMA QueueStepInv ==
  ASSUME QueueInv, QueueStep
  PROVE  QueueInv' /\ RowsStay
<1> USE ApprovalAssumption
<1> USE DEF QueueInv, QueueTypeOK, DeciderInv, RowInv, Decided, RowsStay, RowStays, Mishap
<1>1. ASSUME NEW a \in Approval, QueueHeal(a) PROVE QueueInv' /\ RowsStay
  BY <1>1, InsertInv DEF QueueHeal
<1>2. ASSUME NEW a \in Approval, RunApproved(a) PROVE QueueInv' /\ RowsStay
  BY <1>2, SMTT(30) DEF RunApproved
<1>3. ASSUME NEW a \in Approval, StoreApproved(a) PROVE QueueInv' /\ RowsStay
  <2>1. PICK r \in RowType : /\ approval' = [approval EXCEPT ![a] = r]
                             /\ r.status = approval[a].status
    <3> DEFINE r == [approval[a] EXCEPT !.result = TRUE]
    <3>1. approval[a] \in RowType /\ approval = [approval EXCEPT ![a] = approval[a]]
      BY DEF RowType
    <3>2. r \in RowType /\ r.status = approval[a].status
      BY <3>1, ResultStored
    <3>3. CASE UNCHANGED approval
      BY <3>1, <3>3
    <3>4. CASE approval' = [approval EXCEPT ![a].result = TRUE]
      <4>1. approval' = [approval EXCEPT ![a] = r]
        BY <3>4
      <4> HIDE DEF r
      <4> QED BY <3>2, <4>1
    <3> QED
      BY <1>3, <3>3, <3>4 DEF StoreApproved
  <2>2. /\ approval' \in [Approval -> RowType]
        /\ approval'[a] = r
        /\ \A b \in Approval \ {a} : approval'[b] = approval[b]
    BY <2>1, RowChanges DEF RowType
  <2>7. /\ UNCHANGED <<decider, pass, quiet, executed>>
        /\ acting' = [acting EXCEPT ![a] = "none"]
        /\ mishaps' \in 0..ApprovalFaults
    BY <1>3 DEF StoreApproved
  <2>3. QueueTypeOK'
    BY <2>7, <2>2 DEF RowType
  <2>4. DeciderInv'
    BY <1>3, <2>1, <2>2 DEF StoreApproved
  <2>5. RowInv(a)' /\ RowStays(a)
    <3>1. approval[a].status = "approved" /\ approval'[a].status = "approved"
      BY <1>3, <2>1, <2>2 DEF StoreApproved
    <3>2. acting'[a] = "none" /\ UNCHANGED <<pass, executed>>
      BY <1>3 DEF StoreApproved
    <3> QED BY <3>1, <3>2
  <2>6. ASSUME NEW b \in Approval \ {a} PROVE RowInv(b)' /\ RowStays(b)
    BY <1>3, <2>2 DEF StoreApproved
  <2> QED
    BY <2>3, <2>4, <2>5, <2>6
<1>4. ASSUME NEW a \in Approval, RunOverdue(a) PROVE QueueInv' /\ RowsStay
  BY <1>4, SMTT(30) DEF RunOverdue
<1>5. ASSUME NEW a \in Approval, StoreOverdue(a) PROVE QueueInv' /\ RowsStay
  <2>1. PICK r \in RowType : /\ approval' = [approval EXCEPT ![a] = r]
                             /\ r.status = approval[a].status
                             /\ r.result \/ Mishap
    <3> DEFINE r == [approval[a] EXCEPT !.result = TRUE]
    <3>1. approval[a] \in RowType /\ approval = [approval EXCEPT ![a] = approval[a]]
      BY DEF RowType
    <3>2. r \in RowType /\ r.status = approval[a].status /\ r.result
      BY <3>1, ResultStored
    <3>3. CASE UNCHANGED approval /\ Mishap
      BY <3>1, <3>3
    <3>4. CASE approval' = [approval EXCEPT ![a].result = TRUE]
      <4>1. approval' = [approval EXCEPT ![a] = r]
        BY <3>4
      <4> HIDE DEF r
      <4> QED BY <3>2, <4>1
    <3> QED
      BY <1>5, <3>3, <3>4 DEF StoreOverdue
  <2>2. /\ approval' \in [Approval -> RowType]
        /\ approval'[a] = r
        /\ \A b \in Approval \ {a} : approval'[b] = approval[b]
    BY <2>1, RowChanges DEF RowType
  <2>3. QueueTypeOK'
    BY <1>5, <2>2 DEF StoreOverdue, RowType
  <2>4. DeciderInv'
    BY <1>5, <2>1, <2>2 DEF StoreOverdue
  <2>5. RowInv(a)' /\ RowStays(a)
    <3>1. approval[a].status = "auto_approved" /\ approval'[a].status = "auto_approved"
      BY <1>5, <2>1, <2>2 DEF StoreOverdue
    <3>2. a \notin pass'.todo /\ a \notin pass'.ran /\ UNCHANGED <<acting, executed>>
      BY <1>5 DEF StoreOverdue
    <3>3. mishaps' \in Nat /\ mishaps' >= mishaps
      BY <1>5 DEF StoreOverdue
    <3>4. ~approval'[a].result => mishaps' = mishaps + 1
      BY <2>1, <2>2
    <3>5. executed'[a] <= 1 + mishaps'
      BY <3>1, <3>2, <3>3
    <3>6. ~approval'[a].result => executed'[a] <= mishaps'
      BY <3>1, <3>2, <3>4
    <3> QED BY <3>1, <3>2, <3>5, <3>6
  <2>6. ASSUME NEW b \in Approval \ {a} PROVE RowInv(b)' /\ RowStays(b)
    <3>1. approval'[b] = approval[b] /\ UNCHANGED <<acting, executed>>
      BY <1>5, <2>2 DEF StoreOverdue
    <3>2. b \notin pass.ran /\ pass' = [todo |-> pass.todo \ {a}, ran |-> {}]
      BY <1>5 DEF StoreOverdue
    <3>3. mishaps' \in Nat /\ mishaps' >= mishaps
      BY <1>5 DEF StoreOverdue
    <3> QED BY <3>1, <3>2, <3>3
  <2> QED
    BY <2>3, <2>4, <2>5, <2>6
<1>6. ASSUME NEW a \in Approval, DeadlinePasses(a) PROVE QueueInv' /\ RowsStay
  BY <1>6, SMTT(30) DEF DeadlinePasses
<1>7. ASSUME NEW a \in Approval, NEW decision \in {"approved", "denied"},
             DecideReads(a, decision)
      PROVE  QueueInv' /\ RowsStay
  BY <1>7, SMTT(30) DEF DecideReads
<1>8. ASSUME DecideWrites PROVE QueueInv' /\ RowsStay
  <2>1. CASE approval[decider.id].status = "pending"
    <3> DEFINE a == decider.id
               r == [approval[a] EXCEPT !.status = decider.decision]
    <3>1. a \in Approval /\ r \in RowType /\ r.status = decider.decision
      BY DEF RowType
    <3>2. approval' = [approval EXCEPT ![a] = r] /\ decider' = [decider EXCEPT !.step = "decided"]
      BY <1>8, <2>1 DEF DecideWrites
    <3> HIDE DEF r
    <3>3. /\ approval' \in [Approval -> RowType]
          /\ approval'[a] = r
          /\ \A b \in Approval \ {a} : approval'[b] = approval[b]
      BY <3>1, <3>2, RowChanges DEF RowType
    <3>4. QueueTypeOK'
      BY <1>8, <3>2, <3>3 DEF DecideWrites, RowType
    <3> QED
      BY <1>8, <2>1, <3>1, <3>2, <3>3, <3>4 DEF DecideWrites
  <2>2. CASE approval[decider.id].status # "pending"
    BY <1>8, <2>2 DEF DecideWrites, NoDecision
  <2> QED BY <2>1, <2>2
<1>9. ASSUME DecideFails PROVE QueueInv' /\ RowsStay
  BY <1>9, SMTT(30) DEF DecideFails, NoDecision
<1>10. ASSUME DecideActs PROVE QueueInv' /\ RowsStay
  BY <1>10, SMTT(30) DEF DecideActs, NoDecision
<1>11. ASSUME StartPass PROVE QueueInv' /\ RowsStay
  <2>1. ASSUME NEW b \in Approval
        PROVE  /\ approval'[b] \in RowType
               /\ b \in Overdue => approval'[b].status = "auto_approved"
               /\ b \notin Overdue => approval'[b] = approval[b]
    <3> DEFINE r == [approval[b] EXCEPT !.status = "auto_approved"]
    <3>1. approval[b] \in RowType
      BY DEF RowType
    <3>2. r \in RowType /\ r.status = "auto_approved"
      BY <3>1 DEF RowType
    <3>3. approval'[b] = IF b \in Overdue THEN r ELSE approval[b]
      BY <1>11 DEF StartPass
    <3> HIDE DEF r
    <3> QED BY <3>1, <3>2, <3>3
  <2>2. approval' \in [Approval -> RowType]
    BY <1>11, <2>1, Zenon DEF StartPass
  <2>3. QueueTypeOK'
    BY <1>11, <2>2 DEF StartPass, RowType, IdlePass
  <2>4. DeciderInv'
    BY <1>11, <2>1 DEF StartPass, Overdue
  <2>5. ASSUME NEW b \in Approval PROVE RowInv(b)' /\ RowStays(b)
    BY <1>11, <2>1 DEF StartPass, Overdue, IdlePass
  <2> QED BY <2>3, <2>4, <2>5
<1>12. ASSUME WindowOpens \/ WindowCloses PROVE QueueInv' /\ RowsStay
  <2>1. quiet' \in BOOLEAN
    BY <1>12, Zenon DEF WindowOpens, WindowCloses
  <2>2. UNCHANGED <<approval, decider, acting, pass, executed, mishaps>>
    BY <1>12 DEF WindowOpens, WindowCloses
  <2> QED BY <2>1, <2>2
<1> HIDE DEF QueueInv, QueueTypeOK, DeciderInv, RowInv, Decided, RowsStay, RowStays
<1> QED
  BY <1>1, <1>2, <1>3, <1>4, <1>5, <1>6, <1>7, <1>8, <1>9, <1>10, <1>11, <1>12 DEF QueueStep

LEMMA SaveContextInv ==
  ASSUME QueueInv, NEW w \in Worker, SaveContext(w)
  PROVE  QueueInv' /\ RowsStay
<1> USE DEF QueueInv, QueueTypeOK, DeciderInv, RowInv, Decided, RowsStay, RowStays
<1>1. CASE UNCHANGED approval /\ Mishap
  BY <1>1, FaultInv DEF SaveContext
<1>2. CASE ~(UNCHANGED approval /\ Mishap)
  <2>1. /\ UNCHANGED <<decider, acting, pass, quiet, executed, mishaps>>
        /\ approval' = [a \in Approval |->
             IF a \in flow[w].approval THEN [approval[a] EXCEPT !.context = TRUE] ELSE approval[a]]
    BY <1>2 DEF SaveContext
  <2>2. ASSUME NEW a \in Approval
        PROVE  /\ [approval[a] EXCEPT !.context = TRUE] \in RowType
               /\ [approval[a] EXCEPT !.context = TRUE].status = approval[a].status
               /\ [approval[a] EXCEPT !.context = TRUE].result = approval[a].result
    <3> DEFINE r == approval[a]
    <3>4. r \in RowType
      BY DEF RowType
    <3>1. [r EXCEPT !.context = TRUE] \in RowType
      <4> HIDE DEF r
      <4> QED BY <3>4, Zenon DEF RowType
    <3>2. [approval[a] EXCEPT !.context = TRUE].status = approval[a].status
      BY DEF RowType
    <3>3. [approval[a] EXCEPT !.context = TRUE].result = approval[a].result
      BY DEF RowType
    <3> QED BY <3>1, <3>2, <3>3
  <2>3. ASSUME NEW a \in Approval
        PROVE  /\ approval'[a] \in RowType
               /\ approval'[a].status = approval[a].status
               /\ approval'[a].result = approval[a].result
    BY <2>1, <2>2 DEF RowType
  <2>4. approval' \in [Approval -> RowType]
    BY <2>1, <2>3, Zenon
  <2>5. QueueTypeOK'
    BY <2>1, <2>4 DEF RowType
  <2>6. DeciderInv'
    BY <2>1, <2>3
  <2>7. ASSUME NEW a \in Approval PROVE RowInv(a)' /\ RowStays(a)
    BY <2>1, <2>3
  <2> QED BY <2>5, <2>6, <2>7
<1> QED BY <1>1, <1>2

\* Every step of the engine keeps what the queue promises.
LEMMA QueueNextInv ==
  ASSUME QueueInv, [WorkflowNext]_workflowVars
  PROVE  QueueInv' /\ RowsStay
<1>1. CASE QueueStep
  BY <1>1, QueueStepInv
<1>2. ASSUME NEW w \in Worker, RunGate(w) PROVE QueueInv' /\ RowsStay
  <2>1. CASE UNCHANGED approval
    BY <1>2, <2>1, FaultInv DEF RunGate
  <2>2. CASE approval' # approval
    BY <1>2, <2>2, InsertInv DEF RunGate
  <2> QED BY <2>1, <2>2
<1>3. ASSUME NEW w \in Worker, SaveContext(w) PROVE QueueInv' /\ RowsStay
  BY <1>3, SaveContextInv
<1>4. CASE DecideResumes
  BY <1>4, ApprovalAssumption
  DEF DecideResumes, QueueInv, QueueTypeOK, DeciderInv, RowInv, Decided, RowsStay, RowStays,
      NoDecision
<1>5. CASE Crash
  BY <1>5, ApprovalAssumption
  DEF Crash, QueueCrash, QueueInv, QueueTypeOK, DeciderInv, RowInv, Decided, RowsStay, RowStays,
      NoDecision, IdlePass, Mishap
<1>6. ASSUME UNCHANGED queueVars PROVE QueueInv' /\ RowsStay
  BY <1>6, FaultInv DEF queueVars
<1>7. ASSUME NEW w \in Worker, Works(w), ~RunGate(w), ~SaveContext(w) PROVE UNCHANGED queueVars
  BY <1>7 DEF Works, StopNode, RunCondition, RunNotification, RunParallel, RunAction, RunDelay,
              NodeJobEnds, Wakes, queueVars
<1>8. CASE ChainStep
  BY <1>6, <1>8 DEF ChainStep, SkipStep, SubmitStep, StepRefused, LastStepEnds, StepDone,
                    StepFails, queueVars
<1>9. CASE UNCHANGED workflowVars
  BY <1>6, <1>9 DEF workflowVars
<1> QED
  BY <1>1, <1>2, <1>3, <1>4, <1>5, <1>6, <1>7, <1>8, <1>9 DEF WorkflowNext

-----------------------------------------------------------------------------
(* The threads of a graph. *)

FrameOf(N) == [node : N, visited : SUBSET Node]

\* A thread whose nodes are in N, and that may save a workflow in rows of A.
ThreadOf(N, A) ==
    {t \in [mode : {"idle", "run", "insert", "job", "sleep"}, stack : Seq(FrameOf(N)),
            approval : SUBSET A] : t.mode = "run" => t.stack # <<>>}

\* The rows that a gate inserted.
GatedRows == {a \in Approval : gateOf[a] \in Node}

Targets(k) == {Graph[k].next, Graph[k].other} \union
              {Graph[k].branches[i] : i \in DOMAIN Graph[k].branches}

\* Nothing but a gate leads out of N.
Closed(N) == \A k \in N : Graph[k].type # "gate" => Targets(k) \subseteq N \union {NoNode}

LEMMA GoTyped ==
  ASSUME NEW N \in SUBSET Node, NEW n \in N \union {NoNode}, NEW visited \in SUBSET Node
  PROVE  Go(n, visited) \in Seq(FrameOf(N)) /\ (n # NoNode => Go(n, visited) # <<>>)
<1>1. CASE n = NoNode
  BY <1>1 DEF Go
<1>2. CASE n # NoNode
  <2>1. Frame(n, visited) \in FrameOf(N)
    BY <1>2 DEF Frame, FrameOf
  <2> QED BY <1>2, <2>1 DEF Go
<1> QED BY <1>1, <1>2

LEMMA ContinueTyped ==
  ASSUME NEW N, NEW A, NEW stack \in Seq(FrameOf(N))
  PROVE  Continue(stack) \in ThreadOf(N, A)
  BY DEF Continue, ThreadOf, IdleWorker

LEMMA SpawnedTyped ==
  ASSUME NEW N, NEW A, NEW f \in [Worker -> ThreadOf(N, A)], Room(f),
         NEW mode \in {"run", "job", "sleep"}, NEW stack \in Seq(FrameOf(N)),
         mode = "run" => stack # <<>>
  PROVE  Spawned(f, mode, stack) \in [Worker -> ThreadOf(N, A)]
<1> DEFINE u == CHOOSE v \in Worker : f[v].mode = "idle"
<1>1. u \in Worker
  BY DEF Room
<1>2. [IdleWorker EXCEPT !.mode = mode, !.stack = stack] \in ThreadOf(N, A)
  BY DEF ThreadOf, IdleWorker
<1> HIDE DEF u
<1>3. [f EXCEPT ![u] = [IdleWorker EXCEPT !.mode = mode, !.stack = stack]]
        \in [Worker -> ThreadOf(N, A)]
  BY <1>1, <1>2
<1> QED BY <1>3 DEF Spawned, u

\* What is on top of the stack of a thread that runs, and below it.
LEMMA TopTyped ==
  ASSUME NEW N \in SUBSET Node, NEW A, NEW w \in Worker,
         flow \in [Worker -> ThreadOf(N, A)], flow[w].mode = "run"
  PROVE  /\ Top(w).node \in N /\ Seen(w) \in SUBSET Node
         /\ Rest(w) \in Seq(FrameOf(N))
         /\ Continue(Rest(w)) \in ThreadOf(N, A)
<1>1. flow[w].stack \in Seq(FrameOf(N)) /\ flow[w].stack # <<>>
  BY DEF ThreadOf
<1>2. Top(w) \in FrameOf(N) /\ Rest(w) \in Seq(FrameOf(N))
  BY <1>1, HeadTailProperties DEF Top, Rest
<1> QED
  BY <1>2, ContinueTyped DEF FrameOf, Seen

\* The frames of the branches of a parallel node, its join and the rest.
LEMMA BranchesTyped ==
  ASSUME NEW N \in SUBSET Node, NEW branches \in Seq(Node), NEW visited \in SUBSET Node,
         \A i \in DOMAIN branches : branches[i] \in N
  PROVE  [i \in DOMAIN branches |-> Frame(branches[i], visited)] \in Seq(FrameOf(N))
<1>1. Len(branches) \in Nat /\ DOMAIN branches = 1..Len(branches)
  BY LenProperties
<1>2. \A i \in DOMAIN branches : Frame(branches[i], visited) \in FrameOf(N)
  BY DEF Frame, FrameOf
<1>3. [i \in DOMAIN branches |-> Frame(branches[i], visited)]
        \in [1..Len(branches) -> FrameOf(N)]
  BY <1>1, <1>2
<1> QED BY <1>1, <1>3, SeqDef

\* A thread that executes a node other than a gate stays among the nodes of N.
LEMMA NodeKeeps ==
  ASSUME WorkflowAssumption, NEW N \in SUBSET Node, Closed(N), NEW A, NEW w \in Worker,
         flow \in [Worker -> ThreadOf(N, A)], Works(w), ~RunGate(w)
  PROVE  /\ flow' \in [Worker -> ThreadOf(N, A)]
         /\ ran' \subseteq ran \union N
         /\ gateOf' = gateOf
<1> DEFINE k == Top(w).node
<1> DEFINE left == [flow EXCEPT ![w] = Continue(Rest(w))]
<1>1. CASE StopNode(w)
  BY <1>1, TopTyped DEF StopNode
<1>2. ASSUME NEW type \in NodeType \ {"gate"}, Reaches(w, type)
      PROVE  /\ k \in N /\ Seen(w) \in SUBSET Node
             /\ Rest(w) \in Seq(FrameOf(N)) /\ left \in [Worker -> ThreadOf(N, A)]
             /\ \A n \in Targets(k) : Go(n, Seen(w)) \in Seq(FrameOf(N))
             /\ ran' \subseteq ran \union N
  <2>1. /\ k \in N /\ Seen(w) \in SUBSET Node
        /\ Rest(w) \in Seq(FrameOf(N)) /\ left \in [Worker -> ThreadOf(N, A)]
    BY <1>2, TopTyped DEF Reaches
  <2>2. Targets(k) \subseteq N \union {NoNode}
    BY <1>2, <2>1 DEF Reaches, Closed
  <2>3. \A n \in Targets(k) : Go(n, Seen(w)) \in Seq(FrameOf(N))
    BY <2>1, <2>2, GoTyped
  <2> QED BY <1>2, <2>1, <2>3 DEF Reaches
<1>3. Graph[k].next \in Targets(k) /\ Graph[k].other \in Targets(k)
  BY DEF Targets
<1> HIDE DEF k, left
<1>4. ASSUME NEW n \in Targets(k), Go(n, Seen(w)) \in Seq(FrameOf(N)), Rest(w) \in Seq(FrameOf(N))
      PROVE  Continue(Go(n, Seen(w)) \o Rest(w)) \in ThreadOf(N, A)
  BY <1>4, ConcatProperties, ContinueTyped
<1>5. CASE RunCondition(w)
  <2>1. Reaches(w, "condition") /\ "condition" \in NodeType \ {"gate"}
    BY <1>5 DEF RunCondition, NodeType
  <2>2. \A n \in Targets(k) : Continue(Go(n, Seen(w)) \o Rest(w)) \in ThreadOf(N, A)
    BY <1>2, <1>4, <2>1
  <2>3. PICK n \in Targets(k) : flow' = [flow EXCEPT ![w] = Continue(Go(n, Seen(w)) \o Rest(w))]
    BY <1>3, <1>5 DEF RunCondition, k
  <2> QED BY <1>2, <1>5, <2>1, <2>2, <2>3 DEF RunCondition
<1>6. CASE RunNotification(w)
  <2>1. Reaches(w, "notify") /\ "notify" \in NodeType \ {"gate"}
    BY <1>6 DEF RunNotification, NodeType
  <2>2. Continue(Go(Graph[k].next, Seen(w)) \o Rest(w)) \in ThreadOf(N, A)
    BY <1>2, <1>3, <1>4, <2>1
  <2> QED BY <1>2, <1>6, <2>1, <2>2 DEF RunNotification, k
<1>7. CASE RunParallel(w)
  <2>1. Reaches(w, "parallel") /\ "parallel" \in NodeType \ {"gate"}
    BY <1>7 DEF RunParallel, NodeType
  <2> DEFINE node == Graph[k]
             branches == [i \in DOMAIN node.branches |-> Frame(node.branches[i], Seen(w))]
             stack == branches \o Go(node.next, Seen(w)) \o Rest(w)
  <2>2. flow' = [flow EXCEPT ![w] = Continue(stack)] /\ gateOf' = gateOf
    BY <1>7 DEF RunParallel, k
  <2>3. k \in N /\ Seen(w) \in SUBSET Node /\ Rest(w) \in Seq(FrameOf(N))
    BY <1>2, <2>1
  <2>4. Go(node.next, Seen(w)) \in Seq(FrameOf(N))
    BY <1>2, <1>3, <2>1
  <2>5. node.branches \in Seq(Node)
    BY <2>3 DEF WorkflowAssumption
  <2>6. node.type # "gate"
    BY <2>1 DEF Reaches, k
  <2>7. \A i \in DOMAIN node.branches : node.branches[i] \in N
    <3>1. \A i \in DOMAIN node.branches : node.branches[i] \in Node
      BY <2>5, LenProperties, ElementOfSeq
    <3> QED BY <2>3, <2>6, <3>1 DEF Closed, Targets, WorkflowAssumption
  <2>8. branches \in Seq(FrameOf(N))
    BY <2>3, <2>5, <2>7, BranchesTyped
  <2> HIDE DEF branches
  <2>9. stack \in Seq(FrameOf(N))
    BY <2>3, <2>4, <2>8, ConcatProperties
  <2>10. Continue(stack) \in ThreadOf(N, A)
    BY <2>9, ContinueTyped
  <2> HIDE DEF stack
  <2>11. flow' \in [Worker -> ThreadOf(N, A)]
    BY <2>2, <2>10
  <2> QED BY <1>2, <2>1, <2>2, <2>11
<1>8. CASE RunAction(w)
  <2>1. Reaches(w, "action") /\ "action" \in NodeType \ {"gate"}
    BY <1>8 DEF RunAction, NodeType
  <2>2. \/ flow' = left
        \/ Room(left) /\ flow' = Spawned(left, "job", Go(Graph[k].next, Seen(w)))
    BY <1>8 DEF RunAction, left, k
  <2>3. flow' \in [Worker -> ThreadOf(N, A)]
    BY <1>2, <1>3, <2>1, <2>2, SpawnedTyped
  <2> QED BY <1>2, <1>8, <2>1, <2>3 DEF RunAction
<1>9. CASE RunDelay(w)
  <2>1. Reaches(w, "delay") /\ "delay" \in NodeType \ {"gate"}
    BY <1>9 DEF RunDelay, NodeType
  <2>2. Room(left) /\ flow' = Spawned(left, "sleep", Go(Graph[k].next, Seen(w)))
    BY <1>9 DEF RunDelay, left, k
  <2>3. flow' \in [Worker -> ThreadOf(N, A)]
    BY <1>2, <1>3, <2>1, <2>2, SpawnedTyped
  <2> QED BY <1>2, <1>9, <2>1, <2>3 DEF RunDelay
<1>10. CASE SaveContext(w) \/ NodeJobEnds(w) \/ Wakes(w)
  <2>1. flow[w].stack \in Seq(FrameOf(N))
    BY DEF ThreadOf
  <2>2. Continue(flow[w].stack) \in ThreadOf(N, A)
    BY <2>1, ContinueTyped
  <2>3. IdleWorker \in ThreadOf(N, A)
    BY DEF IdleWorker, ThreadOf
  <2> QED
    BY <1>10, <2>2, <2>3 DEF SaveContext, NodeJobEnds, Wakes
<1> QED
  BY <1>1, <1>5, <1>6, <1>7, <1>8, <1>9, <1>10 DEF Works

\* A gate adds its row to those that gates inserted.
LEMMA GateKeeps ==
  ASSUME QueueInv, NEW N \in SUBSET Node, NEW w \in Worker,
         gateOf \in [Approval -> Node \union {NoNode}],
         flow \in [Worker -> ThreadOf(N, GatedRows)], RunGate(w)
  PROVE  /\ flow' \in [Worker -> ThreadOf(N, GatedRows')]
         /\ ran' \subseteq ran \union N
         /\ gateOf' \in [Approval -> Node \union {NoNode}]
         /\ GatedRows \subseteq GatedRows'
         /\ \A a \in Approval : gateOf'[a] = gateOf[a] \/ approval[a] = NoRow
<1>1. flow[w].mode = "run"
  BY DEF RunGate, Reaches
<1>2. /\ Top(w).node \in N
      /\ Rest(w) \in Seq(FrameOf(N))
  BY <1>1, TopTyped
<1>3. ran' \subseteq ran \union N
  BY <1>2 DEF RunGate, Reaches
<1>4. ASSUME NEW a \in Approval, approval[a] = NoRow,
             gateOf' = [gateOf EXCEPT ![a] = Top(w).node],
             flow' = [flow EXCEPT ![w] = [mode |-> "insert", stack |-> Rest(w), approval |-> {a}]]
      PROVE  /\ flow' \in [Worker -> ThreadOf(N, GatedRows')]
             /\ gateOf' \in [Approval -> Node \union {NoNode}]
             /\ GatedRows \subseteq GatedRows'
             /\ \A b \in Approval : gateOf'[b] = gateOf[b] \/ approval[b] = NoRow
  <2>1. gateOf' \in [Approval -> Node \union {NoNode}]
    BY <1>2, <1>4
  <2>2. GatedRows \subseteq GatedRows' /\ a \in GatedRows'
    BY <1>2, <1>4 DEF GatedRows
  <2>3. ThreadOf(N, GatedRows) \subseteq ThreadOf(N, GatedRows')
    BY <2>2 DEF ThreadOf
  <2>4. [mode |-> "insert", stack |-> Rest(w), approval |-> {a}] \in ThreadOf(N, GatedRows')
    BY <1>2, <2>2 DEF ThreadOf
  <2>5. flow' \in [Worker -> ThreadOf(N, GatedRows')]
    BY <1>4, <2>3, <2>4
  <2> QED BY <1>4, <2>1, <2>2, <2>5
<1>5. ASSUME UNCHANGED gateOf, flow' = [flow EXCEPT ![w] = Continue(Rest(w))]
      PROVE  /\ flow' \in [Worker -> ThreadOf(N, GatedRows')]
             /\ GatedRows = GatedRows'
  BY <1>1, <1>5, TopTyped DEF GatedRows
<1> QED
  BY <1>3, <1>4, <1>5 DEF RunGate

-----------------------------------------------------------------------------
(* The invariant of the graph. *)

Passed(g, decision) == \E a \in Approval : gateOf[a] = g /\ approval[a].status = decision

\* Node m was not executed and is on no stack.
Unreached(m) == m \notin ran /\ flow \in [Worker -> ThreadOf(Node \ {m}, GatedRows)]

GateInv ==
    \A g \in Node, decision \in {"approved", "denied"} :
        Graph[g].type = "gate" =>
            \A m \in OnlyBehind(g, decision) : Passed(g, decision) \/ Unreached(m)

FlowTypeOK ==
    /\ gateOf \in [Approval -> Node \union {NoNode}]
    /\ ran \subseteq Node
    /\ flow \in [Worker -> ThreadOf(Node, GatedRows)]
    /\ \A a \in Approval : approval[a].context => a \in GatedRows

FlowInv == FlowTypeOK /\ GateInv

\* What is behind a gate is not the target of any other node, nor of the other
\* branch of the gate.
LEMMA BehindTyped ==
  ASSUME WorkflowAssumption, NEW g \in Node, Graph[g].type = "gate",
         NEW decision \in {"approved", "denied"}, NEW m \in OnlyBehind(g, decision)
  PROVE  /\ m \in Node /\ m # Entry /\ Closed(Node \ {m})
         /\ \A k \in Node \ {g} : m \notin Targets(k)
         /\ decision = "approved" => m # Graph[g].other
         /\ decision = "denied" => m # Graph[g].next
<1>1. m \in Node /\ m # Entry
  BY DEF OnlyBehind, WorkflowAssumption
<1>2. \A k \in Node \ {g} : m \notin Targets(k)
  BY DEF OnlyBehind, Targets
<1>3. ASSUME NEW k \in Node \ {m}, Graph[k].type # "gate"
      PROVE  Targets(k) \subseteq (Node \ {m}) \union {NoNode}
  <2>1. k # g
    BY <1>3
  <2>2. Graph[k].branches \in Seq(Node)
    BY DEF WorkflowAssumption
  <2>3. \A i \in DOMAIN Graph[k].branches : Graph[k].branches[i] \in Node
    BY <2>2, LenProperties, ElementOfSeq
  <2>4. Targets(k) \subseteq Node \union {NoNode}
    BY <2>3 DEF Targets, WorkflowAssumption
  <2> QED BY <1>2, <2>1, <2>4
<1> QED
  BY <1>1, <1>2, <1>3 DEF Closed, OnlyBehind

LEMMA NodeClosed == WorkflowAssumption => Closed(Node)
<1> SUFFICES ASSUME WorkflowAssumption, NEW k \in Node PROVE Targets(k) \subseteq Node \union {NoNode}
  BY DEF Closed
<1>1. Graph[k].branches \in Seq(Node)
  BY DEF WorkflowAssumption
<1>2. \A i \in DOMAIN Graph[k].branches : Graph[k].branches[i] \in Node
  BY <1>1, LenProperties, ElementOfSeq
<1> QED BY <1>2 DEF Targets, WorkflowAssumption

LEMMA FlowInitInv == WorkflowInit => FlowInv
<1> SUFFICES ASSUME WorkflowInit PROVE FlowInv
  OBVIOUS
<1> USE WorkflowAssumption
<1>1. ASSUME NEW N \in SUBSET Node, Entry \in N PROVE flow \in [Worker -> ThreadOf(N, GatedRows)]
  <2> DEFINE first == CHOOSE w \in Worker : TRUE
             started == [IdleWorker EXCEPT !.mode = "run", !.stack = <<Frame(Entry, {})>>]
  <2>1. IdleWorker \in ThreadOf(N, GatedRows)
    BY DEF IdleWorker, ThreadOf
  <2>2. <<Frame(Entry, {})>> \in Seq(FrameOf(N)) /\ <<Frame(Entry, {})>> # <<>>
    BY <1>1 DEF Frame, FrameOf
  <2>3. started \in ThreadOf(N, GatedRows)
    BY <2>2 DEF IdleWorker, ThreadOf
  <2>4. flow = [w \in Worker |-> IF w = first /\ kind = "graph" THEN started ELSE IdleWorker]
    BY DEF WorkflowInit
  <2> HIDE DEF first, started
  <2> QED BY <2>1, <2>3, <2>4
<1>2. /\ gateOf \in [Approval -> Node \union {NoNode}] /\ ran = {}
      /\ \A a \in Approval : ~approval[a].context
  BY DEF WorkflowInit, QueueInit, NoRow
<1>3. FlowTypeOK
  BY <1>1, <1>2 DEF FlowTypeOK, WorkflowAssumption
<1>4. GateInv
  BY <1>1, <1>2, BehindTyped DEF GateInv, Unreached, WorkflowAssumption
<1> QED BY <1>3, <1>4 DEF FlowInv

\* Only SaveContext saves a workflow in a row.
LEMMA ContextStays ==
  ASSUME QueueInv, QueueStep, NEW b \in Approval, approval'[b].context
  PROVE  approval[b].context
<1>1. approval \in [Approval -> RowType]
  BY DEF QueueInv, QueueTypeOK, RowType
<1>2. ASSUME NEW a \in Approval,
             \/ QueueHeal(a) \/ RunApproved(a) \/ StoreApproved(a) \/ RunOverdue(a)
             \/ StoreOverdue(a) \/ DeadlinePasses(a)
             \/ \E decision \in {"approved", "denied"} : DecideReads(a, decision)
      PROVE  approval[b].context
  <2>1. CASE QueueHeal(a)
    BY <1>1, <2>1 DEF QueueHeal, Inserted
  <2>2. CASE StoreApproved(a)
    BY <1>1, <2>2 DEF StoreApproved, RowType
  <2>3. CASE StoreOverdue(a)
    BY <1>1, <2>3 DEF StoreOverdue, RowType
  <2>4. CASE DeadlinePasses(a)
    BY <1>1, <2>4 DEF DeadlinePasses, RowType
  <2>5. CASE UNCHANGED approval
    BY <2>5
  <2> QED BY <1>2, <2>1, <2>2, <2>3, <2>4, <2>5 DEF RunApproved, RunOverdue, DecideReads
<1>3. CASE DecideWrites
  BY <1>1, <1>3 DEF DecideWrites, RowType, QueueInv, QueueTypeOK
<1>4. CASE StartPass
  BY <1>1, <1>4 DEF StartPass, RowType
<1>5. CASE DecideFails \/ DecideActs \/ WindowOpens \/ WindowCloses
  BY <1>5 DEF DecideFails, DecideActs, WindowOpens, WindowCloses
<1> QED BY <1>2, <1>3, <1>4, <1>5 DEF QueueStep

\* A gate that was passed stays passed.
LEMMA PassedStays ==
  ASSUME QueueInv, RowsStay, NEW g, NEW decision \in {"approved", "denied"},
         \A a \in Approval : gateOf'[a] = gateOf[a] \/ approval[a] = NoRow, Passed(g, decision)
  PROVE  Passed(g, decision)'
<1>1. PICK a \in Approval : gateOf[a] = g /\ approval[a].status = decision
  BY DEF Passed
<1>2. approval[a] # NoRow
  BY <1>1 DEF NoRow
<1> QED BY <1>1, <1>2 DEF Passed, RowsStay, RowStays

\* The branch of a decision leads nowhere else.
LEMMA DecideKeeps ==
  ASSUME WorkflowAssumption, QueueInv, FlowTypeOK, DecideResumes
  PROVE  /\ flow' \in [Worker -> ThreadOf(Node, GatedRows)]
         /\ \A g \in Node : \A decision \in {"approved", "denied"} : Graph[g].type = "gate" =>
              \A m \in OnlyBehind(g, decision) :
                 Unreached(m) => Passed(g, decision) \/ Unreached(m)'
<1> DEFINE id == decider.id
           n == ResumedNode(id, decider.decision)
<1>1. /\ id \in Approval /\ approval[id].context /\ approval[id].status = decider.decision
      /\ decider.decision \in {"approved", "denied"}
  BY DEF DecideResumes, QueueInv, QueueTypeOK, DeciderInv, Decided
<1>2. gateOf[id] \in Node /\ n \in Targets(gateOf[id])
  BY <1>1 DEF FlowTypeOK, GatedRows, ResumedNode, Targets
<1>3. UNCHANGED <<gateOf, ran>> /\ GatedRows' = GatedRows
  BY DEF DecideResumes, GatedRows
<1>4. \/ UNCHANGED flow
      \/ n # NoNode /\ Room(flow) /\ flow' = Spawned(flow, "run", Go(n, {}))
  BY DEF DecideResumes
<1>5. ASSUME NEW N \in SUBSET Node, n \in N \union {NoNode}, flow \in [Worker -> ThreadOf(N, GatedRows)]
      PROVE  flow' \in [Worker -> ThreadOf(N, GatedRows)]
  <2>1. Go(n, {}) \in Seq(FrameOf(N)) /\ (n # NoNode => Go(n, {}) # <<>>)
    BY <1>5, GoTyped
  <2> QED BY <1>4, <1>5, <2>1, SpawnedTyped
<1>6. n \in Node \union {NoNode}
  BY <1>2, NodeClosed DEF ResumedNode, WorkflowAssumption
<1>7. ASSUME NEW g \in Node, NEW decision \in {"approved", "denied"}, Graph[g].type = "gate",
             NEW m \in OnlyBehind(g, decision), Unreached(m), ~Passed(g, decision)
      PROVE  Unreached(m)'
  <2>1. n # m
    <3>1. CASE gateOf[id] # g
      <4>1. \A k \in Node \ {g} : m \notin Targets(k)
        BY <1>7, BehindTyped
      <4> QED BY <1>2, <3>1, <4>1
    <3>2. CASE gateOf[id] = g
      <4>1. decider.decision # decision
        BY <1>1, <1>7, <3>2 DEF Passed
      <4>2. decision = "approved" => m # Graph[g].other
        BY <1>7, BehindTyped
      <4>3. decision = "denied" => m # Graph[g].next
        BY <1>7, BehindTyped
      <4> QED BY <1>1, <1>7, <3>2, <4>1, <4>2, <4>3 DEF ResumedNode
    <3> QED BY <3>1, <3>2
  <2>2. flow' \in [Worker -> ThreadOf(Node \ {m}, GatedRows)]
    BY <1>5, <1>6, <1>7, <2>1 DEF Unreached
  <2> QED BY <1>3, <1>7, <2>2 DEF Unreached
<1>8. flow' \in [Worker -> ThreadOf(Node, GatedRows)]
  BY <1>5, <1>6 DEF FlowTypeOK
<1> QED BY <1>7, <1>8

LEMMA FlowNextInv ==
  ASSUME WorkflowAssumption, QueueInv, RowsStay, FlowInv, [WorkflowNext]_workflowVars
  PROVE  FlowInv'
<1> USE DEF FlowInv
<1>1. ASSUME NEW w \in Worker, RunGate(w) PROVE FlowInv'
  <2>1. /\ flow' \in [Worker -> ThreadOf(Node, GatedRows')]
        /\ ran' \subseteq ran \union Node
        /\ gateOf' \in [Approval -> Node \union {NoNode}]
        /\ GatedRows \subseteq GatedRows'
        /\ \A a \in Approval : gateOf'[a] = gateOf[a] \/ approval[a] = NoRow
    BY <1>1, GateKeeps DEF FlowTypeOK
  <2>2. \A a \in Approval : approval'[a].context => approval[a].context
    <3>1. CASE UNCHANGED approval
      BY <3>1
    <3>2. CASE ~UNCHANGED approval
      <4>1. PICK b \in Approval : approval' = Inserted(b, "none")
        BY <1>1, <3>2 DEF RunGate
      <4> QED BY <4>1 DEF Inserted, QueueInv, QueueTypeOK
    <3> QED BY <3>1, <3>2
  <2>3. FlowTypeOK'
    BY <2>1, <2>2 DEF FlowTypeOK
  <2>4. ASSUME NEW m \in Node, Unreached(m) PROVE Unreached(m)'
    <3> DEFINE N == Node \ {m}
    <3>1. N \in SUBSET Node /\ m \notin N
      OBVIOUS
    <3>2. m \notin ran /\ flow \in [Worker -> ThreadOf(N, GatedRows)]
      BY <2>4 DEF Unreached
    <3> HIDE DEF N
    <3>3. flow' \in [Worker -> ThreadOf(N, GatedRows')] /\ ran' \subseteq ran \union N
      BY <1>1, <3>1, <3>2, GateKeeps DEF FlowTypeOK
    <3> QED BY <3>1, <3>2, <3>3 DEF Unreached, N
  <2>5. GateInv'
    BY <2>1, <2>4, PassedStays, BehindTyped DEF GateInv, OnlyBehind
  <2> QED BY <2>3, <2>5
<1>2. ASSUME NEW w \in Worker, Works(w), ~RunGate(w) PROVE FlowInv'
  <2>1. /\ flow' \in [Worker -> ThreadOf(Node, GatedRows)] /\ ran' \subseteq ran \union Node
        /\ gateOf' = gateOf /\ GatedRows' = GatedRows
    BY <1>2, NodeKeeps, NodeClosed DEF FlowTypeOK, GatedRows
  <2>2. \A a \in Approval : approval'[a].context => a \in GatedRows
    <3>1. CASE SaveContext(w)
      <4>1. flow[w].approval \subseteq GatedRows
        BY DEF FlowTypeOK, ThreadOf
      <4> QED BY <3>1, <4>1 DEF SaveContext, FlowTypeOK
    <3>2. CASE ~SaveContext(w)
      BY <1>2, <3>2 DEF Works, StopNode, RunCondition, RunNotification, RunParallel, RunAction,
         RunDelay, NodeJobEnds, Wakes, queueVars, FlowTypeOK
    <3> QED BY <3>1, <3>2
  <2>3. FlowTypeOK'
    BY <2>1, <2>2 DEF FlowTypeOK
  <2>4. ASSUME NEW m \in Node, Closed(Node \ {m}), Unreached(m) PROVE Unreached(m)'
    <3> DEFINE N == Node \ {m}
    <3>1. N \in SUBSET Node /\ m \notin N /\ Closed(N)
      BY <2>4
    <3>2. m \notin ran /\ flow \in [Worker -> ThreadOf(N, GatedRows)]
      BY <2>4 DEF Unreached
    <3> HIDE DEF N
    <3>3. flow' \in [Worker -> ThreadOf(N, GatedRows)] /\ ran' \subseteq ran \union N
      BY <1>2, <3>1, <3>2, NodeKeeps
    <3> QED BY <2>1, <3>1, <3>2, <3>3 DEF Unreached, N
  <2>5. ASSUME NEW g \in Node, NEW decision \in {"approved", "denied"}, Graph[g].type = "gate",
               NEW m \in OnlyBehind(g, decision)
        PROVE  Passed(g, decision)' \/ Unreached(m)'
    <3>1. m \in Node /\ Closed(Node \ {m})
      BY <2>5, BehindTyped
    <3>2. CASE Passed(g, decision)
      BY <2>1, <3>2, PassedStays
    <3>3. CASE Unreached(m)
      BY <2>4, <3>1, <3>3
    <3> QED BY <2>5, <3>2, <3>3 DEF GateInv
  <2>6. GateInv'
    BY <2>5 DEF GateInv, OnlyBehind
  <2> QED BY <2>3, <2>6
<1>3. CASE DecideResumes
  <2>1. UNCHANGED <<approval, gateOf, ran>> /\ GatedRows' = GatedRows
    BY <1>3 DEF DecideResumes, GatedRows
  <2>2. FlowTypeOK'
    BY <1>3, <2>1, DecideKeeps DEF FlowTypeOK
  <2>3. GateInv'
    BY <1>3, <2>1, DecideKeeps, PassedStays DEF GateInv, OnlyBehind
  <2> QED BY <2>2, <2>3
<1>4. ASSUME UNCHANGED <<flow, gateOf, ran>>,
             \A a \in Approval : approval'[a].context => approval[a].context
      PROVE  FlowInv'
  <2>1. GatedRows' = GatedRows
    BY <1>4 DEF GatedRows
  <2>2. FlowTypeOK'
    BY <1>4, <2>1 DEF FlowTypeOK
  <2>3. \A m : Unreached(m) => Unreached(m)'
    BY <1>4, <2>1 DEF Unreached
  <2>4. GateInv'
    BY <1>4, <2>3, PassedStays DEF GateInv, OnlyBehind
  <2> QED BY <2>2, <2>4
<1>5. CASE QueueStep /\ UNCHANGED <<kind, flowVars, chainVars>>
  BY <1>4, <1>5, ContextStays DEF flowVars
<1>6. CASE ChainStep \/ UNCHANGED workflowVars
  BY <1>4, <1>6 DEF ChainStep, SkipStep, SubmitStep, StepRefused, LastStepEnds, StepDone,
                    StepFails, queueVars, flowVars, workflowVars
<1>7. CASE Crash
  <2>1. UNCHANGED <<approval, gateOf, ran>> /\ GatedRows' = GatedRows
    BY <1>7 DEF Crash, QueueCrash, GatedRows
  <2>2. \A N : flow' \in [Worker -> ThreadOf(N, GatedRows)]
    BY <1>7 DEF Crash, IdleWorker, ThreadOf
  <2>3. FlowTypeOK'
    BY <2>1, <2>2 DEF FlowTypeOK
  <2>4. GateInv'
    BY <2>1, <2>2, PassedStays DEF GateInv, OnlyBehind, Unreached
  <2> QED BY <2>3, <2>4
<1> QED
  BY <1>1, <1>2, <1>3, <1>5, <1>6, <1>7 DEF WorkflowNext

-----------------------------------------------------------------------------
(* Theorems. *)

WorkflowInv == QueueInv /\ FlowInv

LEMMA WorkflowInvHolds == WorkflowSpec => []WorkflowInv
<1>1. WorkflowInit => WorkflowInv
  BY QueueInitInv, FlowInitInv DEF WorkflowInit, WorkflowInv
<1>2. WorkflowInv /\ [WorkflowNext]_workflowVars => WorkflowInv'
  BY WorkflowAssumption, QueueNextInv, FlowNextInv DEF WorkflowInv
<1> QED BY <1>1, <1>2, PTL DEF WorkflowSpec

\* For any approvals, workflow and faults: an action is executed only when its
\* row is approved, at most once when an operator approved it, and by the
\* scheduler once more at most for every fault.
THEOREM QueueExecutesAsDecided == WorkflowSpec => []ExecutedAsDecided
<1>1. WorkflowInv => ExecutedAsDecided
  BY DEF WorkflowInv, QueueInv, QueueTypeOK, RowInv, ExecutedAsDecided
<1> QED BY <1>1, WorkflowInvHolds, PTL

\* A decision of a row is never changed, whoever had read it before.
THEOREM QueueDecidesOnce == WorkflowSpec => DecidedOnce
<1>1. WorkflowInv /\ [WorkflowNext]_workflowVars
        => [\A a \in Approval : approval[a].status \in {"approved", "denied", "auto_approved"}
                                  => approval'[a].status = approval[a].status]_approval
  BY QueueNextInv DEF WorkflowInv, RowsStay, RowStays
<1> QED BY <1>1, WorkflowInvHolds, PTL DEF WorkflowSpec, DecidedOnce

\* For every graph: what is behind a gate is executed only after an operator
\* decided the gate's row that way.
THEOREM WorkflowStopsAtGates == WorkflowSpec => []GateIsPassed
<1>1. WorkflowInv => GateIsPassed
  BY DEF WorkflowInv, FlowInv, GateInv, GateIsPassed, Passed, Unreached
<1> QED BY <1>1, WorkflowInvHolds, PTL

-----------------------------------------------------------------------------
(* The queue keeps ApprovalContract. *)

Statuses == [a \in Approval |-> approval[a].status]
PastDue == {a \in Approval : approval[a].deadline = "past"}
Results == {a \in Approval : approval[a].result}

\* What the contract sees of a row that changes.
LEMMA RowSeen ==
  ASSUME QueueInv, NEW a \in Approval, NEW r \in RowType, approval' = [approval EXCEPT ![a] = r]
  PROVE  /\ Statuses' = [Statuses EXCEPT ![a] = r.status] /\ Statuses[a] = approval[a].status
         /\ r.status = approval[a].status => UNCHANGED Statuses
         /\ (r.deadline = "past" <=> approval[a].deadline = "past") => UNCHANGED PastDue
         /\ r.deadline = "past" => PastDue' = PastDue \union {a}
         /\ r.result = approval[a].result => UNCHANGED Results
         /\ r.result => Results' = Results \union {a}
<1>1. /\ approval' \in [Approval -> RowType] /\ approval \in [Approval -> RowType]
      /\ approval'[a] = r /\ \A b \in Approval \ {a} : approval'[b] = approval[b]
  BY RowChanges DEF QueueInv, QueueTypeOK, RowType
<1>2. Statuses' = [Statuses EXCEPT ![a] = r.status] /\ Statuses[a] = approval[a].status
  BY <1>1 DEF Statuses
<1>3. r.status = approval[a].status => UNCHANGED Statuses
  BY <1>1 DEF Statuses
<1>4. /\ (r.deadline = "past" <=> approval[a].deadline = "past") => UNCHANGED PastDue
      /\ r.deadline = "past" => PastDue' = PastDue \union {a}
  BY <1>1 DEF PastDue
<1>5. /\ r.result = approval[a].result => UNCHANGED Results
      /\ r.result => Results' = Results \union {a}
  <2>1. \A b \in Approval : approval[b].result \in BOOLEAN /\ approval'[b].result \in BOOLEAN
    BY <1>1 DEF RowType
  <2> QED BY <1>1, <2>1 DEF Results
<1> QED BY <1>2, <1>3, <1>4, <1>5

LEMMA InsertIsAsked ==
  ASSUME QueueInv, NEW a \in Approval, NEW d \in {"none", "later"},
         approval[a] = NoRow, approval' = Inserted(a, d), UNCHANGED <<executed, mishaps>>
  PROVE  Promise!Next
<1> DEFINE r == [status |-> "pending", deadline |-> d, context |-> FALSE, result |-> FALSE]
<1>1. r \in RowType /\ r.status = "pending" /\ r.deadline # "past" /\ r.result = FALSE
  BY DEF RowType
<1>2. approval' = [approval EXCEPT ![a] = r]
  BY DEF Inserted
<1> HIDE DEF r
<1>3. /\ approval[a].status = "none" /\ approval[a].deadline # "past"
      /\ approval[a].result = FALSE
  BY DEF NoRow
<1>4. /\ Statuses[a] = "none" /\ Statuses' = [Statuses EXCEPT ![a] = "pending"]
      /\ UNCHANGED PastDue /\ UNCHANGED Results
  <2>1. /\ Statuses' = [Statuses EXCEPT ![a] = r.status] /\ Statuses[a] = approval[a].status
        /\ (r.deadline = "past" <=> approval[a].deadline = "past") => UNCHANGED PastDue
        /\ r.result = approval[a].result => UNCHANGED Results
    BY <1>1, <1>2, RowSeen
  <2> QED BY <1>1, <1>3, <2>1
<1>5. Promise!Ask(a)
  BY <1>4 DEF Promise!Ask, Statuses, PastDue, Results
<1> QED BY <1>5 DEF Promise!Next

\* The contract sees at most that there was a fault.
LEMMA FaultSeen ==
  ASSUME QueueInv, UNCHANGED <<Statuses, PastDue, Results, executed>>, UNCHANGED mishaps \/ Mishap
  PROVE  [Promise!Next]_(Promise!contractVars)
<1>1. CASE UNCHANGED mishaps
  BY <1>1 DEF Promise!contractVars, Statuses, PastDue, Results
<1>2. CASE Mishap
  <2>1. Promise!Fault
    BY <1>2 DEF Promise!Fault, Mishap, Statuses, PastDue, Results
  <2> QED BY <2>1 DEF Promise!Next
<1> QED BY <1>1, <1>2

\* Rows that stay as they were show the contract nothing.
LEMMA RowsUnseen ==
  ASSUME UNCHANGED approval
  PROVE  UNCHANGED <<Statuses, PastDue, Results>>
BY DEF Statuses, PastDue, Results

LEMMA ExecutionSeen ==
  ASSUME QueueInv, NEW a \in Approval, UNCHANGED approval,
         executed' = [executed EXCEPT ![a] = @ + 1], UNCHANGED mishaps \/ Mishap,
         \/ approval[a].status = "approved" /\ executed[a] = 0
         \/ approval[a].status = "auto_approved" /\ ~approval[a].result /\ executed[a] <= mishaps
  PROVE  Promise!Next
<1>1. UNCHANGED <<Statuses, PastDue, Results>>
  BY RowsUnseen
<1>2. Statuses[a] = approval[a].status /\ (a \in Results <=> approval[a].result)
  BY DEF Statuses, Results
<1>3. mishaps' \in {mishaps, mishaps + 1}
  BY DEF Mishap
<1>4. Promise!Execute(a)
  BY <1>1, <1>2, <1>3 DEF Promise!Execute, Promise!MayFail, Statuses, PastDue, Results
<1> QED BY <1>4 DEF Promise!Next

LEMMA ResultSeen ==
  ASSUME QueueInv, NEW a \in Approval, executed[a] > 0, UNCHANGED executed,
         \/ approval' = [approval EXCEPT ![a].result = TRUE] /\ UNCHANGED mishaps
         \/ UNCHANGED approval /\ Mishap
  PROVE  [Promise!Next]_(Promise!contractVars)
<1>1. CASE UNCHANGED approval /\ Mishap
  BY <1>1, RowsUnseen, FaultSeen
<1>2. CASE approval' = [approval EXCEPT ![a].result = TRUE] /\ UNCHANGED mishaps
  <2> DEFINE r == [approval[a] EXCEPT !.result = TRUE]
  <2>1. approval[a] \in RowType
    BY DEF QueueInv, QueueTypeOK, RowType
  <2>2. r \in RowType /\ r.status = approval[a].status /\ r.result
    BY <2>1, ResultStored
  <2>3. r.deadline = approval[a].deadline
    BY <2>1 DEF RowType
  <2>4. approval' = [approval EXCEPT ![a] = r]
    BY <1>2
  <2> HIDE DEF r
  <2>5. UNCHANGED Statuses /\ UNCHANGED PastDue /\ Results' = Results \union {a}
    <3>1. /\ r.status = approval[a].status => UNCHANGED Statuses
          /\ (r.deadline = "past" <=> approval[a].deadline = "past") => UNCHANGED PastDue
          /\ r.result => Results' = Results \union {a}
      BY <2>2, <2>4, RowSeen
    <3> QED BY <2>2, <2>3, <3>1
  <2>6. Promise!Answer(a)
    BY <1>2, <2>5 DEF Promise!Answer, Statuses, PastDue, Results
  <2> QED BY <2>6 DEF Promise!Next
<1> QED BY <1>1, <1>2

LEMMA DecisionSeen ==
  ASSUME QueueInv, DecideWrites
  PROVE  [Promise!Next]_(Promise!contractVars)
<1>1. UNCHANGED <<executed, mishaps>>
  BY DEF DecideWrites
<1>2. CASE approval[decider.id].status = "pending"
  <2>1. PICK a \in Approval, decision \in {"approved", "denied"} :
               a = decider.id /\ decision = decider.decision
    BY DEF QueueInv, QueueTypeOK
  <2> DEFINE r == [approval[a] EXCEPT !.status = decision]
  <2>2. approval[a] \in RowType
    BY DEF QueueInv, QueueTypeOK, RowType
  <2>3. r \in RowType /\ r.status = decision /\ r.deadline = approval[a].deadline
        /\ r.result = approval[a].result
    BY <2>2 DEF RowType
  <2>4. approval' = [approval EXCEPT ![a] = r]
    BY <1>2, <2>1 DEF DecideWrites
  <2> HIDE DEF r
  <2>5. /\ Statuses' = [Statuses EXCEPT ![a] = decision] /\ Statuses[a] = "pending"
        /\ UNCHANGED PastDue /\ UNCHANGED Results
    <3>1. /\ Statuses' = [Statuses EXCEPT ![a] = r.status] /\ Statuses[a] = approval[a].status
          /\ (r.deadline = "past" <=> approval[a].deadline = "past") => UNCHANGED PastDue
          /\ r.result = approval[a].result => UNCHANGED Results
      BY <2>3, <2>4, RowSeen
    <3> QED BY <1>2, <2>1, <2>3, <3>1
  <2>6. Promise!Decide(a, decision)
    BY <1>1, <2>5 DEF Promise!Decide, Statuses, PastDue, Results
  <2> QED BY <2>6 DEF Promise!Next
<1>3. CASE approval[decider.id].status # "pending"
  BY <1>1, <1>3, RowsUnseen, FaultSeen DEF DecideWrites
<1> QED BY <1>2, <1>3

LEMMA PassSeen ==
  ASSUME QueueInv, StartPass
  PROVE  Promise!Next
<1>1. ASSUME NEW b \in Approval
      PROVE  /\ approval'[b].status = IF b \in Overdue THEN "auto_approved" ELSE approval[b].status
             /\ approval'[b].deadline = approval[b].deadline
             /\ approval'[b].result = approval[b].result
  <2> DEFINE r == [approval[b] EXCEPT !.status = "auto_approved"]
  <2>1. approval[b] \in RowType
    BY DEF QueueInv, QueueTypeOK, RowType
  <2>2. r.status = "auto_approved" /\ r.deadline = approval[b].deadline
        /\ r.result = approval[b].result
    BY <2>1 DEF RowType
  <2>3. approval'[b] = IF b \in Overdue THEN r ELSE approval[b]
    BY DEF StartPass
  <2> HIDE DEF r
  <2> QED BY <2>2, <2>3
<1>2. UNCHANGED PastDue /\ UNCHANGED Results
  BY <1>1 DEF PastDue, Results
<1>3. Statuses' = [b \in Approval |-> IF Statuses[b] = "pending" /\ b \in PastDue
                                      THEN "auto_approved" ELSE Statuses[b]]
  BY <1>1 DEF Statuses, Overdue, PastDue
<1>4. Promise!DecideDue
  BY <1>2, <1>3 DEF StartPass, Promise!DecideDue, Statuses, PastDue, Results
<1> QED BY <1>4 DEF Promise!Next

LEMMA QueueStepSeen ==
  ASSUME QueueInv, QueueStep
  PROVE  [Promise!Next]_(Promise!contractVars)
<1>0. \A a \in Approval : RowInv(a) /\ executed[a] \in Nat
  BY DEF QueueInv, QueueTypeOK
<1>1. ASSUME NEW a \in Approval, QueueHeal(a) PROVE Promise!Next
  BY <1>1, InsertIsAsked DEF QueueHeal
<1>2. ASSUME NEW a \in Approval, RunApproved(a) PROVE Promise!Next
  <2>1. approval[a].status = "approved" /\ executed[a] = 0
    BY <1>0, <1>2 DEF RunApproved, RowInv
  <2>2. /\ UNCHANGED approval /\ executed' = [executed EXCEPT ![a] = @ + 1]
        /\ UNCHANGED mishaps \/ Mishap
    BY <1>2 DEF RunApproved
  <2> QED BY <2>1, <2>2, ExecutionSeen
<1>3. ASSUME NEW a \in Approval, StoreApproved(a)
      PROVE  [Promise!Next]_(Promise!contractVars)
  <2>1. executed[a] > 0
    BY <1>0, <1>3 DEF StoreApproved, RowInv
  <2> QED BY <1>3, <2>1, ResultSeen DEF StoreApproved
<1>4. ASSUME NEW a \in Approval, RunOverdue(a) PROVE Promise!Next
  <2>1. approval[a].status = "auto_approved" /\ ~approval[a].result /\ executed[a] <= mishaps
    BY <1>0, <1>4 DEF RunOverdue, RowInv
  <2>2. /\ UNCHANGED approval /\ executed' = [executed EXCEPT ![a] = @ + 1]
        /\ UNCHANGED mishaps \/ Mishap
    BY <1>4 DEF RunOverdue
  <2> QED BY <2>1, <2>2, ExecutionSeen
<1>5. ASSUME NEW a \in Approval, StoreOverdue(a)
      PROVE  [Promise!Next]_(Promise!contractVars)
  <2>1. executed[a] > 0
    BY <1>0, <1>5 DEF StoreOverdue, RowInv
  <2> QED BY <1>5, <2>1, ResultSeen DEF StoreOverdue
<1>6. ASSUME NEW a \in Approval, DeadlinePasses(a) PROVE Promise!Next
  <2> DEFINE r == [approval[a] EXCEPT !.deadline = "past"]
  <2>1. approval[a] \in RowType
    BY DEF QueueInv, QueueTypeOK, RowType
  <2>2. r \in RowType /\ r.status = approval[a].status /\ r.deadline = "past"
        /\ r.result = approval[a].result
    BY <2>1 DEF RowType
  <2>3. approval' = [approval EXCEPT ![a] = r] /\ UNCHANGED <<executed, mishaps>>
    BY <1>6 DEF DeadlinePasses
  <2> HIDE DEF r
  <2>4. UNCHANGED Statuses /\ PastDue' = PastDue \union {a} /\ UNCHANGED Results
    BY <2>2, <2>3, RowSeen
  <2>5. Promise!FallsDue(a)
    BY <2>3, <2>4 DEF Promise!FallsDue, Statuses, PastDue, Results
  <2> QED BY <2>5 DEF Promise!Next
<1>7. ASSUME \/ \E a \in Approval, decision \in {"approved", "denied"} : DecideReads(a, decision)
             \/ DecideFails \/ DecideActs \/ WindowOpens \/ WindowCloses
      PROVE  [Promise!Next]_(Promise!contractVars)
  <2>1. UNCHANGED approval /\ UNCHANGED executed /\ (UNCHANGED mishaps \/ Mishap)
    BY <1>7 DEF DecideReads, DecideFails, DecideActs, WindowOpens, WindowCloses
  <2> QED BY <2>1, RowsUnseen, FaultSeen
<1> QED
  BY <1>1, <1>2, <1>3, <1>4, <1>5, <1>6, <1>7, DecisionSeen, PassSeen DEF QueueStep

LEMMA SaveContextSeen ==
  ASSUME QueueInv, NEW w \in Worker, SaveContext(w)
  PROVE  [Promise!Next]_(Promise!contractVars)
<1>1. UNCHANGED executed /\ (UNCHANGED mishaps \/ Mishap)
  BY DEF SaveContext
<1>2. ASSUME NEW a \in Approval
      PROVE  /\ approval'[a].status = approval[a].status
             /\ approval'[a].deadline = approval[a].deadline
             /\ approval'[a].result = approval[a].result
  <2> DEFINE r == [approval[a] EXCEPT !.context = TRUE]
  <2>1. approval[a] \in RowType
    BY DEF QueueInv, QueueTypeOK, RowType
  <2>2. r.status = approval[a].status /\ r.deadline = approval[a].deadline
        /\ r.result = approval[a].result
    BY <2>1 DEF RowType
  <2>3. approval'[a] \in {r, approval[a]}
    BY DEF SaveContext
  <2> HIDE DEF r
  <2> QED BY <2>2, <2>3
<1>3. UNCHANGED <<Statuses, PastDue, Results>>
  BY <1>2 DEF Statuses, PastDue, Results
<1> QED BY <1>1, <1>3, FaultSeen

LEMMA WorkflowStepSeen ==
  ASSUME QueueInv, [WorkflowNext]_workflowVars
  PROVE  [Promise!Next]_(Promise!contractVars)
<1>1. ASSUME UNCHANGED <<approval, executed>>, UNCHANGED mishaps \/ Mishap
      PROVE  [Promise!Next]_(Promise!contractVars)
  BY <1>1, RowsUnseen, FaultSeen
<1>2. ASSUME NEW w \in Worker, RunGate(w) PROVE [Promise!Next]_(Promise!contractVars)
  <2>1. CASE UNCHANGED approval
    BY <1>1, <1>2, <2>1 DEF RunGate
  <2>2. CASE approval' # approval
    BY <1>2, <2>2, InsertIsAsked DEF RunGate
  <2> QED BY <2>1, <2>2
<1>3. ASSUME NEW w \in Worker, Works(w), ~RunGate(w), ~SaveContext(w) PROVE UNCHANGED queueVars
  BY <1>3 DEF Works, StopNode, RunCondition, RunNotification, RunParallel, RunAction, RunDelay,
              NodeJobEnds, Wakes, queueVars
<1>4. CASE DecideResumes \/ Crash
  BY <1>1, <1>4 DEF DecideResumes, Crash, QueueCrash
<1>5. CASE ChainStep
  BY <1>1, <1>5 DEF ChainStep, SkipStep, SubmitStep, StepRefused, LastStepEnds, StepDone,
                    StepFails, queueVars
<1>6. ASSUME UNCHANGED queueVars PROVE [Promise!Next]_(Promise!contractVars)
  BY <1>1, <1>6 DEF queueVars
<1>7. CASE UNCHANGED workflowVars
  BY <1>6, <1>7 DEF workflowVars
<1> QED
  BY <1>2, <1>3, <1>4, <1>5, <1>6, <1>7, QueueStepSeen, SaveContextSeen DEF WorkflowNext

\* The queue, seen by whoever asks for approval, is ApprovalContract, for any
\* approvals, any graph whose gates ask, and any number of faults.
THEOREM PromiseIsKept == WorkflowSpec => KeepsPromise
<1>1. WorkflowInit => Promise!Init
  <2> SUFFICES ASSUME WorkflowInit PROVE Promise!Init
    OBVIOUS
  <2>1. \A a \in Approval : /\ approval[a].status = "none" /\ approval[a].deadline = "none"
                            /\ approval[a].result = FALSE
    BY DEF WorkflowInit, QueueInit, NoRow
  <2> QED BY <2>1 DEF WorkflowInit, QueueInit, Promise!Init
<1>2. WorkflowInv /\ [WorkflowNext]_workflowVars => [Promise!Next]_(Promise!contractVars)
  BY WorkflowStepSeen DEF WorkflowInv
<1> QED BY <1>1, <1>2, WorkflowInvHolds, PTL DEF WorkflowSpec, KeepsPromise, Promise!Spec

-----------------------------------------------------------------------------
(* Types, and how often a step is tried. *)

\* A step of a fan is begun once and in its turn.  Each attempt at a step of a
\* chain, but the one to come, began it once; no later step was begun.
ChainInv ==
    /\ kind \in {"graph", "chain", "fan"}
    /\ chain \in [step : 1..Steps + 1, attempt : 0..Retries, mode : {"submit", "job", "stopped"}]
    /\ begun \in [Step -> 0..Retries + 1]
    /\ chain.mode = "job" => chain.step \in Step
    /\ kind = "fan" => /\ chain.mode # "job"
                       /\ \A i \in Step : begun[i] <= IF i < chain.step THEN 1 ELSE 0
    /\ kind # "fan" =>
         \A i \in Step : /\ i > chain.step => begun[i] = 0
                         /\ i = chain.step =>
                              begun[i] <= chain.attempt + IF chain.mode = "submit" THEN 0 ELSE 1

LEMMA ChainInitInv == WorkflowInit => ChainInv
BY WorkflowAssumption DEF WorkflowAssumption, WorkflowInit, ChainInv, Step

LEMMA ChainNextInv == ChainInv /\ [WorkflowNext]_workflowVars => ChainInv'
<1> SUFFICES ASSUME ChainInv, [WorkflowNext]_workflowVars PROVE ChainInv'
  OBVIOUS
<1> USE WorkflowAssumption DEF WorkflowAssumption, Step
<1>0. ASSUME chain.step \in Step, chain' = [step |-> chain.step + 1, attempt |-> 0, mode |-> "submit"],
             UNCHANGED <<kind, begun>>
      PROVE  ChainInv'
  <2>1. /\ chain' \in [step : 1..Steps + 1, attempt : 0..Retries, mode : {"submit", "job", "stopped"}]
        /\ chain'.step = chain.step + 1 /\ chain'.attempt = 0 /\ chain'.mode = "submit"
        /\ begun \in [Step -> 0..Retries + 1]
    BY <1>0 DEF ChainInv
  <2>2. kind = "fan" => \A i \in Step : begun[i] <= IF i < chain'.step THEN 1 ELSE 0
    BY <1>0, <2>1 DEF ChainInv
  <2>3. kind # "fan" => \A i \in Step : i >= chain'.step => begun[i] = 0
    BY <1>0, <2>1 DEF ChainInv
  <2> QED BY <1>0, <2>1, <2>2, <2>3 DEF ChainInv
<1>1. CASE SkipStep
  <2>1. chain' = [step |-> chain.step + 1, attempt |-> 0, mode |-> "submit"]
    BY <1>1 DEF SkipStep, ChainInv
  <2> QED BY <1>0, <1>1, <2>1 DEF SkipStep
<1>2. CASE SubmitStep
  <2>1. chain.step \in Step /\ begun[chain.step] \in 0..Retries
    BY <1>2 DEF SubmitStep, ChainInv
  <2>2. begun' \in [Step -> 0..Retries + 1]
    BY <1>2, <2>1 DEF SubmitStep, ChainInv
  <2>3. begun'[chain.step] = begun[chain.step] + 1 /\ UNCHANGED kind
        /\ \A i \in Step \ {chain.step} : begun'[i] = begun[i]
    BY <1>2, <2>1 DEF SubmitStep, ChainInv
  <2>4. CASE kind = "fan"
    <3>1. chain' = [chain EXCEPT !.step = @ + 1]
      BY <1>2, <2>4 DEF SubmitStep
    <3>2. /\ chain' \in [step : 1..Steps + 1, attempt : 0..Retries, mode : {"submit", "job", "stopped"}]
          /\ chain'.step = chain.step + 1 /\ chain'.mode = chain.mode
      BY <2>1, <3>1 DEF ChainInv
    <3>3. \A i \in Step : begun'[i] <= IF i < chain'.step THEN 1 ELSE 0
      BY <2>1, <2>3, <2>4, <3>2 DEF ChainInv
    <3> QED BY <1>2, <2>2, <2>3, <2>4, <3>2, <3>3 DEF SubmitStep, ChainInv
  <2>5. CASE kind # "fan"
    <3>1. chain' = [chain EXCEPT !.mode = "job"] /\ chain.mode = "submit"
      BY <1>2, <2>5 DEF SubmitStep
    <3>2. /\ chain' \in [step : 1..Steps + 1, attempt : 0..Retries, mode : {"submit", "job", "stopped"}]
          /\ chain'.step = chain.step /\ chain'.attempt = chain.attempt /\ chain'.mode = "job"
      BY <3>1 DEF ChainInv
    <3>3. \A i \in Step : /\ i > chain.step => begun'[i] = 0
                          /\ i = chain.step => begun'[i] <= chain.attempt + 1
      BY <2>1, <2>3, <2>5, <3>1 DEF ChainInv
    <3> QED BY <2>1, <2>2, <2>3, <2>5, <3>2, <3>3 DEF ChainInv
  <2> QED BY <2>4, <2>5
<1>3. CASE StepRefused
  BY <1>3 DEF StepRefused, ChainInv
<1>4. CASE LastStepEnds
  BY <1>4 DEF LastStepEnds, ChainInv
<1>5. CASE StepDone
  <2>1. chain.step \in Step
    BY <1>5 DEF StepDone, ChainInv
  <2> QED BY <1>0, <1>5, <2>1 DEF StepDone
<1>6. CASE StepFails
  <2>1. CASE chain.attempt < Retries
    <3>1. chain' = [step |-> chain.step, attempt |-> chain.attempt + 1, mode |-> "submit"]
      BY <1>6, <2>1 DEF StepFails, Retried, ChainInv
    <3> QED BY <1>6, <2>1, <3>1 DEF StepFails, ChainInv
  <2>2. CASE ~(chain.attempt < Retries)
    <3>1. chain' = [step |-> chain.step, attempt |-> chain.attempt, mode |-> "stopped"]
      BY <1>6, <2>2 DEF StepFails, Retried, ChainInv
    <3> QED BY <1>6, <2>2, <3>1 DEF StepFails, ChainInv
  <2> QED BY <2>1, <2>2
<1>7. CASE Crash
  BY <1>7 DEF Crash, ChainInv
<1>8. CASE UNCHANGED <<kind, chainVars>>
  BY <1>8 DEF chainVars, ChainInv
<1>9. ASSUME NEW w \in Worker, Works(w) PROVE UNCHANGED <<kind, chainVars>>
  BY <1>9 DEF Works, StopNode, RunCondition, RunNotification, RunParallel, RunAction, RunDelay,
              RunGate, Reaches, SaveContext, NodeJobEnds, Wakes
<1> QED
  BY <1>1, <1>2, <1>3, <1>4, <1>5, <1>6, <1>7, <1>8, <1>9
  DEF WorkflowNext, ChainStep, DecideResumes, chainVars, workflowVars

\* For any graph, chain or fan: the variables keep their types, and no step is
\* given to the job runner more often than once and once for every retry.
THEOREM WorkflowTypesHold == WorkflowSpec => []WorkflowTypeOK
<1>1. WorkflowSpec => []ChainInv
  BY ChainInitInv, ChainNextInv, PTL DEF WorkflowSpec
<1>2. WorkflowInv /\ ChainInv => WorkflowTypeOK
  <2> SUFFICES ASSUME WorkflowInv, ChainInv PROVE WorkflowTypeOK
    OBVIOUS
  <2>1. ASSUME NEW w \in Worker
        PROVE  /\ flow[w].mode \in {"idle", "run", "insert", "job", "sleep"}
               /\ flow[w].approval \subseteq Approval
               /\ \A i \in DOMAIN flow[w].stack : /\ flow[w].stack[i].node \in Node
                                                  /\ flow[w].stack[i].visited \subseteq Node
    <3>1. flow[w] \in ThreadOf(Node, GatedRows)
      BY DEF WorkflowInv, FlowInv, FlowTypeOK
    <3>2. \A i \in DOMAIN flow[w].stack : flow[w].stack[i] \in FrameOf(Node)
      BY <3>1, LenProperties, ElementOfSeq DEF ThreadOf
    <3> QED BY <3>1, <3>2 DEF ThreadOf, FrameOf, GatedRows
  <2> QED
    BY <2>1 DEF WorkflowInv, QueueInv, FlowInv, FlowTypeOK, ChainInv, WorkflowTypeOK
<1> QED BY <1>1, <1>2, WorkflowInvHolds, PTL
=============================================================================
