---------------------------- MODULE JobContract ----------------------------
(***************************************************************************)
(* What the runner promises whoever submits a job.  The job takes a slot,  *)
(* of which there are only so many, and keeps it while its work goes on.   *)
(* Its record says how it ended, once: that it is done if the work did     *)
(* well, that it was cancelled if somebody asked, that it ran out of time  *)
(* if it did, and not before the work has stopped.  The slot comes back    *)
(* with the record.  Three things are excepted: a record that the database *)
(* refuses to take is lost; work that no signal reaches, because it is     *)
(* privileged or because the server it belonged to died, is beyond the     *)
(* runner; and a job whose thread fails is recorded as failed, and its     *)
(* slot comes back, while the work it was dropped with goes on.            *)
(***************************************************************************)
EXTENDS Integers, FiniteSets

CONSTANTS Job, Limit

VARIABLES
  slots,   \* the jobs that hold one
  record,  \* "none", "running" or how the job ended
  lost,    \* the jobs of which a record was refused
  asked,   \* those somebody has asked to cancel
  late,    \* those whose time is up
  work     \* "none", "alive", "beyond" reach, "dropped", or how it exited

contractVars == <<slots, record, lost, asked, late, work>>

Ended == {"done", "failed", "timeout", "cancelled"}

Init ==
    /\ slots = {} /\ lost = {} /\ asked = {} /\ late = {}
    /\ record = [j \in Job |-> "none"] /\ work = [j \in Job |-> "none"]

Accept(j) ==
    /\ record[j] = "none" /\ Cardinality(slots) < Limit
    /\ slots' = slots \union {j}
    /\ record' = [record EXCEPT ![j] = "running"]
    /\ UNCHANGED <<lost, asked, late, work>>

Begin(j) ==
    /\ j \in slots /\ record[j] = "running" /\ work[j] = "none"
    /\ \E w \in {"alive", "beyond", "ok", "bad"} : work' = [work EXCEPT ![j] = w]
    /\ UNCHANGED <<slots, record, lost, asked, late>>

\* By itself, or killed.
Stop(j) ==
    /\ work[j] \in {"alive", "beyond", "dropped"}
    /\ \E w \in {"ok", "bad"} : work' = [work EXCEPT ![j] = w]
    /\ UNCHANGED <<slots, record, lost, asked, late>>

\* The job's thread fails, and nobody looks after the work any more.
DropWork(j) ==
    /\ j \in slots /\ record[j] = "running" /\ work[j] \in {"alive", "beyond"}
    /\ work' = [work EXCEPT ![j] = "dropped"]
    /\ UNCHANGED <<slots, record, lost, asked, late>>

Ask(j) == asked' = asked \union {j} /\ UNCHANGED <<slots, record, lost, late, work>>

TimeIsUp(j) == late' = late \union {j} /\ UNCHANGED <<slots, record, lost, asked, work>>

Settle(j, outcome) ==
    /\ j \in slots /\ record[j] = "running" /\ work[j] # "alive"
    /\ outcome = "done" => work[j] = "ok"
    /\ outcome = "cancelled" => j \in asked
    /\ outcome = "timeout" => j \in late
    /\ work[j] = "dropped" => outcome = "failed"
    /\ record' = [record EXCEPT ![j] = outcome]
    /\ UNCHANGED <<slots, lost, asked, late, work>>

Lose(j) ==
    /\ j \in slots /\ record[j] = "running" /\ work[j] # "alive"
    /\ lost' = lost \union {j}
    /\ UNCHANGED <<slots, record, asked, late, work>>

GiveBack(j) ==
    /\ j \in slots /\ work[j] # "alive"
    /\ record[j] \in Ended \/ j \in lost
    /\ slots' = slots \ {j}
    /\ UNCHANGED <<record, lost, asked, late, work>>

\* Nobody knows how what the dead server ran has ended.
Restart ==
    LET left == {j \in Job : record[j] = "running"} IN
    /\ slots' = {}
    /\ \/ record' = [j \in Job |-> IF j \in left THEN "failed" ELSE record[j]] /\ UNCHANGED lost
       \/ lost' = lost \union left /\ UNCHANGED record
    /\ work' = [j \in Job |-> IF work[j] = "alive" THEN "beyond" ELSE work[j]]
    /\ UNCHANGED <<asked, late>>

Next ==
    \/ \E j \in Job : \/ Accept(j) \/ Begin(j) \/ Stop(j) \/ DropWork(j) \/ Ask(j) \/ TimeIsUp(j)
                      \/ Lose(j) \/ GiveBack(j) \/ \E outcome \in Ended : Settle(j, outcome)
    \/ Restart

Spec == Init /\ [][Next]_contractVars
=============================================================================
