-------------------------- MODULE ApprovalContract --------------------------
(***************************************************************************)
(* What the approval queue promises of a row, whoever works on it.  It is  *)
(* decided once: by an operator, or by the queue itself when it is due and *)
(* still pending.  Its action is executed only after that: once if an      *)
(* operator approved it, and by the queue until a result is there, once    *)
(* more at most than there were faults.  A result is there only after the  *)
(* action was executed, and stays.                                         *)
(***************************************************************************)
EXTENDS Naturals

CONSTANT Row

VARIABLES
    status,  \* "none", "pending", or the decision
    due,     \* the rows whose deadline has passed
    runs,    \* how often the action of a row was executed
    results, \* the rows that have one
    faults   \* how many crashes, failed actions and failed writes there were

contractVars == <<status, due, runs, results, faults>>

Init ==
    /\ status = [r \in Row |-> "none"] /\ runs = [r \in Row |-> 0]
    /\ due = {} /\ results = {} /\ faults = 0

Ask(r) ==
    /\ status[r] = "none"
    /\ status' = [status EXCEPT ![r] = "pending"]
    /\ UNCHANGED <<due, runs, results, faults>>

FallsDue(r) == due' = due \union {r} /\ UNCHANGED <<status, runs, results, faults>>

Decide(r, decision) ==
    /\ status[r] = "pending"
    /\ status' = [status EXCEPT ![r] = decision]
    /\ UNCHANGED <<due, runs, results, faults>>

DecideDue ==
    /\ status' = [r \in Row |-> IF status[r] = "pending" /\ r \in due THEN "auto_approved"
                                ELSE status[r]]
    /\ UNCHANGED <<due, runs, results, faults>>

MayFail == faults' \in {faults, faults + 1}

Execute(r) ==
    /\ \/ status[r] = "approved" /\ runs[r] = 0
       \/ status[r] = "auto_approved" /\ r \notin results /\ runs[r] <= faults
    /\ runs' = [runs EXCEPT ![r] = @ + 1]
    /\ MayFail /\ UNCHANGED <<status, due, results>>

Answer(r) ==
    /\ runs[r] > 0
    /\ results' = results \union {r}
    /\ UNCHANGED <<status, due, runs, faults>>

Fault == faults' = faults + 1 /\ UNCHANGED <<status, due, runs, results>>

Next ==
    \/ \E r \in Row : \/ Ask(r) \/ FallsDue(r) \/ Execute(r) \/ Answer(r)
                      \/ \E decision \in {"approved", "denied"} : Decide(r, decision)
    \/ DecideDue \/ Fault

Spec == Init /\ [][Next]_contractVars
=============================================================================
