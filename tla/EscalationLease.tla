-------------------------- MODULE EscalationLease --------------------------
(***************************************************************************)
(* What the pipeline promises of the escalation of one correlation key,    *)
(* whichever threads carry it: an escalation is started only when the key  *)
(* has none, its step only ever rises and stays below the chain's end, and *)
(* once lost it stays in the way until the server restarts.                *)
(***************************************************************************)
EXTENDS Naturals

CONSTANTS Lease,     \* correlation keys
          EndOf      \* number of steps the chain of a key has

VARIABLES status, step

leaseVars == <<status, step>>

Init ==
  /\ status = [k \in Lease |-> "free"]
  /\ step = [k \in Lease |-> 0]

Claim(k) ==
  /\ status[k] = "free"
  /\ status' = [status EXCEPT ![k] = "held"]
  /\ UNCHANGED step

Escalate(k) ==
  /\ status[k] = "held"
  /\ \E s \in step[k] + 1 .. EndOf[k] - 1 : step' = [step EXCEPT ![k] = s]
  /\ UNCHANGED status

Free(k) ==
  /\ status[k] = "held"
  /\ status' = [status EXCEPT ![k] = "free"]
  /\ step' = [step EXCEPT ![k] = 0]

Lose(k) ==
  /\ status[k] = "held"
  /\ status' = [status EXCEPT ![k] = "lost"]
  /\ UNCHANGED step

\* The lease table is memory of the server process.
Reset ==
  /\ status' = [k \in Lease |-> "free"]
  /\ step' = [k \in Lease |-> 0]

Next ==
  \/ \E k \in Lease : Claim(k) \/ Escalate(k) \/ Free(k) \/ Lose(k)
  \/ Reset

Spec == Init /\ [][Next]_leaseVars
=============================================================================
