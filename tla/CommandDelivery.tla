-------------------------- MODULE CommandDelivery --------------------------
(***************************************************************************)
(* What the channel promises whoever gives an agent a command, whichever   *)
(* way the command goes and whatever is lost.  A command is carried out    *)
(* only after it was issued, and once; twice only if the connection it was *)
(* sent on broke, which leaves it in doubt.  Its caller is answered, and   *)
(* its row in the history says that it is done, only after it was carried  *)
(* out; an answer is not taken back, and neither is a row.                 *)
(*                                                                         *)
(* A report carries several results and a restart ends several callers, so *)
(* a step may move several commands, each by the rules; only one is        *)
(* carried out at a time.                                                  *)
(***************************************************************************)
EXTENDS Naturals

CONSTANT Order   \* the commands

VARIABLES caller,  \* "new", "open", "answered", or "left" without an answer
          runs,    \* how often a command was carried out
          doubt,   \* those whose connection broke
          record   \* the row in the history: "none", "queued", "done"

deliveryVars == <<caller, runs, doubt, record>>

Init ==
    /\ caller = [c \in Order |-> "new"]
    /\ runs = [c \in Order |-> 0]
    /\ doubt = {}
    /\ record = [c \in Order |-> "none"]

\* A command is issued; its caller waits or does not, gives up, or is answered.
CallerMoves(c) ==
    \/ caller'[c] = caller[c]
    \/ caller[c] = "new" /\ caller'[c] \in {"open", "left"}
    \/ caller[c] = "open" /\ caller'[c] = "left"
    \/ caller[c] = "open" /\ caller'[c] = "answered" /\ runs[c] > 0

RecordMoves(c) ==
    \/ record'[c] = record[c]
    \/ record[c] = "none" /\ record'[c] = "queued" /\ caller'[c] # "new"
    \/ record[c] = "queued" /\ record'[c] = "done" /\ runs[c] > 0

\* What is in doubt stays so, and was issued.
DoubtMoves(c) ==
    \/ c \in doubt <=> c \in doubt'
    \/ c \in doubt' \ doubt /\ caller'[c] # "new"

CarriedOut(c) ==
    /\ caller[c] # "new" /\ runs[c] < IF c \in doubt THEN 2 ELSE 1
    /\ runs' = [runs EXCEPT ![c] = @ + 1]

Next ==
    /\ caller' \in [Order -> {"new", "open", "answered", "left"}]
    /\ record' \in [Order -> {"none", "queued", "done"}]
    /\ doubt' \subseteq Order
    /\ \A c \in Order : CallerMoves(c) /\ RecordMoves(c) /\ DoubtMoves(c)
    /\ UNCHANGED runs \/ \E c \in Order : CarriedOut(c)

Spec == Init /\ [][Next]_deliveryVars
=============================================================================
