------------------------------- MODULE Alerts -------------------------------
(***************************************************************************)
(* Alert rules in alerts.py: evaluate_alert_rules runs in whichever thread *)
(* collects statistics, and in several at once.  For a rule whose          *)
(* condition holds it looks at the maintenance windows, then at the        *)
(* cooldown of AlertState, then notifies, which takes its time, and then   *)
(* inserts a row of alert_history, creates an incident and sends the heal  *)
(* event.  Escalation tiers are left out.                                  *)
(***************************************************************************)
EXTENDS Integers, FiniteSetsExt

CONSTANTS Rule,         \* alert rules
          Collector,    \* threads that collect statistics
          Cooldown,     \* NOTIFICATION_COOLDOWN
          AlertClock,   \* bound: the time
          AlertFaults   \* bound: rows that cannot be written, changes of windows

ASSUME AlertAssumption == {Cooldown, AlertClock} \subseteq Nat \ {0} /\ AlertFaults \in Nat

VARIABLES instant,     \* time
          windows,     \* active maintenance windows: their autonomy, whether they suppress
          sent,        \* _sent: when a rule last passed its cooldown, 0 if never
          collecting,  \* collectors: where they are with which rule
          fired,       \* alerts that passed the cooldown: when, whether notified, and the row
          found,       \* when a rule that is not disabled was last found to hold
          surprises

alertVars == <<instant, windows, sent, collecting, fired, found, surprises>>

AtRest == [at |-> "idle"]

AlertsTypeOK ==
    /\ instant \in 1..AlertClock
    /\ windows \in [disabled : BOOLEAN, suppress : BOOLEAN]
    /\ sent \in [Rule -> 0..AlertClock] /\ found \in [Rule -> 0..AlertClock]
    /\ \A c \in Collector : \/ collecting[c] = AtRest
                            \/ collecting[c].at \in {"rule", "notify"} /\ collecting[c].rule \in Rule
    /\ \A f \in fired : f.rule \in Rule /\ f.by \in Collector /\ f.at \in 1..AlertClock
    /\ surprises \in 0..AlertFaults

AlertInit ==
    /\ instant = 1 /\ windows = [disabled |-> FALSE, suppress |-> FALSE]
    /\ sent = [r \in Rule |-> 0] /\ found = [r \in Rule |-> 0]
    /\ collecting = [c \in Collector |-> AtRest] /\ fired = {} /\ surprises = 0

InstantPasses ==
    /\ instant < AlertClock /\ instant' = instant + 1
    /\ UNCHANGED <<windows, sent, collecting, fired, found, surprises>>

Surprise == surprises < AlertFaults /\ surprises' = surprises + 1

WindowsChange ==
    /\ Surprise
    /\ windows' \in [disabled : BOOLEAN, suppress : BOOLEAN] \ {windows}
    /\ UNCHANGED <<instant, sent, collecting, fired, found>>

-----------------------------------------------------------------------------
(* evaluate_alert_rules, one rule in one collector.                        *)

\* The condition holds, and the windows are asked for.
ConditionHolds(c, r) ==
    /\ collecting[c] = AtRest
    /\ collecting' = [collecting EXCEPT ![c] =
                         [at |-> "rule", rule |-> r, disabled |-> windows.disabled, suppress |-> windows.suppress]]
    /\ UNCHANGED <<instant, windows, sent, fired, found, surprises>>

\* cooldown_ok, a step under the lock: it is long enough since the rule was sent.
CooledDownSoon(r) == sent[r] = 0 \/ instant - sent[r] + 1 >= Cooldown

CooledDown(r) == sent[r] = 0 \/ instant - sent[r] >= Cooldown

SkipDisabledLate(c) ==
    /\ collecting[c].at = "rule" /\ collecting[c].disabled
    /\ collecting' = [collecting EXCEPT ![c] = AtRest]
    /\ LET r == collecting[c].rule
       IN sent' = IF CooledDown(r) THEN [sent EXCEPT ![r] = instant] ELSE sent
    /\ UNCHANGED <<instant, windows, fired, found, surprises>>

\* disabled: the rule is skipped before its cooldown is looked at.
SkipDisabled(c) ==
    /\ collecting[c].at = "rule" /\ collecting[c].disabled
    /\ collecting' = [collecting EXCEPT ![c] = AtRest]
    /\ UNCHANGED <<instant, windows, sent, fired, found, surprises>>

\* cooldown_ok passes: the alert is fired; whether it is notified depends on
\* the windows as they were.
Fire(c) ==
    /\ collecting[c].at = "rule" /\ ~collecting[c].disabled
    /\ LET r == collecting[c].rule
       IN /\ CooledDown(r)
          /\ sent' = [sent EXCEPT ![r] = instant] /\ found' = [found EXCEPT ![r] = instant]
          /\ fired' = fired \union {[rule |-> r, by |-> c, at |-> instant,
                                     notified |-> ~collecting[c].suppress, row |-> 0]}
    /\ collecting' = [collecting EXCEPT ![c].at = "notify"]
    /\ UNCHANGED <<instant, windows, surprises>>

\* It does not: another collector, or an earlier cycle, fired it.
Suppressed(c) ==
    /\ collecting[c].at = "rule" /\ ~collecting[c].disabled /\ ~CooledDown(collecting[c].rule)
    /\ found' = [found EXCEPT ![collecting[c].rule] = instant]
    /\ collecting' = [collecting EXCEPT ![c] = AtRest]
    /\ UNCHANGED <<instant, windows, sent, fired, surprises>>

\* The channels were told, each in its turn with its timeout; now the row is
\* inserted with the time it is.
RecordAlert(c, written) ==
    /\ collecting[c].at = "notify"
    /\ IF written THEN UNCHANGED surprises ELSE Surprise
    /\ \E f \in fired :
          /\ f.by = c /\ f.rule = collecting[c].rule /\ f.at = Max({g.at : g \in {g \in fired : g.by = c}})
          /\ fired' = IF written THEN (fired \ {f}) \union {[f EXCEPT !.row = instant]} ELSE fired
    /\ collecting' = [collecting EXCEPT ![c] = AtRest]
    /\ UNCHANGED <<instant, windows, sent, found>>

AlertNext ==
    \/ InstantPasses \/ WindowsChange
    \/ \E c \in Collector :
          \/ \E r \in Rule : ConditionHolds(c, r)
          \/ SkipDisabled(c) \/ Fire(c) \/ Suppressed(c)
          \/ \E written \in BOOLEAN : RecordAlert(c, written)

AlertSpec == AlertInit /\ [][AlertNext]_alertVars

-----------------------------------------------------------------------------
(* Properties. *)

\* However many collectors find a rule to hold at once, its alerts are fired a
\* cooldown apart: at most one of them notifies, inserts the row and sends the
\* heal event.
AlertsAreSpaced ==
    \A f, g \in fired : f.rule = g.rule /\ f # g =>
        f.at - g.at >= Cooldown \/ g.at - f.at >= Cooldown

\* A rule that was found to hold outside windows that disable it was fired no
\* longer than a cooldown before, whatever windows there were: a disabled rule
\* does not use up the cooldown of the time after.
FoundIsFired ==
    \A r \in Rule : found[r] # 0 =>
        \E f \in fired : f.rule = r /\ f.at =< found[r] /\ found[r] < f.at + Cooldown
=============================================================================
