----------------------------- MODULE AgentHeal -----------------------------
(***************************************************************************)
(* The heal runtime of an agent: HealRuntime of noba-agent/healing.py      *)
(* evaluates the rules that the server sends with the answer to a report,  *)
(* heals at once, and hands what it did to the next report, from which     *)
(* ingest_agent_heal_reports inserts it into the ledger.  The agent's main *)
(* loop is one thread: it drains its reports before it posts, and          *)
(* evaluates only after an answer.  A heal is executed, then verified with *)
(* fresh metrics, and only then becomes a report.                          *)
(***************************************************************************)
EXTENDS Naturals, FiniteSets

CONSTANTS HealRule,   \* rules whose chains have low-risk steps
          HealPause,  \* the cooldown of a rule
          Heals,      \* bound: heals
          HealClock,  \* bound: the clock
          HealFaults  \* bound: losses, late posts, restarts, failed policies and checks

ASSUME AgentHealAssumption == {HealPause, Heals, HealClock, HealFaults} \subseteq Nat

VARIABLES hour,      \* the clock
          trusted,   \* the rules at execute trust, on the server
          policy,    \* the rules at execute trust in the agent's policy
          firing,    \* rules whose condition holds on the agent's host
          resumes,   \* _cooldowns: when a rule may heal again
          beat,      \* the main loop: draining, waiting, in evaluate with the rules to
                     \* come and the time it began, verifying the last heal in it;
                     \* what it measured
          healed,    \* how many heals the agent made
          reports,   \* _reports
          posted,    \* reports on their way; the agent waits for the one "live"
          ledger,    \* heal_ledger: how often each heal is in it
          forgotten, \* heals whose check or report failed or was lost in a restart
          faulty

agentHealVars == <<hour, trusted, policy, firing, resumes, beat, healed, reports, posted, ledger,
                   forgotten, faulty>>

Heal == 1..Heals
Drained == [at |-> "report", rules |-> {}, since |-> 0, measured |-> {}]

AgentHealTypeOK ==
    /\ hour \in 0..HealClock /\ healed \in 0..Heals /\ faulty \in 0..HealFaults
    /\ {trusted, policy, firing} \subseteq SUBSET HealRule
    /\ resumes \in [HealRule -> 0..HealClock + HealPause]
    /\ beat \in [at : {"report", "wait", "evaluate", "verify"}, rules : SUBSET HealRule,
                 since : 0..HealClock, measured : SUBSET HealRule]
    /\ reports \subseteq Heal /\ forgotten \subseteq Heal
    /\ posted \subseteq [heals : SUBSET Heal, live : BOOLEAN]
    /\ ledger \in [Heal -> 0..2]

AgentHealInit ==
    /\ hour = 0 /\ healed = 0 /\ faulty = 0
    /\ trusted \in SUBSET HealRule /\ policy = {} /\ firing = {}
    /\ resumes = [r \in HealRule |-> 0]
    /\ beat = Drained /\ reports = {} /\ posted = {} /\ forgotten = {}
    /\ ledger = [h \in Heal |-> 0]

Fails == faulty < HealFaults /\ faulty' = faulty + 1

-----------------------------------------------------------------------------
(* The world and the operator. *)

HourPasses ==
    /\ hour < HealClock /\ hour' = hour + 1
    /\ UNCHANGED <<trusted, policy, firing, resumes, beat, healed, reports, posted, ledger,
                   forgotten, faulty>>

ConditionChanges(r) ==
    /\ firing' = IF r \in firing THEN firing \ {r} ELSE firing \union {r}
    /\ UNCHANGED <<hour, trusted, policy, resumes, beat, healed, reports, posted, ledger,
                   forgotten, faulty>>

TrustChanges(r) ==
    /\ Fails
    /\ trusted' = IF r \in trusted THEN trusted \ {r} ELSE trusted \union {r}
    /\ UNCHANGED <<hour, policy, firing, resumes, beat, healed, reports, posted, ledger,
                   forgotten>>

-----------------------------------------------------------------------------
(* Reports. *)

LeftAfterDraining == reports

\* What drain_reports leaves: nothing, whatever becomes of the post.
LeftInReports == {}

\* The main loop collects the metrics, drains the reports and posts them.
PostHeals ==
    /\ beat.at = "report" /\ \A p \in posted : ~p.live
    /\ posted' = posted \union {[heals |-> reports, live |-> TRUE]}
    /\ reports' = LeftInReports
    /\ beat' = [beat EXCEPT !.at = "wait", !.measured = firing]
    /\ UNCHANGED <<hour, trusted, policy, firing, resumes, healed, ledger, forgotten, faulty>>

\* update_policy, and the start of evaluate; a policy that could not be built is
\* empty, and the agent keeps the one it had.
Answered(rules) ==
    /\ policy' = rules
    /\ beat' = [beat EXCEPT !.at = "evaluate", !.rules = rules, !.since = hour]

\* api_agent_report builds the policy and inserts the heals, one by one; the
\* answer may be lost, or nobody may wait for it.
IngestHeals(p) ==
    /\ p \in posted /\ posted' = posted \ {p}
    /\ ledger' = [h \in Heal |-> ledger[h] + IF h \in p.heals THEN 1 ELSE 0]
    /\ \/ p.live /\ Answered(trusted) /\ UNCHANGED faulty
       \/ p.live /\ Fails /\ Answered(policy)
       \/ p.live /\ Fails /\ beat' = Drained /\ UNCHANGED policy
       \/ ~p.live /\ UNCHANGED <<beat, policy, faulty>>
    /\ UNCHANGED <<hour, trusted, firing, resumes, healed, reports, forgotten>>

\* An insertion fails and is logged: the heal is not in the ledger.
IngestFails(p, h) ==
    /\ p \in posted /\ p.live /\ h \in p.heals /\ Fails
    /\ posted' = posted \ {p}
    /\ ledger' = [i \in Heal |-> ledger[i] + IF i \in p.heals \ {h} THEN 1 ELSE 0]
    /\ forgotten' = forgotten \union {h}
    /\ Answered(trusted)
    /\ UNCHANGED <<hour, trusted, firing, resumes, healed, reports>>

\* The post fails for the agent: it is lost, or will be handled later.
PostFails(p) ==
    /\ p \in posted /\ p.live /\ Fails
    /\ posted' \in {posted \ {p}, (posted \ {p}) \union {[p EXCEPT !.live = FALSE]}}
    /\ forgotten' = IF posted' = posted \ {p} THEN forgotten \union p.heals ELSE forgotten
    /\ beat' = Drained
    /\ UNCHANGED <<hour, trusted, policy, firing, resumes, healed, reports, ledger>>

-----------------------------------------------------------------------------
(* evaluate. *)

Due(r) == r \in beat.rules \cap beat.measured /\ resumes[r] =< beat.since

\* A rule that is due is executed, as was measured before the report was posted;
\* the cooldown is counted from the start of the evaluation.  (The agent has a
\* command for each action that the policy takes in.)
HealRuleNow(r) ==
    /\ beat.at = "evaluate" /\ Due(r) /\ healed < Heals
    /\ resumes' = [resumes EXCEPT ![r] = beat.since + HealPause]
    /\ healed' = healed + 1
    /\ beat' = [beat EXCEPT !.at = "verify", !.rules = @ \ {r}]
    /\ UNCHANGED <<hour, trusted, policy, firing, reports, posted, ledger, forgotten, faulty>>

\* The heal that waits for verify_delay and is looked at with fresh metrics.
Verifying == IF beat.at = "verify" THEN {healed} ELSE {}

\* The metrics are collected again, and the heal becomes a report.
ReportHeal ==
    /\ beat.at = "verify"
    /\ reports' = reports \union Verifying
    /\ beat' = [beat EXCEPT !.at = "evaluate"]
    /\ UNCHANGED <<hour, trusted, policy, firing, resumes, healed, posted, ledger, forgotten,
                   faulty>>

\* collect_metrics raises: the main loop gives the evaluation up, the heal is
\* not reported and the rules to come are not looked at.
VerifyRaises ==
    /\ beat.at = "verify" /\ Fails
    /\ forgotten' = forgotten \union Verifying
    /\ beat' = Drained
    /\ UNCHANGED <<hour, trusted, policy, firing, resumes, healed, reports, posted, ledger>>

PassRule(r) ==
    /\ beat.at = "evaluate" /\ r \in beat.rules /\ ~Due(r)
    /\ beat' = [beat EXCEPT !.rules = @ \ {r}]
    /\ UNCHANGED <<hour, trusted, policy, firing, resumes, healed, reports, posted, ledger,
                   forgotten, faulty>>

EvaluationEnds ==
    /\ beat.at = "evaluate" /\ beat.rules = {}
    /\ beat' = Drained
    /\ UNCHANGED <<hour, trusted, policy, firing, resumes, healed, reports, posted, ledger,
                   forgotten, faulty>>

\* The agent restarts: policy, cooldowns and reports were in memory.
HealAgentRestarts ==
    /\ Fails
    /\ policy' = {} /\ resumes' = [r \in HealRule |-> 0] /\ beat' = Drained
    /\ forgotten' = forgotten \union reports \union Verifying /\ reports' = {}
    /\ posted' = {[p EXCEPT !.live = FALSE] : p \in posted}
    /\ UNCHANGED <<hour, trusted, firing, healed, ledger>>

AgentHealNext ==
    \/ HourPasses \/ PostHeals \/ ReportHeal \/ VerifyRaises \/ EvaluationEnds \/ HealAgentRestarts
    \/ \E r \in HealRule :
          ConditionChanges(r) \/ TrustChanges(r) \/ HealRuleNow(r) \/ PassRule(r)
    \/ \E p \in posted :
          IngestHeals(p) \/ PostFails(p) \/ \E h \in p.heals : IngestFails(p, h)

AgentHealSpec == AgentHealInit /\ [][AgentHealNext]_agentHealVars

-----------------------------------------------------------------------------
(* Properties. *)

\* A heal that an agent made is in the ledger once, and never twice, or it is on
\* its way there; unless its check or its report failed: the circuit breaker and
\* the success rates count what is in the ledger.  (What failed is not repeated.)
LedgeredOnce ==
    \A h \in 1..healed :
        /\ ledger[h] =< 1
        /\ ledger[h] = 1 \/ h \in Verifying \union reports \union forgotten \/ \E p \in posted : h \in p.heals
=============================================================================
