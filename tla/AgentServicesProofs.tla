------------------------ MODULE AgentServicesProofs -------------------------
(***************************************************************************)
(* What the agent does besides its command channel, for every value of     *)
(* the bounds: heals are in the ledger once, remote desktop viewers are    *)
(* served, uploads are whole, and the lines of a log stream come in        *)
(* order.                                                                  *)
(***************************************************************************)
EXTENDS AgentHeal, RemoteDesktop, Transfers, LogStreams, SequenceTheorems, FiniteSetTheorems, TLAPS, Extremes

-----------------------------------------------------------------------------
(***************************************************************************)
(* Heals of the agent.  A heal is in one place at a time: in its check,    *)
(* among the reports that the agent keeps, in one report on its way, or in the       *)
(* ledger; every step moves it on, forgets it, or leaves it where it is.   *)
(***************************************************************************)

AgentHealTypes ==
    /\ healed \in 0..Heals
    /\ reports \subseteq 1..healed
    /\ \A p \in posted : p = [heals |-> p.heals, live |-> p.live] /\ p.heals \subseteq 1..healed
    /\ ledger \in [Heal -> {0, 1}]
    /\ beat = [at |-> beat.at, rules |-> beat.rules, since |-> beat.since,
               measured |-> beat.measured]

\* One report at most has a sender that waits for its answer.
OneIsAwaited ==
    \A p \in posted : p.live => beat.at = "wait" /\ \A q \in posted : q.live => p = q

\* The heal that is verified is neither kept, nor on its way, nor in the ledger.
VerifiedIsApart ==
    beat.at = "verify" =>
        /\ healed \in Heal /\ healed \notin reports /\ ledger[healed] = 0
        /\ \A p \in posted : healed \notin p.heals

\* What the agent keeps is neither on its way nor in the ledger.
KeptIsApart == \A h \in reports : ledger[h] = 0 /\ \A p \in posted : h \notin p.heals

\* What is on its way is there once, and not in the ledger.
PostedIsApart ==
    \A p \in posted : \A h \in p.heals :
        ledger[h] = 0 /\ \A q \in posted : h \in q.heals => q = p

\* A heal that is yet to come is not in the ledger.
NothingForeseen == \A h \in Heal : h > healed => ledger[h] = 0

AgentHealInv ==
    /\ AgentHealTypes /\ OneIsAwaited /\ VerifiedIsApart /\ KeptIsApart /\ PostedIsApart
    /\ NothingForeseen /\ LedgeredOnce

LEMMA HealsAreInHeal ==
    ASSUME AgentHealTypes
    PROVE  1..healed \subseteq Heal /\ Heals \in Nat /\ healed \in Nat
  BY AgentHealAssumption DEF AgentHealTypes, Heal

LEMMA AgentHealInitOK == AgentHealInit => AgentHealInv
  BY AgentHealAssumption DEF AgentHealInit, AgentHealInv, AgentHealTypes, OneIsAwaited, VerifiedIsApart,
     KeptIsApart, PostedIsApart, NothingForeseen, LedgeredOnce, Verifying, Heal, Drained

\* Where the heals are.
places == <<healed, reports, posted, ledger, forgotten>>

LEMMA PlacesKept ==
    ASSUME AgentHealInv, UNCHANGED places,
           beat' = [at |-> beat'.at, rules |-> beat'.rules, since |-> beat'.since,
                    measured |-> beat'.measured],
           beat'.at = beat.at \/ {beat.at, beat'.at} \subseteq {"report", "evaluate"}
    PROVE  AgentHealInv'
  BY DEF AgentHealInv, AgentHealTypes, OneIsAwaited, VerifiedIsApart, KeptIsApart, PostedIsApart,
     NothingForeseen, LedgeredOnce, Verifying, places

LEMMA PostHealsKeeps ==
    ASSUME AgentHealInv, PostHeals
    PROVE  AgentHealInv'
<1> DEFINE p == [heals |-> reports, live |-> TRUE]
<1>1. /\ posted' = posted \union {p} /\ reports' = {} /\ \A q \in posted : ~q.live
      /\ UNCHANGED <<healed, ledger, forgotten>> /\ beat.at = "report"
  BY DEF PostHeals, LeftInReports
<1>0. /\ beat'.at = "wait"
      /\ beat' = [at |-> beat'.at, rules |-> beat'.rules, since |-> beat'.since,
                  measured |-> beat'.measured]
  BY DEF PostHeals, AgentHealInv, AgentHealTypes
<1>2. p.heals = reports /\ p = [heals |-> p.heals, live |-> p.live]
  OBVIOUS
<1> HIDE DEF p
<1>3. AgentHealTypes' /\ OneIsAwaited' /\ VerifiedIsApart'
  BY <1>0, <1>1, <1>2 DEF AgentHealInv, AgentHealTypes, OneIsAwaited, VerifiedIsApart
<1>4. KeptIsApart' /\ NothingForeseen'
  BY <1>1 DEF AgentHealInv, KeptIsApart, NothingForeseen
<1>5. PostedIsApart'
  BY <1>1, <1>2 DEF AgentHealInv, KeptIsApart, PostedIsApart
<1>6. LedgeredOnce'
  BY <1>0, <1>1, <1>2 DEF AgentHealInv, LedgeredOnce, Verifying
<1> QED BY <1>3, <1>4, <1>5, <1>6 DEF AgentHealInv

\* The heals of a report are inserted, all of them or all but some.
LEMMA IngestKeeps ==
    ASSUME AgentHealInv, NEW p \in posted, NEW lost \in SUBSET p.heals,
           posted' = posted \ {p},
           ledger' = [h \in Heal |-> ledger[h] + IF h \in p.heals \ lost THEN 1 ELSE 0],
           forgotten' = forgotten \union lost,
           UNCHANGED <<healed, reports>>,
           beat' = [at |-> beat'.at, rules |-> beat'.rules, since |-> beat'.since,
                    measured |-> beat'.measured],
           p.live => beat'.at \in {"report", "evaluate"}, ~p.live => UNCHANGED beat
    PROVE  AgentHealInv'
<1>0. /\ beat'.at = "verify" <=> beat.at = "verify"
      /\ OneIsAwaited'
  BY DEF AgentHealInv, OneIsAwaited
<1>1. \A h \in Heal : h \in p.heals => ledger[h] = 0
  BY DEF AgentHealInv, PostedIsApart
<1>2. \A h \in Heal : ledger[h] \in {0, 1}
  BY DEF AgentHealInv, AgentHealTypes
<1>3. \A h \in Heal : ledger'[h] = IF h \in p.heals \ lost THEN 1 ELSE ledger[h]
  BY <1>1, <1>2
<1>4. AgentHealTypes'
  <2>1. ledger' \in [Heal -> {0, 1}]
    <3>1. \A h \in Heal : ledger'[h] \in {0, 1}
      BY <1>2, <1>3
    <3>2. ledger' = [h \in Heal |-> ledger'[h]]
      OBVIOUS
    <3> QED BY <3>1, <3>2
  <2> QED BY <2>1 DEF AgentHealInv, AgentHealTypes
<1>5. 1..healed \subseteq Heal /\ healed \in Nat
  BY HealsAreInHeal DEF AgentHealInv
<1>6. KeptIsApart'
  BY <1>3, <1>5 DEF AgentHealInv, AgentHealTypes, KeptIsApart
<1>7. PostedIsApart'
  BY <1>3, <1>5 DEF AgentHealInv, AgentHealTypes, PostedIsApart
<1>8. NothingForeseen' /\ VerifiedIsApart'
  BY <1>0, <1>3, <1>5 DEF AgentHealInv, AgentHealTypes, NothingForeseen, VerifiedIsApart, Heal
<1>9. LedgeredOnce'
  <2> SUFFICES ASSUME NEW h \in 1..healed
               PROVE  /\ ledger'[h] =< 1
                      /\ \/ ledger'[h] = 1 \/ h \in Verifying' \union reports' \union forgotten'
                         \/ \E q \in posted' : h \in q.heals
    BY DEF LedgeredOnce
  <2>0. Verifying' = Verifying
    BY <1>0 DEF Verifying
  <2>1. h \in Heal
    BY <1>5
  <2>2. ledger'[h] =< 1
    BY <1>2, <1>3, <2>1
  <2>3. ledger[h] = 1 \/ h \in Verifying \union reports \union forgotten \/ \E q \in posted : h \in q.heals
    BY DEF AgentHealInv, LedgeredOnce
  <2>4. CASE h \in p.heals
    BY <1>3, <2>1, <2>2, <2>4
  <2>5. CASE h \notin p.heals
    BY <1>3, <2>0, <2>1, <2>2, <2>3, <2>5
  <2> QED BY <2>4, <2>5
<1> QED BY <1>0, <1>4, <1>6, <1>7, <1>8, <1>9 DEF AgentHealInv

\* A report that fails goes on without its sender, or its heals are forgotten;
\* so do all reports when the agent restarts, which forgets what it keeps; and a
\* check that raises forgets its heal.  The main loop starts anew.
LEMMA ReportsFailSafely ==
    ASSUME AgentHealInv, UNCHANGED <<healed, ledger>>,
           reports' \subseteq reports, forgotten \subseteq forgotten',
           reports \ reports' \subseteq forgotten', Verifying \subseteq forgotten',
           beat' = Drained, \A p \in posted' : ~p.live,
           \A p \in posted' : \E q \in posted : p = q \/ p = [q EXCEPT !.live = FALSE],
           \A p, q \in posted' : \A h \in p.heals : h \in q.heals => p = q,
           \A q \in posted : q.heals \subseteq forgotten' \/ \E p \in posted' : p.heals = q.heals
    PROVE  AgentHealInv'
<1>1. ASSUME NEW p \in posted'
      PROVE  /\ p = [heals |-> p.heals, live |-> p.live]
             /\ \E q \in posted : p.heals = q.heals
  <2>1. PICK q \in posted : p = q \/ p = [q EXCEPT !.live = FALSE]
    OBVIOUS
  <2>2. q = [heals |-> q.heals, live |-> q.live]
    BY DEF AgentHealInv, AgentHealTypes
  <2> QED BY <2>1, <2>2
<1>2. AgentHealTypes' /\ OneIsAwaited' /\ VerifiedIsApart'
  BY <1>1 DEF AgentHealInv, AgentHealTypes, OneIsAwaited, VerifiedIsApart, Drained
<1>3. KeptIsApart'
  BY <1>1 DEF AgentHealInv, KeptIsApart
<1>4. PostedIsApart'
  BY <1>1 DEF AgentHealInv, PostedIsApart
<1>5. NothingForeseen'
  BY DEF AgentHealInv, NothingForeseen
<1>6. LedgeredOnce'
  <2> SUFFICES ASSUME NEW h \in 1..healed
               PROVE  /\ ledger[h] =< 1
                      /\ \/ ledger[h] = 1 \/ h \in Verifying' \union reports' \union forgotten'
                         \/ \E q \in posted' : h \in q.heals
    BY DEF LedgeredOnce
  <2>1. /\ ledger[h] =< 1
        /\ ledger[h] = 1 \/ h \in Verifying \union reports \union forgotten \/ \E q \in posted : h \in q.heals
    BY DEF AgentHealInv, LedgeredOnce
  <2> QED BY <2>1
<1> QED BY <1>2, <1>3, <1>4, <1>5, <1>6 DEF AgentHealInv

LEMMA HealKeeps ==
    ASSUME AgentHealInv, NEW r \in HealRule, HealRuleNow(r)
    PROVE  AgentHealInv'
<1>1. /\ healed < Heals /\ healed' = healed + 1
      /\ UNCHANGED <<reports, posted, ledger, forgotten>>
      /\ beat.at = "evaluate"
  BY DEF HealRuleNow
<1>0. /\ beat'.at = "verify"
      /\ beat' = [at |-> beat'.at, rules |-> beat'.rules, since |-> beat'.since,
                  measured |-> beat'.measured]
  BY DEF HealRuleNow, AgentHealInv, AgentHealTypes
<1>2. healed \in Nat /\ Heals \in Nat /\ 1..healed \subseteq 1..healed' /\ healed + 1 \in Heal
  BY <1>1, HealsAreInHeal DEF AgentHealInv, Heal
<1>3. AgentHealTypes' /\ OneIsAwaited'
  BY <1>0, <1>1, <1>2 DEF AgentHealInv, AgentHealTypes, OneIsAwaited
<1>4. /\ ledger[healed + 1] = 0 /\ \A p \in posted : healed + 1 \notin p.heals
      /\ healed + 1 \notin reports
  BY <1>2 DEF AgentHealInv, NothingForeseen, AgentHealTypes
<1>5. KeptIsApart' /\ VerifiedIsApart'
  BY <1>1, <1>2, <1>4 DEF AgentHealInv, KeptIsApart, VerifiedIsApart
<1>6. PostedIsApart' /\ NothingForeseen'
  BY <1>1, <1>2 DEF AgentHealInv, PostedIsApart, NothingForeseen, Heal
<1>7. LedgeredOnce'
  <2>1. \A h \in 1..healed' : h \in 1..healed \/ h = healed + 1
    BY <1>1, <1>2
  <2>2. Verifying = {} /\ Verifying' = {healed + 1}
    BY <1>0, <1>1 DEF Verifying
  <2> QED BY <1>1, <1>4, <2>1, <2>2 DEF AgentHealInv, LedgeredOnce
<1> QED BY <1>3, <1>5, <1>6, <1>7 DEF AgentHealInv

LEMMA ReportKeeps ==
    ASSUME AgentHealInv, ReportHeal
    PROVE  AgentHealInv'
<1>1. /\ reports' = reports \union {healed} /\ beat.at = "verify"
      /\ UNCHANGED <<healed, posted, ledger, forgotten>>
  BY DEF ReportHeal, Verifying
<1>2. /\ beat'.at = "evaluate"
      /\ beat' = [at |-> beat'.at, rules |-> beat'.rules, since |-> beat'.since,
                  measured |-> beat'.measured]
  BY DEF ReportHeal, AgentHealInv, AgentHealTypes
<1>3. /\ healed \in 1..healed /\ ledger[healed] = 0
      /\ \A p \in posted : healed \notin p.heals
  BY <1>1 DEF AgentHealInv, VerifiedIsApart, Heal
<1>4. AgentHealTypes' /\ OneIsAwaited' /\ VerifiedIsApart'
  BY <1>1, <1>2, <1>3 DEF AgentHealInv, AgentHealTypes, OneIsAwaited, VerifiedIsApart
<1>5. KeptIsApart' /\ PostedIsApart' /\ NothingForeseen'
  BY <1>1, <1>3 DEF AgentHealInv, KeptIsApart, PostedIsApart, NothingForeseen
<1>6. LedgeredOnce'
  BY <1>1, <1>2 DEF AgentHealInv, LedgeredOnce, Verifying
<1> QED BY <1>4, <1>5, <1>6 DEF AgentHealInv

LEMMA AgentHealStep ==
    ASSUME AgentHealInv, [AgentHealNext]_agentHealVars
    PROVE  AgentHealInv'
<1>1. ASSUME \/ HourPasses \/ EvaluationEnds \/ UNCHANGED agentHealVars
             \/ \E r \in HealRule : ConditionChanges(r) \/ TrustChanges(r) \/ PassRule(r)
      PROVE  AgentHealInv'
  <2>1. UNCHANGED places
    BY <1>1 DEF HourPasses, EvaluationEnds, ConditionChanges, TrustChanges, PassRule, places,
       agentHealVars
  <2>2. /\ beat' = [at |-> beat'.at, rules |-> beat'.rules, since |-> beat'.since,
                    measured |-> beat'.measured]
        /\ beat'.at = beat.at \/ {beat.at, beat'.at} \subseteq {"report", "evaluate"}
    <3>1. CASE EvaluationEnds
      BY <3>1 DEF EvaluationEnds, Drained
    <3>2. CASE UNCHANGED beat
      BY <3>2 DEF AgentHealInv, AgentHealTypes
    <3>3. ASSUME NEW r \in HealRule, PassRule(r)
          PROVE  /\ beat' = [at |-> beat'.at, rules |-> beat'.rules, since |-> beat'.since,
                             measured |-> beat'.measured]
                 /\ beat'.at = beat.at
      BY <3>3 DEF PassRule, AgentHealInv, AgentHealTypes
    <3>4. HourPasses \/ UNCHANGED agentHealVars => UNCHANGED beat
      BY DEF HourPasses, agentHealVars
    <3>5. ASSUME NEW r \in HealRule, ConditionChanges(r) \/ TrustChanges(r) PROVE UNCHANGED beat
      BY <3>5 DEF ConditionChanges, TrustChanges
    <3> QED BY <1>1, <3>1, <3>2, <3>3, <3>4, <3>5
  <2> QED BY <2>1, <2>2, PlacesKept
<1>2. ASSUME NEW p \in posted, IngestHeals(p)
      PROVE  AgentHealInv'
  <2> DEFINE lost == {}
  <2>1. lost \in SUBSET p.heals /\ forgotten' = forgotten \union lost /\ p.heals = p.heals \ lost
    BY <1>2 DEF IngestHeals
  <2>2. /\ posted' = posted \ {p} /\ UNCHANGED <<healed, reports>>
        /\ ledger' = [h \in Heal |-> ledger[h] + IF h \in p.heals THEN 1 ELSE 0]
    BY <1>2 DEF IngestHeals
  <2>3. ledger' = [h \in Heal |-> ledger[h] + IF h \in p.heals \ lost THEN 1 ELSE 0]
    BY <2>2
  <2>4. /\ p.live => beat'.at \in {"report", "evaluate"}
        /\ ~p.live => UNCHANGED beat
        /\ beat' = [at |-> beat'.at, rules |-> beat'.rules, since |-> beat'.since,
                    measured |-> beat'.measured]
    <3>1. beat = [at |-> beat.at, rules |-> beat.rules, since |-> beat.since,
                  measured |-> beat.measured]
      BY DEF AgentHealInv, AgentHealTypes
    <3>2. \/ p.live /\ \E rules : Answered(rules)
          \/ p.live /\ beat' = Drained
          \/ ~p.live /\ UNCHANGED beat
      BY <1>2 DEF IngestHeals
    <3>3. ASSUME NEW rules, Answered(rules)
          PROVE  /\ beat'.at = "evaluate"
                 /\ beat' = [at |-> beat'.at, rules |-> beat'.rules, since |-> beat'.since,
                             measured |-> beat'.measured]
      BY <3>1, <3>3 DEF Answered
    <3>4. ASSUME beat' = Drained
          PROVE  /\ beat'.at = "report"
                 /\ beat' = [at |-> beat'.at, rules |-> beat'.rules, since |-> beat'.since,
                             measured |-> beat'.measured]
      BY <3>4 DEF Drained
    <3> QED BY <3>1, <3>2, <3>3, <3>4
  <2> HIDE DEF lost
  <2> QED BY <2>1, <2>2, <2>3, <2>4, IngestKeeps
<1>3. ASSUME NEW p \in posted, NEW h \in p.heals, IngestFails(p, h)
      PROVE  AgentHealInv'
  <2>1. {h} \in SUBSET p.heals
    OBVIOUS
  <2>2. /\ posted' = posted \ {p} /\ UNCHANGED <<healed, reports>>
        /\ ledger' = [i \in Heal |-> ledger[i] + IF i \in p.heals \ {h} THEN 1 ELSE 0]
        /\ forgotten' = forgotten \union {h}
    BY <1>3 DEF IngestFails
  <2>3. /\ p.live /\ beat'.at = "evaluate"
        /\ beat' = [at |-> beat'.at, rules |-> beat'.rules, since |-> beat'.since,
                    measured |-> beat'.measured]
    BY <1>3 DEF IngestFails, Answered, AgentHealInv, AgentHealTypes
  <2> QED BY <2>1, <2>2, <2>3, IngestKeeps
<1>4. ASSUME NEW p \in posted, PostFails(p)
      PROVE  AgentHealInv'
  <2> DEFINE q == [p EXCEPT !.live = FALSE]
  <2>1. q.heals = p.heals
    BY DEF AgentHealInv, AgentHealTypes
  <2>2. /\ posted' = posted \ {p} \/ posted' = (posted \ {p}) \union {q}
        /\ posted' = posted \ {p} => p.heals \subseteq forgotten'
        /\ forgotten \subseteq forgotten'
        /\ UNCHANGED <<healed, reports, ledger>> /\ beat' = Drained /\ p.live
    BY <1>4 DEF PostFails
  <2>6. ~q.live
    BY DEF AgentHealInv, AgentHealTypes
  <2>3. \A o \in posted' : \E s \in posted : o = s \/ o = [s EXCEPT !.live = FALSE]
    BY <2>2
  <2> HIDE DEF q
  <2>4. \A o, s \in posted' : \A h \in o.heals : h \in s.heals => o = s
    BY <2>1, <2>2 DEF AgentHealInv, PostedIsApart
  <2>5. \A s \in posted : s.heals \subseteq forgotten' \/ \E o \in posted' : o.heals = s.heals
    BY <2>1, <2>2
  <2>7. Verifying = {} /\ \A s \in posted' : ~s.live
    BY <2>2, <2>6 DEF AgentHealInv, OneIsAwaited, Verifying
  <2> QED BY <2>2, <2>3, <2>4, <2>5, <2>7, ReportsFailSafely
<1>5. CASE HealAgentRestarts
  <2> DEFINE Late(p) == [p EXCEPT !.live = FALSE]
  <2>1. \A p \in posted : Late(p).heals = p.heals /\ ~Late(p).live
    BY DEF AgentHealInv, AgentHealTypes
  <2>2. /\ posted' = {Late(p) : p \in posted}
        /\ forgotten' = forgotten \union reports \union Verifying /\ reports' = {}
        /\ UNCHANGED <<healed, ledger>> /\ beat' = Drained
    BY <1>5 DEF HealAgentRestarts
  <2>3. \A o \in posted' : \E s \in posted : o = s \/ o = [s EXCEPT !.live = FALSE]
    BY <2>2
  <2> HIDE DEF Late
  <2>4. \A o, s \in posted' : \A h \in o.heals : h \in s.heals => o = s
    BY <2>1, <2>2 DEF AgentHealInv, PostedIsApart
  <2>5. \A s \in posted : s.heals \subseteq forgotten' \/ \E o \in posted' : o.heals = s.heals
    BY <2>1, <2>2
  <2>6. \A o \in posted' : ~o.live
    BY <2>1, <2>2
  <2> QED BY <2>2, <2>3, <2>4, <2>5, <2>6, ReportsFailSafely
<1>6. CASE VerifyRaises
  <2>1. /\ forgotten' = forgotten \union Verifying /\ beat.at = "verify" /\ beat' = Drained
        /\ UNCHANGED <<healed, reports, posted, ledger>>
    BY <1>6 DEF VerifyRaises
  <2>2. /\ \A p \in posted' : ~p.live
        /\ \A p, q \in posted' : \A h \in p.heals : h \in q.heals => p = q
    BY <2>1 DEF AgentHealInv, OneIsAwaited, PostedIsApart
  <2> QED BY <2>1, <2>2, ReportsFailSafely
<1> QED BY <1>1, <1>2, <1>3, <1>4, <1>5, <1>6, PostHealsKeeps, HealKeeps, ReportKeeps DEF AgentHealNext

\* The ledger that success rates and the circuit breaker count has every heal of
\* an agent once, or it is on its way or was lost with its check or its report:
\* whatever reports were late or failed, insertions and checks failed and
\* restarts came between.
THEOREM HealsAreLedgeredOnce == AgentHealSpec => []LedgeredOnce
<1>1. AgentHealInv => LedgeredOnce
  BY DEF AgentHealInv
<1> QED BY <1>1, AgentHealInitOK, AgentHealStep, PTL DEF AgentHealSpec

-----------------------------------------------------------------------------
(***************************************************************************)
(* Remote desktop.  The numbers of the connections do the work: what was   *)
(* asked on an earlier connection, or is still registered from one, is     *)
(* never mistaken for the present one.                                     *)
(***************************************************************************)

DesktopTypes ==
    /\ conn \in [n : Nat, up : BOOLEAN]
    /\ known \in Nat /\ asked \in Nat /\ loops \in Nat
    /\ wire \in Seq({"rdp_start", "rdp_stop"})

\* Nothing is registered or asked on a connection that is yet to come.
NumbersAreOld == known =< conn.n /\ asked =< conn.n /\ (conn.up => conn.n > 0)

DesktopInv == DesktopTypes /\ NumbersAreOld /\ ViewersAreServed

LEMMA DesktopInitOK == DesktopInit => DesktopInv
  BY DEF DesktopInit, DesktopInv, DesktopTypes, NumbersAreOld, ViewersAreServed

\* A viewer comes or changes the quality: the agent is told to start, on the
\* connection that counts or on none.
LEMMA StartIsSent ==
    ASSUME DesktopInv, Sent("rdp_start"), asked' = IF known # 0 THEN known ELSE asked,
           UNCHANGED <<conn, online, known, handlers, capturing, loops, display, popped>>
    PROVE  DesktopInv'
<1> USE DEF DesktopInv
<1>1. DesktopTypes' /\ NumbersAreOld'
  BY DEF DesktopTypes, NumbersAreOld, Sent
<1>2. ASSUME known = conn.n, conn.up
      PROVE  wire' # <<>> /\ wire'[Len(wire')] = "rdp_start"
  <2>1. known # 0
    BY <1>2 DEF NumbersAreOld, DesktopTypes
  <2>2. wire' = Append(wire, "rdp_start")
    BY <1>2, <2>1 DEF Sent
  <2> QED BY <2>2 DEF DesktopTypes
<1>3. ViewersAreServed'
  BY <1>2 DEF ViewersAreServed
<1> QED BY <1>1, <1>3

\* What the agent reads brings what was sent last nearer.
LEMMA TailKeepsLast ==
    ASSUME NEW S, NEW s \in Seq(S), s # <<>>
    PROVE  /\ Tail(s) \in Seq(S)
           /\ Tail(s) = <<>> => s[Len(s)] = Head(s)
           /\ Tail(s) # <<>> => Tail(s)[Len(Tail(s))] = s[Len(s)]
<1>1. /\ Tail(s) \in Seq(S) /\ Len(Tail(s)) = Len(s) - 1
      /\ \A i \in 1..Len(Tail(s)) : Tail(s)[i] = s[i + 1]
  BY HeadTailProperties
<1>2. Len(s) \in Nat \ {0} /\ Len(Tail(s)) \in Nat
  BY <1>1, EmptySeq, LenProperties
<1>3. Tail(s) = <<>> => Len(s) = 1
  <2>1. Tail(s) = <<>> => Len(Tail(s)) = Len(<<>>)
    OBVIOUS
  <2>2. Len(<<>>) = 0
    OBVIOUS
  <2> QED BY <1>1, <1>2, <2>1, <2>2
<1>4. Head(s) = s[1]
  OBVIOUS
<1>5. Tail(s) # <<>> => Len(Tail(s)) \in 1..Len(Tail(s))
  BY <1>1, <1>2, EmptySeq, LenProperties
<1> QED BY <1>1, <1>2, <1>3, <1>4, <1>5

LEMMA ReceiveKeeps ==
    ASSUME DesktopInv, ReceiveStart \/ ReceiveStop
    PROVE  DesktopInv'
<1> USE DEF DesktopInv
<1>1. /\ wire # <<>> /\ wire' = Tail(wire) /\ loops' \in Nat
      /\ UNCHANGED <<viewers, ghosts, conn, known, display, asked>>
      /\ \/ Head(wire) = "rdp_start" /\ capturing' /\ loops' > 0
         \/ Head(wire) = "rdp_stop"
  <2>1. CASE ReceiveStart
    <3>1. PICK left \in IF capturing THEN 0..loops ELSE {loops} : loops' = left + 1
      BY <2>1 DEF ReceiveStart
    <3>2. left \in Nat
      BY <3>1 DEF DesktopTypes
    <3> QED BY <2>1, <3>1, <3>2 DEF ReceiveStart
  <2>2. CASE ReceiveStop
    BY <2>2 DEF ReceiveStop, DesktopTypes
  <2> QED BY <2>1, <2>2
<1>2. /\ wire' \in Seq({"rdp_start", "rdp_stop"})
      /\ wire' = <<>> => wire[Len(wire)] = Head(wire)
      /\ wire' # <<>> => wire'[Len(wire')] = wire[Len(wire)]
  BY <1>1, TailKeepsLast DEF DesktopTypes
<1>3. DesktopTypes' /\ NumbersAreOld'
  BY <1>1, <1>2 DEF DesktopTypes, NumbersAreOld
<1>4. ViewersAreServed'
  BY <1>1, <1>2 DEF ViewersAreServed
<1> QED BY <1>3, <1>4

LEMMA DesktopStep ==
    ASSUME DesktopInv, [DesktopNext]_desktopVars
    PROVE  DesktopInv'
<1> USE DEF DesktopInv
<1>1. ASSUME NEW v \in Viewer, Come(v) \/ ChangeQuality(v)
      PROVE  DesktopInv'
  BY <1>1, StartIsSent DEF Come, ChangeQuality
<1>12. ASSUME NEW v \in Viewer, ComeFails(v)
       PROVE  DesktopInv'
  <2>1. CASE Sent("rdp_start") /\ asked' = IF known # 0 THEN known ELSE asked
    BY <1>12, <2>1, StartIsSent DEF ComeFails
  <2>2. CASE UNCHANGED <<wire, asked>>
    <3>1. viewers' \ ghosts' \subseteq viewers \ ghosts
      BY <1>12 DEF ComeFails
    <3> QED BY <1>12, <2>2, <3>1 DEF ComeFails, DesktopTypes, NumbersAreOld, ViewersAreServed
  <2> QED BY <1>12, <2>1, <2>2 DEF ComeFails
<1>2. ASSUME NEW v \in Viewer, Leave(v)
      PROVE  DesktopInv'
  <2>1. DesktopTypes' /\ NumbersAreOld'
    BY <1>2 DEF Leave, Sent, DesktopTypes, NumbersAreOld
  <2>2. ViewersAreServed'
    BY <1>2 DEF Leave, ViewersAreServed
  <2> QED BY <2>1, <2>2
<1>3. CASE Connect
  <2>1. DesktopTypes' /\ NumbersAreOld' /\ asked' # conn'.n
    BY <1>3 DEF Connect, DesktopTypes, NumbersAreOld
  <2> QED BY <2>1 DEF ViewersAreServed
<1>4. CASE LoopEnds
  BY <1>4 DEF LoopEnds, DesktopTypes, NumbersAreOld, ViewersAreServed
<1>5. CASE CaptureFails
  BY <1>5 DEF CaptureFails, DesktopTypes, NumbersAreOld, ViewersAreServed
<1>6. CASE AgentLosesConnection
  BY <1>6 DEF AgentLosesConnection, Offline, DesktopTypes, NumbersAreOld, ViewersAreServed
<1>7. CASE DisplayFails
  BY <1>7 DEF DisplayFails, DesktopTypes, NumbersAreOld, ViewersAreServed
<1>8. CASE ConnectionDrops
  <2>1. conn' = [n |-> conn.n, up |-> FALSE] /\ wire' \in Seq({"rdp_start", "rdp_stop"})
    BY <1>8, EmptySeq DEF ConnectionDrops, DesktopTypes
  <2>2. DesktopTypes' /\ NumbersAreOld' /\ ~conn'.up
    BY <1>8, <2>1 DEF ConnectionDrops, DesktopTypes, NumbersAreOld
  <2> QED BY <2>2 DEF ViewersAreServed
<1>9. CASE SendPops
  <2>1. DesktopTypes' /\ NumbersAreOld' /\ known' # conn'.n
    BY <1>9 DEF SendPops, DesktopTypes, NumbersAreOld
  <2> QED BY <2>1 DEF ViewersAreServed
<1>10. ASSUME NEW n \in handlers, DesktopHandlerEnds(n)
       PROVE  DesktopInv'
  BY <1>10 DEF DesktopHandlerEnds, DesktopTypes, NumbersAreOld, ViewersAreServed
<1>11. CASE UNCHANGED desktopVars
  BY <1>11 DEF desktopVars, DesktopTypes, NumbersAreOld, ViewersAreServed
<1> QED BY <1>1, <1>2, <1>3, <1>4, <1>5, <1>6, <1>7, <1>8, <1>9, <1>10, <1>11, <1>12,
       ReceiveKeeps DEF DesktopNext

\* Whichever viewers come and leave, connections drop and return, and handlers
\* end late: while somebody watches over the connection on which the agent was
\* told, it captures or is about to, as long as its screen can be captured.  A
\* viewer that never watched, because its start failed, changes nothing of that.
THEOREM WatchersAreServed == DesktopSpec => []ViewersAreServed
<1>1. DesktopInv => ViewersAreServed
  BY DEF DesktopInv
<1> QED BY <1>1, DesktopInitOK, DesktopStep, PTL DEF DesktopSpec

-----------------------------------------------------------------------------
(***************************************************************************)
(* Uploads.  While nothing upset it, an upload is in one of two phases.    *)
(* It gathers: the server has the chunks up to the one that the agent      *)
(* sends, or up to the one before, and a file of each.  Or it is           *)
(* assembled: the files are gone but perhaps the last, and another         *)
(* attempt at the last chunk, whose answer was lost, cannot end well,      *)
(* unless it is the only chunk and so assembles the file again.            *)
(***************************************************************************)

TransferTypes ==
    /\ upload \in [at : Index, tries : Nat, state : {"send", "wait", "ok", "error"}]
    /\ transfer \in [known : BOOLEAN, received : SUBSET Index, complete : BOOLEAN]
    /\ chunkFile \in [Index -> {"none"} \union Content]
    /\ request \subseteq [i : Index, holds : Content, live : BOOLEAN]

\* The agent waits for one request at most, for the chunk it is at.
OneIsLive ==
    \A r \in request : r.live =>
        /\ upload.state = "wait" /\ r.i = upload.at
        /\ \A q \in request : q.live => q = r

\* What was read before the file changed is good.
ReadsAreGood == ~changed => \A r \in request : r.holds = "good"

\* The chunks 1..k were received, and their files are there.
Has(k) ==
    /\ transfer.received = 1..k
    /\ \A i \in Index : chunkFile[i] = IF i <= k THEN "good" ELSE "none"

Gathers == upload.state # "ok" /\ upload.at <= Chunks /\ (Has(upload.at - 1) \/ (upload.at < Chunks /\ Has(upload.at)))

Assembled ==
    /\ upload.at = Chunks /\ transfer.received = Index
    /\ \A i \in 1..Chunks - 1 : chunkFile[i] = "none"

Undisturbed == ~upset /\ ~changed => Gathers \/ Assembled

TransferInv ==
    TransferTypes /\ OneIsLive /\ ReadsAreGood /\ Undisturbed /\ UploadedIsWhole

LEMMA TransferInitOK == TransferInit => TransferInv
<1> SUFFICES ASSUME TransferInit PROVE TransferInv
  OBVIOUS
<1>1. Chunks \in Nat \ {0} /\ 1 \in Index
  BY TransferAssumption DEF Index
<1>2. TransferTypes
  BY <1>1 DEF TransferInit, TransferTypes, NoEntry, Content
<1>3. Gathers
  BY <1>1 DEF TransferInit, Gathers, Has, NoEntry, Index
<1> QED BY <1>2, <1>3 DEF TransferInit, TransferInv, OneIsLive, ReadsAreGood, Undisturbed,
     UploadedIsWhole

-----------------------------------------------------------------------------
(* The chunks before the first that has no file. *)

LEMMA PrefixOfAll ==
    ASSUME NEW files, \A i \in Index : files[i] # "none"
    PROVE  Prefix(files) = Chunks
  BY DEF Prefix

LEMMA PrefixOfNone ==
    ASSUME NEW files, 1 \in Index, files[1] = "none"
    PROVE  Prefix(files) = 0
<1> DEFINE First(i) == i \in Index /\ files[i] = "none" /\ \A j \in 1..i - 1 : files[j] # "none"
<1>1. First(1)
  OBVIOUS
<1>2. \A i : First(i) => i = 1
  BY TransferAssumption DEF Index
<1>3. (CHOOSE i \in Index : files[i] = "none" /\ \A j \in 1..i - 1 : files[j] # "none") = 1
  BY <1>1, <1>2
<1> QED BY <1>3 DEF Prefix

-----------------------------------------------------------------------------
(* What the handler leaves of an undisturbed upload. *)

LEMMA ServedTypes ==
    ASSUME TransferTypes, NEW r \in request
    PROVE  /\ Served(r).entry \in [known : BOOLEAN, received : SUBSET Index, complete : BOOLEAN]
           /\ Served(r).files \in [Index -> {"none"} \union Content]
<1>1. r.i \in Index /\ r.holds \in Content
  BY DEF TransferTypes
<1>2. /\ Entry(r) \in [known : BOOLEAN, received : SUBSET Index, complete : BOOLEAN]
      /\ [Entry(r) EXCEPT !.complete = TRUE] \in [known : BOOLEAN, received : SUBSET Index, complete : BOOLEAN]
      /\ NoEntry \in [known : BOOLEAN, received : SUBSET Index, complete : BOOLEAN]
  BY <1>1 DEF TransferTypes, NoEntry, Entry, Received
<1>3. Files(r) \in [Index -> {"none"} \union Content]
  BY <1>1 DEF TransferTypes, Files
<1>4. Left(r) \in [Index -> {"none"} \union Content]
  BY <1>3 DEF Left
<1> QED BY <1>2, <1>3, <1>4 DEF Served

\* A chunk while the server gathers them: it has one more, or assembles the file.
LEMMA ServedGathering ==
    ASSUME TransferTypes, NEW r \in request, r.i = upload.at, r.holds = "good", Gathers
    PROVE  /\ Served(r).ok
           /\ upload.at < Chunks =>
                 /\ Served(r).entry.received = 1..upload.at
                 /\ \A i \in Index : Served(r).files[i] = IF i <= upload.at THEN "good" ELSE "none"
           /\ upload.at = Chunks =>
                 /\ Served(r).entry.received = Index /\ Served(r).entry.complete
                 /\ \A i \in 1..Chunks - 1 : Served(r).files[i] = "none"
                 /\ Whole(Served(r).file)
<1>1. Chunks \in Nat \ {0} /\ upload.at \in 1..Chunks
  BY TransferAssumption DEF TransferTypes, Index
<1>2. Received(r) = 1..upload.at
  <2>1. (1..upload.at - 1) \union {upload.at} = 1..upload.at
    BY <1>1
  <2>2. (1..upload.at) \union {upload.at} = 1..upload.at
    BY <1>1
  <2> QED BY <2>1, <2>2 DEF Gathers, Has, Received
<1>3. Cardinality(Received(r)) = upload.at
  <2>1. Cardinality(1..upload.at) = IF 1 > upload.at THEN 0 ELSE upload.at - 1 + 1
    BY <1>1, FS_Interval
  <2> QED BY <1>1, <1>2, <2>1
<1>4. Entry(r).received = 1..upload.at /\ DOMAIN Entry(r) = {"known", "received", "complete"}
  BY <1>2 DEF Entry, TransferTypes
<1>5. \A i \in Index : Files(r)[i] = IF i <= upload.at THEN "good" ELSE "none"
  BY <1>1 DEF Files, Gathers, Has, TransferTypes, Index
<1>6. CASE upload.at < Chunks
  <2>1. Served(r).entry = Entry(r) /\ Served(r).files = Files(r) /\ Served(r).ok
    BY <1>3, <1>6 DEF Served
  <2> QED BY <1>1, <1>4, <1>5, <1>6, <2>1
<1>7. CASE upload.at = Chunks
  <2>1. Prefix(Files(r)) = Chunks
    BY <1>5, <1>7, PrefixOfAll DEF Index
  <2>2. Whole(Joined(r))
    <3>1. [i \in 1..Chunks |-> Files(r)[i]] = [i \in Index |-> "good"]
      BY <1>5, <1>7 DEF Index
    <3>2. Joined(r) = [exists |-> TRUE, parts |-> [i \in Index |-> "good"]]
      BY <2>1, <3>1 DEF Joined
    <3> QED BY <3>2 DEF Whole
  <2>3. /\ Served(r).entry = [Entry(r) EXCEPT !.complete = TRUE] /\ Served(r).files = Left(r)
        /\ Served(r).file = Joined(r) /\ Served(r).ok
    BY <1>1, <1>3, <1>7, <2>1, <2>2 DEF Served
  <2>4. [Entry(r) EXCEPT !.complete = TRUE].received = Index /\ [Entry(r) EXCEPT !.complete = TRUE].complete
    BY <1>4, <1>7 DEF Index
  <2>5. \A i \in 1..Chunks - 1 : Left(r)[i] = "none"
    BY <1>1, <2>1 DEF Left, Index
  <2> QED BY <1>1, <1>7, <2>2, <2>3, <2>4, <2>5
<1> QED BY <1>1, <1>6, <1>7

\* Another attempt at the last chunk when the file is assembled.
LEMMA ServedAgain ==
    ASSUME TransferTypes, NEW r \in request, r.i = upload.at, r.holds = "good", Assembled
    PROVE  /\ Served(r).entry.received = Index
           /\ \A i \in 1..Chunks - 1 : Served(r).files[i] = "none"
           /\ Served(r).ok => Served(r).entry.complete /\ Whole(Served(r).file)
<1>1. Chunks \in Nat \ {0} /\ 1 \in Index /\ r.i = Chunks
  BY TransferAssumption DEF Assembled, Index
<1>2. Received(r) = Index
  BY <1>1 DEF Assembled, Received, Index
<1>3. Cardinality(Received(r)) = Chunks
  <2>1. Cardinality(1..Chunks) = IF 1 > Chunks THEN 0 ELSE Chunks - 1 + 1
    BY <1>1, FS_Interval
  <2> QED BY <1>1, <1>2, <2>1 DEF Index
<1>4. Entry(r).received = Index /\ DOMAIN Entry(r) = {"known", "received", "complete"}
  BY <1>2 DEF Entry, TransferTypes
<1>5. \A i \in Index : Files(r)[i] = IF i = Chunks THEN "good" ELSE "none"
  BY <1>1 DEF Files, Assembled, TransferTypes, Index
<1>6. CASE Chunks = 1
  <2>1. Prefix(Files(r)) = Chunks
    BY <1>5, <1>6, PrefixOfAll DEF Index
  <2>2. Whole(Joined(r))
    <3>1. [i \in 1..Chunks |-> Files(r)[i]] = [i \in Index |-> "good"]
      BY <1>5, <1>6 DEF Index
    <3>2. Joined(r) = [exists |-> TRUE, parts |-> [i \in Index |-> "good"]]
      BY <2>1, <3>1 DEF Joined
    <3> QED BY <3>2 DEF Whole
  <2>3. /\ Served(r).entry = [Entry(r) EXCEPT !.complete = TRUE] /\ Served(r).files = Left(r)
        /\ Served(r).file = Joined(r) /\ Served(r).ok
    BY <1>1, <1>3, <2>1, <2>2 DEF Served
  <2>4. [Entry(r) EXCEPT !.complete = TRUE].received = Index /\ [Entry(r) EXCEPT !.complete = TRUE].complete
    BY <1>4
  <2>5. \A i \in 1..Chunks - 1 : FALSE
    BY <1>6
  <2> QED BY <2>2, <2>3, <2>4, <2>5
<1>7. CASE Chunks > 1
  <2>1. Prefix(Files(r)) = 0
    BY <1>1, <1>5, <1>7, PrefixOfNone
  <2>2. Served(r) = [entry |-> Entry(r), files |-> Left(r), file |-> Joined(r), ok |-> FALSE]
    BY <1>1, <1>3, <2>1 DEF Served
  <2>3. \A i \in 1..Chunks - 1 : Left(r)[i] = "none"
    BY <1>1, <1>5, <2>1 DEF Left, Index
  <2> QED BY <1>4, <2>2, <2>3
<1> QED BY <1>1, <1>6, <1>7

-----------------------------------------------------------------------------
(* The steps. *)

LEMMA UploadMoves ==
    ASSUME TransferTypes
    PROVE  /\ Failed \in [at : Index, tries : Nat, state : {"send", "error"}]
           /\ Failed.at = upload.at
           /\ Advanced \in [at : Index, tries : Nat, state : {"send", "wait", "ok", "error"}]
           /\ upload.at < Chunks => Advanced.at = upload.at + 1 /\ Advanced.state = "send"
           /\ upload.at = Chunks => Advanced.at = upload.at /\ Advanced.state = "ok"
<1>1. Chunks \in Nat \ {0} /\ upload.at \in 1..Chunks
  BY TransferAssumption DEF TransferTypes, Index
<1>2. /\ Failed \in [at : Index, tries : Nat, state : {"send", "error"}]
      /\ Failed.at = upload.at
  <2>1. CASE upload.tries + 1 < Attempts
    <3>1. Failed = [upload EXCEPT !.tries = upload.tries + 1, !.state = "send"]
      BY <2>1 DEF Failed
    <3>2. upload.tries + 1 \in Nat
      BY DEF TransferTypes
    <3> QED BY <3>1, <3>2 DEF TransferTypes
  <2>2. CASE ~(upload.tries + 1 < Attempts)
    <3>1. Failed = [upload EXCEPT !.state = "error"]
      BY <2>2 DEF Failed
    <3> QED BY <3>1 DEF TransferTypes
  <2> QED BY <2>1, <2>2
<1>3. CASE upload.at < Chunks
  <2>1. upload.at + 1 \in Index
    BY <1>1, <1>3 DEF Index
  <2> QED BY <1>1, <1>2, <1>3, <2>1 DEF Advanced
<1>4. CASE upload.at = Chunks
  <2>1. Advanced = [upload EXCEPT !.state = "ok"]
    BY <1>1, <1>4 DEF Advanced
  <2> QED BY <1>1, <1>2, <1>4, <2>1 DEF TransferTypes
<1> QED BY <1>1, <1>3, <1>4

LEMMA HandleKeeps ==
    ASSUME TransferInv, NEW r \in request, HandleChunk(r)
    PROVE  TransferInv'
<1> USE DEF TransferInv
<1>1. /\ request' = request \ {r} /\ transfer' = Served(r).entry /\ chunkFile' = Served(r).files
      /\ final' = Served(r).file /\ upset' = (upset \/ ~r.live) /\ changed' = changed
      /\ IF r.live THEN upload' = Failed \/ (Served(r).ok /\ upload' = Advanced)
                   ELSE upload' = upload
  BY DEF HandleChunk
<1>2. TransferTypes'
  <2>1. upload' \in [at : Index, tries : Nat, state : {"send", "wait", "ok", "error"}]
    BY <1>1, UploadMoves DEF TransferTypes
  <2> QED BY <1>1, <2>1, ServedTypes DEF TransferTypes
<1>3. OneIsLive'
  BY <1>1 DEF OneIsLive
<1>4. ReadsAreGood'
  BY <1>1 DEF ReadsAreGood
<1>5. ASSUME ~upset', ~changed'
      PROVE  (Gathers' \/ Assembled') /\ (upload'.state = "ok" => transfer'.complete /\ Whole(final'))
  <2>1. r.live /\ r.i = upload.at /\ r.holds = "good" /\ ~upset /\ ~changed
    BY <1>1, <1>5 DEF OneIsLive, ReadsAreGood
  <2>2. Chunks \in Nat \ {0} /\ upload.at \in 1..Chunks
    BY TransferAssumption DEF TransferTypes, Index
  <2>3. CASE Gathers /\ upload.at < Chunks
    <3>1. transfer'.received = 1..upload.at
          /\ \A i \in Index : chunkFile'[i] = IF i <= upload.at THEN "good" ELSE "none"
      BY <1>1, <2>1, <2>3, ServedGathering
    <3>2. \/ upload'.at = upload.at /\ upload'.state # "ok"
          \/ upload'.at = upload.at + 1 /\ upload'.state # "ok"
      BY <1>1, <2>1, <2>3, UploadMoves
    <3> QED BY <2>2, <2>3, <3>1, <3>2 DEF Gathers, Has
  <2>4. CASE Gathers /\ upload.at = Chunks
    <3>1. /\ transfer'.received = Index /\ transfer'.complete /\ Whole(final')
          /\ \A i \in 1..Chunks - 1 : chunkFile'[i] = "none"
      BY <1>1, <2>1, <2>4, ServedGathering
    <3>2. upload'.at = Chunks
      BY <1>1, <2>1, <2>4, UploadMoves
    <3> QED BY <3>1, <3>2 DEF Assembled
  <2>5. CASE Assembled
    <3>1. /\ transfer'.received = Index /\ \A i \in 1..Chunks - 1 : chunkFile'[i] = "none"
          /\ Served(r).ok => transfer'.complete /\ Whole(final')
      BY <1>1, <2>1, <2>5, ServedAgain
    <3>2. upload'.at = Chunks /\ (upload'.state = "ok" => Served(r).ok)
      BY <1>1, <2>1, <2>5, UploadMoves DEF Assembled
    <3> QED BY <3>1, <3>2 DEF Assembled
  <2> QED BY <2>1, <2>2, <2>3, <2>4, <2>5 DEF Undisturbed
<1> QED BY <1>2, <1>3, <1>4, <1>5 DEF Undisturbed, UploadedIsWhole

\* The state of the server stays, and the agent does not get ahead of it.
LEMMA AgentMoves ==
    ASSUME TransferInv, UNCHANGED <<changed, transfer, chunkFile, final, upset>>,
           upload'.at = upload.at, upload'.state # "ok"
    PROVE  Undisturbed' /\ UploadedIsWhole'
  BY DEF TransferInv, Undisturbed, Gathers, Has, Assembled, UploadedIsWhole

LEMMA TransferStep ==
    ASSUME TransferInv, [TransferNext]_transferVars
    PROVE  TransferInv'
<1> USE DEF TransferInv
<1>1. CASE Post
  <2>1. PICK holds \in (IF changed THEN Content ELSE {"good"}) :
            request' = request \union {[i |-> upload.at, holds |-> holds, live |-> TRUE]}
    BY <1>1 DEF Post
  <2>2. /\ upload.state = "send" /\ upload' = [upload EXCEPT !.state = "wait"]
        /\ UNCHANGED <<changed, transfer, chunkFile, final, upset>>
    BY <1>1 DEF Post
  <2> DEFINE q == [i |-> upload.at, holds |-> holds, live |-> TRUE]
  <2>3. /\ q \in [i : Index, holds : Content, live : BOOLEAN] /\ q.i = upload.at
        /\ ~changed => q.holds = "good"
    BY <2>1 DEF TransferTypes, Content
  <2>4. request' = request \union {q}
    BY <2>1
  <2> HIDE DEF q
  <2>5. /\ upload' \in [at : Index, tries : Nat, state : {"send", "wait", "ok", "error"}]
        /\ upload'.at = upload.at /\ upload'.state = "wait"
    BY <2>2 DEF TransferTypes
  <2>6. TransferTypes'
    BY <2>2, <2>3, <2>4, <2>5 DEF TransferTypes
  <2>7. \A p \in request : ~p.live
    BY <2>2 DEF OneIsLive
  <2>8. OneIsLive'
    BY <2>3, <2>4, <2>5, <2>7 DEF OneIsLive
  <2>9. ReadsAreGood'
    BY <2>2, <2>3, <2>4 DEF ReadsAreGood
  <2> QED BY <2>2, <2>5, <2>6, <2>8, <2>9, AgentMoves
<1>2. ASSUME NEW r \in request, RequestFails(r)
      PROVE  TransferInv'
  <2> DEFINE q == [r EXCEPT !.live = FALSE]
  <2>1. q \in [i : Index, holds : Content, live : BOOLEAN] /\ q.holds = r.holds /\ ~q.live
    BY DEF TransferTypes
  <2>2. /\ r.live /\ upload' = Failed
        /\ request' = request \ {r} \/ request' = (request \ {r}) \union {q}
        /\ UNCHANGED <<changed, transfer, chunkFile, final, upset>>
    BY <1>2 DEF RequestFails
  <2> HIDE DEF q
  <2>3. TransferTypes'
    BY <2>1, <2>2, UploadMoves DEF TransferTypes
  <2>4. \A p \in request' : ~p.live
    BY <2>1, <2>2 DEF OneIsLive
  <2>5. ReadsAreGood'
    BY <2>1, <2>2 DEF ReadsAreGood
  <2>6. upload'.at = upload.at /\ upload'.state # "ok"
    BY <2>2, UploadMoves
  <2> QED BY <2>2, <2>3, <2>4, <2>5, <2>6, AgentMoves DEF OneIsLive
<1>3. CASE FileChanges
  BY <1>3 DEF FileChanges, TransferTypes, OneIsLive, ReadsAreGood, Undisturbed, UploadedIsWhole
<1>4. CASE Expire
  BY <1>4 DEF Expire, TransferTypes, NoEntry, OneIsLive, ReadsAreGood, Undisturbed, UploadedIsWhole
<1>5. CASE TransfersRestart
  <2>1. TransferTypes'
    BY <1>5, UploadMoves DEF TransfersRestart, TransferTypes, NoEntry
  <2> QED BY <1>5, <2>1 DEF TransfersRestart, OneIsLive, ReadsAreGood, Undisturbed, UploadedIsWhole
<1>6. CASE UNCHANGED transferVars
  BY <1>6 DEF transferVars, TransferTypes, OneIsLive, ReadsAreGood, Undisturbed, Gathers, Has,
     Assembled, UploadedIsWhole
<1> QED BY <1>1, <1>2, <1>3, <1>4, <1>5, <1>6, HandleKeeps DEF TransferNext

\* For files of any length and however often requests and answers are lost: an
\* upload that ends well is on the server, whole, unless the file changed, the
\* entry was lost, or a request came after the agent had given up on it.
THEOREM UploadsAreWhole == TransferSpec => []UploadedIsWhole
<1>1. TransferInv => UploadedIsWhole
  BY DEF TransferInv
<1> QED BY <1>1, TransferInitOK, TransferStep, PTL DEF TransferSpec

-----------------------------------------------------------------------------
(***************************************************************************)
(* Log streams.  Lines are numbered as the journal prints them.  From the  *)
(* browser back to the reader each place holds lines in order, all         *)
(* earlier than those of the place behind it, and until something is       *)
(* dropped the places together hold every line that was read.              *)
(***************************************************************************)

StreamTypes ==
    /\ journal \in [runs : BOOLEAN, read : BOOLEAN, printed : Nat, taken : Nat]
    /\ buffer \in [there : BOOLEAN, lines : Seq(Nat)] /\ list \in [there : BOOLEAN, lines : Seq(Nat)]
    /\ post \subseteq [live : BOOLEAN, lines : Seq(Nat)]
    /\ viewer \in [cursor : Nat, seen : Seq(Nat)]
    /\ \A r, q \in post : r.live /\ q.live => r = q
    /\ ~list.there => list.lines = <<>>
    /\ journal.taken =< journal.printed /\ (journal.runs => journal.read)

Rises(s) == \A i, j \in DOMAIN s : i < j => s[i] < s[j]

Below(s, t) == \A i \in DOMAIN s, j \in DOMAIN t : s[i] < t[j]

\* The lines of a list that lie behind a cursor.
BelowFrom(c, s, t) == \A i \in DOMAIN s, j \in DOMAIN t : j > c => s[i] < t[j]

UpTo(s, n) == \A i \in DOMAIN s : s[i] =< n

\* Lines go from the reader to the buffer, the report, the list and the browser:
\* each place holds later lines than the next one.
PlacesInOrder ==
    /\ Rises(viewer.seen) /\ Rises(list.lines) /\ Rises(buffer.lines)
    /\ BelowFrom(viewer.cursor, viewer.seen, list.lines)
    /\ Below(viewer.seen, buffer.lines) /\ Below(list.lines, buffer.lines)
    /\ UpTo(viewer.seen, journal.taken) /\ UpTo(list.lines, journal.taken)
    /\ UpTo(buffer.lines, journal.taken)
    /\ \A r \in post : r.live =>
          /\ Rises(r.lines) /\ UpTo(r.lines, journal.taken)
          /\ Below(viewer.seen, r.lines) /\ Below(list.lines, r.lines) /\ Below(r.lines, buffer.lines)

\* Until something is dropped, the places hold all lines that were read, and
\* what follows the log has not begun while the command for it is on its way.
NoneIsMissing ==
    /\ \A i \in DOMAIN viewer.seen : viewer.seen[i] = i
    /\ \A i \in DOMAIN list.lines : list.lines[i] = i
    /\ viewer.cursor = Len(viewer.seen) /\ Len(viewer.seen) =< Len(list.lines)
    /\ \A r \in post : IF r.live THEN /\ \A i \in DOMAIN r.lines : r.lines[i] = Len(list.lines) + i
                                      /\ journal.taken = Len(list.lines) + Len(r.lines) + Len(buffer.lines)
                       ELSE r.lines = <<>>
    /\ (\A r \in post : ~r.live) => journal.taken = Len(list.lines) + Len(buffer.lines)
    /\ \A i \in DOMAIN buffer.lines : buffer.lines[i] = journal.taken - Len(buffer.lines) + i
    /\ todo \in {<<>>, <<"follow_logs">>} /\ orders \in {<<>>, <<"follow_logs">>}
    /\ todo = <<>> \/ orders = <<>>
    /\ (todo # <<>> \/ orders # <<>>) => listed /\ journal.printed = 0 /\ ~journal.runs

StreamInv == StreamTypes /\ (~late => PlacesInOrder) /\ (~late /\ ~dropped => NoneIsMissing)

LEMMA StreamInitOK == StreamInit => StreamInv
<1> SUFFICES ASSUME StreamInit PROVE StreamInv
  OBVIOUS
<1>1. <<>> \in Seq(Nat) /\ Len(<<>>) = 0 /\ DOMAIN <<>> = {}
  BY EmptySeq
<1> QED BY <1>1 DEF StreamInit, StreamInv, StreamTypes, PlacesInOrder, NoneIsMissing, None,
                    Rises, Below, BelowFrom, UpTo

\* What is kept of a list is its end, all of it when it is short.
LEMMA KeptIsTheEnd ==
    ASSUME NEW s \in Seq(Nat), NEW max \in Nat \ {0}
    PROVE  /\ Kept(s, max) \in Seq(Nat)
           /\ Len(s) =< max => Kept(s, max) = s
           /\ \E d \in Nat : \A j \in DOMAIN Kept(s, max) :
                 j + d \in DOMAIN s /\ Kept(s, max)[j] = s[j + d]
<1>1. CASE Len(s) =< max
  <2>1. Kept(s, max) = s
    BY <1>1 DEF Kept
  <2>2. \A j \in DOMAIN s : j + 0 = j
    OBVIOUS
  <2>3. 0 \in Nat /\ \A j \in DOMAIN Kept(s, max) : j + 0 \in DOMAIN s /\ Kept(s, max)[j] = s[j + 0]
    BY <2>1, <2>2
  <2> QED BY <2>1, <2>3
<1>2. CASE Len(s) > max
  <2> DEFINE d == Len(s) - max
             k == SubSeq(s, d + 1, Len(s))
  <2>1. Len(s) \in Nat /\ d \in Nat /\ DOMAIN s = 1..Len(s)
    BY <1>2, LenProperties
  <2>2. Kept(s, max) = k
    <3>1. Len(s) - max + 1 = d + 1
      OBVIOUS
    <3> QED BY <1>2, <2>1, <3>1 DEF Kept
  <2>3. k \in Seq(Nat) /\ Len(k) = Len(s) - d /\ \A j \in 1..Len(k) : k[j] = s[d + 1 + j - 1]
    <3>1. d + 1 \in 1..Len(s) + 1 /\ Len(s) \in d..Len(s)
      BY <1>2, <2>1
    <3> QED BY <1>2, <2>1, <3>1, SubSeqProperties
  <2>4. DOMAIN k = 1..Len(k)
    BY <2>3, LenProperties
  <2>5. \A j \in DOMAIN k : j + d \in DOMAIN s /\ k[j] = s[j + d]
    BY <2>1, <2>3, <2>4
  <2> QED BY <1>2, <2>1, <2>2, <2>3, <2>5
<1>3. Len(s) \in Nat
  BY LenProperties
<1> QED BY <1>1, <1>2, <1>3

LEMMA AppendedLine ==
    ASSUME NEW s \in Seq(Nat), NEW n \in Nat, Rises(s), UpTo(s, n)
    PROVE  /\ Append(s, n + 1) \in Seq(Nat) /\ Rises(Append(s, n + 1)) /\ UpTo(Append(s, n + 1), n + 1)
           /\ Len(Append(s, n + 1)) = Len(s) + 1
           /\ \A t \in Seq(Nat) : Below(t, s) /\ UpTo(t, n) => Below(t, Append(s, n + 1))
<1> DEFINE a == Append(s, n + 1)
<1>1. /\ a \in Seq(Nat) /\ Len(a) = Len(s) + 1 /\ Len(s) \in Nat /\ DOMAIN a = 1..Len(a) /\ DOMAIN s = 1..Len(s)
      /\ a[Len(a)] = n + 1 /\ \A i \in 1..Len(s) : a[i] = s[i]
  BY AppendProperties, LenProperties
<1>2. \A i \in DOMAIN a : i = Len(a) \/ i \in DOMAIN s
  BY <1>1
<1>3. \A i \in DOMAIN s : s[i] \in Nat
  BY ElementOfSeq
<1> HIDE DEF a
<1>4. UpTo(a, n + 1)
  BY <1>1, <1>2, <1>3 DEF UpTo
<1>5. Rises(a)
  <2> SUFFICES ASSUME NEW i \in DOMAIN a, NEW j \in DOMAIN a, i < j PROVE a[i] < a[j]
    BY DEF Rises
  <2>1. i \in DOMAIN s /\ a[i] = s[i] /\ s[i] =< n /\ s[i] \in Nat
    BY <1>1, <1>3 DEF UpTo
  <2>2. CASE j = Len(a)
    BY <1>1, <2>1, <2>2
  <2>3. CASE j \in DOMAIN s
    BY <1>1, <2>1, <2>3 DEF Rises
  <2> QED BY <1>2, <2>2, <2>3
<1>6. ASSUME NEW t \in Seq(Nat), Below(t, s), UpTo(t, n) PROVE Below(t, a)
  <2>1. \A i \in DOMAIN t : t[i] \in Nat
    BY ElementOfSeq
  <2>2. ASSUME NEW i \in DOMAIN t, NEW j \in DOMAIN a PROVE t[i] < a[j]
    <3>1. t[i] \in Nat /\ t[i] =< n
      BY <1>6, <2>1 DEF UpTo
    <3>2. CASE j = Len(a)
      BY <1>1, <3>1, <3>2
    <3>3. CASE j \in DOMAIN s
      <4>1. a[j] = s[j]
        BY <1>1, <3>3
      <4> QED BY <1>6, <3>3, <4>1 DEF Below
    <3> QED BY <1>2, <3>2, <3>3
  <2> QED BY <2>2 DEF Below
<1>7. \A t \in Seq(Nat) : Below(t, s) /\ UpTo(t, n) => Below(t, a)
  BY <1>6
<1> QED BY <1>1, <1>4, <1>5, <1>7 DEF a

\* Lines that come after all of a list, and what is kept of both.
LEMMA KeptInOrder ==
    ASSUME NEW s \in Seq(Nat), NEW t \in Seq(Nat), NEW max \in Nat \ {0}, NEW n \in Nat,
           Rises(s), Rises(t), Below(s, t), UpTo(s, n), UpTo(t, n)
    PROVE  /\ Kept(s \o t, max) \in Seq(Nat) /\ Rises(Kept(s \o t, max)) /\ UpTo(Kept(s \o t, max), n)
           /\ \A u \in Seq(Nat) : Below(s, u) /\ Below(t, u) => Below(Kept(s \o t, max), u)
           /\ \A u \in Seq(Nat), c \in Nat :
                 BelowFrom(c, u, s) /\ Below(u, t) => BelowFrom(c, u, Kept(s \o t, max))
<1> DEFINE b == s \o t
           k == Kept(s \o t, max)
<1>1. /\ b \in Seq(Nat) /\ DOMAIN b = 1..Len(s) + Len(t) /\ Len(s) \in Nat /\ Len(t) \in Nat
      /\ DOMAIN s = 1..Len(s) /\ DOMAIN t = 1..Len(t)
      /\ \A i \in DOMAIN b : b[i] = IF i =< Len(s) THEN s[i] ELSE t[i - Len(s)]
  BY ConcatProperties, LenProperties
<1>2. \A i \in DOMAIN b : \/ i \in DOMAIN s /\ b[i] = s[i]
                          \/ i - Len(s) \in DOMAIN t /\ b[i] = t[i - Len(s)] /\ i > Len(s)
  BY <1>1
<1>3. PICK d \in Nat : \A j \in DOMAIN k : j + d \in DOMAIN b /\ k[j] = b[j + d]
  BY <1>1, KeptIsTheEnd
<1>4. k \in Seq(Nat)
  BY <1>1, KeptIsTheEnd
<1>5. DOMAIN k = 1..Len(k) /\ Len(k) \in Nat
  BY <1>4, LenProperties
<1>6. Rises(b)
  <2> SUFFICES ASSUME NEW i \in DOMAIN b, NEW j \in DOMAIN b, i < j PROVE b[i] < b[j]
    BY DEF Rises
  <2> HIDE DEF b
  <2>1. CASE i \in DOMAIN s /\ b[i] = s[i] /\ j \in DOMAIN s /\ b[j] = s[j]
    BY <2>1 DEF Rises
  <2>2. CASE i \in DOMAIN s /\ b[i] = s[i] /\ j - Len(s) \in DOMAIN t /\ b[j] = t[j - Len(s)]
    BY <2>2 DEF Below
  <2>3. CASE i - Len(s) \in DOMAIN t /\ b[i] = t[i - Len(s)] /\ j - Len(s) \in DOMAIN t /\ b[j] = t[j - Len(s)]
    <3>1. i - Len(s) < j - Len(s)
      BY <1>1
    <3> QED BY <2>3, <3>1 DEF Rises
  <2>4. ~(i - Len(s) \in DOMAIN t /\ i > Len(s) /\ j \in DOMAIN s)
    BY <1>1
  <2> QED BY <1>2, <2>1, <2>2, <2>3, <2>4
<1>7. Rises(k)
  <2> SUFFICES ASSUME NEW i \in DOMAIN k, NEW j \in DOMAIN k, i < j PROVE k[i] < k[j]
    BY DEF Rises
  <2>1. i + d < j + d
    BY <1>5
  <2> HIDE DEF b, k
  <2> QED BY <1>3, <1>6, <2>1 DEF Rises
<1>8. UpTo(k, n)
  <2> HIDE DEF b, k
  <2> QED BY <1>2, <1>3 DEF UpTo
<1>9. ASSUME NEW u \in Seq(Nat), Below(s, u), Below(t, u) PROVE Below(k, u)
  <2> SUFFICES ASSUME NEW j \in DOMAIN k, NEW i \in DOMAIN u PROVE k[j] < u[i]
    BY DEF Below
  <2>1. j + d \in DOMAIN b /\ k[j] = b[j + d]
    BY <1>3
  <2> HIDE DEF b, k
  <2> QED BY <1>2, <1>9, <2>1 DEF Below
<1>10. ASSUME NEW u \in Seq(Nat), NEW c \in Nat, BelowFrom(c, u, s), Below(u, t)
       PROVE  BelowFrom(c, u, k)
  <2> SUFFICES ASSUME NEW i \in DOMAIN u, NEW j \in DOMAIN k, j > c PROVE u[i] < k[j]
    BY DEF BelowFrom
  <2>1. j + d > c /\ j + d \in DOMAIN b /\ k[j] = b[j + d]
    BY <1>3, <1>5
  <2> HIDE DEF b, k
  <2> QED BY <1>2, <1>10, <2>1 DEF Below, BelowFrom
<1> HIDE DEF k
<1>11. \A u \in Seq(Nat) : Below(s, u) /\ Below(t, u) => Below(k, u)
  BY <1>9
<1>12. \A u \in Seq(Nat), c \in Nat :
          BelowFrom(c, u, s) /\ Below(u, t) => BelowFrom(c, u, k)
  BY <1>10
<1> QED BY <1>4, <1>7, <1>8, <1>11, <1>12 DEF k

\* A step that adds no line anywhere keeps the order.
LEMMA LessInOrder ==
    ASSUME StreamTypes, StreamTypes', PlacesInOrder, viewer' = viewer, journal'.taken = journal.taken,
           list'.lines \in {list.lines, <<>>}, buffer'.lines \in {buffer.lines, <<>>},
           \A r \in post' : r.live => r \in post
    PROVE  PlacesInOrder'
<1>1. \A i : i \notin DOMAIN <<>>
  BY EmptySeq
<1>2. Rises(list'.lines) /\ UpTo(list'.lines, journal.taken) /\ BelowFrom(viewer.cursor, viewer.seen, list'.lines)
  BY <1>1 DEF PlacesInOrder, Rises, UpTo, BelowFrom
<1>3. Rises(buffer'.lines) /\ UpTo(buffer'.lines, journal.taken)
  BY <1>1 DEF PlacesInOrder, Rises, UpTo
<1>4. \A s : Below(s, buffer.lines) => Below(s, buffer'.lines)
  BY <1>1 DEF Below
<1>5. \A t : Below(list.lines, t) => Below(list'.lines, t)
  BY <1>1 DEF Below
<1>6. Below(viewer.seen, buffer'.lines) /\ Below(list'.lines, buffer'.lines)
  BY <1>4, <1>5 DEF PlacesInOrder
<1>7. \A r \in post' : r.live =>
          /\ Rises(r.lines) /\ UpTo(r.lines, journal.taken)
          /\ Below(viewer.seen, r.lines) /\ Below(list'.lines, r.lines) /\ Below(r.lines, buffer'.lines)
  BY <1>4, <1>5 DEF PlacesInOrder
<1> QED BY <1>2, <1>3, <1>6, <1>7 DEF PlacesInOrder

QuietStep == FollowLogs \/ LineIsPrinted \/ JournalEnds \/ ReaderEnds \/ ExecuteStop \/ UNCHANGED streamVars

\* Orders, the journal and its end.
LEMMA QuietStepOK == StreamInv /\ QuietStep => StreamInv'
<1> SUFFICES ASSUME StreamInv, QuietStep PROVE StreamInv'
  OBVIOUS
<1>1. /\ UNCHANGED <<viewer, list, buffer, post, late>> /\ journal'.taken = journal.taken
      /\ journal' \in [runs : BOOLEAN, read : BOOLEAN, printed : Nat, taken : Nat]
      /\ journal'.taken =< journal'.printed /\ (journal'.runs => journal'.read) /\ dropped' = dropped
  <2>1. CASE FollowLogs
    BY <2>1 DEF StreamInv, StreamTypes, FollowLogs
  <2>2. CASE LineIsPrinted
    <3>1. journal \in [runs : BOOLEAN, read : BOOLEAN, printed : Nat, taken : Nat]
          /\ journal' = [journal EXCEPT !.printed = @ + 1]
          /\ journal.taken =< journal.printed /\ (journal.runs => journal.read)
      BY <2>2 DEF StreamInv, StreamTypes, LineIsPrinted
    <3>2. journal.printed + 1 \in Nat /\ journal.taken =< journal.printed + 1
      BY <3>1
    <3>3. journal' \in [runs : BOOLEAN, read : BOOLEAN, printed : Nat, taken : Nat]
      BY <3>1, <3>2
    <3>4. journal'.taken = journal.taken /\ journal'.printed = journal.printed + 1
          /\ journal'.runs = journal.runs /\ journal'.read = journal.read
      BY <3>1
    <3> QED BY <2>2, <3>1, <3>2, <3>3, <3>4 DEF LineIsPrinted
  <2>3. CASE JournalEnds
    BY <2>3 DEF StreamInv, StreamTypes, JournalEnds
  <2>4. CASE ReaderEnds
    BY <2>4 DEF StreamInv, StreamTypes, ReaderEnds
  <2>5. CASE ExecuteStop
    BY <2>5 DEF StreamInv, StreamTypes, ExecuteStop
  <2>6. CASE UNCHANGED streamVars
    BY <2>6 DEF StreamInv, StreamTypes, streamVars
  <2> QED BY <2>1, <2>2, <2>3, <2>4, <2>5, <2>6 DEF QuietStep
<1>2. StreamTypes'
  BY <1>1 DEF StreamInv, StreamTypes
<1>3. ~late' => PlacesInOrder'
  BY <1>1, <1>2, LessInOrder DEF StreamInv
<1>4. ASSUME ~late', ~dropped' PROVE NoneIsMissing'
  <2>1. NoneIsMissing /\ StreamTypes
    BY <1>1, <1>4 DEF StreamInv
  <2>2. /\ todo' \in {<<>>, <<"follow_logs">>} /\ orders' \in {<<>>, <<"follow_logs">>}
        /\ todo' = <<>> \/ orders' = <<>>
        /\ (todo' # <<>> \/ orders' # <<>>) => listed' /\ journal'.printed = 0 /\ ~journal'.runs
    <3>1. CASE FollowLogs
      BY <2>1, <3>1 DEF NoneIsMissing, StreamTypes, FollowLogs
    <3>2. CASE LineIsPrinted
      BY <2>1, <3>2 DEF NoneIsMissing, StreamTypes, LineIsPrinted
    <3>3. CASE JournalEnds \/ ReaderEnds \/ UNCHANGED streamVars
      BY <2>1, <3>3 DEF NoneIsMissing, StreamTypes, JournalEnds, ReaderEnds, streamVars
    <3>4. ~ExecuteStop
      BY <2>1 DEF NoneIsMissing, ExecuteStop
    <3> QED BY <3>1, <3>2, <3>3, <3>4 DEF QuietStep
  <2> QED BY <1>1, <2>1, <2>2 DEF NoneIsMissing
<1> QED BY <1>2, <1>3, <1>4 DEF StreamInv

LosingStep ==
    \/ StopStream \/ ExecuteFollow \/ ForgetBuffer \/ GetStream \/ StreamServerRestarts
    \/ \E r \in post : LoseLines(r)

\* The steps that empty a list or a buffer, or lose a report.
LEMMA LosingStepOK == StreamInv /\ LosingStep => StreamInv'
<1> SUFFICES ASSUME StreamInv, LosingStep PROVE StreamInv'
  OBVIOUS
<1>0. <<>> \in Seq(Nat)
  BY EmptySeq
<1>1. UNCHANGED <<viewer, late>>
  BY DEF LosingStep, StopStream, ExecuteFollow, ForgetBuffer, GetStream, StreamServerRestarts, LoseLines
<1>6. journal' = journal \/ journal' = [journal EXCEPT !.runs = TRUE, !.read = TRUE]
  BY DEF LosingStep, StopStream, ExecuteFollow, ForgetBuffer, GetStream, StreamServerRestarts, LoseLines
<1>7. /\ journal'.taken = journal.taken
      /\ journal' \in [runs : BOOLEAN, read : BOOLEAN, printed : Nat, taken : Nat]
      /\ journal'.taken =< journal'.printed /\ (journal'.runs => journal'.read)
  BY <1>6 DEF StreamInv, StreamTypes
<1>8. list' = list \/ list' = None
  BY DEF LosingStep, StopStream, ExecuteFollow, ForgetBuffer, GetStream, StreamServerRestarts, LoseLines
<1>9. /\ list' \in [there : BOOLEAN, lines : Seq(Nat)] /\ list'.lines \in {list.lines, <<>>}
      /\ ~list'.there => list'.lines = <<>>
  <2>1. CASE list' = list
    BY <2>1 DEF StreamInv, StreamTypes
  <2>2. CASE list' = [there |-> FALSE, lines |-> <<>>]
    BY <1>0, <2>2
  <2> QED BY <1>8, <2>1, <2>2 DEF None
<1>10. buffer' = buffer \/ buffer' = None \/ buffer' = [there |-> TRUE, lines |-> <<>>]
  BY DEF LosingStep, StopStream, ExecuteFollow, ForgetBuffer, GetStream, StreamServerRestarts, LoseLines
<1>11. buffer' \in [there : BOOLEAN, lines : Seq(Nat)] /\ buffer'.lines \in {buffer.lines, <<>>}
  <2>1. CASE buffer' = buffer
    BY <2>1 DEF StreamInv, StreamTypes
  <2>2. CASE buffer' = [there |-> FALSE, lines |-> <<>>]
    BY <1>0, <2>2
  <2>3. CASE buffer' = [there |-> TRUE, lines |-> <<>>]
    BY <1>0, <2>3
  <2> QED BY <1>10, <2>1, <2>2, <2>3 DEF None
<1>2. /\ post' \subseteq [live : BOOLEAN, lines : Seq(Nat)]
      /\ \A r \in post' : r.live => r \in post
  BY DEF StreamInv, StreamTypes, LosingStep, StopStream, ExecuteFollow, ForgetBuffer, GetStream,
         StreamServerRestarts, LoseLines
<1>3. StreamTypes'
  BY <1>1, <1>2, <1>7, <1>9, <1>11 DEF StreamInv, StreamTypes
<1>4. ~late' => PlacesInOrder'
  BY <1>1, <1>2, <1>3, <1>7, <1>9, <1>11, LessInOrder DEF StreamInv
<1>5. ASSUME ~late', ~dropped' PROVE NoneIsMissing'
  <2>2. ~dropped
    BY <1>5 DEF LosingStep, StopStream, ExecuteFollow, ForgetBuffer, GetStream, StreamServerRestarts, LoseLines
  <2>3. NoneIsMissing /\ StreamTypes
    BY <1>1, <1>5, <2>2 DEF StreamInv
  <2>4. ~StopStream /\ ~ForgetBuffer /\ ~StreamServerRestarts
    BY <1>5 DEF StopStream, ForgetBuffer, StreamServerRestarts
  <2>5. CASE ExecuteFollow
    <3>1. todo = <<"follow_logs">> /\ journal.printed = 0
      BY <2>3, <2>5 DEF NoneIsMissing, ExecuteFollow
    <3>2. journal.taken = 0 /\ orders = <<>>
      BY <2>3, <3>1 DEF NoneIsMissing, StreamTypes
    <3>3. buffer.lines \in Seq(Nat) /\ list.lines \in Seq(Nat)
      BY <2>3 DEF StreamTypes
    <3>4. Len(buffer.lines) \in Nat /\ Len(list.lines) \in Nat
          /\ \A r \in post : r.lines \in Seq(Nat) /\ Len(r.lines) \in Nat
      BY <2>3, <3>3, LenProperties DEF StreamTypes
    <3>5. Len(buffer.lines) = 0
      <4>1. CASE \E r \in post : r.live
        <5>1. PICK r \in post : r.live
          BY <4>1
        <5>2. journal.taken = Len(list.lines) + Len(r.lines) + Len(buffer.lines)
          BY <2>3, <5>1 DEF NoneIsMissing
        <5>3. \A a, b, c \in Nat : 0 = a + b + c => c = 0
          OBVIOUS
        <5>4. Len(r.lines) \in Nat /\ Len(buffer.lines) \in Nat /\ Len(list.lines) \in Nat
          BY <3>4, <5>1
        <5> QED BY <3>2, <5>2, <5>3, <5>4
      <4>2. CASE \A r \in post : ~r.live
        <5>1. journal.taken = Len(list.lines) + Len(buffer.lines)
          BY <2>3, <4>2 DEF NoneIsMissing
        <5>3. \A a, c \in Nat : 0 = a + c => c = 0
          OBVIOUS
        <5>4. Len(buffer.lines) \in Nat /\ Len(list.lines) \in Nat
          BY <3>4
        <5> QED BY <3>2, <5>1, <5>3, <5>4
      <4> QED BY <4>1, <4>2
    <3>6. buffer.lines = <<>>
      BY <3>3, <3>5, EmptySeq
    <3>7. buffer'.lines = buffer.lines /\ journal'.taken = journal.taken /\ todo' = <<>>
          /\ UNCHANGED <<post, list, viewer, orders>>
      BY <1>7, <2>5, <3>1, <3>6 DEF ExecuteFollow
    <3> QED BY <2>3, <3>2, <3>7 DEF NoneIsMissing
  <2>6. CASE GetStream
    <3>1. buffer.lines = <<>> /\ buffer'.lines = buffer.lines
          /\ UNCHANGED <<journal, todo, post, listed, orders, list, viewer>>
      BY <1>5, <2>6 DEF GetStream
    <3> QED BY <2>3, <3>1 DEF NoneIsMissing
  <2>7. CASE \E r \in post : LoseLines(r)
    <3>1. PICK r \in post : LoseLines(r)
      BY <2>7
    <3>2. /\ r.live /\ r.lines = <<>>
          /\ post' \in {post \ {r}, (post \ {r}) \union {[r EXCEPT !.live = FALSE]}}
          /\ UNCHANGED <<journal, buffer, todo, listed, orders, list, viewer>>
      BY <1>5, <3>1 DEF LoseLines
    <3>3. r \in [live : BOOLEAN, lines : Seq(Nat)]
      BY <2>3 DEF StreamTypes
    <3>4. \A q \in post' : ~q.live /\ q.lines = <<>>
      <4>1. ASSUME NEW q \in post, q # r PROVE ~q.live /\ q.lines = <<>>
        BY <2>3, <3>2, <4>1 DEF NoneIsMissing, StreamTypes
      <4>2. ~[r EXCEPT !.live = FALSE].live /\ [r EXCEPT !.live = FALSE].lines = <<>>
        BY <3>2, <3>3
      <4> QED BY <3>2, <4>1, <4>2
    <3>5. Len(r.lines) = 0 /\ Len(list.lines) \in Nat /\ Len(buffer.lines) \in Nat
      BY <2>3, <3>2, EmptySeq, LenProperties DEF StreamTypes
    <3>6. journal.taken = Len(list.lines) + Len(buffer.lines)
      <4>1. journal.taken = Len(list.lines) + Len(r.lines) + Len(buffer.lines)
        BY <2>3, <3>2 DEF NoneIsMissing
      <4> QED BY <3>5, <4>1
    <3> QED BY <2>3, <3>2, <3>4, <3>6 DEF NoneIsMissing
  <2> QED BY <2>4, <2>5, <2>6, <2>7 DEF LosingStep
<1> QED BY <1>3, <1>4, <1>5 DEF StreamInv

LEMMA KeptAfter ==
    ASSUME NEW s \in Seq(Nat), NEW max \in Nat \ {0}, NEW n \in Nat, Rises(s), UpTo(s, n)
    PROVE  /\ Kept(s, max) \in Seq(Nat) /\ Rises(Kept(s, max)) /\ UpTo(Kept(s, max), n)
           /\ \A u : Below(u, s) => Below(u, Kept(s, max))
<1> DEFINE k == Kept(s, max)
<1>1. PICK d \in Nat : \A j \in DOMAIN k : j + d \in DOMAIN s /\ k[j] = s[j + d]
  BY KeptIsTheEnd
<1>2. k \in Seq(Nat)
  BY KeptIsTheEnd
<1>3. DOMAIN k = 1..Len(k) /\ Len(k) \in Nat
  BY <1>2, LenProperties
<1> HIDE DEF k
<1>4. Rises(k)
  <2> SUFFICES ASSUME NEW i \in DOMAIN k, NEW j \in DOMAIN k, i < j PROVE k[i] < k[j]
    BY DEF Rises
  <2>1. i + d < j + d
    BY <1>3
  <2> QED BY <1>1, <2>1 DEF Rises
<1>5. UpTo(k, n)
  BY <1>1 DEF UpTo
<1>6. \A u : Below(u, s) => Below(u, k)
  BY <1>1 DEF Below
<1> QED BY <1>2, <1>4, <1>5, <1>6 DEF k

\* The reader adds a line later than all that were read.
LEMMA ReadLineOK == StreamInv /\ ReadLine => StreamInv'
<1> SUFFICES ASSUME StreamInv, ReadLine PROVE StreamInv'
  OBVIOUS
<1> DEFINE lines == Append(buffer.lines, journal.taken + 1)
<1>1. /\ journal.taken < journal.printed /\ journal' = [journal EXCEPT !.taken = @ + 1]
      /\ buffer' = [there |-> TRUE, lines |-> Kept(lines, BufferMax)]
      /\ (~dropped' => ~dropped /\ ~(Len(lines) > BufferMax))
      /\ UNCHANGED <<todo, post, listed, orders, list, viewer, late>>
  BY DEF ReadLine
<1>2. /\ journal.taken \in Nat /\ journal.printed \in Nat /\ buffer.lines \in Seq(Nat) /\ list.lines \in Seq(Nat)
      /\ viewer.seen \in Seq(Nat) /\ \A r \in post : r.lines \in Seq(Nat)
  BY DEF StreamInv, StreamTypes
<1>3. BufferMax \in Nat \ {0}
  BY StreamAssumption
<1>4. /\ journal'.taken = journal.taken + 1 /\ journal'.printed = journal.printed /\ journal'.runs = journal.runs
      /\ journal'.read = journal.read /\ journal' \in [runs : BOOLEAN, read : BOOLEAN, printed : Nat, taken : Nat]
  <2>1. journal \in [runs : BOOLEAN, read : BOOLEAN, printed : Nat, taken : Nat] /\ journal.taken + 1 \in Nat
    BY <1>2 DEF StreamInv, StreamTypes
  <2> QED BY <1>1, <2>1
<1>5. lines \in Seq(Nat) /\ Len(lines) = Len(buffer.lines) + 1 /\ Len(buffer.lines) \in Nat
      /\ \A i \in 1..Len(lines) : lines[i] = IF i =< Len(buffer.lines) THEN buffer.lines[i] ELSE journal.taken + 1
  BY <1>2, AppendProperties, LenProperties
<1>6. Kept(lines, BufferMax) \in Seq(Nat) /\ (Len(lines) =< BufferMax => Kept(lines, BufferMax) = lines)
  BY <1>3, <1>5, KeptIsTheEnd
<1>7. StreamTypes'
  <2>1. buffer' \in [there : BOOLEAN, lines : Seq(Nat)]
    BY <1>1, <1>6
  <2>2. journal'.taken =< journal'.printed /\ (journal'.runs => journal'.read)
    BY <1>1, <1>2, <1>4 DEF StreamInv, StreamTypes
  <2> QED BY <1>1, <1>4, <2>1, <2>2 DEF StreamInv, StreamTypes
<1>8. ASSUME ~late' PROVE PlacesInOrder'
  <2>1. PlacesInOrder
    BY <1>1, <1>8 DEF StreamInv
  <2> DEFINE new == Kept(lines, BufferMax)
             taken == journal.taken
  <2>2. Rises(buffer.lines) /\ UpTo(buffer.lines, taken)
    BY <2>1 DEF PlacesInOrder
  <2>3. /\ Rises(lines) /\ UpTo(lines, taken + 1)
        /\ \A t \in Seq(Nat) : Below(t, buffer.lines) /\ UpTo(t, taken) => Below(t, lines)
    BY <1>2, <2>2, AppendedLine
  <2>4. taken + 1 \in Nat
    BY <1>2
  <2> HIDE DEF lines
  <2>5. Rises(new) /\ UpTo(new, taken + 1) /\ \A u : Below(u, lines) => Below(u, new)
    BY <1>3, <1>5, <2>3, <2>4, KeptAfter
  <2>6. \A t \in Seq(Nat) : UpTo(t, taken) => UpTo(t, taken + 1)
    <3> SUFFICES ASSUME NEW t \in Seq(Nat), UpTo(t, taken), NEW i \in DOMAIN t PROVE t[i] =< taken + 1
      BY DEF UpTo
    <3>1. t[i] \in Nat /\ t[i] =< taken
      BY ElementOfSeq DEF UpTo
    <3> QED BY <1>2, <3>1
  <2>7. buffer'.lines = new /\ journal'.taken = taken + 1
    BY <1>1, <1>4
  <2> HIDE DEF new, taken
  <2>8. Rises(buffer'.lines) /\ UpTo(buffer'.lines, journal'.taken)
    BY <2>5, <2>7
  <2>9. \A t \in Seq(Nat) : Below(t, buffer.lines) /\ UpTo(t, taken) => Below(t, buffer'.lines)
    BY <2>3, <2>5, <2>7
  <2>10. \A t \in Seq(Nat) : UpTo(t, taken) => UpTo(t, journal'.taken)
    BY <2>6, <2>7
  <2>11. /\ UpTo(viewer.seen, taken) /\ UpTo(list.lines, taken) /\ \A r \in post : r.live => UpTo(r.lines, taken)
    BY <2>1 DEF PlacesInOrder, taken
  <2> QED BY <1>1, <1>2, <2>1, <2>8, <2>9, <2>10, <2>11 DEF PlacesInOrder
<1>9. ASSUME ~late', ~dropped' PROVE NoneIsMissing'
  <2>1. NoneIsMissing /\ ~dropped
    BY <1>1, <1>9 DEF StreamInv
  <2>2. buffer'.lines = lines
    BY <1>1, <1>3, <1>5, <1>6, <1>9
  <2>3. DOMAIN lines = 1..Len(lines) /\ DOMAIN buffer.lines = 1..Len(buffer.lines)
    BY <1>2, <1>5, LenProperties
  <2> HIDE DEF lines
  <2>4. \A i \in DOMAIN buffer'.lines : buffer'.lines[i] = journal'.taken - Len(buffer'.lines) + i
    <3> DEFINE had == Len(buffer.lines)
               taken == journal.taken
    <3>1. /\ had \in Nat /\ taken \in Nat /\ journal'.taken = taken + 1 /\ buffer'.lines = lines
          /\ Len(lines) = had + 1 /\ DOMAIN lines = 1..had + 1
          /\ \A i \in DOMAIN buffer.lines : buffer.lines[i] = taken - had + i
      BY <1>2, <1>4, <1>5, <2>1, <2>2, <2>3 DEF NoneIsMissing
    <3>2. \A i \in 1..had + 1 : lines[i] = IF i =< had THEN buffer.lines[i] ELSE taken + 1
      BY <1>5, <3>1
    <3>3. DOMAIN buffer.lines = 1..had
      BY <2>3
    <3> HIDE DEF had, taken
    <3>4. ASSUME NEW i \in 1..had + 1 PROVE lines[i] = (taken + 1) - (had + 1) + i
      <4>1. CASE i =< had
        <5>1. i \in DOMAIN buffer.lines /\ lines[i] = buffer.lines[i]
          BY <3>1, <3>2, <3>3, <4>1
        <5>2. lines[i] = taken - had + i
          BY <3>1, <5>1
        <5> QED BY <3>1, <5>2
      <4>2. CASE i = had + 1
        <5>1. lines[i] = taken + 1
          BY <3>1, <3>2, <4>2
        <5> QED BY <3>1, <4>2, <5>1
      <4> QED BY <3>1, <4>1, <4>2
    <3> QED BY <3>1, <3>4
  <2>5. todo = <<>> /\ orders = <<>>
    BY <1>1, <1>2, <2>1 DEF NoneIsMissing
  <2>6. Len(list.lines) \in Nat /\ \A r \in post : Len(r.lines) \in Nat
    BY <1>2, LenProperties
  <2>7. \A r \in post : r.live => journal'.taken = Len(list.lines) + Len(r.lines) + Len(buffer'.lines)
    <3> SUFFICES ASSUME NEW r \in post, r.live
                 PROVE  journal'.taken = Len(list.lines) + Len(r.lines) + Len(buffer'.lines)
      OBVIOUS
    <3>1. journal.taken = Len(list.lines) + Len(r.lines) + Len(buffer.lines)
      BY <2>1 DEF NoneIsMissing
    <3>2. Len(list.lines) \in Nat /\ Len(r.lines) \in Nat /\ Len(buffer.lines) \in Nat
      BY <1>5, <2>6
    <3>3. journal'.taken = journal.taken + 1 /\ Len(buffer'.lines) = Len(buffer.lines) + 1
      BY <1>4, <1>5, <2>2
    <3> DEFINE a == Len(list.lines)
               b == Len(r.lines)
               c == Len(buffer.lines)
    <3>4. a \in Nat /\ b \in Nat /\ c \in Nat /\ journal'.taken = (a + b + c) + 1 /\ Len(buffer'.lines) = c + 1
      BY <3>1, <3>2, <3>3
    <3> HIDE DEF a, b, c
    <3>5. journal'.taken = a + b + (c + 1)
      BY <3>4
    <3> QED BY <3>4, <3>5 DEF a, b
  <2>8. (\A r \in post : ~r.live) => journal'.taken = Len(list.lines) + Len(buffer'.lines)
    <3>1. (\A r \in post : ~r.live) => journal.taken = Len(list.lines) + Len(buffer.lines)
      BY <2>1 DEF NoneIsMissing
    <3>2. Len(list.lines) \in Nat /\ Len(buffer.lines) \in Nat
      BY <1>5, <2>6
    <3>3. journal'.taken = journal.taken + 1 /\ Len(buffer'.lines) = Len(buffer.lines) + 1
      BY <1>4, <1>5, <2>2
    <3>4. \A a, c \in Nat : (a + c) + 1 = a + (c + 1)
      OBVIOUS
    <3> QED BY <3>1, <3>2, <3>3, <3>4
  <2> QED BY <1>1, <2>1, <2>4, <2>5, <2>7, <2>8 DEF NoneIsMissing
<1> QED BY <1>7, <1>8, <1>9 DEF StreamInv

\* The report takes the buffer's place.
LEMMA SendReportOK == StreamInv /\ SendReport => StreamInv'
<1> SUFFICES ASSUME StreamInv, SendReport PROVE StreamInv'
  OBVIOUS
<1> DEFINE sent == [live |-> TRUE, lines |-> buffer.lines]
<1>1. /\ \A r \in post : ~r.live
      /\ post' = post \union {sent} /\ buffer' = [buffer EXCEPT !.lines = <<>>]
      /\ UNCHANGED <<journal, active, todo, listed, orders, list, viewer, dropped, late, mischief>>
  BY DEF SendReport
<1>2. <<>> \in Seq(Nat) /\ DOMAIN <<>> = {} /\ Len(<<>>) = 0
  BY EmptySeq
<1>3. buffer \in [there : BOOLEAN, lines : Seq(Nat)] /\ buffer.lines \in Seq(Nat)
  BY DEF StreamInv, StreamTypes
<1>4. sent \in [live : BOOLEAN, lines : Seq(Nat)] /\ sent.live /\ sent.lines = buffer.lines
  BY <1>3
<1>5. buffer' \in [there : BOOLEAN, lines : Seq(Nat)] /\ buffer'.lines = <<>>
  BY <1>1, <1>2, <1>3
<1> HIDE DEF sent
<1>6. \A r \in post' : r.live => r = sent
  BY <1>1
<1>7. StreamTypes'
  BY <1>1, <1>4, <1>5, <1>6 DEF StreamInv, StreamTypes
<1>8. ASSUME ~late' PROVE PlacesInOrder'
  <2>1. PlacesInOrder
    BY <1>1, <1>8 DEF StreamInv
  <2>2. /\ Rises(buffer'.lines) /\ UpTo(buffer'.lines, journal.taken)
        /\ \A t : Below(t, buffer'.lines)
    BY <1>2, <1>5 DEF Rises, UpTo, Below
  <2> QED BY <1>1, <1>4, <1>6, <2>1, <2>2 DEF PlacesInOrder
<1>9. ASSUME ~late', ~dropped' PROVE NoneIsMissing'
  <2>1. NoneIsMissing
    BY <1>1, <1>9 DEF StreamInv
  <2>2. Len(list.lines) \in Nat /\ Len(buffer.lines) \in Nat /\ list.lines \in Seq(Nat)
    BY <1>3, LenProperties DEF StreamInv, StreamTypes
  <2>3. journal.taken = Len(list.lines) + Len(buffer.lines)
    BY <1>1, <2>1 DEF NoneIsMissing
  <2>4. \A i \in DOMAIN buffer.lines : buffer.lines[i] = Len(list.lines) + i
    <3>1. DOMAIN buffer.lines = 1..Len(buffer.lines)
      BY <1>3, LenProperties
    <3> QED BY <2>1, <2>2, <2>3, <3>1 DEF NoneIsMissing
  <2>5. journal.taken = Len(list.lines) + Len(sent.lines) + Len(buffer'.lines)
    BY <1>2, <1>4, <1>5, <2>2, <2>3
  <2>6. sent \in post' /\ sent.live
    BY <1>1, <1>4
  <2>7. \A r \in post' : r = sent \/ (r \in post /\ ~r.live)
    BY <1>1
  <2>8. \A i \in DOMAIN buffer'.lines : buffer'.lines[i] = journal.taken - Len(buffer'.lines) + i
    BY <1>2, <1>5
  <2>9. UNCHANGED <<journal, todo, listed, orders, list, viewer>>
    BY <1>1
  <2>10. \A r \in post' : IF r.live THEN /\ \A i \in DOMAIN r.lines : r.lines[i] = Len(list.lines) + i
                                      /\ journal.taken = Len(list.lines) + Len(r.lines) + Len(buffer'.lines)
                          ELSE r.lines = <<>>
    <3>1. \A i \in DOMAIN sent.lines : sent.lines[i] = Len(list.lines) + i
      BY <1>4, <2>4
    <3>2. \A r \in post : ~r.live => r.lines = <<>>
      BY <2>1 DEF NoneIsMissing
    <3> QED BY <2>5, <2>6, <2>7, <3>1, <3>2
  <2> QED BY <2>1, <2>6, <2>8, <2>9, <2>10 DEF NoneIsMissing
<1> QED BY <1>7, <1>8, <1>9 DEF StreamInv

\* A list that grows by later lines, all of it kept.
LEMMA JoinedInOrder ==
    ASSUME NEW s \in Seq(Nat), NEW t \in Seq(Nat), NEW n \in Nat,
           Rises(s), Rises(t), Below(s, t), UpTo(s, n), UpTo(t, n)
    PROVE  /\ s \o t \in Seq(Nat) /\ Rises(s \o t) /\ UpTo(s \o t, n)
           /\ \A u \in Seq(Nat) : Below(s, u) /\ Below(t, u) => Below(s \o t, u)
<1>1. s \o t \in Seq(Nat) /\ Len(s \o t) \in Nat
  BY ConcatProperties, LenProperties
<1>2. Len(s \o t) + 1 \in Nat \ {0} /\ Len(s \o t) =< Len(s \o t) + 1
  BY <1>1
<1>3. Kept(s \o t, Len(s \o t) + 1) = s \o t
  BY <1>1, <1>2, KeptIsTheEnd
<1>4. /\ Rises(Kept(s \o t, Len(s \o t) + 1)) /\ UpTo(Kept(s \o t, Len(s \o t) + 1), n)
      /\ \A u \in Seq(Nat) : Below(s, u) /\ Below(t, u) => Below(Kept(s \o t, Len(s \o t) + 1), u)
  BY <1>2, KeptInOrder
<1> QED BY <1>1, <1>3, <1>4

\* What lies behind a cursor.
LEMMA BehindCursor ==
    ASSUME NEW s \in Seq(Nat), NEW c \in Nat
    PROVE  /\ SubSeq(s, c + 1, Len(s)) \in Seq(Nat)
           /\ c =< Len(s) => c + Len(SubSeq(s, c + 1, Len(s))) = Len(s)
           /\ \A j \in DOMAIN SubSeq(s, c + 1, Len(s)) :
                 j \in Nat \ {0} /\ c + j \in DOMAIN s /\ SubSeq(s, c + 1, Len(s))[j] = s[c + j]
<1> DEFINE new == SubSeq(s, c + 1, Len(s))
<1>1. Len(s) \in Nat /\ DOMAIN s = 1..Len(s) /\ c + 1 \in Int /\ Len(s) \in Int
  BY LenProperties
<1>2. \A i \in c + 1..Len(s) : s[i] \in Nat
  <2>1. \A i \in c + 1..Len(s) : i \in 1..Len(s)
    BY <1>1
  <2> QED BY <2>1, ElementOfSeq
<1>3. /\ new \in Seq(Nat)
      /\ Len(new) = IF c + 1 =< Len(s) THEN Len(s) - (c + 1) + 1 ELSE 0
      /\ \A j \in 1..Len(s) - (c + 1) + 1 : new[j] = s[(c + 1) + j - 1]
  BY <1>1, <1>2, SubSeqProperties
<1>4. DOMAIN new = 1..Len(new)
  BY <1>3, LenProperties
<1> HIDE DEF new
<1>5. Len(s) \in Nat /\ (Len(new) = IF c + 1 =< Len(s) THEN Len(s) - (c + 1) + 1 ELSE 0)
  BY <1>1, <1>3
<1>6. c =< Len(s) => c + Len(new) = Len(s)
  BY <1>5
<1>7. ASSUME NEW j \in DOMAIN new PROVE j \in Nat \ {0} /\ c + j \in DOMAIN s /\ new[j] = s[c + j]
  <2>1. j \in 1..Len(new)
    BY <1>4
  <2>2. j \in Nat \ {0} /\ Len(new) \in Nat /\ j =< Len(new)
    BY <1>3, <2>1, LenProperties
  <2>3. c + 1 =< Len(s) /\ Len(new) = Len(s) - c
    BY <1>5, <2>2
  <2>4. /\ j \in Nat \ {0} /\ c + j \in 1..Len(s) /\ j \in 1..Len(s) - (c + 1) + 1
        /\ (c + 1) + j - 1 = c + j
    BY <1>5, <2>2, <2>3
  <2> QED BY <1>1, <1>3, <2>4
<1> QED BY <1>3, <1>6, <1>7 DEF new

\* The browser is given what lies behind its cursor.
LEMMA PollOK == StreamInv /\ Poll => StreamInv'
<1> SUFFICES ASSUME StreamInv, Poll PROVE StreamInv'
  OBVIOUS
<1> DEFINE from == viewer.cursor
           lines == list.lines
           seen == viewer.seen
           new == SubSeq(lines, from + 1, Len(lines))
<1>1. /\ viewer' = IF list.there THEN [cursor |-> Len(lines), seen |-> seen \o new]
                   ELSE [viewer EXCEPT !.cursor = 0]
      /\ UNCHANGED <<journal, buffer, todo, post, listed, orders, list, dropped, late>>
  BY DEF Poll, Cursor
<1>2. /\ from \in Nat /\ lines \in Seq(Nat) /\ seen \in Seq(Nat) /\ Len(lines) \in Nat /\ Len(seen) \in Nat
      /\ DOMAIN lines = 1..Len(lines) /\ DOMAIN seen = 1..Len(seen) /\ (~list.there => lines = <<>>)
  BY LenProperties DEF StreamInv, StreamTypes
<1>3. /\ new \in Seq(Nat) /\ DOMAIN new = 1..Len(new) /\ Len(new) \in Nat
      /\ from =< Len(lines) => from + Len(new) = Len(lines)
      /\ \A j \in DOMAIN new : j \in Nat \ {0} /\ from + j \in DOMAIN lines /\ new[j] = lines[from + j]
  <2>1. from \in Nat /\ lines \in Seq(Nat)
    BY <1>2
  <2> HIDE DEF from, lines, seen
  <2>2. /\ new \in Seq(Nat)
        /\ from =< Len(lines) => from + Len(new) = Len(lines)
        /\ \A j \in DOMAIN new : j \in Nat \ {0} /\ from + j \in DOMAIN lines /\ new[j] = lines[from + j]
    BY <2>1, BehindCursor
  <2> HIDE DEF new
  <2> QED BY <2>2, LenProperties
<1> HIDE DEF new, from, lines, seen
<1>4. \/ viewer'.cursor = Len(lines) /\ viewer'.seen = seen \o new /\ list.there
      \/ viewer'.cursor = 0 /\ viewer'.seen = seen /\ ~list.there
  <2>1. viewer.seen = seen /\ "cursor" \in DOMAIN viewer /\ DOMAIN viewer = {"cursor", "seen"}
    BY DEF StreamInv, StreamTypes, seen
  <2> QED BY <1>1, <2>1
<1>5. viewer' \in [cursor : Nat, seen : Seq(Nat)]
  <2>1. seen \o new \in Seq(Nat)
    BY <1>2, <1>3, ConcatProperties
  <2>2. viewer \in [cursor : Nat, seen : Seq(Nat)]
    BY DEF StreamInv, StreamTypes
  <2> QED BY <1>1, <1>2, <2>1, <2>2
<1>6. StreamTypes'
  BY <1>1, <1>5 DEF StreamInv, StreamTypes
<1>7. ASSUME ~late' PROVE PlacesInOrder'
  <2>1. PlacesInOrder
    BY <1>1, <1>7 DEF StreamInv
  <2>2. journal.taken \in Nat /\ Rises(seen) /\ Rises(lines) /\ UpTo(seen, journal.taken) /\ UpTo(lines, journal.taken)
        /\ BelowFrom(from, seen, lines)
    BY <2>1 DEF PlacesInOrder, StreamInv, StreamTypes, seen, lines, from
  <2>3. Rises(new) /\ UpTo(new, journal.taken)
    <3>1. \A i, j \in DOMAIN new : i < j => from + i < from + j
      <4>1. from \in Nat /\ \A i \in DOMAIN new : i \in Nat
        BY <1>2, <1>3
      <4> QED BY <4>1
    <3> QED BY <1>3, <2>2, <3>1 DEF Rises, UpTo
  <2>4. Below(seen, new)
    <3>1. \A j \in DOMAIN new : from + j > from
      <4>1. from \in Nat /\ \A i \in DOMAIN new : i \in Nat \ {0}
        BY <1>2, <1>3
      <4> QED BY <4>1
    <3> QED BY <1>3, <2>2, <3>1 DEF Below, BelowFrom
  <2>5. \A u : Below(lines, u) => Below(new, u)
    BY <1>3 DEF Below
  <2>6. /\ Rises(seen \o new) /\ UpTo(seen \o new, journal.taken)
        /\ \A u \in Seq(Nat) : Below(seen, u) /\ Below(new, u) => Below(seen \o new, u)
    BY <1>2, <1>3, <2>2, <2>3, <2>4, JoinedInOrder
  <2>7. /\ Rises(viewer'.seen) /\ UpTo(viewer'.seen, journal.taken)
        /\ \A u \in Seq(Nat) : Below(seen, u) /\ Below(lines, u) => Below(viewer'.seen, u)
    BY <1>4, <2>2, <2>5, <2>6
  <2>8. BelowFrom(viewer'.cursor, viewer'.seen, lines)
    <3>1. CASE viewer'.cursor = Len(lines)
      <4>1. \A j \in DOMAIN lines : ~(j > Len(lines))
        BY <1>2
      <4> QED BY <3>1, <4>1 DEF BelowFrom
    <3>2. CASE ~list.there
      <4>1. DOMAIN lines = {}
        BY <1>2, <3>2, EmptySeq
      <4> QED BY <4>1 DEF BelowFrom
    <3> QED BY <1>4, <3>1, <3>2
  <2>9. buffer.lines \in Seq(Nat) /\ \A r \in post : r.lines \in Seq(Nat)
    BY DEF StreamInv, StreamTypes
  <2>10. UNCHANGED <<journal, buffer, post, list>>
    BY <1>1
  <2> QED BY <2>1, <2>7, <2>8, <2>9, <2>10 DEF PlacesInOrder, lines, seen
<1>8. ASSUME ~late', ~dropped' PROVE NoneIsMissing'
  <2>1. NoneIsMissing
    BY <1>1, <1>8 DEF StreamInv
  <2>2. /\ \A i \in DOMAIN seen : seen[i] = i
        /\ \A i \in DOMAIN lines : lines[i] = i
        /\ from = Len(seen) /\ Len(seen) =< Len(lines)
    BY <2>1 DEF NoneIsMissing, seen, lines, from
  <2>3. /\ \A i \in DOMAIN viewer'.seen : viewer'.seen[i] = i
        /\ viewer'.cursor = Len(viewer'.seen) /\ Len(viewer'.seen) =< Len(lines)
    <3>1. CASE viewer'.cursor = Len(lines) /\ viewer'.seen = seen \o new
      <4>1. /\ Len(seen \o new) = Len(seen) + Len(new) /\ seen \o new \in Seq(Nat)
            /\ \A i \in 1..(Len(seen) + Len(new)) :
                  (seen \o new)[i] = IF i =< Len(seen) THEN seen[i] ELSE new[i - Len(seen)]
        <5>1. seen \in Seq(Nat) /\ new \in Seq(Nat)
          BY <1>2, <1>3
        <5> QED BY <5>1, ConcatProperties
      <4>2. DOMAIN (seen \o new) = 1..Len(seen) + Len(new)
        BY <4>1, LenProperties
      <4>3. Len(seen) + Len(new) = Len(lines)
        BY <1>2, <1>3, <2>2
      <4>4. ASSUME NEW i \in 1..Len(seen) + Len(new) PROVE (seen \o new)[i] = i
        <5>1. CASE i =< Len(seen)
          <6>1. i \in DOMAIN seen
            BY <1>2, <5>1
          <6> QED BY <2>2, <4>1, <5>1, <6>1
        <5>2. CASE ~(i =< Len(seen))
          <6>1. i - Len(seen) \in DOMAIN new /\ from + (i - Len(seen)) = i
            BY <1>2, <1>3, <2>2, <5>2
          <6> QED BY <1>3, <2>2, <4>1, <5>2, <6>1
        <5> QED BY <5>1, <5>2
      <4>5. Len(lines) =< Len(lines)
        BY <1>2
      <4> QED BY <3>1, <4>1, <4>2, <4>3, <4>4, <4>5
    <3>2. CASE viewer'.cursor = 0 /\ viewer'.seen = seen /\ ~list.there
      <4>1. Len(lines) = 0
        BY <1>2, <3>2, EmptySeq
      <4>2. Len(seen) = 0
        BY <1>2, <2>2, <4>1
      <4> QED BY <2>2, <3>2, <4>2
    <3> QED BY <1>4, <3>1, <3>2
  <2>4. UNCHANGED <<journal, buffer, todo, post, listed, orders, list>>
    BY <1>1
  <2> QED BY <2>1, <2>3, <2>4 DEF NoneIsMissing, lines
<1> QED BY <1>6, <1>7, <1>8 DEF StreamInv

\* The server appends the report's lines to its list.
LEMMA HandleLinesOK ==
    ASSUME StreamInv, NEW r \in post, HandleLines(r)
    PROVE  StreamInv'
<1> DEFINE lines == list.lines \o r.lines
<1>1. /\ post' = post \ {r}
      /\ list' = IF r.lines = <<>> THEN list ELSE [there |-> TRUE, lines |-> Kept(lines, LinesMax)]
      /\ UNCHANGED <<journal, active, buffer, listed, viewer>>
      /\ orders' = <<>> /\ todo' \in {todo, orders}
  BY DEF HandleLines
<1>2. /\ ~dropped' => ~dropped /\ ~(Len(lines) > LinesMax)
      /\ ~late' => ~late /\ (r.live \/ r.lines = <<>>)
  BY DEF HandleLines
<1>3. list.lines \in Seq(Nat) /\ r.lines \in Seq(Nat)
  BY DEF StreamInv, StreamTypes
<1>4. LinesMax \in Nat \ {0}
  BY StreamAssumption
<1>5. lines \in Seq(Nat) /\ Len(lines) = Len(list.lines) + Len(r.lines)
  BY <1>3, ConcatProperties
<1>6. Kept(lines, LinesMax) \in Seq(Nat) /\ (Len(lines) =< LinesMax => Kept(lines, LinesMax) = lines)
  BY <1>4, <1>5, KeptIsTheEnd
<1>7. list' \in [there : BOOLEAN, lines : Seq(Nat)] /\ (~list'.there => list'.lines = <<>>)
  <2>1. CASE r.lines = <<>>
    BY <1>1, <2>1 DEF StreamInv, StreamTypes
  <2>2. CASE list' = [there |-> TRUE, lines |-> Kept(lines, LinesMax)]
    BY <1>6, <2>2
  <2> QED BY <1>1, <2>1, <2>2
<1>8. StreamTypes'
  BY <1>1, <1>7 DEF StreamInv, StreamTypes
<1>9. ASSUME ~late' PROVE PlacesInOrder'
  <2>1. PlacesInOrder
    BY <1>2, <1>9 DEF StreamInv
  <2>2. \A q \in post' : q \in post /\ (r.live => ~q.live)
    BY <1>1 DEF StreamInv, StreamTypes
  <2>3. CASE list' = list
    BY <1>1, <2>1, <2>2, <2>3 DEF PlacesInOrder
  <2>4. CASE r.live /\ list'.lines = Kept(lines, LinesMax)
    <3>1. /\ journal.taken \in Nat /\ viewer.cursor \in Nat /\ viewer.seen \in Seq(Nat)
          /\ buffer.lines \in Seq(Nat)
      BY DEF StreamInv, StreamTypes
    <3>2. /\ Rises(list.lines) /\ UpTo(list.lines, journal.taken) /\ Below(list.lines, r.lines)
          /\ Rises(r.lines) /\ UpTo(r.lines, journal.taken) /\ Below(r.lines, buffer.lines)
          /\ Below(list.lines, buffer.lines) /\ Below(viewer.seen, r.lines)
          /\ BelowFrom(viewer.cursor, viewer.seen, list.lines)
      BY <2>1, <2>4 DEF PlacesInOrder
    <3>3. /\ Rises(Kept(lines, LinesMax)) /\ UpTo(Kept(lines, LinesMax), journal.taken)
          /\ \A u \in Seq(Nat) : Below(list.lines, u) /\ Below(r.lines, u) => Below(Kept(lines, LinesMax), u)
          /\ \A u \in Seq(Nat), c \in Nat :
                BelowFrom(c, u, list.lines) /\ Below(u, r.lines) => BelowFrom(c, u, Kept(lines, LinesMax))
      BY <1>3, <1>4, <3>1, <3>2, KeptInOrder
    <3> HIDE DEF lines
    <3>4. Rises(list'.lines) /\ UpTo(list'.lines, journal.taken) /\ Below(list'.lines, buffer.lines)
          /\ BelowFrom(viewer.cursor, viewer.seen, list'.lines)
      BY <2>4, <3>1, <3>2, <3>3
    <3>5. \A q \in post' : ~q.live
      BY <2>2, <2>4
    <3>6. UNCHANGED <<journal, buffer, viewer>>
      BY <1>1
    <3> QED BY <2>1, <3>4, <3>5, <3>6 DEF PlacesInOrder
  <2>5. r.lines = <<>> => list' = list
    BY <1>1
  <2>6. r.lines # <<>> => list'.lines = Kept(lines, LinesMax)
    BY <1>1
  <2>7. r.live \/ r.lines = <<>>
    BY <1>2, <1>9
  <2> HIDE DEF lines
  <2> QED BY <2>3, <2>4, <2>5, <2>6, <2>7
<1>10. ASSUME ~late', ~dropped' PROVE NoneIsMissing'
  <2>1. NoneIsMissing
    BY <1>2, <1>10 DEF StreamInv
  <2>2. \A q \in post' : q \in post /\ (r.live => ~q.live)
    BY <1>1 DEF StreamInv, StreamTypes
  <2>3. Len(lines) =< LinesMax
    <3>1. ~(Len(lines) > LinesMax) /\ Len(lines) \in Nat
      BY <1>2, <1>5, <1>10, LenProperties
    <3>2. \A x, y \in Nat : ~(x > y) => x =< y
      OBVIOUS
    <3> QED BY <1>4, <3>1, <3>2
  <2>4. UNCHANGED <<journal, buffer, listed, viewer>> /\ orders' = <<>> /\ todo' \in {todo, orders}
    BY <1>1
  <2>5. /\ todo' \in {<<>>, <<"follow_logs">>} /\ orders' \in {<<>>, <<"follow_logs">>}
        /\ todo' = <<>> \/ orders' = <<>>
        /\ (todo' # <<>> \/ orders' # <<>>) => listed' /\ journal'.printed = 0 /\ ~journal'.runs
    BY <2>1, <2>4 DEF NoneIsMissing
  <2>6. CASE ~r.live
    <3>1. r.lines = <<>>
      BY <1>2, <1>10, <2>6
    <3>2. list' = list
      BY <1>1, <3>1
    <3>3. (\A q \in post' : ~q.live) => \A q \in post : ~q.live
      BY <1>1, <2>6
    <3> QED BY <2>1, <2>2, <2>4, <2>5, <3>2, <3>3 DEF NoneIsMissing
  <2>7. CASE r.live
    <3>1. /\ \A i \in DOMAIN r.lines : r.lines[i] = Len(list.lines) + i
          /\ journal.taken = Len(list.lines) + Len(r.lines) + Len(buffer.lines)
          /\ \A i \in DOMAIN list.lines : list.lines[i] = i
      BY <2>1, <2>7 DEF NoneIsMissing
    <3>2. list'.lines = lines
      <4>1. CASE r.lines = <<>>
        <5>1. lines = list.lines
          BY <1>3, <4>1, ConcatEmptySeq
        <5> QED BY <1>1, <4>1, <5>1
      <4>2. CASE r.lines # <<>>
        BY <1>1, <1>6, <2>3, <4>2
      <4> QED BY <4>1, <4>2
    <3>3. DOMAIN lines = 1..(Len(list.lines) + Len(r.lines)) /\ DOMAIN list.lines = 1..Len(list.lines)
          /\ DOMAIN r.lines = 1..Len(r.lines)
      BY <1>3, <1>5, LenProperties
    <3>8. Len(list.lines) \in Nat /\ Len(r.lines) \in Nat /\ Len(buffer.lines) \in Nat
      BY <1>3, LenProperties DEF StreamInv, StreamTypes
    <3>9. \A i \in 1..(Len(list.lines) + Len(r.lines)) :
            lines[i] = IF i =< Len(list.lines) THEN list.lines[i] ELSE r.lines[i - Len(list.lines)]
      BY <1>3, ConcatProperties
    <3> HIDE DEF lines
    <3>4. ASSUME NEW i \in DOMAIN lines PROVE lines[i] = i
      <4>1. i \in 1..(Len(list.lines) + Len(r.lines)) /\ Len(list.lines) \in Nat /\ Len(r.lines) \in Nat
        BY <3>3, <3>8
      <4>2. CASE i =< Len(list.lines)
        <5>1. i \in DOMAIN list.lines
          <6>1. i \in 1..Len(list.lines)
          BY <4>1, <4>2
        <6> QED BY <3>3, <6>1
        <5>2. lines[i] = list.lines[i]
          BY <3>9, <4>1, <4>2
        <5> QED BY <3>1, <5>1, <5>2
      <4>3. CASE ~(i =< Len(list.lines))
        <5>1. i - Len(list.lines) \in 1..Len(r.lines) /\ Len(list.lines) + (i - Len(list.lines)) = i
          <6> DEFINE n == Len(list.lines)
                     k == Len(r.lines)
          <6>1. n \in Nat /\ k \in Nat /\ i \in 1..(n + k) /\ ~(i =< n)
            BY <4>1, <4>3
          <6> HIDE DEF n, k
          <6>2. i - n \in 1..k /\ n + (i - n) = i
            BY <6>1
          <6> QED BY <6>2 DEF n, k
        <5>2. r.lines[i - Len(list.lines)] = i
          BY <3>1, <3>3, <5>1
        <5>3. lines[i] = r.lines[i - Len(list.lines)]
          BY <3>9, <4>1, <4>3
        <5> QED BY <5>2, <5>3
      <4> QED BY <4>2, <4>3
    <3>5. journal.taken = Len(lines) + Len(buffer.lines)
      BY <1>5, <3>1, <3>8
    <3>6. Len(viewer.seen) =< Len(lines)
      <4>1. Len(viewer.seen) =< Len(list.lines) /\ Len(viewer.seen) \in Nat
        BY <2>1, LenProperties DEF NoneIsMissing, StreamInv, StreamTypes
      <4>2. \A x, y, z \in Nat : x =< y => x =< y + z
        OBVIOUS
      <4> QED BY <1>5, <3>8, <4>1, <4>2
    <3>7. \A q \in post' : ~q.live /\ q.lines = <<>>
      BY <2>1, <2>2, <2>7 DEF NoneIsMissing
    <3> QED BY <2>1, <2>4, <2>5, <3>2, <3>4, <3>5, <3>6, <3>7 DEF NoneIsMissing
  <2> QED BY <2>6, <2>7
<1> QED BY <1>8, <1>9, <1>10 DEF StreamInv

LEMMA StreamStepOK == StreamInv /\ [StreamNext]_streamVars => StreamInv'
<1> SUFFICES ASSUME StreamInv, [StreamNext]_streamVars PROVE StreamInv'
  OBVIOUS
<1>1. CASE QuietStep
  BY <1>1, QuietStepOK
<1>2. CASE LosingStep
  BY <1>2, LosingStepOK
<1>3. CASE Poll \/ ReadLine \/ SendReport
  BY <1>3, PollOK, ReadLineOK, SendReportOK
<1>4. CASE \E r \in post : HandleLines(r)
  BY <1>4, HandleLinesOK
<1> QED BY <1>1, <1>2, <1>3, <1>4 DEF StreamNext, QuietStep, LosingStep

\* The browser gets the lines in the order they were printed and each once,
\* and misses none until one is dropped, for any caps, losses and restarts.
THEOREM LinesComeInOrder == StreamSpec => []LinesInOrder
<1>1. StreamInv => LinesInOrder
  BY DEF StreamInv, PlacesInOrder, NoneIsMissing, LinesInOrder, Rises
<1> QED BY <1>1, StreamInitOK, StreamStepOK, PTL DEF StreamSpec

-----------------------------------------------------------------------------
(***************************************************************************)
(* Types.  What the components above keep beyond the parts of their types  *)
(* that their invariants needed.                                           *)
(***************************************************************************)

LEMMA DrainedBeat ==
    ASSUME AgentHealTypeOK
    PROVE  Drained \in [at : {"report", "wait", "evaluate", "verify"}, rules : SUBSET HealRule,
                        since : 0..HealClock, measured : SUBSET HealRule]
  BY AgentHealAssumption DEF Drained

\* What the agent and the operator change has its type.
LEMMA AgentHealTypeStep ==
    ASSUME AgentHealInv, AgentHealInv', AgentHealTypeOK, [AgentHealNext]_agentHealVars
    PROVE  AgentHealTypeOK'
<1> DEFINE Beats == [at : {"report", "wait", "evaluate", "verify"}, rules : SUBSET HealRule,
                     since : 0..HealClock, measured : SUBSET HealRule]
<1>1. /\ healed' \in 0..Heals /\ reports' \subseteq Heal /\ ledger' \in [Heal -> 0..2]
      /\ {HealPause, Heals, HealClock, HealFaults} \subseteq Nat
      /\ reports \subseteq Heal /\ Drained \in Beats
  <2>1. ledger' \in [Heal -> {0, 1}] /\ healed' \in 0..Heals /\ reports' \subseteq 1..healed'
    BY DEF AgentHealInv, AgentHealTypes
  <2>2. reports' \subseteq Heal /\ Drained \in Beats
    BY <2>1, AgentHealAssumption, DrainedBeat DEF Heal
  <2> QED BY <2>1, <2>2, AgentHealAssumption DEF AgentHealTypeOK
<1>2. hour' \in 0..HealClock /\ faulty' \in 0..HealFaults
  <2>1. hour' = hour \/ (hour < HealClock /\ hour' = hour + 1)
    BY Zenon DEF AgentHealNext, agentHealVars, HourPasses, PostHeals, ReportHeal, VerifyRaises,
       EvaluationEnds, HealAgentRestarts, ConditionChanges, TrustChanges, HealRuleNow, PassRule,
       IngestHeals, PostFails, IngestFails
  <2>2. faulty' = faulty \/ Fails
    BY Zenon DEF AgentHealNext, agentHealVars, HourPasses, PostHeals, ReportHeal, VerifyRaises,
       EvaluationEnds, HealAgentRestarts, ConditionChanges, TrustChanges, HealRuleNow, PassRule,
       IngestHeals, PostFails, IngestFails
  <2>3. hour \in 0..HealClock /\ faulty \in 0..HealFaults
    BY DEF AgentHealTypeOK
  <2> QED BY <1>1, <2>1, <2>2, <2>3 DEF Fails
<1>3. {trusted', policy', firing'} \subseteq SUBSET HealRule
  <2>1. {trusted, policy, firing} \subseteq SUBSET HealRule
    BY DEF AgentHealTypeOK
  <2>2. trusted' = trusted \/ \E r \in HealRule : trusted' = trusted \ {r} \/ trusted' = trusted \union {r}
    <3>1. trusted' = trusted \/ \E r \in HealRule : TrustChanges(r)
      BY Zenon DEF AgentHealNext, agentHealVars, HourPasses, PostHeals, ReportHeal, VerifyRaises,
         EvaluationEnds, HealAgentRestarts, ConditionChanges, TrustChanges, HealRuleNow, PassRule,
         IngestHeals, PostFails, IngestFails
    <3> QED BY <3>1 DEF TrustChanges
  <2>3. firing' = firing \/ \E r \in HealRule : firing' = firing \ {r} \/ firing' = firing \union {r}
    <3>1. firing' = firing \/ \E r \in HealRule : ConditionChanges(r)
      BY Zenon DEF AgentHealNext, agentHealVars, HourPasses, PostHeals, ReportHeal, VerifyRaises,
         EvaluationEnds, HealAgentRestarts, ConditionChanges, TrustChanges, HealRuleNow, PassRule,
         IngestHeals, PostFails, IngestFails
    <3> QED BY <3>1 DEF ConditionChanges
  <2>4. policy' \in {policy, trusted, {}}
    BY DEF Answered, AgentHealNext, agentHealVars, HourPasses, PostHeals, ReportHeal, VerifyRaises,
       EvaluationEnds, HealAgentRestarts, ConditionChanges, TrustChanges, HealRuleNow, PassRule,
       IngestHeals, PostFails, IngestFails
  <2> QED BY <2>1, <2>2, <2>3, <2>4
<1>4. resumes' \in [HealRule -> 0..HealClock + HealPause]
  <2>1. resumes \in [HealRule -> 0..HealClock + HealPause] /\ beat.since \in 0..HealClock
    BY DEF AgentHealTypeOK
  <2>2. \/ resumes' = resumes \/ resumes' = [r \in HealRule |-> 0]
        \/ \E r \in HealRule : resumes' = [resumes EXCEPT ![r] = beat.since + HealPause]
    BY Zenon DEF AgentHealNext, agentHealVars, HourPasses, PostHeals, ReportHeal, VerifyRaises,
       EvaluationEnds, HealAgentRestarts, ConditionChanges, TrustChanges, HealRuleNow, PassRule,
       IngestHeals, PostFails, IngestFails
  <2> QED BY <1>1, <2>1, <2>2
<1>5. beat' \in Beats
  <2>1. beat \in Beats
    BY DEF AgentHealTypeOK
  <2>2. ASSUME NEW rules \in SUBSET HealRule, Answered(rules) PROVE beat' \in Beats
    BY <2>1, <2>2 DEF Answered, AgentHealTypeOK
  <2>3. ASSUME PostHeals PROVE beat' \in Beats
    BY <2>1, <2>3 DEF PostHeals, AgentHealTypeOK
  <2>4. ASSUME NEW r \in HealRule, HealRuleNow(r) \/ PassRule(r) PROVE beat' \in Beats
    BY <2>1, <2>4 DEF HealRuleNow, PassRule
  <2>5. ASSUME NEW p \in posted, IngestHeals(p) \/ PostFails(p) \/ \E h \in p.heals : IngestFails(p, h)
        PROVE  beat' \in Beats
    BY <1>1, <2>1, <2>2, <2>5 DEF IngestHeals, PostFails, IngestFails, AgentHealTypeOK
  <2>6. ASSUME \/ HourPasses \/ ReportHeal \/ VerifyRaises \/ EvaluationEnds \/ HealAgentRestarts
               \/ \E r \in HealRule : ConditionChanges(r) \/ TrustChanges(r)
               \/ UNCHANGED agentHealVars
        PROVE  beat' \in Beats
    BY <1>1, <2>1, <2>6 DEF HourPasses, ReportHeal, VerifyRaises, EvaluationEnds, HealAgentRestarts,
       ConditionChanges, TrustChanges, agentHealVars
  <2> QED BY <2>3, <2>4, <2>5, <2>6 DEF AgentHealNext
<1>6. posted' \subseteq [heals : SUBSET Heal, live : BOOLEAN]
  <2>1. posted \subseteq [heals : SUBSET Heal, live : BOOLEAN]
    BY DEF AgentHealTypeOK
  <2>2. \A p \in posted : [p EXCEPT !.live = FALSE] \in [heals : SUBSET Heal, live : BOOLEAN]
    BY <2>1
  <2>3. CASE PostHeals
    <3> DEFINE p == [heals |-> reports, live |-> TRUE]
    <3>1. reports \in SUBSET Heal /\ posted' = posted \union {p}
      BY <1>1, <2>3 DEF PostHeals
    <3>2. p \in [heals : SUBSET Heal, live : BOOLEAN]
      BY <3>1
    <3> QED BY <2>1, <3>1, <3>2
  <2>4. CASE HealAgentRestarts
    BY <2>2, <2>4 DEF HealAgentRestarts
  <2>5. ASSUME NEW p \in posted, IngestHeals(p) \/ PostFails(p) \/ \E h \in p.heals : IngestFails(p, h)
        PROVE  posted' \subseteq [heals : SUBSET Heal, live : BOOLEAN]
    BY <2>1, <2>2, <2>5 DEF IngestHeals, PostFails, IngestFails
  <2>6. ASSUME \/ HourPasses \/ ReportHeal \/ VerifyRaises \/ EvaluationEnds \/ UNCHANGED agentHealVars
               \/ \E r \in HealRule : ConditionChanges(r) \/ TrustChanges(r) \/ HealRuleNow(r) \/ PassRule(r)
        PROVE  posted' = posted
    BY <2>6 DEF HourPasses, ReportHeal, VerifyRaises, EvaluationEnds, ConditionChanges, TrustChanges, HealRuleNow, PassRule,
       agentHealVars
  <2> QED BY <2>1, <2>3, <2>4, <2>5, <2>6 DEF AgentHealNext
<1>7. forgotten' \subseteq Heal
  <2>1. \A p \in posted : p.heals \subseteq Heal
    BY DEF AgentHealTypeOK
  <2>2. Verifying \subseteq Heal /\ forgotten \subseteq Heal
    BY DEF AgentHealInv, VerifiedIsApart, Verifying, AgentHealTypeOK
  <2>3. ASSUME NEW p \in posted, IngestHeals(p) \/ PostFails(p) \/ \E h \in p.heals : IngestFails(p, h)
        PROVE  forgotten' \subseteq Heal
    BY <2>1, <2>2, <2>3 DEF IngestHeals, PostFails, IngestFails
  <2>4. CASE VerifyRaises \/ HealAgentRestarts
    BY <1>1, <2>2, <2>4 DEF VerifyRaises, HealAgentRestarts
  <2>5. ASSUME \/ HourPasses \/ PostHeals \/ ReportHeal \/ EvaluationEnds \/ UNCHANGED agentHealVars
               \/ \E r \in HealRule : ConditionChanges(r) \/ TrustChanges(r) \/ HealRuleNow(r) \/ PassRule(r)
        PROVE  forgotten' = forgotten
    BY <2>5 DEF HourPasses, PostHeals, ReportHeal, EvaluationEnds, ConditionChanges, TrustChanges, HealRuleNow,
       PassRule, agentHealVars
  <2> QED BY <2>2, <2>3, <2>4, <2>5 DEF AgentHealNext
<1> QED BY <1>1, <1>2, <1>3, <1>4, <1>5, <1>6, <1>7 DEF AgentHealTypeOK

\* Clock, policy, cooldowns, reports and ledger of the agent keep their types.
THEOREM AgentHealTypesHold == AgentHealSpec => []AgentHealTypeOK
<1>1. AgentHealInit => AgentHealTypeOK
  BY AgentHealAssumption DEF AgentHealInit, AgentHealTypeOK, Drained, Heal
<1> QED BY <1>1, AgentHealInitOK, AgentHealStep, AgentHealTypeStep, PTL DEF AgentHealSpec

\* Registry, messages and capture threads of the remote desktop keep their types.
THEOREM DesktopTypesHold == DesktopSpec => []DesktopTypeOK
<1>1. DesktopInit => DesktopTypeOK
  <2> SUFFICES ASSUME DesktopInit PROVE DesktopTypeOK
    OBVIOUS
  <2>1. {0} \subseteq 0..Visits /\ {0} \subseteq 0..Connections /\ {0} \subseteq 0..Loops
    BY DesktopAssumption
  <2>2. {online, capturing, display, popped} \subseteq BOOLEAN
    BY Zenon DEF DesktopInit
  <2>3. wire \in Seq({"rdp_start", "rdp_stop"})
    BY EmptySeq DEF DesktopInit
  <2> QED BY <2>1, <2>2, <2>3 DEF DesktopInit, DesktopTypeOK
<1>2. DesktopTypeOK /\ [DesktopNext]_desktopVars => DesktopTypeOK'
  <2> SUFFICES ASSUME DesktopTypeOK, [DesktopNext]_desktopVars PROVE DesktopTypeOK'
    OBVIOUS
  <2>0. {Visits, Connections, Loops} \subseteq Nat \ {0}
    BY DesktopAssumption
  <2>1. {online', capturing', display', popped'} \subseteq BOOLEAN
    BY Zenon DEF DesktopTypeOK, DesktopNext, Come, ComeFails, ChangeQuality, Leave, Connect, ReceiveStart, ReceiveStop,
       LoopEnds, CaptureFails, AgentLosesConnection, DisplayFails, ConnectionDrops, SendPops,
       DesktopHandlerEnds, Offline, desktopVars
  <2>2. viewers' \subseteq Viewer /\ ghosts' \subseteq viewers' /\ visits' \in 0..Visits /\ loops' \in 0..Loops
    BY <2>0 DEF DesktopTypeOK, DesktopNext, Come, ComeFails, ChangeQuality, Leave, Connect, ReceiveStart, ReceiveStop,
       LoopEnds, CaptureFails, AgentLosesConnection, DisplayFails, ConnectionDrops, SendPops,
       DesktopHandlerEnds, Visit, desktopVars
  <2>3. conn' \in [n : 0..Connections, up : BOOLEAN]
    <3>1. conn \in [n : 0..Connections, up : BOOLEAN]
      BY DEF DesktopTypeOK
    <3>2. CASE Connect
      BY <2>0, <3>1, <3>2 DEF Connect
    <3>3. CASE ConnectionDrops
      BY <3>1, <3>3 DEF ConnectionDrops
    <3>4. CASE ~Connect /\ ~ConnectionDrops
      BY <3>1, <3>4 DEF DesktopNext, Come, ComeFails, ChangeQuality, Leave, ReceiveStart, ReceiveStop,
         LoopEnds, CaptureFails, AgentLosesConnection, DisplayFails, SendPops, DesktopHandlerEnds,
         desktopVars
    <3> QED BY <3>2, <3>3, <3>4
  <2>4. known' \in {0} \union handlers' /\ handlers' \subseteq 1..Connections
    <3>1. conn.n \in 0..Connections
      BY DEF DesktopTypeOK
    <3> QED
      BY <2>0, <3>1 DEF DesktopTypeOK, DesktopNext, Come, ComeFails, ChangeQuality, Leave, Connect, ReceiveStart, ReceiveStop,
         LoopEnds, CaptureFails, AgentLosesConnection, DisplayFails, ConnectionDrops, SendPops,
         DesktopHandlerEnds, desktopVars
  <2>5. wire' \in Seq({"rdp_start", "rdp_stop"})
    <3> DEFINE Wires == Seq({"rdp_start", "rdp_stop"})
    <3>1. wire \in Wires /\ <<>> \in Wires /\ (wire # <<>> => Tail(wire) \in Wires)
      BY EmptySeq, HeadTailProperties DEF DesktopTypeOK
    <3>2. Append(wire, "rdp_start") \in Wires /\ Append(wire, "rdp_stop") \in Wires
      BY <3>1, AppendProperties
    <3>3. \/ UNCHANGED wire \/ wire' = <<>> \/ (wire # <<>> /\ wire' = Tail(wire))
          \/ Sent("rdp_start") \/ Sent("rdp_stop")
      BY DEF DesktopNext, Come, ComeFails, ChangeQuality, Leave, Connect, ReceiveStart, ReceiveStop,
         LoopEnds, CaptureFails, AgentLosesConnection, DisplayFails, ConnectionDrops, SendPops,
         DesktopHandlerEnds, desktopVars
    <3> HIDE DEF Wires
    <3>4. wire' \in Wires
      BY <3>1, <3>2, <3>3 DEF Sent
    <3> QED BY <3>4 DEF Wires
  <2>6. asked' \in 0..Connections
    BY <2>0 DEF DesktopTypeOK, DesktopNext, Come, ComeFails, ChangeQuality, Leave, Connect, ReceiveStart, ReceiveStop,
       LoopEnds, CaptureFails, AgentLosesConnection, DisplayFails, ConnectionDrops, SendPops,
       DesktopHandlerEnds, desktopVars
  <2> QED BY <2>1, <2>2, <2>3, <2>4, <2>5, <2>6 DEF DesktopTypeOK
<1> QED BY <1>1, <1>2, PTL DEF DesktopSpec

\* The chunks before the first that is missing are all there.
LEMMA PrefixIsThere ==
    ASSUME NEW files \in [Index -> {"none"} \union Content]
    PROVE  /\ Prefix(files) \in 0..Chunks
           /\ \A i \in 1..Prefix(files) : files[i] \in Content
<1> DEFINE Missing == {i \in Index : files[i] = "none"}
           First(i) == i \in Index /\ files[i] = "none" /\ \A j \in 1..i - 1 : files[j] # "none"
<1>1. Chunks \in Nat \ {0} /\ Index = 1..Chunks
  BY TransferAssumption DEF Index
<1>2. CASE Missing = {}
  BY <1>1, <1>2 DEF Prefix
<1>3. CASE Missing # {}
  <2>1. Missing \in SUBSET Nat
    BY <1>1
  <2>2. PICK x \in Missing : \A y \in Missing : x =< y
    BY <1>3, <2>1, LeastExists
  <2>3. \A j \in 1..x - 1 : files[j] # "none"
    BY <1>1, <2>2
  <2>4. First(x)
    BY <2>2, <2>3
  <2>5. PICK c : c = CHOOSE i \in Index : files[i] = "none" /\ \A j \in 1..i - 1 : files[j] # "none"
    OBVIOUS
  <2>6. First(c)
    BY <2>4, <2>5
  <2>7. Prefix(files) = c - 1
    BY <1>3, <2>5 DEF Prefix
  <2> QED BY <1>1, <2>6, <2>7
<1> QED BY <1>2, <1>3

IsFile(f) == f.exists \in BOOLEAN /\ f.parts \in Seq(Content)

LEMMA ServedFile ==
    ASSUME TransferTypes, IsFile(final), NEW r \in request
    PROVE  IsFile(Served(r).file)
<1>1. Files(r) \in [Index -> {"none"} \union Content]
  BY DEF Files, TransferTypes
<1>2. PICK n \in 0..Chunks : n = Prefix(Files(r)) /\ \A i \in 1..n : Files(r)[i] \in Content
  BY <1>1, PrefixIsThere
<1>3. n \in Nat
  BY <1>2, TransferAssumption
<1>4. [i \in 1..n |-> Files(r)[i]] \in Seq(Content)
  BY <1>2, <1>3
<1>5. IsFile(Joined(r))
  BY <1>2, <1>4 DEF Joined, IsFile
<1>6. IsFile(NoFile)
  BY EmptySeq DEF NoFile, IsFile
<1>7. Served(r).file \in {final, Joined(r), NoFile}
  BY DEF Served
<1> QED BY <1>5, <1>6, <1>7

\* Attempts are counted to their bound.
LEMMA TriesAreBounded ==
    ASSUME TransferTypes, upload.tries \in 0..Attempts
    PROVE  Failed.tries \in 0..Attempts /\ Advanced.tries \in 0..Attempts
<1>1. Attempts \in Nat \ {0}
  BY TransferAssumption
<1>2. Failed.tries \in 0..Attempts
  <2>1. CASE upload.tries + 1 < Attempts
    <3>1. Failed = [upload EXCEPT !.tries = upload.tries + 1, !.state = "send"]
      BY <2>1 DEF Failed
    <3> QED BY <1>1, <2>1, <3>1 DEF TransferTypes
  <2>2. CASE ~(upload.tries + 1 < Attempts)
    <3>1. Failed = [upload EXCEPT !.state = "error"]
      BY <2>2 DEF Failed
    <3> QED BY <1>1, <3>1 DEF TransferTypes
  <2> QED BY <2>1, <2>2
<1>3. Advanced.tries \in 0..Attempts
  BY <1>1 DEF Advanced, TransferTypes
<1> QED BY <1>2, <1>3

\* Upload, entry, chunk files and file keep their types.
THEOREM TransferTypesHold == TransferSpec => []TransferTypeOK
<1>1. TransferInit => TransferTypeOK
  <2> SUFFICES ASSUME TransferInit PROVE TransferTypeOK
    OBVIOUS
  <2>1. TransferTypes
    BY TransferInitOK DEF TransferInv
  <2>2. changed \in BOOLEAN /\ upset \in BOOLEAN
    BY Zenon DEF TransferInit
  <2>3. IsFile(final)
    BY EmptySeq DEF TransferInit, NoFile, IsFile
  <2>4. upload.tries \in 0..Attempts /\ slips \in 0..TransferFaults
    BY TransferAssumption DEF TransferInit
  <2> QED BY <2>1, <2>2, <2>3, <2>4 DEF TransferTypes, TransferTypeOK, IsFile
<1>2. TransferInv /\ TransferInv' /\ TransferTypeOK /\ [TransferNext]_transferVars => TransferTypeOK'
  <2> SUFFICES ASSUME TransferInv, TransferInv', TransferTypeOK, [TransferNext]_transferVars
               PROVE  TransferTypeOK'
    OBVIOUS
  <2>1. TransferTypes /\ TransferTypes'
    BY DEF TransferInv
  <2>2. changed' \in BOOLEAN /\ upset' \in BOOLEAN
    <3>1. changed \in BOOLEAN /\ upset \in BOOLEAN
      BY DEF TransferTypeOK
    <3>2. changed' = changed \/ changed' = TRUE
      BY Zenon DEF TransferNext, Post, FileChanges, Expire, TransfersRestart, HandleChunk, RequestFails,
         transferVars
    <3>3. upset' = upset \/ upset' = TRUE \/ \E r \in request : upset' = (upset \/ ~r.live)
      BY Zenon DEF TransferNext, Post, FileChanges, Expire, TransfersRestart, HandleChunk, RequestFails,
         transferVars
    <3> QED BY <3>1, <3>2, <3>3, Zenon
  <2>3. IsFile(final)'
    <3>1. IsFile(final) /\ IsFile(NoFile)
      BY EmptySeq DEF TransferTypeOK, IsFile, NoFile
    <3>2. final' = final \/ final' = NoFile \/ \E r \in request : final' = Served(r).file
      BY DEF TransferNext, Post, FileChanges, Expire, TransfersRestart, HandleChunk, RequestFails,
         transferVars
    <3>3. \A r \in request : IsFile(Served(r).file)
      BY <2>1, <3>1, ServedFile
    <3> QED BY <3>1, <3>2, <3>3 DEF IsFile
  <2>4. upload'.tries \in 0..Attempts
    <3>1. upload.tries \in 0..Attempts
      BY DEF TransferTypeOK
    <3>2. upload' \in {upload, Failed, Advanced, [upload EXCEPT !.state = "wait"]}
      BY DEF TransferNext, Post, FileChanges, Expire, TransfersRestart, HandleChunk, RequestFails,
         transferVars
    <3>3. [upload EXCEPT !.state = "wait"].tries = upload.tries
      BY <2>1 DEF TransferTypes
    <3> QED BY <2>1, <3>1, <3>2, <3>3, TriesAreBounded
  <2>5. slips' \in 0..TransferFaults
    BY TransferAssumption DEF TransferTypeOK, TransferNext, Post, FileChanges, Expire,
       TransfersRestart, HandleChunk, RequestFails, Slip, transferVars
  <2> QED BY <2>1, <2>2, <2>3, <2>4, <2>5 DEF TransferTypes, TransferTypeOK, IsFile
<1> QED BY <1>1, <1>2, TransferInitOK, TransferStep, PTL DEF TransferSpec

\* The end of a list has the type of the list, and its limit.
LEMMA KeptHasType ==
    ASSUME NEW S, NEW s \in Seq(S), NEW max \in Nat \ {0}
    PROVE  Kept(s, max) \in Seq(S) /\ Len(Kept(s, max)) =< max
<1>1. CASE Len(s) =< max
  BY <1>1 DEF Kept
<1>2. CASE ~(Len(s) =< max)
  <2>1. Len(s) \in Nat
    BY LenProperties
  <2>2. PICK m \in 1..Len(s) + 1 : m = Len(s) - max + 1
    <3>1. Len(s) - max + 1 \in 1..Len(s) + 1
      BY <1>2, <2>1
    <3> QED BY <3>1, Zenon
  <2>3. Kept(s, max) = SubSeq(s, m, Len(s))
    BY <1>2, <2>2 DEF Kept
  <2>4. SubSeq(s, m, Len(s)) \in Seq(S)
    BY <2>1, <2>2, SubSeqProperties
  <2>5. Len(SubSeq(s, m, Len(s))) = Len(s) - m + 1
    BY <1>2, <2>1, <2>2, SubSeqProperties
  <2> QED BY <2>1, <2>2, <2>3, <2>4, <2>5
<1> QED BY <1>1, <1>2

IsList(l) == l.there \in BOOLEAN /\ l.lines \in Seq(1..Lines)

IsReport(r) == r.live \in BOOLEAN /\ r.lines \in Seq(1..Lines)

\* Journal, buffers, commands and lists of a stream keep their types.
THEOREM StreamTypesHold == StreamSpec => []StreamTypeOK
<1>0. {Lines, BufferMax, LinesMax} \subseteq Nat \ {0} /\ StreamFaults \in Nat
  BY StreamAssumption
<1>1. StreamInit => StreamTypeOK
  <2> SUFFICES ASSUME StreamInit PROVE StreamTypeOK
    OBVIOUS
  <2>1. {active, listed, dropped, late} \subseteq BOOLEAN
    BY Zenon DEF StreamInit
  <2>2. \A S : <<>> \in Seq(S) /\ Len(<<>>) = 0
    BY EmptySeq
  <2> QED BY <1>0, <2>1, <2>2 DEF StreamInit, StreamTypeOK, None
<1>2. StreamInv /\ StreamInv' /\ StreamTypeOK /\ [StreamNext]_streamVars => StreamTypeOK'
  <2> SUFFICES ASSUME StreamInv, StreamInv', StreamTypeOK, [StreamNext]_streamVars
               PROVE  StreamTypeOK'
    OBVIOUS
  <2>1. StreamTypes /\ StreamTypes'
    BY DEF StreamInv
  <2>2. journal' \in [runs : BOOLEAN, read : BOOLEAN, printed : 0..Lines, taken : 0..Lines]
    <3>1. journal' \in [runs : BOOLEAN, read : BOOLEAN, printed : Nat, taken : Nat] /\ journal'.taken =< journal'.printed
      BY <2>1 DEF StreamTypes
    <3>2. journal'.printed =< Lines
      <4>1. journal.printed \in 0..Lines /\ journal \in [runs : BOOLEAN, read : BOOLEAN, printed : Nat, taken : Nat]
        BY <2>1 DEF StreamTypeOK, StreamTypes
      <4>2. CASE LineIsPrinted
        BY <1>0, <4>1, <4>2 DEF LineIsPrinted
      <4>3. CASE ~LineIsPrinted
        <5>1. journal'.printed = journal.printed
          BY <4>1, <4>3 DEF StreamNext, FollowLogs, StopStream, Poll, JournalEnds, ReadLine, ReaderEnds,
             SendReport, ExecuteFollow, ExecuteStop, ForgetBuffer, GetStream, StreamServerRestarts,
             HandleLines, LoseLines, streamVars
        <5> QED BY <1>0, <4>1, <5>1
      <4> QED BY <4>2, <4>3
    <3> QED BY <1>0, <3>1, <3>2
  <2>3. {active', listed', dropped', late'} \subseteq BOOLEAN
    BY Zenon DEF StreamTypeOK, StreamNext, FollowLogs, StopStream, Poll, LineIsPrinted, JournalEnds, ReadLine,
       ReaderEnds, SendReport, ExecuteFollow, ExecuteStop, ForgetBuffer, GetStream,
       StreamServerRestarts, HandleLines, LoseLines, streamVars
  <2>4. IsList(buffer') /\ Len(buffer'.lines) =< BufferMax
    <3>1. IsList(buffer) /\ Len(buffer.lines) =< BufferMax /\ journal.taken \in Nat
          /\ journal.printed \in 0..Lines
      BY <2>1 DEF StreamTypeOK, StreamTypes, IsList
    <3>2. <<>> \in Seq(1..Lines) /\ Len(<<>>) = 0 /\ Len(<<>>) =< BufferMax
      BY <1>0, EmptySeq
    <3>3. CASE ReadLine
      <4>1. journal.taken + 1 \in 1..Lines
        BY <1>0, <3>1, <3>3 DEF ReadLine
      <4>2. Append(buffer.lines, journal.taken + 1) \in Seq(1..Lines)
        BY <3>1, <4>1, AppendProperties DEF IsList
      <4> QED BY <1>0, <3>3, <4>2, KeptHasType DEF ReadLine, IsList
    <3>4. ASSUME buffer'.there \in BOOLEAN /\ buffer'.lines = <<>>
          PROVE  IsList(buffer') /\ Len(buffer'.lines) =< BufferMax
      BY <3>2, <3>4 DEF IsList
    <3>5. ASSUME SendReport PROVE buffer'.there \in BOOLEAN /\ buffer'.lines = <<>>
      BY <2>1, <3>5 DEF SendReport, StreamTypes
    <3>6. \/ ReadLine \/ SendReport \/ UNCHANGED buffer \/ buffer' = None
          \/ buffer' = [there |-> TRUE, lines |-> <<>>]
      BY DEF StreamNext, FollowLogs, StopStream, Poll, LineIsPrinted, JournalEnds,
         ReaderEnds, ExecuteFollow, ExecuteStop, ForgetBuffer, GetStream,
         StreamServerRestarts, HandleLines, LoseLines, streamVars
    <3>7. /\ None.there \in BOOLEAN /\ None.lines = <<>>
          /\ [there |-> TRUE, lines |-> <<>>].there \in BOOLEAN
          /\ [there |-> TRUE, lines |-> <<>>].lines = <<>>
      BY DEF None
    <3>8. CASE UNCHANGED buffer
      BY <3>1, <3>8 DEF IsList
    <3>9. CASE buffer' = None \/ buffer' = [there |-> TRUE, lines |-> <<>>]
      <4>1. buffer'.there \in BOOLEAN /\ buffer'.lines = <<>>
        BY <3>7, <3>9
      <4> QED BY <3>4, <4>1
    <3> QED BY <3>3, <3>4, <3>5, <3>6, <3>8, <3>9
  <2>5. \A r \in post' : IsReport(r)
    <3>1. IsList(buffer) /\ \A r \in post : IsReport(r) /\ r \in [live : BOOLEAN, lines : Seq(Nat)]
      BY <2>1 DEF StreamTypeOK, StreamTypes, IsList, IsReport
    <3>2. CASE SendReport
      <4>1. IsReport([live |-> TRUE, lines |-> buffer.lines])
        BY <3>1 DEF IsReport, IsList
      <4> QED BY <3>1, <3>2, <4>1 DEF SendReport
    <3>3. ASSUME NEW r \in post, LoseLines(r) PROVE \A q \in post' : IsReport(q)
      <4>1. IsReport([r EXCEPT !.live = FALSE])
        BY <3>1 DEF IsReport
      <4> QED BY <3>1, <3>3, <4>1 DEF LoseLines
    <3>4. SendReport \/ post' \subseteq post \/ \E r \in post : LoseLines(r)
      BY DEF StreamNext, FollowLogs, StopStream, Poll, LineIsPrinted, JournalEnds, ReadLine,
         ReaderEnds, ExecuteFollow, ExecuteStop, ForgetBuffer, GetStream,
         StreamServerRestarts, HandleLines, streamVars
    <3> QED BY <3>1, <3>2, <3>3, <3>4
  <2>6. IsList(list') /\ Len(list'.lines) =< LinesMax
    <3>1. IsList(list) /\ Len(list.lines) =< LinesMax
      BY DEF StreamTypeOK, IsList
    <3>2. IsList(None) /\ Len(None.lines) =< LinesMax
      BY <1>0, EmptySeq DEF None, IsList
    <3>3. ASSUME NEW r \in post, HandleLines(r) PROVE IsList(list') /\ Len(list'.lines) =< LinesMax
      <4>1. list.lines \in Seq(1..Lines) /\ r.lines \in Seq(1..Lines)
        BY DEF StreamTypeOK
      <4>2. list.lines \o r.lines \in Seq(1..Lines)
        BY <4>1, ConcatProperties
      <4>3. Kept(list.lines \o r.lines, LinesMax) \in Seq(1..Lines)
            /\ Len(Kept(list.lines \o r.lines, LinesMax)) =< LinesMax
        BY <1>0, <4>2, KeptHasType
      <4>4. list' = list \/ list' = [there |-> TRUE, lines |-> Kept(list.lines \o r.lines, LinesMax)]
        BY <3>3 DEF HandleLines
      <4>5. IsList([there |-> TRUE, lines |-> Kept(list.lines \o r.lines, LinesMax)])
        BY <4>3 DEF IsList
      <4>6. CASE list' = list
        BY <3>1, <4>6 DEF IsList
      <4>7. CASE list' = [there |-> TRUE, lines |-> Kept(list.lines \o r.lines, LinesMax)]
        <5>1. PICK k : k = Kept(list.lines \o r.lines, LinesMax)
          OBVIOUS
        <5>2. IsList([there |-> TRUE, lines |-> k]) /\ Len(k) =< LinesMax /\ list' = [there |-> TRUE, lines |-> k]
          BY <4>3, <4>5, <4>7, <5>1
        <5> QED BY <5>2
      <4> QED BY <4>4, <4>6, <4>7
    <3>4. UNCHANGED list \/ list' = None \/ \E r \in post : HandleLines(r)
      BY DEF StreamNext, FollowLogs, StopStream, Poll, LineIsPrinted, JournalEnds, ReadLine,
         ReaderEnds, SendReport, ExecuteFollow, ExecuteStop, ForgetBuffer, GetStream,
         StreamServerRestarts, LoseLines, streamVars
    <3> QED BY <3>1, <3>2, <3>3, <3>4
  <2>7. todo' \in Seq(Command) /\ orders' \in Seq(Command)
    <3>1. todo \in Seq(Command) /\ orders \in Seq(Command) /\ <<>> \in Seq(Command)
      BY EmptySeq DEF StreamTypeOK
    <3>2. orders' \in Seq(Command)
      <4>1. Append(orders, "stop_stream") \in Seq(Command) /\ <<"follow_logs">> \in Seq(Command)
        BY <3>1, AppendProperties DEF Command
      <4>2. orders' \in {orders, <<>>, Append(orders, "stop_stream"), <<"follow_logs">>}
        BY DEF StreamNext, FollowLogs, StopStream, Poll, LineIsPrinted, JournalEnds, ReadLine,
           ReaderEnds, SendReport, ExecuteFollow, ExecuteStop, ForgetBuffer, GetStream,
           StreamServerRestarts, HandleLines, LoseLines, streamVars
      <4> QED BY <3>1, <4>1, <4>2
    <3>3. todo' \in Seq(Command)
      <4>1. CASE todo # <<>>
        <5>1. Tail(todo) \in Seq(Command)
          BY <3>1, <4>1, HeadTailProperties
        <5>2. <<"forget_buffer">> \in Seq(Command)
          BY DEF Command
        <5>3. <<"forget_buffer">> \o Tail(todo) \in Seq(Command)
          BY <5>1, <5>2, ConcatProperties
        <5>4. todo' \in {todo, orders, Tail(todo), <<"forget_buffer">> \o Tail(todo)}
          BY DEF StreamNext, FollowLogs, StopStream, Poll, LineIsPrinted, JournalEnds, ReadLine,
             ReaderEnds, SendReport, ExecuteFollow, ExecuteStop, ForgetBuffer, GetStream,
             StreamServerRestarts, HandleLines, LoseLines, streamVars
        <5> QED BY <3>1, <5>1, <5>3, <5>4
      <4>2. CASE todo = <<>>
        <5>1. todo' \in {todo, orders}
          BY <4>2 DEF StreamNext, FollowLogs, StopStream, Poll, LineIsPrinted, JournalEnds, ReadLine,
             ReaderEnds, SendReport, ExecuteFollow, ExecuteStop, ForgetBuffer, GetStream,
             StreamServerRestarts, HandleLines, LoseLines, streamVars
        <5> QED BY <3>1, <5>1
      <4> QED BY <4>1, <4>2
    <3> QED BY <3>2, <3>3
  <2>8. viewer'.cursor \in 0..LinesMax /\ viewer'.seen \in Seq(1..Lines)
    <3>1. viewer.cursor \in 0..LinesMax /\ viewer.seen \in Seq(1..Lines) /\ list.lines \in Seq(1..Lines)
          /\ Len(list.lines) \in 0..LinesMax
      <4>1. viewer.cursor \in 0..LinesMax /\ viewer.seen \in Seq(1..Lines) /\ list.lines \in Seq(1..Lines)
            /\ Len(list.lines) =< LinesMax
        BY DEF StreamTypeOK
      <4>2. Len(list.lines) \in Nat
        BY <4>1, LenProperties
      <4> QED BY <1>0, <4>1, <4>2
    <3>2. CASE Poll
      <4>1. SubSeq(list.lines, viewer.cursor + 1, Len(list.lines)) \in Seq(1..Lines)
        <5>1. PICK k, n \in Nat : k = viewer.cursor + 1 /\ k > 0 /\ n = Len(list.lines)
          BY <1>0, <3>1
        <5>2. \A i \in 1..Len(list.lines) : list.lines[i] \in 1..Lines
          BY <3>1, LenProperties, ElementOfSeq
        <5>2a. \A i \in k..n : i \in 1..Len(list.lines)
          BY <5>1
        <5>2b. \A i \in k..n : list.lines[i] \in 1..Lines
          BY <5>2, <5>2a
        <5>3. SubSeq(list.lines, k, n) \in Seq(1..Lines)
          BY <5>1, <5>2b, SubSeqProperties
        <5> QED BY <5>1, <5>3
      <4>2. viewer.seen \o SubSeq(list.lines, viewer.cursor + 1, Len(list.lines)) \in Seq(1..Lines)
        BY <3>1, <4>1, ConcatProperties
      <4>3. CASE list.there
        BY <3>1, <3>2, <4>2, <4>3 DEF Poll, Cursor
      <4>4. CASE ~list.there
        <5>1. viewer' = [viewer EXCEPT !.cursor = 0]
          BY <3>2, <4>4 DEF Poll
        <5>2. viewer \in [cursor : Nat, seen : Seq(Nat)]
          BY <2>1 DEF StreamTypes
        <5> QED BY <1>0, <3>1, <5>1, <5>2
      <4> QED BY <4>3, <4>4
    <3>3. CASE ~Poll
      <4>1. UNCHANGED viewer
        BY <3>3 DEF StreamNext, FollowLogs, StopStream, LineIsPrinted, JournalEnds, ReadLine,
           ReaderEnds, SendReport, ExecuteFollow, ExecuteStop, ForgetBuffer, GetStream,
           StreamServerRestarts, HandleLines, LoseLines, streamVars
      <4> QED BY <3>1, <4>1
    <3> QED BY <3>2, <3>3
  <2>9. mischief' \in 0..StreamFaults
    <3>1. mischief \in 0..StreamFaults
      BY DEF StreamTypeOK
    <3>2. Mischief \/ UNCHANGED mischief
      BY DEF StreamNext, FollowLogs, StopStream, Poll, LineIsPrinted, JournalEnds,
       ReadLine, ReaderEnds, SendReport, ExecuteFollow, ExecuteStop, ForgetBuffer, GetStream,
       StreamServerRestarts, HandleLines, LoseLines, streamVars
    <3> QED BY <1>0, <3>1, <3>2 DEF Mischief
  <2> QED BY <2>2, <2>3, <2>4, <2>5, <2>6, <2>7, <2>8, <2>9 DEF StreamTypeOK, IsList, IsReport
<1> QED BY <1>1, <1>2, StreamInitOK, StreamStepOK, PTL DEF StreamSpec
=============================================================================
