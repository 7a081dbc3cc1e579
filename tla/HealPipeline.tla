---------------------------- MODULE HealPipeline ----------------------------
(***************************************************************************)
(* The self-healing pipeline of the server: HealPipeline, with the         *)
(* HealCorrelator, HealPlanner, HealExecutor and trust governor it owns.   *)
(*                                                                         *)
(* Any number of caller threads (alert evaluation, agent reports, the      *)
(* scheduler's predictive and health cycles) push heal events through      *)
(* handle_heal_event; every heal the pipeline decides to run gets a daemon *)
(* thread of its own, and an unverified heal starts the next step of its   *)
(* chain from inside that thread.  The threads meet in four tables, each   *)
(* under a lock of its own, and in the trust and ledger tables of the      *)
(* database.  An action of this module is the code between two points      *)
(* where another thread can change its course.                             *)
(*                                                                         *)
(* Time is abstracted: a timer is an entry that some later step removes.   *)
(* A rule's success rates are abstracted: which steps of a chain are       *)
(* skipped as ineffective is chosen when the step is picked.               *)
(***************************************************************************)
EXTENDS Integers, FiniteSets

CONSTANTS
  Target,             \* hosts, services, containers
  Rule,               \* rule ids
  Handler,            \* threads that call handle_heal_event
  Worker,             \* the pool the model takes heal threads from
  Slots,              \* _MAX_CONCURRENT_HEALS
  ChainLen,           \* length of a rule's escalation chain
  MaxDepth,           \* MAX_ESCALATION_DEPTH
  Threshold,          \* CIRCUIT_BREAKER_THRESHOLD
  Ancestors,          \* DependencyGraph.get_ancestors of a target
  Source,             \* sources heal events come from
  InitLevels,         \* what the database holds of a rule's trust at first
  AdminLevels,        \* the trust levels an administrator assigns
  NoKey               \* "no correlation key"

Key == Target \X Rule
TargetOf(k) == k[1]
RuleOf(k) == k[2]

\* _ALL_LEVELS, lowest first, and the absence of a trust_state row.
Level == {"observation", "dry_run", "notify", "approve", "execute"}
NoState == "no_state"
CappedSource == {"prediction", "anomaly", "health_score"}
AllSource == CappedSource \union {"alert", "threshold", "agent"}

Absent == -1           \* a key the planner's dictionary does not hold

ASSUME PipelineAssumption ==
  /\ IsFiniteSet(Worker)
  /\ Slots \in Nat
  /\ ChainLen \in [Rule -> Nat \ {0}]
  /\ MaxDepth \in Nat \ {0}
  /\ Threshold \in Nat \ {0}
  /\ Ancestors \in [Target -> SUBSET Target]
  /\ Source \subseteq AllSource
  /\ InitLevels \subseteq Level \union {NoState}
  /\ AdminLevels \subseteq Level
  /\ NoKey \notin Key

VARIABLES
  window,     \* HealCorrelator._active: keys inside their absorption window
  alerts,     \* HealPipeline._active_alerts: targets known to be failing
  active,     \* HealPipeline._active_heals: targets being healed
  esc,        \* HealPlanner._active_escalations: key -> current step
  stuck,      \* history: keys whose entry in esc outlived its owner
  permits,    \* value of _heal_semaphore
  handling,   \* what each caller thread is doing
  heal,       \* what each heal thread is doing
  trust,      \* trust_state.current_level of each rule
  fails       \* failed heals of a rule within the breaker's window

vars == <<window, alerts, active, esc, stuck, permits, handling, heal,
          trust, fails>>
dbVars == <<trust, fails>>
tables == <<window, alerts, active, esc, stuck, permits>>

(***************************************************************************)
(* Threads                                                                 *)
(***************************************************************************)
HandlerPc == {"idle", "select", "dispatch"}
WorkerPc == {"idle", "queued", "running", "healed", "failed", "pick",
             "exhausted", "release"}

\* A heal thread that still answers for its key's escalation.
Driving == {"queued", "running", "healed", "failed", "pick"}
\* A heal thread that holds a permit of the semaphore.
Holding == WorkerPc \ {"idle", "queued"}
\* A heal thread that has its target's entry in active still to remove.
Tracking == Driving \union {"exhausted"}

HandlerState == [pc : HandlerPc, key : Key \union {NoKey}, level : Level]
WorkerState == [pc : WorkerPc, key : Key \union {NoKey}, step : Nat]

IdleHandler == [pc |-> "idle", key |-> NoKey, level |-> "notify"]
IdleWorker == [pc |-> "idle", key |-> NoKey, step |-> 0]

TypeOK ==
  /\ window \subseteq Key
  /\ alerts \subseteq Target
  /\ active \subseteq Target
  /\ esc \in [Key -> Nat \union {Absent}]
  /\ stuck \subseteq Key
  /\ permits \in Nat
  /\ handling \in [Handler -> HandlerState]
  /\ heal \in [Worker -> WorkerState]
  /\ \A h \in Handler : handling[h].pc # "idle" => handling[h].key \in Key
  /\ \A w \in Worker : heal[w].pc # "idle" => heal[w].key \in Key
  /\ trust \in [Rule -> Level \union {NoState}]
  /\ fails \in [Rule -> 0 .. Threshold]

Init ==
  /\ window = {} /\ alerts = {} /\ active = {} /\ stuck = {}
  /\ esc = [k \in Key |-> Absent]
  /\ permits = Slots
  /\ handling = [h \in Handler |-> IdleHandler]
  /\ heal = [w \in Worker |-> IdleWorker]
  /\ trust \in [Rule -> InitLevels]
  /\ fails = [r \in Rule |-> 0]

(***************************************************************************)
(* Trust governor                                                          *)
(***************************************************************************)
\* Prediction and anomaly sources act one level lower, but never in canary.
LevelBelow(level) == IF level = "execute" THEN "approve" ELSE "notify"

EffectiveTrust(rule, source) ==
  IF trust[rule] = NoState THEN "notify"
  ELSE IF source \in CappedSource THEN LevelBelow(trust[rule])
  ELSE trust[rule]

\* check_circuit_breaker returns TRUE only when it lowers (or raises) the
\* stored level itself.
BreakerTrips(rule) ==
  fails[rule] >= Threshold /\ trust[rule] \notin {"notify", NoState}

(***************************************************************************)
(* Escalation planning                                                     *)
(***************************************************************************)
LastStep(rule) ==
  (IF ChainLen[rule] < MaxDepth THEN ChainLen[rule] ELSE MaxDepth) - 1

\* Mutant of Candidates: the range runs one past the chain.
CandidatesPastEnd(rule, first) == first .. LastStep(rule) + 1

\* The steps _pick_step may return: any one, as each step before it may have
\* a success rate that is positive but too low.
Candidates(rule, first) == first .. LastStep(rule)

Release(key) == esc' = [esc EXCEPT ![key] = Absent]

\* HealExecutor.execute: a new thread for the plan.
Spawn(w, key, step) ==
  /\ heal[w].pc = "idle"
  /\ heal' = [heal EXCEPT ![w] = [pc |-> "queued", key |-> key, step |-> step]]

(***************************************************************************)
(* handle_heal_event, in a caller's thread                                 *)
(***************************************************************************)
HandlerReturns(h) == handling' = [handling EXCEPT ![h] = IdleHandler]

\* What may end an event the correlator let through: a failing ancestor does;
\* what the connectivity monitor and the maintenance manager answer is
\* chosen.  Otherwise the level is the rule's, or notify in a "notify_only"
\* window.
Outcomes(k, source) ==
  {IdleHandler} \union
  IF Ancestors[TargetOf(k)] \intersect alerts # {}
  THEN {}
  ELSE {[pc |-> "select", key |-> k, level |-> level] :
          level \in {EffectiveTrust(RuleOf(k), source), "notify"}}

\* _refresh_alert, HealCorrelator.correlate (the first event of a key opens
\* its window, the others are absorbed until it elapses), the suppression
\* checks, and effective_trust.
Receive(h, k, source) ==
  /\ handling[h].pc = "idle"
  /\ alerts' = alerts \union {TargetOf(k)}
  /\ window' = window \union {k}
  /\ IF k \in window
     THEN UNCHANGED handling
     ELSE \E next \in Outcomes(k, source) :
            handling' = [handling EXCEPT ![h] = next]
  /\ UNCHANGED <<active, esc, stuck, permits, heal, dbVars>>

\* Mutant of Select: the escalation table is not consulted.
SelectUnguarded(h) ==
  /\ handling[h].pc = "select"
  /\ handling' = [handling EXCEPT ![h].pc = "dispatch"]
  /\ esc' = [esc EXCEPT ![handling[h].key] = 0]
  /\ UNCHANGED <<window, alerts, active, stuck, permits, heal, dbVars>>

\* check_circuit_breaker, the two canary levels, which end the event, and the
\* locked part of select_action: one escalation per key.
Select(h) ==
  LET key == handling[h].key
      trips == BreakerTrips(RuleOf(key))
      level == IF trips THEN "notify" ELSE handling[h].level
  IN
  /\ handling[h].pc = "select"
  /\ trust' = IF trips THEN [trust EXCEPT ![RuleOf(key)] = "notify"] ELSE trust
  /\ IF level \in {"observation", "dry_run"} \/ esc[key] # Absent
     THEN HandlerReturns(h) /\ UNCHANGED esc
     ELSE /\ handling' = [handling EXCEPT ![h].pc = "dispatch",
                                          ![h].level = level]
          /\ esc' = [esc EXCEPT ![key] = 0]
  /\ UNCHANGED <<window, alerts, active, stuck, permits, heal, fails>>

\* _pick_step found every step ineffective, or reading a success rate raised:
\* select_action gives no plan, and the entry it made stays.
PickNothing(h) ==
  /\ handling[h].pc = "dispatch"
  /\ stuck' = stuck \union {handling[h].key}
  /\ HandlerReturns(h)
  /\ UNCHANGED <<window, alerts, active, esc, permits, heal, dbVars>>

\* _handle_notify and _handle_approve: ledger row, notification, clear.
Defer(h) ==
  /\ handling[h].pc = "dispatch"
  /\ handling[h].level # "execute"
  /\ Release(handling[h].key)
  /\ HandlerReturns(h)
  /\ UNCHANGED <<window, alerts, active, stuck, permits, heal, dbVars>>

\* ledger.record raises: the escalation is never cleared.
DeferRaises(h) ==
  /\ handling[h].pc = "dispatch"
  /\ handling[h].level # "execute"
  /\ stuck' = stuck \union {handling[h].key}
  /\ HandlerReturns(h)
  /\ UNCHANGED <<window, alerts, active, esc, permits, heal, dbVars>>

\* _handle_execute: track the target, start the first heal thread.
Execute(h, w) ==
  LET key == handling[h].key IN
  /\ handling[h].pc = "dispatch"
  /\ handling[h].level = "execute"
  /\ \E step \in Candidates(RuleOf(key), 0) : Spawn(w, key, step)
  /\ active' = active \union {TargetOf(key)}
  /\ HandlerReturns(h)
  /\ UNCHANGED <<window, alerts, esc, stuck, permits, dbVars>>

(***************************************************************************)
(* A heal thread                                                           *)
(***************************************************************************)
WorkerGoes(w, pc) == heal' = [heal EXCEPT ![w].pc = pc]
WorkerEnds(w) == heal' = [heal EXCEPT ![w] = IdleWorker]

Acquire(w) ==
  /\ heal[w].pc = "queued"
  /\ permits > 0
  /\ permits' = permits - 1
  /\ WorkerGoes(w, "running")
  /\ UNCHANGED <<window, alerts, active, esc, stuck, handling, dbVars>>

\* The 30s wait for a permit timed out.  Building the outcome raises (a
\* HealRequest has no target), so on_complete is never called.
Drop(w) ==
  /\ heal[w].pc = "queued"
  /\ permits = 0
  /\ stuck' = stuck \union {heal[w].key}
  /\ WorkerEnds(w)
  /\ UNCHANGED <<window, alerts, active, esc, permits, handling, dbVars>>

\* Pre-flight, action, settle time, re-evaluation of the condition, and the
\* ledger row on_complete starts with.  A heal that failed anywhere counts
\* against the rule.
RunAndRecord(w) ==
  LET rule == RuleOf(heal[w].key) IN
  /\ heal[w].pc = "running"
  /\ \/ WorkerGoes(w, "healed") /\ UNCHANGED fails
     \/ /\ WorkerGoes(w, "failed")
        /\ fails' = [fails EXCEPT ![rule] =
                       IF @ < Threshold THEN @ + 1 ELSE @]
  /\ UNCHANGED <<tables, handling, trust>>

\* Mutant of CompletionRaises: the permit is not released in a finally.
CompletionRaisesHolding(w) ==
  /\ heal[w].pc \in {"running", "failed", "pick"}
  /\ stuck' = stuck \union {heal[w].key}
  /\ WorkerEnds(w)
  /\ UNCHANGED <<window, alerts, active, esc, permits, handling, dbVars>>

\* A database call of on_complete raises (ledger.record, effective_trust,
\* get_heal_success_rate): the thread dies, its permit is returned.
CompletionRaises(w) ==
  /\ heal[w].pc \in {"running", "failed", "pick"}
  /\ stuck' = stuck \union {heal[w].key}
  /\ permits' = permits + 1
  /\ WorkerEnds(w)
  /\ UNCHANGED <<window, alerts, active, esc, handling, dbVars>>

\* on_complete, verified: the target and its alert are forgotten, then the
\* escalation is cleared.  One step: whatever another thread does between the
\* three it can do before or after them, as an alert may expire and an event
\* be suppressed at any time.
Resolve(w) ==
  LET target == TargetOf(heal[w].key) IN
  /\ heal[w].pc = "healed"
  /\ active' = active \ {target}
  /\ alerts' = alerts \ {target}
  /\ Release(heal[w].key)
  /\ WorkerGoes(w, "release")
  /\ UNCHANGED <<window, stuck, permits, handling, dbVars>>

\* Mutants of Advance: the chain's end is not tested; the entry outlives it;
\* the step is tried again for ever.
AdvancePastEnd(w) ==
  LET next == heal[w].step + 1 IN
  /\ heal[w].pc = "failed"
  /\ esc' = [esc EXCEPT ![heal[w].key] = next]
  /\ heal' = [heal EXCEPT ![w].pc = "pick", ![w].step = next]
  /\ UNCHANGED <<window, alerts, active, stuck, permits, handling, dbVars>>

AdvanceKeepsEntry(w) ==
  LET next == heal[w].step + 1 IN
  /\ heal[w].pc = "failed"
  /\ IF next > LastStep(RuleOf(heal[w].key))
     THEN UNCHANGED esc /\ WorkerGoes(w, "exhausted")
     ELSE /\ esc' = [esc EXCEPT ![heal[w].key] = next]
          /\ heal' = [heal EXCEPT ![w].pc = "pick", ![w].step = next]
  /\ UNCHANGED <<window, alerts, active, stuck, permits, handling, dbVars>>

AdvanceRetries(w) ==
  /\ heal[w].pc = "failed"
  /\ WorkerGoes(w, "pick")
  /\ UNCHANGED <<window, alerts, active, esc, stuck, permits, handling, dbVars>>

\* on_complete, not verified.  The rule's trust is read again, but only to
\* label the ledger row of the next step.  HealPlanner.advance, up to its
\* lock: the chain ends, or the step moves on.
Advance(w) ==
  LET key == heal[w].key
      next == heal[w].step + 1
  IN
  /\ heal[w].pc = "failed"
  /\ IF next > LastStep(RuleOf(key))
     THEN Release(key) /\ WorkerGoes(w, "exhausted")
     ELSE /\ esc' = [esc EXCEPT ![key] = next]
          /\ heal' = [heal EXCEPT ![w].pc = "pick", ![w].step = next]
  /\ UNCHANGED <<window, alerts, active, stuck, permits, handling, dbVars>>

\* The next plan goes to a new thread, whatever its trust level says.
PickNext(w, v) ==
  LET me == heal[w] IN
  /\ me.pc = "pick"
  /\ heal[v].pc = "idle"
  /\ \E step \in Candidates(RuleOf(me.key), me.step) :
       heal' = [heal EXCEPT
                  ![w].pc = "release",
                  ![v] = [me EXCEPT !.pc = "queued", !.step = step]]
  /\ UNCHANGED <<tables, handling, dbVars>>

\* Mutant of PickNone: the target is not untracked.
PickNoneTracked(w) ==
  /\ heal[w].pc = "pick"
  /\ Release(heal[w].key)
  /\ WorkerGoes(w, "release")
  /\ UNCHANGED <<window, alerts, active, stuck, permits, handling, dbVars>>

\* Every later step is ineffective: advance clears the escalation.
PickNone(w) ==
  /\ heal[w].pc = "pick"
  /\ Release(heal[w].key)
  /\ WorkerGoes(w, "exhausted")
  /\ UNCHANGED <<window, alerts, active, stuck, permits, handling, dbVars>>

Untrack(w) ==
  /\ heal[w].pc = "exhausted"
  /\ active' = active \ {TargetOf(heal[w].key)}
  /\ WorkerGoes(w, "release")
  /\ UNCHANGED <<window, alerts, esc, stuck, permits, handling, dbVars>>

ReleasePermit(w) ==
  /\ heal[w].pc = "release"
  /\ permits' = permits + 1
  /\ WorkerEnds(w)
  /\ UNCHANGED <<window, alerts, active, esc, stuck, handling, dbVars>>

(***************************************************************************)
(* Clocks, administrators, restarts                                        *)
(***************************************************************************)
WindowElapses(k) ==
  /\ k \in window
  /\ window' = window \ {k}
  /\ UNCHANGED <<alerts, active, esc, stuck, permits, handling, heal, dbVars>>

AlertExpires(t) ==
  /\ t \in alerts
  /\ alerts' = alerts \ {t}
  /\ UNCHANGED <<window, active, esc, stuck, permits, handling, heal, dbVars>>

\* The oldest failure leaves the breaker's one hour window.
FailureAges(r) ==
  /\ fails[r] > 0
  /\ fails' = [fails EXCEPT ![r] = @ - 1]
  /\ UNCHANGED <<tables, handling, heal, trust>>

\* The set, promote and demote routes, through upsert_trust_state.
SetTrust(r, level) ==
  /\ trust[r] # level
  /\ trust' = [trust EXCEPT ![r] = level]
  /\ UNCHANGED <<tables, handling, heal, fails>>

\* The server process restarts: all but the database is gone.
Restart ==
  /\ window' = {} /\ alerts' = {} /\ active' = {} /\ stuck' = {}
  /\ esc' = [k \in Key |-> Absent]
  /\ permits' = Slots
  /\ handling' = [h \in Handler |-> IdleHandler]
  /\ heal' = [w \in Worker |-> IdleWorker]
  /\ UNCHANGED dbVars

(***************************************************************************)
(* Specification                                                           *)
(***************************************************************************)
HandlerStep(h) ==
  \/ Select(h) \/ PickNothing(h) \/ Defer(h) \/ DeferRaises(h)
  \/ \E w \in Worker : Execute(h, w)

WorkerStep(w) ==
  \/ Acquire(w) \/ Drop(w) \/ RunAndRecord(w) \/ CompletionRaises(w)
  \/ Resolve(w) \/ Advance(w)
  \/ \E v \in Worker : PickNext(w, v)
  \/ PickNone(w) \/ Untrack(w) \/ ReleasePermit(w)

Environment ==
  \/ \E h \in Handler, k \in Key, s \in Source : Receive(h, k, s)
  \/ \E k \in Key : WindowElapses(k)
  \/ \E t \in Target : AlertExpires(t)
  \/ \E r \in Rule : FailureAges(r)
  \/ \E r \in Rule, level \in AdminLevels : SetTrust(r, level)
  \/ Restart

Next ==
  \/ \E h \in Handler : HandlerStep(h)
  \/ \E w \in Worker : WorkerStep(w)
  \/ Environment

Spec == Init /\ [][Next]_vars

\* Threads that have started are scheduled by the interpreter until they end.
Fairness ==
  /\ \A h \in Handler : WF_vars(HandlerStep(h))
  /\ \A w \in Worker : WF_vars(WorkerStep(w))

FairSpec == Spec /\ Fairness

(***************************************************************************)
(* Properties                                                              *)
(***************************************************************************)
\* Caller thread h holds key k's escalation between select_action and the
\* hand-over; heal thread w carries it on.
Decides(h, k) == handling[h].pc = "dispatch" /\ handling[h].key = k
Drives(w, k) == heal[w].pc \in Driving /\ heal[w].key = k

\* The planner's dictionary holds a key exactly while somebody is going to
\* clear it, but for the keys in stuck: no path of on_complete, of advance
\* and of the handlers clears an entry early or leaves one behind unnoticed.
EscalationHasOwner ==
  \A k \in Key : esc[k] # Absent <=>
    \/ \E h \in Handler : Decides(h, k)
    \/ \E w \in Worker : Drives(w, k)
    \/ k \in stuck

\* At most one thread, caller or heal thread, ever works on a key: two
\* threads that pass the correlator cannot both run the key's chain, and a
\* heal thread never clears an entry that another thread has made since.
OneOwnerPerEscalation ==
  \A k \in Key :
    /\ \A g, h \in Handler : Decides(g, k) /\ Decides(h, k) => g = h
    /\ \A v, w \in Worker : Drives(v, k) /\ Drives(w, k) => v = w
    /\ \A h \in Handler, w \in Worker : ~(Decides(h, k) /\ Drives(w, k))
    /\ k \in stuck => /\ \A h \in Handler : ~Decides(h, k)
                      /\ \A w \in Worker : ~Drives(w, k)

\* The planner's entry for a key starts at 0, never runs ahead of the heal
\* thread it stands for, and that thread's step lies in the chain and within
\* the depth limit.
StepsFollowChain ==
  \A k \in Key :
    /\ \A h \in Handler : Decides(h, k) => esc[k] = 0
    /\ \A w \in Worker : Drives(w, k) =>
         /\ heal[w].step <= LastStep(RuleOf(k))
         /\ esc[k] <= heal[w].step
         /\ heal[w].pc = "pick" => esc[k] = heal[w].step

\* Every permit is in the semaphore or with one heal thread, also after a
\* heal thread has died of an exception.
PermitsConserved ==
  permits + Cardinality({w \in Worker : heal[w].pc \in Holding}) = Slots

\* A target stays in _active_heals only while a heal thread is still going
\* to remove it, or because such a thread was lost.
TrackedTargetHasHeal ==
  \A t \in active :
    \/ \E w \in Worker : heal[w].pc \in Tracking /\ TargetOf(heal[w].key) = t
    \/ \E k \in stuck : TargetOf(k) = t

\* An escalation ends, by success, exhaustion or deferral, or is lost: no
\* escalation runs for ever, and none waits for a permit for ever.
EscalationEnds ==
  \A k \in Key : esc[k] # Absent ~> (esc[k] = Absent \/ k \in stuck)

\* The planner's dictionary seen as a table of leases.
LeaseStatus ==
  [k \in Key |-> IF k \in stuck THEN "lost"
                 ELSE IF esc[k] = Absent THEN "free" ELSE "held"]
LeaseStep == [k \in Key |-> IF esc[k] = Absent THEN 0 ELSE esc[k]]
ChainEnd == [k \in Key |-> LastStep(RuleOf(k)) + 1]

Escalation == INSTANCE EscalationLease WITH
  Lease <- Key, EndOf <- ChainEnd, status <- LeaseStatus, step <- LeaseStep

\* Threads, timeouts and exceptions together keep what EscalationLease says:
\* an escalation is claimed only on a free key, its steps only rise and stay
\* in the chain, and a lost one blocks its key until the server restarts.
ImplementsLease == Escalation!Spec

\* What the comment on _active_heals promises ("Prevents duplicate heals"):
\* no two heal threads act on one target at a time.
NoDuplicateHeals ==
  \A v, w \in Worker :
    heal[v].pc = "running" /\ heal[w].pc = "running"
      /\ TargetOf(heal[v].key) = TargetOf(heal[w].key) => v = w

\* What the guide says of the trust levels: a rule whose level is notify
\* takes no action, one whose level is approve waits for an operator.  So an
\* unverified heal moves on to the next step, after reading the rule's trust
\* again, only if that is still execute.
EscalatesOnlyAtExecuteTrust ==
  [][\A w \in Worker :
       heal[w].pc = "failed" /\ heal'[w].pc = "pick" =>
         trust[RuleOf(heal[w].key)] = "execute"]_vars
=============================================================================
