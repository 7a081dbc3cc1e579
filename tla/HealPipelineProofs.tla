------------------------- MODULE HealPipelineProofs -------------------------
(***************************************************************************)
(* Theorems about HealPipeline, for every set of targets, rules, caller    *)
(* threads and heal threads, every number of permits and every chain.      *)
(***************************************************************************)
EXTENDS HealPipeline, FiniteSetTheorems, TLAPS

\* Every key has a target and a rule; NoKey is none of them.
LEMMA KeyParts ==
  ASSUME NEW k \in Key
  PROVE  TargetOf(k) \in Target /\ RuleOf(k) \in Rule /\ k # NoKey
BY PipelineAssumption DEF Key, TargetOf, RuleOf

\* The last step of a chain is a natural number.
LEMMA LastStepNat ==
  ASSUME NEW r \in Rule
  PROVE  LastStep(r) \in Nat
BY PipelineAssumption DEF LastStep

(***************************************************************************)
(* Types                                                                   *)
(***************************************************************************)
\* The initial tables, threads and database rows have their types.
LEMMA InitTypeOK == Init => TypeOK
<1> SUFFICES ASSUME Init PROVE TypeOK
  OBVIOUS
<1>1. /\ window \subseteq Key /\ alerts \subseteq Target
      /\ active \subseteq Target /\ stuck \subseteq Key
      /\ esc \in [Key -> Nat \union {Absent}]
      /\ permits \in Nat
  BY PipelineAssumption DEF Init
<1>2. /\ handling \in [Handler -> HandlerState]
      /\ heal \in [Worker -> WorkerState]
      /\ \A h \in Handler : handling[h].pc = "idle"
      /\ \A w \in Worker : heal[w].pc = "idle"
  BY DEF Init, IdleHandler, IdleWorker, HandlerState, WorkerState, HandlerPc,
         WorkerPc, Level
<1>3. trust \in [Rule -> Level \union {NoState}]
  BY PipelineAssumption DEF Init
<1>4. fails \in [Rule -> 0 .. Threshold]
  BY PipelineAssumption DEF Init
<1> QED BY <1>1, <1>2, <1>3, <1>4 DEF TypeOK

\* A step of a caller's thread keeps the types.
LEMMA HandlerTypeOK ==
  ASSUME TypeOK, NEW h \in Handler, HandlerStep(h)
  PROVE  TypeOK'
<1> USE DEF TypeOK, HandlerState, HandlerPc, IdleHandler, HandlerReturns,
            dbVars, tables
<1> DEFINE key == handling[h].key
<1>1. CASE Select(h)
  <2>1. key \in Key /\ RuleOf(key) \in Rule
    BY <1>1, KeyParts DEF Select
  <2>2. trust' \in [Rule -> Level \union {NoState}]
    BY <1>1, <2>1 DEF Select, Level
  <2>3. /\ esc' \in [Key -> Nat \union {Absent}]
        /\ handling' \in [Handler -> HandlerState]
        /\ \A g \in Handler : handling'[g].pc # "idle" => handling'[g].key \in Key
    BY <1>1, <2>1 DEF Select, Level
  <2> QED BY <1>1, <2>2, <2>3 DEF Select
<1>2. CASE PickNothing(h)
  BY <1>2 DEF PickNothing, Level
<1>3. CASE Defer(h)
  BY <1>3 DEF Defer, Release, Level
<1>4. CASE DeferRaises(h)
  BY <1>4 DEF DeferRaises, Level
<1>5. ASSUME NEW w \in Worker, Execute(h, w)
      PROVE  TypeOK'
  <2>1. key \in Key /\ TargetOf(key) \in Target /\ RuleOf(key) \in Rule
    BY <1>5, KeyParts DEF Execute
  <2>2. PICK step \in Candidates(RuleOf(key), 0) : Spawn(w, key, step)
    BY <1>5 DEF Execute
  <2>3. step \in Nat
    BY <2>1, LastStepNat DEF Candidates
  <2>4. /\ heal' \in [Worker -> WorkerState]
        /\ \A v \in Worker : heal'[v].pc # "idle" => heal'[v].key \in Key
    BY <2>1, <2>2, <2>3 DEF Spawn, WorkerState, WorkerPc
  <2>5. active' \subseteq Target
    BY <1>5, <2>1 DEF Execute
  <2> QED BY <1>5, <2>4, <2>5 DEF Execute, Level
<1> QED BY <1>1, <1>2, <1>3, <1>4, <1>5 DEF HandlerStep

\* A step of a heal thread keeps the types.
LEMMA WorkerTypeOK ==
  ASSUME TypeOK, NEW w \in Worker, WorkerStep(w)
  PROVE  TypeOK'
<1> USE DEF TypeOK, WorkerState, WorkerPc, IdleWorker, WorkerGoes, WorkerEnds,
            dbVars, tables
<1> DEFINE key == heal[w].key
<1>1. CASE Acquire(w)
  BY <1>1 DEF Acquire
<1>2. CASE Drop(w)
  BY <1>2 DEF Drop
<1>3. CASE RunAndRecord(w)
  <2>1. RuleOf(key) \in Rule
    BY <1>3, KeyParts DEF RunAndRecord
  <2>2. fails' \in [Rule -> 0 .. Threshold]
    BY <1>3, <2>1, PipelineAssumption DEF RunAndRecord
  <2> QED BY <1>3, <2>2 DEF RunAndRecord
<1>4. CASE CompletionRaises(w)
  BY <1>4 DEF CompletionRaises
<1>5. CASE Resolve(w)
  BY <1>5 DEF Resolve, Release
<1>6. CASE Advance(w)
  BY <1>6 DEF Advance, Release
<1>7. ASSUME NEW v \in Worker, PickNext(w, v)
      PROVE  TypeOK'
  <2>1. key \in Key /\ RuleOf(key) \in Rule
    BY <1>7, KeyParts DEF PickNext
  <2>2. PICK step \in Candidates(RuleOf(key), heal[w].step) :
          heal' = [heal EXCEPT
                     ![w].pc = "release",
                     ![v] = [heal[w] EXCEPT !.pc = "queued", !.step = step]]
    BY <1>7 DEF PickNext
  <2>3. step \in Nat
    BY <2>1, LastStepNat DEF Candidates
  <2>4. /\ heal' \in [Worker -> WorkerState]
        /\ \A u \in Worker : heal'[u].pc # "idle" => heal'[u].key \in Key
    <3>1. heal[w] \in WorkerState /\ key = heal[w].key /\ \A u \in Worker : heal[u] \in WorkerState
      BY DEF WorkerState
    <3>2. [heal[w] EXCEPT !.pc = "queued", !.step = step] \in WorkerState
          /\ [heal[w] EXCEPT !.pc = "queued", !.step = step].key = key
      BY <2>3, <3>1 DEF WorkerState, WorkerPc
    <3>3. [heal[w] EXCEPT !.pc = "release"] \in WorkerState /\ [heal[w] EXCEPT !.pc = "release"].key = key
      BY <3>1 DEF WorkerState, WorkerPc
    <3> QED BY <1>7, <2>1, <2>2, <3>1, <3>2, <3>3
  <2> QED BY <1>7, <2>4 DEF PickNext
<1>8. CASE PickNone(w)
  BY <1>8 DEF PickNone, Release
<1>9. CASE Untrack(w)
  BY <1>9 DEF Untrack
<1>10. CASE ReleasePermit(w)
  BY <1>10 DEF ReleasePermit
<1> QED
  BY <1>1, <1>2, <1>3, <1>4, <1>5, <1>6, <1>7, <1>8, <1>9, <1>10
  DEF WorkerStep

\* Events, timers, administrators and restarts keep the types.
LEMMA EnvironmentTypeOK ==
  ASSUME TypeOK, Environment
  PROVE  TypeOK'
<1> USE DEF TypeOK, HandlerState, HandlerPc, IdleHandler, dbVars, tables
<1>1. ASSUME NEW h \in Handler, NEW k \in Key, NEW s \in Source,
             Receive(h, k, s)
      PROVE  TypeOK'
  <2>1. TargetOf(k) \in Target /\ RuleOf(k) \in Rule
    BY KeyParts
  <2>2. EffectiveTrust(RuleOf(k), s) \in Level
    BY <2>1 DEF EffectiveTrust, LevelBelow, Level, NoState
  <2>3. \A next \in Outcomes(k, s) :
          next \in HandlerState /\ (next.pc # "idle" => next.key \in Key)
    BY <2>2 DEF Outcomes, Level
  <2>4. /\ handling' \in [Handler -> HandlerState]
        /\ \A g \in Handler : handling'[g].pc # "idle" => handling'[g].key \in Key
    BY <1>1, <2>3 DEF Receive
  <2> QED BY <1>1, <2>1, <2>4 DEF Receive
<1>2. ASSUME NEW k \in Key, WindowElapses(k) PROVE TypeOK'
  BY <1>2 DEF WindowElapses
<1>3. ASSUME NEW t \in Target, AlertExpires(t) PROVE TypeOK'
  BY <1>3 DEF AlertExpires
<1>4. ASSUME NEW r \in Rule, FailureAges(r) PROVE TypeOK'
  BY <1>4, PipelineAssumption DEF FailureAges
<1>5. ASSUME NEW r \in Rule, NEW level \in AdminLevels, SetTrust(r, level)
      PROVE  TypeOK'
  BY <1>5, PipelineAssumption DEF SetTrust
<1>6. CASE Restart
  BY <1>6, PipelineAssumption
     DEF Restart, IdleWorker, WorkerState, WorkerPc, Level, Absent
<1> QED BY <1>1, <1>2, <1>3, <1>4, <1>5, <1>6 DEF Environment

\* Every reachable state of the pipeline has the types TypeOK gives it.
THEOREM TypeCorrect == Spec => []TypeOK
<1>1. Init => TypeOK
  BY InitTypeOK
<1>2. TypeOK /\ [Next]_vars => TypeOK'
  <2> SUFFICES ASSUME TypeOK, [Next]_vars PROVE TypeOK'
    OBVIOUS
  <2>1. CASE \E h \in Handler : HandlerStep(h)
    BY <2>1, HandlerTypeOK
  <2>2. CASE \E w \in Worker : WorkerStep(w)
    BY <2>2, WorkerTypeOK
  <2>3. CASE Environment
    BY <2>3, EnvironmentTypeOK
  <2>4. CASE UNCHANGED vars
    BY <2>4 DEF vars, TypeOK
  <2> QED BY <2>1, <2>2, <2>3, <2>4 DEF Next
<1> QED BY <1>1, <1>2, PTL DEF Spec

(***************************************************************************)
(* Who owns an escalation                                                  *)
(***************************************************************************)
\* The three facts about one key that keep each other true.
KeyInv(k) ==
  /\ esc[k] # Absent <=>
       \/ \E h \in Handler : Decides(h, k)
       \/ \E w \in Worker : Drives(w, k)
       \/ k \in stuck
  /\ \A g, h \in Handler : Decides(g, k) /\ Decides(h, k) => g = h
  /\ \A v, w \in Worker : Drives(v, k) /\ Drives(w, k) => v = w
  /\ \A h \in Handler, w \in Worker : ~(Decides(h, k) /\ Drives(w, k))
  /\ k \in stuck => /\ \A h \in Handler : ~Decides(h, k)
                    /\ \A w \in Worker : ~Drives(w, k)
  /\ \A h \in Handler : Decides(h, k) => esc[k] = 0
  /\ \A w \in Worker : Drives(w, k) =>
       /\ heal[w].step <= LastStep(RuleOf(k))
       /\ esc[k] <= heal[w].step
       /\ heal[w].pc = "pick" => esc[k] = heal[w].step

IInv == TypeOK /\ \A k \in Key : KeyInv(k)

\* IInv is the three invariants and the types.
LEMMA IInvMeaning ==
  IInv <=> TypeOK /\ EscalationHasOwner /\ OneOwnerPerEscalation
             /\ StepsFollowChain
BY Zenon
   DEF IInv, KeyInv, EscalationHasOwner, OneOwnerPerEscalation,
       StepsFollowChain

\* A key whose owners, entry and stuck flag stay as they are keeps KeyInv.
LEMMA KeyUntouched ==
  ASSUME NEW k \in Key, KeyInv(k),
         \A h \in Handler : Decides(h, k)' <=> Decides(h, k),
         \A w \in Worker : Drives(w, k)' <=> Drives(w, k),
         \A w \in Worker : Drives(w, k) => /\ heal'[w].step = heal[w].step
                                           /\ heal'[w].pc = "pick" =>
                                                heal[w].pc = "pick",
         esc'[k] = esc[k],
         k \in stuck' <=> k \in stuck
  PROVE  KeyInv(k)'
BY DEF KeyInv

\* In the initial state no key has an entry or an owner.
LEMMA InitIInv == Init => IInv
<1> SUFFICES ASSUME Init, NEW k \in Key PROVE KeyInv(k)
  BY InitTypeOK DEF IInv
<1>1. /\ \A h \in Handler : ~Decides(h, k)
      /\ \A w \in Worker : ~Drives(w, k)
  BY DEF Init, Decides, Drives, Driving, IdleHandler, IdleWorker
<1> QED BY <1>1 DEF Init, KeyInv

\* A step of a caller's thread keeps each key's ownership.
LEMMA HandlerIInv ==
  ASSUME IInv, NEW h \in Handler, HandlerStep(h), NEW k \in Key
  PROVE  KeyInv(k)'
<1> USE DEF IInv
<1> DEFINE key == handling[h].key
<1>0. TypeOK /\ KeyInv(k)
  OBVIOUS
<1>1. CASE Select(h)
  <2>1. /\ heal' = heal /\ stuck' = stuck
        /\ \A w \in Worker : Drives(w, k)' <=> Drives(w, k)
    BY <1>1 DEF Select, Drives
  <2>2. CASE handling' = [handling EXCEPT ![h] = IdleHandler] /\ esc' = esc
    <3>1. \A g \in Handler : Decides(g, k)' <=> Decides(g, k)
      BY <1>0, <1>1, <2>2 DEF Select, Decides, TypeOK, HandlerState, IdleHandler
    <3> QED BY <1>0, <2>1, <2>2, <3>1, KeyUntouched
  <2>3. CASE /\ esc[key] = Absent
             /\ esc' = [esc EXCEPT ![key] = 0]
             /\ \E level \in Level : handling' =
                  [handling EXCEPT ![h].pc = "dispatch", ![h].level = level]
    <3>1. \A g \in Handler : Decides(g, k)' <=>
            IF g = h THEN key = k ELSE Decides(g, k)
      BY <1>0, <2>3 DEF Decides, TypeOK, HandlerState
    <3>2. CASE k = key
      <4>1. /\ \A g \in Handler : ~Decides(g, k)
            /\ \A w \in Worker : ~Drives(w, k)
            /\ k \notin stuck
        BY <1>0, <2>3, <3>2 DEF KeyInv
      <4>2. esc'[k] = 0
        BY <1>0, <2>3, <3>2 DEF TypeOK
      <4> QED BY <2>1, <3>1, <3>2, <4>1, <4>2 DEF KeyInv, Absent
    <3>3. CASE k # key
      <4>1. ~Decides(h, k)
        BY <3>3 DEF Decides
      <4>2. esc'[k] = esc[k]
        BY <1>0, <2>3, <3>3 DEF TypeOK
      <4> QED BY <1>0, <2>1, <3>1, <3>3, <4>1, <4>2, KeyUntouched
    <3> QED BY <3>2, <3>3
  <2> QED
    BY <1>0, <1>1, <2>2, <2>3
    DEF Select, HandlerReturns, TypeOK, HandlerState, Level
<1>2. CASE PickNothing(h) \/ DeferRaises(h)
  <2>1. /\ heal' = heal /\ esc' = esc /\ stuck' = stuck \union {key}
        /\ \A w \in Worker : Drives(w, k)' <=> Drives(w, k)
        /\ Decides(h, key)
    BY <1>2 DEF PickNothing, DeferRaises, Drives, Decides
  <2>2. \A g \in Handler : Decides(g, k)' <=> (g # h /\ Decides(g, k))
    BY <1>0, <1>2
    DEF PickNothing, DeferRaises, HandlerReturns, Decides, TypeOK,
        HandlerState, IdleHandler
  <2>3. CASE k = key
    BY <1>0, <2>1, <2>2, <2>3 DEF KeyInv
  <2>4. CASE k # key
    <3>1. ~Decides(h, k)
      BY <2>4 DEF Decides
    <3> QED BY <1>0, <2>1, <2>2, <2>4, <3>1, KeyUntouched
  <2> QED BY <2>3, <2>4
<1>3. CASE Defer(h)
  <2>1. /\ heal' = heal /\ stuck' = stuck
        /\ \A w \in Worker : Drives(w, k)' <=> Drives(w, k)
        /\ Decides(h, key)
    BY <1>3 DEF Defer, Drives, Decides
  <2>2. \A g \in Handler : Decides(g, k)' <=> (g # h /\ Decides(g, k))
    BY <1>0, <1>3
    DEF Defer, HandlerReturns, Decides, TypeOK, HandlerState, IdleHandler
  <2>3. CASE k = key
    <3>1. esc'[k] = Absent
      BY <1>0, <1>3, <2>3 DEF Defer, Release, TypeOK
    <3> QED BY <1>0, <2>1, <2>2, <2>3, <3>1 DEF KeyInv
  <2>4. CASE k # key
    <3>1. ~Decides(h, k)
      BY <2>4 DEF Decides
    <3>2. esc'[k] = esc[k]
      BY <1>0, <1>3, <2>4 DEF Defer, Release, TypeOK
    <3> QED BY <1>0, <2>1, <2>2, <2>4, <3>1, <3>2, KeyUntouched
  <2> QED BY <2>3, <2>4
<1>4. ASSUME NEW w \in Worker, Execute(h, w)
      PROVE  KeyInv(k)'
  <2>1. /\ esc' = esc /\ stuck' = stuck /\ Decides(h, key)
        /\ heal[w].pc = "idle"
    BY <1>4 DEF Execute, Spawn, Decides
  <2>2. PICK step \in Candidates(RuleOf(key), 0) :
          heal' = [heal EXCEPT ![w] =
                     [pc |-> "queued", key |-> key, step |-> step]]
    BY <1>4 DEF Execute, Spawn
  <2>3. \A g \in Handler : Decides(g, k)' <=> (g # h /\ Decides(g, k))
    BY <1>0, <1>4
    DEF Execute, HandlerReturns, Decides, TypeOK, HandlerState, IdleHandler
  <2>4. /\ ~Drives(w, k)
        /\ Drives(w, k)' <=> key = k
        /\ \A v \in Worker \ {w} : Drives(v, k)' <=> Drives(v, k)
        /\ \A v \in Worker \ {w} : heal'[v] = heal[v]
    BY <1>0, <2>1, <2>2 DEF Drives, Driving, TypeOK, WorkerState
  <2>5. CASE k = key
    <3>1. /\ heal'[w].step = step /\ heal'[w].pc = "queued"
          /\ step >= 0 /\ step <= LastStep(RuleOf(k))
      BY <1>0, <2>2, <2>5, KeyParts, LastStepNat DEF Candidates, TypeOK
    <3>2. /\ esc'[k] = 0 /\ k \notin stuck
          /\ \A v \in Worker : ~Drives(v, k)
          /\ \A g \in Handler : ~Decides(g, k)'
      BY <1>0, <2>1, <2>3, <2>5 DEF KeyInv
    <3> QED BY <2>1, <2>4, <2>5, <3>1, <3>2 DEF KeyInv, Absent
  <2>6. CASE k # key
    <3>1. ~Decides(h, k)
      BY <2>6 DEF Decides
    <3>2. /\ \A v \in Worker : Drives(v, k)' <=> Drives(v, k)
          /\ \A v \in Worker : Drives(v, k) => heal'[v] = heal[v]
      BY <2>4, <2>6
    <3> QED BY <1>0, <2>1, <2>3, <3>1, <3>2, KeyUntouched
  <2> QED BY <2>5, <2>6
<1> QED BY <1>1, <1>2, <1>3, <1>4 DEF HandlerStep

\* A step of a heal thread that ends its part in the escalation of its key.
LEMMA WorkerReleases ==
  ASSUME TypeOK, NEW w \in Worker, NEW k \in Key, KeyInv(k),
         Drives(w, heal[w].key), heal[w].key \in Key,
         handling' = handling,
         \A v \in Worker \ {w} : heal'[v] = heal[v],
         heal'[w].pc \notin Driving,
         \/ /\ esc' = [esc EXCEPT ![heal[w].key] = Absent]
            /\ stuck' = stuck
         \/ /\ esc' = esc
            /\ stuck' = stuck \union {heal[w].key}
  PROVE  KeyInv(k)'
<1>1. /\ \A h \in Handler : Decides(h, k)' <=> Decides(h, k)
      /\ \A v \in Worker : Drives(v, k)' <=> (v # w /\ Drives(v, k))
  BY DEF Decides, Drives
<1>2. CASE k = heal[w].key
  <2>1. /\ Drives(w, k)
        /\ \A v \in Worker : Drives(v, k) => v = w
        /\ \A h \in Handler : ~Decides(h, k)
        /\ esc[k] # Absent
    BY <1>2 DEF KeyInv
  <2>2. \/ esc'[k] = Absent /\ k \notin stuck'
        \/ esc'[k] # Absent /\ k \in stuck'
    BY <1>2, <2>1 DEF KeyInv, TypeOK
  <2> QED BY <1>1, <2>1, <2>2 DEF KeyInv
<1>3. CASE k # heal[w].key
  <2>1. ~Drives(w, k)
    BY <1>3 DEF Drives
  <2>2. esc'[k] = esc[k] /\ (k \in stuck' <=> k \in stuck)
    BY <1>3 DEF TypeOK
  <2>3. \A v \in Worker : Drives(v, k) => heal'[v] = heal[v]
    BY <2>1
  <2> QED BY <1>1, <2>1, <2>2, <2>3, KeyUntouched
<1> QED BY <1>2, <1>3

\* A step of a heal thread keeps each key's ownership.
LEMMA WorkerIInv ==
  ASSUME IInv, NEW w \in Worker, WorkerStep(w), NEW k \in Key
  PROVE  KeyInv(k)'
<1> USE DEF IInv
<1> DEFINE key == heal[w].key
<1>0. TypeOK /\ KeyInv(k)
  OBVIOUS
<1>1. CASE Acquire(w) \/ RunAndRecord(w) \/ Untrack(w) \/ ReleasePermit(w)
  <2>1. /\ esc' = esc /\ stuck' = stuck
        /\ \A h \in Handler : Decides(h, k)' <=> Decides(h, k)
    BY <1>1 DEF Acquire, RunAndRecord, Untrack, ReleasePermit, Decides,
                tables, dbVars
  <2>2. \A v \in Worker : Drives(v, k)' <=> Drives(v, k)
    BY <1>0, <1>1
    DEF Acquire, RunAndRecord, Untrack, ReleasePermit, WorkerGoes,
        WorkerEnds, IdleWorker, Drives, Driving, TypeOK, WorkerState
  <2>3. \A v \in Worker : Drives(v, k) =>
          /\ heal'[v].step = heal[v].step
          /\ heal'[v].pc = "pick" => heal[v].pc = "pick"
    BY <1>0, <1>1
    DEF Acquire, RunAndRecord, Untrack, ReleasePermit, WorkerGoes,
        WorkerEnds, IdleWorker, Drives, Driving, TypeOK, WorkerState
  <2> QED BY <1>0, <2>1, <2>2, <2>3, KeyUntouched
<1>2. CASE Drop(w) \/ CompletionRaises(w)
  <2>1. Drives(w, key) /\ key \in Key
    BY <1>0, <1>2 DEF Drop, CompletionRaises, Drives, Driving, TypeOK
  <2>2. /\ handling' = handling /\ esc' = esc
        /\ stuck' = stuck \union {key}
        /\ \A v \in Worker \ {w} : heal'[v] = heal[v]
        /\ heal'[w].pc \notin Driving
    BY <1>0, <1>2
    DEF Drop, CompletionRaises, WorkerEnds, IdleWorker, Driving, TypeOK
  <2> QED BY <1>0, <2>1, <2>2, WorkerReleases
<1>3. CASE \/ Resolve(w) \/ PickNone(w)
           \/ Advance(w) /\ heal[w].step + 1 > LastStep(RuleOf(key))
  <2>1. Drives(w, key) /\ key \in Key
    BY <1>0, <1>3 DEF Resolve, PickNone, Advance, Drives, Driving, TypeOK
  <2>2. /\ handling' = handling /\ stuck' = stuck
        /\ esc' = [esc EXCEPT ![key] = Absent]
        /\ \A v \in Worker \ {w} : heal'[v] = heal[v]
        /\ heal'[w].pc \notin Driving
    BY <1>0, <1>3
    DEF Resolve, PickNone, Advance, Release, WorkerGoes, Driving, TypeOK,
        WorkerState
  <2> QED BY <1>0, <2>1, <2>2, WorkerReleases
<1>4. CASE Advance(w) /\ ~(heal[w].step + 1 > LastStep(RuleOf(key)))
  <2> DEFINE next == heal[w].step + 1
  <2>1. /\ handling' = handling /\ stuck' = stuck
        /\ esc' = [esc EXCEPT ![key] = next]
        /\ heal' = [heal EXCEPT ![w].pc = "pick", ![w].step = next]
        /\ heal[w].pc = "failed" /\ key \in Key
    BY <1>0, <1>4 DEF Advance, TypeOK
  <2>2. /\ \A h \in Handler : Decides(h, k)' <=> Decides(h, k)
        /\ \A v \in Worker : Drives(v, k)' <=> Drives(v, k)
        /\ heal'[w].step = next
        /\ \A v \in Worker \ {w} : heal'[v] = heal[v]
    BY <1>0, <2>1 DEF Decides, Drives, Driving, TypeOK, WorkerState
  <2>3. CASE k = key
    <3>1. /\ Drives(w, k)
          /\ \A v \in Worker : Drives(v, k) => v = w
          /\ \A h \in Handler : ~Decides(h, k)
          /\ k \notin stuck
      BY <1>0, <2>1, <2>3 DEF KeyInv, Drives, Driving
    <3>2. /\ esc'[k] = next /\ next # Absent
          /\ next <= LastStep(RuleOf(k))
      BY <1>0, <1>4, <2>1, <2>3, KeyParts, LastStepNat
      DEF TypeOK, WorkerState, Absent
    <3>3. next <= next
      BY <1>0 DEF TypeOK, WorkerState
    <3> QED BY <2>1, <2>2, <3>1, <3>2, <3>3 DEF KeyInv
  <2>4. CASE k # key
    <3>1. ~Drives(w, k)
      BY <2>4 DEF Drives
    <3>2. esc'[k] = esc[k]
      BY <1>0, <2>1, <2>4 DEF TypeOK
    <3>3. \A v \in Worker : Drives(v, k) => heal'[v] = heal[v]
      BY <2>2, <3>1
    <3> QED BY <1>0, <2>1, <2>2, <3>1, <3>2, <3>3, KeyUntouched
  <2> QED BY <2>3, <2>4
<1>5. ASSUME NEW v \in Worker, PickNext(w, v)
      PROVE  KeyInv(k)'
  <2>1. PICK step \in Candidates(RuleOf(key), heal[w].step) :
          heal' = [heal EXCEPT
                     ![w].pc = "release",
                     ![v] = [heal[w] EXCEPT !.pc = "queued", !.step = step]]
    BY <1>5 DEF PickNext
  <2>2. /\ esc' = esc /\ stuck' = stuck /\ handling' = handling
        /\ heal[w].pc = "pick" /\ heal[v].pc = "idle" /\ v # w
        /\ key \in Key
    BY <1>0, <1>5 DEF PickNext, tables, TypeOK
  <2>3. /\ \A h \in Handler : Decides(h, k)' <=> Decides(h, k)
        /\ \A u \in Worker \ {v, w} : heal'[u] = heal[u]
        /\ heal'[w].pc = "release"
        /\ heal'[v].pc = "queued" /\ heal'[v].key = key
        /\ heal'[v].step = step
    BY <1>0, <2>1, <2>2 DEF Decides, TypeOK, WorkerState
  <2>4. /\ ~Drives(w, k)' /\ ~Drives(v, k)
        /\ Drives(v, k)' <=> key = k
        /\ Drives(w, k) <=> key = k
        /\ \A u \in Worker \ {v, w} : Drives(u, k)' <=> Drives(u, k)
    BY <2>2, <2>3 DEF Drives, Driving
  <2>5. CASE k = key
    <3>1. /\ \A u \in Worker : Drives(u, k) => u = w
          /\ \A h \in Handler : ~Decides(h, k)
          /\ k \notin stuck
          /\ esc[k] # Absent /\ esc[k] = heal[w].step
      BY <1>0, <2>2, <2>4, <2>5 DEF KeyInv
    <3>2. \A u \in Worker : Drives(u, k)' <=> u = v
      BY <2>4, <2>5, <3>1
    <3>3. step <= LastStep(RuleOf(k)) /\ esc[k] <= step
      BY <1>0, <2>1, <2>5, <3>1, KeyParts, LastStepNat
      DEF Candidates, TypeOK, WorkerState
    <3> QED BY <2>2, <2>3, <3>1, <3>2, <3>3 DEF KeyInv
  <2>6. CASE k # key
    <3>1. \A u \in Worker : Drives(u, k)' <=> Drives(u, k)
      BY <2>4, <2>6
    <3>2. \A u \in Worker : Drives(u, k) => heal'[u] = heal[u]
      BY <2>3, <2>4, <2>6
    <3> QED BY <1>0, <2>2, <2>3, <3>1, <3>2, KeyUntouched
  <2> QED BY <2>5, <2>6
<1> QED BY <1>1, <1>2, <1>3, <1>4, <1>5 DEF WorkerStep

\* Events, timers, administrators and restarts keep each key's ownership.
LEMMA EnvironmentIInv ==
  ASSUME IInv, Environment, NEW k \in Key
  PROVE  KeyInv(k)'
<1> USE DEF IInv
<1>0. TypeOK /\ KeyInv(k)
  OBVIOUS
<1>1. ASSUME NEW h \in Handler, NEW j \in Key, NEW s \in Source,
             Receive(h, j, s)
      PROVE  KeyInv(k)'
  <2>1. \A next \in Outcomes(j, s) : next.pc # "dispatch"
    BY DEF Outcomes, IdleHandler
  <2>2. \A g \in Handler : Decides(g, k)' <=> Decides(g, k)
    BY <1>0, <1>1, <2>1 DEF Receive, Decides, TypeOK
  <2>3. heal' = heal /\ esc' = esc /\ stuck' = stuck
    BY <1>1 DEF Receive
  <2>4. \A w \in Worker : Drives(w, k)' <=> Drives(w, k)
    BY <2>3 DEF Drives
  <2> QED BY <1>0, <2>2, <2>3, <2>4, KeyUntouched
<1>2. CASE Restart
  <2>1. /\ \A h \in Handler : ~Decides(h, k)'
        /\ \A w \in Worker : ~Drives(w, k)'
        /\ esc'[k] = Absent /\ k \notin stuck'
    BY <1>2 DEF Restart, Decides, Drives, Driving, IdleHandler, IdleWorker
  <2> QED BY <2>1 DEF KeyInv
<1>3. CASE /\ UNCHANGED <<esc, stuck, handling, heal>>
  BY <1>0, <1>3, KeyUntouched DEF Decides, Drives
<1> QED
  BY <1>1, <1>2, <1>3
  DEF Environment, WindowElapses, AlertExpires, FailureAges, SetTrust, tables

\* IInv is an inductive invariant of the pipeline.
LEMMA IInvInductive == IInv /\ [Next]_vars => IInv'
<1> SUFFICES ASSUME IInv, [Next]_vars PROVE IInv'
  OBVIOUS
<1>1. CASE \E h \in Handler : HandlerStep(h)
  BY <1>1, HandlerTypeOK, HandlerIInv DEF IInv
<1>2. CASE \E w \in Worker : WorkerStep(w)
  BY <1>2, WorkerTypeOK, WorkerIInv DEF IInv
<1>3. CASE Environment
  BY <1>3, EnvironmentTypeOK, EnvironmentIInv DEF IInv
<1>4. CASE UNCHANGED vars
  <2>1. TypeOK'
    BY <1>4 DEF vars, TypeOK, IInv
  <2>2. ASSUME NEW k \in Key PROVE KeyInv(k)'
    BY <1>4, KeyUntouched DEF vars, Decides, Drives, IInv
  <2> QED BY <2>1, <2>2 DEF IInv
<1> QED BY <1>1, <1>2, <1>3, <1>4 DEF Next

LEMMA AlwaysIInv == Spec => []IInv
BY InitIInv, IInvInductive, PTL DEF Spec

\* The planner's table holds a key exactly while a thread will clear it.
THEOREM OwnerCorrect == Spec => []EscalationHasOwner
<1>1. IInv => EscalationHasOwner
  BY IInvMeaning
<1> QED BY <1>1, AlwaysIInv, PTL

\* No two threads ever work on the same key's escalation.
THEOREM SingleOwnerCorrect == Spec => []OneOwnerPerEscalation
<1>1. IInv => OneOwnerPerEscalation
  BY IInvMeaning
<1> QED BY <1>1, AlwaysIInv, PTL

\* Every heal thread runs a step of its chain, within the depth limit.
THEOREM StepsCorrect == Spec => []StepsFollowChain
<1>1. IInv => StepsFollowChain
  BY IInvMeaning
<1> QED BY <1>1, AlwaysIInv, PTL

(***************************************************************************)
(* Targets in _active_heals                                                *)
(***************************************************************************)
\* A target stays tracked only while a heal thread will still remove it, or
\* because the thread that would have removed it was lost.
THEOREM TrackedCorrect == Spec => []TrackedTargetHasHeal
<1> DEFINE Inv == TrackedTargetHasHeal
<1>1. Init => Inv
  BY DEF Init, TrackedTargetHasHeal
<1>2. TypeOK /\ Inv /\ [Next]_vars => Inv'
  <2> SUFFICES ASSUME TypeOK, Inv, [Next]_vars, NEW t \in active'
               PROVE  \/ \E w \in Worker : /\ heal'[w].pc \in Tracking
                                           /\ TargetOf(heal'[w].key) = t
                      \/ \E k \in stuck' : TargetOf(k) = t
    BY Zenon DEF TrackedTargetHasHeal
  <2>0. t \in active => \/ \E w \in Worker : /\ heal[w].pc \in Tracking
                                             /\ TargetOf(heal[w].key) = t
                        \/ \E k \in stuck : TargetOf(k) = t
    BY DEF TrackedTargetHasHeal
  <2>1. CASE UNCHANGED <<active, stuck, heal>>
    BY <2>0, <2>1
  <2>2. ASSUME NEW h \in Handler, HandlerStep(h), ~UNCHANGED <<active, stuck, heal>>
        PROVE  \/ \E w \in Worker : /\ heal'[w].pc \in Tracking
                                    /\ TargetOf(heal'[w].key) = t
               \/ \E k \in stuck' : TargetOf(k) = t
    <3>1. CASE PickNothing(h) \/ DeferRaises(h)
      <4>1. active' = active /\ heal' = heal /\ stuck \subseteq stuck'
        BY <3>1 DEF PickNothing, DeferRaises
      <4> QED BY <2>0, <4>1
    <3>2. ASSUME NEW w \in Worker, Execute(h, w)
          PROVE  \E v \in Worker : /\ heal'[v].pc \in Tracking
                                   /\ TargetOf(heal'[v].key) = t
                 \/ \E k \in stuck' : TargetOf(k) = t
      <4>1. PICK step \in Candidates(RuleOf(handling[h].key), 0) :
              Spawn(w, handling[h].key, step)
        BY <3>2 DEF Execute
      <4>2. /\ heal'[w].pc = "queued" /\ heal'[w].key = handling[h].key
            /\ \A v \in Worker \ {w} : heal'[v] = heal[v]
            /\ heal[w].pc = "idle"
        BY <4>1 DEF Spawn, TypeOK
      <4>3. /\ active' = active \union {TargetOf(handling[h].key)}
            /\ stuck' = stuck
        BY <3>2 DEF Execute
      <4>4. "queued" \in Tracking /\ "idle" \notin Tracking
        BY DEF Tracking, Driving
      <4>5. CASE t = TargetOf(handling[h].key)
        BY <4>2, <4>4, <4>5
      <4>6. CASE t # TargetOf(handling[h].key)
        BY <2>0, <4>2, <4>3, <4>4, <4>6
      <4> QED BY <4>5, <4>6
    <3> QED
      BY <2>2, <3>1, <3>2 DEF HandlerStep, Select, Defer
  <2>3. ASSUME NEW w \in Worker, WorkerStep(w)
        PROVE  \/ \E v \in Worker : /\ heal'[v].pc \in Tracking
                                    /\ TargetOf(heal'[v].key) = t
               \/ \E k \in stuck' : TargetOf(k) = t
    <3>1. CASE Acquire(w) \/ RunAndRecord(w) \/ Advance(w) \/ PickNone(w)
      <4>1. /\ active' = active /\ stuck' = stuck
            /\ heal'[w].pc \in Tracking
            /\ heal'[w].key = heal[w].key
            /\ \A v \in Worker \ {w} : heal'[v] = heal[v]
        BY <3>1 DEF Acquire, RunAndRecord, Advance, PickNone, WorkerGoes,
                    tables, TypeOK, WorkerState, Tracking, Driving
      <4> QED BY <2>0, <4>1
    <3>2. CASE Drop(w) \/ CompletionRaises(w)
      <4>1. /\ active' = active /\ stuck' = stuck \union {heal[w].key}
            /\ \A v \in Worker \ {w} : heal'[v] = heal[v]
        BY <3>2 DEF Drop, CompletionRaises, WorkerEnds, TypeOK
      <4> QED BY <2>0, <4>1
    <3>3. CASE Resolve(w) \/ Untrack(w)
      <4>1. /\ active' = active \ {TargetOf(heal[w].key)} /\ stuck' = stuck
            /\ \A v \in Worker \ {w} : heal'[v] = heal[v]
        BY <3>3 DEF Resolve, Untrack, WorkerGoes, TypeOK
      <4> QED BY <2>0, <4>1
    <3>4. CASE ReleasePermit(w)
      <4>1. /\ active' = active /\ stuck' = stuck
            /\ \A v \in Worker \ {w} : heal'[v] = heal[v]
            /\ heal[w].pc \notin Tracking
        BY <3>4 DEF ReleasePermit, WorkerEnds, TypeOK, Tracking, Driving
      <4> QED BY <2>0, <4>1
    <3>5. ASSUME NEW v \in Worker, PickNext(w, v)
          PROVE  \/ \E u \in Worker : /\ heal'[u].pc \in Tracking
                                      /\ TargetOf(heal'[u].key) = t
                 \/ \E k \in stuck' : TargetOf(k) = t
      <4>1. /\ active' = active /\ stuck' = stuck
            /\ heal[w].pc = "pick" /\ heal[v].pc = "idle" /\ v # w
        BY <3>5 DEF PickNext, tables
      <4>2. /\ heal'[v].pc = "queued" /\ heal'[v].key = heal[w].key
            /\ \A u \in Worker \ {v, w} : heal'[u] = heal[u]
        BY <3>5, <4>1 DEF PickNext, TypeOK, WorkerState
      <4>3. "queued" \in Tracking /\ "idle" \notin Tracking
        BY DEF Tracking, Driving
      <4> QED BY <2>0, <4>1, <4>2, <4>3
    <3> QED BY <2>3, <3>1, <3>2, <3>3, <3>4, <3>5 DEF WorkerStep
  <2>4. CASE Restart
    BY <2>4 DEF Restart
  <2> QED
    BY <2>1, <2>2, <2>3, <2>4
    DEF Next, Environment, Receive, WindowElapses, AlertExpires, FailureAges,
        SetTrust, tables, vars
<1> QED BY <1>1, <1>2, TypeCorrect, PTL DEF Spec

(***************************************************************************)
(* Permits                                                                 *)
(***************************************************************************)
Holders == {w \in Worker : heal[w].pc \in Holding}

\* No permit is lost or made: neither by a thread that dies, nor by one that
\* times out before it got one.
THEOREM PermitsCorrect == Spec => []PermitsConserved
<1>0. TypeOK => IsFiniteSet(Holders) /\ Cardinality(Holders) \in Nat
  BY PipelineAssumption, FS_Subset, FS_CardinalityType DEF Holders
<1>1. Init => PermitsConserved
  <2> SUFFICES ASSUME Init PROVE PermitsConserved
    OBVIOUS
  <2>1. {w \in Worker : heal[w].pc \in Holding} = {}
    BY DEF Init, IdleWorker, Holding
  <2>2. Cardinality({w \in Worker : heal[w].pc \in Holding}) = 0
    BY <2>1, FS_EmptySet
  <2>3. permits = Slots /\ Slots \in Nat
    BY PipelineAssumption DEF Init
  <2> QED BY <2>2, <2>3 DEF PermitsConserved
<1>2. TypeOK /\ PermitsConserved /\ [Next]_vars => PermitsConserved'
  <2> SUFFICES ASSUME TypeOK, PermitsConserved, [Next]_vars
               PROVE  permits' + Cardinality(Holders') = Slots
    BY DEF PermitsConserved, Holders
  <2>0. permits + Cardinality(Holders) = Slots /\ permits \in Nat
    BY DEF PermitsConserved, Holders, TypeOK
  <2>1. CASE permits' = permits /\ Holders' = Holders
    BY <2>0, <2>1
  <2>2. ASSUME NEW w \in Worker, Acquire(w)
        PROVE  permits' + Cardinality(Holders') = Slots
    <3>1. w \notin Holders /\ Holders' = Holders \union {w}
      BY <2>2 DEF Acquire, WorkerGoes, Holders, Holding, WorkerPc, TypeOK,
                  WorkerState
    <3>2. Cardinality(Holders') = Cardinality(Holders) + 1
      BY <1>0, <3>1, FS_AddElement
    <3>3. permits' = permits - 1
      BY <2>2 DEF Acquire
    <3> QED BY <1>0, <2>0, <3>2, <3>3
  <2>3. ASSUME NEW w \in Worker, CompletionRaises(w) \/ ReleasePermit(w)
        PROVE  permits' + Cardinality(Holders') = Slots
    <3>1. w \in Holders /\ Holders' = Holders \ {w}
      BY <2>3 DEF CompletionRaises, ReleasePermit, WorkerEnds, IdleWorker, Holders,
                  Holding, WorkerPc, TypeOK, WorkerState
    <3>2. Cardinality(Holders') = Cardinality(Holders) - 1
      BY <1>0, <3>1, FS_RemoveElement
    <3>3. permits' = permits + 1
      BY <2>3 DEF CompletionRaises, ReleasePermit
    <3> QED BY <1>0, <2>0, <3>2, <3>3
  <2>4. ASSUME NEW w \in Worker,
               Drop(w) \/ RunAndRecord(w) \/ Resolve(w) \/ Advance(w)
                 \/ PickNone(w) \/ Untrack(w)
        PROVE  permits' = permits /\ Holders' = Holders
    <3>1. permits' = permits
      BY <2>4 DEF Drop, RunAndRecord, Resolve, Advance, PickNone, Untrack,
                  tables
    <3>2. /\ \A v \in Worker \ {w} : heal'[v] = heal[v]
          /\ heal'[w].pc \in Holding <=> heal[w].pc \in Holding
      BY <2>4 DEF Drop, RunAndRecord, Resolve, Advance, PickNone, Untrack,
                  WorkerGoes, WorkerEnds, IdleWorker, Holding, WorkerPc,
                  TypeOK, WorkerState
    <3> QED BY <3>1, <3>2 DEF Holders
  <2>5. ASSUME NEW w \in Worker, NEW v \in Worker, PickNext(w, v)
        PROVE  permits' = permits /\ Holders' = Holders
    <3>1. /\ permits' = permits
          /\ heal[w].pc = "pick" /\ heal[v].pc = "idle" /\ v # w
      BY <2>5 DEF PickNext, tables
    <3>2. /\ heal'[w].pc = "release" /\ heal'[v].pc = "queued"
          /\ \A u \in Worker \ {v, w} : heal'[u] = heal[u]
      BY <2>5, <3>1 DEF PickNext, TypeOK, WorkerState
    <3> QED BY <3>1, <3>2 DEF Holders, Holding, WorkerPc
  <2>6. ASSUME NEW h \in Handler, NEW w \in Worker, Execute(h, w)
        PROVE  permits' = permits /\ Holders' = Holders
    <3>1. /\ permits' = permits /\ heal[w].pc = "idle"
          /\ heal'[w].pc = "queued"
          /\ \A v \in Worker \ {w} : heal'[v] = heal[v]
      BY <2>6 DEF Execute, Spawn, TypeOK
    <3> QED BY <3>1 DEF Holders, Holding, WorkerPc
  <2>7. CASE UNCHANGED <<permits, heal>>
    BY <2>1, <2>7 DEF Holders
  <2>8. CASE Restart
    <3>1. Holders' = {} /\ permits' = Slots
      BY <2>8 DEF Restart, Holders, IdleWorker, Holding
    <3> QED BY <3>1, FS_EmptySet, PipelineAssumption
  <2>9. CASE \E w \in Worker : WorkerStep(w)
    BY <2>1, <2>2, <2>3, <2>4, <2>5, <2>9 DEF WorkerStep
  <2>10. CASE \E h \in Handler : HandlerStep(h)
    BY <2>1, <2>6, <2>7, <2>10
    DEF HandlerStep, Select, PickNothing, Defer, DeferRaises
  <2>11. CASE Environment
    BY <2>7, <2>8, <2>11
    DEF Environment, Receive, WindowElapses, AlertExpires, FailureAges,
        SetTrust, tables
  <2> QED BY <2>7, <2>9, <2>10, <2>11 DEF Next, vars
<1> QED BY <1>1, <1>2, TypeCorrect, PTL DEF Spec

(***************************************************************************)
(* The planner's table is a table of leases                                *)
(***************************************************************************)
\* Setting or clearing the entry of one key changes that key's lease only.
LEMMA EntrySet ==
  ASSUME TypeOK, NEW k \in Key, k \notin stuck, stuck' = stuck,
         NEW e \in Nat \union {Absent},
         esc' = [esc EXCEPT ![k] = e]
  PROVE  /\ LeaseStatus' = [LeaseStatus EXCEPT ![k] =
                              IF e = Absent THEN "free" ELSE "held"]
         /\ LeaseStep' = [LeaseStep EXCEPT ![k] =
                            IF e = Absent THEN 0 ELSE e]
<1>1. /\ esc'[k] = e
      /\ \A j \in Key : j # k => esc'[j] = esc[j]
  BY DEF TypeOK
<1> QED BY <1>1 DEF LeaseStatus, LeaseStep

\* A thread that dies with a key's escalation loses that key's lease only.
LEMMA EntryLost ==
  ASSUME NEW k \in Key, esc' = esc, stuck' = stuck \union {k}
  PROVE  /\ LeaseStatus' = [LeaseStatus EXCEPT ![k] = "lost"]
         /\ LeaseStep' = LeaseStep
BY DEF LeaseStatus, LeaseStep

\* A thread that decides on or drives a key holds that key's lease.
LEMMA OwnerHolds ==
  ASSUME IInv, NEW k \in Key,
         \/ \E h \in Handler : Decides(h, k)
         \/ \E w \in Worker : Drives(w, k)
  PROVE  k \notin stuck /\ esc[k] # Absent /\ LeaseStatus[k] = "held"
BY DEF IInv, KeyInv, LeaseStatus

\* A step of a caller's thread claims, frees or loses one lease, or none.
LEMMA HandlerLease ==
  ASSUME IInv, NEW h \in Handler, HandlerStep(h)
  PROVE  Escalation!Next \/ UNCHANGED Escalation!leaseVars
<1> DEFINE key == handling[h].key
<1>0. TypeOK
  BY DEF IInv
<1>1. key \in Key
  BY <1>0 DEF TypeOK, HandlerStep, Select, PickNothing, Defer, DeferRaises,
              Execute
<1>2. CASE UNCHANGED <<esc, stuck>>
  BY <1>2 DEF Escalation!leaseVars, LeaseStatus, LeaseStep
<1>3. CASE Select(h) /\ ~UNCHANGED <<esc, stuck>>
  <2>1. /\ esc[key] = Absent /\ stuck' = stuck
        /\ esc' = [esc EXCEPT ![key] = 0]
    BY <1>3 DEF Select
  <2>2. key \notin stuck
    BY <1>1, <2>1 DEF IInv, KeyInv
  <2>3. LeaseStatus[key] = "free" /\ LeaseStep[key] = 0
    BY <1>1, <2>1, <2>2 DEF LeaseStatus, LeaseStep
  <2>4. /\ LeaseStatus' = [LeaseStatus EXCEPT ![key] = "held"]
        /\ LeaseStep' = [LeaseStep EXCEPT ![key] = 0]
    <3>1. 0 \in Nat \union {Absent} /\ 0 # Absent
      BY DEF Absent
    <3> HIDE DEF key
    <3> QED BY <1>0, <1>1, <2>1, <2>2, <3>1, EntrySet
  <2>5. LeaseStep' = LeaseStep
    BY <2>3, <2>4 DEF LeaseStep
  <2>6. Escalation!Claim(key)
    BY <2>3, <2>4, <2>5 DEF Escalation!Claim
  <2> QED BY <1>1, <2>6 DEF Escalation!Next
<1>4. CASE PickNothing(h) \/ DeferRaises(h)
  <2>1. Decides(h, key) /\ esc' = esc /\ stuck' = stuck \union {key}
    BY <1>4 DEF PickNothing, DeferRaises, Decides
  <2>2. Escalation!Lose(key)
    BY <1>1, <2>1, OwnerHolds, EntryLost DEF Escalation!Lose
  <2> QED BY <1>1, <2>2 DEF Escalation!Next
<1>5. CASE Defer(h)
  <2>1. /\ Decides(h, key) /\ stuck' = stuck
        /\ esc' = [esc EXCEPT ![key] = Absent]
    BY <1>5 DEF Defer, Release, Decides
  <2>2. Escalation!Free(key)
    BY <1>0, <1>1, <2>1, OwnerHolds, EntrySet DEF Escalation!Free
  <2> QED BY <1>1, <2>2 DEF Escalation!Next
<1> QED
  BY <1>2, <1>3, <1>4, <1>5 DEF HandlerStep, Execute

\* A step of a heal thread raises, frees or loses one lease, or none.
LEMMA WorkerLease ==
  ASSUME IInv, NEW w \in Worker, WorkerStep(w)
  PROVE  Escalation!Next \/ UNCHANGED Escalation!leaseVars
<1> DEFINE key == heal[w].key
<1>0. TypeOK
  BY DEF IInv
<1>1. CASE UNCHANGED <<esc, stuck>>
  BY <1>1 DEF Escalation!leaseVars, LeaseStatus, LeaseStep
<1>2. CASE Drop(w) \/ CompletionRaises(w)
  <2>1. /\ key \in Key /\ Drives(w, key)
        /\ esc' = esc /\ stuck' = stuck \union {key}
    BY <1>0, <1>2 DEF Drop, CompletionRaises, Drives, Driving, TypeOK
  <2>2. Escalation!Lose(key)
    BY <2>1, OwnerHolds, EntryLost DEF Escalation!Lose
  <2> QED BY <2>1, <2>2 DEF Escalation!Next
<1>3. CASE \/ Resolve(w) \/ PickNone(w)
           \/ Advance(w) /\ heal[w].step + 1 > LastStep(RuleOf(key))
  <2>1. /\ key \in Key /\ Drives(w, key) /\ stuck' = stuck
        /\ esc' = [esc EXCEPT ![key] = Absent]
    BY <1>0, <1>3
    DEF Resolve, PickNone, Advance, Release, Drives, Driving, TypeOK
  <2>2. Escalation!Free(key)
    BY <1>0, <2>1, OwnerHolds, EntrySet DEF Escalation!Free
  <2> QED BY <2>1, <2>2 DEF Escalation!Next
<1>4. CASE Advance(w) /\ ~(heal[w].step + 1 > LastStep(RuleOf(key)))
  <2> DEFINE next == heal[w].step + 1
  <2>1. /\ key \in Key /\ Drives(w, key) /\ stuck' = stuck
        /\ esc' = [esc EXCEPT ![key] = next]
        /\ heal[w].step \in Nat
    BY <1>0, <1>4 DEF Advance, Drives, Driving, TypeOK, WorkerState
  <2>2. /\ key \notin stuck /\ esc[key] # Absent
        /\ LeaseStatus[key] = "held"
        /\ esc[key] <= heal[w].step
    BY <2>1, OwnerHolds DEF IInv, KeyInv
  <2>3. esc[key] \in Nat /\ LeaseStep[key] = esc[key]
    BY <1>0, <2>1, <2>2 DEF TypeOK, LeaseStep
  <2>4. next # Absent /\ next \in Nat
    BY <2>1 DEF Absent
  <2>5. /\ LeaseStatus' = [LeaseStatus EXCEPT ![key] = "held"]
        /\ LeaseStep' = [LeaseStep EXCEPT ![key] = next]
    BY <1>0, <2>1, <2>2, <2>4, EntrySet
  <2>6. LeaseStatus' = LeaseStatus
    BY <2>2, <2>5 DEF LeaseStatus
  <2>7. next \in LeaseStep[key] + 1 .. ChainEnd[key] - 1
    BY <1>4, <2>1, <2>2, <2>3, KeyParts, LastStepNat DEF ChainEnd
  <2>8. Escalation!Escalate(key)
    BY <2>2, <2>5, <2>6, <2>7 DEF Escalation!Escalate
  <2> QED BY <2>1, <2>8 DEF Escalation!Next
<1> QED
  BY <1>1, <1>2, <1>3, <1>4
  DEF WorkerStep, Acquire, RunAndRecord, PickNext, Untrack, ReleasePermit,
      tables

\* Caller threads, heal threads, timers, exceptions and restarts together
\* implement a table of leases: a key's escalation is claimed only when free,
\* its step only rises, and a lost one stays until the restart.
THEOREM LeaseRefined == Spec => ImplementsLease
<1>1. Init => Escalation!Init
  BY DEF Init, Escalation!Init, LeaseStatus, LeaseStep
<1>2. IInv /\ [Next]_vars => [Escalation!Next]_(Escalation!leaseVars)
  <2> SUFFICES ASSUME IInv, [Next]_vars
               PROVE  Escalation!Next \/ UNCHANGED Escalation!leaseVars
    OBVIOUS
  <2>1. CASE UNCHANGED <<esc, stuck>>
    BY <2>1 DEF Escalation!leaseVars, LeaseStatus, LeaseStep
  <2>2. CASE Restart
    <3>1. Escalation!Reset
      BY <2>2 DEF Restart, Escalation!Reset, LeaseStatus, LeaseStep
    <3> QED BY <3>1 DEF Escalation!Next
  <2>3. CASE \E h \in Handler : HandlerStep(h)
    BY <2>3, HandlerLease
  <2>4. CASE \E w \in Worker : WorkerStep(w)
    BY <2>4, WorkerLease
  <2> QED
    BY <2>1, <2>2, <2>3, <2>4
    DEF Next, Environment, Receive, WindowElapses, AlertExpires, FailureAges,
        SetTrust, tables, vars
<1> QED BY <1>1, <1>2, AlwaysIInv, PTL DEF Spec, ImplementsLease, Escalation!Spec
=============================================================================
