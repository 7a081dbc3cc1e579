--------------------------- MODULE ServicesProofs ---------------------------
(***************************************************************************)
(* What keeps its state in tables and files, for every value of the        *)
(* bounds: sessions and failed logins, plugins, backups, the rollups of    *)
(* the metrics, and the dependency graph; at the end all services together.*)
(***************************************************************************)
EXTENDS Services, AgentServicesProofs, WatchersProofs

-----------------------------------------------------------------------------
(***************************************************************************)
(* Sessions.  What the dictionaries hold does not matter, since a look     *)
(* that finds nothing goes on to the table: the invariant is about the     *)
(* rows alone.                                                             *)
(***************************************************************************)

\* A token that was made, has not expired and was not logged out has its row.
RowsKept == \A t \in Token : expires[t] # 0 /\ Live(t) /\ t \notin gone => t \in rows

\* Rows are deleted on behalf of a logout only.
LeavingAreGone == leaving \subseteq gone

\* A thread past its first look has a token that was made.
LooksForMade ==
    \A r \in Request : looks[r].at # "rest" =>
        looks[r].token \in Token /\ expires[looks[r].token] # 0

\* The parts of the types that the rest needs.
SessionTypes ==
    /\ now \in Nat
    /\ expires \in [Token -> Nat]
    /\ DOMAIN looks = Request
    /\ \A r \in Request : looks[r] =
          [at |-> looks[r].at, token |-> looks[r].token, failed |-> looks[r].failed]

SessionInv == SessionTypes /\ RowsKept /\ LeavingAreGone /\ LooksForMade /\ SessionsSurvive

LEMMA SessionInitOK == SessionInit => SessionInv
<1> SUFFICES ASSUME SessionInit PROVE SessionInv
  OBVIOUS
<1>1. \A r \in Request : looks[r] = NoRequest
  BY DEF SessionInit
<1>2. NoRequest.at = "rest"
  BY DEF NoRequest
<1>3. SessionTypes
  BY <1>1 DEF SessionInit, SessionTypes, NoRequest
<1> QED BY <1>1, <1>2, <1>3 DEF SessionInit, SessionInv, RowsKept, LeavingAreGone,
     LooksForMade, SessionsSurvive

\* The clock only takes tokens away.
LEMMA ExpiredStays ==
    ASSUME SessionTypes, now' \in Nat, now' >= now, expires' = expires, NEW t \in Token, Live(t)'
    PROVE  Live(t)
  BY DEF SessionTypes, Live

\* What a step may do as far as the invariant goes, unless it makes a token: the
\* clock goes on, and rows of good tokens stay, ...
Harmless ==
    /\ now' \in Nat /\ now' >= now /\ expires' = expires
    /\ gone \subseteq gone' /\ leaving' \subseteq gone'
    /\ \A t \in rows \ rows' : t \in Token => ~Live(t)' \/ t \in gone'

Look(entry) == entry = [at |-> entry.at, token |-> entry.token, failed |-> entry.failed]

Made(t) == t \in Token /\ expires[t] # 0

\* ... and a thread is where it was, rests, looks on with a token that was made,
\* or has read the table and refuses the token for a reason.
LooksOn(r) ==
    \/ looks'[r] = looks[r]
    \/ Look(looks'[r]) /\ looks'[r].at = "rest"
    \/ Look(looks'[r]) /\ looks'[r].at \in {"hash", "row", "store"} /\ Made(looks'[r].token)
    \/ /\ Look(looks'[r]) /\ looks'[r].at = "refused" /\ Made(looks'[r].token)
       /\ \/ looks'[r].failed
          \/ looks'[r].token \notin rows \/ ~Live(looks'[r].token)

LEMMA HarmlessKeeps ==
    ASSUME SessionInv, Harmless, DOMAIN looks' = Request, \A r \in Request : LooksOn(r)
    PROVE  SessionInv'
<1>1. SessionTypes'
  <2>1. ASSUME NEW r \in Request PROVE Look(looks'[r])
    BY DEF SessionInv, SessionTypes, LooksOn, Look
  <2> QED BY <2>1 DEF SessionInv, SessionTypes, Harmless, Look
<1>2. RowsKept'
  BY ExpiredStays DEF SessionInv, RowsKept, Harmless
<1>3. LeavingAreGone'
  BY DEF LeavingAreGone, Harmless
<1>4. LooksForMade'
  BY DEF SessionInv, LooksForMade, LooksOn, Made, Harmless
<1>5. SessionsSurvive'
  <2> SUFFICES ASSUME NEW r \in Request, looks'[r].at = "refused", ~looks'[r].failed
               PROVE  ~(expires'[looks'[r].token] > now') \/ looks'[r].token \in gone'
    BY DEF SessionsSurvive, Live
  <2> DEFINE t == looks'[r].token
  <2>1. Made(t)
    BY DEF SessionInv, LooksForMade, LooksOn, Made
  <2>2. ~Live(t) \/ t \in gone
    BY <2>1 DEF SessionInv, SessionsSurvive, RowsKept, LooksOn, Made
  <2> QED BY <2>1, <2>2 DEF Harmless, Live, SessionInv, SessionTypes, Made
<1> QED BY <1>1, <1>2, <1>3, <1>4, <1>5 DEF SessionInv

-----------------------------------------------------------------------------
(* The steps. *)

LEMMA GenerateKeeps ==
    ASSUME SessionInv, NEW t \in Token, Generate(t)
    PROVE  SessionInv'
<1> USE DEF Generate, CallFails
<1>1. SessionTypes'
  BY SessionAssumption DEF SessionInv, SessionTypes
<1>2. \A u \in Token : u # t => expires'[u] = expires[u]
  BY DEF SessionInv, SessionTypes
<1>3. RowsKept'
  BY <1>2 DEF SessionInv, RowsKept, Live
<1>4. LeavingAreGone'
  BY DEF SessionInv, LeavingAreGone
<1>5. \A r \in Request : looks[r].at # "rest" => looks[r].token \in Token \ {t}
  BY DEF SessionInv, LooksForMade
<1>6. LooksForMade'
  BY <1>2, <1>5 DEF SessionInv, LooksForMade
<1>7. SessionsSurvive'
  BY <1>2, <1>5 DEF SessionInv, SessionsSurvive, Live
<1> QED BY <1>1, <1>3, <1>4, <1>6, <1>7 DEF SessionInv

LEMMA SessionStep ==
    ASSUME SessionInv, [SessionNext \/ LoginNext]_<<sessionVars, loginVars>>
    PROVE  SessionInv'
<1> USE DEF SessionInv
<1>1. ASSUME UNCHANGED <<expires, gone, leaving, rows, looks>>, now' \in Nat, now' >= now
      PROVE  SessionInv'
  <2>1. Harmless
    BY <1>1 DEF Harmless, LeavingAreGone
  <2> QED BY <1>1, <2>1, HarmlessKeeps DEF LooksOn, SessionTypes
<1>2. CASE HourGoes
  BY <1>1, <1>2 DEF HourGoes, SessionTypes
<1>3. CASE CleanUp
  <2>1. Harmless
    BY <1>3 DEF CleanUp, CallFails, Harmless, SessionTypes, LeavingAreGone, Live
  <2> QED BY <1>3, <2>1, HarmlessKeeps DEF CleanUp, LooksOn, SessionTypes
<1>4. CASE SessionRestart
  <2>1. Harmless
    BY <1>4 DEF SessionRestart, CallFails, Harmless, SessionTypes
  <2>2. \A r \in Request : Look(looks'[r]) /\ looks'[r].at = "rest"
    BY <1>4 DEF SessionRestart, Look, NoRequest
  <2> QED BY <1>4, <2>1, <2>2, HarmlessKeeps DEF SessionRestart, LooksOn
<1>5. ASSUME NEW t \in Token, Generate(t)
      PROVE  SessionInv'
  BY <1>5, GenerateKeeps
<1>6. ASSUME NEW t \in Token, Revoke(t)
      PROVE  SessionInv'
  <2>1. Harmless
    BY <1>6 DEF Revoke, Harmless, SessionTypes, LeavingAreGone
  <2> QED BY <1>6, <2>1, HarmlessKeeps DEF Revoke, LooksOn, SessionTypes
<1>7. ASSUME NEW t \in Token, DeleteRow(t)
      PROVE  SessionInv'
  <2>1. Harmless
    BY <1>7 DEF DeleteRow, CallFails, Harmless, SessionTypes, LeavingAreGone
  <2> QED BY <1>7, <2>1, HarmlessKeeps DEF DeleteRow, LooksOn, SessionTypes
<1>8. ASSUME NEW r \in Request, NEW t \in Token, LookUpToken(r, t)
      PROVE  SessionInv'
  <2>1. Harmless
    BY <1>8 DEF LookUpToken, Harmless, SessionTypes, LeavingAreGone
  <2>2. \/ Look(looks'[r]) /\ looks'[r].at = "rest"
        \/ Look(looks'[r]) /\ looks'[r].at = "hash" /\ Made(looks'[r].token)
    BY <1>8 DEF LookUpToken, Look, Made, NoRequest, SessionTypes
  <2>3. DOMAIN looks' = Request /\ \A q \in Request \ {r} : looks'[q] = looks[q]
    BY <1>8 DEF LookUpToken, SessionTypes
  <2> QED BY <2>1, <2>2, <2>3, HarmlessKeeps DEF LooksOn
<1>9. ASSUME NEW r \in Request, LookUpHash(r) \/ LookUpRow(r) \/ StoreToken(r) \/ Refuse(r)
       PROVE  SessionInv'
  <2>1. Harmless
    BY <1>9 DEF LookUpHash, LookUpRow, StoreToken, Refuse, CallFails, Harmless, SessionTypes,
       LeavingAreGone
  <2>2. DOMAIN looks' = Request /\ \A q \in Request \ {r} : looks'[q] = looks[q]
    BY <1>9 DEF LookUpHash, LookUpRow, StoreToken, Refuse, SessionTypes
  <2>3. LooksOn(r)
    <3>1. NoRequest.at = "rest" /\ Look(NoRequest)
      BY DEF NoRequest, Look
    <3>2. Look(looks[r])
      BY DEF SessionTypes, Look
    <3>3. CASE LookUpHash(r)
      <4>1. looks'[r] = NoRequest \/ looks'[r] = [looks[r] EXCEPT !.at = "row"]
        BY <3>3 DEF LookUpHash, SessionTypes
      <4>2. CASE looks'[r] = [looks[r] EXCEPT !.at = "row"]
        BY <3>2, <3>3, <4>2 DEF LookUpHash, LooksOn, Look, Made, LooksForMade
      <4> QED BY <3>1, <4>1, <4>2 DEF LooksOn
    <3>4. CASE LookUpRow(r)
      <4>1. Made(looks[r].token)
        BY <3>4 DEF LookUpRow, LooksForMade, Made
      <4>2. \/ looks'[r] = [looks[r] EXCEPT !.at = "store"]
            \/ /\ looks'[r] = [looks[r] EXCEPT !.at = "refused"]
               /\ looks[r].token \notin rows \/ ~Live(looks[r].token)
            \/ looks'[r] = [looks[r] EXCEPT !.at = "refused", !.failed = TRUE]
        BY <3>4 DEF LookUpRow, SessionTypes
      <4>3. Look(looks'[r]) /\ looks'[r].token = looks[r].token
        BY <3>2, <4>2 DEF Look
      <4>4. \/ looks'[r].at = "store"
            \/ /\ looks'[r].at = "refused"
               /\ looks'[r].failed \/ looks[r].token \notin rows \/ ~Live(looks[r].token)
        BY <3>2, <4>2 DEF Look
      <4> QED BY <4>1, <4>3, <4>4 DEF LooksOn
    <3>5. CASE StoreToken(r) \/ Refuse(r)
      <4>1. looks'[r] = NoRequest
        BY <3>5 DEF StoreToken, Refuse, SessionTypes
      <4> QED BY <3>1, <4>1 DEF LooksOn
    <3> QED BY <1>9, <3>3, <3>4, <3>5
  <2> QED BY <2>1, <2>2, <2>3, HarmlessKeeps DEF LooksOn
<1>10. CASE UNCHANGED sessionVars
  BY <1>1, <1>10 DEF sessionVars, SessionTypes
<1>11. LoginNext => HourGoes \/ UNCHANGED sessionVars
  BY DEF LoginNext, AskLocked, RecordFailure, Succeed, CleanUpLogins
<1> QED BY <1>2, <1>3, <1>4, <1>5, <1>6, <1>7, <1>8, <1>9, <1>10, <1>11 DEF SessionNext

\* Sessions survive restarts: whatever threads, logouts, cleanups, restarts and
\* failed calls of the database come between its looks, a request is refused
\* only if its token expired, was logged out or was never stored, or the
\* database failed that very request.
THEOREM TokensSurvive == SessionSpec => []SessionsSurvive
<1>1. SessionInv => SessionsSurvive
  BY DEF SessionInv
<1> QED BY <1>1, SessionInitOK, SessionStep, PTL DEF SessionSpec

-----------------------------------------------------------------------------
(***************************************************************************)
(* Failed logins.  The failures that the code dropped are too old to       *)
(* count, now and ever after.                                              *)
(***************************************************************************)

\* The failures the code dropped are too old to count.
DroppedAreOld ==
    /\ attempts \subseteq failures
    /\ \A f \in failures \ attempts : f[2] + LoginWindow =< now

LoginInv == /\ now \in Nat /\ {lockedTo, due} \subseteq Nat /\ IsFiniteSet(failures)
            /\ \A f \in failures : f[2] \in Nat
            /\ DroppedAreOld /\ LockoutIsDeserved

LEMMA SameInWindow ==
    ASSUME LoginInv
    PROVE  InWindow(attempts) = InWindow(failures)
<1>1. \A f \in failures : f[2] \in Nat /\ (f[2] + LoginWindow > now <=> ~(f[2] + LoginWindow =< now))
  BY SessionAssumption DEF LoginInv
<1> QED BY <1>1 DEF LoginInv, DroppedAreOld, InWindow

LEMMA LoginStep == LoginInv /\ [SessionNext \/ LoginNext]_<<sessionVars, loginVars>> => LoginInv'
<1> SUFFICES ASSUME LoginInv, [SessionNext \/ LoginNext]_<<sessionVars, loginVars>> PROVE LoginInv'
  OBVIOUS
<1>1. CASE UNCHANGED <<now, loginVars>>
  BY <1>1 DEF loginVars, LoginInv, DroppedAreOld, LockoutIsDeserved
<1>2. CASE HourGoes
  BY <1>2, SessionAssumption DEF HourGoes, loginVars, LoginInv, DroppedAreOld, LockoutIsDeserved
<1>3. CASE AskLocked
  BY <1>3 DEF AskLocked, sessionVars, LoginInv, DroppedAreOld, LockoutIsDeserved
<1>4. CASE RecordFailure
  <2> DEFINE last == InWindow(failures) \union {FailureNow}
  <2>1. last = InWindow(attempts) \union {FailureNow}
    BY SameInWindow
  <2>2. FailureNow[2] = now /\ now + Lockout \in Nat /\ now' = now /\ now \in Nat
    BY <1>4, SessionAssumption DEF FailureNow, LoginInv, RecordFailure, sessionVars
  <2>3. IsFiniteSet(last) /\ Cardinality(last) \in Nat /\ IsFiniteSet(failures \union {FailureNow})
    <3>1. InWindow(failures) \subseteq failures
      BY DEF InWindow
    <3>2. IsFiniteSet(InWindow(failures))
      BY <3>1, FS_Subset DEF LoginInv
    <3> QED BY <3>2, FS_AddElement, FS_CardinalityType DEF LoginInv
  <2>4. /\ \/ Cardinality(last) >= MaxAttempts /\ lockedTo' = now + Lockout /\ attempts' = {}
           \/ Cardinality(last) < MaxAttempts /\ attempts' = last /\ UNCHANGED lockedTo
        /\ failures' = IF Cardinality(last) >= MaxAttempts THEN {} ELSE failures \union {FailureNow}
        /\ due' = IF Cardinality(last) >= MaxAttempts THEN now + Lockout ELSE due
    BY <1>4, <2>1 DEF RecordFailure, Count
  <2>5. last \subseteq failures \union {FailureNow} /\ FailureNow \in last
    BY DEF InWindow
  <2>6. \A f \in failures \ last : f[2] + LoginWindow =< now
    BY SessionAssumption DEF InWindow, LoginInv
  <2> HIDE DEF last
  <2>7. CASE Cardinality(last) >= MaxAttempts
    <3>1. attempts' = {} /\ failures' = {} /\ lockedTo' = now + Lockout /\ due' = now + Lockout
      <4>1. ~(Cardinality(last) < MaxAttempts)
        BY <2>3, <2>7, SessionAssumption
      <4> QED BY <2>4, <2>7, <4>1
    <3> QED BY <2>2, <3>1, FS_EmptySet DEF LoginInv, DroppedAreOld, LockoutIsDeserved
  <2>8. CASE ~(Cardinality(last) >= MaxAttempts)
    <3>1. attempts' = last /\ failures' = failures \union {FailureNow} /\ lockedTo' = lockedTo /\ due' = due
      <4>1. attempts' = last /\ lockedTo' = lockedTo
        BY <2>4, <2>8
      <4> QED BY <2>4, <2>8, <4>1
    <3>2. DroppedAreOld'
      BY <2>2, <2>5, <2>6, <3>1 DEF DroppedAreOld
    <3>3. \A f \in failures' : f[2] \in Nat
      BY <2>2, <3>1 DEF LoginInv
    <3> QED BY <2>2, <2>3, <3>1, <3>2, <3>3 DEF LoginInv, LockoutIsDeserved
  <2> QED BY <2>7, <2>8
<1>5. CASE Succeed
  BY <1>5, FS_EmptySet DEF Succeed, sessionVars, LoginInv, DroppedAreOld, LockoutIsDeserved
<1>6. CASE CleanUpLogins
  <2>1. \A f \in failures : f[2] \in Nat /\ (f \notin attempts => f[2] + LoginWindow =< now)
    BY DEF LoginInv, DroppedAreOld
  <2>2. attempts' = InWindow(attempts) /\ failures' = failures /\ now' = now
    BY <1>6 DEF CleanUpLogins, KeptFailures, sessionVars
  <2>3. DroppedAreOld'
    BY <2>1, <2>2, SessionAssumption DEF DroppedAreOld, InWindow, LoginInv
  <2> QED BY <1>6, <2>3 DEF CleanUpLogins, sessionVars, LoginInv, LockoutIsDeserved
<1>7. CASE SessionNext /\ ~HourGoes
  BY <1>1, <1>7 DEF SessionNext, CleanUp, SessionRestart, Generate, Revoke, DeleteRow, LookUpToken, LookUpHash, LookUpRow,
     StoreToken, Refuse
<1> QED BY <1>1, <1>2, <1>3, <1>4, <1>5, <1>6, <1>7 DEF LoginNext, sessionVars

\* For every window, number of attempts and length of a lockout: an address is
\* locked exactly while MaxAttempts failures within a window ask for it, though
\* the code keeps only the failures of the current window.
THEOREM LockoutsAreDeserved == SessionSpec => []LockoutIsDeserved
<1>1. SessionInit => LoginInv
  BY FS_EmptySet DEF SessionInit, LoginInv, DroppedAreOld, LockoutIsDeserved
<1>2. LoginInv => LockoutIsDeserved
  BY DEF LoginInv
<1> QED BY <1>1, <1>2, LoginStep, PTL DEF SessionSpec

-----------------------------------------------------------------------------
(***************************************************************************)
(* Plugins.  The manager's event is never one that is set, except in the   *)
(* step of a reload in which nobody starts a thread, and a reload starts   *)
(* its threads with none of the earlier ones tracked.                      *)
(***************************************************************************)

PluginTypes ==
    /\ load \in Load /\ event \in Nat \ {0} /\ isSet \subseteq 1..event
    /\ wasEnabled \subseteq Plugin
    /\ collector \in [Object -> [at : {"none", "collect", "wait", "ended"}, on : Nat]]
    /\ reload \in {"none", "set", "replace", "clear", "discover", "start"}

\* There is a load for the reload that is going on.
ReloadIsBounded == reload \in {"set", "replace", "clear", "discover"} => load <= Reloads

\* The manager's event is clear but between setting and replacing it.
EventIsClear == reload # "replace" => event \notin isSet

\* Before they start, no threads are tracked.
NothingTracked == reload \in {"discover", "start"} => tracked = {}

PluginInv ==
    PluginTypes /\ ReloadIsBounded /\ EventIsClear /\ NothingTracked /\ PluginsAreCollected

LEMMA PluginInitOK == PluginInit => PluginInv
  BY PluginAssumption DEF PluginInit, PluginInv, PluginTypes, ReloadIsBounded, EventIsClear,
     NothingTracked, PluginsAreCollected, Load, Object

\* A thread that ends its collecting or its wait, of an object that has to be
\* collected: it goes on, with an event that is not set.
LEMMA CollectorStep ==
    ASSUME PluginInv, NEW o \in Object, CollectEnds(o) \/ WaitEnds(o)
    PROVE  PluginInv'
<1> USE DEF PluginInv, PluginTypes, CollectEnds, WaitEnds
<1>1. UNCHANGED <<disabled, load, enabled, wasEnabled, event, isSet, tracked, reload>>
  OBVIOUS
<1>2. \E c \in [at : {"none", "collect", "wait", "ended"}, on : Nat] :
         /\ collector' = [collector EXCEPT ![o] = c]
         /\ Alive(o)
         /\ collector[o].on \notin isSet /\ event \notin isSet =>
              c.at \in {"collect", "wait"} /\ c.on \notin isSet
  <2>1. CASE CollectEnds(o)
    <3> WITNESS [at |-> "wait", on |-> event] \in [at : {"none", "collect", "wait", "ended"}, on : Nat]
    <3> QED BY <2>1 DEF Alive
  <2>2. CASE WaitEnds(o)
    <3> DEFINE c == IF collector[o].on \in isSet THEN [collector[o] EXCEPT !.at = "ended"]
                    ELSE IF o \in enabled THEN [collector[o] EXCEPT !.at = "collect"]
                    ELSE [collector[o] EXCEPT !.on = event]
    <3>1. c \in [at : {"none", "collect", "wait", "ended"}, on : Nat]
      OBVIOUS
    <3>2. collector' = [collector EXCEPT ![o] = c]
      BY <2>2
    <3> WITNESS c \in [at : {"none", "collect", "wait", "ended"}, on : Nat]
    <3> QED BY <2>2, <3>2 DEF Alive
  <2> QED BY <2>1, <2>2
<1>3. PluginTypes'
  BY <1>1, <1>2
<1>4. PluginsAreCollected'
  <2> SUFFICES ASSUME reload = "none", NEW p \in wasEnabled
               PROVE  Alive(<<p, load>>)' /\ collector'[<<p, load>>].on \notin isSet
    BY <1>1 DEF PluginsAreCollected
  <2>1. <<p, load>> \in Object
    BY DEF Object
  <2>2. Alive(<<p, load>>) /\ collector[<<p, load>>].on \notin isSet /\ event \notin isSet
    BY DEF PluginsAreCollected, EventIsClear
  <2> QED BY <1>1, <1>2, <2>1, <2>2 DEF Alive
<1> QED BY <1>1, <1>3, <1>4 DEF ReloadIsBounded, EventIsClear, NothingTracked

LEMMA StartStep ==
    ASSUME PluginInv, StartThreads
    PROVE  PluginInv'
<1> USE DEF PluginInv, PluginTypes, StartThreads
<1> DEFINE fresh == (wasEnabled \intersect WithoutThread) \X {load}
<1>1. collector' = [o \in Object |-> IF o \in fresh THEN [at |-> "collect", on |-> event]
                                                      ELSE collector[o]]
  OBVIOUS
<1>2. WithoutThread = Plugin
  BY DEF WithoutThread, NothingTracked
<1>3. ASSUME NEW p \in wasEnabled
      PROVE  collector'[<<p, load>>] = [at |-> "collect", on |-> event]
  <2>1. <<p, load>> \in Object /\ <<p, load>> \in fresh
    BY <1>2 DEF Object
  <2> HIDE DEF fresh
  <2> QED BY <1>1, <2>1
<1>4. PluginTypes'
  <2>1. [at |-> "collect", on |-> event] \in [at : {"none", "collect", "wait", "ended"}, on : Nat]
    OBVIOUS
  <2> HIDE DEF fresh
  <2>2. collector' \in [Object -> [at : {"none", "collect", "wait", "ended"}, on : Nat]]
    BY <1>1, <2>1
  <2> QED BY <2>2
<1>5. PluginsAreCollected'
  <2>1. event \notin isSet
    BY DEF EventIsClear
  <2>2. UNCHANGED <<load, wasEnabled, isSet, event>>
    OBVIOUS
  <2> SUFFICES ASSUME NEW p \in wasEnabled
               PROVE  Alive(<<p, load>>)' /\ collector'[<<p, load>>].on \notin isSet
    BY <2>2 DEF PluginsAreCollected
  <2> HIDE DEF PluginInv, PluginTypes, StartThreads, fresh
  <2> QED BY <1>3, <2>1, <2>2 DEF Alive
<1> QED BY <1>4, <1>5 DEF ReloadIsBounded, EventIsClear, NothingTracked

LEMMA PluginStep ==
    ASSUME PluginInv, [PluginNext]_pluginVars
    PROVE  PluginInv'
<1> USE DEF PluginInv
<1>1. ASSUME NEW p \in Plugin, EnablePlugin(p) \/ DisablePlugin(p)
      PROVE  PluginInv'
  BY <1>1 DEF EnablePlugin, DisablePlugin, PluginTypes, ReloadIsBounded, EventIsClear,
     NothingTracked, PluginsAreCollected, Alive
<1>2. CASE ReloadBegins
  BY <1>2 DEF ReloadBegins, PluginTypes, ReloadIsBounded, EventIsClear, NothingTracked,
     PluginsAreCollected
<1>3. CASE SetEvent
  <2>1. event \in 1..event
    BY DEF PluginTypes
  <2> QED BY <1>3, <2>1 DEF SetEvent, PluginTypes, ReloadIsBounded, EventIsClear, NothingTracked,
     PluginsAreCollected
<1>4. CASE ReplaceEvent
  <2>1. isSet' \subseteq 1..event' /\ event' \notin isSet' /\ event' \in Nat \ {0}
    BY <1>4 DEF ReplaceEvent, PluginTypes
  <2> QED BY <1>4, <2>1 DEF ReplaceEvent, PluginTypes, ReloadIsBounded, EventIsClear,
     NothingTracked, PluginsAreCollected
<1>5. CASE ForgetThreads
  BY <1>5 DEF ForgetThreads, PluginTypes, ReloadIsBounded, EventIsClear, NothingTracked,
     PluginsAreCollected
<1>6. CASE Discover
  <2>1. load' \in Load
    BY <1>6, PluginAssumption DEF Discover, PluginTypes, ReloadIsBounded, Load
  <2> QED BY <1>6, <2>1 DEF Discover, PluginTypes, ReloadIsBounded, EventIsClear, NothingTracked,
     PluginsAreCollected
<1>7. CASE UNCHANGED pluginVars
  BY <1>7 DEF pluginVars, PluginTypes, ReloadIsBounded, EventIsClear, NothingTracked,
     PluginsAreCollected, Alive
<1> QED BY <1>1, <1>2, <1>3, <1>4, <1>5, <1>6, <1>7, CollectorStep, StartStep DEF PluginNext

\* However often the plugins are reloaded and their threads go on meanwhile, and
\* whatever was enabled and disabled: when no reload is going on, each plugin
\* that was loaded enabled has a thread that no event will end.
THEOREM LoadedPluginsAreCollected == PluginSpec => []PluginsAreCollected
<1>1. PluginInv => PluginsAreCollected
  BY DEF PluginInv
<1> QED BY <1>1, PluginInitOK, PluginStep, PTL DEF PluginSpec

-----------------------------------------------------------------------------
(***************************************************************************)
(* Backups.                                                                *)
(***************************************************************************)

\* What matters of a process is its listing.
IsScript(s) == "prunes" \in DOMAIN s /\ s.prunes \in SUBSET (1..LastStamp)

BackupTypes ==
    /\ stamp \in 1..LastStamp
    /\ DOMAIN script = Process /\ \A p \in Process : IsScript(script[p])
    /\ snapshot \subseteq promoted /\ {promoted, partial} \subseteq SUBSET (1..LastStamp)

\* The snapshots that were ever finished after s.
Later(s) == {n \in promoted : n > s}

\* What a process is about to remove is followed by enough others.
PrunesAreOld == \A p \in Process : \A s \in script[p].prunes : Cardinality(Later(s)) >= KeepCount

BackupInv == BackupTypes /\ PrunesAreOld /\ NewestStay

LEMMA BackupInitOK == BackupInit => BackupInv
<1> SUFFICES ASSUME BackupInit PROVE BackupInv
  OBVIOUS
<1>1. IsScript(Ended) /\ Ended.prunes = {}
  BY BackupAssumption DEF Ended, IsScript
<1> QED BY <1>1, BackupAssumption DEF BackupInit, BackupInv, BackupTypes, PrunesAreOld, NewestStay

\* A process goes on, with no more to remove than before, and no snapshot comes or goes.
LEMMA ScriptGoesOn ==
    ASSUME BackupInv, NEW p \in Process, NEW s, IsScript(s), Does(p, s),
           s.prunes \subseteq script[p].prunes, UNCHANGED <<snapshot, promoted>>,
           stamp' \in 1..LastStamp, partial' \in SUBSET (1..LastStamp)
    PROVE  BackupInv'
<1>1. script'[p] = s /\ \A q \in Process \ {p} : script'[q] = script[q]
  BY DEF Does, BackupInv, BackupTypes
<1>2. BackupTypes'
  <2>1. DOMAIN script' = Process /\ \A q \in Process : IsScript(script'[q])
    BY DEF Does, BackupInv, BackupTypes
  <2> QED BY <2>1 DEF BackupInv, BackupTypes
<1>3. PrunesAreOld'
  BY <1>1 DEF BackupInv, PrunesAreOld, Later
<1> QED BY <1>2, <1>3 DEF BackupInv, NewestStay

\* The other fields of a process that goes on.
LEMMA TrappedType ==
    ASSUME NEW s, IsScript(s), NEW ok \in BOOLEAN, NEW signal \in BOOLEAN
    PROVE  IsScript(Trapped(s, ok, signal)) /\ Trapped(s, ok, signal).prunes = {}
  BY DEF Trapped, Ended, IsScript

LEMMA ExitsOK ==
    ASSUME BackupInv, NEW p \in Process, NEW ok \in BOOLEAN, Exits(p, ok),
           UNCHANGED <<stamp, lockFile, inode, partial, snapshot, promoted>>
    PROVE  BackupInv'
<1>1. IsScript(script[p])
  BY DEF BackupInv, BackupTypes
<1>2. IsScript(Trapped(script[p], ok, FALSE)) /\ Trapped(script[p], ok, FALSE).prunes = {}
  BY <1>1, TrappedType
<1> QED BY <1>2, ScriptGoesOn DEF Exits, BackupInv, BackupTypes

\* The more snapshots are finished, the more are later than s.
LEMMA MoreAreLater ==
    ASSUME BackupTypes, promoted \subseteq promoted', promoted' \subseteq 1..LastStamp, NEW s
    PROVE  /\ Cardinality(Later(s)) \in Nat /\ Cardinality(Later(s)') \in Nat
           /\ Cardinality(Later(s)) =< Cardinality(Later(s)')
<1>1. IsFiniteSet(1..LastStamp)
  BY FS_Interval, BackupAssumption
<1>2. IsFiniteSet(Later(s)')
  BY <1>1, FS_Subset DEF Later
<1>3. IsFiniteSet(Later(s)) /\ Cardinality(Later(s)) =< Cardinality(Later(s)')
  BY <1>2, FS_Subset DEF Later
<1> QED BY <1>2, <1>3, FS_CardinalityType

LEMMA PromoteOK ==
    ASSUME BackupInv, NEW p \in Process, Promote(p)
    PROVE  BackupInv'
<1> DEFINE t == script[p].of
<1>1. /\ IsScript(script[p]) /\ UNCHANGED <<stamp, lockFile, inode>>
      /\ partial' \in SUBSET (1..LastStamp) /\ stamp \in 1..LastStamp
  BY DEF BackupInv, BackupTypes, Promote
<1>2. CASE /\ Does(p, Trapped([script[p] EXCEPT !.of = 0], FALSE, FALSE))
           /\ UNCHANGED <<snapshot, promoted>>
  <2>1. IsScript([script[p] EXCEPT !.of = 0])
    BY <1>1, BackupAssumption DEF IsScript
  <2>2. /\ IsScript(Trapped([script[p] EXCEPT !.of = 0], FALSE, FALSE))
        /\ Trapped([script[p] EXCEPT !.of = 0], FALSE, FALSE).prunes = {}
    BY <2>1, TrappedType
  <2> QED BY <1>1, <1>2, <2>2, ScriptGoesOn
<1>3. CASE /\ t \in partial
           /\ Does(p, [script[p] EXCEPT !.at = "prune", !.of = 0, !.failed = 0])
           /\ snapshot' = snapshot \union {t} /\ promoted' = promoted \union {t}
  <2> DEFINE s == [script[p] EXCEPT !.at = "prune", !.of = 0, !.failed = 0]
  <2>1. IsScript(s) /\ s.prunes = script[p].prunes
    BY <1>1, BackupAssumption DEF IsScript, Working
  <2>2. script' = [script EXCEPT ![p] = s]
    BY <1>3 DEF Does
  <2> HIDE DEF s
  <2>3. script'[p] = s /\ \A q \in Process \ {p} : script'[q] = script[q]
    BY <2>2 DEF BackupInv, BackupTypes
  <2>4. t \in 1..LastStamp
    BY <1>3 DEF BackupInv, BackupTypes
  <2>5. BackupTypes'
    <3>1. DOMAIN script' = Process /\ \A q \in Process : IsScript(script'[q])
      BY <2>1, <2>2 DEF BackupInv, BackupTypes
    <3> QED BY <1>1, <1>3, <2>4, <3>1 DEF BackupInv, BackupTypes
  <2>6. \A x : /\ Cardinality(Later(x)) \in Nat /\ Cardinality(Later(x)') \in Nat
               /\ Cardinality(Later(x)) =< Cardinality(Later(x)')
    BY <1>3, <2>5, MoreAreLater DEF BackupInv, BackupTypes
  <2>7. PrunesAreOld'
    BY <2>1, <2>3, <2>6, BackupAssumption DEF BackupInv, PrunesAreOld
  <2>8. NewestStay'
    <3>1. \A x \in promoted : Cardinality(Later(x)) < KeepCount => x \in snapshot
      BY DEF BackupInv, NewestStay, Later
    <3>2. \A x \in promoted' : Cardinality(Later(x)') < KeepCount => x \in snapshot'
      BY <1>3, <2>6, <3>1, BackupAssumption
    <3> QED BY <3>2 DEF NewestStay, Later
  <2> QED BY <2>5, <2>7, <2>8 DEF BackupInv
<1>4. CASE Exits(p, FALSE) /\ UNCHANGED <<snapshot, promoted>>
  <2>1. /\ IsScript(Trapped(script[p], FALSE, FALSE))
        /\ Trapped(script[p], FALSE, FALSE).prunes = {}
    BY <1>1, TrappedType
  <2> QED BY <1>1, <1>4, <2>1, ScriptGoesOn DEF Exits
<1> QED BY <1>2, <1>3, <1>4 DEF Promote

\* A process lists what to remove: nothing but snapshots that enough others follow.
LEMMA ListOK ==
    ASSUME BackupInv, NEW p \in Process, ListSnapshots(p)
    PROVE  BackupInv'
<1> DEFINE s == [script[p] EXCEPT !.at = "remove", !.prunes = Pruned]
<1>1. /\ IsScript(script[p]) /\ script' = [script EXCEPT ![p] = s]
      /\ UNCHANGED <<stamp, lockFile, inode, partial, snapshot, promoted>>
  BY DEF BackupInv, BackupTypes, ListSnapshots, Does
<1>2. Pruned \subseteq 1..LastStamp
  BY DEF Pruned, BackupInv, BackupTypes
<1>3. IsScript(s) /\ s.prunes = Pruned
  BY <1>1, <1>2 DEF IsScript
<1> HIDE DEF s
<1>4. script'[p] = s /\ \A q \in Process \ {p} : script'[q] = script[q]
  BY <1>1 DEF BackupInv, BackupTypes
<1>5. BackupTypes'
  <2>1. DOMAIN script' = Process /\ \A q \in Process : IsScript(script'[q])
    BY <1>1, <1>3 DEF BackupInv, BackupTypes
  <2> QED BY <1>1, <2>1 DEF BackupInv, BackupTypes
<1>6. \A x \in Pruned : Cardinality(Later(x)) >= KeepCount
  <2> SUFFICES ASSUME NEW x \in Pruned PROVE Cardinality(Later(x)) >= KeepCount
    OBVIOUS
  <2> DEFINE newer == {n \in snapshot : n > x}
  <2>1. Cardinality(newer) >= KeepCount
    BY DEF Pruned
  <2>2. IsFiniteSet(Later(x))
    <3>1. IsFiniteSet(1..LastStamp)
      BY FS_Interval, BackupAssumption
    <3> QED BY <3>1, FS_Subset DEF Later, BackupInv, BackupTypes
  <2>3. newer \in SUBSET Later(x)
    BY DEF Later, BackupInv, BackupTypes
  <2> HIDE DEF newer
  <2>4. IsFiniteSet(newer) /\ Cardinality(newer) =< Cardinality(Later(x))
    BY <2>2, <2>3, FS_Subset
  <2>5. Cardinality(newer) \in Nat /\ Cardinality(Later(x)) \in Nat
    BY <2>2, <2>4, FS_CardinalityType
  <2> QED BY <2>1, <2>4, <2>5, BackupAssumption
<1>7. PrunesAreOld'
  BY <1>1, <1>3, <1>4, <1>6 DEF BackupInv, PrunesAreOld, Later
<1> QED BY <1>1, <1>5, <1>7 DEF BackupInv, NewestStay

\* It removes one of them: enough others were finished later, so it is none of the newest.
LEMMA RemoveOK ==
    ASSUME BackupInv, NEW p \in Process, RemoveSnapshot(p)
    PROVE  BackupInv'
<1> DEFINE x == Max(script[p].prunes)
           s == [script[p] EXCEPT !.prunes = @ \ {x}]
<1>1. /\ IsScript(script[p]) /\ script' = [script EXCEPT ![p] = s]
      /\ snapshot' = snapshot \ {x} /\ script[p].prunes # {}
      /\ UNCHANGED <<stamp, lockFile, inode, partial, promoted>>
  BY DEF BackupInv, BackupTypes, RemoveSnapshot, Does
<1>2. x \in script[p].prunes
  <2>1. script[p].prunes \in SUBSET (0..LastStamp) /\ LastStamp \in Nat
    BY <1>1, BackupAssumption DEF IsScript
  <2> QED BY <1>1, <2>1, GreatestExists
<1> HIDE DEF x
<1>3. IsScript(s) /\ s.prunes \subseteq script[p].prunes
  BY <1>1 DEF IsScript
<1> HIDE DEF s
<1>4. script'[p] = s /\ \A q \in Process \ {p} : script'[q] = script[q]
  BY <1>1 DEF BackupInv, BackupTypes
<1>5. BackupTypes'
  <2>1. DOMAIN script' = Process /\ \A q \in Process : IsScript(script'[q])
    BY <1>1, <1>3 DEF BackupInv, BackupTypes
  <2> QED BY <1>1, <2>1 DEF BackupInv, BackupTypes
<1>6. PrunesAreOld'
  BY <1>1, <1>3, <1>4 DEF BackupInv, PrunesAreOld, Later
<1>7. NewestStay'
  <2>1. Cardinality(Later(x)) >= KeepCount
    BY <1>2 DEF BackupInv, PrunesAreOld
  <2>2. Cardinality(Later(x)) \in Nat
    BY MoreAreLater, <1>1 DEF BackupInv, BackupTypes
  <2>3. ~ (Cardinality(Later(x)) < KeepCount)
    BY <2>1, <2>2, BackupAssumption
  <2> QED BY <1>1, <2>3 DEF BackupInv, NewestStay, Later
<1> QED BY <1>5, <1>6, <1>7 DEF BackupInv

LEMMA BackupStepOK == BackupInv /\ [BackupNext]_backupVars => BackupInv'
<1> SUFFICES ASSUME BackupInv, [BackupNext]_backupVars PROVE BackupInv'
  OBVIOUS
<1>0. /\ stamp \in 1..LastStamp
      /\ partial \in SUBSET (1..LastStamp) /\ \A p \in Process : IsScript(script[p])
  BY DEF BackupInv, BackupTypes
<1>1. CASE StampPasses \/ UNCHANGED backupVars
  <2>1. UNCHANGED <<script, partial, snapshot, promoted>> /\ stamp' \in 1..LastStamp
    BY <1>0, <1>1, BackupAssumption DEF StampPasses, backupVars
  <2>2. BackupTypes'
    BY <2>1 DEF BackupInv, BackupTypes
  <2> QED BY <2>1, <2>2 DEF BackupInv, PrunesAreOld, NewestStay, Later
<1>2. ASSUME NEW p \in Process, StartScript(p) PROVE BackupInv'
  <2>1. /\ IsScript([Ended EXCEPT !.at = "open"]) /\ [Ended EXCEPT !.at = "open"].prunes = {}
        /\ \A of \in {0, stamp} : /\ IsScript([Ended EXCEPT !.at = "dry", !.of = of])
                                  /\ [Ended EXCEPT !.at = "dry", !.of = of].prunes = {}
    BY <1>0, BackupAssumption DEF Ended, IsScript
  <2> QED BY <1>0, <1>2, <2>1, ScriptGoesOn DEF StartScript
<1>3. ASSUME NEW p \in Process, DryRunEnds(p) \/ Report(p) PROVE BackupInv'
  BY <1>3, ExitsOK DEF DryRunEnds, Report
<1>4. ASSUME NEW p \in Process, OpenLock(p) PROVE BackupInv'
  <2>2. /\ IsScript([script[p] EXCEPT !.at = "lock", !.fd = lockFile'])
        /\ [script[p] EXCEPT !.at = "lock", !.fd = lockFile'].prunes = script[p].prunes
    BY <1>0 DEF IsScript
  <2> QED BY <1>0, <1>4, <2>2, ScriptGoesOn DEF OpenLock
<1>5. ASSUME NEW p \in Process, Lock(p) PROVE BackupInv'
  <2>1. /\ IsScript([script[p] EXCEPT !.at = "space", !.holds = TRUE])
        /\ [script[p] EXCEPT !.at = "space", !.holds = TRUE].prunes = script[p].prunes
    BY <1>0 DEF IsScript, Working
  <2> QED BY <1>0, <1>5, <2>1, ScriptGoesOn, ExitsOK DEF Lock
<1>6. ASSUME NEW p \in Process, Prepare(p) PROVE BackupInv'
  <2>1. /\ IsScript([script[p] EXCEPT !.at = "sync", !.of = stamp, !.left = Sources])
        /\ [script[p] EXCEPT !.at = "sync", !.of = stamp, !.left = Sources].prunes = script[p].prunes
    BY <1>0, BackupAssumption DEF IsScript, Working
  <2> QED BY <1>0, <1>6, <2>1, ScriptGoesOn, ExitsOK DEF Prepare
<1>7. ASSUME NEW p \in Process, Sync(p) PROVE BackupInv'
  <2>1. PICK fails \in BOOLEAN :
             Does(p, [script[p] EXCEPT !.left = @ - 1, !.failed = @ + IF fails THEN 1 ELSE 0])
    BY <1>7 DEF Sync
  <2> DEFINE s == [script[p] EXCEPT !.left = @ - 1, !.failed = @ + IF fails THEN 1 ELSE 0]
  <2>2. IsScript(s) /\ s.prunes = script[p].prunes
    BY <1>0 DEF IsScript
  <2> QED BY <1>0, <1>7, <2>1, <2>2, ScriptGoesOn DEF Sync
<1>8. ASSUME NEW p \in Process, VerifyCopy(p) PROVE BackupInv'
  <2>1. PICK mismatch \in 0..1 : Does(p, [script[p] EXCEPT !.at = "promote", !.failed = @ + mismatch])
    BY <1>8 DEF VerifyCopy
  <2> DEFINE s == [script[p] EXCEPT !.at = "promote", !.failed = @ + mismatch]
  <2>2. IsScript(s) /\ s.prunes = script[p].prunes
    BY <1>0 DEF IsScript, Working
  <2> QED BY <1>0, <1>8, <2>1, <2>2, ScriptGoesOn DEF VerifyCopy
<1>9. ASSUME NEW p \in Process, Signalled(p) PROVE BackupInv'
  <2>1. \A ok \in BOOLEAN : /\ IsScript(Trapped(script[p], ok, TRUE))
                            /\ Trapped(script[p], ok, TRUE).prunes = {}
    BY <1>0, TrappedType
  <2> QED BY <1>0, <1>9, <2>1, ScriptGoesOn DEF Signalled
<1>10. ASSUME NEW p \in Process, Unlock(p) PROVE BackupInv'
  <2>1. /\ IsScript([script[p] EXCEPT !.at = "rm", !.holds = FALSE, !.fd = 0])
        /\ [script[p] EXCEPT !.at = "rm", !.holds = FALSE, !.fd = 0].prunes = script[p].prunes
    BY <1>0 DEF IsScript
  <2> QED BY <1>0, <1>10, <2>1, ScriptGoesOn DEF Unlock
<1>11. ASSUME NEW p \in Process, RemoveLock(p) \/ ScriptKilled(p) PROVE BackupInv'
  <2>1. /\ IsScript([script[p] EXCEPT !.at = "trap", !.twice = FALSE])
        /\ [script[p] EXCEPT !.at = "trap", !.twice = FALSE].prunes = script[p].prunes
        /\ IsScript(Ended) /\ Ended.prunes = {}
    BY <1>0, BackupAssumption DEF IsScript, Ended
  <2>2. partial' \in SUBSET (1..LastStamp) /\ UNCHANGED <<stamp, snapshot, promoted>>
    BY <1>0, <1>11 DEF RemoveLock, ScriptKilled
  <2> QED BY <1>0, <1>11, <2>1, <2>2, ScriptGoesOn DEF RemoveLock, ScriptKilled
<1> QED BY <1>1, <1>2, <1>3, <1>4, <1>5, <1>6, <1>7, <1>8, <1>9, <1>10, <1>11, PromoteOK, ListOK,
           RemoveOK DEF BackupNext

\* The newest snapshots that were ever finished are there, whatever backups
\* overlap, prune by an old listing or are killed.
THEOREM NewestSnapshotsStay == BackupSpec => []NewestStay
<1>1. BackupInv => NewestStay
  BY DEF BackupInv
<1> QED BY <1>1, BackupInitOK, BackupStepOK, PTL DEF BackupSpec

-----------------------------------------------------------------------------
(***************************************************************************)
(* Rollups.                                                                *)
(***************************************************************************)

\* Numbers and their remainders by the width of an interval.
LEMMA OnTheGrid ==
    ASSUME NEW n \in Nat, NEW k \in Nat
    PROVE  (n + k * Width) % Width = n % Width
<1>1. Width \in Nat \ {0}
  BY RollupAssumption
<1> DEFINE q == n \div Width
           r == n % Width
<1>2. q \in Nat /\ r \in 0..Width - 1 /\ n = q * Width + r
  BY <1>1
<1> HIDE DEF q, r
<1>3. n + k * Width = (q + k) * Width + r
  BY <1>1, <1>2
<1>4. ((q + k) * Width + r) % Width = r /\ (q * Width + r) % Width = r
  BY <1>1, <1>2
<1> QED BY <1>2, <1>3, <1>4

LEMMA GridApart ==
    ASSUME NEW a \in Nat, NEW b \in Nat, a % Width = b % Width, a < b
    PROVE  a + Width =< b
<1>1. Width \in Nat \ {0}
  BY RollupAssumption
<1> DEFINE p == a \div Width
           q == b \div Width
           r == a % Width
<1>2. p \in Nat /\ q \in Nat /\ r \in Nat /\ a = p * Width + r /\ b = q * Width + r
  BY <1>1
<1> HIDE DEF p, q, r
<1>3. p < q
  <2>1. ASSUME q =< p PROVE q * Width =< p * Width
    BY <1>1, <1>2, <2>1
  <2> QED BY <1>1, <1>2, <2>1
<1>4. (p + 1) * Width =< q * Width /\ (p + 1) * Width = p * Width + Width
  BY <1>1, <1>2, <1>3
<1> QED BY <1>1, <1>2, <1>4

\* The last boundary.
LEMMA LastBoundary ==
    ASSUME NEW n \in Nat
    PROVE  n - (n % Width) \in 0..n /\ (n - (n % Width)) % Width = 0
<1>1. Width \in Nat \ {0}
  BY RollupAssumption
<1> DEFINE q == n \div Width
           r == n % Width
<1>2. q \in Nat /\ r \in 0..Width - 1 /\ n = q * Width + r
  BY <1>1
<1> HIDE DEF q, r
<1>3. n - r = q * Width /\ q * Width \in Nat
  BY <1>1, <1>2
<1>4. (q * Width + 0) % Width = 0
  BY <1>1, <1>2
<1> QED BY <1>2, <1>3, <1>4 DEF r

\* The interval that a later second falls in.
LEMMA ItsInterval ==
    ASSUME NEW last \in Nat, NEW s \in Nat, last + Width =< s
    PROVE  \E k \in 1..s : last + k * Width =< s /\ s < last + k * Width + Width
<1>1. Width \in Nat \ {0}
  BY RollupAssumption
<1> DEFINE k == (s - last) \div Width
           r == (s - last) % Width
<1>2. k \in Nat /\ r \in 0..Width - 1 /\ s - last = k * Width + r
  BY <1>1
<1> HIDE DEF k, r
<1>3. k >= 1
  <2>1. ASSUME k = 0 PROVE FALSE
    <3>1. k * Width = 0
      BY <1>1, <2>1
    <3> QED BY <1>1, <1>2, <3>1
  <2> QED BY <1>2, <2>1
<1>4. k =< k * Width /\ k * Width \in Nat
  BY <1>1, <1>2
<1>5. s = last + k * Width + r /\ k =< s
  BY <1>1, <1>2, <1>4
<1>6. last + k * Width =< s /\ s < last + k * Width + Width
  BY <1>1, <1>2, <1>4, <1>5
<1> QED BY <1>2, <1>3, <1>5, <1>6

RollupTypes ==
    /\ second \in Nat /\ second > Back /\ sample \subseteq 0..second /\ second =< LastSecond
    /\ \A r \in rolled : r.ts \in 0..second

\* Rows are whole intervals apart; one that began on a boundary was over when it
\* was averaged; between two rows no interval with a sample is left out.
RowsInLine ==
    /\ \A r, q \in rolled : r.ts % Width = q.ts % Width
    /\ \A r \in rolled : r.ts % Width = 0 => r.ts + Width =< second /\ r.of = Within(r.ts)
    /\ \A r, q \in rolled, s \in sample : r.ts =< s /\ s < q.ts + Width =>
          \E p \in rolled : p.ts =< s /\ s < p.ts + Width

RollupInv == RollupTypes /\ RowsInLine

LEMMA CycleOK == RollupInv /\ CollectorCycle => RollupInv'
<1> SUFFICES ASSUME RollupInv, CollectorCycle PROVE RollupInv'
  OBVIOUS
<1>0. Width \in Nat \ {0}
  BY RollupAssumption
<1>1. /\ second < LastSecond /\ second' = second + 1
      /\ sample' \in {sample, sample \union {second + 1}} /\ rolled' = rolled
  BY DEF CollectorCycle
<1>2. RollupTypes'
  BY <1>1, RollupAssumption DEF RollupInv, RollupTypes
<1>3. \A r \in rolled' : r.ts % Width = 0 => r.ts + Width =< second' /\ r.of = Within(r.ts)'
  <2> SUFFICES ASSUME NEW r \in rolled, r.ts % Width = 0
               PROVE  r.ts + Width =< second' /\ r.of = Within(r.ts)'
    BY <1>1
  <2>1. r.ts \in Nat /\ second \in Nat /\ r.ts + Width =< second /\ r.of = Within(r.ts)
    BY DEF RollupInv, RollupTypes, RowsInLine
  <2>2. ~(second + 1 < r.ts + Width) /\ r.ts + Width =< second + 1
    BY <1>0, <2>1
  <2> QED BY <1>1, <2>1, <2>2 DEF Within
<1>4. ASSUME NEW r \in rolled', NEW q \in rolled', NEW s \in sample', r.ts =< s, s < q.ts + Width
      PROVE  \E p \in rolled' : p.ts =< s /\ s < p.ts + Width
  <2>1. CASE s \in sample
    BY <1>1, <1>4, <2>1 DEF RollupInv, RowsInLine
  <2>2. CASE s = second + 1
    <3>1. q.ts =< s
      BY <1>1, <2>2 DEF RollupInv, RollupTypes
    <3> QED BY <1>4, <3>1
  <2> QED BY <1>1, <2>1, <2>2
<1>5. \A r, q \in rolled' : r.ts % Width = q.ts % Width
  BY <1>1 DEF RollupInv, RowsInLine
<1> QED BY <1>2, <1>3, <1>4, <1>5 DEF RollupInv, RowsInLine

LEMMA PruneOK == RollupInv /\ PruneRollups => RollupInv'
<1> SUFFICES ASSUME RollupInv, PruneRollups PROVE RollupInv'
  OBVIOUS
<1>1. rolled' = {r \in rolled : r.ts >= second - Retention} /\ UNCHANGED <<second, sample>>
  BY DEF PruneRollups
<1>2. RollupTypes'
  BY <1>1 DEF RollupInv, RollupTypes
<1>3. ASSUME NEW r \in rolled', NEW q \in rolled', NEW s \in sample', r.ts =< s, s < q.ts + Width
      PROVE  \E p \in rolled' : p.ts =< s /\ s < p.ts + Width
  <2>1. PICK p \in rolled : p.ts =< s /\ s < p.ts + Width
    BY <1>1, <1>3 DEF RollupInv, RowsInLine
  <2>2. /\ p.ts \in Nat /\ r.ts \in Nat /\ s \in Nat /\ r \in rolled /\ p.ts % Width = r.ts % Width
        /\ second \in Nat /\ Retention \in Nat /\ r.ts >= second - Retention /\ Width \in Nat
    BY <1>1, RollupAssumption DEF RollupInv, RollupTypes, RowsInLine
  <2>3. p.ts < r.ts => p.ts + Width =< r.ts
    BY <2>2, GridApart
  <2>4. p.ts >= r.ts
    BY <1>3, <2>1, <2>2, <2>3
  <2>5. p.ts >= second - Retention
    BY <2>2, <2>4
  <2> QED BY <1>1, <2>1, <2>5
<1>4. \A r \in rolled' : r.ts % Width = 0 => r.ts + Width =< second' /\ r.of = Within(r.ts)'
  BY <1>1 DEF RollupInv, RowsInLine, Within
<1>5. \A r, q \in rolled' : r.ts % Width = q.ts % Width
  BY <1>1 DEF RollupInv, RowsInLine
<1> QED BY <1>2, <1>3, <1>4, <1>5 DEF RollupInv, RowsInLine

\* The last row, or where the first rollup begins.
LastRow == IF rolled = {} THEN second - Back ELSE Max({r.ts : r \in rolled})

LEMMA LastRowIsLast ==
    ASSUME RollupTypes
    PROVE  /\ LastRow \in 0..second
           /\ rolled # {} => (\E r \in rolled : r.ts = LastRow) /\ \A r \in rolled : r.ts =< LastRow
<1>1. CASE rolled = {}
  BY <1>1, RollupAssumption DEF LastRow, RollupTypes
<1>2. CASE rolled # {}
  <2> DEFINE S == {r.ts : r \in rolled}
  <2>1. S \in SUBSET (0..second) /\ S # {} /\ second \in Nat
    BY <1>2 DEF RollupTypes
  <2>2. \A r \in rolled : r.ts \in S
    OBVIOUS
  <2>3. \A x \in S : \E r \in rolled : r.ts = x
    OBVIOUS
  <2>4. LastRow = Max(S)
    BY <1>2 DEF LastRow
  <2> HIDE DEF S
  <2>5. Max(S) \in S /\ \A y \in S : y =< Max(S)
    BY <2>1, GreatestExists
  <2> QED BY <2>1, <2>2, <2>3, <2>4, <2>5
<1> QED BY <1>1, <1>2

\* The intervals that a rollup does: whole ones since the last row, and over.
LEMMA UndoneAreWhole ==
    ASSUME RollupTypes, NEW m \in Undone
    PROVE  /\ m \in 0..second /\ m > LastRow /\ m >= LastRow + Width /\ m % Width = LastRow % Width
           /\ m % Width = 0 => m + Width =< second
<1>1. Width \in Nat \ {0} /\ second \in Nat
  BY RollupAssumption DEF RollupTypes
<1>2. Undone = {LastRow + k * Width : k \in 1..LastSecond} \cap 0..second - (second % Width) - 1
  BY DEF Undone, LastRow
<1>3. LastRow \in Nat /\ LastSecond \in Nat
  BY LastRowIsLast, RollupAssumption
<1>4. PICK k \in 1..LastSecond : m = LastRow + k * Width
  BY <1>2
<1>5. k \in Nat /\ k >= 1
  BY <1>3, <1>4
<1>6. k * Width >= Width /\ k * Width \in Nat
  BY <1>1, <1>5
<1>7. m % Width = LastRow % Width
  BY <1>3, <1>4, <1>5, OnTheGrid
<1> DEFINE b == second - (second % Width)
<1>8. b \in 0..second /\ b % Width = 0
  BY <1>1, LastBoundary
<1>9. m \in 0..b - 1
  BY <1>2
<1> HIDE DEF b
<1>10. m \in Nat /\ m < b /\ b \in Nat /\ m \in 0..second
  BY <1>1, <1>8, <1>9
<1>11. m % Width = 0 => m + Width =< b
  BY <1>8, <1>10, GridApart
<1>12. m > LastRow /\ m >= LastRow + Width
  BY <1>1, <1>3, <1>4, <1>6
<1> QED BY <1>1, <1>7, <1>8, <1>10, <1>11, <1>12

LEMMA RollupOK == RollupInv /\ Rollup => RollupInv'
<1> SUFFICES ASSUME RollupInv, Rollup PROVE RollupInv'
  OBVIOUS
<1> DEFINE Done == {m \in Undone : Within(m) # {}}
           new == {[ts |-> ts, of |-> Within(ts)] : ts \in Done}
<1>1. rolled' = rolled \union new /\ UNCHANGED <<second, sample>>
  BY DEF Rollup
<1>2. RollupTypes /\ RowsInLine /\ Width \in Nat \ {0} /\ second \in Nat /\ LastRow \in Nat
  BY RollupAssumption, LastRowIsLast DEF RollupInv, RollupTypes
<1>3. \A r \in new : r.ts \in Done /\ r.of = Within(r.ts)
  OBVIOUS
<1>4. ASSUME NEW m \in Done PROVE \E r \in new : r.ts = m
  <2> WITNESS [ts |-> m, of |-> Within(m)] \in new
  <2> QED OBVIOUS
<1>5. \A m \in Done :
        /\ m \in 0..second /\ m > LastRow /\ m >= LastRow + Width /\ m % Width = LastRow % Width
        /\ m % Width = 0 => m + Width =< second
  BY <1>2, UndoneAreWhole
<1>6. \A m \in Undone : \A s \in sample : m =< s /\ s < m + Width => m \in Done
  BY DEF Within
<1>7. Undone = {LastRow + k * Width : k \in 1..LastSecond} \cap 0..second - (second % Width) - 1
  BY DEF Undone, LastRow
<1> HIDE DEF new, Done
<1>8. RollupTypes'
  BY <1>1, <1>2, <1>3, <1>5 DEF RollupTypes
<1>9. \A r \in rolled' : rolled # {} \/ r \in new => r.ts % Width = LastRow % Width
  <2>1. \A r \in rolled : r.ts % Width = LastRow % Width
    BY <1>2, LastRowIsLast DEF RowsInLine
  <2> QED BY <1>1, <1>3, <1>5, <2>1
<1>10. \A r, q \in rolled' : r.ts % Width = q.ts % Width
  BY <1>1, <1>9
<1>11. \A r \in rolled' : r.ts % Width = 0 => r.ts + Width =< second' /\ r.of = Within(r.ts)'
  <2>1. \A m : Within(m)' = Within(m)
    BY <1>1 DEF Within
  <2> QED BY <1>1, <1>2, <1>3, <1>5, <2>1 DEF RowsInLine
<1>12. ASSUME NEW r \in rolled', NEW q \in rolled', NEW s \in sample', r.ts =< s, s < q.ts + Width
       PROVE  \E p \in rolled' : p.ts =< s /\ s < p.ts + Width
  <2>1. s \in sample /\ s \in Nat /\ s =< second /\ second =< LastSecond /\ LastSecond \in Nat
    BY <1>1, <1>2, RollupAssumption DEF RollupTypes
  <2>2. r.ts \in Nat /\ q.ts \in Nat
    BY <1>1, <1>2, <1>3, <1>5 DEF RollupTypes
  <2>3. CASE s < LastRow + Width
    <3>1. r \in rolled
      <4>1. r \in new => r.ts >= LastRow + Width
        BY <1>3, <1>5
      <4> QED BY <1>1, <1>2, <1>12, <2>1, <2>2, <2>3, <4>1
    <3>2. PICK l \in rolled : l.ts = LastRow
      BY <1>2, <3>1, LastRowIsLast
    <3> QED BY <1>1, <1>2, <1>12, <2>1, <2>3, <3>1, <3>2 DEF RowsInLine
  <2>4. CASE LastRow + Width =< s
    <3>1. PICK k \in 1..s : LastRow + k * Width =< s /\ s < LastRow + k * Width + Width
      BY <1>2, <2>1, <2>4, ItsInterval
    <3> DEFINE m == LastRow + k * Width
    <3>2. k \in Nat /\ k \in 1..LastSecond
      <4>1. \A x, y, z \in Nat : x =< y /\ y =< z => 1..x \subseteq 1..z
        OBVIOUS
      <4>2. k \in 1..LastSecond
        BY <1>2, <2>1, <4>1
      <4> QED BY <4>2
    <3>3. m % Width = LastRow % Width
      BY <1>2, <3>2, OnTheGrid
    <3>4. m \in Nat /\ m =< s /\ s < m + Width
      <4>1. k * Width \in Nat
        BY <1>2, <3>2
      <4> QED BY <1>2, <3>1, <4>1
    <3>5. m \in {LastRow + j * Width : j \in 1..LastSecond}
      BY <3>2
    <3> HIDE DEF m
    <3>6. q \in new
      <4>1. ASSUME q \in rolled PROVE FALSE
        <5>1. q.ts =< LastRow
          BY <1>2, <4>1, LastRowIsLast
        <5> QED BY <1>2, <1>12, <2>1, <2>2, <2>4, <5>1
      <4> QED BY <1>1, <4>1
    <3>7. q.ts \in Done /\ q.ts % Width = LastRow % Width
      BY <1>3, <1>5, <3>6
    <3>8. m =< q.ts
      <4>1. q.ts < m => q.ts + Width =< m
        BY <2>2, <3>3, <3>4, <3>7, GridApart
      <4> QED BY <1>2, <1>12, <2>1, <2>2, <3>4, <4>1
    <3>9. m \in 0..second - (second % Width) - 1
      <4> DEFINE b == second - (second % Width) - 1
      <4>1. b \in Int
        BY <1>2
      <4>2. q.ts \in 0..b
        BY <1>7, <3>7 DEF Done
      <4> HIDE DEF b
      <4>3. m \in 0..b
        BY <3>4, <3>8, <4>1, <4>2
      <4> QED BY <4>3 DEF b
    <3>10. m \in Done
      BY <1>6, <1>7, <2>1, <3>4, <3>5, <3>9
    <3> QED BY <1>1, <1>4, <3>4, <3>10
  <2> QED BY <1>2, <2>1, <2>3, <2>4
<1> QED BY <1>8, <1>10, <1>11, <1>12 DEF RollupInv, RowsInLine

LEMMA RollupInitOK == RollupInit => RollupInv
<1> SUFFICES ASSUME RollupInit PROVE RollupInv
  OBVIOUS
<1> QED BY RollupAssumption DEF RollupInit, RollupInv, RollupTypes, RowsInLine

LEMMA RollupStepOK == RollupInv /\ [RollupNext]_rollupVars => RollupInv'
<1> SUFFICES ASSUME RollupInv, [RollupNext]_rollupVars PROVE RollupInv'
  OBVIOUS
<1>1. CASE CollectorCycle
  BY <1>1, CycleOK
<1>2. CASE RollupByCollector \/ CatchUp
  BY <1>2, RollupOK DEF RollupByCollector, CatchUp
<1>3. CASE PruneRollups
  BY <1>3, PruneOK
<1>4. CASE UNCHANGED rollupVars
  BY <1>4 DEF rollupVars, RollupInv, RollupTypes, RowsInLine, Within
<1> QED BY <1>1, <1>2, <1>3, <1>4 DEF RollupNext

\* The first and the last row are rows.
LEMMA FirstAndLastRow ==
    ASSUME RollupInv, rolled # {}
    PROVE  /\ \E r \in rolled : r.ts = Min({q.ts : q \in rolled})
           /\ \E r \in rolled : r.ts = Max({q.ts : q \in rolled})
<1> DEFINE S == {q.ts : q \in rolled}
<1>1. S \in SUBSET (0..second) /\ S \in SUBSET Nat /\ S # {} /\ second \in Nat
  BY DEF RollupInv, RollupTypes
<1>2. \A x \in S : \E r \in rolled : r.ts = x
  OBVIOUS
<1> HIDE DEF S
<1>3. Max(S) \in S
  BY <1>1, GreatestExists
<1>4. PICK x \in S : \A y \in S : x =< y
  BY <1>1, LeastExists
<1>5. Min(S) \in S
  BY <1>1, <1>4 DEF Min
<1> QED BY <1>2, <1>3, <1>5 DEF S

\* Where rows begin on boundaries, each sample between the first and the last is
\* averaged in the row of its interval, whatever was late, restarted or pruned.
THEOREM NoHistoryIsLost == RollupSpec => []HistoryIsWhole
<1>1. RollupInv => HistoryIsWhole
  <2> SUFFICES ASSUME RollupInv, \A r \in rolled : r.ts % Width = 0, NEW s \in sample
               PROVE  /\ \A r \in rolled : r.ts =< s /\ s < r.ts + Width <=> s \in r.of
                      /\ rolled # {} /\ Min({r.ts : r \in rolled}) =< s
                                     /\ s < Max({r.ts : r \in rolled}) + Width => \E r \in rolled : s \in r.of
    BY DEF HistoryIsWhole
  <2>1. \A r \in rolled : r.ts =< s /\ s < r.ts + Width <=> s \in r.of
    BY DEF RollupInv, RowsInLine, Within
  <2>2. ASSUME rolled # {}, Min({r.ts : r \in rolled}) =< s, s < Max({r.ts : r \in rolled}) + Width
        PROVE  \E r \in rolled : s \in r.of
    <3>1. PICK r \in rolled : r.ts =< s
      BY <2>2, FirstAndLastRow
    <3>2. PICK q \in rolled : s < q.ts + Width
      BY <2>2, FirstAndLastRow
    <3>3. PICK p \in rolled : p.ts =< s /\ s < p.ts + Width
      BY <3>1, <3>2 DEF RollupInv, RowsInLine
    <3> QED BY <2>1, <3>3
  <2> QED BY <2>1, <2>2
<1> QED BY <1>1, RollupInitOK, RollupStepOK, PTL DEF RollupSpec

-----------------------------------------------------------------------------
(***************************************************************************)
(* Root causes.  A walk of the graph is a recursive function: there is a   *)
(* table of it for every number of targets left to visit, so the function  *)
(* is defined and unfolds, and by the least number of targets left, what   *)
(* it reaches is the least set that is closed under the dependencies.      *)
(***************************************************************************)

\* A table of the walks that have less than n targets to visit.
Tabled(edges, n, walk) ==
    \A front, visited \in SUBSET Target :
        Cardinality(Target \ visited) < n =>
            /\ walk[<<front, visited>>] = VisitNode(edges, walk, front, visited)
            /\ visited \subseteq walk[<<front, visited>>] /\ walk[<<front, visited>>] \subseteq Target

\* A walk from where more was visited has less to visit.
LEMMA LessIsLeft ==
    ASSUME NEW v \in SUBSET Target, NEW w \in SUBSET Target, v \subseteq w
    PROVE  /\ Cardinality(Target \ v) \in Nat /\ Cardinality(Target \ w) \in Nat
           /\ Cardinality(Target \ w) =< Cardinality(Target \ v)
           /\ v # w => Cardinality(Target \ w) < Cardinality(Target \ v)
<1>1. IsFiniteSet(Target \ v) /\ IsFiniteSet(Target \ w)
  BY GraphAssumption, FS_Subset, Target \ v \in SUBSET Target, Target \ w \in SUBSET Target
<1>2. Cardinality(Target \ v) \in Nat /\ Cardinality(Target \ w) \in Nat
  BY <1>1, FS_CardinalityType
<1>3. /\ Cardinality(Target \ w) =< Cardinality(Target \ v)
      /\ Cardinality(Target \ w) = Cardinality(Target \ v) => Target \ v = Target \ w
  BY <1>1, FS_Subset, Target \ w \in SUBSET (Target \ v)
<1>4. v # w => Target \ v # Target \ w
  OBVIOUS
<1> QED BY <1>2, <1>3, <1>4

\* A visit goes on from next, gets as far as far, and visits the rest.
GoesOn(edges, n, walk, front, visited, next, far) ==
    /\ edges[next] \in SUBSET Target /\ visited \union {next} \in SUBSET Target
    /\ far = walk[<<edges[next], visited \union {next}>>]
    /\ visited \union {next} \subseteq far
    /\ Cardinality(Target \ (visited \union {next})) < n /\ Cardinality(Target \ far) < n
    /\ VisitNode(edges, walk, front, visited) = walk[<<front, far>>]
    /\ \A other : other[<<edges[next], visited \union {next}>>] = far
                      => VisitNode(edges, other, front, visited) = other[<<front, far>>]

\* A visit that does not end where it begins goes on.
LEMMA VisitGoesOn ==
    ASSUME NEW edges \in [Target -> SUBSET Target], NEW walk, NEW n \in Nat, Tabled(edges, n, walk),
           NEW front \in SUBSET Target, NEW visited \in SUBSET Target,
           Cardinality(Target \ visited) < n + 1, ~(front \subseteq visited)
    PROVE  \E next \in front \ visited, far \in SUBSET Target :
              GoesOn(edges, n, walk, front, visited, next, far)
<1>1. PICK next : next = CHOOSE t \in front \ visited : TRUE
  OBVIOUS
<1>2. next \in front \ visited
  BY <1>1
<1>3. PICK past \in SUBSET Target : past = visited \union {next}
  BY <1>2
<1>4. PICK far : far = walk[<<edges[next], past>>]
  OBVIOUS
<1>5. \A other : VisitNode(edges, other, front, visited) = other[<<front, other[<<edges[next], past>>]>>]
  BY <1>1, <1>3 DEF VisitNode
<1>6. edges[next] \in SUBSET Target /\ visited # past /\ visited \subseteq past
  BY <1>2, <1>3
<1>7. /\ Cardinality(Target \ visited) \in Nat /\ Cardinality(Target \ past) \in Nat
      /\ Cardinality(Target \ past) < Cardinality(Target \ visited)
  BY <1>6, LessIsLeft
<1>8. Cardinality(Target \ past) < n
  BY <1>7
<1>9. past \subseteq far /\ far \in SUBSET Target
  BY <1>4, <1>6, <1>8 DEF Tabled
<1>10. Cardinality(Target \ far) \in Nat /\ Cardinality(Target \ far) =< Cardinality(Target \ past)
  BY <1>9, LessIsLeft
<1>11. Cardinality(Target \ far) < n
  BY <1>7, <1>8, <1>10
<1>12. VisitNode(edges, walk, front, visited) = walk[<<front, far>>]
  BY <1>4, <1>5
<1>13. \A other : other[<<edges[next], past>>] = far => VisitNode(edges, other, front, visited) = other[<<front, far>>]
  BY <1>5
<1>14. GoesOn(edges, n, walk, front, visited, next, far)
  BY <1>3, <1>4, <1>6, <1>8, <1>9, <1>11, <1>12, <1>13 DEF GoesOn
<1> QED BY <1>2, <1>9, <1>14

\* There is a table for every number of targets.
LEMMA TableExists ==
    ASSUME NEW edges \in [Target -> SUBSET Target], NEW n \in Nat
    PROVE  \E walk : Tabled(edges, n, walk)
<1> DEFINE Bad == {k \in Nat : ~ \E walk : Tabled(edges, k, walk)}
<1>1. SUFFICES ASSUME Bad # {} PROVE FALSE
  OBVIOUS
<1>2. PICK k \in Bad : \A j \in Bad : k =< j
  BY <1>1, LeastExists
<1>3. Tabled(edges, 0, edges)
  <2>1. ASSUME NEW visited \in SUBSET Target PROVE ~(Cardinality(Target \ visited) < 0)
    <3>1. Cardinality(Target \ visited) \in Nat
      BY LessIsLeft
    <3> QED BY <3>1
  <2> QED BY <2>1 DEF Tabled
<1>4. k # 0
  BY <1>2, <1>3
<1>5. PICK j \in Nat : k = j + 1
  BY <1>2, <1>4
<1>6. j \notin Bad
  BY <1>2, <1>5
<1>7. PICK walk : Tabled(edges, j, walk)
  BY <1>6
<1> DEFINE Near(visited) == Cardinality(Target \ visited) < j
           more == [start \in (SUBSET Target) \X (SUBSET Target) |->
                      IF Near(start[2]) THEN walk[start] ELSE VisitNode(edges, walk, start[1], start[2])]
<1>8. ASSUME NEW front \in SUBSET Target, NEW visited \in SUBSET Target
      PROVE  more[<<front, visited>>] = IF Near(visited) THEN walk[<<front, visited>>] ELSE VisitNode(edges, walk, front, visited)
  <2>1. <<front, visited>> \in (SUBSET Target) \X (SUBSET Target)
    OBVIOUS
  <2>2. <<front, visited>>[1] = front /\ <<front, visited>>[2] = visited
    OBVIOUS
  <2> QED BY <2>1, <2>2
<1> HIDE DEF more
<1>9. ASSUME NEW front \in SUBSET Target, NEW visited \in SUBSET Target, Cardinality(Target \ visited) < k
      PROVE  /\ more[<<front, visited>>] = VisitNode(edges, more, front, visited)
             /\ visited \subseteq more[<<front, visited>>] /\ more[<<front, visited>>] \subseteq Target
  <2>1. Near(visited) => /\ walk[<<front, visited>>] = VisitNode(edges, walk, front, visited)
                         /\ visited \subseteq walk[<<front, visited>>] /\ walk[<<front, visited>>] \subseteq Target
    BY <1>7 DEF Tabled
  <2>2. more[<<front, visited>>] = VisitNode(edges, walk, front, visited)
    BY <1>8, <2>1
  <2>3. CASE front \subseteq visited
    BY <2>2, <2>3 DEF VisitNode
  <2>4. CASE ~(front \subseteq visited)
    <3>1. Cardinality(Target \ visited) < j + 1
      BY <1>5, <1>9
    <3>2. PICK next \in front \ visited, far \in SUBSET Target :
                GoesOn(edges, j, walk, front, visited, next, far)
      BY <1>7, <2>4, <3>1, VisitGoesOn
    <3>3. more[<<edges[next], visited \union {next}>>] = far
      BY <1>8, <3>2 DEF GoesOn
    <3>4. more[<<front, far>>] = walk[<<front, far>>]
      BY <1>8, <3>2 DEF GoesOn
    <3>5. VisitNode(edges, more, front, visited) = walk[<<front, far>>]
      BY <3>2, <3>3, <3>4 DEF GoesOn
    <3>6. VisitNode(edges, walk, front, visited) = walk[<<front, far>>] /\ visited \subseteq far
      BY <3>2 DEF GoesOn
    <3>7. Cardinality(Target \ far) < j
      BY <3>2 DEF GoesOn
    <3>8. far \subseteq walk[<<front, far>>] /\ walk[<<front, far>>] \subseteq Target
      BY <1>7, <3>7 DEF Tabled
    <3> QED BY <2>2, <3>5, <3>6, <3>8
  <2> QED BY <2>3, <2>4
<1>10. Tabled(edges, k, more)
  BY <1>9 DEF Tabled
<1> QED BY <1>2, <1>10

\* So the walks are defined.
LEMMA WalkIsDefined ==
    ASSUME NEW edges \in [Target -> SUBSET Target], NEW front \in SUBSET Target, NEW visited \in SUBSET Target
    PROVE  Walk(edges)[<<front, visited>>] = VisitNode(edges, Walk(edges), front, visited)
<1> DEFINE Start == (SUBSET Target) \X (SUBSET Target)
           Def(w) == [start \in Start |-> VisitNode(edges, w, start[1], start[2])]
<1>1. PICK all : all = Cardinality(Target) + 1
  OBVIOUS
<1>2. all \in Nat
  BY <1>1, GraphAssumption, FS_CardinalityType
<1>3. PICK walk : Tabled(edges, all, walk)
  BY <1>2, TableExists
<1>4. ASSUME NEW v \in SUBSET Target PROVE Cardinality(Target \ v) < all
  <2>1. Target \ {} = Target /\ {} \in SUBSET Target
    OBVIOUS
  <2>2. Cardinality(Target \ v) =< Cardinality(Target) /\ Cardinality(Target \ v) \in Nat /\ Cardinality(Target) \in Nat
    BY <2>1, LessIsLeft
  <2> QED BY <1>1, <2>2
<1>5. PICK table : table = [start \in Start |-> walk[start]]
  OBVIOUS
<1>6. ASSUME NEW start \in Start
      PROVE  table[start] = VisitNode(edges, table, start[1], start[2])
  <2>1. PICK t \in SUBSET Target, v \in SUBSET Target : start = <<t, v>>
    OBVIOUS
  <2>2. start[1] = t /\ start[2] = v
    BY <2>1
  <2>3. walk[<<t, v>>] = VisitNode(edges, walk, t, v)
    BY <1>3, <1>4 DEF Tabled
  <2>4. CASE t \subseteq v
    BY <1>5, <2>1, <2>2, <2>3, <2>4 DEF VisitNode
  <2>5. CASE ~(t \subseteq v)
    <3>1. \E next \in t \ v, far \in SUBSET Target : GoesOn(edges, all, walk, t, v, next, far)
      <4>1. Cardinality(Target \ v) < all + 1
        <5>1. Cardinality(Target \ v) \in Nat /\ Cardinality(Target \ v) < all
          BY <1>4, LessIsLeft
        <5> QED BY <1>2, <5>1
      <4> QED BY <1>2, <1>3, <2>5, <4>1, VisitGoesOn
    <3>2. PICK next \in t \ v, far \in SUBSET Target : GoesOn(edges, all, walk, t, v, next, far)
      BY <3>1
    <3>3. table[<<edges[next], v \union {next}>>] = far
      BY <1>5, <3>2 DEF GoesOn
    <3>4. table[<<t, far>>] = walk[<<t, far>>]
      BY <1>5
    <3>5. VisitNode(edges, table, t, v) = walk[<<t, far>>]
      BY <3>2, <3>3, <3>4 DEF GoesOn
    <3>6. table[start] = walk[<<t, v>>]
      BY <1>5, <2>1
    <3> QED BY <2>2, <2>3, <3>2, <3>5, <3>6 DEF GoesOn
  <2> QED BY <2>4, <2>5
<1>7. table = Def(table)
  BY <1>5, <1>6
<1>8. Walk(edges) = CHOOSE w : w = Def(w)
  BY DEF Walk
<1>9. Walk(edges) = Def(Walk(edges))
  BY <1>7, <1>8
<1>10. <<front, visited>> \in Start /\ <<front, visited>>[1] = front /\ <<front, visited>>[2] = visited
  OBVIOUS
<1> QED BY <1>9, <1>10

Closed(edges, s) == \A t \in s : edges[t] \subseteq s

\* What a walk adds to what was visited is closed, and no more than is needed to
\* be closed.
Reached(edges, front, visited, w) ==
    /\ w \in SUBSET Target /\ visited \subseteq w /\ front \subseteq w
    /\ \A t \in w \ visited : edges[t] \subseteq w
    /\ \A s \in SUBSET Target : Closed(edges, s) /\ front \subseteq s => w \subseteq visited \union s

LEMMA WalkReaches ==
    ASSUME NEW edges \in [Target -> SUBSET Target], NEW front \in SUBSET Target, NEW visited \in SUBSET Target
    PROVE  Reached(edges, front, visited, Walk(edges)[<<front, visited>>])
<1> DEFINE Wrong(t, v) == ~Reached(edges, t, v, Walk(edges)[<<t, v>>])
           Bad == {Cardinality(Target \ p[2]) : p \in {q \in (SUBSET Target) \X (SUBSET Target) : Wrong(q[1], q[2])}}
<1>1. SUFFICES ASSUME Wrong(front, visited) PROVE FALSE
  OBVIOUS
<1>2. ASSUME NEW t \in SUBSET Target, NEW v \in SUBSET Target, Wrong(t, v)
      PROVE  Cardinality(Target \ v) \in Bad
  <2>1. /\ <<t, v>> \in (SUBSET Target) \X (SUBSET Target)
        /\ <<t, v>>[1] = t /\ <<t, v>>[2] = v
    OBVIOUS
  <2> HIDE DEF Wrong
  <2> QED BY <1>2, <2>1
<1>3. ASSUME NEW m \in Bad
      PROVE  \E t, v \in SUBSET Target : Wrong(t, v) /\ m = Cardinality(Target \ v)
  <2> HIDE DEF Wrong
  <2>1. PICK p \in (SUBSET Target) \X (SUBSET Target) : Wrong(p[1], p[2]) /\ m = Cardinality(Target \ p[2])
    OBVIOUS
  <2> QED BY <2>1
<1>4. Bad \in SUBSET Nat
  <2>1. \A m \in Bad : m \in Nat
    <3> HIDE DEF Bad, Wrong
    <3> SUFFICES ASSUME NEW m \in Bad PROVE m \in Nat
      OBVIOUS
    <3>1. PICK v \in SUBSET Target : m = Cardinality(Target \ v)
      BY <1>3
    <3> QED BY <3>1, LessIsLeft
  <2> QED BY <2>1
<1>5. Bad # {}
  <2> HIDE DEF Bad
  <2> QED BY <1>1, <1>2
<1> HIDE DEF Bad
<1>6. PICK m \in Bad : \A k \in Bad : m =< k
  BY <1>4, <1>5, LeastExists
<1> HIDE DEF Wrong
<1>7. PICK t \in SUBSET Target, v \in SUBSET Target : Wrong(t, v) /\ m = Cardinality(Target \ v)
  BY <1>3
<1>8. ASSUME NEW u \in SUBSET Target, NEW w \in SUBSET Target, v \subseteq w, v # w
      PROVE  Reached(edges, u, w, Walk(edges)[<<u, w>>])
  <2>1. /\ Cardinality(Target \ v) \in Nat /\ Cardinality(Target \ w) \in Nat
        /\ Cardinality(Target \ w) < Cardinality(Target \ v)
    BY <1>8, LessIsLeft
  <2>2. ASSUME Cardinality(Target \ w) \in Bad PROVE FALSE
    <3>1. m =< Cardinality(Target \ w)
      BY <1>6, <2>2
    <3> QED BY <1>7, <2>1, <3>1
  <2> QED BY <1>2, <2>2 DEF Wrong
<1>9. Walk(edges)[<<t, v>>] = VisitNode(edges, Walk(edges), t, v)
  BY WalkIsDefined
<1>10. CASE t \subseteq v
  BY <1>7, <1>9, <1>10 DEF VisitNode, Wrong, Reached
<1>11. CASE ~(t \subseteq v)
  <2>1. PICK next : next = CHOOSE n \in t \ v : TRUE
    OBVIOUS
  <2>2. next \in t \ v
    BY <1>11, <2>1
  <2>3. PICK past \in SUBSET Target : past = v \union {next}
    BY <2>2
  <2>4. PICK far : far = Walk(edges)[<<edges[next], past>>]
    OBVIOUS
  <2>5. PICK w : w = Walk(edges)[<<t, far>>]
    OBVIOUS
  <2>6. Walk(edges)[<<t, v>>] = w
    BY <1>9, <1>11, <2>1, <2>3, <2>4, <2>5 DEF VisitNode
  <2>7. Reached(edges, edges[next], past, far)
    BY <1>8, <2>2, <2>3, <2>4
  <2>8. far \in SUBSET Target /\ v \subseteq far /\ v # far
    BY <2>2, <2>3, <2>7 DEF Reached
  <2>9. Reached(edges, t, far, w)
    BY <1>8, <2>5, <2>8
  <2>10. \A x \in w \ v : edges[x] \subseteq w
    BY <2>2, <2>3, <2>7, <2>9 DEF Reached
  <2>11. ASSUME NEW s \in SUBSET Target, Closed(edges, s), t \subseteq s
         PROVE  w \subseteq v \union s
    <3>1. next \in s /\ edges[next] \subseteq s
      BY <2>2, <2>11 DEF Closed
    <3>2. far \subseteq past \union s
      BY <2>7, <2>11, <3>1 DEF Reached
    <3>3. w \subseteq far \union s
      BY <2>9, <2>11 DEF Reached
    <3> QED BY <2>3, <3>1, <3>2, <3>3
  <2>12. Reached(edges, t, v, w)
    BY <2>8, <2>9, <2>10, <2>11 DEF Reached
  <2> QED BY <1>7, <2>6, <2>12 DEF Wrong
<1> QED BY <1>10, <1>11

\* A walk from nothing reaches the least closed set.
LEMMA WalkIsLeast ==
    ASSUME NEW edges \in [Target -> SUBSET Target], NEW front \in SUBSET Target
    PROVE  LET w == Walk(edges)[<<front, {}>>] IN
           /\ w \in SUBSET Target /\ front \subseteq w /\ Closed(edges, w)
           /\ \A s \in SUBSET Target : Closed(edges, s) /\ front \subseteq s => w \subseteq s
<1>1. Reached(edges, front, {}, Walk(edges)[<<front, {}>>])
  BY WalkReaches
<1> QED BY <1>1 DEF Reached, Closed

-----------------------------------------------------------------------------
\* Walks up and down the dependencies.
LEMMA NeededIsLeast ==
    ASSUME GraphTypeOK, NEW t \in Target
    PROVE  /\ NeededBy(t) \in SUBSET Target /\ dependsOn[t] \subseteq NeededBy(t) /\ Closed(dependsOn, NeededBy(t))
           /\ \A s \in SUBSET Target : Closed(dependsOn, s) /\ dependsOn[t] \subseteq s => NeededBy(t) \subseteq s
BY DEF GraphTypeOK, NeededBy, Closed

\* Who needs a target needs what that one needs.
LEMMA NeedsAddUp ==
    ASSUME GraphTypeOK, NEW t \in Target, NEW u \in NeededBy(t)
    PROVE  u \in Target /\ NeededBy(u) \subseteq NeededBy(t)
BY NeededIsLeast DEF Closed

LEMMA AncestorsAreNeeded ==
    ASSUME GraphTypeOK, NEW t \in Target
    PROVE  Ancestors(t) = NeededBy(t) \intersect registered
<1>1. dependsOn \in [Target -> SUBSET Target] /\ dependsOn[t] \in SUBSET Target
  BY DEF GraphTypeOK
<1>2. PICK w : w = Walk(dependsOn)[<<dependsOn[t], {}>>]
  OBVIOUS
<1>3. /\ w \in SUBSET Target /\ dependsOn[t] \subseteq w /\ Closed(dependsOn, w)
      /\ \A s \in SUBSET Target : Closed(dependsOn, s) /\ dependsOn[t] \subseteq s => w \subseteq s
  BY <1>1, <1>2, WalkIsLeast
<1>4. w = NeededBy(t)
  <2>1. w \subseteq NeededBy(t)
    BY <1>3, NeededIsLeast
  <2>2. NeededBy(t) \subseteq w
    BY <1>3, NeededIsLeast
  <2> QED BY <2>1, <2>2
<1> QED BY <1>2, <1>4 DEF Ancestors

\* The descendants of a target are those that need it.
LEMMA DescendantsNeed ==
    ASSUME GraphTypeOK, NEW t \in Target
    PROVE  Descendants(t) = {d \in Target : t \in NeededBy(d)}
<1>1. /\ Dependents \in [Target -> SUBSET Target] /\ Dependents[t] \in SUBSET Target
      /\ \A u, d \in Target : d \in Dependents[u] <=> u \in dependsOn[d]
  <2>1. \A u \in Target : Dependents[u] = {n \in registered : u \in dependsOn[n]}
    BY DEF Dependents
  <2>2. \A u, d \in Target : u \in dependsOn[d] => d \in registered
    BY DEF GraphTypeOK
  <2> QED BY <2>1, <2>2 DEF GraphTypeOK, Dependents
<1>2. PICK w : w = Descendants(t)
  OBVIOUS
<1>3. /\ w \in SUBSET Target /\ Dependents[t] \subseteq w /\ Closed(Dependents, w)
      /\ \A s \in SUBSET Target : Closed(Dependents, s) /\ Dependents[t] \subseteq s => w \subseteq s
  BY <1>1, <1>2, WalkIsLeast DEF Descendants
<1>4. PICK needing \in SUBSET Target : needing = {d \in Target : t \in NeededBy(d)}
  OBVIOUS
<1>5. \A d \in Target : dependsOn[d] \subseteq NeededBy(d) /\ dependsOn[d] \subseteq Target
  BY NeededIsLeast
<1>6. w \subseteq needing
  <2>1. Dependents[t] \subseteq needing
    BY <1>1, <1>4, <1>5
  <2>2. ASSUME NEW u \in needing, NEW d \in Dependents[u] PROVE d \in needing
    <3>1. d \in Target /\ u \in dependsOn[d]
      BY <1>1, <1>4
    <3>2. u \in NeededBy(d) /\ t \in NeededBy(u)
      BY <1>4, <1>5, <3>1
    <3>3. t \in NeededBy(d)
      BY <3>1, <3>2, NeedsAddUp
    <3> QED BY <1>4, <3>1, <3>3
  <2>3. Closed(Dependents, needing)
    BY <2>2 DEF Closed
  <2> QED BY <1>3, <2>1, <2>3
<1>7. ASSUME NEW d \in needing PROVE d \in w
  <2> SUFFICES ASSUME d \notin w PROVE FALSE
    OBVIOUS
  <2>1. PICK rest \in SUBSET Target : rest = Target \ (w \union {t})
    OBVIOUS
  <2>2. ASSUME NEW x \in Target, x \notin w PROVE dependsOn[x] \subseteq rest
    BY <1>1, <1>3, <1>5, <2>1, <2>2 DEF Closed
  <2>3. Closed(dependsOn, rest)
    BY <2>1, <2>2 DEF Closed
  <2>4. NeededBy(d) \subseteq rest
    BY <1>4, <2>2, <2>3, NeededIsLeast
  <2> QED BY <1>4, <2>1, <2>4
<1> QED BY <1>2, <1>4, <1>6, <1>7

\* The failing targets that need t.
Explained(t) == {f \in failing : t \in NeededBy(f)}

\* No target needs itself, and some fail.
Solvable == GraphTypeOK /\ failing # {} /\ \A t \in Target : t \notin NeededBy(t)

LEMMA DescendantsAreExplained ==
    ASSUME GraphTypeOK, NEW t \in Target
    PROVE  FailingDescendants(t) = Explained(t)
BY DescendantsNeed DEF FailingDescendants, Explained, GraphTypeOK

LEMMA ExplainedIsCounted ==
    ASSUME GraphTypeOK, NEW t \in Target
    PROVE  /\ Explained(t) \subseteq failing /\ IsFiniteSet(Explained(t)) /\ IsFiniteSet(failing)
           /\ Cardinality(Explained(t)) \in 0..Cardinality(failing) /\ Cardinality(failing) \in Nat
<1>1. IsFiniteSet(failing)
  BY GraphAssumption, FS_Subset DEF GraphTypeOK
<1>2. Explained(t) \in SUBSET failing
  BY DEF Explained
<1>3. IsFiniteSet(Explained(t)) /\ Cardinality(Explained(t)) =< Cardinality(failing)
  BY <1>1, <1>2, FS_Subset
<1> QED BY <1>1, <1>2, <1>3, FS_CardinalityType

\* A failing target that a failing one needs explains more than that one.
LEMMA HigherExplainsMore ==
    ASSUME Solvable, NEW t \in failing, NEW u \in NeededBy(t) \intersect failing
    PROVE  Cardinality(Explained(t)) < Cardinality(Explained(u))
<1>1. GraphTypeOK /\ t \in Target /\ u \in Target
  BY DEF Solvable, GraphTypeOK
<1>2. ASSUME NEW f \in Explained(t) PROVE f \in Explained(u)
  <2>1. f \in failing /\ f \in Target /\ t \in NeededBy(f)
    BY <1>1 DEF Explained, GraphTypeOK
  <2>2. NeededBy(t) \subseteq NeededBy(f)
    BY <1>1, <2>1, NeedsAddUp
  <2> QED BY <2>1, <2>2 DEF Explained
<1>3. t \in Explained(u) /\ t \notin Explained(t)
  BY <1>1 DEF Explained, Solvable
<1>4. IsFiniteSet(Explained(u)) /\ Explained(t) \in SUBSET Explained(u) /\ Explained(t) # Explained(u)
  BY <1>1, <1>2, <1>3, ExplainedIsCounted
<1>5. Cardinality(Explained(t)) =< Cardinality(Explained(u)) /\ Cardinality(Explained(t)) # Cardinality(Explained(u))
  BY <1>4, FS_Subset
<1>6. Cardinality(Explained(t)) \in Nat /\ Cardinality(Explained(u)) \in Nat
  BY <1>1, ExplainedIsCounted
<1> QED BY <1>5, <1>6

\* One of the failing targets explains most, and needs no failing one.
LEMMA SomeExplainsMost ==
    ASSUME Solvable
    PROVE  \E top \in failing :
              /\ NeededBy(top) \intersect failing = {}
              /\ \A t \in failing : Cardinality(Explained(t)) =< Cardinality(Explained(top))
<1> DEFINE Counts == {Cardinality(Explained(t)) : t \in failing}
<1>1. GraphTypeOK /\ failing # {} /\ failing \subseteq Target
  BY DEF Solvable, GraphTypeOK
<1>2. \A t \in failing : Cardinality(Explained(t)) \in 0..Cardinality(failing) /\ Cardinality(failing) \in Nat
  BY <1>1, ExplainedIsCounted
<1>3. Counts \in SUBSET (0..Cardinality(failing)) /\ Counts # {} /\ Cardinality(failing) \in Nat
  BY <1>1, <1>2
<1>4. Max(Counts) \in Counts /\ \A n \in Counts : n =< Max(Counts)
  BY <1>3, GreatestExists
<1>5. PICK top \in failing : Cardinality(Explained(top)) = Max(Counts)
  BY <1>4
<1>6. \A t \in failing : Cardinality(Explained(t)) =< Cardinality(Explained(top))
  BY <1>4, <1>5
<1> HIDE DEF Counts
<1>7. ASSUME NEW u \in NeededBy(top) \intersect failing PROVE FALSE
  <2>1. Cardinality(Explained(top)) < Cardinality(Explained(u))
    BY HigherExplainsMore
  <2>2. Cardinality(Explained(top)) \in Nat /\ Cardinality(Explained(u)) \in Nat
    BY <1>1, <1>2
  <2> QED BY <1>6, <2>1, <2>2
<1> QED BY <1>6, <1>7

\* The candidates are failing targets without a failing ancestor, and there is
\* one that explains most.
LEMMA RootIsCandidate ==
    ASSUME Solvable
    PROVE  /\ Root \in failing
           /\ \A t \in failing : Cardinality(Explained(t)) =< Cardinality(Explained(Root))
<1>1. GraphTypeOK /\ failing \subseteq Target /\ Target \subseteq Nat
  BY GraphAssumption DEF Solvable, GraphTypeOK
<1>2. PICK top \in failing :
         /\ NeededBy(top) \intersect failing = {}
         /\ \A t \in failing : Cardinality(Explained(t)) =< Cardinality(Explained(top))
  BY SomeExplainsMost
<1>3. Ancestors(top) \intersect failing = {}
  BY <1>1, <1>2, AncestorsAreNeeded
<1>4. top \in CauseCandidates /\ CauseCandidates \subseteq failing
  BY <1>2, <1>3 DEF CauseCandidates
<1> DEFINE Counts == {Cardinality(FailingDescendants(t)) : t \in CauseCandidates}
           Best == {t \in CauseCandidates : Cardinality(FailingDescendants(t)) = Max(Counts)}
<1>5. \A t \in failing : FailingDescendants(t) = Explained(t)
  BY <1>1, DescendantsAreExplained
<1>6. \A t \in failing : Cardinality(Explained(t)) \in 0..Cardinality(failing) /\ Cardinality(failing) \in Nat
  BY <1>1, ExplainedIsCounted
<1>7. Counts \in SUBSET (0..Cardinality(failing)) /\ Counts # {} /\ Cardinality(failing) \in Nat
  BY <1>4, <1>5, <1>6
<1>8. Max(Counts) \in Counts /\ \A n \in Counts : n =< Max(Counts)
  BY <1>7, GreatestExists
<1>9. Cardinality(FailingDescendants(top)) \in Counts
  BY <1>4
<1>10. Best \in SUBSET Nat /\ Best # {}
  BY <1>1, <1>4, <1>8
<1>11. Root = Min(Best)
  BY DEF Root
<1>12. PICK least \in Best : \A t \in Best : least =< t
  BY <1>10, LeastExists
<1>13. Min(Best) \in Best
  BY <1>12 DEF Min
<1>14. Root \in CauseCandidates /\ Cardinality(FailingDescendants(Root)) = Max(Counts)
  BY <1>11, <1>13
<1> HIDE DEF Counts, Best
<1>15. Root \in failing /\ Cardinality(Explained(top)) =< Cardinality(Explained(Root))
  BY <1>4, <1>5, <1>8, <1>9, <1>14
<1>16. ASSUME NEW t \in failing PROVE Cardinality(Explained(t)) =< Cardinality(Explained(Root))
  <2>1. /\ Cardinality(Explained(t)) \in Nat /\ Cardinality(Explained(top)) \in Nat
        /\ Cardinality(Explained(Root)) \in Nat
    BY <1>6, <1>15
  <2> QED BY <1>2, <1>15, <2>1
<1> QED BY <1>15, <1>16

LEMMA RootIsFound ==
    ASSUME GraphTypeOK
    PROVE  RootExplainsMost
<1> SUFFICES ASSUME failing # {}, \A t \in Target : t \notin NeededBy(t)
             PROVE  /\ Root \in failing /\ NeededBy(Root) \intersect failing = {}
                    /\ FailingDescendants(Root) = Explained(Root)
                    /\ \A t \in failing : Cardinality(Explained(t)) =< Cardinality(Explained(Root))
  BY DEF RootExplainsMost, Explained
<1>1. Solvable
  BY DEF Solvable
<1>2. /\ Root \in failing
      /\ \A t \in failing : Cardinality(Explained(t)) =< Cardinality(Explained(Root))
  BY <1>1, RootIsCandidate
<1>3. Root \in Target
  BY <1>2 DEF GraphTypeOK
<1>4. ASSUME NEW u \in NeededBy(Root) \intersect failing PROVE FALSE
  <2>1. Cardinality(Explained(Root)) < Cardinality(Explained(u))
    BY <1>1, <1>2, HigherExplainsMore
  <2>2. Cardinality(Explained(Root)) \in Nat /\ Cardinality(Explained(u)) \in Nat
    BY <1>3, ExplainedIsCounted DEF GraphTypeOK
  <2> QED BY <1>2, <2>1, <2>2
<1> QED BY <1>2, <1>3, <1>4, DescendantsAreExplained

LEMMA GraphStepOK == GraphTypeOK /\ [GraphNext]_graphVars => GraphTypeOK'
<1> SUFFICES ASSUME GraphTypeOK, [GraphNext]_graphVars PROVE GraphTypeOK'
  OBVIOUS
<1>1. ASSUME NEW t \in Target, AddNode(t) PROVE GraphTypeOK'
  <2>1. PICK parents \in SUBSET Target : dependsOn' = [dependsOn EXCEPT ![t] = parents]
    BY <1>1 DEF AddNode
  <2>2. registered' = registered \union {t} /\ failing' = failing
    BY <1>1 DEF AddNode
  <2>3. \A u \in Target : u # t => dependsOn'[u] = dependsOn[u]
    BY <2>1 DEF GraphTypeOK
  <2> QED BY <2>1, <2>2, <2>3 DEF GraphTypeOK
<1>2. ASSUME NEW t \in Target, TargetChanges(t) PROVE GraphTypeOK'
  BY <1>2 DEF TargetChanges, GraphTypeOK
<1>3. CASE UNCHANGED graphVars
  BY <1>3 DEF graphVars, GraphTypeOK
<1> QED BY <1>1, <1>2, <1>3 DEF GraphNext

\* In every graph without cycles, in whatever order its nodes were added and
\* replaced, resolve_root_cause names a failing target that needs no failing
\* one, suppresses those that need it, and leaves as few as it can.
THEOREM RootsExplainMost == GraphSpec => []RootExplainsMost
<1>1. GraphInit => GraphTypeOK
  BY DEF GraphInit, GraphTypeOK
<1> QED BY <1>1, GraphStepOK, RootIsFound, PTL DEF GraphSpec

-----------------------------------------------------------------------------
(***************************************************************************)
(* Types.  One event is made per reload, one inode per start of the        *)
(* script, and what is kept of failed logins is less than what locks.      *)
(***************************************************************************)

\* Targets, what they depend on and what fails keep their types.
THEOREM GraphTypesHold == GraphSpec => []GraphTypeOK
<1>1. GraphInit => GraphTypeOK
  BY DEF GraphInit, GraphTypeOK
<1> QED BY <1>1, GraphStepOK, PTL DEF GraphSpec

\* Clock, samples and rows keep their types: no row is an average of nothing.
THEOREM RollupTypesHold == RollupSpec => []RollupTypeOK
<1>0. {Width, Cycle, Back, Retention, LastSecond} \subseteq Nat /\ Back + Width =< LastSecond
  BY RollupAssumption
<1>1. RollupInit => RollupTypeOK
  BY <1>0 DEF RollupInit, RollupTypeOK
<1>2. RollupInv /\ RollupInv' /\ RollupTypeOK /\ [RollupNext]_rollupVars => RollupTypeOK'
  <2> SUFFICES ASSUME RollupInv, RollupInv', RollupTypeOK, [RollupNext]_rollupVars PROVE RollupTypeOK'
    OBVIOUS
  <2>1. RollupTypes /\ RollupTypes'
    BY DEF RollupInv
  <2>2. second' \in Back..LastSecond
    BY <1>0, <2>1 DEF RollupTypes
  <2>3. sample' \subseteq Back..LastSecond /\ sample \subseteq sample'
    <3>1. CASE CollectorCycle
      BY <2>2, <3>1 DEF CollectorCycle, RollupTypeOK
    <3>2. CASE ~CollectorCycle
      BY <3>2 DEF RollupNext, RollupByCollector, CatchUp, Rollup, PruneRollups, rollupVars, RollupTypeOK
    <3> QED BY <3>1, <3>2
  <2>4. ASSUME NEW r \in rolled' PROVE r.ts \in 0..LastSecond /\ r.of \subseteq sample' /\ r.of # {}
    <3>1. r.ts \in 0..LastSecond
      BY <1>0, <2>1, <2>4 DEF RollupTypes
    <3>2. CASE r \in rolled
      BY <2>3, <3>1, <3>2 DEF RollupTypeOK
    <3>3. CASE r \notin rolled
      <4>1. Rollup
        BY <2>4, <3>3 DEF RollupNext, CollectorCycle, RollupByCollector, CatchUp, PruneRollups, rollupVars
      <4>2. PICK ts \in Undone : Within(ts) # {} /\ r = [ts |-> ts, of |-> Within(ts)]
        BY <2>4, <3>3, <4>1 DEF Rollup
      <4> QED BY <2>3, <3>1, <4>2 DEF Within
    <3> QED BY <3>2, <3>3
  <2> QED BY <2>2, <2>3, <2>4 DEF RollupTypeOK
<1> QED BY <1>1, <1>2, RollupInitOK, RollupStepOK, PTL DEF RollupSpec

\* A reload makes one event: the number of the events is that of the loads.
EventPerLoad ==
    event = IF reload \in {"clear", "discover"} THEN load + 1 ELSE load

\* Plugin objects, threads and events keep their types: a thread waits on an
\* event that was made.
THEOREM PluginTypesHold == PluginSpec => []PluginTypeOK
<1>0. Reloads \in Nat /\ Load = 1..Reloads + 1
  BY PluginAssumption DEF Load
<1>1. PluginInit => PluginTypeOK /\ EventPerLoad
  BY <1>0 DEF PluginInit, PluginTypeOK, EventPerLoad, Object
<1>2. PluginInv /\ PluginInv' /\ PluginTypeOK /\ EventPerLoad /\ [PluginNext]_pluginVars
      => PluginTypeOK' /\ EventPerLoad'
  <2> SUFFICES ASSUME PluginInv, PluginInv', PluginTypeOK, EventPerLoad, [PluginNext]_pluginVars
               PROVE  PluginTypeOK' /\ EventPerLoad'
    OBVIOUS
  <2>1. PluginTypes /\ PluginTypes' /\ ReloadIsBounded /\ ReloadIsBounded'
    BY DEF PluginInv
  <2>2. EventPerLoad'
    BY <1>0, <2>1 DEF EventPerLoad, PluginTypes, PluginNext, CollectEnds, WaitEnds, EnablePlugin, DisablePlugin,
       ReloadBegins, SetEvent, ReplaceEvent, ForgetThreads, Discover, StartThreads, pluginVars
  <2>3. event' \in Load
    <3>1. load' \in 1..Reloads + 1 /\ (reload' \in {"clear", "discover"} => load' =< Reloads)
      BY <1>0, <2>1 DEF PluginTypes, ReloadIsBounded
    <3>2. event' = load' \/ (reload' \in {"clear", "discover"} /\ event' = load' + 1)
      BY <2>2 DEF EventPerLoad
    <3> QED BY <1>0, <3>1, <3>2
  <2>4. isSet' \subseteq Load
    BY DEF PluginTypeOK, PluginNext, CollectEnds, WaitEnds, EnablePlugin, DisablePlugin,
       ReloadBegins, SetEvent, ReplaceEvent, ForgetThreads, Discover, StartThreads, pluginVars
  <2>5. collector' \in [Object -> [at : {"none", "collect", "wait", "ended"}, on : Load]]
    <3>1. collector \in [Object -> [at : {"none", "collect", "wait", "ended"}, on : Load]] /\ event \in Load
      BY DEF PluginTypeOK
    <3>2. ASSUME NEW o \in Object, CollectEnds(o)
          PROVE  collector' \in [Object -> [at : {"none", "collect", "wait", "ended"}, on : Load]]
      BY <3>1, <3>2 DEF CollectEnds
    <3>3. ASSUME NEW o \in Object, WaitEnds(o)
          PROVE  collector' \in [Object -> [at : {"none", "collect", "wait", "ended"}, on : Load]]
      <4>1. PICK c \in [at : {"none", "collect", "wait", "ended"}, on : Load] :
                 collector' = [collector EXCEPT ![o] = c]
        BY <3>1, <3>3 DEF WaitEnds
      <4> QED BY <3>1, <4>1
    <3>4. CASE StartThreads
      BY <3>1, <3>4 DEF StartThreads
    <3>5. \/ \E o \in Object : CollectEnds(o) \/ WaitEnds(o)
          \/ StartThreads \/ UNCHANGED collector
      BY DEF PluginNext, EnablePlugin, DisablePlugin, ReloadBegins, SetEvent, ReplaceEvent, ForgetThreads,
         Discover, pluginVars
    <3> QED BY <3>1, <3>2, <3>3, <3>4, <3>5
  <2>6. disabled' \subseteq Plugin
    BY DEF PluginTypeOK, PluginNext, CollectEnds, WaitEnds, EnablePlugin, DisablePlugin,
       ReloadBegins, SetEvent, ReplaceEvent, ForgetThreads, Discover, StartThreads, pluginVars
  <2>7. enabled' \subseteq Object
    <3>1. enabled \subseteq Object /\ load \in Load
      BY DEF PluginTypeOK
    <3>2. CASE Discover
      BY <2>1, <3>1, <3>2 DEF Discover, Object, PluginTypes
    <3>3. ASSUME NEW p \in Plugin, EnablePlugin(p) PROVE enabled' \subseteq Object
      BY <3>1, <3>3 DEF EnablePlugin, Object
    <3>4. Discover \/ (\E p \in Plugin : EnablePlugin(p)) \/ enabled' \subseteq enabled
      BY DEF PluginNext, CollectEnds, WaitEnds, DisablePlugin,
         ReloadBegins, SetEvent, ReplaceEvent, ForgetThreads, StartThreads, pluginVars
    <3> QED BY <3>1, <3>2, <3>3, <3>4
  <2>8. tracked' \subseteq Object
    <3>1. tracked \subseteq Object /\ load \in Load
      BY DEF PluginTypeOK
    <3>2. CASE StartThreads
      BY <3>1, <3>2 DEF StartThreads, Object, WithoutThread
    <3>3. StartThreads \/ tracked' \subseteq tracked
      BY DEF PluginNext, CollectEnds, WaitEnds, EnablePlugin, DisablePlugin,
         ReloadBegins, SetEvent, ReplaceEvent, ForgetThreads, Discover, pluginVars
    <3> QED BY <3>1, <3>2, <3>3
  <2> QED BY <2>1, <2>2, <2>3, <2>4, <2>5, <2>6, <2>7, <2>8 DEF PluginTypes, PluginTypeOK
<1> QED BY <1>1, <1>2, PluginInitOK, PluginStep, PTL DEF PluginSpec

\* What the threads that look a token up, and the failures, hold.
LEMMA LookTypes ==
    ASSUME SessionTypeOK, NEW r \in Request, NEW t \in Token
    PROVE  LET Looks == [at : {"rest", "hash", "row", "store", "refused"}, token : Token, failed : BOOLEAN]
           IN  /\ NoRequest \in Looks /\ [NoRequest EXCEPT !.at = "hash", !.token = t] \in Looks
               /\ \A at \in {"row", "store", "refused"} : [looks[r] EXCEPT !.at = at] \in Looks
               /\ [looks[r] EXCEPT !.at = "refused", !.failed = TRUE] \in Looks
<1> DEFINE Looks == [at : {"rest", "hash", "row", "store", "refused"}, token : Token, failed : BOOLEAN]
<1>1. NoRequest \in Looks
  <2>1. (CHOOSE u \in Token : TRUE) \in Token
    OBVIOUS
  <2> QED BY <2>1 DEF NoRequest
<1>2. looks[r] \in Looks
  BY DEF SessionTypeOK
<1> QED BY <1>1, <1>2

\* The step of a thread that looks a token up.
LEMMA LooksKeepType ==
    ASSUME SessionTypeOK, [SessionNext \/ LoginNext]_<<sessionVars, loginVars>>
    PROVE  looks' \in [Request -> [at : {"rest", "hash", "row", "store", "refused"},
                                   token : Token, failed : BOOLEAN]]
<1> DEFINE Looks == [at : {"rest", "hash", "row", "store", "refused"}, token : Token, failed : BOOLEAN]
<1>0. looks \in [Request -> Looks]
  BY DEF SessionTypeOK
<1>1. ASSUME NEW r \in Request, NEW l \in Looks, looks' = [looks EXCEPT ![r] = l] PROVE looks' \in [Request -> Looks]
  BY <1>0, <1>1
<1>2. ASSUME NEW r \in Request, NEW t \in Token, LookUpToken(r, t) PROVE looks' \in [Request -> Looks]
  <2>1. NoRequest \in Looks /\ [NoRequest EXCEPT !.at = "hash", !.token = t] \in Looks
    BY LookTypes
  <2> DEFINE l == IF t \in tokens' THEN NoRequest ELSE [NoRequest EXCEPT !.at = "hash", !.token = t]
  <2>2. l \in Looks
    BY <2>1
  <2>3. looks' = [looks EXCEPT ![r] = l]
    BY <1>2 DEF LookUpToken
  <2> HIDE DEF l
  <2> QED BY <1>1, <2>2, <2>3
<1>3. ASSUME NEW r \in Request, LookUpHash(r) PROVE looks' \in [Request -> Looks]
  <2>1. looks[r].token \in Token /\ looks[r] \in Looks
    BY <1>0
  <2>2. NoRequest \in Looks /\ [looks[r] EXCEPT !.at = "row"] \in Looks
    BY <2>1, LookTypes
  <2>3. looks' = [looks EXCEPT ![r] = NoRequest] \/ looks' = [looks EXCEPT ![r] = [looks[r] EXCEPT !.at = "row"]]
    BY <1>0, <1>3 DEF LookUpHash
  <2> QED BY <1>1, <2>2, <2>3
<1>4. ASSUME NEW r \in Request, LookUpRow(r) PROVE looks' \in [Request -> Looks]
  <2>1. looks[r].token \in Token /\ looks[r] \in Looks
    BY <1>0
  <2>2. /\ [looks[r] EXCEPT !.at = "store"] \in Looks /\ [looks[r] EXCEPT !.at = "refused"] \in Looks
        /\ [looks[r] EXCEPT !.at = "refused", !.failed = TRUE] \in Looks
    BY <2>1, LookTypes
  <2>3. \/ looks' = [looks EXCEPT ![r] = [looks[r] EXCEPT !.at = "store"]]
        \/ looks' = [looks EXCEPT ![r] = [looks[r] EXCEPT !.at = "refused"]]
        \/ looks' = [looks EXCEPT ![r] = [looks[r] EXCEPT !.at = "refused", !.failed = TRUE]]
    BY <1>0, <1>4 DEF LookUpRow
  <2> QED BY <1>1, <2>2, <2>3
<1>5. ASSUME NEW r \in Request, StoreToken(r) \/ Refuse(r) PROVE looks' \in [Request -> Looks]
  <2>1. looks[r].token \in Token
    BY <1>0
  <2>2. NoRequest \in Looks
    BY <2>1, LookTypes
  <2> QED BY <1>1, <1>5, <2>2 DEF StoreToken, Refuse
<1>6. CASE SessionRestart
  <2>1. \A r \in Request : NoRequest \in Looks
    <3> SUFFICES ASSUME NEW r \in Request PROVE NoRequest \in Looks
      OBVIOUS
    <3>1. looks[r].token \in Token
      BY <1>0
    <3> QED BY <3>1, LookTypes
  <2> QED BY <1>6, <2>1 DEF SessionRestart
<1>7. \/ \E r \in Request, t \in Token : LookUpToken(r, t)
      \/ \E r \in Request : LookUpHash(r) \/ LookUpRow(r) \/ StoreToken(r) \/ Refuse(r)
      \/ SessionRestart \/ UNCHANGED looks
  BY DEF SessionNext, LoginNext, HourGoes, CleanUp, Generate, Revoke, DeleteRow, AskLocked, RecordFailure,
     Succeed, CleanUpLogins, sessionVars
<1> QED BY <1>0, <1>2, <1>3, <1>4, <1>5, <1>6, <1>7

\* Failures are numbered and have a time; fewer than MaxAttempts are kept.
LoginTypes ==
    /\ attempts \subseteq Nat \X (0..SessionClock) /\ failures \subseteq Nat \X (0..SessionClock)
    /\ Cardinality(attempts) < MaxAttempts /\ lockedTo \in 0..SessionClock + Lockout
    /\ due \in 0..SessionClock + Lockout

LEMMA LoginsKeepType ==
    ASSUME LoginInv, now \in 0..SessionClock, LoginTypes, [SessionNext \/ LoginNext]_<<sessionVars, loginVars>>
    PROVE  LoginTypes'
<1>0. {SessionClock, Lockout, MaxAttempts, LoginWindow} \subseteq Nat /\ MaxAttempts > 0
  BY SessionAssumption
<1>1. CASE UNCHANGED loginVars
  BY <1>1 DEF loginVars, LoginTypes
<1>2. CASE AskLocked
  BY <1>0, <1>2 DEF AskLocked, LoginTypes
<1>3. CASE RecordFailure
  <2>1. FailureNow \in Nat \X (0..SessionClock)
    <3>1. Cardinality(failures) \in Nat
      BY FS_CardinalityType DEF LoginInv
    <3> QED BY <3>1 DEF FailureNow
  <2>2. now + Lockout \in 0..SessionClock + Lockout
    BY <1>0
  <2>3. InWindow(attempts) \union {FailureNow} \subseteq Nat \X (0..SessionClock)
    BY <2>1 DEF InWindow, LoginTypes
  <2>4. failures' \subseteq Nat \X (0..SessionClock) /\ due' \in 0..SessionClock + Lockout
    BY <1>3, <2>1, <2>2 DEF RecordFailure, Count, LoginTypes
  <2>5. attempts' \subseteq Nat \X (0..SessionClock) /\ lockedTo' \in 0..SessionClock + Lockout
    BY <1>3, <2>2, <2>3 DEF RecordFailure, LoginTypes
  <2>6. Cardinality(attempts') < MaxAttempts
    BY <1>0, <1>3, FS_EmptySet DEF RecordFailure
  <2> QED BY <2>4, <2>5, <2>6 DEF LoginTypes
<1>4. CASE Succeed
  BY <1>0, <1>4, FS_EmptySet DEF Succeed, LoginTypes
<1>5. CASE CleanUpLogins
  <2>1. IsFiniteSet(attempts) /\ IsFiniteSet(InWindow(attempts))
        /\ Cardinality(InWindow(attempts)) =< Cardinality(attempts)
    <3>1. IsFiniteSet(attempts)
      BY FS_Subset DEF LoginInv, DroppedAreOld
    <3>2. InWindow(attempts) \subseteq attempts
      BY DEF InWindow
    <3> QED BY <3>1, <3>2, FS_Subset
  <2>2. Cardinality(attempts) \in Nat /\ Cardinality(InWindow(attempts)) \in Nat
    BY <2>1, FS_CardinalityType
  <2>3. Cardinality(attempts') < MaxAttempts
    BY <1>0, <1>5, <2>1, <2>2 DEF CleanUpLogins, KeptFailures, LoginTypes
  <2> QED BY <1>0, <1>5, <2>3 DEF CleanUpLogins, KeptFailures, LoginTypes, InWindow
<1>6. UNCHANGED loginVars \/ AskLocked \/ RecordFailure \/ Succeed \/ CleanUpLogins
  BY DEF SessionNext, LoginNext, HourGoes, CleanUp, Generate, Revoke, DeleteRow, LookUpToken, LookUpHash,
     LookUpRow, StoreToken, Refuse, SessionRestart
<1> QED BY <1>1, <1>2, <1>3, <1>4, <1>5, <1>6

\* Dictionaries, rows, looks and failed logins keep their types; the failures
\* kept of an address are fewer than lock it.
THEOREM SessionTypesHold == SessionSpec => []SessionTypeOK
<1>0. {SessionFaults, SessionClock, TokenLife, Lockout, MaxAttempts} \subseteq Nat /\ MaxAttempts > 0
  BY SessionAssumption
<1>1. SessionInit => SessionTypeOK /\ LoginInv
  <2> SUFFICES ASSUME SessionInit PROVE SessionTypeOK /\ LoginInv
    OBVIOUS
  <2>1. LoginInv
    BY FS_EmptySet DEF SessionInit, LoginInv, DroppedAreOld, LockoutIsDeserved
  <2>2. NoRequest \in [at : {"rest", "hash", "row", "store", "refused"}, token : Token, failed : BOOLEAN]
    <3>1. (CHOOSE u \in Token : TRUE) \in Token
      BY SessionAssumption
    <3> QED BY <3>1 DEF NoRequest
  <2> QED BY <1>0, <2>1, <2>2, FS_EmptySet DEF SessionInit, SessionTypeOK
<1>2. LoginInv /\ SessionTypeOK /\ [SessionNext \/ LoginNext]_<<sessionVars, loginVars>> => SessionTypeOK'
  <2> SUFFICES ASSUME LoginInv, SessionTypeOK, [SessionNext \/ LoginNext]_<<sessionVars, loginVars>>
               PROVE  SessionTypeOK'
    OBVIOUS
  <2>1. now' \in 0..SessionClock
    <3>1. HourGoes \/ UNCHANGED now
      BY DEF SessionNext, LoginNext, CleanUp, Generate, Revoke, DeleteRow, LookUpToken, LookUpHash,
         LookUpRow, StoreToken, Refuse, SessionRestart, AskLocked, RecordFailure, Succeed, CleanUpLogins, sessionVars
    <3>2. now \in 0..SessionClock
      BY DEF SessionTypeOK
    <3> QED BY <1>0, <3>1, <3>2 DEF HourGoes
  <2>2. faults' \in 0..SessionFaults
    <3>1. CallFails \/ UNCHANGED faults
      BY DEF SessionNext, LoginNext, HourGoes, CleanUp, Generate, Revoke, DeleteRow, LookUpToken, LookUpHash,
         LookUpRow, StoreToken, Refuse, SessionRestart, AskLocked, RecordFailure, Succeed, CleanUpLogins, sessionVars
    <3>2. faults \in 0..SessionFaults
      BY DEF SessionTypeOK
    <3> QED BY <1>0, <3>1, <3>2 DEF CallFails
  <2>3. {tokens', byHash', rows', leaving', gone'} \subseteq SUBSET Token
    <3>1. tokens \subseteq Token /\ byHash \subseteq Token /\ rows \subseteq Token /\ leaving \subseteq Token
          /\ gone \subseteq Token /\ \A r \in Request : looks[r].token \in Token
      BY DEF SessionTypeOK
    <3>2. rows' \subseteq Token /\ leaving' \subseteq Token /\ gone' \subseteq Token
      BY <3>1 DEF SessionNext, LoginNext, HourGoes, CleanUp, Generate, Revoke, DeleteRow, LookUpToken, LookUpHash,
         LookUpRow, StoreToken, Refuse, SessionRestart, AskLocked, RecordFailure, Succeed, CleanUpLogins, sessionVars
    <3>3. byHash' \subseteq Token
      BY <3>1 DEF SessionNext, LoginNext, HourGoes, CleanUp, Generate, Revoke, DeleteRow, LookUpToken, LookUpHash,
         LookUpRow, StoreToken, Refuse, SessionRestart, AskLocked, RecordFailure, Succeed, CleanUpLogins, sessionVars
    <3>4. tokens' \subseteq Token
      BY <3>1 DEF SessionNext, LoginNext, HourGoes, CleanUp, Generate, Revoke, DeleteRow, LookUpToken, LookUpHash,
         LookUpRow, StoreToken, Refuse, SessionRestart, AskLocked, RecordFailure, Succeed, CleanUpLogins, sessionVars
    <3> QED BY <3>2, <3>3, <3>4
  <2>4. expires' \in [Token -> 0..SessionClock + TokenLife]
    <3>1. expires \in [Token -> 0..SessionClock + TokenLife] /\ now + TokenLife \in 0..SessionClock + TokenLife
      BY <1>0 DEF SessionTypeOK
    <3>2. UNCHANGED expires \/ \E t \in Token : expires' = [expires EXCEPT ![t] = now + TokenLife]
      BY DEF SessionNext, LoginNext, HourGoes, CleanUp, Generate, Revoke, DeleteRow, LookUpToken, LookUpHash,
         LookUpRow, StoreToken, Refuse, SessionRestart, AskLocked, RecordFailure, Succeed, CleanUpLogins, sessionVars
    <3> QED BY <3>1, <3>2
  <2>5. LoginTypes'
    <3>1. LoginTypes /\ now \in 0..SessionClock
      BY DEF SessionTypeOK, LoginTypes
    <3> QED BY <3>1, LoginsKeepType
  <2> QED BY <2>1, <2>2, <2>3, <2>4, <2>5, LooksKeepType DEF LoginTypes, SessionTypeOK
<1> QED BY <1>1, <1>2, LoginStep, PTL DEF SessionSpec

\* A process of the script, with the inodes that were made so far.
Script(i) ==
    [at : Working \union {"ended", "open", "lock", "dry", "trap", "rm"}, fd : 0..i, holds : BOOLEAN,
     of : 0..LastStamp, left : 0..Sources, failed : 0..Sources + 1, prunes : SUBSET (1..LastStamp),
     ok : BOOLEAN, twice : BOOLEAN]

\* A source that failed was one to copy; only a verification adds to them.
CountsFailures(s) ==
    /\ s.at \in {"open", "lock", "space"} => s.failed = 0
    /\ s.at = "sync" => s.failed + s.left =< Sources

Opening == {p \in Process : script[p].at = "open"}

\* An inode is made by a process that has started, and by each at most once.
OpensOnce == IsFiniteSet(Opening) /\ inode + Cardinality(Opening) =< starts

BackupTyped ==
    /\ starts \in 0..Starts /\ inode \in 0..Starts /\ lockFile \in 0..inode
    /\ script \in [Process -> Script(inode)] /\ \A p \in Process : CountsFailures(script[p])
    /\ OpensOnce

LEMMA ScriptsAreKept ==
    ASSUME NEW i \in Nat, NEW j \in Nat, i =< j
    PROVE  Script(i) \subseteq Script(j)
<1>1. 0..i \subseteq 0..j
  OBVIOUS
<1> QED BY <1>1 DEF Script

LEMMA NewScripts ==
    ASSUME NEW i \in Nat, NEW s \in Script(i), NEW ok \in BOOLEAN, NEW signal \in BOOLEAN
    PROVE  /\ Ended \in Script(i) /\ CountsFailures(Ended)
           /\ Trapped(s, ok, signal) \in Script(i) /\ CountsFailures(Trapped(s, ok, signal))
           /\ Trapped(s, ok, signal).at = "trap"
<1>0. Sources \in Nat /\ LastStamp \in Nat
  BY BackupAssumption
<1>1. Ended \in Script(i) /\ CountsFailures(Ended)
  BY <1>0 DEF Ended, Script, CountsFailures
<1>2. PICK good \in BOOLEAN : good = (ok \/ s.of = 0)
  OBVIOUS
<1>3. Trapped(s, ok, signal) = [Ended EXCEPT !.at = "trap", !.fd = s.fd, !.holds = s.holds, !.of = s.of,
                                             !.ok = good, !.twice = signal]
  BY <1>2, Zenon DEF Trapped
<1>4. Trapped(s, ok, signal) = [at |-> "trap", fd |-> s.fd, holds |-> s.holds, of |-> s.of, left |-> 0, failed |-> 0,
                                prunes |-> {}, ok |-> good, twice |-> signal]
  BY <1>3 DEF Ended
<1>5. s.fd \in 0..i /\ s.holds \in BOOLEAN /\ s.of \in 0..LastStamp
  BY DEF Script
<1> QED BY <1>0, <1>1, <1>4, <1>5 DEF Script, CountsFailures

\* A step of a process that makes no inode and is not about to open the lock after it.
LEMMA ScriptSteps ==
    ASSUME BackupTyped, NEW p \in Process, NEW s \in Script(inode), CountsFailures(s), s.at # "open",
           Does(p, s), UNCHANGED <<starts, inode>>, lockFile' \in {0, lockFile}
    PROVE  BackupTyped'
<1>0. Starts \in Nat /\ inode \in Nat /\ starts \in Nat
  BY BackupAssumption DEF BackupTyped
<1>1. script' = [script EXCEPT ![p] = s] /\ script \in [Process -> Script(inode)]
  BY DEF Does, BackupTyped
<1>2. script' \in [Process -> Script(inode)] /\ \A q \in Process : CountsFailures(script'[q])
  BY <1>1 DEF BackupTyped
<1>3. Opening' \subseteq Opening
  BY <1>1 DEF Opening
<1>4. IsFiniteSet(Opening') /\ Cardinality(Opening') =< Cardinality(Opening)
  BY <1>3, FS_Subset DEF BackupTyped, OpensOnce
<1>5. Cardinality(Opening') \in Nat /\ Cardinality(Opening) \in Nat
  BY <1>4, FS_CardinalityType DEF BackupTyped, OpensOnce
<1>6. OpensOnce'
  BY <1>0, <1>4, <1>5 DEF BackupTyped, OpensOnce
<1> QED BY <1>0, <1>2, <1>6 DEF BackupTyped

LEMMA StartKeepsType == ASSUME BackupTyped, NEW p \in Process, stamp \in 1..LastStamp, StartScript(p) PROVE BackupTyped'
<1>0. Starts \in Nat /\ inode \in Nat /\ starts \in Nat /\ LastStamp \in Nat /\ Sources \in Nat
  BY BackupAssumption DEF BackupTyped
<1>1. starts' = starts + 1 /\ starts < Starts /\ UNCHANGED <<inode, lockFile>> /\ script[p].at = "ended"
  BY DEF StartScript
<1>2. PICK s \in Script(inode) : CountsFailures(s) /\ Does(p, s)
  <2>0. Ended \in Script(inode) /\ Ended.failed = 0
    BY <1>0 DEF Ended, Script
  <2>1. [Ended EXCEPT !.at = "open"] \in Script(inode) /\ CountsFailures([Ended EXCEPT !.at = "open"])
    BY <1>0, <2>0 DEF Script, CountsFailures
  <2>2. \A of \in {0, stamp} : /\ [Ended EXCEPT !.at = "dry", !.of = of] \in Script(inode)
                               /\ CountsFailures([Ended EXCEPT !.at = "dry", !.of = of])
    <3>1. \A of \in {0, stamp} : of \in 0..LastStamp
      BY <1>0
    <3> QED BY <1>0, <2>0, <3>1 DEF Script, CountsFailures
  <2> QED BY <2>1, <2>2 DEF StartScript
<1>3. script' = [script EXCEPT ![p] = s] /\ script \in [Process -> Script(inode)]
  BY <1>2 DEF Does, BackupTyped
<1>4. script' \in [Process -> Script(inode)] /\ \A q \in Process : CountsFailures(script'[q])
  BY <1>2, <1>3 DEF BackupTyped
<1>5. IsFiniteSet(Opening) /\ Cardinality(Opening) \in Nat /\ p \notin Opening
  BY <1>1, FS_CardinalityType DEF BackupTyped, OpensOnce, Opening
<1>6. IsFiniteSet(Opening \union {p}) /\ Cardinality(Opening \union {p}) = Cardinality(Opening) + 1
  BY <1>5, FS_AddElement
<1>7. Opening' \subseteq Opening \union {p}
  BY <1>3 DEF Opening
<1>8. IsFiniteSet(Opening') /\ Cardinality(Opening') =< Cardinality(Opening) + 1 /\ Cardinality(Opening') \in Nat
  BY <1>6, <1>7, FS_Subset, FS_CardinalityType
<1>9. OpensOnce'
  BY <1>0, <1>1, <1>5, <1>8 DEF BackupTyped, OpensOnce
<1> QED BY <1>0, <1>1, <1>4, <1>9 DEF BackupTyped

LEMMA OpenKeepsType == ASSUME BackupTyped, NEW p \in Process, OpenLock(p) PROVE BackupTyped'
<1>0. Starts \in Nat /\ inode \in Nat /\ starts \in Nat /\ LastStamp \in Nat /\ Sources \in Nat
  BY BackupAssumption DEF BackupTyped
<1>1. script[p].at = "open" /\ UNCHANGED starts
  BY DEF OpenLock
<1>1a. script' = [script EXCEPT ![p] = [script[p] EXCEPT !.at = "lock", !.fd = lockFile']]
  BY DEF OpenLock, Does
<1>1b. UNCHANGED <<lockFile, inode>> \/ (inode' = inode + 1 /\ lockFile' = inode')
  BY DEF OpenLock
<1>2. IsFiniteSet(Opening) /\ Cardinality(Opening) \in Nat /\ p \in Opening
  BY <1>1, FS_CardinalityType DEF BackupTyped, OpensOnce, Opening
<1>3. IsFiniteSet(Opening \ {p}) /\ Cardinality(Opening \ {p}) = Cardinality(Opening) - 1
  BY <1>2, FS_RemoveElement
<1>4. inode' \in Nat /\ inode =< inode' /\ inode' =< inode + 1 /\ lockFile' \in 0..inode'
  BY <1>0, <1>1b DEF BackupTyped
<1>5. PICK s : s = [script[p] EXCEPT !.at = "lock", !.fd = lockFile'] /\ script' = [script EXCEPT ![p] = s]
  BY <1>1a
<1>6. s \in Script(inode') /\ CountsFailures(s) /\ s.at = "lock"
  <2>1. script[p] \in Script(inode) /\ CountsFailures(script[p])
    BY DEF BackupTyped
  <2> QED BY <1>1, <1>4, <1>5, <2>1 DEF Script, CountsFailures
<1>7. script \in [Process -> Script(inode')] /\ \A q \in Process : CountsFailures(script[q])
  BY <1>0, <1>4, ScriptsAreKept DEF BackupTyped
<1>8. script' \in [Process -> Script(inode')] /\ \A q \in Process : CountsFailures(script'[q])
  BY <1>5, <1>6, <1>7
<1>9. Opening' = Opening \ {p}
  BY <1>5, <1>6, <1>7 DEF Opening
<1>10. OpensOnce'
  BY <1>0, <1>1, <1>2, <1>3, <1>4, <1>9 DEF BackupTyped, OpensOnce
<1>11. inode' \in 0..Starts /\ starts' \in 0..Starts
  BY <1>0, <1>1, <1>2, <1>3, <1>4, FS_CardinalityType DEF BackupTyped, OpensOnce
<1> QED BY <1>4, <1>8, <1>10, <1>11 DEF BackupTyped

\* What a process does between opening the lock and its end.
LEMMA WorkKeepsType ==
    ASSUME BackupTyped, BackupTypes, NEW p \in Process,
           \/ DryRunEnds(p) \/ Lock(p) \/ Prepare(p) \/ Sync(p) \/ VerifyCopy(p) \/ Promote(p) \/ ListSnapshots(p)
           \/ RemoveSnapshot(p) \/ Report(p) \/ Signalled(p) \/ Unlock(p) \/ RemoveLock(p) \/ ScriptKilled(p)
    PROVE  BackupTyped'
<1>0. inode \in Nat /\ LastStamp \in Nat /\ Sources \in Nat /\ stamp \in 1..LastStamp
      /\ script[p] \in Script(inode) /\ CountsFailures(script[p])
  BY BackupAssumption DEF BackupTyped, BackupTypes
<1> DEFINE Next(s) == s \in Script(inode) /\ CountsFailures(s) /\ s.at # "open"
<1>1. Next(Ended) /\ \A ok, signal \in BOOLEAN : Next(Trapped(script[p], ok, signal))
  BY <1>0, NewScripts DEF Ended
<1>2. PICK s : Next(s) /\ Does(p, s)
  <2>0. /\ script[p].left \in 0..Sources /\ script[p].failed \in 0..Sources + 1 /\ script[p].prunes \subseteq 1..LastStamp
    BY <1>0 DEF Script
  <2>1. CASE DryRunEnds(p)
    BY <1>1, <2>1 DEF DryRunEnds, Exits
  <2>2. CASE Lock(p)
    <3>1. script[p].at = "lock" => Next([script[p] EXCEPT !.at = "space", !.holds = TRUE])
      BY <1>0 DEF Script, CountsFailures, Working
    <3> QED BY <1>1, <2>2, <3>1 DEF Lock, Exits
  <2>3. CASE Prepare(p)
    <3>1. script[p].at = "space" => Next([script[p] EXCEPT !.at = "sync", !.of = stamp, !.left = Sources])
      <4> DEFINE a == [script[p] EXCEPT !.of = stamp, !.left = Sources]
      <4>0. stamp \in 0..LastStamp /\ Sources \in 0..Sources
        BY <1>0
      <4>1. a \in Script(inode) /\ a.failed = script[p].failed /\ a.left = Sources
        BY <1>0, <4>0 DEF Script
      <4>2. [script[p] EXCEPT !.at = "sync", !.of = stamp, !.left = Sources] = [a EXCEPT !.at = "sync"]
        BY <1>0 DEF Script
      <4> HIDE DEF a
      <4>3. script[p].at = "space" => Next([a EXCEPT !.at = "sync"])
        BY <1>0, <4>1 DEF Script, CountsFailures, Working
      <4> QED BY <4>2, <4>3
    <3> QED BY <1>1, <2>3, <3>1 DEF Prepare, Exits
  <2>4. CASE Sync(p)
    <3>0. PICK fails \in BOOLEAN : Does(p, [script[p] EXCEPT !.left = @ - 1, !.failed = @ + IF fails THEN 1 ELSE 0])
      BY <2>4 DEF Sync
    <3>1. PICK n \in 0..1 : Does(p, [script[p] EXCEPT !.left = @ - 1, !.failed = @ + n])
          /\ script[p].at = "sync" /\ script[p].left > 0
      <4>1. PICK n \in 0..1 : n = IF fails THEN 1 ELSE 0
        OBVIOUS
      <4> QED BY <2>4, <3>0, <4>1 DEF Sync
    <3>2. Next([script[p] EXCEPT !.left = @ - 1, !.failed = @ + n])
      <4>1. PICK l \in 0..Sources, f \in 0..Sources : l = script[p].left - 1 /\ f = script[p].failed + n /\ f + l =< Sources
        <5>1. script[p].failed + script[p].left =< Sources
          BY <1>0, <3>1 DEF CountsFailures
        <5>2. PICK fl, lf \in Nat : fl = script[p].failed /\ lf = script[p].left /\ lf =< Sources
          BY <1>0, <2>0
        <5>3. lf > 0 /\ fl + lf =< Sources /\ lf - 1 \in 0..Sources /\ fl + n \in 0..Sources /\ fl + n + (lf - 1) =< Sources
          BY <1>0, <3>1, <5>1, <5>2
        <5> QED BY <5>2, <5>3
      <4>2. [script[p] EXCEPT !.left = @ - 1, !.failed = @ + n] = [script[p] EXCEPT !.left = l, !.failed = f]
        BY <1>0, <4>1 DEF Script
      <4>3. Next([script[p] EXCEPT !.left = l, !.failed = f])
        <5> DEFINE a == [script[p] EXCEPT !.left = l]
        <5>1. a \in Script(inode) /\ a.at = "sync" /\ a.left = l
          BY <1>0, <3>1, <4>1 DEF Script
        <5>2. [script[p] EXCEPT !.left = l, !.failed = f] = [a EXCEPT !.failed = f]
          BY <1>0 DEF Script
        <5> HIDE DEF a
        <5>3. f \in 0..Sources + 1
          BY <1>0, <4>1
        <5>4. Next([a EXCEPT !.failed = f])
          BY <4>1, <5>1, <5>3 DEF Script, CountsFailures
        <5> QED BY <5>2, <5>4
      <4> QED BY <4>2, <4>3
    <3> QED BY <3>1, <3>2
  <2>5. CASE VerifyCopy(p)
    <3>1. PICK n \in 0..1 : Does(p, [script[p] EXCEPT !.at = "promote", !.failed = @ + n])
          /\ script[p].at = "sync" /\ script[p].left = 0
      BY <2>5 DEF VerifyCopy
    <3>2. PICK f \in 0..Sources + 1 : f = script[p].failed + n
      BY <1>0, <2>0, <3>1 DEF CountsFailures
    <3>3. [script[p] EXCEPT !.at = "promote", !.failed = @ + n] = [script[p] EXCEPT !.at = "promote", !.failed = f]
      BY <1>0, <3>2 DEF Script
    <3>4. Next([script[p] EXCEPT !.at = "promote", !.failed = f])
      BY <1>0, <3>2 DEF Script, CountsFailures, Working
    <3> QED BY <3>1, <3>3, <3>4
  <2>6. CASE Promote(p)
    <3>1. Next([script[p] EXCEPT !.at = "prune", !.of = 0, !.failed = 0])
      <4> DEFINE a == [script[p] EXCEPT !.of = 0, !.failed = 0]
      <4>0. 0 \in 0..LastStamp /\ 0 \in 0..Sources + 1
        BY <1>0
      <4>1. a \in Script(inode)
        BY <1>0, <4>0 DEF Script
      <4>2. [script[p] EXCEPT !.at = "prune", !.of = 0, !.failed = 0] = [a EXCEPT !.at = "prune"]
        BY <1>0 DEF Script
      <4> HIDE DEF a
      <4>3. Next([a EXCEPT !.at = "prune"])
        BY <4>1 DEF Script, CountsFailures, Working
      <4> QED BY <4>2, <4>3
    <3>2. Next(Trapped([script[p] EXCEPT !.of = 0], FALSE, FALSE))
      <4>1. [script[p] EXCEPT !.of = 0] \in Script(inode)
        BY <1>0 DEF Script
      <4> QED BY <1>0, <4>1, NewScripts
    <3> QED BY <1>1, <2>6, <3>1, <3>2 DEF Promote, Exits
  <2>7. CASE ListSnapshots(p)
    <3>1. Pruned \subseteq 1..LastStamp
      BY DEF Pruned, BackupTypes
    <3>2. Next([script[p] EXCEPT !.at = "remove", !.prunes = Pruned])
      BY <1>0, <3>1 DEF Script, CountsFailures, Working
    <3> QED BY <2>7, <3>2 DEF ListSnapshots
  <2>8. CASE RemoveSnapshot(p)
    <3>1. PICK x : Does(p, [script[p] EXCEPT !.prunes = @ \ {x}]) /\ script[p].at = "remove"
      BY <2>8 DEF RemoveSnapshot
    <3>2. Next([script[p] EXCEPT !.prunes = @ \ {x}])
      BY <1>0, <2>0, <3>1 DEF Script, CountsFailures, Working
    <3> QED BY <3>1, <3>2
  <2>9. CASE Report(p)
    BY <1>1, <2>9 DEF Report, Exits
  <2>10. CASE Signalled(p)
    BY <1>1, <2>10 DEF Signalled
  <2>11. CASE Unlock(p)
    <3>1. Next([script[p] EXCEPT !.at = "rm", !.holds = FALSE, !.fd = 0])
      <4> DEFINE a == [script[p] EXCEPT !.holds = FALSE, !.fd = 0]
      <4>0. 0 \in 0..inode /\ FALSE \in BOOLEAN
        BY <1>0
      <4>1. a \in Script(inode)
        BY <1>0, <4>0 DEF Script
      <4>2. [script[p] EXCEPT !.at = "rm", !.holds = FALSE, !.fd = 0] = [a EXCEPT !.at = "rm"]
        BY <1>0 DEF Script
      <4> HIDE DEF a
      <4>3. Next([a EXCEPT !.at = "rm"])
        BY <4>1 DEF Script, CountsFailures
      <4> QED BY <4>2, <4>3
    <3> QED BY <2>11, <3>1 DEF Unlock
  <2>12. CASE RemoveLock(p)
    <3>1. Next([script[p] EXCEPT !.at = "trap", !.twice = FALSE])
      BY <1>0 DEF Script, CountsFailures
    <3> QED BY <1>1, <2>12, <3>1 DEF RemoveLock
  <2>13. CASE ScriptKilled(p)
    BY <1>1, <2>13 DEF ScriptKilled
  <2> QED BY <2>1, <2>2, <2>3, <2>4, <2>5, <2>6, <2>7, <2>8, <2>9, <2>10, <2>11, <2>12, <2>13
<1>3. UNCHANGED <<starts, inode>> /\ lockFile' \in {0, lockFile}
  BY DEF DryRunEnds, Lock, Prepare, Sync, VerifyCopy, Promote, ListSnapshots, RemoveSnapshot, Report, Signalled, Unlock,
     RemoveLock, ScriptKilled
<1> QED BY <1>2, <1>3, ScriptSteps

\* Clock, lock file, inodes, processes and directories keep their types: no
\* process opens more than one inode, and none counts more failures than it has sources.
THEOREM BackupTypesHold == BackupSpec => []BackupTypeOK
<1>1. BackupInit => BackupTyped
  <2> SUFFICES ASSUME BackupInit PROVE BackupTyped
    OBVIOUS
  <2>0. Starts \in Nat /\ Sources \in Nat /\ LastStamp \in Nat
    BY BackupAssumption
  <2>1. Ended \in Script(0) /\ CountsFailures(Ended)
    BY <2>0 DEF Ended, Script, CountsFailures
  <2>2. Opening = {}
    BY DEF BackupInit, Opening, Ended
  <2> QED BY <2>0, <2>1, <2>2, FS_EmptySet DEF BackupInit, BackupTyped, OpensOnce
<1>2. BackupInv /\ BackupTyped /\ [BackupNext]_backupVars => BackupTyped'
  <2> SUFFICES ASSUME BackupTypes, BackupTyped, [BackupNext]_backupVars PROVE BackupTyped'
    BY DEF BackupInv
  <2>1. CASE StampPasses \/ UNCHANGED backupVars
    BY <2>1 DEF StampPasses, backupVars, BackupTyped, OpensOnce, Opening
  <2>2. stamp \in 1..LastStamp
    BY DEF BackupTypes
  <2> QED BY <2>1, <2>2, StartKeepsType, OpenKeepsType, WorkKeepsType DEF BackupNext
<1>3. BackupInv /\ BackupTyped => BackupTypeOK
  <2> SUFFICES ASSUME BackupTypes, BackupTyped PROVE BackupTypeOK
    BY DEF BackupInv
  <2>1. {partial, snapshot, promoted} \subseteq SUBSET (1..LastStamp) /\ stamp \in 1..LastStamp
    BY DEF BackupTypes
  <2>2. \A p \in Process : script[p] \in Script(inode)
    BY DEF BackupTyped
  <2>3. \A p \in Process :
         /\ script[p].at \in Working \union {"ended", "open", "lock", "dry", "trap", "rm"}
         /\ script[p].fd \in 0..inode /\ script[p].of \in 0..LastStamp
         /\ script[p].left \in 0..Sources /\ script[p].failed \in 0..Sources + 1
         /\ script[p].prunes \subseteq 1..LastStamp
         /\ {script[p].holds, script[p].ok, script[p].twice} \subseteq BOOLEAN
    BY <2>2 DEF Script
  <2> QED BY <2>1, <2>3 DEF BackupTyped, BackupTypeOK
<1> QED BY <1>1, <1>2, <1>3, BackupInitOK, BackupStepOK, PTL DEF BackupSpec

-----------------------------------------------------------------------------
(***************************************************************************)
(* The services together.  A step of theirs is one of one of them, and     *)
(* leaves the others alone: what is proved of each holds of all.           *)
(***************************************************************************)

LEMMA ServicesStep ==
    [ServicesNext]_servicesVars =>
        /\ [TransferNext]_transferVars /\ [StreamNext]_streamVars /\ [DesktopNext]_desktopVars
        /\ [MaintenanceNext]_maintenanceVars /\ [TickNext]_tickVars /\ [CronNext]_cronVars
        /\ [FeedNext]_feedVars /\ [RollupNext]_rollupVars /\ [AgentHealNext]_agentHealVars
        /\ [EndpointNext]_endpointVars /\ [AlertNext]_alertVars /\ [BackupNext]_backupVars
        /\ [GraphNext]_graphVars /\ [PluginNext]_pluginVars
        /\ [SessionNext \/ LoginNext]_<<sessionVars, loginVars>>
<1>1. CASE ServicesNext
  BY <1>1, Zenon DEF ServicesNext
<1>2. CASE UNCHANGED servicesVars
  BY <1>2, Zenon DEF servicesVars
<1> QED BY <1>1, <1>2, Zenon

\* Every behaviour of the services together is one of each of them.
THEOREM ServicesAreTheirParts ==
    ServicesSpec =>
        /\ TransferSpec /\ StreamSpec /\ DesktopSpec /\ MaintenanceSpec /\ TickSpec /\ CronSpec
        /\ FeedSpec /\ RollupSpec /\ AgentHealSpec /\ EndpointSpec /\ AlertSpec
        /\ BackupSpec /\ GraphSpec /\ PluginSpec /\ SessionSpec
<1>1. ServicesInit =>
        /\ TransferInit /\ StreamInit /\ DesktopInit /\ MaintenanceInit /\ TickInit /\ CronInit
        /\ FeedInit /\ RollupInit /\ AgentHealInit /\ EndpointInit /\ AlertInit
        /\ BackupInit /\ GraphInit /\ PluginInit /\ SessionInit
  BY DEF ServicesInit
<1> QED BY <1>1, ServicesStep, PTL
     DEF ServicesSpec, TransferSpec, StreamSpec, DesktopSpec, MaintenanceSpec, TickSpec, CronSpec,
         FeedSpec, RollupSpec, AgentHealSpec, EndpointSpec, AlertSpec, BackupSpec, GraphSpec,
         PluginSpec, SessionSpec

\* Files, lists, rows, threads and clocks of all services keep their types.
THEOREM ServicesTypesHold == ServicesSpec => []ServicesTypeOK
<1>1. ServicesTypeOK <=>
        /\ TransferTypeOK /\ StreamTypeOK /\ DesktopTypeOK /\ MaintenanceTypeOK /\ TickTypeOK
        /\ FeedTypeOK /\ RollupTypeOK /\ AgentHealTypeOK /\ EndpointTypeOK /\ AlertsTypeOK
        /\ BackupTypeOK /\ GraphTypeOK /\ PluginTypeOK /\ SessionTypeOK
  BY DEF ServicesTypeOK
<1> QED BY <1>1, ServicesAreTheirParts, TransferTypesHold, StreamTypesHold, DesktopTypesHold,
           MaintenanceTypesHold, TickTypesHold, FeedTypesHold, RollupTypesHold, AgentHealTypesHold,
           EndpointTypesHold, AlertTypesHold, BackupTypesHold, GraphTypesHold, PluginTypesHold,
           SessionTypesHold, PTL
=============================================================================
