----------------------------- MODULE Endpoints -----------------------------
(***************************************************************************)
(* Endpoint monitors: the tick of EndpointChecker checks those that are    *)
(* due in a pool (_process_monitor), records the result and opens or       *)
(* resolves alerts; an operator may check one by hand, which records the   *)
(* result only, and disable one.  get_sla works out how long an alert was  *)
(* open from the rows of alert_history.  What the checker only writes is   *)
(* left out: the check history and the rows of cert_expiry:<name>, which   *)
(* nothing resolves.                                                       *)
(***************************************************************************)
EXTENDS Integers, FiniteSetsExt

CONSTANTS Monitor,         \* endpoint monitors
          AlertName(_),    \* of a monitor: names need not be distinct
          Interval,        \* check_interval
          SlaWindow,       \* of the SLA
          EndSecond,       \* bound: the clock
          EndpointFaults   \* bound: writes of the database that fail, checks by hand

ASSUME EndpointAssumption ==
    /\ {Interval, SlaWindow, EndSecond} \subseteq Nat \ {0} /\ EndpointFaults \in Nat

VARIABLES seconds,  \* the clock
          monitor,  \* rows: when checked last, 0 if never; whether enabled
          pool,     \* of the tick: what it knows of each monitor
          alert,    \* rows of alert_history; to is 0 when unresolved
          judged,   \* the checker's last verdict of a monitor that was up or down
          down,     \* the seconds a monitor was judged down
          strayed,  \* monitors that an alert was lost of
          upsets

endpointVars == <<seconds, monitor, pool, alert, judged, down, strayed, upsets>>

\* A check of the server itself is skipped.
Status == {"up", "degraded", "down", "skipped"}

EndpointTypeOK ==
    /\ seconds \in 1..EndSecond
    /\ monitor \in [Monitor -> [checked : 0..EndSecond, enabled : BOOLEAN]]
    /\ pool \in [Monitor -> {"idle", "check"} \union Status]
    /\ alert \subseteq [of : Monitor, from : 1..EndSecond, to : 0..EndSecond]
    /\ judged \in [Monitor -> {"up", "down"}] /\ down \in [Monitor -> SUBSET (1..EndSecond)]
    /\ strayed \subseteq Monitor /\ upsets \in 0..EndpointFaults

EndpointInit ==
    /\ seconds = 1 /\ alert = {} /\ strayed = {} /\ upsets = 0
    /\ monitor = [m \in Monitor |-> [checked |-> 0, enabled |-> TRUE]]
    /\ pool = [m \in Monitor |-> "idle"]
    /\ judged = [m \in Monitor |-> "up"] /\ down = [m \in Monitor |-> {}]

Upset == upsets < EndpointFaults /\ upsets' = upsets + 1

SecondPasses ==
    /\ seconds < EndSecond /\ seconds' = seconds + 1
    /\ down' = [m \in Monitor |-> IF judged[m] = "down" THEN down[m] \union {seconds} ELSE down[m]]
    /\ UNCHANGED <<monitor, pool, alert, judged, strayed, upsets>>

-----------------------------------------------------------------------------
(* The checker. *)

\* get_due_monitors.
DueMonitors ==
    {m \in Monitor : monitor[m].enabled
                     /\ (monitor[m].checked = 0 \/ monitor[m].checked + Interval < seconds)}

\* _tick: one at a time, it waits for the pool.
CheckerTick ==
    /\ DueMonitors # {} /\ \A m \in Monitor : pool[m] = "idle"
    /\ pool' = [m \in Monitor |-> IF m \in DueMonitors THEN "check" ELSE "idle"]
    /\ UNCHANGED <<seconds, monitor, alert, judged, down, strayed, upsets>>

Judged(m, status) ==
    /\ pool[m] = "check"
    /\ pool' = [pool EXCEPT ![m] = status]
    /\ monitor' = [monitor EXCEPT ![m].checked = seconds]
    /\ UNCHANGED <<seconds, alert, judged, down, strayed, upsets>>

\* _run_endpoint_check on the server: the result is recorded.
CheckHere(m) == \E status \in Status : Judged(m, status)

\* _dispatch_agent_endpoint_check: an agent that does not answer in time makes
\* its endpoint one that is down.
CheckByAgent(m) == \E answer \in {"up", "degraded", "down", "none"} :
    Judged(m, IF answer = "none" THEN "down" ELSE answer)

\* record_check_result fails, and says so in the log.
CheckIsNotRecorded(m, status) ==
    /\ pool[m] = "check" /\ Upset
    /\ pool' = [pool EXCEPT ![m] = status]
    /\ UNCHANGED <<seconds, monitor, alert, judged, down, strayed>>

SameName(m) == {n \in Monitor : AlertName(n) = AlertName(m)}
Unresolved(m) == {a \in alert : a.of \in SameName(m) /\ a.to = 0}

ResolveFirst(m) ==
    IF Unresolved(m) = {} THEN alert
    ELSE LET first == CHOOSE a \in Unresolved(m) : \A b \in Unresolved(m) : a.from =< b.from
         IN (alert \ {first}) \union {[first EXCEPT !.to = seconds]}

\* resolve_alert: all rows of the name that are not resolved.
Resolve(m) == (alert \ Unresolved(m)) \union {[a EXCEPT !.to = seconds] : a \in Unresolved(m)}

\* _process_monitor after the check.
AlertEndpoint(m) ==
    /\ pool[m] \in Status
    /\ pool' = [pool EXCEPT ![m] = "idle"]
    /\ CASE pool[m] = "down"     -> alert' = alert \union {[of |-> m, from |-> seconds, to |-> 0]}
         [] pool[m] = "up"       -> alert' = Resolve(m)
         [] OTHER                -> UNCHANGED alert
    /\ judged' = IF pool[m] \in {"up", "down"} THEN [judged EXCEPT ![m] = pool[m]] ELSE judged
    /\ UNCHANGED <<seconds, monitor, down, strayed, upsets>>

\* The write of insert_alert_history or resolve_alert fails, or the server
\* stops before it.
AlertIsLost(m) ==
    /\ pool[m] \in {"up", "down"} /\ Upset
    /\ pool' = [pool EXCEPT ![m] = "idle"] /\ strayed' = strayed \union {m}
    /\ UNCHANGED <<seconds, monitor, alert, judged, down>>

-----------------------------------------------------------------------------
(* routers/monitoring.py. *)

\* api_check_endpoint_now.
CheckByHand(m) ==
    /\ Upset
    /\ monitor' = [monitor EXCEPT ![m].checked = seconds]
    /\ UNCHANGED <<seconds, pool, alert, judged, down, strayed>>

\* api_update_endpoint turns a monitor off or on.
Enable(m) ==
    /\ Upset
    /\ monitor' = [monitor EXCEPT ![m].enabled = ~@]
    /\ UNCHANGED <<seconds, pool, alert, judged, down, strayed>>

EndpointNext ==
    \/ SecondPasses \/ CheckerTick
    \/ \E m \in Monitor :
          \/ CheckHere(m) \/ CheckByAgent(m) \/ \E s \in Status : CheckIsNotRecorded(m, s)
          \/ AlertEndpoint(m) \/ AlertIsLost(m) \/ CheckByHand(m) \/ Enable(m)

EndpointSpec == EndpointInit /\ [][EndpointNext]_endpointVars

-----------------------------------------------------------------------------
(* get_sla. *)

OpenForResolved(a) ==
    IF a.to = 0 THEN 0 ELSE Max({a.to - Max({a.from, seconds - SlaWindow}), 0})

\* Seconds an alert was open in the window.
OpenFor(a) ==
    LET start == Max({a.from, seconds - SlaWindow})
        end == IF a.to # 0 THEN a.to ELSE seconds
    IN Max({end - start, 0})

\* Downtime of the window: that of the rows, added up.
Downtime(m) ==
    MapThenSumSet(OpenFor, {a \in alert : a.of \in SameName(m) /\ (a.to = 0 \/ a.to >= seconds - SlaWindow)})

-----------------------------------------------------------------------------
(* Properties. *)

Alone(m) == SameName(m) = {m} /\ m \notin strayed

\* An endpoint whose name is its own and of which no alert was lost has an
\* alert open if and only if the checker's last verdict was that it is down,
\* whatever checks by hand, degraded or skipped checks and disabling came in
\* between.
AlertsFollowChecks ==
    \A m \in Monitor : Alone(m) => (Unresolved(m) # {} <=> judged[m] = "down")

\* The downtime of such an endpoint is never understated by the SLA, and it is
\* exact if no alert was inserted while another one was open.
DowntimeIsCounted ==
    \A m \in Monitor : Alone(m) =>
        LET true == Cardinality({s \in down[m] : s >= seconds - SlaWindow})
            overlap == \E a, b \in alert : a.of = m /\ b.of = m /\ a.from < b.from
                                           /\ (a.to = 0 \/ b.from < a.to)
        IN Downtime(m) >= true /\ (~overlap => Downtime(m) = true)
=============================================================================
