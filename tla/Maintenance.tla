---------------------------- MODULE Maintenance ----------------------------
(***************************************************************************)
(* Maintenance windows of a heal target: the endpoints of                  *)
(* routers/healing.py insert and end windows in the database, and          *)
(* handle_heal_event of the pipeline asks get_maintenance_action, which    *)
(* answers from a cache that _refresh_cache fills.  The endpoints go past  *)
(* the manager and never invalidate its cache.  Several threads ask at     *)
(* once; the cache is read and its time written without the lock.          *)
(***************************************************************************)
EXTENDS Naturals

CONSTANTS Asker,   \* threads that handle heal events
          Window,  \* bound: windows created
          CacheTTL,\* _CACHE_TTL
          LastTime \* bound: the clock

ASSUME MaintenanceAssumption == {CacheTTL, LastTime} \subseteq Nat \ {0}

VARIABLES time,
          window,  \* heal_maintenance_windows: made when, active, ended or expiring when
          cache,   \* _cache: the windows it holds, or none
          cacheTs, \* _cache_ts
          asker    \* per thread: where it is, since when, its answer

maintenanceVars == <<time, window, cache, cacheTs, asker>>

Time == 0..LastTime
NoWindow == [made |-> LastTime + 1, ends |-> LastTime + 1, active |-> FALSE]
Resting == [at |-> "idle", since |-> 0, answer |-> {}]

MaintenanceTypeOK ==
    /\ time \in Time /\ cacheTs \in Time
    /\ window \in [Window -> [made : 0..LastTime + 1, ends : 0..LastTime + 1,
                             active : BOOLEAN]]
    /\ cache.there \in BOOLEAN /\ cache.holds \subseteq Window
    /\ asker \in [Asker -> [at : {"idle", "query", "stamp", "answered"}, since : Time,
                            answer : SUBSET Window]]

MaintenanceInit ==
    /\ time = 1 /\ cacheTs = 0
    /\ window = [w \in Window |-> NoWindow]
    /\ cache = [there |-> FALSE, holds |-> {}]
    /\ asker = [t \in Asker |-> Resting]

TimePasses ==
    /\ time < LastTime /\ time' = time + 1
    /\ UNCHANGED <<window, cache, cacheTs, asker>>

\* insert_heal_maintenance_window: a window with its duration.
CreateWindow(w) ==
    /\ window[w] = NoWindow
    /\ \E ends \in time + 1..LastTime + 1 :
          window' = [window EXCEPT ![w] = [made |-> time, ends |-> ends,
                                                   active |-> TRUE]]
    /\ UNCHANGED <<time, cache, cacheTs, asker>>

\* end_heal_maintenance_window.
EndWindow(w) ==
    /\ window[w].active /\ time < window[w].ends
    /\ window' = [window EXCEPT ![w].ends = time, ![w].active = FALSE]
    /\ UNCHANGED <<time, cache, cacheTs, asker>>

\* get_maintenance_action: a fresh cache answers.
AskCached(t) ==
    /\ asker[t].at = "idle"
    /\ cache.there /\ time - cacheTs < CacheTTL
    /\ asker' = [asker EXCEPT ![t] = [at |-> "answered", since |-> time, answer |-> cache.holds]]
    /\ UNCHANGED <<time, window, cache, cacheTs>>

AskAnew(t) ==
    /\ asker[t].at = "idle"
    /\ ~cache.there \/ time - cacheTs >= CacheTTL
    /\ asker' = [asker EXCEPT ![t] = [at |-> "query", since |-> time, answer |-> {}]]
    /\ UNCHANGED <<time, window, cache, cacheTs>>

\* The query and the assignment are made under the database's lock, for which
\* the thread may have waited: the windows are those that are active now, and
\* had not expired when it asked.
Query(t) ==
    /\ asker[t].at = "query"
    /\ cache' = [there |-> TRUE,
                 holds |-> {w \in Window : window[w].active /\ asker[t].since < window[w].ends}]
    /\ asker' = [asker EXCEPT ![t].at = "stamp"]
    /\ UNCHANGED <<time, window, cacheTs>>

StampLate(t) ==
    /\ asker[t].at = "stamp"
    /\ cacheTs' = time
    /\ asker' = [asker EXCEPT ![t].at = "answered", ![t].answer = cache.holds]
    /\ UNCHANGED <<time, window, cache>>

\* The time at which the thread asked becomes the cache's, and what is in the
\* cache by now is the answer.
Stamp(t) ==
    /\ asker[t].at = "stamp"
    /\ cacheTs' = asker[t].since
    /\ asker' = [asker EXCEPT ![t].at = "answered", ![t].answer = cache.holds]
    /\ UNCHANGED <<time, window, cache>>

\* The event is suppressed, or goes on to the planner.
Act(t) ==
    /\ asker[t].at = "answered"
    /\ asker' = [asker EXCEPT ![t] = Resting]
    /\ UNCHANGED <<time, window, cache, cacheTs>>

MaintenanceNext ==
    \/ TimePasses
    \/ \E w \in Window : CreateWindow(w) \/ EndWindow(w)
    \/ \E t \in Asker : AskCached(t) \/ AskAnew(t) \/ Query(t) \/ Stamp(t) \/ Act(t)

MaintenanceSpec == MaintenanceInit /\ [][MaintenanceNext]_maintenanceVars

-----------------------------------------------------------------------------
(* Properties. *)

\* Events are not healed, and not suppressed, by windows of long ago: whichever
\* threads refreshed the cache meanwhile, a window that was open all the time
\* from CacheTTL before an event until its answer is in the answer, and one
\* that an operator had ended CacheTTL before is not.  (One that expired may be,
\* by as long as a thread waited for the database.)
AnswersAreRecent ==
    \A t \in Asker : asker[t].at = "answered" =>
        \A w \in Window :
            /\ window[w].made + CacheTTL =< asker[t].since /\ time < window[w].ends
                  => w \in asker[t].answer
            /\ ~window[w].active /\ window[w].ends + CacheTTL =< asker[t].since => w \notin asker[t].answer
=============================================================================
