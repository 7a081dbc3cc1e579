------------------------------- MODULE Ticks -------------------------------
(***************************************************************************)
(* The clock of the Scheduler: _loop aligns itself to the minute, ticks,   *)
(* and sleeps until the next minute; _match_cron and _match_field decide   *)
(* what a tick starts.  Time is counted in half seconds of short minutes;  *)
(* a tick takes any time, starts nothing in a maintenance window, and may  *)
(* meet an exception.                                                      *)
(***************************************************************************)
EXTENDS Naturals, FiniteSets

CONSTANTS Minute,   \* half seconds of a minute
          Minutes,  \* bound: minutes
          CronItem, \* items a cron field may have
          FieldItems, \* bound: items in a field
          Limits    \* the bounds lo and hi of a field

ASSUME TickAssumption ==
    Minute \in Nat /\ Minute > 4 /\ Minutes \in Nat \ {0} /\ FieldItems \in Nat

\* An item without a step has step 1; those of a number have no other.
ASSUME CronAssumption ==
    /\ Limits \in [lo : Nat, hi : Nat]
    /\ CronItem \subseteq [kind : {"all"}, step : Nat \ {0}]
                          \union [kind : {"range"}, from : Nat, to : Nat, step : Nat \ {0}]
                          \union [kind : {"number"}, from : Nat, step : {1}]

VARIABLES clock,  \* half seconds since some minute began
          loop,   \* the scheduler's thread: sleeping until, or in a tick since
          ticked, \* how often matching the schedules against each minute began
          quieted,\* minutes whose tick found a maintenance window
          cut,    \* minutes whose tick an exception ended
          first,  \* the first minute after the start
          slow,   \* some tick takes, or took, all but a second of a minute or more
          field   \* a cron field, as the set of its items

tickVars == <<clock, loop, ticked, quieted, cut, first, slow>>
cronVars == <<field>>

Last == Minute * Minutes
Second == 2

TickTypeOK ==
    /\ clock \in 0..Last /\ first \in 0..Minutes + 1 /\ slow \in BOOLEAN
    /\ loop \in [at : {"sleep", "tick"}, time : 0..Last + 2 * Minute]
    /\ ticked \in [0..Minutes -> 0..2] /\ {quieted, cut} \subseteq SUBSET (0..Minutes)
    /\ field \subseteq CronItem

WaitAMinute(now) == Minute

\* How long _loop sleeps: until the next minute, or all of one when less than a
\* second is left.
Wait(now) ==
    LET left == Minute - (now % Minute) IN IF left < Second THEN Minute ELSE left

TickInit ==
    /\ clock \in 0..Minute - 1
    /\ loop = [at |-> "sleep", time |-> clock + Minute - (clock % Minute)]
    /\ first = (clock \div Minute) + 1
    /\ ticked = [m \in 0..Minutes |-> 0] /\ quieted = {} /\ cut = {} /\ slow = FALSE

\* _tick reads the minute; in a maintenance window it returns, and the minute
\* is not matched.
TickBegins ==
    /\ loop = [at |-> "sleep", time |-> clock]
    /\ loop' = [at |-> "tick", time |-> clock]
    /\ \/ ticked' = [ticked EXCEPT ![clock \div Minute] = @ + 1] /\ UNCHANGED quieted
       \/ quieted' = quieted \union {clock \div Minute} /\ UNCHANGED ticked
    /\ UNCHANGED <<clock, cut, first, slow>>

Sleep == loop' = [at |-> "sleep", time |-> clock + Wait(clock)]

TickEnds ==
    /\ loop.at = "tick" /\ Sleep
    /\ UNCHANGED <<clock, ticked, quieted, cut, first, slow>>

\* The tick raises, which _loop logs: automations that were still to be
\* matched are not, in this minute or later.
TickRaises ==
    /\ loop.at = "tick" /\ Sleep
    /\ cut' = cut \union {loop.time \div Minute}
    /\ UNCHANGED <<clock, ticked, quieted, first, slow>>

ClockAdvances ==
    /\ clock < Last /\ loop # [at |-> "sleep", time |-> clock]
    /\ clock' = clock + 1
    /\ slow' = (slow \/ (loop.at = "tick" /\ clock - loop.time >= Minute - Second))
    /\ UNCHANGED <<loop, ticked, quieted, cut, first>>

TickNext == TickBegins \/ TickEnds \/ TickRaises \/ ClockAdvances

TickSpec == TickInit /\ [][TickNext]_tickVars

-----------------------------------------------------------------------------
(* Cron. An item is a number, * or a range, with a step; * is "all".       *)

MatchItemFromZero(item, val, lo, hi) ==
    CASE item.kind = "all" -> val % item.step = 0
      [] item.kind = "range" -> item.from =< val /\ val =< item.to /\ (val - item.from) % item.step = 0
      [] item.kind = "number" -> item.from = val

MatchItem(item, val, lo, hi) ==
    CASE item.kind = "all" -> (val - lo) % item.step = 0
      [] item.kind = "range" -> item.from =< val /\ val =< item.to /\ (val - item.from) % item.step = 0
      [] item.kind = "number" -> item.from = val

\* A field is read, item by item.
ReadItem(item) == item \notin field /\ Cardinality(field) < FieldItems /\ field' = field \union {item}

CronInit == field = {}

CronNext == \E item \in CronItem : ReadItem(item)

CronSpec == CronInit /\ [][CronNext]_cronVars

\* _match_field: the value satisfies one of the items.
MatchField(items, val, lo, hi) == \E item \in items : MatchItem(item, val, lo, hi)

\* What the items stand for: from the first of their values in steps to the
\* last.
Meant(item, lo, hi) ==
    LET from == IF item.kind = "all" THEN lo ELSE item.from
        to == CASE item.kind = "all" -> hi [] item.kind = "range" -> item.to [] OTHER -> item.from
    IN {from + k * item.step : k \in 0..hi} \cap from..to

-----------------------------------------------------------------------------
(* Properties. *)

\* The minutes against which every schedule was matched.
Matched == {m \in DOMAIN ticked : ticked[m] = 1} \ cut

\* No minute is matched twice, so that no job starts twice in it, however long
\* ticks take and wherever they end.  As long as each ends a second before its
\* minute would be over, no minute since the scheduler started is passed over:
\* each is matched against every schedule, or its tick found a maintenance
\* window or met an exception.
EveryMinuteOnce ==
    \A m \in 0..Minutes :
        /\ ticked[m] =< 1
        /\ ~slow /\ first =< m /\ (m + 1) * Minute =< clock => m \in Matched \union quieted \union cut

\* A field, also a list of items, matches the values its items stand for, and
\* no other within its limits.  (Left out are items of a number with a step,
\* which _match_field ignores, and the weekday 7, which _match_cron's
\* description allows and _match_field never sees.)
FieldsMatchTheirMeaning ==
    \A val \in Limits.lo..Limits.hi :
        MatchField(field, val, Limits.lo, Limits.hi)
            <=> \E item \in field : val \in Meant(item, Limits.lo, Limits.hi)
=============================================================================
