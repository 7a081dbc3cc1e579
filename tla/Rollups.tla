------------------------------ MODULE Rollups ------------------------------
(***************************************************************************)
(* The rolled-up history of a metric in db/metrics.py: the collector       *)
(* inserts a sample in each cycle and, near the start of an interval,      *)
(* calls the rollup, which averages the samples of every interval since    *)
(* the last row; a restarted server catches up, and old rows are pruned.   *)
(* rollup_to_1m reads the raw samples, rollup_to_1h the rows of the        *)
(* minutes; but for the table and the width they are the same.  An average *)
(* is modelled by the samples it was taken of.                             *)
(***************************************************************************)
EXTENDS Integers, FiniteSetsExt

CONSTANTS Width,       \* of an interval
          Cycle,       \* of the collector: it rolls up that soon after a boundary
          Back,        \* how far the first rollup goes back
          Retention,   \* of the rows
          LastSecond   \* bound: the clock

ASSUME RollupAssumption ==
    /\ {Width, Cycle, Back, Retention} \subseteq Nat \ {0} /\ LastSecond \in Nat
    /\ Cycle < Width /\ Width < Back /\ Back % Width = 0 /\ Width < Retention
    /\ Back + Width =< LastSecond

VARIABLES second,   \* the clock
          sample,   \* when samples were taken
          rolled    \* the rows: their timestamps, and what was averaged

rollupVars == <<second, sample, rolled>>

RollupTypeOK ==
    /\ second \in Back..LastSecond /\ sample \subseteq Back..LastSecond
    /\ \A r \in rolled : r.ts \in 0..LastSecond /\ r.of \subseteq sample /\ r.of # {}

RollupInit ==
    /\ second \in Back + 1..Back + Width
    /\ sample = {} /\ rolled = {}

\* A second passes; the collector may be late or not running.
CollectorCycle ==
    /\ second < LastSecond /\ second' = second + 1
    /\ sample' \in {sample, sample \union {second'}}
    /\ UNCHANGED rolled

Within(ts) == {s \in sample : ts =< s /\ s < ts + Width}

UndoneToNow ==
    LET last == IF rolled = {} THEN second - Back ELSE Max({r.ts : r \in rolled})
    IN {last + k * Width : k \in 1..LastSecond} \cap 0..second

\* Timestamps of the intervals to do: from the last row, or from some way back,
\* and before the last boundary.
Undone ==
    LET last == IF rolled = {} THEN second - Back ELSE Max({r.ts : r \in rolled})
    IN {last + k * Width : k \in 1..LastSecond} \cap 0..second - (second % Width) - 1

\* rollup_to_1m, rollup_to_1h and catchup_rollups: a row for each interval that
\* has samples.
Rollup ==
    /\ rolled' = rolled \union {[ts |-> ts, of |-> Within(ts)] : ts \in {m \in Undone : Within(m) # {}}}
    /\ UNCHANGED <<second, sample>>

\* The collector, after it inserted its sample.
RollupByCollector == second \in sample /\ second % Width < Cycle /\ Rollup

\* A server starts.
CatchUp == second \notin sample /\ Rollup

\* prune_rollups.
PruneRollups ==
    /\ rolled' = {r \in rolled : r.ts >= second - Retention}
    /\ UNCHANGED <<second, sample>>

RollupNext == CollectorCycle \/ RollupByCollector \/ CatchUp \/ PruneRollups

RollupSpec == RollupInit /\ [][RollupNext]_rollupVars

-----------------------------------------------------------------------------
(* Properties. *)

\* Where rows began on a boundary of the clock, the history between the first
\* and the last of them is whole: each sample is averaged in one row, that of
\* its interval, whatever gaps, restarts and prunings there were.
HistoryIsWhole ==
    (\A r \in rolled : r.ts % Width = 0) =>
        \A s \in sample :
            /\ \A r \in rolled : r.ts =< s /\ s < r.ts + Width <=> s \in r.of
            /\ rolled # {} /\ Min({r.ts : r \in rolled}) =< s /\ s < Max({r.ts : r \in rolled}) + Width =>
                  \E r \in rolled : s \in r.of

\* "Process every missing minute bucket up to the previous complete minute":
\* each row averages all the samples of its interval.
RowIsWhole == \A r \in rolled : r.of = Within(r.ts)
=============================================================================
