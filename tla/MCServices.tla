----------------------------- MODULE MCServices -----------------------------
(***************************************************************************)
(* Instances of Services for TLC.                                          *)
(***************************************************************************)
EXTENDS Services

MCFeeds == <<"u1", "u2">>

\* The name of each monitor is its own.
MCAlertName(m) == m

MCItems ==
    [kind : {"all"}, step : 1..3]
        \union [kind : {"range"}, from : 1..5, to : 1..5, step : 1..3]
        \union [kind : {"number"}, from : 0..6, step : {1}]

MCLimits == [lo |-> 1, hi |-> 6]

\* What comes later may need what comes earlier, and the first the third: with
\* cycles and without.
MCNeeds == {p \in Target \X Target : p[1] > p[2]} \union {<<1, 3>>}
=============================================================================
