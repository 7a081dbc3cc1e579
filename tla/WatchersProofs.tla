--------------------------- MODULE WatchersProofs ---------------------------
(***************************************************************************)
(* What watches, for every value of the bounds: the scheduler's minutes    *)
(* and the fields of its expressions, feeds, endpoints and their alerts,   *)
(* alert rules, and maintenance windows.                                   *)
(***************************************************************************)
EXTENDS Ticks, Feeds, Endpoints, Alerts, Maintenance, Extremes, FiniteSetTheorems

-----------------------------------------------------------------------------
(***************************************************************************)
(* The scheduler's loop.  A tick in a minute sleeps into the next one,     *)
(* and never past it.                                                      *)
(***************************************************************************)

\* The minute that begins at a multiple of its length, and the time left in it.
LEMMA InAMinute ==
    ASSUME NEW m \in Nat, NEW r \in 0..Minute - 1
    PROVE  /\ (m * Minute + r) % Minute = r
           /\ (m * Minute + r) \div Minute = m
  BY TickAssumption

LEMMA MinutesInOrder ==
    ASSUME NEW m \in Nat, NEW n \in Nat
    PROVE  /\ m < n => (m + 1) * Minute =< n * Minute
           /\ m * Minute \in Nat /\ (m + 1) * Minute = m * Minute + Minute
  BY TickAssumption

TickTypes ==
    /\ clock \in 0..Last /\ first \in Nat
    /\ loop \in [at : {"sleep", "tick"}, time : Nat]
    /\ ticked \in [0..Minutes -> Nat]

\* The scheduler sleeps until minute m begins, or is in the tick that began
\* with it, and has a second left; it has ticked once in each minute before, if
\* it found no maintenance window.
OnTimeFor(m) ==
    /\ loop.time = m * Minute /\ first =< m
    /\ loop.at = "sleep" => clock =< m * Minute
    /\ loop.at = "tick" => m * Minute =< clock /\ clock + Second =< m * Minute + Minute
    /\ \A k \in 0..Minutes :
          IF first =< k /\ (k < m \/ (k = m /\ loop.at = "tick"))
          THEN ticked[k] = 1 \/ k \in quieted
          ELSE ticked[k] = 0

OnTime == ~slow => \E m \in Nat : OnTimeFor(m)

TickInv == TickTypes /\ OnTime

LEMMA TickInitOK == TickInit => TickInv
<1> SUFFICES ASSUME TickInit PROVE TickInv
  OBVIOUS
<1>1. /\ Minute \in Nat /\ Minute > 4 /\ Minutes \in Nat /\ clock \in 0..Minute - 1
      /\ loop = [at |-> "sleep", time |-> clock + Minute - (clock % Minute)]
      /\ first = (clock \div Minute) + 1 /\ ticked = [m \in 0..Minutes |-> 0] /\ slow = FALSE
  BY TickAssumption DEF TickInit
<1>2. clock % Minute = clock /\ clock \div Minute = 0
  BY <1>1
<1>3. first = 1 /\ loop.time = 1 * Minute /\ loop.at = "sleep" /\ loop.time \in Nat
  BY <1>1, <1>2
<1>4. OnTimeFor(1)
  BY <1>1, <1>3 DEF OnTimeFor
<1>5. clock \in 0..Last
  <2>1. 0 < Minutes
    BY TickAssumption
  <2>2. (0 + 1) * Minute =< Minutes * Minute
    BY <1>1, <2>1, MinutesInOrder
  <2>3. Minutes * Minute = Minute * Minutes /\ Minute * Minutes \in Nat
    BY <1>1
  <2> QED BY <1>1, <2>2, <2>3 DEF Last
<1>6. TickTypes
  <2>1. clock + Minute - (clock % Minute) \in Nat
    BY <1>1, <1>2
  <2>2. loop \in [at : {"sleep", "tick"}, time : Nat]
    BY <1>1, <2>1
  <2>3. ticked \in [0..Minutes -> Nat]
    BY DEF TickInit
  <2>4. first \in Nat
    BY <1>3
  <2> QED BY <1>5, <2>2, <2>3, <2>4 DEF TickTypes
<1> QED BY <1>4, <1>6 DEF TickInv, OnTime

LEMMA TickBeginsOK == TickInv /\ TickBegins => TickInv'
<1> SUFFICES ASSUME TickInv, TickBegins PROVE TickInv'
  OBVIOUS
<1> USE TickAssumption DEF TickInv
<1>1. /\ loop = [at |-> "sleep", time |-> clock] /\ loop' = [at |-> "tick", time |-> clock]
      /\ \/ ticked' = [ticked EXCEPT ![clock \div Minute] = @ + 1] /\ quieted' = quieted
         \/ quieted' = quieted \union {clock \div Minute} /\ ticked' = ticked
      /\ UNCHANGED <<clock, first, slow>>
  BY DEF TickBegins
<1>2. clock \in Nat /\ TickTypes'
  <2>1. clock \in 0..Last /\ clock \in Nat
    BY DEF TickTypes
  <2>4. ticked' = ticked \/ \E d : ticked' = [ticked EXCEPT ![d] = @ + 1]
    BY <1>1
  <2>5. ticked \in [0..Minutes -> Nat] /\ \A n \in Nat : n + 1 \in Nat
    BY DEF TickTypes
  <2>2. ticked' \in [0..Minutes -> Nat]
    BY <2>4, <2>5
  <2>3. loop' \in [at : {"sleep", "tick"}, time : Nat]
    BY <1>1, <2>1
  <2> QED BY <1>1, <2>1, <2>2, <2>3 DEF TickTypes
<1>3. ASSUME NEW m \in Nat, OnTimeFor(m) PROVE OnTimeFor(m)'
  <2>1. clock = m * Minute + 0
    BY <1>1, <1>3, <1>2, MinutesInOrder DEF OnTimeFor
  <2>2. clock \div Minute = m
    BY <2>1, InAMinute
  <2>3. \A k \in 0..Minutes :
          /\ k = m => ticked'[k] = ticked[k] + 1 \/ k \in quieted'
          /\ k # m => ticked'[k] = ticked[k] /\ (k \in quieted => k \in quieted')
    BY <1>1, <2>2 DEF TickTypes
  <2>4. ASSUME NEW k \in 0..Minutes
        PROVE  IF first =< k /\ (k < m \/ k = m) THEN ticked'[k] = 1 \/ k \in quieted'
                                                ELSE ticked'[k] = 0
    <3>1. k = m => ticked[k] = 0 /\ first =< k
      BY <1>1, <1>3 DEF OnTimeFor
    <3> QED BY <1>1, <1>3, <2>3, <3>1 DEF OnTimeFor, TickTypes
  <2> QED BY <1>1, <1>2, <1>3, <2>1, <2>4, MinutesInOrder DEF OnTimeFor, Second
<1> QED BY <1>1, <1>2, <1>3 DEF OnTime

LEMMA TickEndsOK == TickInv /\ (TickEnds \/ TickRaises) => TickInv'
<1> SUFFICES ASSUME TickInv, TickEnds \/ TickRaises PROVE TickInv'
  OBVIOUS
<1> USE TickAssumption DEF TickInv
<1>1. /\ loop.at = "tick" /\ loop' = [at |-> "sleep", time |-> clock + Wait(clock)]
      /\ UNCHANGED <<clock, ticked, quieted, first, slow>>
  BY DEF TickEnds, TickRaises, Sleep
<1>2. clock \in Nat /\ TickTypes'
  BY <1>1 DEF TickTypes, Wait, Second
<1>3. ASSUME NEW m \in Nat, OnTimeFor(m) PROVE OnTimeFor(m + 1)'
  <2> DEFINE r == clock - m * Minute
  <2>1. r \in 0..Minute - 2 /\ clock = m * Minute + r /\ m * Minute \in Nat
    BY <1>1, <1>2, <1>3, MinutesInOrder DEF OnTimeFor, Second
  <2> HIDE DEF r
  <2>2. clock % Minute = r
    BY <2>1, InAMinute
  <2>3. Wait(clock) = Minute - r
    BY <2>1, <2>2 DEF Wait, Second
  <2>4. loop'.time = (m + 1) * Minute /\ loop'.at = "sleep" /\ clock =< (m + 1) * Minute
    BY <1>1, <2>1, <2>3, MinutesInOrder
  <2>5. \A k \in 0..Minutes :
          IF first =< k /\ k < m + 1 THEN ticked[k] = 1 \/ k \in quieted ELSE ticked[k] = 0
    BY <1>1, <1>3 DEF OnTimeFor, TickTypes
  <2>6. first =< m + 1
    BY <1>3 DEF OnTimeFor, TickTypes
  <2> QED BY <1>1, <2>4, <2>5, <2>6 DEF OnTimeFor
<1>4. \A m \in Nat : m + 1 \in Nat
  OBVIOUS
<1> QED BY <1>1, <1>2, <1>3, <1>4 DEF OnTime

LEMMA ClockAdvancesOK == TickInv /\ ClockAdvances => TickInv'
<1> SUFFICES ASSUME TickInv, ClockAdvances PROVE TickInv'
  OBVIOUS
<1> USE TickAssumption DEF TickInv
<1>1. /\ clock < Last /\ loop # [at |-> "sleep", time |-> clock] /\ clock' = clock + 1
      /\ slow' = (slow \/ (loop.at = "tick" /\ clock - loop.time >= Minute - Second))
      /\ UNCHANGED <<loop, ticked, quieted, first>>
  BY DEF ClockAdvances
<1>2. clock \in Nat /\ TickTypes'
  BY <1>1 DEF TickTypes, Last
<1>3. ASSUME ~slow', NEW m \in Nat, OnTimeFor(m) PROVE OnTimeFor(m)'
  <2>1. m * Minute \in Nat /\ loop \in [at : {"sleep", "tick"}, time : Nat]
    BY MinutesInOrder DEF TickTypes
  <2>2. CASE loop.at = "sleep"
    <3>1. loop.time # clock
      BY <1>1, <2>1, <2>2
    <3>2. clock + 1 =< m * Minute
      BY <1>2, <1>3, <2>1, <2>2, <3>1 DEF OnTimeFor
    <3> QED BY <1>1, <1>3, <2>2, <3>2 DEF OnTimeFor
  <2>3. CASE loop.at = "tick"
    <3>0. ~ (clock - loop.time >= Minute - Second)
      BY <1>1, <1>3, <2>3
    <3>1. clock - m * Minute < Minute - Second
      BY <1>2, <1>3, <2>1, <3>0 DEF OnTimeFor, Second
    <3>2. m * Minute =< clock + 1 /\ clock + 1 + Second =< m * Minute + Minute
      BY <1>2, <1>3, <2>1, <2>3, <3>1 DEF OnTimeFor, Second
    <3> QED BY <1>1, <1>3, <2>3, <3>2 DEF OnTimeFor
  <2> QED BY <2>1, <2>2, <2>3
<1> QED BY <1>1, <1>2, <1>3 DEF OnTime, TickTypes

LEMMA OnTimeIsOnce ==
    ASSUME TickInv, ~slow, NEW k \in 0..Minutes, first =< k, (k + 1) * Minute =< clock
    PROVE  ticked[k] = 1 \/ k \in quieted
<1>1. PICK m \in Nat : OnTimeFor(m)
  BY DEF TickInv, OnTime
<1>2. k \in Nat /\ clock \in Nat /\ m * Minute \in Nat /\ k * Minute \in Nat
  BY MinutesInOrder, TickAssumption DEF TickInv, TickTypes
<1>3. k < m \/ (k = m /\ loop.at = "tick")
  <2>1. k > m => (m + 1) * Minute =< k * Minute
    BY <1>2, MinutesInOrder
  <2>2. (k + 1) * Minute = k * Minute + Minute /\ (m + 1) * Minute = m * Minute + Minute
    BY <1>2, MinutesInOrder
  <2> QED BY <1>1, <1>2, <2>1, <2>2, TickAssumption DEF OnTimeFor, TickInv, TickTypes, Second
<1> QED BY <1>1, <1>3 DEF OnTimeFor

LEMMA TickStepOK == TickInv /\ [TickNext]_tickVars => TickInv'
<1>1. TickInv /\ UNCHANGED tickVars => TickInv'
  BY DEF tickVars, TickInv, TickTypes, OnTime, OnTimeFor
<1> QED BY <1>1, TickBeginsOK, TickEndsOK, ClockAdvancesOK DEF TickNext

-----------------------------------------------------------------------------
(***************************************************************************)
(* The fields of an expression.                                            *)
(***************************************************************************)

\* A multiple leaves no remainder, and what leaves none is one.
LEMMA Multiples ==
    ASSUME NEW n \in Nat, NEW step \in Nat \ {0}
    PROVE  n % step = 0 <=> \E k \in 0..n : n = k * step
<1>1. ASSUME n % step = 0 PROVE \E k \in 0..n : n = k * step
  <2> DEFINE q == n \div step
  <2>1. q \in Nat /\ n = (step * q) + (n % step)
    OBVIOUS
  <2>2. n = q * step /\ q =< n
    BY <1>1, <2>1
  <2> QED BY <2>1, <2>2
<1>2. ASSUME NEW k \in 0..n, n = k * step PROVE n % step = 0
  BY <1>2
<1> QED BY <1>1, <1>2

\* The values in steps from a first one, up to the upper limit.
LEMMA InSteps ==
    ASSUME NEW from \in Nat, NEW step \in Nat \ {0}, NEW hi \in Nat, NEW val \in 0..hi, from =< val
    PROVE  (val - from) % step = 0 <=> val \in {from + k * step : k \in 0..hi}
<1>1. val - from \in Nat
  OBVIOUS
<1>2. (val - from) % step = 0 <=> \E k \in 0..(val - from) : val - from = k * step
  BY <1>1, Multiples
<1>3. ASSUME NEW k \in 0..hi, val = from + k * step PROVE k \in 0..(val - from) /\ val - from = k * step
  <2>1. k * step \in Nat /\ k =< k * step
    OBVIOUS
  <2> QED BY <1>3, <2>1
<1>4. ASSUME NEW k \in 0..(val - from), val - from = k * step PROVE k \in 0..hi /\ val = from + k * step
  <2>1. k * step \in Nat
    OBVIOUS
  <2> QED BY <1>4, <2>1
<1> QED BY <1>2, <1>3, <1>4

\* An item matches exactly what it stands for, within the limits.
LEMMA ItemMatches ==
    ASSUME NEW item \in CronItem, NEW val \in Limits.lo..Limits.hi
    PROVE  MatchItem(item, val, Limits.lo, Limits.hi) <=> val \in Meant(item, Limits.lo, Limits.hi)
<1> DEFINE lo == Limits.lo
           hi == Limits.hi
<1>1. /\ lo \in Nat /\ hi \in Nat /\ val \in 0..hi /\ val \in Nat /\ lo =< val /\ val =< hi
      /\ item.kind \in {"all", "range", "number"} /\ item.step \in Nat \ {0}
      /\ item.kind \in {"range", "number"} => item.from \in Nat
      /\ item.kind = "range" => item.to \in Nat
  BY CronAssumption
<1> HIDE DEF lo, hi
<1>2. CASE item.kind = "all"
  <2>1. (val - lo) % item.step = 0 <=> val \in {lo + k * item.step : k \in 0..hi}
    BY <1>1, InSteps
  <2>2. MatchItem(item, val, lo, hi) <=> (val - lo) % item.step = 0
    BY <1>2 DEF MatchItem
  <2>3. Meant(item, lo, hi) = {lo + k * item.step : k \in 0..hi} \cap lo..hi
    BY <1>2 DEF Meant
  <2>4. val \in lo..hi
    BY <1>1
  <2> QED BY <2>1, <2>2, <2>3, <2>4 DEF lo, hi
<1>3. CASE item.kind = "range"
  <2>1. MatchItem(item, val, lo, hi) <=>
            item.from =< val /\ val =< item.to /\ (val - item.from) % item.step = 0
    BY <1>3 DEF MatchItem
  <2>2. Meant(item, lo, hi) = {item.from + k * item.step : k \in 0..hi} \cap item.from..item.to
    BY <1>3 DEF Meant
  <2>3. item.from =< val => ((val - item.from) % item.step = 0
                                <=> val \in {item.from + k * item.step : k \in 0..hi})
    BY <1>1, <1>3, InSteps
  <2>4. val \in item.from..item.to <=> item.from =< val /\ val =< item.to
    BY <1>1, <1>3
  <2> QED BY <2>1, <2>2, <2>3, <2>4 DEF lo, hi
<1>4. CASE item.kind = "number"
  <2>1. MatchItem(item, val, lo, hi) <=> item.from = val
    BY <1>4 DEF MatchItem
  <2>2. Meant(item, lo, hi) = {item.from + k * item.step : k \in 0..hi} \cap item.from..item.from
    BY <1>4 DEF Meant
  <2>3. val \in item.from..item.from <=> item.from = val
    BY <1>1, <1>4
  <2>4. 0 \in 0..hi /\ item.from = item.from + 0 * item.step
    BY <1>1, <1>4
  <2>5. item.from \in {item.from + k * item.step : k \in 0..hi}
    BY <2>4
  <2> QED BY <2>1, <2>2, <2>3, <2>5 DEF lo, hi
<1> QED BY <1>1, <1>2, <1>3, <1>4

\* A field of any items matches what they stand for: a step counts from where
\* the item begins.
THEOREM FieldsAreMeant == CronSpec => []FieldsMatchTheirMeaning
<1> DEFINE OfItems == field \subseteq CronItem
<1>1. CronInit => OfItems
  BY DEF CronInit
<1>2. OfItems /\ [CronNext]_cronVars => OfItems'
  BY DEF CronNext, ReadItem, cronVars
<1>3. OfItems => FieldsMatchTheirMeaning
  <2> SUFFICES ASSUME OfItems, NEW val \in Limits.lo..Limits.hi
               PROVE  (\E item \in field : MatchItem(item, val, Limits.lo, Limits.hi))
                          <=> \E item \in field : val \in Meant(item, Limits.lo, Limits.hi)
    BY DEF FieldsMatchTheirMeaning, MatchField
  <2> QED BY ItemMatches
<1> QED BY <1>1, <1>2, <1>3, PTL DEF CronSpec

-----------------------------------------------------------------------------
(***************************************************************************)
(* Feeds.                                                                  *)
(***************************************************************************)

\* What the watcher knows of a URL is there or was withdrawn; what was there in
\* a first round that succeeded is known; every item it knows was there then or
\* was tried: it started the automation of the feed or its trigger missed, never
\* both.  An item that was tried is known for as long as it is listed.
Tried(i) == started[i] \union missed[i]

KnownItems ==
    /\ \A u \in Url : seen[u] \union firstSeen[u] \subseteq listing[u] \union withdrawn
    /\ ~unread => \A u \in Url : firstSeen[u] \subseteq seen[u] \union withdrawn
    /\ initial => \A i \in DOMAIN Feed : Tried(i) = {}
    /\ \A i \in DOMAIN Feed :
          /\ started[i] \intersect missed[i] = {}
          /\ Tried(i) \subseteq listing[Feed[i]] \union withdrawn
          /\ Tried(i) \intersect listing[Feed[i]] \subseteq seen[Feed[i]]
    /\ ~unread => \A i \in DOMAIN Feed : Tried(i) \intersect firstSeen[Feed[i]] \subseteq withdrawn
    /\ ~unread /\ (\A i, j \in DOMAIN Feed : Feed[i] = Feed[j] => i = j) =>
          \A i \in DOMAIN Feed : seen[Feed[i]] \subseteq firstSeen[Feed[i]] \union Tried(i)

FeedTypes ==
    /\ listing \in [Url -> SUBSET FeedItem] /\ seen \in [Url -> SUBSET FeedItem]
    /\ firstSeen \in [Url -> SUBSET FeedItem]
    /\ started \in [DOMAIN Feed -> SUBSET FeedItem] /\ missed \in [DOMAIN Feed -> SUBSET FeedItem]
    /\ turn \in DOMAIN Feed

FeedInv == FeedTypes /\ KnownItems

LEMMA FeedInitOK == FeedInit => FeedInv
<1> SUFFICES ASSUME FeedInit PROVE FeedInv
  OBVIOUS
<1>1. 1 \in DOMAIN Feed
  BY FeedAssumption
<1>2. \A i \in DOMAIN Feed : Feed[i] \in Url
  BY DEF Url
<1> QED BY <1>1, <1>2 DEF FeedInit, FeedInv, FeedTypes, KnownItems, Tried

LEMMA FeedStepOK == FeedInv /\ [FeedNext]_feedVars => FeedInv'
<1> SUFFICES ASSUME FeedInv, [FeedNext]_feedVars PROVE FeedInv'
  OBVIOUS
<1> USE DEF FeedInv, FeedTypes, KnownItems, Tried
<1>0. \A i \in DOMAIN Feed : Feed[i] \in Url
  BY DEF Url
<1>1. ASSUME NEW u \in Url, NEW item \in FeedItem, Publish(u, item) PROVE FeedInv'
  BY <1>0, <1>1 DEF Publish
<1>2. ASSUME NEW u \in Url, NEW item \in FeedItem, Withdraw(u, item) PROVE FeedInv'
  BY <1>0, <1>2 DEF Withdraw
<1>3. NextTurn => turn' \in DOMAIN Feed
  BY FeedAssumption DEF NextTurn
<1>4. CASE Scan
  <2> DEFINE url == Feed[turn]
             new == listing[url] \ seen[url]
  <2>1. /\ url \in Url
        /\ seen' = [seen EXCEPT ![url] = listing[url]]
        /\ firstSeen' = IF initial THEN [firstSeen EXCEPT ![url] = @ \union listing[url]] ELSE firstSeen
        /\ \/ UNCHANGED <<started, missed>> /\ (initial \/ new = {})
           \/ ~initial /\ started' = [started EXCEPT ![turn] = @ \union new] /\ UNCHANGED missed
           \/ ~initial /\ missed' = [missed EXCEPT ![turn] = @ \union new] /\ UNCHANGED started
        /\ (initial' => initial) /\ UNCHANGED <<listing, unread, withdrawn>>
    BY <1>0, <1>4 DEF Scan, SeenNow, NextTurn
  <2>2. FeedTypes'
    BY <1>3, <1>4, <2>1 DEF Scan
  <2>3. CASE initial
    BY <1>0, <2>1, <2>2, <2>3
  <2>4. CASE ~initial
    <3>1. /\ firstSeen' = firstSeen /\ ~initial' /\ unread' = unread
          /\ listing' = listing /\ withdrawn' = withdrawn
      BY <2>1, <2>4
    <3>2. CASE UNCHANGED <<started, missed>> /\ new = {}
      BY <1>0, <2>1, <2>2, <3>1, <3>2
    <3>3. CASE started' = [started EXCEPT ![turn] = @ \union new] /\ UNCHANGED missed
      BY <1>0, <2>1, <2>2, <3>1, <3>3
    <3>4. CASE missed' = [missed EXCEPT ![turn] = @ \union new] /\ UNCHANGED started
      BY <1>0, <2>1, <2>2, <3>1, <3>4
    <3> QED BY <2>1, <2>4, <3>2, <3>3, <3>4
  <2> QED BY <2>3, <2>4
<1>5. CASE ScanFails
  <2> DEFINE url == Feed[turn]
  <2>1. /\ url \in Url
        /\ firstSeen' = IF initial THEN [firstSeen EXCEPT ![url] = @ \union listing[url]] ELSE firstSeen
        /\ (initial' => initial) /\ (initial => unread') /\ (unread => unread')
        /\ UNCHANGED <<listing, seen, started, missed, withdrawn>>
    BY <1>0, <1>5 DEF ScanFails, NextTurn
  <2>2. FeedTypes'
    BY <1>3, <1>5, <2>1 DEF ScanFails
  <2>3. CASE initial
    BY <1>0, <2>1, <2>2, <2>3
  <2>4. CASE ~initial
    BY <1>0, <2>1, <2>2, <2>4
  <2> QED BY <2>3, <2>4
<1>6. CASE Write \/ LookAtPath
  BY <1>6 DEF Write, LookAtPath
<1>7. CASE UNCHANGED feedVars
  BY <1>7 DEF feedVars
<1>8. FeedNext => \/ \E u \in Url, item \in FeedItem : Publish(u, item)
                  \/ \E u \in Url, item \in FeedItem : Withdraw(u, item)
                  \/ Scan \/ ScanFails \/ Write \/ LookAtPath
  BY DEF FeedNext
<1> HIDE DEF FeedInv
<1> QED BY <1>1, <1>2, <1>4, <1>5, <1>6, <1>7, <1>8

\* Every item that a scan sees and that was not there in the first round is
\* tried, once, and no item that was: an item whose trigger started nothing
\* never starts the automation later.
THEOREM NewItemsAreStarted == FeedSpec => []NewItemsStart
<1>1. FeedInv => NewItemsStart
  BY DEF FeedInv, KnownItems, NewItemsStart, Tried
<1> QED BY <1>1, FeedInitOK, FeedStepOK, PTL DEF FeedSpec

-----------------------------------------------------------------------------
(***************************************************************************)
(* Endpoints: alerts follow the verdicts.                                  *)
(***************************************************************************)

EndpointTypes ==
    /\ seconds \in 1..EndSecond
    /\ pool \in [Monitor -> {"idle", "check"} \union Status]
    /\ alert \subseteq [of : Monitor, from : 1..EndSecond, to : 0..EndSecond]
    /\ judged \in [Monitor -> {"up", "down"}]

EndpointInv == EndpointTypes /\ AlertsFollowChecks

LEMMA EndpointInitOK == EndpointInit => EndpointInv
  BY EndpointAssumption
     DEF EndpointInit, EndpointInv, EndpointTypes, AlertsFollowChecks, Unresolved

\* A step that leaves alerts and verdicts alone.
LEMMA NothingJudged ==
    ASSUME EndpointInv, EndpointTypes', UNCHANGED <<alert, judged>>, strayed \subseteq strayed'
    PROVE  EndpointInv'
  BY DEF EndpointInv, AlertsFollowChecks, Unresolved, Alone, SameName

LEMMA ResolvedTypes ==
    ASSUME EndpointTypes, NEW a \in alert
    PROVE  /\ [a EXCEPT !.to = seconds] \in [of : Monitor, from : 1..EndSecond, to : 0..EndSecond]
           /\ [a EXCEPT !.to = seconds].of = a.of /\ [a EXCEPT !.to = seconds].to # 0
  BY EndpointAssumption DEF EndpointTypes

\* An alert or a resolution of one monitor is no other's, unless it shares its name.
LEMMA OthersKeepTheirAlerts ==
    ASSUME EndpointTypes, NEW m \in Monitor, NEW n \in Monitor \ {m}, SameName(n) = {n},
           \/ alert' = alert
           \/ alert' = alert \union {[of |-> m, from |-> seconds, to |-> 0]}
           \/ alert' = Resolve(m)
    PROVE  Unresolved(n)' = Unresolved(n)
<1>1. Unresolved(n) = {a \in alert : a.of = n /\ a.to = 0} /\ Unresolved(n)' = {a \in alert' : a.of = n /\ a.to = 0}
  BY DEF Unresolved, SameName
<1>2. n \notin SameName(m)
  BY DEF SameName
<1>3. CASE alert' = alert \union {[of |-> m, from |-> seconds, to |-> 0]}
  BY <1>1, <1>3
<1>4. CASE alert' = Resolve(m)
  <2>1. \A a \in alert : a.of = n => a \notin Unresolved(m)
    BY <1>2 DEF Unresolved
  <2>2. \A a \in Unresolved(m) : a \in alert /\ [a EXCEPT !.to = seconds].to # 0
    BY ResolvedTypes DEF Unresolved
  <2>3. \A a : a.of = n /\ a.to = 0 => (a \in Resolve(m) <=> a \in alert)
    BY <2>1, <2>2 DEF Resolve
  <2> QED BY <1>1, <1>4, <2>3
<1> QED BY <1>1, <1>3, <1>4

LEMMA AlertEndpointOK ==
    ASSUME EndpointInv, NEW m \in Monitor, AlertEndpoint(m)
    PROVE  EndpointInv'
<1> DEFINE new == [of |-> m, from |-> seconds, to |-> 0]
<1>1. /\ pool[m] \in Status /\ pool' = [pool EXCEPT ![m] = "idle"] /\ UNCHANGED <<seconds, strayed>>
      /\ pool[m] = "down" => alert' = alert \union {new}
      /\ pool[m] = "up" => alert' = Resolve(m)
      /\ pool[m] \notin {"up", "down"} => alert' = alert
      /\ judged' = IF pool[m] \in {"up", "down"} THEN [judged EXCEPT ![m] = pool[m]] ELSE judged
  BY DEF AlertEndpoint
<1>2. EndpointTypes
  BY DEF EndpointInv
<1>3. /\ \A n \in Monitor \ {m} : judged'[n] = judged[n]
      /\ judged'[m] = IF pool[m] \in {"up", "down"} THEN pool[m] ELSE judged[m]
  BY <1>1, <1>2 DEF EndpointTypes
<1>4. EndpointTypes'
  <2>1. new \in [of : Monitor, from : 1..EndSecond, to : 0..EndSecond]
    BY <1>2, EndpointAssumption DEF EndpointTypes
  <2>2. Resolve(m) \subseteq [of : Monitor, from : 1..EndSecond, to : 0..EndSecond]
    BY <1>2, ResolvedTypes DEF EndpointTypes, Resolve, Unresolved
  <2>3. alert' \subseteq [of : Monitor, from : 1..EndSecond, to : 0..EndSecond]
    BY <1>1, <1>2, <2>1, <2>2 DEF EndpointTypes
  <2> QED BY <1>1, <1>2, <2>3 DEF EndpointTypes
<1>5. ASSUME NEW n \in Monitor \ {m}, Alone(n)'
      PROVE  (Unresolved(n) # {} <=> judged[n] = "down")'
  <2>1. Alone(n) /\ SameName(n) = {n}
    BY <1>1, <1>5 DEF Alone, SameName
  <2>2. Unresolved(n)' = Unresolved(n)
    BY <1>1, <1>2, <2>1, OthersKeepTheirAlerts
  <2> QED BY <1>3, <2>1, <2>2 DEF EndpointInv, AlertsFollowChecks
<1>6. ASSUME Alone(m)'
      PROVE  (Unresolved(m) # {} <=> judged[m] = "down")'
  <2>1. Alone(m) /\ SameName(m) = {m} /\ SameName(m)' = {m}
    BY <1>1, <1>6 DEF Alone, SameName
  <2>2. CASE pool[m] = "down"
    <3>1. new \in Unresolved(m)'
      BY <1>1, <2>1, <2>2 DEF Unresolved
    <3> QED BY <1>3, <2>2, <3>1
  <2>3. CASE pool[m] = "up"
    <3>1. \A a \in Unresolved(m) : [a EXCEPT !.to = seconds].to # 0
      BY <1>2, ResolvedTypes DEF Unresolved
    <3>2. \A a \in alert : a.of = m /\ a.to = 0 => a \in Unresolved(m)
      BY <2>1 DEF Unresolved
    <3>3. Unresolved(m)' = {}
      BY <1>1, <2>1, <2>3, <3>1, <3>2 DEF Unresolved, Resolve
    <3> QED BY <1>3, <2>3, <3>3
  <2>4. CASE pool[m] \notin {"up", "down"}
    BY <1>1, <1>3, <2>1, <2>4 DEF EndpointInv, AlertsFollowChecks, Unresolved, SameName
  <2> QED BY <2>2, <2>3, <2>4
<1> QED BY <1>4, <1>5, <1>6 DEF EndpointInv, AlertsFollowChecks

LEMMA EndpointStepOK == EndpointInv /\ [EndpointNext]_endpointVars => EndpointInv'
<1> SUFFICES ASSUME EndpointInv, [EndpointNext]_endpointVars PROVE EndpointInv'
  OBVIOUS
<1>0. EndpointTypes
  BY DEF EndpointInv
<1>1. CASE SecondPasses \/ UNCHANGED endpointVars
  <2>1. EndpointTypes'
    BY <1>0, <1>1, EndpointAssumption DEF SecondPasses, endpointVars, EndpointTypes
  <2> QED BY <1>1, <2>1, NothingJudged DEF SecondPasses, endpointVars
<1>2. CASE CheckerTick
  <2>1. EndpointTypes'
    BY <1>0, <1>2 DEF CheckerTick, EndpointTypes
  <2> QED BY <1>2, <2>1, NothingJudged DEF CheckerTick
<1>3. ASSUME NEW m \in Monitor, NEW s \in Status, Judged(m, s) \/ CheckIsNotRecorded(m, s) PROVE EndpointInv'
  <2>1. EndpointTypes'
    BY <1>0, <1>3 DEF Judged, CheckIsNotRecorded, EndpointTypes
  <2> QED BY <1>3, <2>1, NothingJudged DEF Judged, CheckIsNotRecorded
<1>4. ASSUME NEW m \in Monitor, CheckHere(m) \/ CheckByAgent(m) PROVE EndpointInv'
  BY <1>3, <1>4 DEF CheckHere, CheckByAgent, Status
<1>5. ASSUME NEW m \in Monitor, AlertIsLost(m) \/ CheckByHand(m) \/ Enable(m) PROVE EndpointInv'
  <2>1. EndpointTypes'
    BY <1>0, <1>5 DEF AlertIsLost, CheckByHand, Enable, EndpointTypes
  <2> QED BY <1>5, <2>1, NothingJudged DEF AlertIsLost, CheckByHand, Enable
<1> QED BY <1>1, <1>2, <1>3, <1>4, <1>5, AlertEndpointOK DEF EndpointNext

\* An endpoint has an alert open if and only if the checker's last verdict was
\* that it is down.
THEOREM AlertsFollowTheVerdict == EndpointSpec => []AlertsFollowChecks
<1>1. EndpointInv => AlertsFollowChecks
  BY DEF EndpointInv
<1> QED BY <1>1, EndpointInitOK, EndpointStepOK, PTL DEF EndpointSpec

-----------------------------------------------------------------------------
(***************************************************************************)
(* Endpoints: what the rows say of the past, and what get_sla adds up.  A  *)
(* sum over a set is a recursive function of its subsets; it is defined,   *)
(* as there is one for subsets of every size, and is compared with what    *)
(* the rows cover from the empty set up.                                   *)
(***************************************************************************)

\* A row of the history says that the endpoint was down at that time.
SaidDown(m, t) == \E a \in alert : a.of = m /\ a.from =< t /\ (a.to = 0 \/ t < a.to)

\* The rows say of the past what the verdicts were.
DownIsCovered ==
    \A m \in Monitor : Alone(m) => down[m] = {t \in 1..(seconds - 1) : SaidDown(m, t)}

RowsAreInTime == \A a \in alert : a.from =< seconds /\ a.to =< seconds

DowntimeInv == EndpointInv /\ DownIsCovered /\ RowsAreInTime /\ DOMAIN down = Monitor

LEMMA DowntimeInitOK == EndpointInit => DowntimeInv
<1> SUFFICES ASSUME EndpointInit PROVE DowntimeInv
  OBVIOUS
<1>1. EndpointInv
  BY EndpointInitOK
<1> QED BY <1>1 DEF EndpointInit, DowntimeInv, DownIsCovered, RowsAreInTime, SaidDown

LEMMA NothingSaid ==
    ASSUME DowntimeInv, EndpointInv', UNCHANGED <<alert, seconds, down>>, strayed \subseteq strayed'
    PROVE  DowntimeInv'
BY DEF DowntimeInv, DownIsCovered, RowsAreInTime, SaidDown, Alone, SameName

\* What is inserted or resolved now says nothing else of the past.
LEMMA PastIsKept ==
    ASSUME DowntimeInv, NEW m \in Monitor, AlertEndpoint(m)
    PROVE  /\ \A n \in Monitor, t \in 1..(seconds - 1) : SaidDown(n, t)' <=> SaidDown(n, t)
           /\ RowsAreInTime'
<1>1. EndpointTypes /\ seconds \in Nat \ {0} /\ seconds' = seconds /\ RowsAreInTime
  BY EndpointAssumption DEF DowntimeInv, EndpointInv, EndpointTypes, AlertEndpoint
<1>2. \A a \in alert : a.of \in Monitor /\ a.from \in Nat /\ a.to \in Nat /\ a.from =< seconds /\ a.to =< seconds
  BY <1>1, EndpointAssumption DEF EndpointTypes, RowsAreInTime
<1>3. \A n \in Monitor, t \in 1..(seconds - 1) : t \in Nat /\ t < seconds /\ ~(seconds =< t)
  BY <1>1
<1>4. CASE alert' = alert
  BY <1>1, <1>4 DEF SaidDown, RowsAreInTime
<1>5. CASE alert' = alert \union {[of |-> m, from |-> seconds, to |-> 0]}
  BY <1>1, <1>2, <1>3, <1>5 DEF SaidDown, RowsAreInTime
<1>6. CASE alert' = Resolve(m)
  <2>1. \A a \in Unresolved(m) : a \in alert /\ a.to = 0
    BY DEF Unresolved
  <2>2. \A a \in alert : [a EXCEPT !.to = seconds].of = a.of /\ [a EXCEPT !.to = seconds].from = a.from
                         /\ [a EXCEPT !.to = seconds].to = seconds
    BY <1>1 DEF EndpointTypes
  <2>3. \A a \in alert' : \/ a \in alert /\ a \notin Unresolved(m)
                          \/ \E b \in alert : b \in Unresolved(m) /\ a = [b EXCEPT !.to = seconds]
    BY <1>6, <2>1 DEF Resolve
  <2>4. \A a \in alert : a \notin Unresolved(m) => a \in alert'
    BY <1>6 DEF Resolve
  <2>5. \A b \in Unresolved(m) : [b EXCEPT !.to = seconds] \in alert'
    BY <1>6 DEF Resolve
  <2>6. RowsAreInTime'
    <3> SUFFICES ASSUME NEW a \in alert' PROVE a.from =< seconds /\ a.to =< seconds
      BY <1>1 DEF RowsAreInTime
    <3>1. CASE a \in alert
      BY <1>2, <3>1
    <3>2. ASSUME NEW b \in alert, a = [b EXCEPT !.to = seconds] PROVE a.from =< seconds /\ a.to =< seconds
      BY <1>1, <1>2, <2>2, <3>2
    <3> QED BY <2>3, <3>1, <3>2
  <2>7. ASSUME NEW n \in Monitor, NEW t \in 1..(seconds - 1), SaidDown(n, t) PROVE SaidDown(n, t)'
    <3>1. PICK a \in alert : a.of = n /\ a.from =< t /\ (a.to = 0 \/ t < a.to)
      BY <2>7 DEF SaidDown
    <3>2. CASE a \notin Unresolved(m)
      BY <2>4, <3>1, <3>2 DEF SaidDown
    <3>3. CASE a \in Unresolved(m)
      BY <1>3, <2>2, <2>5, <3>1, <3>3 DEF SaidDown
    <3> QED BY <3>2, <3>3
  <2>8. ASSUME NEW n \in Monitor, NEW t \in 1..(seconds - 1), SaidDown(n, t)' PROVE SaidDown(n, t)
    <3>1. PICK a \in alert' : a.of = n /\ a.from =< t /\ (a.to = 0 \/ t < a.to)
      BY <2>8 DEF SaidDown
    <3>2. CASE a \in alert /\ a \notin Unresolved(m)
      BY <3>1, <3>2 DEF SaidDown
    <3>3. CASE \E b \in alert : b \in Unresolved(m) /\ a = [b EXCEPT !.to = seconds]
      BY <2>1, <2>2, <3>1, <3>3 DEF SaidDown
    <3> QED BY <2>3, <3>2, <3>3
  <2> QED BY <2>6, <2>7, <2>8
<1> QED BY <1>4, <1>5, <1>6 DEF AlertEndpoint

LEMMA DowntimeStepOK == DowntimeInv /\ [EndpointNext]_endpointVars => DowntimeInv'
<1> SUFFICES ASSUME DowntimeInv, [EndpointNext]_endpointVars PROVE DowntimeInv'
  OBVIOUS
<1>1. EndpointInv' /\ EndpointInv
  BY EndpointStepOK DEF DowntimeInv
<1>2. CASE SecondPasses
  <2>1. /\ seconds \in Nat \ {0} /\ seconds' = seconds + 1 /\ UNCHANGED <<alert, judged, strayed>> /\ DOMAIN down' = Monitor
        /\ \A m \in Monitor : down'[m] = IF judged[m] = "down" THEN down[m] \union {seconds} ELSE down[m]
    BY <1>1, <1>2, EndpointAssumption DEF SecondPasses, EndpointInv, EndpointTypes
  <2>2. \A a \in alert : a.of \in Monitor /\ a.from \in Nat /\ a.to \in Nat /\ a.from =< seconds /\ a.to =< seconds
    BY <1>1, EndpointAssumption DEF EndpointInv, EndpointTypes, DowntimeInv, RowsAreInTime
  <2>3. ASSUME NEW m \in Monitor, Alone(m)' PROVE (down[m] = {t \in 1..(seconds - 1) : SaidDown(m, t)})'
    <3>1. Alone(m) /\ SameName(m) = {m}
      BY <2>1, <2>3 DEF Alone, SameName
    <3>2. judged[m] = "down" <=> \E a \in alert : a.of = m /\ a.to = 0
      BY <1>1, <3>1 DEF EndpointInv, AlertsFollowChecks, Unresolved
    <3>3. SaidDown(m, seconds) <=> judged[m] = "down"
      BY <2>1, <2>2, <3>2 DEF SaidDown
    <3>4. \A t : SaidDown(m, t)' <=> SaidDown(m, t)
      BY <2>1 DEF SaidDown
    <3>5. down[m] = {t \in 1..(seconds - 1) : SaidDown(m, t)}
      BY <3>1 DEF DowntimeInv, DownIsCovered
    <3>6. 1..(seconds' - 1) = 1..(seconds - 1) \union {seconds}
      BY <2>1
    <3>7. \A t \in 1..(seconds - 1) : t # seconds
      BY <2>1
    <3> QED BY <2>1, <3>3, <3>4, <3>5, <3>6, <3>7
  <2>4. RowsAreInTime'
    BY <2>1, <2>2 DEF RowsAreInTime
  <2> QED BY <1>1, <2>1, <2>3, <2>4 DEF DowntimeInv, DownIsCovered
<1>3. ASSUME NEW m \in Monitor, AlertEndpoint(m) PROVE DowntimeInv'
  <2>1. UNCHANGED <<seconds, down, strayed>>
    BY <1>3 DEF AlertEndpoint
  <2>2. /\ \A n \in Monitor, t \in 1..(seconds - 1) : SaidDown(n, t)' <=> SaidDown(n, t)
        /\ RowsAreInTime'
    BY <1>3, PastIsKept
  <2>3. \A n \in Monitor : Alone(n)' => Alone(n)
    BY <2>1 DEF Alone, SameName
  <2>4. DownIsCovered'
    BY <2>1, <2>2, <2>3 DEF DowntimeInv, DownIsCovered
  <2> QED BY <1>1, <2>1, <2>2, <2>4 DEF DowntimeInv
<1>4. CASE CheckerTick \/ UNCHANGED endpointVars
  BY <1>1, <1>4, NothingSaid DEF CheckerTick, endpointVars
<1>5. ASSUME NEW m \in Monitor, NEW s \in Status, Judged(m, s) \/ CheckIsNotRecorded(m, s) PROVE DowntimeInv'
  BY <1>1, <1>5, NothingSaid DEF Judged, CheckIsNotRecorded
<1>6. ASSUME NEW m \in Monitor, CheckHere(m) \/ CheckByAgent(m) PROVE DowntimeInv'
  BY <1>5, <1>6 DEF CheckHere, CheckByAgent, Status
<1>7. ASSUME NEW m \in Monitor, AlertIsLost(m) \/ CheckByHand(m) \/ Enable(m) PROVE DowntimeInv'
  BY <1>1, <1>7, NothingSaid DEF AlertIsLost, CheckByHand, Enable
<1> QED BY <1>2, <1>3, <1>4, <1>5, <1>6, <1>7 DEF EndpointNext

\* The seconds that the rows of an endpoint cover are, at every moment, those in
\* which the checker's verdict was that it is down: what get_sla adds up misses
\* none of them and takes none from elsewhere.
THEOREM RowsSayWhatWasDown == EndpointSpec => []DownIsCovered
<1>1. DowntimeInv => DownIsCovered
  BY DEF DowntimeInv
<1> QED BY <1>1, DowntimeInitOK, DowntimeStepOK, PTL DEF EndpointSpec

LEMMA MaxOfTwo ==
    ASSUME NEW x \in Int, NEW y \in Int
    PROVE  Max({x, y}) = IF x >= y THEN x ELSE y
BY DEF Max

\* The seconds of the window that a row covers.
CoveredBy(a) ==
    {t \in 1..(seconds - 1) : t >= seconds - SlaWindow /\ a.from =< t /\ (a.to = 0 \/ t < a.to)}

\* The time that get_sla takes from a row is the number of those seconds.
LEMMA OpenForIsCovered ==
    ASSUME DowntimeInv, NEW a \in alert
    PROVE  IsFiniteSet(CoveredBy(a)) /\ Cardinality(CoveredBy(a)) = OpenFor(a) /\ OpenFor(a) \in Nat
<1>1. /\ seconds \in Nat \ {0} /\ SlaWindow \in Nat
      /\ a.from \in Nat \ {0} /\ a.to \in Nat /\ a.from =< seconds /\ a.to =< seconds
  BY EndpointAssumption DEF DowntimeInv, EndpointInv, EndpointTypes, RowsAreInTime
<1>2. PICK start : start = IF a.from >= seconds - SlaWindow THEN a.from ELSE seconds - SlaWindow
  OBVIOUS
<1>3. PICK end : end = IF a.to # 0 THEN a.to ELSE seconds
  OBVIOUS
<1>4. start \in Nat \ {0} /\ end \in Nat /\ end =< seconds /\ start >= a.from /\ start >= seconds - SlaWindow
  BY <1>1, <1>2, <1>3
<1>5. CoveredBy(a) = start..(end - 1)
  <2>1. ASSUME NEW t \in CoveredBy(a) PROVE t \in start..(end - 1)
    BY <1>1, <1>2, <1>3, <1>4 DEF CoveredBy
  <2>2. ASSUME NEW t \in start..(end - 1) PROVE t \in CoveredBy(a)
    BY <1>1, <1>2, <1>3, <1>4 DEF CoveredBy
  <2> QED BY <2>1, <2>2
<1>6. /\ IsFiniteSet(start..(end - 1))
      /\ Cardinality(start..(end - 1)) = IF start > end - 1 THEN 0 ELSE (end - 1) - start + 1
  BY <1>4, FS_Interval
<1>7. Max({a.from, seconds - SlaWindow}) = start
  BY <1>1, <1>2, MaxOfTwo
<1>8. OpenFor(a) = Max({end - start, 0})
  BY <1>3, <1>7 DEF OpenFor
<1>9. Max({end - start, 0}) = IF end - start >= 0 THEN end - start ELSE 0
  BY <1>4, MaxOfTwo
<1> QED BY <1>4, <1>5, <1>6, <1>8, <1>9

-----------------------------------------------------------------------------
\* The sum over a set of rows, as a function of its subsets.

SumStep(sum, s) ==
    IF s = {} THEN 0
    ELSE LET a == CHOOSE b \in s : TRUE IN OpenFor(a) + sum[s \ {a}]

Sums(S, n, sum) == \A s \in SUBSET S : Cardinality(s) < n => sum[s] = SumStep(sum, s)

LEMMA OneLess ==
    ASSUME NEW S, IsFiniteSet(S), NEW s \in SUBSET S, s # {}
    PROVE  LET a == CHOOSE b \in s : TRUE IN
           /\ a \in s /\ s \ {a} \in SUBSET S /\ IsFiniteSet(s) /\ Cardinality(s) \in Nat
           /\ Cardinality(s \ {a}) \in Nat /\ Cardinality(s \ {a}) < Cardinality(s)
<1>1. IsFiniteSet(s) /\ Cardinality(s) \in Nat
  BY FS_Subset, FS_CardinalityType
<1>2. PICK a : a = CHOOSE b \in s : TRUE
  OBVIOUS
<1>3. a \in s
  BY <1>2
<1>4. IsFiniteSet(s \ {a}) /\ Cardinality(s \ {a}) = Cardinality(s) - 1
  BY <1>1, <1>3, FS_RemoveElement
<1>5. Cardinality(s \ {a}) \in Nat
  BY <1>4, FS_CardinalityType
<1> QED BY <1>1, <1>2, <1>3, <1>4, <1>5

LEMMA SumStepLooksBelow ==
    ASSUME NEW S, IsFiniteSet(S), NEW n \in Nat, NEW s \in SUBSET S, Cardinality(s) < n + 1, NEW sum, NEW other,
           \A r \in SUBSET S : Cardinality(r) < n => other[r] = sum[r]
    PROVE  SumStep(other, s) = SumStep(sum, s)
<1>1. CASE s = {}
  BY <1>1 DEF SumStep
<1>2. CASE s # {}
  <2>1. PICK a : a = CHOOSE b \in s : TRUE
    OBVIOUS
  <2>2. s \ {a} \in SUBSET S /\ Cardinality(s \ {a}) < n
    <3>1. /\ s \ {a} \in SUBSET S /\ Cardinality(s) \in Nat
          /\ Cardinality(s \ {a}) \in Nat /\ Cardinality(s \ {a}) < Cardinality(s)
      BY <1>2, <2>1, OneLess
    <3> QED BY <3>1
  <2>3. other[s \ {a}] = sum[s \ {a}]
    BY <2>2
  <2> QED BY <1>2, <2>1, <2>3 DEF SumStep
<1> QED BY <1>1, <1>2

LEMMA SumExists ==
    ASSUME NEW S, IsFiniteSet(S), NEW n \in Nat
    PROVE  \E sum : Sums(S, n, sum)
<1> DEFINE Bad == {k \in Nat : ~ \E sum : Sums(S, k, sum)}
<1>1. SUFFICES ASSUME Bad # {} PROVE FALSE
  OBVIOUS
<1>2. PICK k \in Bad : \A j \in Bad : k =< j
  BY <1>1, LeastExists
<1>3. Sums(S, 0, S)
  <2>1. ASSUME NEW s \in SUBSET S PROVE ~(Cardinality(s) < 0)
    <3>1. Cardinality(s) \in Nat
      BY FS_Subset, FS_CardinalityType
    <3> QED BY <3>1
  <2> QED BY <2>1 DEF Sums
<1>4. k # 0
  BY <1>2, <1>3
<1>5. PICK j \in Nat : k = j + 1
  BY <1>2, <1>4
<1>6. j \notin Bad
  BY <1>2, <1>5
<1>7. PICK sum : Sums(S, j, sum)
  BY <1>6
<1>8. PICK more : more = [s \in SUBSET S |-> IF Cardinality(s) < j THEN sum[s] ELSE SumStep(sum, s)]
  OBVIOUS
<1>9. \A r \in SUBSET S : Cardinality(r) < j => more[r] = sum[r]
  BY <1>8
<1>10. ASSUME NEW s \in SUBSET S, Cardinality(s) < k PROVE more[s] = SumStep(more, s)
  <2>1. Cardinality(s) < j + 1
    BY <1>5, <1>10
  <2>2. SumStep(more, s) = SumStep(sum, s)
    BY <1>9, <2>1, SumStepLooksBelow
  <2>3. CASE Cardinality(s) < j
    BY <1>7, <1>9, <2>2, <2>3 DEF Sums
  <2>4. CASE ~(Cardinality(s) < j)
    BY <1>8, <2>2, <2>4
  <2> QED BY <2>3, <2>4
<1>11. Sums(S, k, more)
  BY <1>10 DEF Sums
<1> QED BY <1>2, <1>11

\* So the sum of a finite set of rows is defined, and takes one after another.
LEMMA SumIsDefined ==
    ASSUME NEW S, IsFiniteSet(S)
    PROVE  \E sum : /\ MapThenSumSet(OpenFor, S) = sum[S]
                    /\ \A s \in SUBSET S : sum[s] = SumStep(sum, s)
<1> DEFINE Def(w) == [s \in SUBSET S |-> SumStep(w, s)]
           result == CHOOSE w : w = Def(w)
<1>1. MapThenSumSet(OpenFor, S) = result[S]
  BY DEF MapThenSumSet, MapThenFoldSet, SumStep
<1>2. PICK n : n = Cardinality(S) + 1
  OBVIOUS
<1>3. n \in Nat /\ Cardinality(S) \in Nat
  BY <1>2, FS_CardinalityType
<1>4. PICK sum : Sums(S, n, sum)
  BY <1>3, SumExists
<1>5. \A s \in SUBSET S : Cardinality(s) \in Nat /\ Cardinality(s) < n
  <2> TAKE s \in SUBSET S
  <2>1. Cardinality(s) \in Nat /\ Cardinality(s) =< Cardinality(S)
    BY FS_Subset, FS_CardinalityType
  <2> QED BY <1>2, <1>3, <2>1
<1>6. PICK table : table = [s \in SUBSET S |-> sum[s]]
  OBVIOUS
<1>7. ASSUME NEW s \in SUBSET S PROVE table[s] = SumStep(table, s)
  <2>1. Cardinality(s) < n + 1
    BY <1>3, <1>5
  <2>2. SumStep(table, s) = SumStep(sum, s)
    BY <1>3, <1>6, <2>1, SumStepLooksBelow
  <2> QED BY <1>4, <1>5, <1>6, <2>2 DEF Sums
<1>8. table = Def(table)
  BY <1>6, <1>7
<1>9. result = Def(result)
  BY <1>8
<1> HIDE DEF result
<1> QED BY <1>1, <1>9

Covered(s) == UNION {CoveredBy(a) : a \in s}

Apart(s) == \A a, b \in s : a # b => CoveredBy(a) \intersect CoveredBy(b) = {}

\* The sum of some rows is no less than what they cover together, and no more
\* if no two of them cover the same.
Fits(sum, s) ==
    /\ sum[s] \in Nat /\ IsFiniteSet(Covered(s)) /\ Cardinality(Covered(s)) \in Nat
    /\ Cardinality(Covered(s)) =< sum[s]
    /\ Apart(s) => Cardinality(Covered(s)) = sum[s]

LEMMA SumsFit ==
    ASSUME DowntimeInv, NEW S \in SUBSET alert, IsFiniteSet(S), NEW sum,
           \A s \in SUBSET S : sum[s] = SumStep(sum, s)
    PROVE  Fits(sum, S)
<1> DEFINE Bad == {Cardinality(s) : s \in {r \in SUBSET S : ~Fits(sum, r)}}
<1>1. SUFFICES ASSUME ~Fits(sum, S) PROVE FALSE
  OBVIOUS
<1>2. Bad \in SUBSET Nat /\ Bad # {}
  <2>1. \A s \in SUBSET S : Cardinality(s) \in Nat
    BY FS_Subset, FS_CardinalityType
  <2> QED BY <1>1, <2>1
<1>3. PICK k \in Bad : \A j \in Bad : k =< j
  BY <1>2, LeastExists
<1>4. PICK s \in SUBSET S : ~Fits(sum, s) /\ k = Cardinality(s)
  BY <1>3
<1>5. \A r \in SUBSET S : Cardinality(r) \in Nat /\ Cardinality(r) < Cardinality(s) => Fits(sum, r)
  BY <1>2, <1>3, <1>4
<1> HIDE DEF Bad
<1>6. CASE s = {}
  <2>1. Covered(s) = {} /\ sum[s] = 0
    BY <1>6 DEF Covered, SumStep
  <2>2. IsFiniteSet({}) /\ Cardinality({}) = 0
    BY FS_EmptySet
  <2> QED BY <1>4, <2>1, <2>2 DEF Fits
<1>7. CASE s # {}
  <2>1. PICK a : a = CHOOSE b \in s : TRUE
    OBVIOUS
  <2>2. PICK r : r = s \ {a}
    OBVIOUS
  <2>3. a \in s /\ a \in alert /\ r \in SUBSET S /\ Fits(sum, r)
    <3>1. a \in s /\ r \in SUBSET S /\ Cardinality(r) \in Nat /\ Cardinality(r) < Cardinality(s)
      BY <1>7, <2>1, <2>2, OneLess
    <3> QED BY <1>5, <3>1
  <2>4. sum[s] = OpenFor(a) + sum[r]
    BY <1>7, <2>1, <2>2 DEF SumStep
  <2>5. IsFiniteSet(CoveredBy(a)) /\ Cardinality(CoveredBy(a)) = OpenFor(a) /\ OpenFor(a) \in Nat
    BY <2>3, OpenForIsCovered
  <2>6. Covered(s) = CoveredBy(a) \union Covered(r)
    BY <2>2, <2>3 DEF Covered
  <2>7. PICK both : both = CoveredBy(a) \intersect Covered(r)
    OBVIOUS
  <2>8. /\ IsFiniteSet(Covered(s))
        /\ Cardinality(Covered(s)) = Cardinality(CoveredBy(a)) + Cardinality(Covered(r)) - Cardinality(both)
    BY <2>3, <2>5, <2>6, <2>7, FS_Union DEF Fits
  <2>9. Cardinality(both) \in Nat /\ Cardinality(Covered(s)) \in Nat
    <3>1. both \in SUBSET CoveredBy(a)
      BY <2>7
    <3> QED BY <2>5, <2>8, <3>1, FS_Subset, FS_CardinalityType
  <2>10. Apart(s) => Apart(r) /\ both = {}
    BY <2>2, <2>3, <2>7 DEF Apart, Covered
  <2>11. both = {} => Cardinality(both) = 0
    BY FS_EmptySet
  <2>12. Fits(sum, s)
    BY <2>3, <2>4, <2>5, <2>8, <2>9, <2>10, <2>11 DEF Fits
  <2> QED BY <1>4, <2>12
<1> QED BY <1>6, <1>7

-----------------------------------------------------------------------------
\* No two rows that cover something begin together.
RowsBeginApart ==
    \A a \in alert :
        /\ a.to = 0 \/ a.from =< a.to
        /\ \A b \in alert : a.of = b.of /\ a.from = b.from /\ a # b => a.to = a.from \/ b.to = b.from

LEMMA RowsBeginApartOK ==
    ASSUME DowntimeInv, RowsBeginApart, NEW m \in Monitor, AlertEndpoint(m)
    PROVE  RowsBeginApart'
<1>1. /\ seconds \in Nat \ {0}
      /\ \A a \in alert : a.from \in Nat \ {0} /\ a.to \in Nat /\ a.from =< seconds /\ a.to =< seconds
  BY EndpointAssumption DEF DowntimeInv, EndpointInv, EndpointTypes, RowsAreInTime
<1>2. PICK new : new = [of |-> m, from |-> seconds, to |-> 0]
  OBVIOUS
<1>3. \A a \in alert : a = [of |-> a.of, from |-> a.from, to |-> a.to]
  BY DEF DowntimeInv, EndpointInv, EndpointTypes
<1>4. CASE alert' = alert
  BY <1>4 DEF RowsBeginApart
<1>5. CASE alert' = alert \union {new}
  <2>1. ASSUME NEW a \in alert, a.of = m, a.from = seconds, a # new PROVE a.to = a.from
    <3>1. a.to # 0
      BY <1>2, <1>3, <2>1
    <3> QED BY <1>1, <2>1, <3>1 DEF RowsBeginApart
  <2>2. new.of = m /\ new.from = seconds /\ new.to = 0
    BY <1>2
  <2> QED BY <1>5, <2>1, <2>2 DEF RowsBeginApart
<1>6. CASE alert' = Resolve(m)
  <2> DEFINE Now(a) == IF a \in Unresolved(m) THEN [a EXCEPT !.to = seconds] ELSE a
  <2>1. \A a \in alert' : \E b \in alert : a = Now(b)
    BY <1>6 DEF Resolve, Unresolved
  <2>2. \A b \in alert : /\ Now(b).of = b.of /\ Now(b).from = b.from
                         /\ b.to # 0 => Now(b) = b
                         /\ Now(b).to = b.to \/ Now(b).to = seconds
    BY <1>3 DEF Unresolved
  <2> HIDE DEF Now
  <2>3. ASSUME NEW a \in alert', NEW b \in alert'
        PROVE  /\ a.to = 0 \/ a.from =< a.to
               /\ a.of = b.of /\ a.from = b.from /\ a # b => a.to = a.from \/ b.to = b.from
    <3>1. PICK c \in alert, d \in alert : a = Now(c) /\ b = Now(d)
      BY <2>1
    <3>2. a.to = 0 \/ a.from =< a.to
      BY <1>1, <2>2, <3>1 DEF RowsBeginApart
    <3>3. ASSUME a.of = b.of, a.from = b.from, a # b PROVE a.to = a.from \/ b.to = b.from
      <4>1. c.of = d.of /\ c.from = d.from /\ c # d
        BY <2>2, <3>1, <3>3
      <4>2. c.to = c.from \/ d.to = d.from
        BY <4>1 DEF RowsBeginApart
      <4>3. c.from # 0 /\ d.from # 0
        BY <1>1
      <4> QED BY <2>2, <3>1, <4>2, <4>3
    <3> QED BY <3>2, <3>3
  <2> QED BY <2>3 DEF RowsBeginApart
<1> QED BY <1>2, <1>4, <1>5, <1>6 DEF AlertEndpoint

RowsInv == DowntimeInv /\ RowsBeginApart

LEMMA RowsStepOK == RowsInv /\ [EndpointNext]_endpointVars => RowsInv'
<1> SUFFICES ASSUME RowsInv, [EndpointNext]_endpointVars PROVE RowsInv'
  OBVIOUS
<1>1. DowntimeInv'
  BY DowntimeStepOK DEF RowsInv
<1>2. ASSUME UNCHANGED alert PROVE RowsInv'
  BY <1>1, <1>2 DEF RowsInv, RowsBeginApart
<1>3. ASSUME NEW m \in Monitor, AlertEndpoint(m) PROVE RowsInv'
  BY <1>1, <1>3, RowsBeginApartOK DEF RowsInv
<1>4. (\E m \in Monitor : AlertEndpoint(m)) \/ UNCHANGED alert
  BY DEF EndpointNext, SecondPasses, CheckerTick, CheckHere, CheckByAgent, Judged, CheckIsNotRecorded, AlertIsLost,
         CheckByHand, Enable, endpointVars
<1> QED BY <1>2, <1>3, <1>4

LEMMA RowsAddUp ==
    ASSUME RowsInv
    PROVE  DowntimeIsCounted
<1> SUFFICES ASSUME NEW m \in Monitor, Alone(m)
             PROVE  LET true == Cardinality({s \in down[m] : s >= seconds - SlaWindow})
                        overlap == \E a, b \in alert : a.of = m /\ b.of = m /\ a.from < b.from
                                                       /\ (a.to = 0 \/ b.from < a.to)
                    IN Downtime(m) >= true /\ (~overlap => Downtime(m) = true)
  BY DEF DowntimeIsCounted
<1>1. DowntimeInv /\ RowsBeginApart
  BY DEF RowsInv
<1>2. /\ seconds \in Nat \ {0} /\ SlaWindow \in Nat
      /\ \A a \in alert : a.from \in Nat \ {0} /\ a.to \in Nat /\ a.from =< seconds /\ a.to =< seconds
  BY <1>1, EndpointAssumption DEF DowntimeInv, EndpointInv, EndpointTypes, RowsAreInTime
<1>3. PICK rows : rows = {a \in alert : a.of \in SameName(m) /\ (a.to = 0 \/ a.to >= seconds - SlaWindow)}
  OBVIOUS
<1>4. rows \in SUBSET alert /\ \A a \in alert : a \in rows <=> a.of = m /\ (a.to = 0 \/ a.to >= seconds - SlaWindow)
  BY <1>3 DEF Alone
<1>5. IsFiniteSet(rows)
  <2> DEFINE times == (1..EndSecond) \X (0..EndSecond)
  <2>1. IsFiniteSet(times)
    <3>1. 0 \in Int /\ 1 \in Int /\ EndSecond \in Int
      BY EndpointAssumption
    <3>2. IsFiniteSet(1..EndSecond) /\ IsFiniteSet(0..EndSecond)
      BY <3>1, FS_Interval
    <3> QED BY <3>2, FS_Product
  <2>2. PICK f : f = [a \in rows |-> <<a.from, a.to>>]
    OBVIOUS
  <2>3. \A a \in rows : a = [of |-> m, from |-> a.from, to |-> a.to] /\ a.from \in 1..EndSecond /\ a.to \in 0..EndSecond
    BY <1>1, <1>4 DEF DowntimeInv, EndpointInv, EndpointTypes
  <2>4. f \in [rows -> times]
    BY <2>2, <2>3
  <2>5. \A a, b \in rows : f[a] = f[b] => a = b
    BY <2>2, <2>3
  <2>6. f \in Injection(rows, times)
    BY <2>4, <2>5 DEF Injection, IsInjective
  <2> QED BY <2>1, <2>6, FS_Injection
<1>6. PICK sum : /\ MapThenSumSet(OpenFor, rows) = sum[rows]
                 /\ \A s \in SUBSET rows : sum[s] = SumStep(sum, s)
  BY <1>5, SumIsDefined
<1>7. Downtime(m) = sum[rows]
  BY <1>3, <1>6 DEF Downtime
<1>8. Fits(sum, rows)
  BY <1>1, <1>4, <1>5, <1>6, SumsFit
<1>9. Covered(rows) = {s \in down[m] : s >= seconds - SlaWindow}
  <2>1. down[m] = {t \in 1..(seconds - 1) : SaidDown(m, t)}
    BY <1>1 DEF DowntimeInv, DownIsCovered
  <2>2. ASSUME NEW t \in Covered(rows) PROVE t \in down[m] /\ t >= seconds - SlaWindow
    <3>1. PICK a \in rows : t \in CoveredBy(a)
      BY DEF Covered
    <3> QED BY <1>4, <2>1, <3>1 DEF CoveredBy, SaidDown
  <2>3. ASSUME NEW t \in down[m], t >= seconds - SlaWindow PROVE t \in Covered(rows)
    <3>1. t \in 1..(seconds - 1)
      BY <2>1
    <3>2. PICK a \in alert : a.of = m /\ a.from =< t /\ (a.to = 0 \/ t < a.to)
      BY <2>1 DEF SaidDown
    <3>3. a.to = 0 \/ a.to >= seconds - SlaWindow
      BY <1>2, <2>3, <3>1, <3>2
    <3>4. a \in rows /\ t \in CoveredBy(a)
      BY <1>4, <2>3, <3>1, <3>2, <3>3 DEF CoveredBy
    <3> QED BY <3>4 DEF Covered
  <2> QED BY <2>2, <2>3
<1>10. ASSUME \A a, b \in alert : a.of = m /\ b.of = m /\ a.from < b.from => ~(a.to = 0 \/ b.from < a.to)
       PROVE  Apart(rows)
  <2> SUFFICES ASSUME NEW a \in rows, NEW b \in rows, a # b, NEW t \in CoveredBy(a) \intersect CoveredBy(b)
               PROVE  FALSE
    BY DEF Apart
  <2>1. /\ a \in alert /\ b \in alert /\ a.of = m /\ b.of = m /\ t \in Nat
        /\ a.from =< t /\ (a.to = 0 \/ t < a.to) /\ b.from =< t /\ (b.to = 0 \/ t < b.to)
    BY <1>2, <1>4 DEF CoveredBy
  <2>2. a.from \in Nat \ {0} /\ a.to \in Nat /\ b.from \in Nat \ {0} /\ b.to \in Nat
    BY <1>2, <2>1
  <2>3. ~(a.from < b.from)
    BY <1>10, <2>1, <2>2
  <2>4. ~(b.from < a.from)
    BY <1>10, <2>1, <2>2
  <2>5. a.to = a.from \/ b.to = b.from
    BY <1>1, <2>1, <2>2, <2>3, <2>4 DEF RowsBeginApart
  <2> QED BY <2>1, <2>2, <2>5
<1> QED BY <1>7, <1>8, <1>9, <1>10 DEF Fits

\* The downtime that get_sla reports of an endpoint whose name is its own and of
\* which no alert was lost is never less than the seconds in which the checker's
\* verdict was that it is down, and no more if no alert was inserted while
\* another one was open: the sum counts each second of the window.
THEOREM DowntimesAddUp == EndpointSpec => []DowntimeIsCounted
<1>1. EndpointInit => RowsInv
  <2>1. EndpointInit => RowsBeginApart
    BY DEF EndpointInit, RowsBeginApart
  <2> QED BY <2>1, DowntimeInitOK DEF RowsInv
<1> QED BY <1>1, RowsStepOK, RowsAddUp, PTL DEF EndpointSpec

-----------------------------------------------------------------------------
(***************************************************************************)
(* Alert rules.                                                            *)
(***************************************************************************)

Alert == [rule : Rule, by : Collector, at : 1..AlertClock, notified : BOOLEAN, row : 0..AlertClock]
AtWork == [at : {"rule", "notify"}, rule : Rule, disabled : BOOLEAN, suppress : BOOLEAN]

AlertsTypes ==
    /\ instant \in 1..AlertClock
    /\ windows \in [disabled : BOOLEAN, suppress : BOOLEAN]
    /\ sent \in [Rule -> 0..instant] /\ found \in [Rule -> 0..instant]
    /\ collecting \in [Collector -> {AtRest} \union AtWork]
    /\ fired \subseteq Alert

\* The cooldown of a rule counts from the last alert that was fired for it.
SentIsLast ==
    /\ \A f \in fired : f.at =< sent[f.rule]
    /\ \A r \in Rule : sent[r] # 0 => \E f \in fired : f.rule = r /\ f.at = sent[r]

AlertInv == AlertsTypes /\ SentIsLast /\ AlertsAreSpaced /\ FoundIsFired

LEMMA AlertInitOK == AlertInit => AlertInv
  BY AlertAssumption DEF AlertInit, AlertInv, AlertsTypes, AtRest, SentIsLast, AlertsAreSpaced, FoundIsFired

\* A step that fires nothing and finds nothing.
LEMMA NothingFires ==
    ASSUME AlertInv, AlertsTypes', UNCHANGED <<sent, fired, found>>
    PROVE  AlertInv'
  BY DEF AlertInv, SentIsLast, AlertsAreSpaced, FoundIsFired

LEMMA FireOK ==
    ASSUME AlertInv, NEW c \in Collector, Fire(c)
    PROVE  AlertInv'
<1> DEFINE r == collecting[c].rule
           f == [rule |-> r, by |-> c, at |-> instant, notified |-> ~collecting[c].suppress, row |-> 0]
<1>1. /\ collecting[c] \in AtWork /\ r \in Rule /\ instant \in 1..AlertClock
      /\ AlertClock \in Nat /\ Cooldown \in Nat \ {0}
  BY AlertAssumption DEF AlertInv, AlertsTypes, Fire, AtRest, AtWork
<1>2. /\ sent' = [sent EXCEPT ![r] = instant] /\ found' = [found EXCEPT ![r] = instant]
      /\ fired' = fired \union {f} /\ CooledDown(r)
      /\ collecting' = [collecting EXCEPT ![c].at = "notify"] /\ UNCHANGED <<instant, windows>>
  BY DEF Fire
<1>3. f \in Alert /\ f.rule = r /\ f.at = instant
  BY <1>1 DEF Alert, AtWork
<1> HIDE DEF f, r
<1>4. AlertsTypes'
  <2>1. sent' \in [Rule -> 0..instant] /\ found' \in [Rule -> 0..instant]
    BY <1>1, <1>2 DEF AlertInv, AlertsTypes
  <2>2. [collecting[c] EXCEPT !.at = "notify"] \in AtWork
    BY <1>1 DEF AtWork
  <2>3. collecting' \in [Collector -> {AtRest} \union AtWork]
    BY <1>2, <2>2 DEF AlertInv, AlertsTypes
  <2> QED BY <1>2, <1>3, <2>1, <2>3 DEF AlertInv, AlertsTypes
<1>5. \A g \in Alert : g.at \in 1..AlertClock /\ g.rule \in Rule
  BY DEF Alert
<1>6. \A s \in Rule : sent[s] \in 0..instant /\ found[s] \in 0..instant
  BY DEF AlertInv, AlertsTypes
<1>7. \A s \in Rule : /\ sent'[s] = IF s = r THEN instant ELSE sent[s]
                      /\ found'[s] = IF s = r THEN instant ELSE found[s]
  BY <1>2 DEF AlertInv, AlertsTypes
<1>8. fired \subseteq Alert
  BY DEF AlertInv, AlertsTypes
<1>9. SentIsLast'
  BY <1>1, <1>2, <1>3, <1>5, <1>6, <1>7, <1>8 DEF AlertInv, SentIsLast
<1>10. \A g \in fired : g.rule = r => instant - g.at >= Cooldown
  BY <1>1, <1>2, <1>5, <1>6, <1>8 DEF AlertInv, SentIsLast, CooledDown
<1>11. AlertsAreSpaced'
  BY <1>2, <1>3, <1>10 DEF AlertInv, AlertsAreSpaced
<1>12. FoundIsFired'
  BY <1>1, <1>2, <1>3, <1>7 DEF AlertInv, FoundIsFired
<1> QED BY <1>4, <1>9, <1>11, <1>12 DEF AlertInv

LEMMA SuppressedOK ==
    ASSUME AlertInv, NEW c \in Collector, Suppressed(c)
    PROVE  AlertInv'
<1> DEFINE r == collecting[c].rule
<1>1. /\ r \in Rule /\ instant \in 1..AlertClock
      /\ AlertClock \in Nat /\ Cooldown \in Nat \ {0}
  BY AlertAssumption DEF AlertInv, AlertsTypes, Suppressed, AtRest, AtWork
<1>2. /\ found' = [found EXCEPT ![r] = instant] /\ ~CooledDown(r)
      /\ collecting' = [collecting EXCEPT ![c] = AtRest] /\ UNCHANGED <<instant, windows, sent, fired>>
  BY DEF Suppressed
<1> HIDE DEF r
<1>3. AlertsTypes'
  BY <1>1, <1>2 DEF AlertInv, AlertsTypes
<1>4. sent[r] # 0 /\ sent[r] \in 0..instant /\ instant < sent[r] + Cooldown
  BY <1>1, <1>2 DEF AlertInv, AlertsTypes, CooledDown
<1>5. PICK f \in fired : f.rule = r /\ f.at = sent[r]
  BY <1>1, <1>4 DEF AlertInv, SentIsLast
<1>6. FoundIsFired'
  BY <1>1, <1>2, <1>4, <1>5 DEF AlertInv, FoundIsFired, AlertsTypes
<1> QED BY <1>2, <1>3, <1>6 DEF AlertInv, SentIsLast, AlertsAreSpaced

LEMMA RecordAlertOK ==
    ASSUME AlertInv, NEW c \in Collector, NEW written \in BOOLEAN, RecordAlert(c, written)
    PROVE  AlertInv'
<1>1. /\ collecting' = [collecting EXCEPT ![c] = AtRest]
      /\ UNCHANGED <<instant, windows, sent, found>>
  BY DEF RecordAlert
<1>0. PICK f \in fired : fired' = IF written THEN (fired \ {f}) \union {[f EXCEPT !.row = instant]} ELSE fired
  BY DEF RecordAlert
<1> DEFINE g == [f EXCEPT !.row = instant]
<1>2. fired' = fired \/ fired' = (fired \ {f}) \union {g}
  BY <1>0
<1>3. f \in Alert /\ g \in Alert /\ g.rule = f.rule /\ g.at = f.at
  BY AlertAssumption DEF AlertInv, AlertsTypes, Alert
<1> HIDE DEF g
<1>4. AlertsTypes'
  BY <1>1, <1>2, <1>3 DEF AlertInv, AlertsTypes
<1>5. SentIsLast'
  BY <1>1, <1>2, <1>3 DEF AlertInv, SentIsLast
<1>7. FoundIsFired'
  BY <1>1, <1>2, <1>3 DEF AlertInv, FoundIsFired
<1>6. AlertsAreSpaced'
  BY <1>2, <1>3 DEF AlertInv, AlertsAreSpaced
<1> QED BY <1>4, <1>5, <1>6, <1>7 DEF AlertInv

LEMMA AlertStepOK == AlertInv /\ [AlertNext]_alertVars => AlertInv'
<1> SUFFICES ASSUME AlertInv, [AlertNext]_alertVars PROVE AlertInv'
  OBVIOUS
<1>1. CASE UNCHANGED alertVars
  BY <1>1 DEF alertVars, AlertInv, AlertsTypes, SentIsLast, AlertsAreSpaced, FoundIsFired
<1>2. CASE InstantPasses \/ WindowsChange
  <2>1. AlertsTypes'
    BY <1>2, AlertAssumption DEF InstantPasses, WindowsChange, AlertInv, AlertsTypes
  <2> QED BY <1>2, <2>1, NothingFires DEF InstantPasses, WindowsChange
<1>3. ASSUME NEW c \in Collector, NEW r \in Rule, ConditionHolds(c, r) PROVE AlertInv'
  <2>1. [at |-> "rule", rule |-> r, disabled |-> windows.disabled, suppress |-> windows.suppress] \in AtWork
    BY DEF AlertInv, AlertsTypes, AtWork
  <2>2. AlertsTypes'
    BY <1>3, <2>1 DEF ConditionHolds, AlertInv, AlertsTypes
  <2> QED BY <1>3, <2>2, NothingFires DEF ConditionHolds
<1>4. ASSUME NEW c \in Collector, SkipDisabled(c) PROVE AlertInv'
  <2>1. AlertsTypes'
    BY <1>4 DEF SkipDisabled, AlertInv, AlertsTypes
  <2> QED BY <1>4, <2>1, NothingFires DEF SkipDisabled
<1> QED BY <1>1, <1>2, <1>3, <1>4, FireOK, SuppressedOK, RecordAlertOK DEF AlertNext

\* However many collectors find a rule to hold at once, its alerts are fired a
\* cooldown apart.
THEOREM AlertsKeepTheCooldown == AlertSpec => []AlertsAreSpaced
<1>1. AlertInv => AlertsAreSpaced
  BY DEF AlertInv
<1> QED BY <1>1, AlertInitOK, AlertStepOK, PTL DEF AlertSpec

\* A rule that holds outside windows that disable it was fired less than a
\* cooldown before.
THEOREM HeldRulesWereFired == AlertSpec => []FoundIsFired
<1>1. AlertInv => FoundIsFired
  BY DEF AlertInv
<1> QED BY <1>1, AlertInitOK, AlertStepOK, PTL DEF AlertSpec

-----------------------------------------------------------------------------
(***************************************************************************)
(* Maintenance windows.                                                    *)
(***************************************************************************)

MaintenanceTypes ==
    /\ time \in Time /\ cacheTs \in 0..time
    /\ window \in [Window -> [made : 0..LastTime + 1, ends : 0..LastTime + 1, active : BOOLEAN]]
    /\ cache \in [there : BOOLEAN, holds : SUBSET Window]
    /\ asker \in [Asker -> [at : {"idle", "query", "stamp", "answered"}, since : Time,
                            answer : SUBSET Window]]

\* Nobody asked in the future; a window that exists was made by now, and one
\* that is not active ended by now.
ClockIsAhead ==
    /\ \A t \in Asker : asker[t].since =< time
    /\ \A w \in Window : \/ window[w] = NoWindow
                         \/ window[w].made =< time /\ (window[w].active \/ window[w].ends =< time)

\* What is known of the windows as of time x: those made before and still open
\* are among them, those that an operator ended before are not.
AsOf(x, held) ==
    \A w \in Window :
        /\ window[w].made < x /\ time < window[w].ends => w \in held
        /\ ~window[w].active /\ window[w].ends < x => w \notin held

\* The cache is as recent as its stamp, and as any thread that is about to stamp it.
CacheIsRecent ==
    /\ AsOf(cacheTs, cache.holds)
    /\ \A t \in Asker : asker[t].at = "stamp" => AsOf(asker[t].since, cache.holds)

MaintenanceInv == MaintenanceTypes /\ ClockIsAhead /\ CacheIsRecent /\ AnswersAreRecent

LEMMA MaintenanceInitOK == MaintenanceInit => MaintenanceInv
<1> SUFFICES ASSUME MaintenanceInit PROVE MaintenanceInv
  OBVIOUS
<1>1. NoWindow \in [made : 0..LastTime + 1, ends : 0..LastTime + 1, active : BOOLEAN]
  BY MaintenanceAssumption DEF NoWindow
<1>2. MaintenanceTypes
  BY <1>1, MaintenanceAssumption DEF MaintenanceInit, MaintenanceTypes, Time, Resting
<1> QED BY <1>2, MaintenanceAssumption
     DEF MaintenanceInit, MaintenanceInv, ClockIsAhead, CacheIsRecent, AsOf, AnswersAreRecent,
         NoWindow, Resting, Time

\* A step of the clock or of a thread leaves what was known as of any time.
LEMMA StillAsOf ==
    ASSUME MaintenanceTypes, NEW x \in Nat, NEW held, AsOf(x, held),
           TimePasses \/ UNCHANGED <<time, window>>
    PROVE  AsOf(x, held)'
  BY DEF AsOf, TimePasses, MaintenanceTypes, Time

\* What the endpoints make of one window: it was made now, or it ends now.
LEMMA WindowAsChanged ==
    ASSUME MaintenanceTypes, NEW w \in Window, CreateWindow(w) \/ EndWindow(w)
    PROVE  /\ window' \in [Window -> [made : 0..LastTime + 1, ends : 0..LastTime + 1, active : BOOLEAN]]
           /\ \A v \in Window \ {w} : window'[v] = window[v]
           /\ UNCHANGED <<time, cache, cacheTs, asker>>
           /\ \/ window'[w].made = time /\ window'[w].active
              \/ /\ window'[w].made = window[w].made /\ window'[w].ends = time
                 /\ ~window'[w].active /\ window[w].active
<1> time \in 0..LastTime /\ time \in 0..LastTime + 1
  BY MaintenanceAssumption DEF MaintenanceTypes, Time
<1>1. CASE CreateWindow(w)
  <2> PICK ends \in time + 1..LastTime + 1 :
             window' = [window EXCEPT ![w] = [made |-> time, ends |-> ends, active |-> TRUE]]
    BY <1>1 DEF CreateWindow
  <2>1. [made |-> time, ends |-> ends, active |-> TRUE] \in [made : 0..LastTime + 1, ends : 0..LastTime + 1, active : BOOLEAN]
    BY MaintenanceAssumption
  <2> QED BY <1>1, <2>1 DEF CreateWindow, MaintenanceTypes
<1>2. CASE EndWindow(w)
  BY <1>2 DEF EndWindow, MaintenanceTypes
<1> QED BY <1>1, <1>2

\* A window that is made or ended now was neither made nor ended before.
LEMMA WindowsChangeNow ==
    ASSUME MaintenanceTypes, ClockIsAhead, NEW w \in Window, CreateWindow(w) \/ EndWindow(w),
           NEW x \in 0..time, NEW held, AsOf(x, held)
    PROVE  AsOf(x, held)'
  BY WindowAsChanged DEF AsOf, MaintenanceTypes, Time

\* The windows that are active now are known as of now.
LEMMA ActiveNow ==
    ASSUME MaintenanceTypes, ClockIsAhead, NEW x \in 0..time, NEW since \in 0..time
    PROVE  AsOf(x, {w \in Window : window[w].active /\ since < window[w].ends})
  BY DEF AsOf, ClockIsAhead, NoWindow, MaintenanceTypes, Time

LEMMA MaintenanceStepOK == MaintenanceInv /\ [MaintenanceNext]_maintenanceVars => MaintenanceInv'
<1> SUFFICES ASSUME MaintenanceInv, [MaintenanceNext]_maintenanceVars PROVE MaintenanceInv'
  OBVIOUS
<1> USE MaintenanceAssumption DEF MaintenanceInv
<1>0. /\ time \in Nat /\ cacheTs \in 0..time /\ CacheTTL \in Nat \ {0}
      /\ \A t \in Asker : asker[t].since \in 0..time
  BY DEF MaintenanceTypes, ClockIsAhead, Time
<1>1. ASSUME TimePasses \/ UNCHANGED maintenanceVars PROVE MaintenanceInv'
  <2>1. MaintenanceTypes'
    BY <1>1 DEF TimePasses, maintenanceVars, MaintenanceTypes, Time
  <2>4. /\ \A t \in Asker : asker'[t].since =< time'
        /\ \A w \in Window : \/ window'[w] = NoWindow
                             \/ window'[w].made =< time' /\ (window'[w].active \/ window'[w].ends =< time')
    <3>1. time' >= time /\ time' \in Nat /\ UNCHANGED <<window, asker>>
      BY <1>0, <1>1 DEF TimePasses, maintenanceVars
    <3>2. \A w \in Window : window[w].made \in Nat /\ window[w].ends \in Nat
      BY <1>0 DEF MaintenanceTypes
    <3> QED BY <1>0, <3>1, <3>2 DEF ClockIsAhead
  <2>2. CacheIsRecent'
    BY <1>0, <1>1, StillAsOf DEF TimePasses, maintenanceVars, CacheIsRecent
  <2>3. AnswersAreRecent'
    BY <1>1 DEF TimePasses, maintenanceVars, AnswersAreRecent, MaintenanceTypes, Time
  <2> QED BY <2>1, <2>2, <2>3, <2>4 DEF ClockIsAhead, NoWindow
<1>2. ASSUME NEW w \in Window, CreateWindow(w) \/ EndWindow(w) PROVE MaintenanceInv'
  <2>1. UNCHANGED <<time, cache, cacheTs, asker>>
    BY <1>2 DEF CreateWindow, EndWindow
  <2>2. MaintenanceTypes'
    BY <2>1, <1>2, WindowAsChanged DEF MaintenanceTypes
  <2>5. ClockIsAhead'
    <3>1. \/ window'[w].made = time /\ window'[w].active
          \/ window'[w].made =< time /\ window'[w].ends =< time
      BY <1>0, <1>2, WindowAsChanged DEF ClockIsAhead, NoWindow
    <3>2. \A v \in Window \ {w} : window'[v] = window[v]
      BY <1>2, WindowAsChanged
    <3>3. time =< time
      BY <1>0
    <3> QED BY <2>1, <3>1, <3>2, <3>3 DEF ClockIsAhead, NoWindow
  <2>3. CacheIsRecent'
    BY <1>0, <1>2, <2>1, WindowsChangeNow DEF CacheIsRecent
  <2>4. AnswersAreRecent'
    BY <1>0, <1>2, WindowAsChanged DEF AnswersAreRecent, MaintenanceTypes, Time
  <2> QED BY <2>2, <2>3, <2>4, <2>5
<1>3. ASSUME NEW t \in Asker, AskCached(t) PROVE MaintenanceInv'
  <2>1. /\ UNCHANGED <<time, window, cache, cacheTs>>
        /\ asker' = [asker EXCEPT ![t] = [at |-> "answered", since |-> time, answer |-> cache.holds]]
        /\ time - cacheTs < CacheTTL
    BY <1>3 DEF AskCached
  <2>2. /\ asker'[t] = [at |-> "answered", since |-> time, answer |-> cache.holds]
        /\ \A u \in Asker \ {t} : asker'[u] = asker[u]
    BY <2>1 DEF MaintenanceTypes
  <2>3. MaintenanceTypes' /\ ClockIsAhead'
    BY <2>1, <2>2 DEF MaintenanceTypes, ClockIsAhead, Time
  <2>4. CacheIsRecent'
    BY <2>1, <2>2 DEF CacheIsRecent, AsOf
  <2>5. AnswersAreRecent'
    BY <1>0, <2>1, <2>2 DEF AnswersAreRecent, CacheIsRecent, AsOf, MaintenanceTypes, Time
  <2> QED BY <2>3, <2>4, <2>5
<1>4. ASSUME NEW t \in Asker, AskAnew(t) PROVE MaintenanceInv'
  <2>1. /\ UNCHANGED <<time, window, cache, cacheTs>>
        /\ asker'[t] = [at |-> "query", since |-> time, answer |-> {}]
        /\ \A u \in Asker \ {t} : asker'[u] = asker[u]
    BY <1>4 DEF AskAnew, MaintenanceTypes
  <2>2. MaintenanceTypes'
    BY <1>4 DEF AskAnew, MaintenanceTypes, Time
  <2>3. ClockIsAhead'
    BY <1>0, <2>1 DEF ClockIsAhead
  <2> QED BY <2>1, <2>2, <2>3 DEF CacheIsRecent, AsOf, AnswersAreRecent
<1>5. ASSUME NEW t \in Asker, Query(t) PROVE MaintenanceInv'
  <2> DEFINE Now == {w \in Window : window[w].active /\ asker[t].since < window[w].ends}
  <2>1. UNCHANGED <<time, window, cacheTs>> /\ cache'.holds = Now
    BY <1>5 DEF Query
  <2>2. /\ asker'[t] = [asker[t] EXCEPT !.at = "stamp"]
        /\ \A u \in Asker \ {t} : asker'[u] = asker[u]
    BY <1>5 DEF Query, MaintenanceTypes
  <2>3. MaintenanceTypes' /\ \A u \in Asker : asker'[u].since = asker[u].since
    BY <1>5 DEF Query, MaintenanceTypes
  <2>4. \A x \in 0..time : AsOf(x, Now)
    BY <1>0, ActiveNow
  <2>5. CacheIsRecent'
    BY <1>0, <2>1, <2>3, <2>4 DEF CacheIsRecent, AsOf
  <2> QED BY <2>1, <2>2, <2>3, <2>5 DEF ClockIsAhead, AnswersAreRecent, MaintenanceTypes
<1>6. ASSUME NEW t \in Asker, Stamp(t) PROVE MaintenanceInv'
  <2>1. UNCHANGED <<time, window, cache>> /\ cacheTs' = asker[t].since /\ asker[t].at = "stamp"
    BY <1>6 DEF Stamp
  <2>2. /\ asker'[t] = [at |-> "answered", since |-> asker[t].since, answer |-> cache.holds]
        /\ \A u \in Asker \ {t} : asker'[u] = asker[u]
    BY <1>6 DEF Stamp, MaintenanceTypes
  <2>3. MaintenanceTypes' /\ ClockIsAhead'
    BY <1>0, <1>6, <2>1, <2>2 DEF Stamp, MaintenanceTypes, ClockIsAhead
  <2>4. CacheIsRecent'
    BY <2>1, <2>2 DEF CacheIsRecent, AsOf
  <2>5. AnswersAreRecent'
    BY <1>0, <2>1, <2>2 DEF AnswersAreRecent, CacheIsRecent, AsOf, MaintenanceTypes, Time
  <2> QED BY <2>3, <2>4, <2>5
<1>7. ASSUME NEW t \in Asker, Act(t) PROVE MaintenanceInv'
  <2>1. /\ UNCHANGED <<time, window, cache, cacheTs>>
        /\ asker'[t] = Resting /\ \A u \in Asker \ {t} : asker'[u] = asker[u]
    BY <1>7 DEF Act, MaintenanceTypes
  <2>2. MaintenanceTypes'
    BY <1>7 DEF Act, MaintenanceTypes, Time, Resting
  <2>3. ClockIsAhead'
    BY <1>0, <2>1 DEF ClockIsAhead, Resting
  <2> QED BY <2>1, <2>2, <2>3 DEF CacheIsRecent, AsOf, AnswersAreRecent, Resting
<1> QED BY <1>1, <1>2, <1>3, <1>4, <1>5, <1>6, <1>7 DEF MaintenanceNext

\* An answer about maintenance windows is no older than the cache may be,
\* whichever threads refresh the cache at once and however long each of them
\* waits between its query and its stamp.
THEOREM WindowsAreRecent == MaintenanceSpec => []AnswersAreRecent
<1>1. MaintenanceInv => AnswersAreRecent
  BY DEF MaintenanceInv
<1> QED BY <1>1, MaintenanceInitOK, MaintenanceStepOK, PTL DEF MaintenanceSpec

-----------------------------------------------------------------------------
(***************************************************************************)
(* However slow a tick is, the loop sleeps into a later minute than it     *)
(* ends in: no minute is ticked in twice, even while some are missed.      *)
(***************************************************************************)

\* However long the ticks take, no minute is ticked in twice: a tick that ends
\* sleeps into a later minute.
TickedBefore ==
    /\ ticked \in [0..Minutes -> 0..1]
    /\ quieted \subseteq 0..Minutes /\ cut \subseteq 0..Minutes
    /\ first \in 0..Minutes + 1 /\ slow \in BOOLEAN
    /\ loop.time \in 0..Last + 2 * Minute
    /\ loop.at = "sleep" => \A k \in 0..Minutes : ticked[k] # 0 => (k + 1) * Minute =< loop.time
    /\ loop.at = "tick" => loop.time =< clock /\ \A k \in 0..Minutes : ticked[k] # 0 => k * Minute =< clock

LEMMA MinuteOf ==
    ASSUME NEW t \in Nat
    PROVE  /\ t \div Minute \in Nat /\ t % Minute \in 0..Minute - 1
           /\ t = (t \div Minute) * Minute + (t % Minute)
  BY TickAssumption

LEMMA MinuteInRange == \A t \in 0..Last : t \div Minute \in 0..Minutes
<1> SUFFICES ASSUME NEW t \in 0..Last PROVE t \div Minute \in 0..Minutes
  OBVIOUS
<1>0. Minute \in Nat /\ Minute > 4 /\ Minutes \in Nat
  BY TickAssumption
<1>1. PICK q, r \in Nat : q = t \div Minute /\ t = q * Minute + r
  <2>1. t \in Nat
    BY <1>0 DEF Last
  <2> QED BY <2>1, MinuteOf, <1>0
<1>2. Minutes < q => (Minutes + 1) * Minute =< q * Minute
  BY <1>0, <1>1, MinutesInOrder
<1>3. (Minutes + 1) * Minute = Minutes * Minute + Minute /\ Minutes * Minute = Minute * Minutes
      /\ Minute * Minutes \in Nat /\ q * Minute \in Nat
  BY <1>0, <1>1, MinutesInOrder
<1>4. t =< Minute * Minutes /\ t \in Nat
  BY <1>0 DEF Last
<1> QED BY <1>0, <1>1, <1>2, <1>3, <1>4

LEMMA TickedInit == TickInit => TickedBefore
<1> SUFFICES ASSUME TickInit PROVE TickedBefore
  OBVIOUS
<1>1. /\ Minute \in Nat /\ Minute > 4 /\ Minutes \in Nat \ {0} /\ clock \in 0..Minute - 1
      /\ loop = [at |-> "sleep", time |-> clock + Minute - (clock % Minute)]
      /\ first = (clock \div Minute) + 1 /\ ticked = [m \in 0..Minutes |-> 0] /\ slow = FALSE
  BY TickAssumption DEF TickInit
<1>2. clock % Minute = clock /\ clock \div Minute = 0
  BY <1>1
<1>3. first = 1 /\ loop.time = Minute /\ loop.at = "sleep"
  BY <1>1, <1>2
<1>4. Last \in Nat
  BY <1>1 DEF Last
<1>5. loop.time \in 0..Last + 2 * Minute /\ first \in 0..Minutes + 1
  BY <1>1, <1>3, <1>4
<1>6. ticked \in [0..Minutes -> 0..1] /\ (\A k \in 0..Minutes : ticked[k] = 0)
      /\ quieted = {} /\ cut = {}
  BY <1>1 DEF TickInit
<1> QED BY <1>1, <1>3, <1>5, <1>6 DEF TickedBefore

LEMMA TickedStep == TickTypes /\ TickedBefore /\ [TickNext]_tickVars => TickedBefore'
<1> SUFFICES ASSUME TickTypes, TickedBefore, [TickNext]_tickVars PROVE TickedBefore'
  OBVIOUS
<1>0. /\ Minute \in Nat /\ Minute > 4 /\ Minutes \in Nat \ {0} /\ Last \in Nat
      /\ clock \in 0..Last /\ clock \in Nat /\ loop \in [at : {"sleep", "tick"}, time : Nat]
      /\ \A k \in 0..Minutes : k \in Nat /\ k * Minute \in Nat /\ (k + 1) * Minute = k * Minute + Minute
  BY TickAssumption, MinutesInOrder DEF Last, TickTypes
<1>1. CASE TickBegins
  <2>1. /\ loop = [at |-> "sleep", time |-> clock] /\ loop' = [at |-> "tick", time |-> clock]
        /\ \/ ticked' = [ticked EXCEPT ![clock \div Minute] = @ + 1] /\ UNCHANGED quieted
           \/ quieted' = quieted \union {clock \div Minute} /\ UNCHANGED ticked
        /\ UNCHANGED <<clock, cut, first, slow>>
    BY <1>1 DEF TickBegins
  <2>2. PICK q \in 0..Minutes, r \in 0..Minute - 1 : q = clock \div Minute /\ clock = q * Minute + r
    BY <1>0, MinuteOf, MinuteInRange
  <2>3. ticked[q] = 0
    <3>1. ticked[q] # 0 => (q + 1) * Minute =< clock
      BY <2>1 DEF TickedBefore
    <3>2. (q + 1) * Minute = q * Minute + Minute /\ q * Minute \in Nat
      BY <1>0
    <3> QED BY <1>0, <2>2, <3>1, <3>2
  <2>4. ticked' = [ticked EXCEPT ![q] = 1] \/ ticked' = ticked
    <3>1. ticked' = [ticked EXCEPT ![q] = @ + 1] \/ ticked' = ticked
      BY <2>1, <2>2
    <3> QED BY <2>3, <3>1
  <2>9. quieted' \subseteq 0..Minutes /\ cut' \subseteq 0..Minutes
    BY <2>1, <2>2 DEF TickedBefore
  <2>5. ASSUME NEW k \in 0..Minutes, ticked'[k] # 0 PROVE k * Minute =< clock
    <3>1. CASE k = q
      BY <1>0, <2>2, <3>1
    <3>2. CASE k # q
      BY <1>0, <2>1, <2>4, <2>5, <3>2 DEF TickedBefore
    <3> QED BY <3>1, <3>2
  <2>6. ticked' \in [0..Minutes -> 0..1]
    BY <2>4 DEF TickedBefore
  <2>7. slow' \in BOOLEAN
    BY <2>1, Zenon DEF TickedBefore
  <2>8. first' \in 0..Minutes + 1 /\ loop'.time \in 0..Last + 2 * Minute /\ loop'.at = "tick" /\ loop'.time =< clock'
    BY <1>0, <2>1 DEF TickedBefore
  <2> QED BY <2>1, <2>5, <2>6, <2>7, <2>8, <2>9 DEF TickedBefore
<1>2. CASE TickEnds \/ TickRaises
  <2>1. /\ loop.at = "tick" /\ loop' = [at |-> "sleep", time |-> clock + Wait(clock)]
        /\ UNCHANGED <<clock, ticked, quieted, first, slow>>
        /\ cut' = cut \/ cut' = cut \union {loop.time \div Minute}
    BY <1>2 DEF TickEnds, TickRaises, Sleep
  <2>7. cut' \subseteq 0..Minutes
    <3>1. loop.time \in 0..Last
      BY <1>0, <2>1 DEF TickedBefore
    <3>2. loop.time \div Minute \in 0..Minutes
      BY <3>1, MinuteInRange
    <3> QED BY <2>1, <3>2 DEF TickedBefore
  <2>2. PICK q \in Nat, r \in 0..Minute - 1 : r = clock % Minute /\ clock = q * Minute + r
    BY <1>0, MinuteOf
  <2>3. Wait(clock) \in Nat /\ Wait(clock) =< Minute /\ Wait(clock) >= Minute - r
    BY <1>0, <2>2 DEF Wait, Second
  <2>4. ASSUME NEW k \in 0..Minutes, ticked[k] # 0 PROVE (k + 1) * Minute =< loop'.time
    <3>1. k * Minute =< q * Minute + r
      BY <2>1, <2>2, <2>4 DEF TickedBefore
    <3>2. q < k => (q + 1) * Minute =< k * Minute
      BY <1>0, MinutesInOrder
    <3>3. (q + 1) * Minute = q * Minute + Minute /\ q * Minute \in Nat
      BY MinutesInOrder
    <3>4. k =< q
      BY <1>0, <3>1, <3>2, <3>3
    <3>5. k < q => (k + 1) * Minute =< q * Minute
      BY <1>0, MinutesInOrder
    <3>6. (k + 1) * Minute =< q * Minute + Minute
      BY <1>0, <3>3, <3>4, <3>5
    <3> QED BY <1>0, <2>1, <2>2, <2>3, <3>3, <3>6
  <2>5. slow' \in BOOLEAN
    BY <2>1, Zenon DEF TickedBefore
  <2>6. first' \in 0..Minutes + 1 /\ loop'.time \in 0..Last + 2 * Minute /\ loop'.at = "sleep"
        /\ ticked' \in [0..Minutes -> 0..1] /\ quieted' \subseteq 0..Minutes
    BY <1>0, <2>1, <2>3 DEF TickedBefore
  <2> QED BY <2>1, <2>4, <2>5, <2>6, <2>7 DEF TickedBefore
<1>3. CASE ClockAdvances
  <2>1. clock < Last /\ clock' = clock + 1 /\ UNCHANGED <<loop, ticked, quieted, cut, first>>
    BY <1>3 DEF ClockAdvances
  <2>2. slow' \in BOOLEAN
    <3>1. slow' = (slow \/ (loop.at = "tick" /\ clock - loop.time >= Minute - Second))
      BY <1>3 DEF ClockAdvances
    <3> QED BY <3>1, Zenon
  <2> QED BY <1>0, <2>1, <2>2 DEF TickedBefore
<1>4. CASE UNCHANGED tickVars
  <2>1. UNCHANGED <<clock, loop, ticked, quieted, cut, first, slow>>
    BY <1>4 DEF tickVars
  <2> QED BY <2>1 DEF TickedBefore
<1> QED BY <1>1, <1>2, <1>3, <1>4 DEF TickNext

\* No minute is matched against the schedules twice, be the ticks as slow as
\* they may.  As long as each ends a second before its minute would be over,
\* every minute since the scheduler started is matched against all of them, or
\* its tick found a maintenance window or met an exception.
THEOREM MinutesAreTicked == TickSpec => []EveryMinuteOnce
<1>1. TickInv /\ TickedBefore => EveryMinuteOnce
  <2> SUFFICES ASSUME TickInv, TickedBefore, NEW k \in 0..Minutes
               PROVE  /\ ticked[k] =< 1
                      /\ ~slow /\ first =< k /\ (k + 1) * Minute =< clock
                           => k \in Matched \union quieted \union cut
    BY DEF EveryMinuteOnce
  <2>1. ticked[k] =< 1 /\ DOMAIN ticked = 0..Minutes
    BY DEF TickedBefore
  <2>2. ~slow /\ first =< k /\ (k + 1) * Minute =< clock => ticked[k] = 1 \/ k \in quieted
    BY OnTimeIsOnce
  <2> QED BY <2>1, <2>2 DEF Matched
<1>2. TickInv /\ [TickNext]_tickVars => TickInv'
  BY TickStepOK
<1>3. TickInv => TickTypes
  BY DEF TickInv
<1> QED BY <1>1, <1>2, <1>3, TickInitOK, TickedInit, TickedStep, PTL DEF TickSpec

\* Clock, loop, minutes and field keep their types.
THEOREM TickTypesHold == TickSpec /\ CronSpec => []TickTypeOK
<1>1. TickTypes /\ TickedBefore /\ field \subseteq CronItem => TickTypeOK
  <2> SUFFICES ASSUME TickTypes, TickedBefore, field \subseteq CronItem PROVE TickTypeOK
    OBVIOUS
  <2>1. loop \in [at : {"sleep", "tick"}, time : 0..Last + 2 * Minute]
    BY DEF TickTypes, TickedBefore
  <2>2. ticked \in [0..Minutes -> 0..2]
    BY DEF TickedBefore
  <2>3. slow \in BOOLEAN
    BY Zenon DEF TickedBefore
  <2>4. {quieted, cut} \subseteq SUBSET (0..Minutes)
    BY DEF TickedBefore
  <2> QED BY <2>1, <2>2, <2>3, <2>4 DEF TickTypes, TickedBefore, TickTypeOK
<1>2. CronInit => field \subseteq CronItem
  BY DEF CronInit
<1>3. field \subseteq CronItem /\ [CronNext]_cronVars => (field \subseteq CronItem)'
  BY DEF CronNext, ReadItem, cronVars
<1>4. TickInv => TickTypes
  BY DEF TickInv
<1>5. TickInv /\ [TickNext]_tickVars => TickInv'
  BY TickStepOK
<1> QED BY <1>1, <1>2, <1>3, <1>4, <1>5, TickInitOK, TickedInit, TickedStep, PTL DEF TickSpec, CronSpec

\* A path is triggered for what was noted, and noted as it was written.
PathInOrder == path.triggered =< path.noted /\ path.noted =< path.written

\* Lists of items and what was remembered of them keep their types, and the
\* counts of a path stay within its changes: PathInOrder is why.
THEOREM FeedTypesHold == FeedSpec => []FeedTypeOK
<1>0. {FeedFaults, Changes} \subseteq Nat
  BY FeedAssumption
<1>1. FeedInit => FeedTypeOK /\ PathInOrder
  <2> SUFFICES ASSUME FeedInit PROVE FeedTypeOK /\ PathInOrder
    OBVIOUS
  <2>1. FeedTypes
    BY FeedInitOK DEF FeedInv
  <2>2. {initial, unread} \subseteq BOOLEAN /\ watchers \subseteq {"rss-trigger", "fs-trigger"}
    BY Zenon DEF FeedInit
  <2>3. path \in [written : 0..Changes, noted : 0..Changes, triggered : 0..Changes] /\ slipped \in 0..FeedFaults
        /\ withdrawn \subseteq FeedItem /\ path.triggered =< path.noted /\ path.noted =< path.written
    BY <1>0 DEF FeedInit
  <2> QED BY <2>1, <2>2, <2>3 DEF FeedTypes, FeedTypeOK, PathInOrder
<1>2. FeedInv /\ FeedInv' /\ FeedTypeOK /\ PathInOrder /\ [FeedNext]_feedVars => FeedTypeOK' /\ PathInOrder'
  <2> SUFFICES ASSUME FeedInv, FeedInv', FeedTypeOK, PathInOrder, [FeedNext]_feedVars
               PROVE  FeedTypeOK' /\ PathInOrder'
    OBVIOUS
  <2>1. FeedTypes'
    BY DEF FeedInv
  <2>2. {initial', unread'} \subseteq BOOLEAN
    <3>1. initial \in BOOLEAN /\ unread \in BOOLEAN
      BY DEF FeedTypeOK
    <3>2. initial' = initial \/ initial' = (initial /\ turn < Len(Feed))
      BY Zenon DEF FeedNext, Publish, Withdraw, Scan, ScanFails, Write, LookAtPath, NextTurn, feedVars
    <3>3. unread' = unread \/ unread' = (unread \/ initial)
      BY Zenon DEF FeedNext, Publish, Withdraw, Scan, ScanFails, Write, LookAtPath, NextTurn, feedVars
    <3> QED BY <3>1, <3>2, <3>3, Zenon
  <2>3. withdrawn' \subseteq FeedItem /\ watchers' \subseteq {"rss-trigger", "fs-trigger"}
    <3>1. withdrawn' \subseteq FeedItem
      BY DEF FeedTypeOK, FeedNext, Publish, Withdraw, Scan, ScanFails, Write, LookAtPath, feedVars
    <3>2. watchers' \subseteq watchers
      BY Zenon DEF FeedNext, Publish, Withdraw, Scan, ScanFails, Write, LookAtPath, Trigger, feedVars
    <3> QED BY <3>1, <3>2 DEF FeedTypeOK
  <2>4. slipped' \in 0..FeedFaults
    <3>1. UNCHANGED slipped \/ SlipUp
      BY DEF FeedNext, Publish, Withdraw, Scan, ScanFails, Write, LookAtPath, feedVars
    <3>2. slipped \in 0..FeedFaults
      BY DEF FeedTypeOK
    <3> QED BY <1>0, <3>1, <3>2 DEF SlipUp
  <2>5. /\ path' \in [written : 0..Changes, noted : 0..Changes, triggered : 0..Changes]
        /\ path'.triggered =< path'.noted /\ path'.noted =< path'.written
    <3>1. path \in [written : 0..Changes, noted : 0..Changes, triggered : 0..Changes]
      BY DEF FeedTypeOK
    <3> USE DEF PathInOrder
    <3>2. CASE Write
      BY <1>0, <3>1, <3>2 DEF Write
    <3>3. CASE LookAtPath
      <4>1. /\ path.written \in 0..Changes /\ path.noted \in 0..Changes /\ path.triggered \in 0..Changes
            /\ path.written > path.noted
        BY <3>1, <3>3 DEF LookAtPath
      <4>0. PICK n \in {0, 1} : path' = [path EXCEPT !.noted = path.written, !.triggered = @ + n]
        BY <3>3 DEF LookAtPath
      <4>2. path.triggered + n \in 0..Changes
        BY <1>0, <4>1
      <4>3. /\ path'.written = path.written /\ path'.noted = path.written
            /\ path'.triggered = path.triggered + n
            /\ path' \in [written : 0..Changes, noted : 0..Changes, triggered : 0..Changes]
        BY <3>1, <4>0, <4>1, <4>2
      <4> QED BY <1>0, <4>1, <4>3
    <3>4. Write \/ LookAtPath \/ UNCHANGED path
      BY DEF FeedNext, Publish, Withdraw, Scan, ScanFails, feedVars
    <3>5. CASE UNCHANGED path
      BY <3>1, <3>5
    <3> QED BY <3>2, <3>3, <3>4, <3>5
  <2> QED BY <2>1, <2>2, <2>3, <2>4, <2>5 DEF FeedTypes, FeedTypeOK, PathInOrder
<1> QED BY <1>1, <1>2, FeedInitOK, FeedStepOK, PTL DEF FeedSpec

\* Monitors, checks, alerts and downtimes keep their types.
THEOREM EndpointTypesHold == EndpointSpec => []EndpointTypeOK
<1>0. EndSecond \in Nat \ {0} /\ EndpointFaults \in Nat
  BY EndpointAssumption
<1>1. EndpointInit => EndpointTypeOK
  <2> SUFFICES ASSUME EndpointInit PROVE EndpointTypeOK
    OBVIOUS
  <2>1. EndpointTypes
    BY EndpointInitOK DEF EndpointInv
  <2> QED BY <1>0, <2>1 DEF EndpointTypes, EndpointInit, EndpointTypeOK
<1>2. EndpointInv /\ EndpointInv' /\ EndpointTypeOK /\ [EndpointNext]_endpointVars => EndpointTypeOK'
  <2> SUFFICES ASSUME EndpointInv, EndpointInv', EndpointTypeOK, [EndpointNext]_endpointVars PROVE EndpointTypeOK'
    OBVIOUS
  <2>1. EndpointTypes /\ EndpointTypes'
    BY DEF EndpointInv
  <2>2. monitor' \in [Monitor -> [checked : 0..EndSecond, enabled : BOOLEAN]]
    <3>1. monitor \in [Monitor -> [checked : 0..EndSecond, enabled : BOOLEAN]] /\ seconds \in 0..EndSecond
      BY <1>0, <2>1 DEF EndpointTypeOK, EndpointTypes
    <3>2. \/ UNCHANGED monitor
          \/ \E m \in Monitor : monitor' = [monitor EXCEPT ![m].checked = seconds]
          \/ \E m \in Monitor : monitor' = [monitor EXCEPT ![m].enabled = ~@]
      BY Zenon DEF EndpointNext, SecondPasses, CheckerTick, CheckHere, CheckByAgent, CheckIsNotRecorded, Judged,
         AlertEndpoint, AlertIsLost, CheckByHand, Enable, endpointVars
    <3>3. ASSUME NEW m \in Monitor, monitor' = [monitor EXCEPT ![m].checked = seconds]
          PROVE  monitor' \in [Monitor -> [checked : 0..EndSecond, enabled : BOOLEAN]]
      BY <3>1, <3>3
    <3>4. ASSUME NEW m \in Monitor, monitor' = [monitor EXCEPT ![m].enabled = ~@]
          PROVE  monitor' \in [Monitor -> [checked : 0..EndSecond, enabled : BOOLEAN]]
      <4>1. PICK e \in BOOLEAN : e = ~monitor[m].enabled
        BY <3>1
      <4>2. monitor' = [monitor EXCEPT ![m].enabled = e]
        BY <3>4, <4>1
      <4> QED BY <3>1, <4>2
    <3> QED BY <3>1, <3>2, <3>3, <3>4
  <2>3. down' \in [Monitor -> SUBSET (1..EndSecond)]
    <3>1. down \in [Monitor -> SUBSET (1..EndSecond)] /\ seconds \in 1..EndSecond
      BY <2>1 DEF EndpointTypeOK, EndpointTypes
    <3>2. SecondPasses \/ UNCHANGED down
      BY DEF EndpointNext, CheckerTick, CheckHere, CheckByAgent, CheckIsNotRecorded, Judged,
         AlertEndpoint, AlertIsLost, CheckByHand, Enable, endpointVars
    <3>3. CASE SecondPasses
      BY <3>1, <3>3 DEF SecondPasses
    <3> QED BY <3>1, <3>2, <3>3
  <2>4. strayed' \subseteq Monitor
    BY DEF EndpointTypeOK, EndpointNext, SecondPasses, CheckerTick, CheckHere, CheckByAgent, CheckIsNotRecorded, Judged,
       AlertEndpoint, AlertIsLost, CheckByHand, Enable, endpointVars
  <2>5. upsets' \in 0..EndpointFaults
    <3>1. Upset \/ UNCHANGED upsets
      BY DEF EndpointNext, SecondPasses, CheckerTick, CheckHere, CheckByAgent, CheckIsNotRecorded, Judged,
         AlertEndpoint, AlertIsLost, CheckByHand, Enable, endpointVars
    <3>2. upsets \in 0..EndpointFaults
      BY DEF EndpointTypeOK
    <3> QED BY <1>0, <3>1, <3>2 DEF Upset
  <2> QED BY <2>1, <2>2, <2>3, <2>4, <2>5 DEF EndpointTypes, EndpointTypeOK
<1> QED BY <1>1, <1>2, EndpointInitOK, EndpointStepOK, PTL DEF EndpointSpec

\* Rules, collectors and alerts keep their types.
THEOREM AlertTypesHold == AlertSpec => []AlertsTypeOK
<1>0. AlertClock \in Nat \ {0} /\ AlertFaults \in Nat
  BY AlertAssumption
<1>1. AlertInit => surprises \in 0..AlertFaults
  BY <1>0 DEF AlertInit
<1>2. surprises \in 0..AlertFaults /\ [AlertNext]_alertVars => (surprises \in 0..AlertFaults)'
  <2> SUFFICES ASSUME surprises \in 0..AlertFaults, [AlertNext]_alertVars PROVE surprises' \in 0..AlertFaults
    OBVIOUS
  <2>1. Surprise \/ UNCHANGED surprises
    BY DEF AlertNext, InstantPasses, WindowsChange, ConditionHolds, SkipDisabled, Fire, Suppressed, RecordAlert,
       alertVars
  <2> QED BY <1>0, <2>1 DEF Surprise
<1>3. AlertInv /\ surprises \in 0..AlertFaults => AlertsTypeOK
  <2> SUFFICES ASSUME AlertInv, surprises \in 0..AlertFaults PROVE AlertsTypeOK
    OBVIOUS
  <2>1. AlertsTypes
    BY DEF AlertInv
  <2>2. instant \in 1..AlertClock /\ sent \in [Rule -> 0..AlertClock] /\ found \in [Rule -> 0..AlertClock]
    BY <1>0, <2>1 DEF AlertsTypes
  <2>3. \A c \in Collector : \/ collecting[c] = AtRest
                             \/ collecting[c].at \in {"rule", "notify"} /\ collecting[c].rule \in Rule
    BY <2>1 DEF AlertsTypes, AtWork
  <2>4. \A f \in fired : f.rule \in Rule /\ f.by \in Collector /\ f.at \in 1..AlertClock
    BY <2>1 DEF AlertsTypes, Alert
  <2>5. windows \in [disabled : BOOLEAN, suppress : BOOLEAN]
    BY <2>1 DEF AlertsTypes
  <2> QED BY <2>2, <2>3, <2>4, <2>5 DEF AlertsTypeOK
<1> QED BY <1>1, <1>2, <1>3, AlertInitOK, AlertStepOK, PTL DEF AlertSpec

\* Windows, cache and askers keep their types.
THEOREM MaintenanceTypesHold == MaintenanceSpec => []MaintenanceTypeOK
<1>1. MaintenanceInv => MaintenanceTypeOK
  <2> SUFFICES ASSUME MaintenanceTypes PROVE MaintenanceTypeOK
    BY DEF MaintenanceInv
  <2>1. cacheTs \in Time
    BY MaintenanceAssumption DEF MaintenanceTypes, Time
  <2> QED BY <2>1 DEF MaintenanceTypes, MaintenanceTypeOK
<1> QED BY <1>1, MaintenanceInitOK, MaintenanceStepOK, PTL DEF MaintenanceSpec
=============================================================================
