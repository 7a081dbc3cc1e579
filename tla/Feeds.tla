------------------------------- MODULE Feeds -------------------------------
(***************************************************************************)
(* The triggers of scheduler.py that watch the world: RSSFeedWatcher polls *)
(* feeds and starts an automation when one has items it has not seen, and  *)
(* FSTriggerWatcher does so when the modification time of a path grows.    *)
(* Each is a thread of its own that goes through its list in turn.  What   *)
(* they saw is noted before the automation is started, and the trigger may *)
(* start nothing or end the thread.                                        *)
(***************************************************************************)
EXTENDS Naturals, Sequences

CONSTANTS Feed,     \* the configured feeds, in order: their URLs
          FeedItem,     \* items that appear in feeds
          Changes,  \* bound: writes to the watched path
          FeedFaults\* bound: failed scans, items that are withdrawn

ASSUME FeedAssumption ==
    Feed # <<>> /\ Feed \in Seq({Feed[i] : i \in DOMAIN Feed}) /\ {FeedFaults, Changes} \subseteq Nat

VARIABLES listing,    \* per URL: the items it lists
          seen,      \* _seen
          turn,      \* the feed the watcher scans next
          initial,   \* the first round, which triggers nothing
          started,   \* per feed: the items that started its automation
          missed,    \* per feed: the items whose trigger started nothing
          watchers,  \* the threads that run
          firstSeen, \* per URL: what was there in the first round
          unread,    \* the first scan of some feed failed
          withdrawn, \* items that were withdrawn from a feed
          slipped,
          path       \* the watched path: written, noted and triggered times

feedVars == <<listing, seen, turn, initial, started, missed, watchers,
              firstSeen, unread, withdrawn, slipped, path>>

Url == {Feed[i] : i \in DOMAIN Feed}

FeedTypeOK ==
    /\ \A f \in {listing, seen, firstSeen} : f \in [Url -> SUBSET FeedItem]
    /\ turn \in DOMAIN Feed /\ {initial, unread} \subseteq BOOLEAN /\ withdrawn \subseteq FeedItem
    /\ \A f \in {started, missed} : f \in [DOMAIN Feed -> SUBSET FeedItem]
    /\ watchers \subseteq {"rss-trigger", "fs-trigger"} /\ slipped \in 0..FeedFaults
    /\ path \in [written : 0..Changes, noted : 0..Changes, triggered : 0..Changes]

FeedInit ==
    /\ listing \in [Url -> SUBSET FeedItem]
    /\ seen = [u \in Url |-> {}] /\ firstSeen = seen
    /\ turn = 1 /\ initial = TRUE /\ unread = FALSE /\ withdrawn = {}
    /\ started = [i \in DOMAIN Feed |-> {}] /\ missed = started
    /\ watchers = {"rss-trigger", "fs-trigger"}
    /\ slipped = 0
    /\ path = [written |-> 0, noted |-> 0, triggered |-> 0]

SlipUp == slipped < FeedFaults /\ slipped' = slipped + 1

Publish(u, item) ==
    /\ item \notin listing[u] /\ item \notin withdrawn
    /\ listing' = [listing EXCEPT ![u] = @ \union {item}]
    /\ UNCHANGED <<seen, turn, initial, started, missed, watchers, firstSeen, unread,
                   withdrawn, slipped, path>>

\* A feed lists its latest items only.
Withdraw(u, item) ==
    /\ item \in listing[u] /\ SlipUp
    /\ listing' = [listing EXCEPT ![u] = @ \ {item}]
    /\ withdrawn' = withdrawn \union {item}
    /\ UNCHANGED <<seen, turn, initial, started, missed, watchers, firstSeen, unread, path>>

NextTurn ==
    /\ turn' = IF turn < Len(Feed) THEN turn + 1 ELSE 1
    /\ initial' = (initial /\ turn < Len(Feed))

SeenAfterFirstRound(u) == IF initial THEN seen ELSE [seen EXCEPT ![u] = listing[u]]

\* What _scan_feed remembers of a feed: what it lists now.
SeenNow(u) == [seen EXCEPT ![u] = listing[u]]

\* The outcomes of a trigger: _trigger_automation starts the automation, or
\* nothing (it is gone, has no builder or no steps, or the runner is full), and
\* an exception it lets through ends the thread of the watcher.
Trigger(watcher) == watchers' \in {watchers, watchers \ {watcher}}

\* _scan_feed, which notes the items as seen, and the trigger for those that
\* are new; the first round starts none.
Scan ==
    LET u   == Feed[turn]
        new == IF initial THEN {} ELSE listing[u] \ seen[u] IN
    /\ "rss-trigger" \in watchers
    /\ seen' = SeenNow(u)
    /\ firstSeen' = IF initial THEN [firstSeen EXCEPT ![u] = @ \union listing[u]] ELSE firstSeen
    /\ IF new = {} THEN UNCHANGED <<started, missed, watchers>> ELSE
        /\ \/ started' = [started EXCEPT ![turn] = @ \union new] /\ UNCHANGED missed
           \/ missed' = [missed EXCEPT ![turn] = @ \union new] /\ UNCHANGED started
        /\ Trigger("rss-trigger")
    /\ NextTurn
    /\ UNCHANGED <<listing, unread, withdrawn, slipped, path>>

\* A scan that fails is taken for one without new items, the first one too:
\* what was there then is new to the next.
ScanFails ==
    /\ "rss-trigger" \in watchers /\ SlipUp /\ NextTurn
    /\ unread' = (unread \/ initial)
    /\ firstSeen' = IF initial THEN [firstSeen EXCEPT ![Feed[turn]] = @ \union listing[Feed[turn]]]
                    ELSE firstSeen
    /\ UNCHANGED <<listing, seen, started, missed, watchers, withdrawn, path>>

-----------------------------------------------------------------------------
(* The file watcher. *)

Write ==
    /\ path.written < Changes
    /\ path' = [path EXCEPT !.written = @ + 1]
    /\ UNCHANGED <<listing, seen, turn, initial, started, missed, watchers, firstSeen, unread,
                   withdrawn, slipped>>

\* FSTriggerWatcher._loop: several writes since the last look trigger once, if
\* the trigger starts anything.
LookAtPath ==
    /\ "fs-trigger" \in watchers /\ path.written > path.noted
    /\ \E n \in {0, 1} : path' = [path EXCEPT !.noted = path.written, !.triggered = @ + n]
    /\ Trigger("fs-trigger")
    /\ UNCHANGED <<listing, seen, turn, initial, started, missed, firstSeen, unread, withdrawn,
                   slipped>>

FeedNext ==
    \/ \E u \in Url, item \in FeedItem : Publish(u, item) \/ Withdraw(u, item)
    \/ Scan \/ ScanFails \/ Write \/ LookAtPath

FeedSpec == FeedInit /\ [][FeedNext]_feedVars

-----------------------------------------------------------------------------
(* Properties. *)

\* A trigger is tried for every item that a scan sees and that was not there
\* when the watcher began, and for no item that was, when the feeds have URLs of
\* their own and their first scans succeeded.  It is tried once: an item whose
\* trigger started nothing never starts the automation later, because it was
\* seen.  (Two feeds of one URL share what they have seen: the second is not
\* triggered.)
NewItemsStart ==
    /\ ~unread /\ (\A i, j \in DOMAIN Feed : Feed[i] = Feed[j] => i = j) =>
        \A i \in DOMAIN Feed :
            /\ ~initial => seen[Feed[i]] \subseteq firstSeen[Feed[i]] \union started[i] \union missed[i]
            /\ (started[i] \union missed[i]) \cap firstSeen[Feed[i]] \subseteq withdrawn
    /\ \A i \in DOMAIN Feed : started[i] \cap missed[i] = {}
=============================================================================
