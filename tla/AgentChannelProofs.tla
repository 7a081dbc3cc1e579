------------------------- MODULE AgentChannelProofs -------------------------
(***************************************************************************)
(* For every number of commands, connections, losses and restarts: a       *)
(* command is executed at most once, or twice if the connection it was     *)
(* sent on is gone, and every result is that of a command that was         *)
(* executed.  A command has its place: the connection it was sent on, and  *)
(* at most one other.  The lemmas before the actions say what becomes of   *)
(* a command when a place is left, emptied, moved to another, or gives up  *)
(* its head.  From this and what callers and rows may become it follows    *)
(* that the channel implements CommandDelivery; the types come last.       *)
(***************************************************************************)
EXTENDS AgentChannel, Extremes, SequenceTheorems, FiniteSetTheorems

Among(c, s) == \E i \in DOMAIN s : s[i] = c

Once(c, s) == \A i, j \in DOMAIN s : s[i] = c /\ s[j] = c => i = j

LEMMA Appended ==
    ASSUME NEW s \in Seq(Command), NEW d \in Command
    PROVE  /\ Append(s, d) \in Seq(Command)
           /\ \A c : Among(c, Append(s, d)) => Among(c, s) \/ c = d
           /\ \A c : Once(c, s) /\ ~(Among(c, s) /\ c = d) => Once(c, Append(s, d))
<1> DEFINE a == Append(s, d)
<1>1. /\ a \in Seq(Command) /\ Len(a) = Len(s) + 1 /\ Len(s) \in Nat /\ DOMAIN a = 1..Len(a)
      /\ DOMAIN s = 1..Len(s) /\ a[Len(a)] = d /\ \A i \in 1..Len(s) : a[i] = s[i]
  BY AppendProperties, LenProperties
<1>2. \A i \in DOMAIN a : \/ i \in DOMAIN s /\ a[i] = s[i]
                          \/ i = Len(a) /\ i \notin DOMAIN s /\ a[i] = d
  BY <1>1
<1> HIDE DEF a
<1>3. \A c : Among(c, a) => Among(c, s) \/ c = d
  BY <1>2 DEF Among
<1>4. ASSUME NEW c, Once(c, s), ~(Among(c, s) /\ c = d) PROVE Once(c, a)
  BY <1>2, <1>4 DEF Once, Among
<1> QED BY <1>1, <1>3, <1>4 DEF a

LEMMA Taken ==
    ASSUME NEW s \in Seq(Command), s # <<>>
    PROVE  /\ Tail(s) \in Seq(Command) /\ Head(s) \in Command /\ Among(Head(s), s)
           /\ \A c : Among(c, Tail(s)) => Among(c, s)
           /\ \A c : Once(c, s) => Once(c, Tail(s)) /\ ~(c = Head(s) /\ Among(c, Tail(s)))
<1> DEFINE t == Tail(s)
<1>1. /\ t \in Seq(Command) /\ Head(s) \in Command /\ Head(s) = s[1] /\ Len(t) = Len(s) - 1
      /\ \A i \in 1..Len(t) : t[i] = s[i + 1]
  BY HeadTailProperties
<1>2. Len(s) \in Nat /\ Len(s) # 0 /\ DOMAIN s = 1..Len(s) /\ DOMAIN t = 1..Len(t)
  BY <1>1, EmptySeq, LenProperties
<1>3. 1 \in DOMAIN s
  BY <1>2
<1>4. \A i \in DOMAIN t : i + 1 \in DOMAIN s /\ t[i] = s[i + 1] /\ i + 1 # 1 /\ i \in Nat
  BY <1>1, <1>2
<1> HIDE DEF t
<1>5. \A c : Among(c, t) => Among(c, s)
  BY <1>4 DEF Among
<1>6. ASSUME NEW c, Once(c, s) PROVE Once(c, t) /\ ~(c = Head(s) /\ Among(c, t))
  <2>1. \A i, j \in DOMAIN t : i + 1 = j + 1 => i = j
    BY <1>4
  <2>2. Once(c, t)
    BY <1>4, <1>6, <2>1 DEF Once
  <2>3. ~(c = Head(s) /\ Among(c, t))
    BY <1>1, <1>3, <1>4, <1>6 DEF Once, Among
  <2> QED BY <2>2, <2>3
<1>7. Among(Head(s), s)
  BY <1>1, <1>3 DEF Among
<1> QED BY <1>1, <1>5, <1>6, <1>7 DEF t

LEMMA Beginning ==
    ASSUME NEW s \in Seq(Command), NEW n \in 0..Len(s)
    PROVE  /\ SubSeq(s, 1, n) \in Seq(Command)
           /\ \A c : Among(c, SubSeq(s, 1, n)) => Among(c, s)
           /\ \A c : Once(c, s) => Once(c, SubSeq(s, 1, n))
<1> DEFINE b == SubSeq(s, 1, n)
<1>1. Len(s) \in Nat /\ DOMAIN s = 1..Len(s) /\ n \in Nat
  BY LenProperties
<1>2. \A i \in 1..n : i \in DOMAIN s
  BY <1>1
<1>3. \A i \in 1..n : s[i] \in Command
  BY <1>2, ElementOfSeq
<1>4. /\ b \in Seq(Command) /\ Len(b) = IF 1 =< n THEN n - 1 + 1 ELSE 0
      /\ \A i \in 1..n - 1 + 1 : b[i] = s[1 + i - 1]
  BY <1>1, <1>3, SubSeqProperties
<1>5. Len(b) = n
  BY <1>1, <1>4
<1>6. DOMAIN b = 1..n
  BY <1>4, <1>5, LenProperties
<1>7. \A i \in DOMAIN b : i \in DOMAIN s /\ b[i] = s[i]
  <2>1. \A i \in 1..n : i \in 1..n - 1 + 1 /\ 1 + i - 1 = i
    BY <1>1
  <2> QED BY <1>2, <1>4, <1>6, <2>1
<1> HIDE DEF b
<1> QED BY <1>4, <1>7 DEF b, Among, Once

LEMMA Joined ==
    ASSUME NEW s \in Seq(Command), NEW t \in Seq(Command)
    PROVE  s \o t \in Seq(Command) /\ \A c : Among(c, s \o t) => Among(c, s) \/ Among(c, t)
<1> DEFINE b == s \o t
<1>1. /\ b \in Seq(Command) /\ DOMAIN b = 1..(Len(s) + Len(t)) /\ Len(s) \in Nat /\ Len(t) \in Nat
      /\ DOMAIN s = 1..Len(s) /\ DOMAIN t = 1..Len(t)
      /\ \A i \in DOMAIN b : b[i] = IF i =< Len(s) THEN s[i] ELSE t[i - Len(s)]
  BY ConcatProperties, LenProperties
<1>2. \A i \in DOMAIN b : \/ i \in DOMAIN s /\ b[i] = s[i]
                          \/ i - Len(s) \in DOMAIN t /\ b[i] = t[i - Len(s)]
  BY <1>1
<1> HIDE DEF b
<1> QED BY <1>1, <1>2 DEF b, Among

LEMMA EndKept ==
    ASSUME NEW s \in Seq(Command)
    PROVE  LastKept(s) \in Seq(Command) /\ \A c : Among(c, LastKept(s)) => Among(c, s)
<1>1. KeepResults \in Nat /\ KeepResults > 0 /\ Len(s) \in Nat /\ DOMAIN s = 1..Len(s)
  BY ChannelAssumption, LenProperties
<1>2. CASE Len(s) > KeepResults
  <2> DEFINE m == Len(s) - KeepResults + 1
             b == SubSeq(s, m, Len(s))
  <2>1. m \in Nat /\ m > 0 /\ m =< Len(s)
    BY <1>1, <1>2
  <2>2. LastKept(s) = b
    BY <1>2 DEF LastKept
  <2> HIDE DEF m
  <2>3. \A i \in m..Len(s) : i \in DOMAIN s
    BY <1>1, <2>1
  <2>4. \A i \in m..Len(s) : s[i] \in Command
    BY <2>3, ElementOfSeq
  <2>5. /\ b \in Seq(Command) /\ Len(b) = IF m =< Len(s) THEN Len(s) - m + 1 ELSE 0
        /\ \A i \in 1..Len(s) - m + 1 : b[i] = s[m + i - 1]
    BY <1>1, <2>1, <2>4, SubSeqProperties
  <2>6. Len(b) = Len(s) - m + 1
    BY <2>1, <2>5
  <2>7. DOMAIN b = 1..Len(s) - m + 1
    BY <2>5, <2>6, LenProperties
  <2>8. \A i \in 1..Len(s) - m + 1 : m + i - 1 \in 1..Len(s)
    BY <1>1, <2>1
  <2> HIDE DEF b
  <2> QED BY <1>1, <2>2, <2>5, <2>7, <2>8 DEF Among
<1>3. CASE ~(Len(s) > KeepResults)
  BY <1>3 DEF LastKept
<1> QED BY <1>2, <1>3

-----------------------------------------------------------------------------
(* The places. *)

Pending == <<"pending", 0>>
Answer  == <<"answer", 0>>
Batch   == <<"batch", 0>>
Drain(k) == <<"drain", k>>
Down(k)  == <<"down", k>>

LEMMA PlaceCases ==
    /\ {Pending, Answer, Batch} \subseteq Place
    /\ \A k \in Conn : Drain(k) \in Place /\ Down(k) \in Place
    /\ \A p \in Place : p \in {Pending, Answer, Batch} \/ \E k \in Conn : p = Drain(k) \/ p = Down(k)
    /\ Pending # Answer /\ Pending # Batch /\ Answer # Batch
    /\ \A k : {Drain(k), Down(k)} \cap {Pending, Answer, Batch} = {}
    /\ \A k, j : Drain(k) # Down(j) /\ (Drain(k) = Drain(j) => k = j) /\ (Down(k) = Down(j) => k = j)
    /\ \A k : Down(k) \in Place => k \in Conn
BY DEF Place, Pending, Answer, Batch, Drain, Down

LEMMA HeldThere ==
    /\ Held(Pending) = pending /\ Held(Answer) = post.commands /\ Held(Batch) = batch
    /\ \A k \in Conn : Held(Drain(k)) = conn[k].drain /\ Held(Down(k)) = conn[k].down
BY DEF Held, Pending, Answer, Batch, Drain, Down

LEMMA HeldThereNext ==
    /\ Held(Pending)' = pending' /\ Held(Answer)' = post'.commands /\ Held(Batch)' = batch'
    /\ \A k \in Conn : Held(Drain(k))' = conn'[k].drain /\ Held(Down(k))' = conn'[k].down
BY DEF Held, Pending, Answer, Batch, Drain, Down

\* Where the command was sent, if it was: what the others hold may come twice.
InMain(c) == via[c] \in Conn /\ Among(c, conn[via[c]].down)

Elsewhere(c) == \E p \in Place \ {Down(via[c])} : Among(c, Held(p))

\* How often a command was executed or still may be.
Uses(c) == executed[c] + (IF InMain(c) THEN 1 ELSE 0) + (IF Elsewhere(c) THEN 1 ELSE 0)

\* A command that was not issued is nowhere; each place holds it once, and one
\* place besides the connection it was sent on; while it is sent it is nowhere
\* else.
CommandInPlace(c) ==
    /\ \A p \in Place : Once(c, Held(p))
    /\ \A p, q \in Place \ {Down(via[c])} : Among(c, Held(p)) /\ Among(c, Held(q)) => p = q
    /\ call[c] = "none" => via[c] = 0 /\ executed[c] = 0 /\ ~Elsewhere(c)
    /\ call[c] = "sending" => via[c] # 0 /\ ~Elsewhere(c) /\ Uses(c) =< 1
    /\ Uses(c) =< IF via[c] = 0 \/ conn[via[c]].open THEN 1 ELSE 2

ChannelTypes ==
    /\ {pending, batch, post.commands, results, buffer, post.results, wsRun} \subseteq Seq(Command)
    /\ stray \subseteq Seq(Command) /\ DOMAIN post = {"state", "results", "commands"}
    /\ DOMAIN conn = Conn
    /\ \A k \in Conn : /\ DOMAIN conn[k] = {"open", "handler", "drain", "down", "up"}
                       /\ {conn[k].drain, conn[k].down, conn[k].up} \subseteq Seq(Command)
    /\ executed \in [Command -> Nat] /\ via \in [Command -> 0..MaxConn]
    /\ DOMAIN call = Command /\ DOMAIN history = Command
    /\ {ws, wsConn} \subseteq 0..MaxConn

\* What a thread or a handler is about to take is there; a connection that was
\* used is not opened again.
TakersHaveWork ==
    /\ loop = "executing" => batch # <<>>
    /\ \A k \in Conn : conn[k].handler = "draining" => conn[k].drain # <<>>
    /\ wsRun # <<>> => wsConn # 0
    /\ ws # 0 => conn[ws].handler # "none"
    /\ \A c \in Command : via[c] # 0 => conn[via[c]].handler # "none"

ChannelInv == ChannelTypes /\ TakersHaveWork /\ \A c \in Command : CommandInPlace(c)

LEMMA ConnIsNat == Conn \subseteq Nat \ {0} /\ 0..MaxConn = Conn \union {0} /\ 0 \notin Conn
BY ChannelAssumption DEF Conn

LEMMA NothingIsAmong == /\ \A c : ~Among(c, <<>>) /\ Once(c, <<>>)
                        /\ <<>> \in Seq(Command)
BY EmptySeq DEF Among, Once

LEMMA ChannelInitOK == ChannelInit => ChannelInv
<1> SUFFICES ASSUME ChannelInit PROVE ChannelInv
  OBVIOUS
<1>1. \A p \in Place : Held(p) = <<>>
  BY PlaceCases, HeldThere DEF ChannelInit, FreshConn, NoPost
<1>2. ChannelTypes
  BY ConnIsNat, NothingIsAmong DEF ChannelInit, ChannelTypes, FreshConn, NoPost
<1>3. TakersHaveWork
  BY DEF ChannelInit, TakersHaveWork, FreshConn
<1>4. ASSUME NEW c \in Command PROVE CommandInPlace(c)
  <2>1. via[c] = 0 /\ executed[c] = 0 /\ call[c] = "none"
    BY DEF ChannelInit
  <2>2. ~Elsewhere(c) /\ ~InMain(c)
    BY <1>1, <2>1, NothingIsAmong, ConnIsNat DEF Elsewhere, InMain
  <2>3. Uses(c) = 0
    BY <2>1, <2>2 DEF Uses
  <2> QED BY <1>1, <2>1, <2>2, <2>3, NothingIsAmong DEF CommandInPlace
<1> QED BY <1>2, <1>3, <1>4 DEF ChannelInv

\* A step that gives no place a copy of a command.
LEMMA NothingAdded ==
    ASSUME ChannelTypes, NEW c \in Command, CommandInPlace(c),
           via'[c] = via[c], executed'[c] = executed[c],
           \A p \in Place : Once(c, Held(p)') /\ (Among(c, Held(p)') => Among(c, Held(p))),
           call'[c] = call[c] \/ call'[c] \notin {"none", "sending"},
           via[c] \in Conn => (conn'[via[c]].open => conn[via[c]].open)
    PROVE  CommandInPlace(c)'
<1>1. \A p \in Place : Once(c, Held(p)') /\ (Among(c, Held(p)') => Among(c, Held(p)))
  OBVIOUS
<1>2. Elsewhere(c)' => Elsewhere(c)
  BY <1>1 DEF Elsewhere
<1>3. InMain(c)' => InMain(c)
  BY <1>1, HeldThere, HeldThereNext, PlaceCases DEF InMain
<1>4. executed[c] \in Nat /\ via[c] \in Conn \union {0}
  BY ConnIsNat DEF ChannelTypes
<1>5. Uses(c)' =< Uses(c) /\ Uses(c) \in Nat /\ Uses(c)' \in Nat
  BY <1>2, <1>3, <1>4 DEF Uses
<1>6. \A p, q \in Place \ {Down(via'[c])} : Among(c, Held(p)') /\ Among(c, Held(q)') => p = q
  BY <1>1 DEF CommandInPlace
<1>7. call'[c] = "none" => via'[c] = 0 /\ executed'[c] = 0 /\ ~Elsewhere(c)'
  BY <1>2 DEF CommandInPlace
<1>8. call'[c] = "sending" => via'[c] # 0 /\ ~Elsewhere(c)' /\ Uses(c)' =< 1
  BY <1>2, <1>5 DEF CommandInPlace
<1>9. Uses(c)' =< IF via'[c] = 0 \/ conn'[via'[c]].open THEN 1 ELSE 2
  BY <1>4, <1>5 DEF CommandInPlace
<1> QED BY <1>1, <1>6, <1>7, <1>8, <1>9 DEF CommandInPlace

\* A step that moves what one place holds, or its beginning, to another.
LEMMA AllMoved ==
    ASSUME ChannelTypes, NEW c \in Command, CommandInPlace(c),
           UNCHANGED <<via, executed, call>>, NEW p \in Place, NEW q \in Place, p # q,
           \A k \in Conn : p # Down(k) /\ q # Down(k),
           \A x \in Place \ {q} : Held(x)' = Held(x) \/ Held(x)' = <<>>, Held(p)' = <<>>,
           Once(c, Held(p)) => Once(c, Held(q)'), Among(c, Held(q)') => Among(c, Held(p)),
           \A k \in Conn : conn'[k].open = conn[k].open
    PROVE  CommandInPlace(c)'
<1>1. /\ \A x \in Place : Once(c, Held(x)')
      /\ \A x \in Place \ {q} : Among(c, Held(x)') => Among(c, Held(x)) /\ x # p
  BY NothingIsAmong DEF CommandInPlace
<1>2. via[c] \in Conn => p # Down(via[c]) /\ q # Down(via[c])
  OBVIOUS
<1>3. executed[c] \in Nat /\ via[c] \in Conn \union {0} /\ (p # Down(via[c])) /\ (q # Down(via[c]))
  BY <1>2, ConnIsNat, PlaceCases DEF ChannelTypes
<1>4. \A x, y \in Place \ {Down(via'[c])} : Among(c, Held(x)') /\ Among(c, Held(y)') => x = y
  BY <1>1, <1>3 DEF CommandInPlace
<1>5. Elsewhere(c)' => Elsewhere(c)
  BY <1>1, <1>3 DEF Elsewhere
<1>6. InMain(c)' => InMain(c)
  BY <1>1, <1>3, HeldThere, HeldThereNext, PlaceCases DEF InMain
<1>7. Uses(c)' =< Uses(c) /\ Uses(c) \in Nat /\ Uses(c)' \in Nat
  BY <1>3, <1>5, <1>6 DEF Uses
<1>8. call'[c] = "none" => via'[c] = 0 /\ executed'[c] = 0 /\ ~Elsewhere(c)'
  BY <1>5 DEF CommandInPlace
<1>9. call'[c] = "sending" => via'[c] # 0 /\ ~Elsewhere(c)' /\ Uses(c)' =< 1
  BY <1>5, <1>7 DEF CommandInPlace
<1>10. Uses(c)' =< IF via'[c] = 0 \/ conn'[via'[c]].open THEN 1 ELSE 2
  BY <1>3, <1>7 DEF CommandInPlace
<1> QED BY <1>1, <1>4, <1>8, <1>9, <1>10 DEF CommandInPlace

\* A step that leaves or clears the places.
LEMMA NothingMoved ==
    ASSUME ChannelInv, UNCHANGED <<via, executed>>,
           \A p \in Place : Held(p)' = Held(p) \/ Held(p)' = <<>>,
           \A c \in Command : call'[c] = call[c] \/ call'[c] \notin {"none", "sending"},
           \A k \in Conn : conn[k].handler # "none" => (conn'[k].open => conn[k].open)
    PROVE  \A c \in Command : CommandInPlace(c)'
<1> SUFFICES ASSUME NEW c \in Command PROVE CommandInPlace(c)'
  OBVIOUS
<1>1. ChannelTypes /\ CommandInPlace(c)
  BY DEF ChannelInv
<1>2. \A p \in Place : Once(c, Held(p)') /\ (Among(c, Held(p)') => Among(c, Held(p)))
  BY <1>1, NothingIsAmong DEF CommandInPlace
<1>3. via[c] \in Conn => (conn'[via[c]].open => conn[via[c]].open)
  BY ConnIsNat DEF ChannelInv, TakersHaveWork
<1>4. via'[c] = via[c] /\ executed'[c] = executed[c] /\ (call'[c] = call[c] \/ call'[c] \notin {"none", "sending"})
  OBVIOUS
<1> QED BY <1>1, <1>2, <1>3, <1>4, NothingAdded

\* A thread of the agent executes the command at the head of a place.
LEMMA HeadExecuted ==
    ASSUME ChannelInv, NEW p \in Place, Held(p) \in Seq(Command), Held(p) # <<>>, Held(p)' = Tail(Held(p)),
           \A x \in Place \ {p} : Held(x)' = Held(x),
           executed' = [executed EXCEPT ![Head(Held(p))] = @ + 1], UNCHANGED <<via, call>>,
           \A k \in Conn : conn'[k].open = conn[k].open
    PROVE  \A c \in Command : CommandInPlace(c)'
<1> SUFFICES ASSUME NEW c \in Command PROVE CommandInPlace(c)'
  OBVIOUS
<1> DEFINE d == Head(Held(p))
<1>1. ChannelTypes /\ CommandInPlace(c) /\ executed \in [Command -> Nat] /\ (via[c] \in Conn \union {0})
  BY ConnIsNat DEF ChannelInv, ChannelTypes
<1>2. /\ d \in Command /\ Among(d, Held(p)) /\ (Among(c, Held(p)') => Among(c, Held(p)))
      /\ Once(c, Held(p)') /\ ~(c = d /\ Among(c, Held(p)'))
  BY <1>1, Taken DEF CommandInPlace
<1>3. \A x \in Place : Once(c, Held(x)') /\ (Among(c, Held(x)') => Among(c, Held(x)))
  BY <1>1, <1>2 DEF CommandInPlace
<1>4. via[c] \in Conn => (conn'[via[c]].open = conn[via[c]].open)
  OBVIOUS
<1> HIDE DEF d
<1>5. CASE c # d
  <2>1. executed'[c] = executed[c]
    BY <1>5 DEF d
  <2> QED BY <1>1, <1>3, <1>4, <2>1, NothingAdded
<1>6. CASE c = d
  <2>1. executed'[c] = executed[c] + 1 /\ executed[c] \in Nat
    BY <1>1, <1>6 DEF d
  <2>2. Elsewhere(c)' => Elsewhere(c)
    BY <1>3 DEF Elsewhere
  <2>3. InMain(c)' => InMain(c)
    BY <1>3, HeldThere, HeldThereNext, PlaceCases DEF InMain
  <2>4. CASE p = Down(via[c])
    <3>1. via[c] \in Conn
      BY <2>4, PlaceCases
    <3>2. InMain(c) /\ ~InMain(c)'
      BY <1>2, <1>6, <2>4, <3>1, HeldThere, HeldThereNext DEF InMain
    <3>3. Uses(c)' =< Uses(c) /\ Uses(c) \in Nat /\ Uses(c)' \in Nat
      BY <2>1, <2>2, <3>2 DEF Uses
    <3>4. call[c] # "none"
      BY <1>1, <3>1, ConnIsNat DEF CommandInPlace
    <3>5. call'[c] = "sending" => via'[c] # 0 /\ ~Elsewhere(c)' /\ Uses(c)' =< 1
      BY <1>1, <2>2, <3>3 DEF CommandInPlace
    <3>6. Uses(c)' =< IF via'[c] = 0 \/ conn'[via'[c]].open THEN 1 ELSE 2
      BY <1>1, <1>4, <3>3 DEF CommandInPlace
    <3>7. \A x, y \in Place \ {Down(via'[c])} : Among(c, Held(x)') /\ Among(c, Held(y)') => x = y
      BY <1>1, <1>3 DEF CommandInPlace
    <3> QED BY <1>3, <3>4, <3>5, <3>6, <3>7 DEF CommandInPlace
  <2>5. CASE p # Down(via[c])
    <3>1. Elsewhere(c)
      BY <1>2, <1>6, <2>5 DEF Elsewhere
    <3>2. \A x \in Place \ {Down(via'[c])} : ~Among(c, Held(x)')
      BY <1>1, <1>2, <1>6, <2>5 DEF CommandInPlace
    <3>3. ~Elsewhere(c)'
      BY <3>2 DEF Elsewhere
    <3>4. Uses(c)' =< Uses(c) /\ Uses(c) \in Nat /\ Uses(c)' \in Nat
      BY <2>1, <2>3, <3>1, <3>3 DEF Uses
    <3>5. call[c] \notin {"none", "sending"}
      BY <1>1, <3>1 DEF CommandInPlace
    <3>6. Uses(c)' =< IF via'[c] = 0 \/ conn'[via'[c]].open THEN 1 ELSE 2
      BY <1>1, <1>4, <3>4 DEF CommandInPlace
    <3> QED BY <1>3, <3>2, <3>5, <3>6 DEF CommandInPlace
  <2> QED BY <2>4, <2>5
<1> QED BY <1>5, <1>6

\* A handler sends the head of what it took over its connection.
LEMMA HeadSent ==
    ASSUME ChannelInv, NEW k \in Conn, conn[k].open, conn[k].drain # <<>>,
           Held(Drain(k))' = Tail(conn[k].drain), Held(Down(k))' = Append(conn[k].down, Head(conn[k].drain)),
           \A x \in Place \ {Drain(k), Down(k)} : Held(x)' = Held(x),
           UNCHANGED <<executed, via, call>>,
           \A j \in Conn : conn'[j].open = conn[j].open
    PROVE  \A c \in Command : CommandInPlace(c)'
<1> SUFFICES ASSUME NEW c \in Command PROVE CommandInPlace(c)'
  OBVIOUS
<1> DEFINE d == Head(conn[k].drain)
           p == Drain(k)
           q == Down(k)
<1>0. conn[k].drain \in Seq(Command) /\ conn[k].down \in Seq(Command)
  BY DEF ChannelInv, ChannelTypes
<1>1. ChannelTypes /\ CommandInPlace(c) /\ executed[c] \in Nat /\ (via[c] \in Conn \union {0})
  BY ConnIsNat DEF ChannelInv, ChannelTypes
<1>2. /\ p \in Place /\ q \in Place /\ p # q /\ Held(p) = conn[k].drain /\ Held(q) = conn[k].down
      /\ p # Down(via[c]) /\ (k # via[c] => q # Down(via[c]))
  BY PlaceCases, HeldThere
<1>3. /\ d \in Command /\ Among(d, Held(p)) /\ (Among(c, Held(p)') => Among(c, Held(p)))
      /\ Once(c, Held(p)') /\ ~(c = d /\ Among(c, Held(p)'))
  BY <1>0, <1>1, <1>2, Taken DEF CommandInPlace
<1>4. /\ Among(c, Held(q)') => Among(c, Held(q)) \/ c = d
      /\ ~(Among(c, Held(q)) /\ c = d) => Once(c, Held(q)')
  BY <1>0, <1>1, <1>2, <1>3, Appended DEF CommandInPlace
<1>5. \A x \in Place \ {q} : Once(c, Held(x)') /\ (Among(c, Held(x)') => Among(c, Held(x)))
  BY <1>1, <1>2, <1>3 DEF CommandInPlace
<1>6. via[c] \in Conn => (conn'[via[c]].open = conn[via[c]].open)
  OBVIOUS
<1> HIDE DEF d, p, q
<1>7. CASE c # d
  <2>1. \A x \in Place : Once(c, Held(x)') /\ (Among(c, Held(x)') => Among(c, Held(x)))
    BY <1>4, <1>5, <1>7
  <2> QED BY <1>1, <1>6, <2>1, NothingAdded
<1>8. CASE c = d
  <2>1. Elsewhere(c)
    BY <1>2, <1>3, <1>8 DEF Elsewhere
  <2>2. call[c] \notin {"none", "sending"}
    BY <1>1, <2>1 DEF CommandInPlace
  <2>3. \A x \in Place \ {p, q, Down(via[c])} : ~Among(c, Held(x)')
    BY <1>1, <1>2, <1>3, <1>5, <1>8 DEF CommandInPlace
  <2>4. ~Among(c, Held(p)')
    BY <1>3, <1>8
  <2>5. \A x, y \in Place \ {Down(via'[c])} : Among(c, Held(x)') /\ Among(c, Held(y)') => x = y
    BY <1>2, <2>3, <2>4
  <2>6. CASE k = via[c]
    <3>1. Uses(c) =< 1
      BY <1>1, <2>6 DEF CommandInPlace
    <3>2. ~InMain(c) /\ executed[c] = 0
      BY <1>1, <2>1, <3>1 DEF Uses
    <3>3. ~Among(c, Held(q))
      BY <1>2, <2>6, <3>2 DEF InMain
    <3>4. \A x \in Place : Once(c, Held(x)')
      BY <1>4, <1>5, <3>3
    <3>5. ~Elsewhere(c)'
      BY <2>3, <2>4, <2>6 DEF Elsewhere, q
    <3>6. Uses(c)' =< 1 /\ Uses(c)' \in Nat
      BY <1>1, <3>2, <3>5 DEF Uses
    <3> QED BY <2>2, <2>5, <3>4, <3>6 DEF CommandInPlace
  <2>7. CASE k # via[c]
    <3>1. ~Among(c, Held(q))
      BY <1>1, <1>2, <1>3, <1>8, <2>7 DEF CommandInPlace
    <3>2. \A x \in Place : Once(c, Held(x)')
      BY <1>4, <1>5, <3>1
    <3>3. InMain(c)' => InMain(c)
      <4>1. via[c] \in Conn => Down(via[c]) \in Place /\ Down(via[c]) # q
        BY <1>2, <2>7, PlaceCases
      <4>2. via[c] \in Conn => Held(Down(via[c])) = conn[via[c]].down /\ Held(Down(via[c]))' = conn'[via[c]].down
        BY HeldThere, HeldThereNext
      <4> QED BY <1>5, <4>1, <4>2 DEF InMain
    <3>4. Uses(c)' =< Uses(c) /\ Uses(c) \in Nat /\ Uses(c)' \in Nat
      BY <1>1, <2>1, <3>3 DEF Uses
    <3>5. Uses(c)' =< IF via'[c] = 0 \/ conn'[via'[c]].open THEN 1 ELSE 2
      BY <1>1, <1>6, <3>4 DEF CommandInPlace
    <3> QED BY <2>2, <2>5, <3>2, <3>5 DEF CommandInPlace
  <2> QED BY <2>6, <2>7
<1> QED BY <1>7, <1>8

\* A command is queued: when it is issued, or when the connection it was sent
\* on is gone.
LEMMA CommandQueued ==
    ASSUME ChannelInv, NEW d \in Command, pending' = Append(pending, d),
           \A x \in Place \ {Pending} : Held(x)' = Held(x),
           call[d] = "none" \/ (call[d] = "sending" /\ ~conn[via[d]].open),
           call'[d] \notin {"none", "sending"}, \A c \in Command \ {d} : call'[c] = call[c],
           UNCHANGED <<executed, via, conn>>
    PROVE  \A c \in Command : CommandInPlace(c)'
<1> SUFFICES ASSUME NEW c \in Command PROVE CommandInPlace(c)'
  OBVIOUS
<1>1. ChannelTypes /\ CommandInPlace(c) /\ executed[c] \in Nat /\ (via[c] \in Conn \union {0}) /\ pending \in Seq(Command)
  BY ConnIsNat DEF ChannelInv, ChannelTypes
<1>2. Pending \in Place /\ Held(Pending) = pending /\ Held(Pending)' = pending' /\ \A j : Pending # Down(j)
  BY PlaceCases, HeldThere, HeldThereNext
<1>3. /\ Among(c, Held(Pending)') => Among(c, Held(Pending)) \/ c = d
      /\ ~(Among(c, Held(Pending)) /\ c = d) => Once(c, Held(Pending)')
  BY <1>1, <1>2, Appended DEF CommandInPlace
<1>4. \A x \in Place \ {Pending} : Once(c, Held(x)') /\ (Among(c, Held(x)') => Among(c, Held(x)))
  BY <1>1 DEF CommandInPlace
<1>5. CASE c # d
  <2>1. \A x \in Place : Once(c, Held(x)') /\ (Among(c, Held(x)') => Among(c, Held(x)))
    BY <1>3, <1>4, <1>5
  <2>2. call'[c] = call[c]
    BY <1>5
  <2> QED BY <1>1, <2>1, <2>2, NothingAdded
<1>6. CASE c = d
  <2>1. ~Elsewhere(c)
    BY <1>1, <1>6 DEF CommandInPlace
  <2>2. ~Among(c, Held(Pending))
    BY <1>2, <2>1 DEF Elsewhere
  <2>3. \A x \in Place : Once(c, Held(x)')
    BY <1>3, <1>4, <2>2
  <2>4. \A x \in Place \ {Pending, Down(via[c])} : ~Among(c, Held(x)')
    BY <1>4, <2>1 DEF Elsewhere
  <2>5. \A x, y \in Place \ {Down(via'[c])} : Among(c, Held(x)') /\ Among(c, Held(y)') => x = y
    BY <2>4
  <2>6. InMain(c)' => InMain(c)
    BY DEF InMain
  <2>7. Uses(c)' =< Uses(c) + 1 /\ Uses(c) \in Nat /\ Uses(c)' \in Nat
    BY <1>1, <2>6 DEF Uses
  <2>8. CASE call[d] = "none"
    <3>1. Uses(c) = 0 /\ via[c] = 0
      BY <1>1, <1>6, <2>1, <2>8, ConnIsNat DEF CommandInPlace, Uses, InMain
    <3>2. Uses(c)' =< 1
      BY <2>7, <3>1
    <3> QED BY <1>6, <2>3, <2>5, <3>1, <3>2 DEF CommandInPlace
  <2>9. CASE call[d] = "sending" /\ ~conn[via[d]].open
    <3>1. Uses(c) =< 1 /\ via[c] # 0 /\ ~conn'[via'[c]].open
      BY <1>1, <1>6, <2>9 DEF CommandInPlace
    <3>2. Uses(c)' =< 2
      BY <2>7, <3>1
    <3> QED BY <1>6, <2>3, <2>5, <3>1, <3>2 DEF CommandInPlace
  <2> QED BY <2>8, <2>9
<1> QED BY <1>5, <1>6

\* A command is written to the registered connection.
LEMMA CommandSent ==
    ASSUME ChannelInv, NEW d \in Command, call[d] = "none", NEW k \in Conn, k = ws,
           conn'[k].down \in {conn[k].down, Append(conn[k].down, d)},
           \A x \in Place \ {Down(k)} : Held(x)' = Held(x),
           call' = [call EXCEPT ![d] = "sending"], via' = [via EXCEPT ![d] = k],
           executed' = executed, \A j \in Conn : conn'[j].open = conn[j].open
    PROVE  \A c \in Command : CommandInPlace(c)'
<1> SUFFICES ASSUME NEW c \in Command PROVE CommandInPlace(c)'
  OBVIOUS
<1>1. ChannelTypes /\ CommandInPlace(c)
  BY DEF ChannelInv
<1>7. executed[c] \in Nat /\ (via[c] \in Conn \union {0}) /\ k # 0
  BY <1>1, ConnIsNat DEF ChannelTypes
<1>8. conn[k].down \in Seq(Command) /\ DOMAIN via = Command /\ DOMAIN call = Command
  BY <1>1 DEF ChannelTypes
<1>9. via'[c] = (IF c = d THEN k ELSE via[c]) /\ call'[c] = IF c = d THEN "sending" ELSE call[c]
  BY <1>8
<1> DEFINE q == Down(k)
<1>2. q \in Place /\ Held(q) = conn[k].down /\ Held(q)' = conn'[k].down
  BY PlaceCases, HeldThere, HeldThereNext
<1>10. Once(c, Held(q))
  BY <1>1, <1>2 DEF CommandInPlace
<1>3. /\ Among(c, Held(q)') => Among(c, Held(q)) \/ c = d
      /\ ~(Among(c, Held(q)) /\ c = d) => Once(c, Held(q)')
  <2>1. CASE conn'[k].down = conn[k].down
    BY <1>2, <1>10, <2>1
  <2>2. CASE conn'[k].down = Append(conn[k].down, d)
    BY <1>2, <1>8, <1>10, <2>2, Appended
  <2> QED BY <2>1, <2>2
<1>4. \A x \in Place \ {q} : Once(c, Held(x)') /\ (Among(c, Held(x)') => Among(c, Held(x)))
  BY <1>1 DEF CommandInPlace
<1> HIDE DEF q
<1>5. CASE c # d
  <2>1. \A x \in Place : Once(c, Held(x)') /\ (Among(c, Held(x)') => Among(c, Held(x)))
    BY <1>3, <1>4, <1>5
  <2>2. call'[c] = call[c] /\ via'[c] = via[c]
    BY <1>5, <1>9
  <2> QED BY <1>1, <2>1, <2>2, NothingAdded
<1>6. CASE c = d
  <2>1. ~Elsewhere(c) /\ via[c] = 0 /\ executed[c] = 0
    BY <1>1, <1>6 DEF CommandInPlace
  <2>2. \A x \in Place : ~Among(c, Held(x))
    BY <2>1, PlaceCases, ConnIsNat DEF Elsewhere
  <2>3. \A x \in Place : Once(c, Held(x)')
    BY <1>2, <1>3, <1>4, <2>2
  <2>4. \A x \in Place \ {q} : ~Among(c, Held(x)')
    BY <1>4, <2>2
  <2>5. via'[c] = k /\ call'[c] = "sending" /\ k # 0
    BY <1>6, <1>7, <1>9
  <2>6. ~Elsewhere(c)'
    BY <2>4, <2>5 DEF Elsewhere, q
  <2>7. \A x, y \in Place \ {Down(via'[c])} : Among(c, Held(x)') /\ Among(c, Held(y)') => x = y
    BY <2>4, <2>5 DEF q
  <2>8. Uses(c)' =< 1 /\ Uses(c)' \in Nat
    BY <2>1, <2>6, <1>7 DEF Uses
  <2> QED BY <2>3, <2>5, <2>6, <2>7, <2>8 DEF CommandInPlace
<1> QED BY <1>5, <1>6

-----------------------------------------------------------------------------
(***************************************************************************)
(* What a step makes of the variables.                                     *)
(***************************************************************************)

\* The connection that is opened is one that was never used.
LEMMA LeastUnused ==
    ASSUME Unused # {}
    PROVE  \E k \in Unused : (CHOOSE n \in Unused : \A m \in Unused : n <= m) = k
<1>1. Unused \subseteq Nat
  BY ConnIsNat DEF Unused
<1> QED BY <1>1, LeastExists

\* What a step may make of a connection.
IsConn(k) == DOMAIN k = {"open", "handler", "drain", "down", "up"} /\ {k.drain, k.down, k.up} \subseteq Seq(Command)

ConnTypes == DOMAIN conn = Conn /\ \A k \in Conn : IsConn(conn[k])

ServerTypes == /\ {pending, results} \subseteq Seq(Command) /\ ws \in 0..MaxConn
               /\ DOMAIN call = Command /\ DOMAIN history = Command /\ via \in [Command -> 0..MaxConn]

AgentTypes ==
    /\ {batch, post.commands, buffer, post.results, wsRun} \subseteq Seq(Command)
    /\ stray \subseteq Seq(Command) /\ DOMAIN post = {"state", "results", "commands"}
    /\ executed \in [Command -> Nat] /\ wsConn \in 0..MaxConn

LEMMA TypesSplit == ChannelTypes <=> ConnTypes /\ ServerTypes /\ AgentTypes
BY DEF ChannelTypes, ConnTypes, IsConn, ServerTypes, AgentTypes

LEMMA FreshIsConn == IsConn(FreshConn)
BY NothingIsAmong DEF IsConn, FreshConn

LEMMA ConnTypesKept == ChannelInv /\ [ChannelNext]_channelVars => ConnTypes'
<1> SUFFICES ASSUME ChannelInv, [ChannelNext]_channelVars PROVE ConnTypes'
  OBVIOUS
<1>1. ConnTypes /\ TakersHaveWork /\ ws \in Conn \union {0} /\ wsConn \in Conn \union {0} /\ wsRun \in Seq(Command)
  BY TypesSplit, ConnIsNat DEF ChannelInv, ServerTypes, AgentTypes
<1>2. CASE UNCHANGED conn
  BY <1>1, <1>2 DEF ConnTypes
<1>3. ASSUME NEW d \in Command, SendCommand(d) PROVE ConnTypes'
  <2>1. PICK k \in Conn : k = ws
    BY <1>1, <1>3 DEF SendCommand
  <2>2. CASE conn[k].open
    <3>1. conn' = [conn EXCEPT ![k].down = Append(@, d)]
      BY <1>3, <2>1, <2>2 DEF SendCommand
    <3>2. Append(conn[k].down, d) \in Seq(Command)
      BY <1>1, Appended DEF ConnTypes, IsConn
    <3> QED BY <1>1, <3>1, <3>2 DEF ConnTypes, IsConn
  <2>3. CASE ~conn[k].open
    BY <1>1, <1>3, <2>1, <2>3 DEF SendCommand, ConnTypes
  <2> QED BY <2>2, <2>3
<1>4. CASE Identify
  <2>1. PICK k \in Conn : conn' = [j \in Conn |->
                IF j = k THEN [FreshConn EXCEPT !.open = TRUE, !.handler = "opening"]
                ELSE IF j = ws THEN [conn[j] EXCEPT !.open = FALSE] ELSE conn[j]]
    <3>1. PICK k \in Unused : (CHOOSE n \in Unused : \A m \in Unused : n <= m) = k
      BY <1>4, LeastUnused DEF Identify
    <3> QED BY <1>4, <3>1 DEF Identify, Unused
  <2>2. IsConn([FreshConn EXCEPT !.open = TRUE, !.handler = "opening"])
    BY NothingIsAmong DEF IsConn, FreshConn
  <2>3. \A j \in Conn : IsConn([conn[j] EXCEPT !.open = FALSE])
    BY <1>1 DEF ConnTypes, IsConn
  <2> QED BY <1>1, <2>1, <2>2, <2>3 DEF ConnTypes
<1>5. ASSUME NEW k \in Conn, TakeQueue(k) PROVE ConnTypes'
  <2>1. pending \in Seq(Command)
    BY TypesSplit DEF ChannelInv, ServerTypes
  <2> QED BY <1>1, <1>5, <2>1 DEF ConnTypes, IsConn, TakeQueue
<1>6. ASSUME NEW k \in Conn, SendQueued(k) PROVE ConnTypes'
  <2>1. conn[k].drain \in Seq(Command) /\ conn[k].drain # <<>> /\ conn[k].down \in Seq(Command)
    BY <1>1, <1>6 DEF TakersHaveWork, SendQueued, ConnTypes, IsConn
  <2>2. Tail(conn[k].drain) \in Seq(Command) /\ Append(conn[k].down, Head(conn[k].drain)) \in Seq(Command)
    BY <2>1, Taken, Appended
  <2> QED BY <1>1, <1>6, <2>2 DEF ConnTypes, IsConn, SendQueued
<1>7. ASSUME NEW k \in Conn, ReceiveResult(k) PROVE ConnTypes'
  <2>1. Tail(conn[k].up) \in Seq(Command)
    BY <1>1, <1>7, Taken DEF ReceiveResult, ConnTypes, IsConn
  <2> QED BY <1>1, <1>7, <2>1 DEF ConnTypes, IsConn, ReceiveResult
<1>8. \A k \in Conn : IsConn([FreshConn EXCEPT !.handler = "ended", !.down = conn[k].down])
  BY <1>1, NothingIsAmong DEF ConnTypes, IsConn, FreshConn
<1>9. ASSUME NEW k \in Conn, HandlerEnds(k) PROVE ConnTypes'
  BY <1>1, <1>8, <1>9 DEF ConnTypes, HandlerEnds
<1>10. ASSUME NEW k \in Conn, Drop(k) PROVE ConnTypes'
  BY <1>1, <1>10 DEF ConnTypes, IsConn, Drop
<1>11. CASE WsExecute
  <2>1. PICK k \in Conn : k = wsConn
    BY <1>1, <1>11 DEF WsExecute
  <2>2. Tail(conn[k].down) \in Seq(Command) /\ conn' = [conn EXCEPT ![k].down = Tail(@)]
    BY <1>1, <1>11, <2>1, Taken DEF WsExecute, ConnTypes, IsConn
  <2> QED BY <1>1, <2>2 DEF ConnTypes, IsConn
<1>12. CASE WsReply
  <2>1. PICK k \in Conn : k = wsConn
    BY <1>1, <1>12 DEF WsReply, TakersHaveWork
  <2>2. conn[k].up \o wsRun \in Seq(Command) /\ conn' = [conn EXCEPT ![k].up = @ \o wsRun]
    BY <1>1, <1>12, <2>1, Joined DEF WsReply, ConnTypes, IsConn
  <2> QED BY <1>1, <2>2 DEF ConnTypes, IsConn
<1>13. CASE WsLost
  <2>1. PICK k \in Conn : k = wsConn
    BY <1>1, <1>13 DEF WsLost
  <2>2. conn' = [conn EXCEPT ![k].down = <<>>]
    BY <1>13, <2>1 DEF WsLost
  <2> QED BY <1>1, <2>2, NothingIsAmong DEF ConnTypes, IsConn
<1>14. CASE AgentRestarts
  <2>1. \A k \in Conn : IsConn([Closed[k] EXCEPT !.down = <<>>])
    <3>1. \A k \in Conn : IsConn(Closed[k])
      BY <1>1 DEF ConnTypes, IsConn, Closed
    <3>2. ASSUME NEW c, IsConn(c) PROVE IsConn([c EXCEPT !.down = <<>>])
      BY <3>2, NothingIsAmong DEF IsConn
    <3> QED BY <3>1, <3>2
  <2> QED BY <1>14, <2>1 DEF ConnTypes, AgentRestarts
<1>15. CASE ServerRestarts
  BY <1>1, <1>8, <1>15 DEF ConnTypes, ServerRestarts
<1>16. CASE Report \/ TakeAnswer \/ Execute \/ HandleReport \/ HandleStray \/ DropStaleQueue \/ Sweep
  BY <1>2, <1>16 DEF Report, TakeAnswer, Execute, HandleReport, HandleStray, DropStaleQueue, Sweep, wsVars
<1>17. CASE GiveUp \/ TenMinutes
  BY <1>2, <1>17 DEF GiveUp, TenMinutes, wsVars
<1>18. ASSUME NEW d \in Command, NEW w \in BOOLEAN, QueueCommand(d, w) \/ SendRaises(d, w) \/ SendReturns(d, w)
       PROVE  ConnTypes'
  BY <1>2, <1>18 DEF QueueCommand, SendRaises, SendReturns, wsVars
<1>19. ASSUME NEW d \in Command, QueueInstead(d) \/ PollFinds(d) \/ PollEnds(d) \/ WaitEnds(d)
       PROVE  ConnTypes'
  BY <1>2, <1>19 DEF QueueInstead, PollFinds, PollEnds, WaitEnds, wsVars
<1> QED
  BY <1>2, <1>3, <1>4, <1>5, <1>6, <1>7, <1>9, <1>10, <1>11, <1>12, <1>13, <1>14, <1>15, <1>16, <1>17, <1>18, <1>19
     DEF ChannelNext, channelVars, wsVars, AgentThreads, Callers, Handlers

\* The commands an agent takes of an answer are its first ones.
LEMMA FirstFew ==
    ASSUME NEW s \in Seq(Command)
    PROVE  /\ SubSeq(s, 1, Min({Len(s), BatchLimit})) \in Seq(Command)
           /\ \A c : Among(c, SubSeq(s, 1, Min({Len(s), BatchLimit}))) => Among(c, s)
           /\ \A c : Once(c, s) => Once(c, SubSeq(s, 1, Min({Len(s), BatchLimit})))
<1>1. Len(s) \in Nat /\ BatchLimit \in Nat
  BY ChannelAssumption, LenProperties
<1>2. \E x \in {Len(s), BatchLimit} : \A y \in {Len(s), BatchLimit} : x =< y
  BY <1>1, LeastExists
<1>3. Min({Len(s), BatchLimit}) \in {Len(s), BatchLimit} /\ Min({Len(s), BatchLimit}) =< Len(s)
  BY <1>1, <1>2 DEF Min
<1>4. Min({Len(s), BatchLimit}) \in 0..Len(s)
  BY <1>1, <1>3
<1> QED BY <1>4, Beginning

LEMMA RowsKept ==
    /\ \A done : DOMAIN Completed(done) = Command
    /\ DOMAIN history = Command => \A c : DOMAIN Recorded(c) = Command
BY DEF Completed, Recorded

\* What the handler of a report keeps of its results, and of the queue.
LEMMA AcceptTypes ==
    ASSUME ServerTypes, NEW res \in Seq(Command), Accept(res), UNCHANGED <<call, via, ws>>
    PROVE  ServerTypes'
<1>1. LastKept(results \o res) \in Seq(Command)
  BY Joined, EndKept DEF ServerTypes
<1> QED BY <1>1, RowsKept, NothingIsAmong DEF ServerTypes, Accept

LEMMA ServerTypesKept == ChannelInv /\ [ChannelNext]_channelVars => ServerTypes'
<1> SUFFICES ASSUME ChannelInv, [ChannelNext]_channelVars PROVE ServerTypes'
  OBVIOUS
<1>1. ConnTypes /\ ServerTypes /\ AgentTypes
  BY TypesSplit DEF ChannelInv
<1>2. CASE UNCHANGED <<pending, results, ws, call, history, via>>
  BY <1>1, <1>2 DEF ServerTypes
<1>3. ASSUME NEW d \in Command, SendCommand(d) PROVE ServerTypes'
  <2>1. [via EXCEPT ![d] = ws] \in [Command -> 0..MaxConn]
    BY <1>1 DEF ServerTypes
  <2> QED BY <1>1, <1>3, <2>1 DEF ServerTypes, SendCommand, serverVars
<1>4. CASE Identify
  <2>1. PICK k \in Unused : (CHOOSE n \in Unused : \A m \in Unused : n <= m) = k
    BY <1>4, LeastUnused DEF Identify
  <2>2. ws' = k /\ k \in 0..MaxConn
    BY <1>4, <2>1, ConnIsNat DEF Identify, Unused
  <2> QED BY <1>1, <1>4, <2>2 DEF ServerTypes, Identify, serverVars, callVars
<1>5. ASSUME NEW k \in Conn, TakeQueue(k) PROVE ServerTypes'
  BY <1>1, <1>5, NothingIsAmong DEF ServerTypes, TakeQueue, callVars
<1>6. ASSUME NEW k \in Conn, ReceiveResult(k) PROVE ServerTypes'
  <2>1. conn[k].up \in Seq(Command) /\ conn[k].up # <<>> /\ results \in Seq(Command)
    BY <1>1, <1>6 DEF ReceiveResult, ConnTypes, IsConn, ServerTypes
  <2>2. LastKept(Append(results, Head(conn[k].up))) \in Seq(Command)
    BY <2>1, Taken, Appended, EndKept
  <2>3. results' \in Seq(Command) /\ DOMAIN history' = Command /\ UNCHANGED <<pending, ws, call, via>>
    BY <1>6, <2>2, RowsKept DEF ReceiveResult, callVars
  <2> QED BY <1>1, <2>3 DEF ServerTypes
<1>7. ASSUME NEW k \in Conn, HandlerEnds(k) PROVE ServerTypes'
  <2>1. ws' \in 0..MaxConn /\ UNCHANGED <<pending, results, history, call, via>>
    BY <1>1, <1>7, ConnIsNat DEF HandlerEnds, ServerTypes, serverVars, callVars
  <2> QED BY <1>1, <2>1 DEF ServerTypes
<1>8. CASE HandleReport
  BY <1>1, <1>8, AcceptTypes DEF HandleReport, AgentTypes, callVars, wsVars
<1>9. CASE HandleStray
  BY <1>1, <1>9, AcceptTypes DEF HandleStray, AgentTypes, callVars, wsVars
<1>10. CASE DropStaleQueue \/ Sweep
  <2>1. pending' \in Seq(Command) /\ UNCHANGED <<results, ws, call, history, via>>
    BY <1>1, <1>10, NothingIsAmong DEF DropStaleQueue, Sweep, ServerTypes, callVars, wsVars
  <2> QED BY <1>1, <2>1 DEF ServerTypes
<1>11. CASE ServerRestarts
  <2>1. pending' = <<>> /\ results' = <<>> /\ ws' = 0 /\ DOMAIN call' = Command /\ UNCHANGED <<history, via>>
    BY <1>11 DEF ServerRestarts
  <2> QED BY <1>1, <2>1, NothingIsAmong, ConnIsNat DEF ServerTypes
<1>12. ASSUME NEW d \in Command, NEW w \in BOOLEAN, QueueCommand(d, w) \/ SendRaises(d, w) \/ QueueInstead(d)
       PROVE  ServerTypes'
  <2>1. Append(pending, d) \in Seq(Command)
    BY <1>1, Appended DEF ServerTypes
  <2>2. DOMAIN history' = Command /\ DOMAIN call' = Command
    BY <1>1, <1>12, RowsKept DEF ServerTypes, QueueCommand, SendRaises, QueueInstead
  <2>3. ws' \in {0, ws} /\ pending' = Append(pending, d) /\ UNCHANGED <<results, via>>
    BY <1>12 DEF QueueCommand, SendRaises, QueueInstead, wsVars
  <2> QED BY <1>1, <2>1, <2>2, <2>3, ConnIsNat DEF ServerTypes
<1>13. ASSUME NEW d \in Command, NEW w \in BOOLEAN, SendReturns(d, w) \/ PollFinds(d) \/ PollEnds(d) \/ WaitEnds(d)
       PROVE  ServerTypes'
  <2>1. DOMAIN history' = Command /\ DOMAIN call' = Command
    BY <1>1, <1>13, RowsKept DEF ServerTypes, SendReturns, PollFinds, PollEnds, WaitEnds, serverVars
  <2>2. UNCHANGED <<pending, results, ws, via>>
    BY <1>13 DEF SendReturns, PollFinds, PollEnds, WaitEnds, wsVars, serverVars
  <2> QED BY <1>1, <2>1, <2>2 DEF ServerTypes
<1>14. CASE Report \/ TakeAnswer \/ Execute \/ GiveUp \/ TenMinutes \/ WsExecute \/ WsReply \/ WsLost
  BY <1>2, <1>14 DEF Report, TakeAnswer, Execute, GiveUp, TenMinutes, WsExecute, WsReply, WsLost, wsVars, callVars, serverVars
<1>15. CASE AgentRestarts
  BY <1>2, <1>15 DEF AgentRestarts, callVars, serverVars
<1>16. ASSUME NEW k \in Conn, SendQueued(k) \/ Drop(k) PROVE ServerTypes'
  BY <1>2, <1>16 DEF SendQueued, Drop, callVars, serverVars
<1>17. CASE UNCHANGED channelVars
  BY <1>2, <1>17 DEF channelVars, callVars, serverVars, wsVars
<1>18. ASSUME NEW d \in Command, PollFinds(d) \/ PollEnds(d) \/ WaitEnds(d) PROVE ServerTypes'
  BY <1>13, <1>18
<1>19. ASSUME NEW d \in Command, QueueInstead(d) PROVE ServerTypes'
  BY <1>12, <1>19
<1> QED
  BY <1>3, <1>4, <1>5, <1>6, <1>7, <1>8, <1>9, <1>10, <1>11, <1>12, <1>13, <1>14, <1>15, <1>16, <1>17, <1>18, <1>19
     DEF ChannelNext, AgentThreads, Callers, Handlers

LEMMA AgentTypesKept == ChannelInv /\ [ChannelNext]_channelVars => AgentTypes'
<1> SUFFICES ASSUME ChannelInv, [ChannelNext]_channelVars PROVE AgentTypes'
  OBVIOUS
<1>1. ConnTypes /\ ServerTypes /\ AgentTypes /\ TakersHaveWork
  BY TypesSplit DEF ChannelInv
<1>2. CASE UNCHANGED <<agentVars, executed, wsConn, wsRun>>
  BY <1>1, <1>2 DEF AgentTypes, agentVars
<1>3. \A c \in Command : [executed EXCEPT ![c] = @ + 1] \in [Command -> Nat]
  BY <1>1 DEF AgentTypes
<1>4. CASE Report
  BY <1>1, <1>4, NothingIsAmong DEF AgentTypes, Report, wsVars
<1>5. CASE HandleReport
  <2>1. pending \in Seq(Command)
    BY <1>1 DEF ServerTypes
  <2>2. DOMAIN post' = {"state", "results", "commands"} /\ post'.results = post.results /\ post'.commands = pending
    BY <1>1, <1>5 DEF AgentTypes, HandleReport
  <2> QED BY <1>1, <1>5, <2>1, <2>2 DEF AgentTypes, HandleReport, wsVars
<1>6. CASE HandleStray
  BY <1>1, <1>6 DEF AgentTypes, HandleStray, wsVars
<1>7. CASE GiveUp
  <2>1. stray' \subseteq Seq(Command)
    BY <1>1, <1>7 DEF AgentTypes, GiveUp
  <2> QED BY <1>1, <1>7, <2>1, NothingIsAmong DEF AgentTypes, GiveUp, wsVars, NoPost
<1>8. CASE TakeAnswer
  <2>1. batch' \in Seq(Command)
    BY <1>1, <1>8, FirstFew DEF AgentTypes, TakeAnswer
  <2> QED BY <1>1, <1>8, <2>1, NothingIsAmong DEF AgentTypes, TakeAnswer, wsVars, NoPost
<1>9. CASE Execute
  <2>1. Head(batch) \in Command /\ Tail(batch) \in Seq(Command) /\ Append(buffer, Head(batch)) \in Seq(Command)
    BY <1>1, <1>9, Taken, Appended DEF AgentTypes, TakersHaveWork, Execute
  <2> QED BY <1>1, <1>3, <1>9, <2>1 DEF AgentTypes, Execute, wsVars
<1>10. CASE Identify
  <2>1. PICK k \in Unused : (CHOOSE n \in Unused : \A m \in Unused : n <= m) = k
    BY <1>10, LeastUnused DEF Identify
  <2>2. wsConn' = k /\ k \in 0..MaxConn
    BY <1>10, <2>1, ConnIsNat DEF Identify, Unused
  <2> QED BY <1>1, <1>10, <2>2 DEF AgentTypes, Identify, agentVars
<1>11. CASE WsExecute
  <2>1. PICK k \in Conn : k = wsConn
    BY <1>1, <1>11, ConnIsNat DEF WsExecute, AgentTypes
  <2>2. Head(conn[k].down) \in Command
    BY <1>1, <1>11, <2>1, Taken DEF WsExecute, ConnTypes, IsConn
  <2>3. <<Head(conn[k].down)>> \in Seq(Command)
    BY <2>2
  <2> QED BY <1>1, <1>3, <1>11, <2>1, <2>2, <2>3 DEF AgentTypes, WsExecute, agentVars
<1>12. CASE WsReply \/ WsLost
  <2>1. wsRun' = <<>> /\ wsConn' \in {0, wsConn} /\ UNCHANGED <<agentVars, executed>>
    BY <1>12 DEF WsReply, WsLost
  <2> QED BY <1>1, <2>1, NothingIsAmong, ConnIsNat DEF AgentTypes, agentVars
<1>13. CASE AgentRestarts
  BY <1>1, <1>13, NothingIsAmong, ConnIsNat DEF AgentTypes, AgentRestarts, NoPost
<1>14. CASE ServerRestarts
  <2>1. stray' = {} /\ post' \in {post, NoPost} /\ UNCHANGED <<buffer, batch, wsConn, wsRun, executed>>
    BY <1>14 DEF ServerRestarts
  <2>2. CASE post' = post
    BY <1>1, <2>1, <2>2 DEF AgentTypes
  <2>3. CASE post' = NoPost
    BY <1>1, <2>1, <2>3, NothingIsAmong DEF AgentTypes, NoPost
  <2> QED BY <2>1, <2>2, <2>3
<1>15. CASE TenMinutes \/ DropStaleQueue \/ Sweep
  BY <1>2, <1>15 DEF TenMinutes, DropStaleQueue, Sweep, wsVars
<1>16. ASSUME NEW d \in Command, NEW w \in BOOLEAN, QueueCommand(d, w) \/ SendRaises(d, w) \/ SendReturns(d, w)
       PROVE  AgentTypes'
  BY <1>2, <1>16 DEF QueueCommand, SendRaises, SendReturns, wsVars
<1>17. ASSUME NEW d \in Command, QueueInstead(d) \/ SendCommand(d) \/ PollFinds(d) \/ PollEnds(d) \/ WaitEnds(d)
       PROVE  AgentTypes'
  BY <1>2, <1>17 DEF QueueInstead, SendCommand, PollFinds, PollEnds, WaitEnds, wsVars
<1>18. ASSUME NEW k \in Conn, TakeQueue(k) \/ SendQueued(k) \/ ReceiveResult(k) \/ HandlerEnds(k) \/ Drop(k)
       PROVE  AgentTypes'
  BY <1>2, <1>18 DEF TakeQueue, SendQueued, ReceiveResult, HandlerEnds, Drop
<1>19. CASE UNCHANGED channelVars
  BY <1>2, <1>19 DEF channelVars, wsVars
<1> QED
  BY <1>4, <1>5, <1>6, <1>7, <1>8, <1>9, <1>10, <1>11, <1>12, <1>13, <1>14, <1>15, <1>16, <1>17, <1>18, <1>19
     DEF ChannelNext, AgentThreads, Callers, Handlers

LEMMA LongerHasMore ==
    ASSUME NEW s \in Seq(Command), s # <<>>, Len(s) # 1
    PROVE  Tail(s) # <<>>
<1>1. Len(s) \in Nat /\ Len(s) # 0
  BY EmptySeq, LenProperties
<1>2. Len(Tail(s)) = Len(s) - 1
  BY HeadTailProperties
<1>3. Len(<<>>) = 0
  BY EmptySeq
<1>4. Len(Tail(s)) # 0
  BY <1>1, <1>2
<1> QED BY <1>3, <1>4

LoopHasBatch == loop = "executing" => batch # <<>>
DrainIsThere == \A k \in Conn : conn[k].handler = "draining" => conn[k].drain # <<>>
RunIsOnConn  == wsRun # <<>> => wsConn # 0
UsedIsUsed == /\ ws # 0 => conn[ws].handler # "none"
              /\ \A c \in Command : via[c] # 0 => conn[via[c]].handler # "none"

LEMMA TakersSplit == TakersHaveWork <=> LoopHasBatch /\ DrainIsThere /\ RunIsOnConn /\ UsedIsUsed
BY DEF TakersHaveWork, LoopHasBatch, DrainIsThere, RunIsOnConn, UsedIsUsed

\* What becomes of the connections in a step: none of those used becomes unused.
LEMMA HandlersKept ==
    ASSUME ConnTypes, DrainIsThere, ws \in Conn \union {0}, wsConn \in Conn \union {0}, [ChannelNext]_channelVars,
           wsRun # <<>> => wsConn # 0
    PROVE  DrainIsThere' /\ \A k \in Conn : conn[k].handler # "none" => conn'[k].handler # "none"
<1> DEFINE Goal == DrainIsThere' /\ \A k \in Conn : conn[k].handler # "none" => conn'[k].handler # "none"
<1>1. CASE \A k \in Conn : conn'[k].handler = conn[k].handler /\ conn'[k].drain = conn[k].drain
  BY <1>1 DEF DrainIsThere
<1>2. ASSUME NEW d \in Command, SendCommand(d) PROVE Goal
  <2>1. \A k \in Conn : conn'[k].handler = conn[k].handler /\ conn'[k].drain = conn[k].drain
    BY <1>2 DEF SendCommand, ConnTypes, IsConn
  <2> QED BY <1>1, <2>1
<1>3. CASE Identify
  <2>1. PICK k \in Unused : (CHOOSE n \in Unused : \A m \in Unused : n <= m) = k
    BY <1>3, LeastUnused DEF Identify
  <2>2. \A j \in Conn : j # k => conn'[j].handler = conn[j].handler /\ conn'[j].drain = conn[j].drain
    BY <1>3, <2>1 DEF Identify, ConnTypes, IsConn
  <2>3. k \in Conn => conn'[k].handler = "opening"
    BY <1>3, <2>1 DEF Identify, FreshConn
  <2> QED BY <2>2, <2>3 DEF DrainIsThere
<1>4. ASSUME NEW k \in Conn, TakeQueue(k) PROVE Goal
  <2>1. \A j \in Conn : j # k => conn'[j].handler = conn[j].handler /\ conn'[j].drain = conn[j].drain
    BY <1>4 DEF TakeQueue, ConnTypes, IsConn
  <2>2. conn'[k].handler = (IF pending = <<>> THEN "reading" ELSE "draining") /\ conn'[k].drain = pending
    BY <1>4 DEF TakeQueue, ConnTypes, IsConn
  <2> QED BY <2>1, <2>2 DEF DrainIsThere
<1>5. ASSUME NEW k \in Conn, SendQueued(k) PROVE Goal
  <2>1. \A j \in Conn : j # k => conn'[j].handler = conn[j].handler /\ conn'[j].drain = conn[j].drain
    BY <1>5 DEF SendQueued, ConnTypes, IsConn
  <2>2. /\ conn'[k].handler = (IF Len(conn[k].drain) = 1 THEN "reading" ELSE "draining")
        /\ conn'[k].drain = Tail(conn[k].drain)
    BY <1>5 DEF SendQueued, ConnTypes, IsConn
  <2>3. conn[k].drain \in Seq(Command) /\ conn[k].drain # <<>>
    BY <1>5 DEF SendQueued, ConnTypes, IsConn, DrainIsThere
  <2>4. Len(conn[k].drain) # 1 => conn'[k].drain # <<>>
    BY <2>2, <2>3, LongerHasMore
  <2> QED BY <2>1, <2>2, <2>4 DEF DrainIsThere
<1>6. ASSUME NEW k \in Conn, ReceiveResult(k) \/ Drop(k) PROVE Goal
  <2>1. \A j \in Conn : conn'[j].handler = conn[j].handler /\ conn'[j].drain = conn[j].drain
    <3>1. CASE ReceiveResult(k)
      BY <3>1 DEF ReceiveResult, ConnTypes, IsConn
    <3>2. CASE Drop(k)
      BY <3>2 DEF Drop, ConnTypes, IsConn
    <3> QED BY <1>6, <3>1, <3>2
  <2> QED BY <1>1, <2>1
<1>7. ASSUME NEW k \in Conn, HandlerEnds(k) PROVE Goal
  <2>1. \A j \in Conn : j # k => conn'[j] = conn[j]
    BY <1>7 DEF HandlerEnds, ConnTypes
  <2>2. conn'[k].handler = "ended"
    BY <1>7 DEF HandlerEnds, ConnTypes, FreshConn
  <2> QED BY <2>1, <2>2 DEF DrainIsThere
<1>8. CASE WsExecute \/ WsReply \/ WsLost
  <2>1. \A j \in Conn : conn'[j].handler = conn[j].handler /\ conn'[j].drain = conn[j].drain
    <3>1. CASE WsExecute
      BY <3>1 DEF WsExecute, ConnTypes, IsConn
    <3>2. CASE WsReply
      BY <3>2 DEF WsReply, ConnTypes, IsConn
    <3>3. CASE WsLost
      BY <3>3 DEF WsLost, ConnTypes, IsConn
    <3> QED BY <1>8, <3>1, <3>2, <3>3
  <2> QED BY <1>1, <2>1
<1>9. CASE AgentRestarts
  <2>1. \A j \in Conn : conn'[j].handler = conn[j].handler /\ conn'[j].drain = conn[j].drain
    BY <1>9 DEF AgentRestarts, Closed, ConnTypes, IsConn
  <2> QED BY <1>1, <2>1
<1>10. CASE ServerRestarts
  <2>1. \A j \in Conn : conn'[j] = conn[j] \/ conn'[j].handler = "ended"
    BY <1>10 DEF ServerRestarts, FreshConn
  <2> QED BY <2>1 DEF DrainIsThere
<1>11. CASE UNCHANGED conn
  BY <1>1, <1>11
<1>12. CASE Report \/ TakeAnswer \/ Execute \/ HandleReport \/ HandleStray \/ DropStaleQueue \/ Sweep
  BY <1>11, <1>12 DEF Report, TakeAnswer, Execute, HandleReport, HandleStray, DropStaleQueue, Sweep, wsVars
<1>13. CASE GiveUp \/ TenMinutes
  BY <1>11, <1>13 DEF GiveUp, TenMinutes, wsVars
<1>14. ASSUME NEW d \in Command, NEW w \in BOOLEAN, QueueCommand(d, w) \/ SendRaises(d, w) \/ SendReturns(d, w)
       PROVE  Goal
  BY <1>11, <1>14 DEF QueueCommand, SendRaises, SendReturns, wsVars
<1>15. ASSUME NEW d \in Command, QueueInstead(d) \/ PollFinds(d) \/ PollEnds(d) \/ WaitEnds(d)
       PROVE  Goal
  BY <1>11, <1>15 DEF QueueInstead, PollFinds, PollEnds, WaitEnds, wsVars
<1>16. CASE UNCHANGED channelVars
  BY <1>11, <1>16 DEF channelVars, wsVars
<1> QED
  BY <1>2, <1>3, <1>4, <1>5, <1>6, <1>7, <1>8, <1>9, <1>10, <1>12, <1>13, <1>14, <1>15, <1>16
     DEF ChannelNext, AgentThreads, Callers, Handlers

LEMMA TakersKept == ChannelInv /\ [ChannelNext]_channelVars => TakersHaveWork'
<1> SUFFICES ASSUME ChannelInv, [ChannelNext]_channelVars PROVE TakersHaveWork'
  OBVIOUS
<1>1. /\ ConnTypes /\ LoopHasBatch /\ DrainIsThere /\ RunIsOnConn /\ UsedIsUsed
      /\ ws \in Conn \union {0} /\ wsConn \in Conn \union {0} /\ \A c \in Command : via[c] \in Conn \union {0}
      /\ DOMAIN via = Command
  BY TypesSplit, TakersSplit, ConnIsNat DEF ChannelInv, ServerTypes, AgentTypes
<1>2. DrainIsThere' /\ \A k \in Conn : conn[k].handler # "none" => conn'[k].handler # "none"
  BY <1>1, HandlersKept DEF RunIsOnConn
<1>3. LoopHasBatch'
  BY <1>1 DEF LoopHasBatch, ChannelNext, channelVars, AgentThreads, Callers, Handlers, agentVars, Report, TakeAnswer,
     Execute, Identify, WsExecute, WsReply, WsLost, QueueCommand, QueueInstead, SendCommand, SendReturns, SendRaises,
     PollFinds, PollEnds, WaitEnds, HandleReport, HandleStray, DropStaleQueue, Sweep, TakeQueue, SendQueued,
     ReceiveResult, HandlerEnds, Drop, GiveUp, TenMinutes, AgentRestarts, ServerRestarts
<1>4. RunIsOnConn'
  <2>1. CASE Identify
    <3>1. PICK k \in Unused : (CHOOSE n \in Unused : \A m \in Unused : n <= m) = k
      BY <2>1, LeastUnused DEF Identify
    <3>2. k # 0
      BY ConnIsNat DEF Unused
    <3> QED BY <2>1, <3>1, <3>2 DEF Identify, RunIsOnConn
  <2>2. CASE ~Identify
    BY <1>1, <2>2 DEF RunIsOnConn, ChannelNext, channelVars, AgentThreads, Callers, Handlers, wsVars, Report, TakeAnswer,
     Execute, WsExecute, WsReply, WsLost, QueueCommand, QueueInstead, SendCommand, SendReturns, SendRaises,
     PollFinds, PollEnds, WaitEnds, HandleReport, HandleStray, DropStaleQueue, Sweep, TakeQueue, SendQueued,
     ReceiveResult, HandlerEnds, Drop, GiveUp, TenMinutes, AgentRestarts, ServerRestarts
  <2> QED BY <2>1, <2>2
<1>5. ASSUME ws' \in {ws, 0}, UNCHANGED via PROVE UsedIsUsed'
  BY <1>1, <1>2, <1>5 DEF UsedIsUsed
<1>6. ASSUME NEW d \in Command, SendCommand(d) PROVE UsedIsUsed'
  <2>1. ws' = ws /\ \A c \in Command : via'[c] \in {via[c], ws}
    BY <1>1, <1>6 DEF SendCommand
  <2> QED BY <1>1, <1>2, <2>1 DEF UsedIsUsed
<1>7. ASSUME Identify PROVE UsedIsUsed'
  <2>1. PICK k \in Unused : (CHOOSE n \in Unused : \A m \in Unused : n <= m) = k
    BY <1>7, LeastUnused DEF Identify
  <2>2. ws' = k /\ conn'[k].handler = "opening" /\ UNCHANGED via
    BY <1>7, <2>1 DEF Identify, FreshConn, Unused, callVars
  <2> QED BY <1>1, <1>2, <2>2 DEF UsedIsUsed
<1>8. ASSUME UNCHANGED <<ws, via>> PROVE UsedIsUsed'
  BY <1>5, <1>8
<1>9. ASSUME \/ Report \/ TakeAnswer \/ Execute \/ HandleReport \/ HandleStray \/ DropStaleQueue \/ Sweep
             \/ GiveUp \/ TenMinutes \/ WsExecute \/ WsReply \/ WsLost \/ AgentRestarts
      PROVE  UsedIsUsed'
  BY <1>8, <1>9 DEF Report, TakeAnswer, Execute, HandleReport, HandleStray, DropStaleQueue, Sweep, GiveUp, TenMinutes,
     WsExecute, WsReply, WsLost, AgentRestarts, wsVars, callVars
<1>10. ASSUME NEW d \in Command, NEW w \in BOOLEAN, QueueCommand(d, w) \/ SendRaises(d, w) \/ SendReturns(d, w)
       PROVE  UsedIsUsed'
  BY <1>5, <1>10 DEF QueueCommand, SendRaises, SendReturns, wsVars
<1>11. ASSUME NEW d \in Command, QueueInstead(d) \/ PollFinds(d) \/ PollEnds(d) \/ WaitEnds(d)
       PROVE  UsedIsUsed'
  BY <1>8, <1>11 DEF QueueInstead, PollFinds, PollEnds, WaitEnds, wsVars
<1>12. ASSUME NEW k \in Conn, TakeQueue(k) \/ SendQueued(k) \/ ReceiveResult(k) \/ Drop(k) PROVE UsedIsUsed'
  BY <1>8, <1>12 DEF TakeQueue, SendQueued, ReceiveResult, Drop, callVars
<1>13. ASSUME NEW k \in Conn, HandlerEnds(k) PROVE UsedIsUsed'
  BY <1>5, <1>13 DEF HandlerEnds, callVars
<1>14. ASSUME ServerRestarts PROVE UsedIsUsed'
  BY <1>5, <1>14 DEF ServerRestarts
<1>15. ASSUME UNCHANGED channelVars PROVE UsedIsUsed'
  BY <1>8, <1>15 DEF channelVars, wsVars, callVars
<1>16. UsedIsUsed'
  BY <1>6, <1>7, <1>9, <1>10, <1>11, <1>12, <1>13, <1>14, <1>15 DEF ChannelNext, AgentThreads, Callers, Handlers
<1> QED BY <1>2, <1>3, <1>4, <1>16 DEF TakersHaveWork, LoopHasBatch, DrainIsThere, RunIsOnConn, UsedIsUsed

-----------------------------------------------------------------------------
(***************************************************************************)
(* What each action does to the places.                                    *)
(***************************************************************************)

LEMMA PlacesCleared ==
    ASSUME ChannelInv, UNCHANGED <<via, executed>>,
           pending' \in {pending, <<>>}, post'.commands \in {post.commands, <<>>}, batch' \in {batch, <<>>},
           \A k \in Conn : conn'[k].drain \in {conn[k].drain, <<>>} /\ conn'[k].down \in {conn[k].down, <<>>},
           \A c \in Command : call'[c] = call[c] \/ call'[c] \notin {"none", "sending"},
           \A k \in Conn : conn[k].handler # "none" => (conn'[k].open => conn[k].open)
    PROVE  \A c \in Command : CommandInPlace(c)'
<1>1. \A p \in Place : Held(p)' = Held(p) \/ Held(p)' = <<>>
  <2> SUFFICES ASSUME NEW p \in Place PROVE Held(p)' = Held(p) \/ Held(p)' = <<>>
    OBVIOUS
  <2>1. CASE p \in {Pending, Answer, Batch}
    BY <2>1, HeldThere, HeldThereNext
  <2>2. ASSUME NEW k \in Conn, p = Drain(k) \/ p = Down(k) PROVE Held(p)' = Held(p) \/ Held(p)' = <<>>
    <3>1. Held(Drain(k))' \in {Held(Drain(k)), <<>>} /\ Held(Down(k))' \in {Held(Down(k)), <<>>}
      BY HeldThere, HeldThereNext
    <3> QED BY <2>2, <3>1
  <2> QED BY <2>1, <2>2, PlaceCases
<1> QED BY <1>1, NothingMoved

\* A step that touches the connections in nothing but what they carry up.
LEMMA ConnsAlone ==
    ASSUME ChannelInv, UNCHANGED <<via, executed, conn>>,
           pending' \in {pending, <<>>}, post'.commands \in {post.commands, <<>>}, batch' \in {batch, <<>>},
           \A c \in Command : call'[c] = call[c] \/ call'[c] \notin {"none", "sending"}
    PROVE  \A c \in Command : CommandInPlace(c)'
BY PlacesCleared

LEMMA PlacesKept == ChannelInv /\ [ChannelNext]_channelVars => \A c \in Command : CommandInPlace(c)'
<1> SUFFICES ASSUME ChannelInv, [ChannelNext]_channelVars PROVE \A c \in Command : CommandInPlace(c)'
  OBVIOUS
<1> DEFINE Goal == \A c \in Command : CommandInPlace(c)'
<1>1. /\ ConnTypes /\ TakersHaveWork /\ ws \in Conn \union {0} /\ wsConn \in Conn \union {0}
      /\ {pending, batch, post.commands} \subseteq Seq(Command) /\ DOMAIN call = Command
      /\ DOMAIN post = {"state", "results", "commands"}
  BY TypesSplit, ConnIsNat DEF ChannelInv, ServerTypes, AgentTypes
<1>2. NoPost.commands = <<>>
  BY DEF NoPost
<1>3. CASE Report
  BY <1>3, ConnsAlone DEF Report, callVars, wsVars, serverVars
<1>4. CASE HandleStray
  BY <1>4, ConnsAlone DEF HandleStray, Accept, callVars, wsVars
<1>5. CASE DropStaleQueue \/ Sweep
  BY <1>5, ConnsAlone DEF DropStaleQueue, Sweep, callVars, wsVars, agentVars
<1>6. CASE TenMinutes
  BY <1>6, ConnsAlone DEF TenMinutes, callVars, wsVars, agentVars
<1>7. CASE GiveUp
  BY <1>2, <1>7, ConnsAlone DEF GiveUp, callVars, wsVars, serverVars
<1>8. ASSUME NEW d \in Command, NEW w \in BOOLEAN, SendReturns(d, w) PROVE Goal
  <2>1. \A c \in Command : call'[c] = call[c] \/ call'[c] \notin {"none", "sending"}
    BY <1>1, <1>8 DEF SendReturns
  <2> QED BY <1>8, <2>1, ConnsAlone DEF SendReturns, wsVars, agentVars
<1>9. ASSUME NEW d \in Command, PollFinds(d) \/ PollEnds(d) \/ WaitEnds(d) PROVE Goal
  <2>1. \A c \in Command : call'[c] = call[c] \/ call'[c] \notin {"none", "sending"}
    BY <1>1, <1>9 DEF PollFinds, PollEnds, WaitEnds
  <2> QED BY <1>9, <2>1, ConnsAlone DEF PollFinds, PollEnds, WaitEnds, wsVars, agentVars, serverVars
<1>10. CASE UNCHANGED channelVars
  BY <1>10, ConnsAlone DEF channelVars, callVars, wsVars, agentVars, serverVars
<1>11. CASE Identify
  <2>1. PICK k \in Unused : (CHOOSE n \in Unused : \A m \in Unused : n <= m) = k
    BY <1>11, LeastUnused DEF Identify
  <2>2. \A j \in Conn : /\ conn'[j].drain \in {conn[j].drain, <<>>} /\ conn'[j].down \in {conn[j].down, <<>>}
                        /\ conn[j].handler # "none" => (conn'[j].open => conn[j].open)
    <3>1. \A j \in Conn : j # k => /\ conn'[j].drain = conn[j].drain /\ conn'[j].down = conn[j].down
                                   /\ (conn'[j].open => conn[j].open)
      BY <1>1, <1>11, <2>1 DEF Identify, ConnTypes, IsConn
    <3>2. k \in Conn /\ conn[k].handler = "none"
      BY <2>1 DEF Unused, FreshConn
    <3>3. conn'[k].drain = <<>> /\ conn'[k].down = <<>>
      BY <1>11, <2>1, <3>2 DEF Identify, FreshConn
    <3> QED BY <3>1, <3>2, <3>3
  <2>3. UNCHANGED <<via, executed, call, pending, post, batch>>
    BY <1>11 DEF Identify, serverVars, callVars, agentVars
  <2> QED BY <2>2, <2>3, PlacesCleared
<1>12. ASSUME NEW k \in Conn, ReceiveResult(k) PROVE Goal
  <2>1. \A j \in Conn : conn'[j].drain = conn[j].drain /\ conn'[j].down = conn[j].down /\ conn'[j].open = conn[j].open
    BY <1>1, <1>12 DEF ReceiveResult, ConnTypes, IsConn
  <2>2. UNCHANGED <<via, executed, call, pending, post, batch>>
    BY <1>12 DEF ReceiveResult, callVars, agentVars
  <2> QED BY <2>1, <2>2, PlacesCleared
<1>13. ASSUME NEW k \in Conn, HandlerEnds(k) PROVE Goal
  <2>1. \A j \in Conn : conn'[j].drain \in {conn[j].drain, <<>>} /\ conn'[j].down = conn[j].down
                        /\ (conn'[j].open => conn[j].open)
    BY <1>1, <1>13 DEF HandlerEnds, ConnTypes, FreshConn
  <2>2. UNCHANGED <<via, executed, call, pending, post, batch>>
    BY <1>13 DEF HandlerEnds, callVars, agentVars, serverVars
  <2> QED BY <2>1, <2>2, PlacesCleared
<1>14. ASSUME NEW k \in Conn, Drop(k) PROVE Goal
  <2>1. \A j \in Conn : conn'[j].drain = conn[j].drain /\ conn'[j].down = conn[j].down /\ (conn'[j].open => conn[j].open)
    BY <1>1, <1>14 DEF Drop, ConnTypes, IsConn
  <2>2. UNCHANGED <<via, executed, call, pending, post, batch>>
    BY <1>14 DEF Drop, callVars, agentVars, serverVars
  <2> QED BY <2>1, <2>2, PlacesCleared
<1>15. CASE WsReply
  <2>1. \A j \in Conn : conn'[j].drain = conn[j].drain /\ conn'[j].down = conn[j].down /\ conn'[j].open = conn[j].open
    BY <1>1, <1>15 DEF WsReply, ConnTypes, IsConn
  <2>2. UNCHANGED <<via, executed, call, pending, post, batch>>
    BY <1>15 DEF WsReply, callVars, agentVars, serverVars
  <2> QED BY <2>1, <2>2, PlacesCleared
<1>16. CASE WsLost
  <2>1. \A j \in Conn : conn'[j].drain = conn[j].drain /\ conn'[j].down \in {conn[j].down, <<>>} /\ conn'[j].open = conn[j].open
    BY <1>1, <1>16 DEF WsLost, ConnTypes, IsConn
  <2>2. UNCHANGED <<via, executed, call, pending, post, batch>>
    BY <1>16 DEF WsLost, callVars, agentVars, serverVars
  <2> QED BY <2>1, <2>2, PlacesCleared
<1>17. CASE AgentRestarts
  <2>1. \A j \in Conn : conn'[j].drain = conn[j].drain /\ conn'[j].down = <<>> /\ (conn'[j].open => conn[j].open)
    BY <1>1, <1>17 DEF AgentRestarts, Closed, ConnTypes, IsConn
  <2>2. UNCHANGED <<via, executed, call, pending>> /\ post'.commands = <<>> /\ batch' = <<>>
    BY <1>2, <1>17 DEF AgentRestarts, callVars, serverVars
  <2> QED BY <2>1, <2>2, PlacesCleared
<1>18. CASE ServerRestarts
  <2>1. \A j \in Conn : conn'[j].drain \in {conn[j].drain, <<>>} /\ conn'[j].down = conn[j].down
                        /\ (conn'[j].open => conn[j].open)
    BY <1>1, <1>18 DEF ServerRestarts, ConnTypes, FreshConn
  <2>2. \A c \in Command : call'[c] = call[c] \/ call'[c] \notin {"none", "sending"}
    BY <1>18 DEF ServerRestarts
  <2>3. UNCHANGED <<via, executed, batch>> /\ pending' = <<>> /\ post'.commands \in {post.commands, <<>>}
    BY <1>2, <1>18 DEF ServerRestarts
  <2> QED BY <2>1, <2>2, <2>3, PlacesCleared
<1>19. CASE HandleReport
  <2>1. pending' = <<>> /\ post'.commands = pending /\ UNCHANGED <<batch, conn, via, executed, call>>
    BY <1>1, <1>19 DEF HandleReport, Accept, callVars, wsVars
  <2>2. \A x \in Place \ {Pending, Answer} : Held(x)' = Held(x)
    BY <2>1, PlaceCases, HeldThere, HeldThereNext
  <2>3. Held(Pending)' = <<>> /\ Held(Answer)' = Held(Pending)
    BY <2>1, HeldThere, HeldThereNext
  <2> SUFFICES ASSUME NEW c \in Command PROVE CommandInPlace(c)'
    OBVIOUS
  <2>4. ChannelTypes /\ CommandInPlace(c)
    BY DEF ChannelInv
  <2>5. Pending \in Place /\ Answer \in Place /\ Pending # Answer /\ \A j \in Conn : Pending # Down(j) /\ Answer # Down(j)
    BY PlaceCases
  <2> QED BY <2>1, <2>2, <2>3, <2>4, <2>5, AllMoved
<1>20. CASE TakeAnswer
  <2>1. post'.commands = <<>> /\ UNCHANGED <<pending, conn, via, executed, call>>
    BY <1>2, <1>20 DEF TakeAnswer, callVars, wsVars, serverVars
  <2>2. \A x \in Place \ {Answer, Batch} : Held(x)' = Held(x)
    BY <2>1, PlaceCases, HeldThere, HeldThereNext
  <2>3. Held(Answer)' = <<>> /\ Held(Batch)' = batch' /\ Held(Answer) = post.commands
    BY <2>1, HeldThere, HeldThereNext
  <2> SUFFICES ASSUME NEW c \in Command PROVE CommandInPlace(c)'
    OBVIOUS
  <2>4. ChannelTypes /\ CommandInPlace(c)
    BY DEF ChannelInv
  <2>5. (Once(c, Held(Answer)) => Once(c, Held(Batch)')) /\ (Among(c, Held(Batch)') => Among(c, Held(Answer)))
    BY <1>1, <1>20, <2>3, FirstFew DEF TakeAnswer
  <2>6. Answer \in Place /\ Batch \in Place /\ Answer # Batch /\ \A j \in Conn : Answer # Down(j) /\ Batch # Down(j)
    BY PlaceCases
  <2> QED BY <2>1, <2>2, <2>3, <2>4, <2>5, <2>6, AllMoved
<1>21. ASSUME NEW k \in Conn, TakeQueue(k) PROVE Goal
  <2>1. pending' = <<>> /\ UNCHANGED <<post, batch, via, executed, call>>
    BY <1>21 DEF TakeQueue, callVars, agentVars
  <2>2. /\ \A j \in Conn : conn'[j].down = conn[j].down /\ conn'[j].open = conn[j].open
        /\ \A j \in Conn : j # k => conn'[j].drain = conn[j].drain
        /\ conn'[k].drain = pending
    BY <1>1, <1>21 DEF TakeQueue, ConnTypes, IsConn
  <2>3. \A x \in Place \ {Pending, Drain(k)} : Held(x)' = Held(x)
    <3>1. \A j \in Conn : Held(Down(j))' = Held(Down(j)) /\ (j # k => Held(Drain(j))' = Held(Drain(j)))
      BY <2>2, HeldThere, HeldThereNext
    <3>2. Held(Answer)' = Held(Answer) /\ Held(Batch)' = Held(Batch)
      BY <2>1, HeldThere, HeldThereNext
    <3> QED BY <3>1, <3>2, PlaceCases
  <2>4. Held(Pending)' = <<>> /\ Held(Drain(k))' = Held(Pending)
    BY <2>1, <2>2, HeldThere, HeldThereNext
  <2> SUFFICES ASSUME NEW c \in Command PROVE CommandInPlace(c)'
    OBVIOUS
  <2>5. ChannelTypes /\ CommandInPlace(c)
    BY DEF ChannelInv
  <2>6. Drain(k) \in Place /\ Pending \in Place /\ Pending # Drain(k) /\ \A j \in Conn : Pending # Down(j) /\ Drain(k) # Down(j)
    BY PlaceCases
  <2> QED BY <2>1, <2>2, <2>3, <2>4, <2>5, <2>6, AllMoved
<1>22. CASE Execute
  <2>1. /\ batch # <<>> /\ batch' = Tail(batch) /\ UNCHANGED <<pending, post, conn, via, call>>
        /\ executed' = [executed EXCEPT ![Head(batch)] = @ + 1]
    BY <1>1, <1>22 DEF Execute, TakersHaveWork, callVars, wsVars, serverVars
  <2>2. \A x \in Place \ {Batch} : Held(x)' = Held(x)
    BY <2>1, PlaceCases, HeldThere, HeldThereNext
  <2>3. Held(Batch) = batch /\ Held(Batch)' = batch' /\ Batch \in Place
    BY PlaceCases, HeldThere, HeldThereNext
  <2> QED BY <1>1, <2>1, <2>2, <2>3, HeadExecuted
<1>23. CASE WsExecute
  <2>1. PICK k \in Conn : k = wsConn
    BY <1>1, <1>23 DEF WsExecute
  <2>2. /\ conn[k].down # <<>> /\ UNCHANGED <<pending, batch, post, via, call>>
        /\ executed' = [executed EXCEPT ![Head(conn[k].down)] = @ + 1]
    BY <1>23, <2>1 DEF WsExecute, callVars, agentVars, serverVars
  <2>3. /\ \A j \in Conn : conn'[j].drain = conn[j].drain /\ conn'[j].open = conn[j].open
        /\ \A j \in Conn : j # k => conn'[j].down = conn[j].down
        /\ conn'[k].down = Tail(conn[k].down) /\ conn[k].down \in Seq(Command)
    BY <1>1, <1>23, <2>1 DEF WsExecute, ConnTypes, IsConn
  <2>4. Held(Down(k)) = conn[k].down /\ Held(Down(k))' = conn'[k].down /\ Down(k) \in Place
    BY PlaceCases, HeldThere, HeldThereNext
  <2>5. \A x \in Place \ {Down(k)} : Held(x)' = Held(x)
    <3>1. \A j \in Conn : Held(Drain(j))' = Held(Drain(j)) /\ (j # k => Held(Down(j))' = Held(Down(j)))
      BY <2>3, HeldThere, HeldThereNext
    <3>2. Held(Pending)' = Held(Pending) /\ Held(Answer)' = Held(Answer) /\ Held(Batch)' = Held(Batch)
      BY <2>2, HeldThere, HeldThereNext
    <3> QED BY <3>1, <3>2, PlaceCases
  <2> QED BY <2>2, <2>3, <2>4, <2>5, HeadExecuted
<1>24. ASSUME NEW k \in Conn, SendQueued(k) PROVE Goal
  <2>1. UNCHANGED <<pending, batch, post, via, call, executed>> /\ conn[k].open /\ conn[k].drain # <<>>
    BY <1>1, <1>24 DEF SendQueued, TakersHaveWork, callVars, agentVars, serverVars
  <2>2. /\ \A j \in Conn : conn'[j].open = conn[j].open
        /\ \A j \in Conn : j # k => conn'[j].down = conn[j].down /\ conn'[j].drain = conn[j].drain
        /\ conn'[k].drain = Tail(conn[k].drain)
        /\ conn'[k].down = Append(conn[k].down, Head(conn[k].drain))
    BY <1>1, <1>24 DEF SendQueued, ConnTypes, IsConn
  <2>3. Held(Down(k))' = conn'[k].down /\ Held(Drain(k))' = conn'[k].drain
    BY HeldThereNext
  <2>4. \A x \in Place \ {Drain(k), Down(k)} : Held(x)' = Held(x)
    <3>1. \A j \in Conn : j # k => Held(Drain(j))' = Held(Drain(j)) /\ Held(Down(j))' = Held(Down(j))
      BY <2>2, HeldThere, HeldThereNext
    <3>2. Held(Pending)' = Held(Pending) /\ Held(Answer)' = Held(Answer) /\ Held(Batch)' = Held(Batch)
      BY <2>1, HeldThere, HeldThereNext
    <3> QED BY <3>1, <3>2, PlaceCases
  <2> QED BY <2>1, <2>2, <2>3, <2>4, HeadSent
<1>25. ASSUME NEW d \in Command, NEW w \in BOOLEAN, QueueCommand(d, w) \/ SendRaises(d, w) \/ QueueInstead(d)
       PROVE  Goal
  <2>1. pending' = Append(pending, d) /\ UNCHANGED <<post, batch, conn, via, executed>>
    BY <1>25 DEF QueueCommand, SendRaises, QueueInstead, agentVars, wsVars
  <2>2. \A x \in Place \ {Pending} : Held(x)' = Held(x)
    BY <2>1, PlaceCases, HeldThere, HeldThereNext
  <2>3. call'[d] \notin {"none", "sending"} /\ \A c \in Command \ {d} : call'[c] = call[c]
    BY <1>1, <1>25 DEF QueueCommand, SendRaises, QueueInstead
  <2>4. call[d] = "none" \/ (call[d] = "sending" /\ ~conn[via[d]].open)
    BY <1>25 DEF QueueCommand, SendRaises, QueueInstead
  <2> QED BY <2>1, <2>2, <2>3, <2>4, CommandQueued
<1>26. ASSUME NEW d \in Command, SendCommand(d) PROVE Goal
  <2>1. PICK k \in Conn : k = ws
    BY <1>1, <1>26 DEF SendCommand
  <2>2. /\ call[d] = "none" /\ call' = [call EXCEPT ![d] = "sending"] /\ via' = [via EXCEPT ![d] = k]
        /\ UNCHANGED <<executed, pending, batch, post>>
    BY <1>26, <2>1 DEF SendCommand, agentVars, serverVars
  <2>3. /\ \A j \in Conn : conn'[j].drain = conn[j].drain /\ conn'[j].open = conn[j].open
        /\ \A j \in Conn : j # k => conn'[j].down = conn[j].down
        /\ conn'[k].down \in {conn[k].down, Append(conn[k].down, d)}
    <3>1. CASE conn' = conn
      BY <3>1
    <3>2. CASE conn' = [conn EXCEPT ![k].down = Append(@, d)]
      <4>1. conn' = [conn EXCEPT ![k] = [conn[k] EXCEPT !.down = Append(conn[k].down, d)]]
        BY <3>2
      <4>2. conn'[k] = [conn[k] EXCEPT !.down = Append(conn[k].down, d)]
            /\ \A j \in Conn : j # k => conn'[j] = conn[j]
        BY <1>1, <4>1 DEF ConnTypes
      <4>3. DOMAIN conn[k] = {"open", "handler", "drain", "down", "up"}
        BY <1>1 DEF ConnTypes, IsConn
      <4>4. conn'[k].drain = conn[k].drain /\ conn'[k].open = conn[k].open
            /\ conn'[k].down = Append(conn[k].down, d)
        BY <4>2, <4>3
      <4> QED BY <4>2, <4>4
    <3> QED BY <1>26, <2>1, <3>1, <3>2 DEF SendCommand
  <2>4. \A x \in Place \ {Down(k)} : Held(x)' = Held(x)
    <3>1. \A j \in Conn : Held(Drain(j))' = Held(Drain(j)) /\ (j # k => Held(Down(j))' = Held(Down(j)))
      BY <2>3, HeldThere, HeldThereNext
    <3>2. Held(Pending)' = Held(Pending) /\ Held(Answer)' = Held(Answer) /\ Held(Batch)' = Held(Batch)
      BY <2>2, HeldThere, HeldThereNext
    <3> QED BY <3>1, <3>2, PlaceCases
  <2> QED BY <2>1, <2>2, <2>3, <2>4, CommandSent
<1> QED
  BY <1>3, <1>4, <1>5, <1>6, <1>7, <1>8, <1>9, <1>10, <1>11, <1>12, <1>13, <1>14, <1>15, <1>16, <1>17, <1>18, <1>19,
     <1>20, <1>21, <1>22, <1>23, <1>24, <1>25, <1>26
     DEF ChannelNext, AgentThreads, Callers, Handlers

LEMMA ChannelStepOK == ChannelInv /\ [ChannelNext]_channelVars => ChannelInv'
<1> SUFFICES ASSUME ChannelInv, [ChannelNext]_channelVars PROVE ChannelInv'
  OBVIOUS
<1>1. ConnTypes' /\ ServerTypes' /\ AgentTypes'
  BY ConnTypesKept, ServerTypesKept, AgentTypesKept
<1>2. ChannelTypes'
  BY <1>1 DEF ChannelTypes, ConnTypes, IsConn, ServerTypes, AgentTypes
<1> QED BY <1>2, TakersKept, PlacesKept DEF ChannelInv

-----------------------------------------------------------------------------
(***************************************************************************)
(* Copies are counted.                                                     *)
(***************************************************************************)

LEMMA AtMostOne ==
    ASSUME NEW S, \A x, y \in S : x = y
    PROVE  IsFiniteSet(S) /\ Cardinality(S) = IF S = {} THEN 0 ELSE 1
<1>1. CASE S = {}
  BY <1>1, FS_EmptySet
<1>2. CASE S # {}
  <2>1. PICK x \in S : TRUE
    BY <1>2
  <2>2. S = {x}
    BY <2>1
  <2> QED BY <1>2, <2>2, FS_Singleton
<1> QED BY <1>1, <1>2

\* The copies of a command are where it is: at most one on the connection it
\* was sent on, at most one anywhere else.
LEMMA CopiesCounted ==
    ASSUME NEW c \in Command, CommandInPlace(c)
    PROVE  Cardinality(Copies(c)) = (IF InMain(c) THEN 1 ELSE 0) + (IF Elsewhere(c) THEN 1 ELSE 0)
<1> DEFINE M == {w \in Copies(c) : w[1] = Down(via[c])}
           E == {w \in Copies(c) : w[1] # Down(via[c])}
<1>1. \A w \in Copies(c) : \E p, i : p \in Place /\ i \in DOMAIN Held(p) /\ w = <<p, i>> /\ Held(p)[i] = c
  BY DEF Copies
<1>2. \A p \in Place : \A i \in DOMAIN Held(p) : Held(p)[i] = c => <<p, i>> \in Copies(c)
  BY DEF Copies
<1>3. \A w, x \in M : w = x
  BY <1>1 DEF CommandInPlace, Once
<1>4. \A w, x \in E : w = x
  <2> SUFFICES ASSUME NEW w \in E, NEW x \in E PROVE w = x
    OBVIOUS
  <2>1. PICK p, i : p \in Place /\ i \in DOMAIN Held(p) /\ w = <<p, i>> /\ Held(p)[i] = c
    BY <1>1
  <2>2. PICK q, j : q \in Place /\ j \in DOMAIN Held(q) /\ x = <<q, j>> /\ Held(q)[j] = c
    BY <1>1
  <2>3. p # Down(via[c]) /\ q # Down(via[c])
    BY <2>1, <2>2
  <2>4. Among(c, Held(p)) /\ Among(c, Held(q))
    BY <2>1, <2>2 DEF Among
  <2>5. p = q
    BY <2>1, <2>2, <2>3, <2>4 DEF CommandInPlace
  <2> QED BY <2>1, <2>2, <2>5 DEF CommandInPlace, Once
<1>5. M # {} <=> InMain(c)
  <2>1. ASSUME NEW w \in M PROVE InMain(c)
    <3>1. PICK p, i : p \in Place /\ i \in DOMAIN Held(p) /\ w = <<p, i>> /\ Held(p)[i] = c
      BY <1>1
    <3>2. p = Down(via[c]) /\ Among(c, Held(p))
      BY <3>1 DEF Among
    <3>3. via[c] \in Conn
      BY <3>1, <3>2, PlaceCases
    <3> QED BY <3>2, <3>3, HeldThere DEF InMain
  <2>2. ASSUME InMain(c) PROVE M # {}
    <3>1. Down(via[c]) \in Place /\ Among(c, Held(Down(via[c])))
      BY <2>2, PlaceCases, HeldThere DEF InMain
    <3>2. PICK i \in DOMAIN Held(Down(via[c])) : Held(Down(via[c]))[i] = c
      BY <3>1 DEF Among
    <3>3. <<Down(via[c]), i>> \in M
      BY <1>2, <3>1, <3>2
    <3> QED BY <3>3
  <2> QED BY <2>1, <2>2
<1>6. E # {} <=> Elsewhere(c)
  <2>1. ASSUME NEW w \in E PROVE Elsewhere(c)
    <3>1. PICK p, i : p \in Place /\ i \in DOMAIN Held(p) /\ w = <<p, i>> /\ Held(p)[i] = c
      BY <1>1
    <3> QED BY <3>1 DEF Among, Elsewhere
  <2>2. ASSUME Elsewhere(c) PROVE E # {}
    <3>1. PICK p \in Place \ {Down(via[c])} : Among(c, Held(p))
      BY <2>2 DEF Elsewhere
    <3>2. PICK i \in DOMAIN Held(p) : Held(p)[i] = c
      BY <3>1 DEF Among
    <3>3. <<p, i>> \in E
      BY <1>2, <3>1, <3>2
    <3> QED BY <3>3
  <2> QED BY <2>1, <2>2
<1>7. Copies(c) = M \union E /\ M \cap E = {}
  OBVIOUS
<1> HIDE DEF M, E
<1>8. /\ IsFiniteSet(M) /\ Cardinality(M) = IF InMain(c) THEN 1 ELSE 0
      /\ IsFiniteSet(E) /\ Cardinality(E) = IF Elsewhere(c) THEN 1 ELSE 0
  BY <1>3, <1>4, <1>5, <1>6, AtMostOne
<1>9. Cardinality(M \union E) = Cardinality(M) + Cardinality(E) - Cardinality(M \cap E)
  BY <1>8, FS_Union
<1>10. Cardinality(M \cap E) = 0
  BY <1>7, FS_EmptySet
<1> QED BY <1>7, <1>8, <1>9, <1>10

\* However many commands, connections, losses and restarts, a command is executed
\* at most once, or twice if the connection it was sent on is gone: the queue,
\* the answer, the batch and the connections never hold it in two places.
THEOREM CommandsRunOnce == ChannelSpec => []ExecutedAtMostOnce
<1>1. ChannelInv => ExecutedAtMostOnce
  <2> SUFFICES ASSUME ChannelInv, NEW c \in Command
               PROVE  executed[c] + Cardinality(Copies(c)) <= IF via[c] = 0 \/ conn[via[c]].open THEN 1 ELSE 2
    BY DEF ExecutedAtMostOnce
  <2>1. CommandInPlace(c) /\ executed[c] \in Nat
    BY DEF ChannelInv, ChannelTypes
  <2>2. executed[c] + Cardinality(Copies(c)) = Uses(c)
    BY <2>1, CopiesCounted DEF Uses
  <2> QED BY <2>1, <2>2 DEF CommandInPlace
<1> QED BY <1>1, ChannelInitOK, ChannelStepOK, PTL DEF ChannelSpec

-----------------------------------------------------------------------------
(* Results. *)

Executed == {c \in Command : executed[c] > 0}

Only(s, D) == \A c : Among(c, s) => c \in D

LEMMA OnlyMore == \A s, D, E : Only(s, D) /\ D \subseteq E => Only(s, E)
BY DEF Only

LEMMA OnlyKept ==
    ASSUME NEW D, NEW s \in Seq(Command), Only(s, D)
    PROVE  /\ \A t \in Seq(Command) : Only(t, D) => s \o t \in Seq(Command) /\ Only(s \o t, D) /\ Only(LastKept(s \o t), D)
           /\ \A d \in Command : d \in D => Only(Append(s, d), D) /\ Only(LastKept(Append(s, d)), D)
           /\ s # <<>> => Only(Tail(s), D) /\ Head(s) \in D
           /\ Only(<<>>, D) /\ \A d \in D : Only(<<d>>, D)
           /\ ToSet(s) \subseteq D
<1>1. \A t \in Seq(Command) : Only(t, D) => s \o t \in Seq(Command) /\ Only(s \o t, D) /\ Only(LastKept(s \o t), D)
  BY Joined, EndKept DEF Only
<1>2. \A d \in Command : d \in D => Only(Append(s, d), D) /\ Only(LastKept(Append(s, d)), D)
  BY Appended, EndKept DEF Only
<1>3. s # <<>> => Only(Tail(s), D) /\ Head(s) \in D
  BY Taken DEF Only
<1>4. Only(<<>>, D)
  BY NothingIsAmong DEF Only
<1>5. \A d \in D : Only(<<d>>, D)
  BY DEF Only, Among
<1>6. ToSet(s) \subseteq D
  BY DEF ToSet, Only, Among
<1> QED BY <1>1, <1>2, <1>3, <1>4, <1>5, <1>6

LEMMA OnlyOne == ASSUME NEW D, NEW d \in D PROVE Only(<<d>>, D)
BY DEF Only, Among

\* Every result that is kept or on its way is that of a command the agent executed.
ResultsAreReal ==
    /\ Only(results, Executed) /\ Only(buffer, Executed) /\ Only(post.results, Executed) /\ Only(wsRun, Executed)
    /\ \A res \in stray : Only(res, Executed)
    /\ \A k \in Conn : Only(conn[k].up, Executed)

RowsAreReal == \A c \in Command : history[c] = "done" \/ call[c] = "answered" => c \in Executed

AnswersInv == ChannelInv /\ ResultsAreReal /\ RowsAreReal

LEMMA ExecutedGrows ==
    ASSUME ChannelInv, [ChannelNext]_channelVars
    PROVE  /\ Executed \subseteq Executed'
           /\ Execute => Head(batch) \in Executed' \cap Command
           /\ WsExecute => Head(conn[wsConn].down) \in Executed' \cap Command
<1>1. ConnTypes /\ executed \in [Command -> Nat] /\ TakersHaveWork /\ wsConn \in Conn \union {0} /\ batch \in Seq(Command)
  BY TypesSplit, ConnIsNat DEF ChannelInv, AgentTypes
<1>2. \A d \in Command : executed' = [executed EXCEPT ![d] = @ + 1] => Executed \subseteq Executed' /\ d \in Executed'
  <2> SUFFICES ASSUME NEW d \in Command, executed' = [executed EXCEPT ![d] = @ + 1]
               PROVE  Executed \subseteq Executed' /\ d \in Executed'
    OBVIOUS
  <2>1. executed[d] \in Nat /\ executed'[d] = executed[d] + 1 /\ \A c \in Command : c # d => executed'[c] = executed[c]
    BY <1>1
  <2>2. executed'[d] > 0
    BY <2>1
  <2> QED BY <2>1, <2>2 DEF Executed
<1>3. ASSUME Execute PROVE Executed \subseteq Executed' /\ Head(batch) \in Executed' \cap Command
  <2>1. Head(batch) \in Command
    BY <1>1, <1>3, Taken DEF Execute, TakersHaveWork
  <2> QED BY <1>2, <1>3, <2>1 DEF Execute
<1>4. ASSUME WsExecute
      PROVE  Executed \subseteq Executed' /\ Head(conn[wsConn].down) \in Executed' \cap Command
  <2>1. PICK k \in Conn : k = wsConn
    BY <1>1, <1>4 DEF WsExecute
  <2>2. Head(conn[k].down) \in Command
    BY <1>1, <1>4, <2>1, Taken DEF WsExecute, ConnTypes, IsConn
  <2> QED BY <1>2, <1>4, <2>1, <2>2 DEF WsExecute
<1>5. ASSUME ~Execute, ~WsExecute PROVE Executed \subseteq Executed'
  <2>1. executed' = executed
    BY <1>5 DEF ChannelNext, channelVars, AgentThreads, Callers, Handlers, Report, TakeAnswer,
     Identify, WsReply, WsLost, QueueCommand, QueueInstead, SendCommand, SendReturns, SendRaises,
     PollFinds, PollEnds, WaitEnds, HandleReport, HandleStray, DropStaleQueue, Sweep, TakeQueue, SendQueued,
     ReceiveResult, HandlerEnds, Drop, GiveUp, TenMinutes, AgentRestarts, ServerRestarts
  <2> QED BY <1>5, <2>1 DEF Executed
<1> QED BY <1>3, <1>4, <1>5

\* What an action does to the results: all of them that are somewhere after it
\* were somewhere before it, or are of the command that was just executed.
LEMMA ResultsKept == AnswersInv /\ [ChannelNext]_channelVars => ResultsAreReal'
<1> SUFFICES ASSUME AnswersInv, [ChannelNext]_channelVars PROVE ResultsAreReal'
  OBVIOUS
<1>1. /\ ConnTypes /\ TakersHaveWork /\ wsConn \in Conn \union {0} /\ stray \subseteq Seq(Command)
      /\ {results, buffer, post.results, wsRun, batch} \subseteq Seq(Command)
  BY TypesSplit, ConnIsNat DEF AnswersInv, ChannelInv, ServerTypes, AgentTypes
<1> DEFINE D == Executed'
<1>2. Executed \subseteq D
  BY ExecutedGrows DEF AnswersInv
<1> HIDE DEF D
<1>3. /\ Only(results, D) /\ Only(buffer, D) /\ Only(post.results, D) /\ Only(wsRun, D) /\ Only(<<>>, D)
      /\ \A res \in stray : Only(res, D)
      /\ \A k \in Conn : Only(conn[k].up, D)
  <2>1. Only(<<>>, D)
    BY NothingIsAmong DEF Only
  <2> QED BY <1>2, <2>1, OnlyMore DEF AnswersInv, ResultsAreReal
<1>4. Only(results', D)
  <2>1. CASE HandleReport
    BY <1>1, <1>3, <2>1, OnlyKept DEF HandleReport, Accept
  <2>2. CASE HandleStray
    <3>1. PICK res \in stray : results' = LastKept(results \o res)
      BY <2>2 DEF HandleStray, Accept
    <3>2. res \in Seq(Command) /\ Only(res, D)
      BY <1>1, <1>3
    <3> QED BY <1>1, <1>3, <3>1, <3>2, OnlyKept
  <2>3. ASSUME NEW k \in Conn, ReceiveResult(k) PROVE Only(results', D)
    <3>1. conn[k].up \in Seq(Command) /\ conn[k].up # <<>> /\ Only(conn[k].up, D)
      BY <1>1, <1>3, <2>3 DEF ReceiveResult, ConnTypes, IsConn
    <3>2. Head(conn[k].up) \in Command /\ Head(conn[k].up) \in D
      BY <3>1, Taken, OnlyKept
    <3> QED BY <1>1, <1>3, <2>3, <3>2, OnlyKept DEF ReceiveResult
  <2>4. CASE results' \in {results, <<>>}
    BY <1>3, <2>4
  <2>5. CASE AgentThreads
    BY <2>4, <2>5 DEF AgentThreads, Report, TakeAnswer, Execute, Identify, WsExecute, WsReply, WsLost, serverVars
  <2>6. ASSUME NEW d \in Command, NEW w \in BOOLEAN, QueueCommand(d, w) \/ SendRaises(d, w) \/ SendReturns(d, w)
        PROVE  Only(results', D)
    BY <2>4, <2>6 DEF QueueCommand, SendRaises, SendReturns
  <2>7. ASSUME NEW d \in Command, QueueInstead(d) \/ SendCommand(d) \/ PollFinds(d) \/ PollEnds(d) \/ WaitEnds(d)
        PROVE  Only(results', D)
    BY <2>4, <2>7 DEF QueueInstead, SendCommand, PollFinds, PollEnds, WaitEnds, serverVars
  <2>8. ASSUME NEW k \in Conn, TakeQueue(k) \/ SendQueued(k) \/ HandlerEnds(k) \/ Drop(k) PROVE Only(results', D)
    BY <2>4, <2>8 DEF TakeQueue, SendQueued, HandlerEnds, Drop, serverVars
  <2>9. CASE DropStaleQueue \/ Sweep \/ GiveUp \/ TenMinutes \/ AgentRestarts \/ ServerRestarts \/ UNCHANGED channelVars
    BY <2>4, <2>9 DEF DropStaleQueue, Sweep, GiveUp, TenMinutes, AgentRestarts, ServerRestarts, channelVars, serverVars
  <2> QED BY <2>1, <2>2, <2>3, <2>5, <2>6, <2>7, <2>8, <2>9 DEF ChannelNext, Callers, Handlers
<1>5. Only(buffer', D)
  <2>1. CASE Execute
    <3>1. Head(batch) \in Command /\ Head(batch) \in D
      BY <2>1, ExecutedGrows DEF AnswersInv, D
    <3> QED BY <1>1, <1>3, <2>1, <3>1, OnlyKept DEF Execute
  <2>2. CASE ~Execute
    <3>1. buffer' \in {buffer, <<>>}
      BY <2>2 DEF ChannelNext, channelVars, agentVars, AgentThreads, Callers, Handlers, Report, TakeAnswer, WsExecute,
        Identify, WsReply, WsLost, QueueCommand, QueueInstead, SendCommand, SendReturns, SendRaises,
        PollFinds, PollEnds, WaitEnds, HandleReport, HandleStray, DropStaleQueue, Sweep, TakeQueue, SendQueued,
        ReceiveResult, HandlerEnds, Drop, GiveUp, TenMinutes, AgentRestarts, ServerRestarts
    <3> QED BY <1>3, <3>1
  <2> QED BY <2>1, <2>2
<1>6. Only(post'.results, D)
  <2>1. CASE HandleReport
    <3>1. post'.results = post.results
      BY <1>1, <2>1, TypesSplit DEF HandleReport, AnswersInv, ChannelInv, AgentTypes
    <3> QED BY <1>3, <3>1
  <2>2. CASE ~HandleReport
    <3>1. ASSUME Report PROVE post'.results = buffer
      BY <3>1 DEF Report
    <3>2. ASSUME ~Report PROVE post' = post \/ post' = NoPost
      BY <2>2, <3>2 DEF ChannelNext, channelVars, agentVars, AgentThreads, Callers, Handlers, TakeAnswer, Execute, WsExecute,
        Identify, WsReply, WsLost, QueueCommand, QueueInstead, SendCommand, SendReturns, SendRaises,
        PollFinds, PollEnds, WaitEnds, HandleStray, DropStaleQueue, Sweep, TakeQueue, SendQueued,
        ReceiveResult, HandlerEnds, Drop, GiveUp, TenMinutes, AgentRestarts, ServerRestarts
    <3> QED BY <1>3, <3>1, <3>2 DEF NoPost
  <2> QED BY <2>1, <2>2
<1>7. Only(wsRun', D)
  <2>1. CASE WsExecute
    <3>1. Head(conn[wsConn].down) \in D /\ wsRun' = <<Head(conn[wsConn].down)>>
      BY <2>1, ExecutedGrows DEF AnswersInv, D, WsExecute
    <3> QED BY <3>1, OnlyOne
  <2>2. CASE ~WsExecute
    <3>1. wsRun' \in {wsRun, <<>>}
      BY <2>2 DEF ChannelNext, channelVars, wsVars, AgentThreads, Callers, Handlers, Report, TakeAnswer, Execute,
        Identify, WsReply, WsLost, QueueCommand, QueueInstead, SendCommand, SendReturns, SendRaises,
        PollFinds, PollEnds, WaitEnds, HandleReport, HandleStray, DropStaleQueue, Sweep, TakeQueue, SendQueued,
        ReceiveResult, HandlerEnds, Drop, GiveUp, TenMinutes, AgentRestarts, ServerRestarts
    <3> QED BY <1>3, <3>1
  <2> QED BY <2>1, <2>2
<1>8. \A res \in stray' : Only(res, D)
  <2>1. stray' \subseteq stray \union {post.results}
    BY DEF ChannelNext, channelVars, agentVars, AgentThreads, Callers, Handlers, Report, TakeAnswer, Execute, WsExecute,
      Identify, WsReply, WsLost, QueueCommand, QueueInstead, SendCommand, SendReturns, SendRaises,
      PollFinds, PollEnds, WaitEnds, HandleReport, HandleStray, DropStaleQueue, Sweep, TakeQueue, SendQueued,
      ReceiveResult, HandlerEnds, Drop, GiveUp, TenMinutes, AgentRestarts, ServerRestarts
  <2> QED BY <1>3, <2>1
<1>9. \A k \in Conn : Only(conn'[k].up, D)
  <2> DEFINE Goal == \A k \in Conn : Only(conn'[k].up, D)
  <2>1. CASE \A k \in Conn : conn'[k].up \in {conn[k].up, <<>>}
    BY <1>3, <2>1
  <2>2. CASE WsReply
    <3>1. PICK k \in Conn : k = wsConn
      BY <1>1, <2>2 DEF WsReply, TakersHaveWork
    <3>2. conn'[k].up = conn[k].up \o wsRun /\ \A j \in Conn : j # k => conn'[j].up = conn[j].up
      BY <1>1, <2>2, <3>1 DEF WsReply, ConnTypes, IsConn
    <3>3. conn[k].up \in Seq(Command)
      BY <1>1 DEF ConnTypes, IsConn
    <3>4. Only(conn[k].up \o wsRun, D)
      BY <1>1, <1>3, <3>3, OnlyKept
    <3> QED BY <1>3, <3>2, <3>4
  <2>3. ASSUME NEW k \in Conn, ReceiveResult(k) PROVE Goal
    <3>1. conn'[k].up = Tail(conn[k].up) /\ \A j \in Conn : j # k => conn'[j].up = conn[j].up
      BY <1>1, <2>3 DEF ReceiveResult, ConnTypes, IsConn
    <3>2. conn[k].up \in Seq(Command) /\ conn[k].up # <<>>
      BY <1>1, <2>3 DEF ReceiveResult, ConnTypes, IsConn
    <3> QED BY <1>3, <3>1, <3>2, OnlyKept
  <2>4. CASE Identify
    BY <1>1, <1>3, <2>4 DEF Identify, ConnTypes, IsConn, FreshConn
  <2>5. ASSUME NEW d \in Command, SendCommand(d) PROVE Goal
    BY <1>1, <1>3, <2>5 DEF SendCommand, ConnTypes, IsConn
  <2>6. ASSUME NEW k \in Conn, TakeQueue(k) PROVE Goal
    BY <1>1, <1>3, <2>6 DEF TakeQueue, ConnTypes, IsConn
  <2>7. ASSUME NEW k \in Conn, SendQueued(k) PROVE Goal
    BY <1>1, <1>3, <2>7 DEF SendQueued, ConnTypes, IsConn
  <2>8. ASSUME NEW k \in Conn, HandlerEnds(k) PROVE Goal
    BY <1>1, <1>3, <2>8 DEF HandlerEnds, ConnTypes, IsConn, FreshConn
  <2>9. ASSUME NEW k \in Conn, Drop(k) PROVE Goal
    BY <1>1, <1>3, <2>9 DEF Drop, ConnTypes, IsConn
  <2>10. CASE WsExecute
    BY <1>1, <1>3, <2>10 DEF WsExecute, ConnTypes, IsConn
  <2>11. CASE WsLost
    BY <1>1, <1>3, <2>11 DEF WsLost, ConnTypes, IsConn
  <2>12. CASE AgentRestarts
    BY <1>1, <1>3, <2>12 DEF AgentRestarts, Closed, ConnTypes, IsConn
  <2>13. CASE ServerRestarts
    BY <1>1, <1>3, <2>13 DEF ServerRestarts, ConnTypes, IsConn, FreshConn
  <2>14. CASE UNCHANGED conn
    BY <2>1, <2>14
  <2>15. CASE \/ Report \/ TakeAnswer \/ Execute \/ HandleReport \/ HandleStray \/ DropStaleQueue \/ Sweep
              \/ GiveUp \/ TenMinutes \/ UNCHANGED channelVars
    BY <2>14, <2>15 DEF Report, TakeAnswer, Execute, HandleReport, HandleStray, DropStaleQueue, Sweep,
      GiveUp, TenMinutes, channelVars, wsVars
  <2>16. ASSUME NEW d \in Command, NEW w \in BOOLEAN, QueueCommand(d, w) \/ SendRaises(d, w) \/ SendReturns(d, w)
        PROVE  Goal
    BY <2>14, <2>16 DEF QueueCommand, SendRaises, SendReturns, wsVars
  <2>17. ASSUME NEW d \in Command, QueueInstead(d) \/ PollFinds(d) \/ PollEnds(d) \/ WaitEnds(d)
        PROVE  Goal
    BY <2>14, <2>17 DEF QueueInstead, PollFinds, PollEnds, WaitEnds, wsVars
  <2> QED BY <2>2, <2>3, <2>4, <2>5, <2>6, <2>7, <2>8, <2>9, <2>10, <2>11, <2>12, <2>13, <2>15, <2>16, <2>17
     DEF ChannelNext, AgentThreads, Callers, Handlers
<1> QED BY <1>4, <1>5, <1>6, <1>7, <1>8, <1>9 DEF ResultsAreReal, D

LEMMA RowsStayReal == AnswersInv /\ [ChannelNext]_channelVars => RowsAreReal'
<1> SUFFICES ASSUME AnswersInv, [ChannelNext]_channelVars PROVE RowsAreReal'
  OBVIOUS
<1>1. /\ ConnTypes /\ stray \subseteq Seq(Command) /\ {results, post.results} \subseteq Seq(Command)
      /\ DOMAIN history = Command /\ DOMAIN call = Command
  BY TypesSplit DEF AnswersInv, ChannelInv, ServerTypes, AgentTypes
<1>2. /\ \A c \in Command : history[c] = "done" \/ call[c] = "answered" => c \in Executed
      /\ Executed \subseteq Executed'
  BY ExecutedGrows DEF AnswersInv, RowsAreReal
<1>3. ToSet(results) \subseteq Executed /\ ToSet(post.results) \subseteq Executed
  BY <1>1, OnlyKept DEF AnswersInv, ResultsAreReal
<1>4. \A d : history' = Recorded(d) => \A c \in Command : history'[c] = "done" => history[c] = "done"
  BY <1>1 DEF Recorded
<1>5. ASSUME NEW S, S \subseteq Executed, history' = Completed(S), UNCHANGED call PROVE RowsAreReal'
  BY <1>2, <1>5 DEF Completed, RowsAreReal
<1>6. CASE HandleReport
  BY <1>3, <1>5, <1>6 DEF HandleReport, Accept, callVars
<1>7. CASE HandleStray
  <2>1. PICK res \in stray : history' = Completed(ToSet(res)) /\ UNCHANGED call
    BY <1>7 DEF HandleStray, Accept, callVars
  <2>2. ToSet(res) \subseteq Executed
    BY <1>1, OnlyKept DEF AnswersInv, ResultsAreReal
  <2> QED BY <1>5, <2>1, <2>2
<1>8. ASSUME NEW k \in Conn, ReceiveResult(k) PROVE RowsAreReal'
  <2>1. conn[k].up \in Seq(Command) /\ conn[k].up # <<>> /\ Only(conn[k].up, Executed)
    BY <1>1, <1>8 DEF ReceiveResult, ConnTypes, IsConn, AnswersInv, ResultsAreReal
  <2>2. {Head(conn[k].up)} \subseteq Executed
    BY <2>1, OnlyKept
  <2> QED BY <1>5, <1>8, <2>2 DEF ReceiveResult, callVars
<1>9. CASE UNCHANGED <<history, call>>
  BY <1>2, <1>9 DEF RowsAreReal
<1>10. ASSUME NEW d \in Command, NEW w \in BOOLEAN, QueueCommand(d, w) \/ SendReturns(d, w) \/ SendRaises(d, w)
       PROVE  RowsAreReal'
  <2>1. \A c \in Command : history'[c] = "done" => history[c] = "done"
    BY <1>4, <1>10 DEF QueueCommand, SendReturns, SendRaises
  <2>2. \A c \in Command : call'[c] = "answered" => call[c] = "answered"
    BY <1>1, <1>10 DEF QueueCommand, SendReturns, SendRaises
  <2> QED BY <1>2, <2>1, <2>2 DEF RowsAreReal
<1>11. ASSUME NEW d \in Command, QueueInstead(d) \/ SendCommand(d) \/ PollEnds(d)
       PROVE  RowsAreReal'
  <2>1. \A c \in Command : history'[c] = "done" => history[c] = "done"
    BY <1>4, <1>11 DEF QueueInstead, SendCommand, PollEnds, serverVars
  <2>2. \A c \in Command : call'[c] = "answered" => call[c] = "answered"
    BY <1>1, <1>11 DEF QueueInstead, SendCommand, PollEnds
  <2> QED BY <1>2, <2>1, <2>2 DEF RowsAreReal
<1>12. ASSUME NEW d \in Command, PollFinds(d) \/ WaitEnds(d) PROVE RowsAreReal'
  <2>1. history' = history /\ \A c \in Command : call'[c] = "answered" => call[c] = "answered" \/ c \in ToSet(results)
    BY <1>1, <1>12 DEF PollFinds, WaitEnds, serverVars
  <2> QED BY <1>2, <1>3, <2>1 DEF RowsAreReal
<1>13. CASE ServerRestarts
  <2>1. history' = history /\ \A c \in Command : call'[c] = "answered" => call[c] = "answered"
    BY <1>13 DEF ServerRestarts
  <2> QED BY <1>2, <2>1 DEF RowsAreReal
<1>14. CASE AgentThreads \/ UNCHANGED channelVars
  BY <1>9, <1>14 DEF AgentThreads, Report, TakeAnswer, Execute, Identify, WsExecute, WsReply, WsLost, serverVars, callVars, channelVars
<1>15. CASE DropStaleQueue \/ Sweep \/ GiveUp \/ TenMinutes \/ AgentRestarts
  BY <1>9, <1>15 DEF DropStaleQueue, Sweep, GiveUp, TenMinutes, AgentRestarts, serverVars, callVars
<1>16. ASSUME NEW k \in Conn, TakeQueue(k) \/ SendQueued(k) \/ HandlerEnds(k) \/ Drop(k) PROVE RowsAreReal'
  BY <1>9, <1>16 DEF TakeQueue, SendQueued, HandlerEnds, Drop, serverVars, callVars
<1> QED BY <1>6, <1>7, <1>8, <1>10, <1>11, <1>12, <1>13, <1>14, <1>15, <1>16
     DEF ChannelNext, Callers, Handlers

LEMMA AnswersInitOK == ChannelInit => AnswersInv
<1> SUFFICES ASSUME ChannelInit PROVE AnswersInv
  OBVIOUS
<1>1. \A D : Only(<<>>, D)
  BY NothingIsAmong DEF Only
<1>2. ResultsAreReal
  BY <1>1 DEF ChannelInit, ResultsAreReal, NoPost, FreshConn
<1>3. RowsAreReal
  BY DEF ChannelInit, RowsAreReal
<1> QED BY <1>2, <1>3, ChannelInitOK DEF AnswersInv

LEMMA AnswersStepOK == AnswersInv /\ [ChannelNext]_channelVars => AnswersInv'
BY ChannelStepOK, ResultsKept, RowsStayReal DEF AnswersInv

\* Whatever is kept, resent, lost or late, a result that is kept, on its way,
\* recorded in the history or handed to a caller is that of a command the agent
\* executed.
THEOREM ResultsAreOfExecuted == ChannelSpec => []AnswersAreReal
<1>1. AnswersInv => AnswersAreReal
  <2> SUFFICES ASSUME AnswersInv, NEW c \in Command, ~(executed[c] > 0)
               PROVE  /\ history[c] # "done" /\ call[c] # "answered"
                      /\ c \notin UNION ({ToSet(results), ToSet(buffer), ToSet(post.results)}
                                         \union {ToSet(conn[k].up) : k \in Conn})
    BY DEF AnswersAreReal
  <2>1. c \notin Executed
    BY DEF Executed
  <2>2. ToSet(results) \subseteq Executed /\ ToSet(buffer) \subseteq Executed /\ ToSet(post.results) \subseteq Executed
    BY OnlyKept DEF AnswersInv, ResultsAreReal, ChannelInv, ChannelTypes
  <2>3. \A k \in Conn : ToSet(conn[k].up) \subseteq Executed
    <3> SUFFICES ASSUME NEW k \in Conn PROVE ToSet(conn[k].up) \subseteq Executed
      OBVIOUS
    <3>1. conn[k].up \in Seq(Command) /\ Only(conn[k].up, Executed)
      BY DEF AnswersInv, ResultsAreReal, ChannelInv, ChannelTypes
    <3> QED BY <3>1, OnlyKept
  <2> QED BY <2>1, <2>2, <2>3 DEF AnswersInv, RowsAreReal
<1> QED BY <1>1, AnswersInitOK, AnswersStepOK, PTL DEF ChannelSpec

-----------------------------------------------------------------------------
(***************************************************************************)
(* The channel implements CommandDelivery.                                 *)
(***************************************************************************)

CallerTypes ==
    /\ call \in [Command -> {"none", "sending", "polling", "waiting", "answered", "done"}]
    /\ history \in [Command -> {"none", "queued", "done"}]

DeliveryInv == AnswersInv /\ CallerTypes

\* What becomes of a caller; what it is told was executed.
CallMoves(c) ==
    \/ call'[c] = call[c]
    \/ call[c] = "none" /\ call'[c] \in {"sending", "waiting", "done"}
    \/ call[c] \in {"sending", "polling", "waiting"} /\ call'[c] \in {"polling", "done"}
    \/ call[c] \in {"sending", "polling", "waiting"} /\ call'[c] = "answered" /\ c \in Executed

RowMoves(c) ==
    \/ history'[c] = history[c]
    \/ history[c] = "none" /\ history'[c] = "queued" /\ call'[c] # "none"
    \/ history[c] = "queued" /\ history'[c] = "done" /\ c \in Executed

LEMMA CompletedMoves ==
    ASSUME DeliveryInv, NEW S, S \subseteq Executed, history' = Completed(S), UNCHANGED call
    PROVE  CallerTypes' /\ \A c \in Command : CallMoves(c) /\ RowMoves(c)
BY DEF DeliveryInv, CallerTypes, Completed, CallMoves, RowMoves

LEMMA CallersMove ==
    ASSUME DeliveryInv, [ChannelNext]_channelVars
    PROVE  CallerTypes' /\ \A c \in Command : CallMoves(c) /\ RowMoves(c)
<1> DEFINE Goal == CallerTypes' /\ \A c \in Command : CallMoves(c) /\ RowMoves(c)
<1>1. /\ ConnTypes /\ stray \subseteq Seq(Command) /\ {results, post.results} \subseteq Seq(Command)
  BY TypesSplit DEF DeliveryInv, AnswersInv, ChannelInv, ServerTypes, AgentTypes
<1>2. ToSet(results) \subseteq Executed /\ ToSet(post.results) \subseteq Executed
  BY <1>1, OnlyKept DEF DeliveryInv, AnswersInv, ResultsAreReal
<1>3. CASE HandleReport
  BY <1>2, <1>3, CompletedMoves DEF HandleReport, Accept, callVars
<1>4. CASE HandleStray
  <2>1. PICK res \in stray : history' = Completed(ToSet(res)) /\ UNCHANGED call
    BY <1>4 DEF HandleStray, Accept, callVars
  <2>2. ToSet(res) \subseteq Executed
    BY <1>1, OnlyKept DEF DeliveryInv, AnswersInv, ResultsAreReal
  <2> QED BY <2>1, <2>2, CompletedMoves
<1>5. ASSUME NEW k \in Conn, ReceiveResult(k) PROVE Goal
  <2>1. conn[k].up \in Seq(Command) /\ conn[k].up # <<>> /\ Only(conn[k].up, Executed)
    BY <1>1, <1>5 DEF ReceiveResult, ConnTypes, IsConn, DeliveryInv, AnswersInv, ResultsAreReal
  <2>2. {Head(conn[k].up)} \subseteq Executed
    BY <2>1, OnlyKept
  <2> QED BY <1>5, <2>2, CompletedMoves DEF ReceiveResult, callVars
<1>6. CASE UNCHANGED <<history, call>>
  BY <1>6 DEF DeliveryInv, CallerTypes, CallMoves, RowMoves
<1>7. ASSUME NEW d \in Command, NEW w \in BOOLEAN, QueueCommand(d, w) PROVE Goal
  BY <1>7 DEF QueueCommand, DeliveryInv, CallerTypes, CallMoves, RowMoves
<1>8. ASSUME NEW d \in Command, NEW w \in BOOLEAN, SendReturns(d, w) \/ SendRaises(d, w) PROVE Goal
  BY <1>8 DEF SendReturns, SendRaises, Recorded, DeliveryInv, CallerTypes, CallMoves, RowMoves
<1>9. ASSUME NEW d \in Command, QueueInstead(d) \/ PollEnds(d) PROVE Goal
  BY <1>9 DEF QueueInstead, PollEnds, Recorded, DeliveryInv, CallerTypes, CallMoves, RowMoves
<1>10. ASSUME NEW d \in Command, SendCommand(d) PROVE Goal
  BY <1>10 DEF SendCommand, serverVars, DeliveryInv, CallerTypes, CallMoves, RowMoves
<1>11. ASSUME NEW d \in Command, PollFinds(d) \/ WaitEnds(d) PROVE Goal
  BY <1>2, <1>11 DEF PollFinds, WaitEnds, serverVars, DeliveryInv, CallerTypes, CallMoves, RowMoves
<1>12. CASE ServerRestarts
  BY <1>12 DEF ServerRestarts, DeliveryInv, CallerTypes, CallMoves, RowMoves
<1>13. CASE AgentThreads \/ UNCHANGED channelVars
  BY <1>6, <1>13 DEF AgentThreads, Report, TakeAnswer, Execute, Identify, WsExecute, WsReply, WsLost, serverVars, callVars, channelVars
<1>14. CASE DropStaleQueue \/ Sweep \/ GiveUp \/ TenMinutes \/ AgentRestarts
  BY <1>6, <1>14 DEF DropStaleQueue, Sweep, GiveUp, TenMinutes, AgentRestarts, serverVars, callVars
<1>15. ASSUME NEW k \in Conn, TakeQueue(k) \/ SendQueued(k) \/ HandlerEnds(k) \/ Drop(k) PROVE Goal
  BY <1>6, <1>15 DEF TakeQueue, SendQueued, HandlerEnds, Drop, serverVars, callVars
<1> QED BY <1>3, <1>4, <1>5, <1>7, <1>8, <1>9, <1>10, <1>11, <1>12, <1>13, <1>14, <1>15
     DEF ChannelNext, Callers, Handlers

\* A connection that was used and is closed stays closed.
ClosedStays(k) == conn[k].handler # "none" /\ ~conn[k].open => ~conn'[k].open

ViaMoves(c) == via'[c] = via[c] \/ (call[c] = "none" /\ via'[c] # 0 /\ call'[c] # "none")

LEMMA ClosedStaysClosed ==
    ASSUME DeliveryInv, [ChannelNext]_channelVars
    PROVE  \A k \in Conn : ClosedStays(k)
<1>1. ConnTypes /\ wsConn \in Conn \union {0} /\ TakersHaveWork /\ ws \in 0..MaxConn
  BY TypesSplit, ConnIsNat DEF DeliveryInv, AnswersInv, ChannelInv, AgentTypes, ServerTypes
<1> DEFINE Goal == \A k \in Conn : ClosedStays(k)
<1>2. CASE UNCHANGED conn
  BY <1>2 DEF ClosedStays
<1>3. CASE Identify
  <2>1. PICK k \in Unused :
           conn' = [j \in Conn |-> IF j = k THEN [FreshConn EXCEPT !.open = TRUE, !.handler = "opening"]
                                    ELSE IF j = ws THEN [conn[j] EXCEPT !.open = FALSE] ELSE conn[j]]
    BY <1>3, LeastUnused DEF Identify
  <2>2. k \in Conn /\ conn[k].handler = "none"
    BY DEF Unused, FreshConn
  <2> QED BY <1>1, <2>1, <2>2 DEF ClosedStays, ConnTypes, IsConn
<1>4. ASSUME NEW k \in Conn, TakeQueue(k) \/ SendQueued(k) \/ ReceiveResult(k) PROVE Goal
  <2>1. CASE TakeQueue(k)
    BY <1>1, <2>1 DEF TakeQueue, ClosedStays, ConnTypes, IsConn
  <2>2. CASE SendQueued(k)
    BY <1>1, <2>2 DEF SendQueued, ClosedStays, ConnTypes, IsConn
  <2>3. CASE ReceiveResult(k)
    BY <1>1, <2>3 DEF ReceiveResult, ClosedStays, ConnTypes, IsConn
  <2> QED BY <1>4, <2>1, <2>2, <2>3
<1>5. ASSUME NEW k \in Conn, HandlerEnds(k) \/ Drop(k) PROVE Goal
  BY <1>1, <1>5 DEF HandlerEnds, Drop, ClosedStays, ConnTypes, IsConn, FreshConn
<1>6. CASE WsExecute \/ WsReply \/ WsLost
  BY <1>1, <1>6 DEF WsExecute, WsReply, WsLost, ClosedStays, ConnTypes, IsConn, TakersHaveWork
<1>7. CASE AgentRestarts \/ ServerRestarts
  <2>1. CASE AgentRestarts
    <3>1. ASSUME NEW k \in Conn PROVE conn'[k].open = FALSE
      <4>1. conn'[k] = [Closed[k] EXCEPT !.down = <<>>] /\ Closed[k] = [conn[k] EXCEPT !.open = FALSE]
        BY <2>1 DEF AgentRestarts, Closed
      <4>2. "open" \in DOMAIN conn[k]
        BY <1>1 DEF ConnTypes, IsConn
      <4>3. Closed[k].open = FALSE /\ DOMAIN Closed[k] = DOMAIN conn[k]
        BY <4>1, <4>2
      <4> QED BY <4>1, <4>2, <4>3
    <3> QED BY <3>1 DEF ClosedStays
  <2>2. CASE ServerRestarts
    BY <1>1, <2>2 DEF ServerRestarts, FreshConn, ClosedStays, ConnTypes, IsConn
  <2> QED BY <1>7, <2>1, <2>2
<1>8. ASSUME NEW d \in Command, SendCommand(d) PROVE Goal
  BY <1>1, <1>8 DEF SendCommand, ClosedStays, ConnTypes, IsConn
<1>9. CASE \/ Report \/ TakeAnswer \/ Execute \/ HandleReport \/ HandleStray \/ DropStaleQueue \/ Sweep
           \/ GiveUp \/ TenMinutes \/ UNCHANGED channelVars
  BY <1>2, <1>9 DEF Report, TakeAnswer, Execute, HandleReport, HandleStray, DropStaleQueue, Sweep,
    GiveUp, TenMinutes, channelVars, wsVars
<1>10. ASSUME NEW d \in Command, NEW w \in BOOLEAN, QueueCommand(d, w) \/ SendRaises(d, w) \/ SendReturns(d, w)
      PROVE  Goal
  BY <1>2, <1>10 DEF QueueCommand, SendRaises, SendReturns, wsVars
<1>11. ASSUME NEW d \in Command, QueueInstead(d) \/ PollFinds(d) \/ PollEnds(d) \/ WaitEnds(d)
      PROVE  Goal
  BY <1>2, <1>11 DEF QueueInstead, PollFinds, PollEnds, WaitEnds, wsVars
<1> QED BY <1>3, <1>4, <1>5, <1>6, <1>7, <1>8, <1>9, <1>10, <1>11 DEF ChannelNext, AgentThreads, Callers, Handlers

LEMMA ViasMove ==
    ASSUME DeliveryInv, [ChannelNext]_channelVars
    PROVE  \A c \in Command : ViaMoves(c)
<1>1. via \in [Command -> 0..MaxConn]
  BY TypesSplit DEF DeliveryInv, AnswersInv, ChannelInv, ChannelTypes
<1>2. ASSUME NEW d \in Command, SendCommand(d) PROVE \A c \in Command : ViaMoves(c)
  BY <1>1, <1>2 DEF SendCommand, ViaMoves, DeliveryInv, CallerTypes
<1>3. CASE ~\E d \in Command : SendCommand(d)
  <2>1. via' = via
    BY <1>3 DEF ChannelNext, channelVars, callVars, AgentThreads, Callers, Handlers, Report, TakeAnswer, WsExecute,
      Execute, Identify, WsReply, WsLost, QueueCommand, QueueInstead, SendReturns, SendRaises,
      PollFinds, PollEnds, WaitEnds, HandleReport, HandleStray, DropStaleQueue, Sweep, TakeQueue, SendQueued,
      ReceiveResult, HandlerEnds, Drop, GiveUp, TenMinutes, AgentRestarts, ServerRestarts
  <2> QED BY <2>1 DEF ViaMoves
<1> QED BY <1>2, <1>3

\* What the agent executes was issued, and it may execute it.
LEMMA MayBeExecuted ==
    ASSUME DeliveryInv, NEW c \in Command, NEW p \in Place, Among(c, Held(p)),
           executed' = [executed EXCEPT ![c] = @ + 1]
    PROVE  Delivery!CarriedOut(c)
<1>1. CommandInPlace(c) /\ executed[c] \in Nat /\ via[c] \in 0..MaxConn
  BY DEF DeliveryInv, AnswersInv, ChannelInv, ChannelTypes
<1>2. executed[c] < Uses(c) /\ call[c] # "none"
  <2>1. CASE p = Down(via[c])
    <3>1. via[c] \in Conn /\ via[c] # 0
      BY <2>1, PlaceCases, ConnIsNat
    <3>2. InMain(c)
      BY <2>1, <3>1, HeldThere DEF InMain
    <3> QED BY <1>1, <3>1, <3>2 DEF Uses, CommandInPlace
  <2>2. CASE p # Down(via[c])
    <3>1. Elsewhere(c)
      BY <2>2 DEF Elsewhere
    <3> QED BY <1>1, <3>1 DEF Uses, CommandInPlace
  <2> QED BY <2>1, <2>2
<1>3. Uses(c) \in Nat /\ Uses(c) =< IF c \in Doubtful THEN 2 ELSE 1
  <2>1. Uses(c) \in Nat
    BY <1>1 DEF Uses
  <2>2. Uses(c) =< IF via[c] = 0 \/ conn[via[c]].open THEN 1 ELSE 2
    BY <1>1 DEF CommandInPlace
  <2> QED BY <2>1, <2>2 DEF Doubtful
<1>4. executed[c] < IF c \in Doubtful THEN 2 ELSE 1
  BY <1>1, <1>2, <1>3
<1>5. CallerOf[c] # "new"
  BY <1>2 DEF CallerOf
<1> QED BY <1>4, <1>5 DEF Delivery!CarriedOut

\* One command at a time is executed, which may be.
LEMMA RunsMove ==
    ASSUME DeliveryInv, [ChannelNext]_channelVars
    PROVE  UNCHANGED executed \/ \E c \in Command : Delivery!CarriedOut(c)
<1>1. ConnTypes /\ TakersHaveWork /\ wsConn \in Conn \union {0} /\ batch \in Seq(Command)
  BY TypesSplit, ConnIsNat DEF DeliveryInv, AnswersInv, ChannelInv, AgentTypes
<1>2. CASE Execute
  <2>1. Held(Batch) = batch /\ batch # <<>> /\ Batch \in Place
    BY <1>1, <1>2, HeldThere, PlaceCases DEF Execute, TakersHaveWork
  <2>2. executed' = [executed EXCEPT ![Head(batch)] = @ + 1]
    BY <1>2 DEF Execute
  <2>3. Head(batch) \in Command /\ Among(Head(batch), batch)
    BY <1>1, <2>1, Taken
  <2> QED BY <2>1, <2>2, <2>3, MayBeExecuted
<1>3. CASE WsExecute
  <2>1. PICK k \in Conn : k = wsConn
    BY <1>1, <1>3 DEF WsExecute
  <2>2. Held(Down(k)) = conn[k].down /\ conn[k].down # <<>> /\ Down(k) \in Place /\ conn[k].down \in Seq(Command)
    BY <1>1, <1>3, <2>1, HeldThere, PlaceCases DEF WsExecute, ConnTypes, IsConn
  <2>3. executed' = [executed EXCEPT ![Head(conn[k].down)] = @ + 1]
    BY <1>3, <2>1 DEF WsExecute
  <2>4. Head(conn[k].down) \in Command /\ Among(Head(conn[k].down), conn[k].down)
    BY <2>2, Taken
  <2> QED BY <2>2, <2>3, <2>4, MayBeExecuted
<1>4. CASE ~Execute /\ ~WsExecute
  <2>1. executed' = executed
    BY <1>4 DEF ChannelNext, channelVars, AgentThreads, Callers, Handlers, Report, TakeAnswer,
     Identify, WsReply, WsLost, QueueCommand, QueueInstead, SendCommand, SendReturns, SendRaises,
     PollFinds, PollEnds, WaitEnds, HandleReport, HandleStray, DropStaleQueue, Sweep, TakeQueue, SendQueued,
     ReceiveResult, HandlerEnds, Drop, GiveUp, TenMinutes, AgentRestarts, ServerRestarts
  <2> QED BY <2>1
<1> QED BY <1>2, <1>3, <1>4

LEMMA DeliveryStep ==
    ASSUME DeliveryInv, [ChannelNext]_channelVars
    PROVE  Delivery!Next
<1>1. /\ CallerTypes' /\ (\A c \in Command : CallMoves(c) /\ RowMoves(c) /\ ViaMoves(c))
      /\ \A k \in Conn : ClosedStays(k)
  BY CallersMove, ViasMove, ClosedStaysClosed
<1>2. CallerTypes /\ \A c \in Command : executed[c] \in Nat
  BY DEF DeliveryInv, AnswersInv, ChannelInv, ChannelTypes
<1>3. CallerOf' \in [Command -> {"new", "open", "answered", "left"}]
  BY DEF CallerOf
<1>4. Doubtful' \subseteq Command
  BY DEF Doubtful
<1>5. ASSUME NEW c \in Command PROVE Delivery!CallerMoves(c)
  <2>1. c \in Executed => executed[c] > 0
    BY DEF Executed
  <2>2. CallMoves(c)
    BY <1>1
  <2> QED BY <1>2, <2>1, <2>2 DEF Delivery!CallerMoves, CallMoves, CallerOf, CallerTypes
<1>6. ASSUME NEW c \in Command PROVE Delivery!RecordMoves(c)
  <2>1. c \in Executed => executed[c] > 0
    BY DEF Executed
  <2>2. call'[c] # "none" => CallerOf'[c] # "new"
    BY DEF CallerOf
  <2> QED BY <1>1, <2>1, <2>2 DEF Delivery!RecordMoves, RowMoves
<1>7. ASSUME NEW c \in Command PROVE Delivery!DoubtMoves(c)
  <2>1. /\ via[c] \in 0..MaxConn /\ (call[c] = "none" => via[c] = 0)
        /\ via[c] # 0 => conn[via[c]].handler # "none" /\ via[c] \in Conn
    BY ConnIsNat DEF DeliveryInv, AnswersInv, ChannelInv, ChannelTypes, TakersHaveWork, CommandInPlace
  <2>2. c \in Doubtful => c \in Doubtful'
    BY <1>1, <2>1 DEF Doubtful, ViaMoves, ClosedStays
  <2>3. c \in Doubtful' => call'[c] # "none"
    <3>1. call[c] # "none" => call'[c] # "none"
      BY <1>1 DEF CallMoves
    <3> QED BY <1>1, <2>1, <3>1 DEF Doubtful, ViaMoves
  <2>4. call'[c] # "none" => CallerOf'[c] # "new"
    BY DEF CallerOf
  <2> QED BY <2>2, <2>3, <2>4 DEF Delivery!DoubtMoves
<1> QED BY <1>1, <1>3, <1>4, <1>5, <1>6, <1>7, RunsMove DEF Delivery!Next, CallerTypes

\* The channel, seen by the callers and the history, is CommandDelivery.
THEOREM DeliveryRefined == ChannelSpec => ImplementsDelivery
<1>1. ChannelInit => DeliveryInv
  BY AnswersInitOK DEF DeliveryInv, CallerTypes, ChannelInit
<1>2. DeliveryInv /\ [ChannelNext]_channelVars => DeliveryInv'
  BY AnswersStepOK, CallersMove DEF DeliveryInv
<1>3. ChannelInit => Delivery!Init
  BY DEF ChannelInit, Delivery!Init, CallerOf, Doubtful
<1>4. DeliveryInv /\ [ChannelNext]_channelVars => [Delivery!Next]_(Delivery!deliveryVars)
  BY DeliveryStep
<1> QED BY <1>1, <1>2, <1>3, <1>4, PTL DEF ChannelSpec, ImplementsDelivery, Delivery!Spec

-----------------------------------------------------------------------------
(***************************************************************************)
(* The types that the invariants above do not need.                        *)
(***************************************************************************)

ListTypes == {delivered, old} \subseteq SUBSET Command /\ Len(results) <= KeepResults

IsHandled(k) == /\ k.open \in BOOLEAN
                /\ k.handler \in {"none", "opening", "draining", "reading", "ended"}

HandlerTypes == \A k \in Conn : IsHandled(conn[k])

LoopTypes == /\ loop \in {"collect", "reporting", "executing"}
             /\ post.state \in {"none", "sent", "answered"} /\ faults \in 0..MaxFaults

LEMMA FewAreKept ==
    ASSUME NEW s \in Seq(Command)
    PROVE  Len(LastKept(s)) <= KeepResults
<1>1. KeepResults \in Nat /\ KeepResults > 0 /\ Len(s) \in Nat /\ DOMAIN s = 1..Len(s)
  BY ChannelAssumption, LenProperties
<1>2. CASE Len(s) > KeepResults
  <2> DEFINE m == Len(s) - KeepResults + 1
  <2>1. m \in Nat /\ m > 0 /\ m =< Len(s) /\ Len(s) - m + 1 = KeepResults
    BY <1>1, <1>2
  <2>2. LastKept(s) = SubSeq(s, m, Len(s))
    BY <1>2 DEF LastKept
  <2> HIDE DEF m
  <2>3. \A i \in m..Len(s) : s[i] \in Command
    BY <1>1, <2>1, ElementOfSeq
  <2>4. Len(SubSeq(s, m, Len(s))) = Len(s) - m + 1
    BY <1>1, <2>1, <2>3, SubSeqProperties
  <2> QED BY <1>1, <2>1, <2>2, <2>4
<1>3. CASE ~(Len(s) > KeepResults)
  BY <1>1, <1>3 DEF LastKept
<1> QED BY <1>2, <1>3

LEMMA ListTypesKept ==
    ASSUME DeliveryInv, ListTypes, [ChannelNext]_channelVars
    PROVE  ListTypes'
<1>1. /\ ServerTypes /\ AgentTypes /\ ConnTypes /\ KeepResults \in Nat
      /\ ToSet(pending) \subseteq Command
  <2>1. ServerTypes /\ AgentTypes /\ ConnTypes
    BY TypesSplit DEF DeliveryInv, AnswersInv, ChannelInv
  <2>2. \A i \in DOMAIN pending : pending[i] \in Command
    BY <2>1, LenProperties, ElementOfSeq DEF ServerTypes
  <2> QED BY <2>1, <2>2, ChannelAssumption DEF ToSet
<1>2. CASE UNCHANGED <<delivered, old, results>>
  BY <1>2 DEF ListTypes
<1>3. ASSUME NEW res \in Seq(Command), Accept(res) PROVE ListTypes'
  <2>1. results \o res \in Seq(Command)
    BY <1>1, Joined DEF ServerTypes
  <2> QED BY <1>1, <1>3, <2>1, FewAreKept DEF Accept, ListTypes
<1>4. CASE HandleReport \/ HandleStray
  BY <1>1, <1>3, <1>4 DEF HandleReport, HandleStray, AgentTypes
<1>5. ASSUME NEW k \in Conn, ReceiveResult(k) PROVE ListTypes'
  <2>1. Append(results, Head(conn[k].up)) \in Seq(Command)
    BY <1>1, <1>5, Taken, Appended DEF ReceiveResult, ConnTypes, IsConn, ServerTypes
  <2> QED BY <1>5, <2>1, FewAreKept DEF ReceiveResult, ListTypes
<1>6. CASE DropStaleQueue \/ Sweep \/ TenMinutes
  BY <1>1, <1>6 DEF DropStaleQueue, Sweep, TenMinutes, ListTypes
<1>7. ASSUME NEW k \in Conn, TakeQueue(k) PROVE ListTypes'
  BY <1>7 DEF TakeQueue, ListTypes
<1>8. CASE ServerRestarts
  <2>1. delivered' = {} /\ old' = {} /\ Len(results') = 0
    BY <1>8, EmptySeq DEF ServerRestarts
  <2> QED BY <1>1, <2>1 DEF ListTypes
<1>9. CASE AgentThreads \/ GiveUp \/ AgentRestarts \/ UNCHANGED channelVars
  BY <1>2, <1>9 DEF AgentThreads, Report, TakeAnswer, Execute, Identify, WsExecute, WsReply, WsLost,
    GiveUp, AgentRestarts, serverVars, channelVars
<1>10. ASSUME NEW k \in Conn, SendQueued(k) \/ HandlerEnds(k) \/ Drop(k) PROVE ListTypes'
  BY <1>2, <1>10 DEF SendQueued, HandlerEnds, Drop, serverVars
<1>11. ASSUME NEW d \in Command, NEW w \in BOOLEAN,
              QueueCommand(d, w) \/ SendRaises(d, w) \/ SendReturns(d, w)
       PROVE  ListTypes'
  BY <1>2, <1>11 DEF QueueCommand, SendRaises, SendReturns
<1>12. ASSUME NEW d \in Command,
              QueueInstead(d) \/ SendCommand(d) \/ PollFinds(d) \/ PollEnds(d) \/ WaitEnds(d)
       PROVE  ListTypes'
  BY <1>2, <1>12 DEF QueueInstead, SendCommand, PollFinds, PollEnds, WaitEnds, serverVars
<1> QED BY <1>4, <1>5, <1>6, <1>7, <1>8, <1>9, <1>10, <1>11, <1>12 DEF ChannelNext, Callers, Handlers

LEMMA HandlerTypesKept ==
    ASSUME DeliveryInv, HandlerTypes, [ChannelNext]_channelVars
    PROVE  HandlerTypes'
<1>1. ConnTypes /\ ws \in Conn \union {0} /\ wsConn \in Conn \union {0} /\ TakersHaveWork
  BY TypesSplit, ConnIsNat DEF DeliveryInv, AnswersInv, ChannelInv, ServerTypes, AgentTypes
<1>2. CASE UNCHANGED conn
  BY <1>2 DEF HandlerTypes
<1>3. CASE Identify
  <2>1. PICK k \in Unused :
           conn' = [j \in Conn |-> IF j = k THEN [FreshConn EXCEPT !.open = TRUE, !.handler = "opening"]
                                    ELSE IF j = ws THEN [conn[j] EXCEPT !.open = FALSE] ELSE conn[j]]
    BY <1>3, LeastUnused DEF Identify
  <2>2. IsHandled([FreshConn EXCEPT !.open = TRUE, !.handler = "opening"])
    BY DEF IsHandled, FreshConn
  <2>3. \A j \in Conn : IsHandled([conn[j] EXCEPT !.open = FALSE])
    BY <1>1 DEF HandlerTypes, IsHandled, ConnTypes, IsConn
  <2> QED BY <2>1, <2>2, <2>3 DEF HandlerTypes
<1>4. ASSUME NEW k \in Conn, TakeQueue(k) \/ SendQueued(k) \/ ReceiveResult(k) PROVE HandlerTypes'
  <2>1. CASE TakeQueue(k)
    BY <1>1, <2>1 DEF TakeQueue, HandlerTypes, IsHandled, ConnTypes, IsConn
  <2>2. CASE SendQueued(k)
    BY <1>1, <2>2 DEF SendQueued, HandlerTypes, IsHandled, ConnTypes, IsConn
  <2>3. CASE ReceiveResult(k)
    BY <1>1, <2>3 DEF ReceiveResult, HandlerTypes, IsHandled, ConnTypes, IsConn
  <2> QED BY <1>4, <2>1, <2>2, <2>3
<1>5. ASSUME NEW k \in Conn, Drop(k) PROVE HandlerTypes'
  BY <1>1, <1>5 DEF Drop, HandlerTypes, IsHandled, ConnTypes, IsConn
<1>6. \A k \in Conn : IsHandled([FreshConn EXCEPT !.handler = "ended", !.down = conn[k].down])
  BY DEF IsHandled, FreshConn
<1>7. ASSUME NEW k \in Conn, HandlerEnds(k) PROVE HandlerTypes'
  BY <1>1, <1>6, <1>7 DEF HandlerEnds, HandlerTypes, ConnTypes
<1>8. CASE ServerRestarts
  BY <1>6, <1>8 DEF ServerRestarts, HandlerTypes
<1>9. CASE AgentRestarts
  BY <1>1, <1>9 DEF AgentRestarts, Closed, HandlerTypes, IsHandled, ConnTypes, IsConn
<1>10. CASE WsExecute \/ WsReply \/ WsLost
  BY <1>1, <1>10 DEF WsExecute, WsReply, WsLost, HandlerTypes, IsHandled, ConnTypes, IsConn, TakersHaveWork
<1>11. ASSUME NEW d \in Command, SendCommand(d) PROVE HandlerTypes'
  BY <1>1, <1>11 DEF SendCommand, HandlerTypes, IsHandled, ConnTypes, IsConn
<1>12. CASE \/ Report \/ TakeAnswer \/ Execute \/ HandleReport \/ HandleStray \/ DropStaleQueue \/ Sweep
            \/ GiveUp \/ TenMinutes \/ UNCHANGED channelVars
  BY <1>2, <1>12 DEF Report, TakeAnswer, Execute, HandleReport, HandleStray, DropStaleQueue, Sweep,
    GiveUp, TenMinutes, channelVars, wsVars
<1>13. ASSUME NEW d \in Command, NEW w \in BOOLEAN,
              QueueCommand(d, w) \/ SendRaises(d, w) \/ SendReturns(d, w)
       PROVE  HandlerTypes'
  BY <1>2, <1>13 DEF QueueCommand, SendRaises, SendReturns, wsVars
<1>14. ASSUME NEW d \in Command, QueueInstead(d) \/ PollFinds(d) \/ PollEnds(d) \/ WaitEnds(d)
       PROVE  HandlerTypes'
  BY <1>2, <1>14 DEF QueueInstead, PollFinds, PollEnds, WaitEnds, wsVars
<1> QED BY <1>3, <1>4, <1>5, <1>7, <1>8, <1>9, <1>10, <1>11, <1>12, <1>13, <1>14
     DEF ChannelNext, AgentThreads, Callers, Handlers

LEMMA LoopTypesKept ==
    ASSUME DeliveryInv, LoopTypes, [ChannelNext]_channelVars
    PROVE  LoopTypes'
<1>1. DOMAIN post = {"state", "results", "commands"} /\ MaxFaults \in Nat
  BY TypesSplit, ChannelAssumption DEF DeliveryInv, AnswersInv, ChannelInv, AgentTypes
<1>2. CASE UNCHANGED <<loop, post, faults>>
  BY <1>2 DEF LoopTypes
<1>3. CASE Report \/ TakeAnswer \/ Execute \/ HandleReport
  <2>1. CASE Report
    BY <2>1 DEF Report, LoopTypes
  <2>2. CASE TakeAnswer
    BY <2>2 DEF TakeAnswer, LoopTypes, NoPost
  <2>3. CASE Execute
    BY <2>3 DEF Execute, LoopTypes
  <2>4. CASE HandleReport
    BY <1>1, <2>4 DEF HandleReport, LoopTypes
  <2> QED BY <1>3, <2>1, <2>2, <2>3, <2>4
<1>4. CASE GiveUp \/ AgentRestarts \/ ServerRestarts
  <2>1. faults' \in 0..MaxFaults
    <3>1. Fault
      BY <1>4 DEF GiveUp, AgentRestarts, ServerRestarts
    <3> QED BY <1>1, <3>1 DEF Fault, LoopTypes
  <2>2. NoPost.state = "none"
    BY DEF NoPost
  <2>3. CASE GiveUp
    BY <2>1, <2>2, <2>3 DEF GiveUp, LoopTypes
  <2>4. CASE AgentRestarts
    BY <2>1, <2>2, <2>4 DEF AgentRestarts, LoopTypes
  <2>5. CASE ServerRestarts
    BY <2>1, <2>2, <2>5 DEF ServerRestarts, LoopTypes
  <2> QED BY <1>4, <2>3, <2>4, <2>5
<1>5. CASE TenMinutes
  BY <1>1, <1>5 DEF TenMinutes, Fault, LoopTypes, agentVars
<1>6. ASSUME NEW k \in Conn, Drop(k) PROVE LoopTypes'
  BY <1>1, <1>6 DEF Drop, Fault, LoopTypes, agentVars
<1>7. ASSUME NEW k \in Conn, Handlers(k) PROVE LoopTypes'
  BY <1>2, <1>7 DEF Handlers, TakeQueue, SendQueued, ReceiveResult, HandlerEnds, agentVars
<1>8. CASE \/ Identify \/ WsExecute \/ WsReply \/ WsLost \/ HandleStray \/ DropStaleQueue \/ Sweep
           \/ UNCHANGED channelVars
  BY <1>2, <1>8 DEF Identify, WsExecute, WsReply, WsLost, HandleStray, DropStaleQueue, Sweep, channelVars, agentVars
<1>9. ASSUME NEW d \in Command, NEW w \in BOOLEAN,
             QueueCommand(d, w) \/ SendRaises(d, w) \/ SendReturns(d, w)
      PROVE  LoopTypes'
  BY <1>2, <1>9 DEF QueueCommand, SendRaises, SendReturns, agentVars
<1>10. ASSUME NEW d \in Command,
              QueueInstead(d) \/ SendCommand(d) \/ PollFinds(d) \/ PollEnds(d) \/ WaitEnds(d)
       PROVE  LoopTypes'
  BY <1>2, <1>10 DEF QueueInstead, SendCommand, PollFinds, PollEnds, WaitEnds, agentVars
<1> QED BY <1>3, <1>4, <1>5, <1>6, <1>7, <1>8, <1>9, <1>10 DEF ChannelNext, AgentThreads, Callers

\* The variables keep their types; of a host no more than KeepResults results
\* are kept, however many come.
THEOREM ChannelTypesHold == ChannelSpec => []ChannelTypeOK
<1> DEFINE TypesInv == DeliveryInv /\ ListTypes /\ HandlerTypes /\ LoopTypes
<1>1. ChannelInit => TypesInv
  <2>1. ChannelInit => DeliveryInv
    BY AnswersInitOK DEF DeliveryInv, CallerTypes, ChannelInit
  <2>2. ChannelInit => ListTypes
    <3>1. ChannelInit => Len(results) = 0 /\ delivered = {} /\ old = {}
      BY EmptySeq DEF ChannelInit
    <3>2. KeepResults \in Nat
      BY ChannelAssumption
    <3> QED BY <3>1, <3>2 DEF ListTypes
  <2>3. ChannelInit => HandlerTypes
    <3>1. IsHandled(FreshConn)
      BY DEF IsHandled, FreshConn
    <3> QED BY <3>1 DEF ChannelInit, HandlerTypes
  <2>4. ChannelInit => LoopTypes
    BY ChannelAssumption DEF ChannelInit, LoopTypes, NoPost
  <2> QED BY <2>1, <2>2, <2>3, <2>4
<1>2. TypesInv /\ [ChannelNext]_channelVars => TypesInv'
  BY AnswersStepOK, CallersMove, ListTypesKept, HandlerTypesKept, LoopTypesKept DEF DeliveryInv
<1>3. TypesInv => ChannelTypeOK
  <2> SUFFICES ASSUME TypesInv PROVE ChannelTypeOK
    OBVIOUS
  <2>1. ChannelTypes
    BY DEF DeliveryInv, AnswersInv, ChannelInv
  <2>2. ToSet(pending) \subseteq Command
    <3>1. \A i \in DOMAIN pending : pending[i] \in Command
      BY <2>1, LenProperties, ElementOfSeq DEF ChannelTypes
    <3> QED BY <3>1 DEF ToSet
  <2> QED BY <2>1, <2>2 DEF ChannelTypeOK, ChannelTypes, DeliveryInv, CallerTypes, ListTypes,
          HandlerTypes, IsHandled, LoopTypes
<1> QED BY <1>1, <1>2, <1>3, PTL DEF ChannelSpec
=============================================================================
