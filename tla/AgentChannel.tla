---------------------------- MODULE AgentChannel ----------------------------
(***************************************************************************)
(* The command channel between the server and the agent of one host: the   *)
(* pending queue, the delivered list and the kept results of               *)
(* agent_store.py, the endpoints that issue commands, the report and the   *)
(* WebSocket handlers of routers/agents.py, the sweep of app.py, and the   *)
(* two threads of noba-agent/__main__.py that execute commands.            *)
(*                                                                         *)
(* The server's handlers run on one event loop, so a handler is one step   *)
(* between two awaits.  The agent reports in a loop and executes the       *)
(* commands of the answer; its second thread executes what arrives on the  *)
(* WebSocket.  Reports and answers may be lost, a report may be handled    *)
(* after the agent gave up on it, a connection may drop under either side, *)
(* and either side may restart.  All keys of the dictionaries are host     *)
(* names, so hosts do not disturb one another.                             *)
(***************************************************************************)
EXTENDS Naturals, FiniteSets, SequencesExt

CONSTANTS Command,      \* the commands, each issued at most once
          KeepResults,  \* results kept for a host (50 in the code)
          BatchLimit,   \* commands of an answer the agent executes (20)
          MaxConn,      \* bound: WebSocket connections the agent opens
          MaxFaults     \* bound: losses, drops, restarts and long silences

ASSUME ChannelAssumption ==
    /\ IsFiniteSet(Command)
    /\ {KeepResults, BatchLimit, MaxConn, MaxFaults} \subseteq Nat
    /\ KeepResults > 0

VARIABLES pending,    \* _agent_commands[host]
          delivered,  \* _delivered_commands[host]
          old,        \* commands queued or delivered more than 600 s ago
          results,    \* _agent_cmd_results[host], by command
          history,    \* rows of agent_command_history
          call,       \* the handler or thread that issued a command
          via,        \* the connection that handler sent it on, or 0
          ws,         \* _agent_websockets[host], or 0
          conn,       \* the connections, numbered as they are opened
          loop,       \* where the agent's main loop is
          post,       \* its report and the answer to it
          stray,      \* reports the agent gave up on before they were handled
          buffer,     \* cmd_results: results for the next report
          batch,      \* commands of the answer still to execute
          wsConn,     \* the connection of the agent's WebSocket thread, or 0
          wsRun,      \* the command that thread is executing
          executed,   \* how often a command was executed
          faults

serverVars == <<pending, delivered, old, results, history>>
callVars == <<call, via>>
agentVars == <<loop, post, stray, buffer, batch>>
wsVars == <<ws, conn, wsConn, wsRun>>
channelVars == <<serverVars, callVars, agentVars, wsVars, executed, faults>>

Conn == 1..MaxConn
NoPost == [state |-> "none", results |-> <<>>, commands |-> <<>>]
FreshConn == [open |-> FALSE, handler |-> "none", drain |-> <<>>, down |-> <<>>, up |-> <<>>]

ChannelTypeOK ==
    /\ {ToSet(pending), delivered, old} \subseteq SUBSET Command
    /\ results \in Seq(Command) /\ Len(results) <= KeepResults
    /\ history \in [Command -> {"none", "queued", "done"}]
    /\ call \in [Command -> {"none", "sending", "polling", "waiting", "answered", "done"}]
    /\ via \in [Command -> 0..MaxConn]
    /\ ws \in 0..MaxConn /\ wsConn \in 0..MaxConn
    /\ \A k \in Conn : /\ conn[k].open \in BOOLEAN
                       /\ conn[k].handler \in {"none", "opening", "draining", "reading", "ended"}
                       /\ {conn[k].drain, conn[k].down, conn[k].up} \subseteq Seq(Command)
    /\ loop \in {"collect", "reporting", "executing"}
    /\ post.state \in {"none", "sent", "answered"}
    /\ {post.results, post.commands, buffer, batch, wsRun} \subseteq Seq(Command)
    /\ stray \in SUBSET Seq(Command)
    /\ executed \in [Command -> Nat]
    /\ faults \in 0..MaxFaults

ChannelInit ==
    /\ pending = <<>> /\ delivered = {} /\ old = {} /\ results = <<>>
    /\ history = [c \in Command |-> "none"]
    /\ call = [c \in Command |-> "none"] /\ via = [c \in Command |-> 0]
    /\ ws = 0 /\ conn = [k \in Conn |-> FreshConn] /\ wsConn = 0 /\ wsRun = <<>>
    /\ loop = "collect" /\ post = NoPost /\ stray = {} /\ buffer = <<>> /\ batch = <<>>
    /\ executed = [c \in Command |-> 0] /\ faults = 0

Fault == faults < MaxFaults /\ faults' = faults + 1

-----------------------------------------------------------------------------
(* Issuing commands. *)

\* queue_agent_command and the bulk endpoint; the caller may wait for the
\* result (queue_agent_command_and_wait).  Neither writes a history row.
QueueCommand(c, waits) ==
    /\ call[c] = "none"
    /\ pending' = Append(pending, c)
    /\ call' = [call EXCEPT ![c] = IF waits THEN "waiting" ELSE "done"]
    /\ UNCHANGED <<delivered, old, results, history, via, agentVars, wsVars, executed, faults>>

\* record_command: INSERT OR IGNORE.
Recorded(c) == [history EXCEPT ![c] = IF @ = "none" THEN "queued" ELSE @]

\* The dual path when no connection is registered.
QueueInstead(c) ==
    /\ call[c] = "none" /\ ws = 0
    /\ pending' = Append(pending, c)
    /\ history' = Recorded(c)
    /\ call' = [call EXCEPT ![c] = "done"]
    /\ UNCHANGED <<delivered, old, results, via, agentVars, wsVars, executed, faults>>

\* The dual path over the connection: the message is written, the handler
\* awaits.
SendCommand(c) ==
    /\ call[c] = "none" /\ ws # 0
    /\ call' = [call EXCEPT ![c] = "sending"]
    /\ via' = [via EXCEPT ![c] = ws]
    /\ conn' = IF conn[ws].open THEN [conn EXCEPT ![ws].down = Append(@, c)] ELSE conn
    /\ UNCHANGED <<serverVars, agentVars, ws, wsConn, wsRun, executed, faults>>

\* send_json returns; the network-stats endpoint then polls for the result.
SendReturns(c, polls) ==
    /\ call[c] = "sending"
    /\ call' = [call EXCEPT ![c] = IF polls THEN "polling" ELSE "done"]
    /\ history' = IF polls THEN history ELSE Recorded(c)
    /\ UNCHANGED <<pending, delivered, old, results, via, agentVars, wsVars, executed, faults>>

\* send_json raises: the command endpoint removes whatever connection is
\* registered now, the network-stats endpoint none; both queue the command,
\* although the agent may have it already.
SendRaises(c, polls) ==
    /\ call[c] = "sending" /\ ~conn[via[c]].open
    /\ ws' = IF polls THEN ws ELSE 0
    /\ pending' = Append(pending, c)
    /\ history' = Recorded(c)
    /\ call' = [call EXCEPT ![c] = "done"]
    /\ UNCHANGED <<delivered, old, results, via, agentVars, conn, wsConn, wsRun, executed, faults>>

\* The network-stats endpoint finds the result among those kept.
PollFinds(c) ==
    /\ call[c] = "polling" /\ c \in ToSet(results)
    /\ call' = [call EXCEPT ![c] = "answered"]
    /\ UNCHANGED <<serverVars, via, agentVars, wsVars, executed, faults>>

\* It stops looking after its last sleep, whatever came during that sleep.
PollEnds(c) ==
    /\ call[c] = "polling"
    /\ history' = Recorded(c)
    /\ call' = [call EXCEPT ![c] = "done"]
    /\ UNCHANGED <<pending, delivered, old, results, via, agentVars, wsVars, executed, faults>>

\* _poll_result looks at the results kept before it looks at its deadline.
WaitEnds(c) ==
    /\ call[c] = "waiting"
    /\ call' = [call EXCEPT ![c] = IF c \in ToSet(results) THEN "answered" ELSE "done"]
    /\ UNCHANGED <<serverVars, via, agentVars, wsVars, executed, faults>>

-----------------------------------------------------------------------------
(* Reports. *)

LastKeptAll(s) == s

LastKept(s) == IF Len(s) > KeepResults THEN SubSeq(s, Len(s) - KeepResults + 1, Len(s)) ELSE s

\* complete_command: UPDATE, without effect on a command that has no row.
Completed(done) == [c \in Command |->
                      IF c \in done /\ history[c] # "none" THEN "done" ELSE history[c]]

\* The agent attaches the results of the last cycle, forgets them, and posts.
Report ==
    /\ loop = "collect"
    /\ loop' = "reporting"
    /\ post' = [state |-> "sent", results |-> buffer, commands |-> <<>>]
    /\ buffer' = <<>>
    /\ UNCHANGED <<serverVars, callVars, wsVars, stray, batch, executed, faults>>

AcceptUnconfirmed(res) ==
    /\ results' = LastKept(results \o res)
    /\ history' = Completed(ToSet(pending))
    /\ pending' = <<>>
    /\ delivered' = (delivered \ old) \union ToSet(pending)
    /\ old' = old \ (ToSet(pending) \union delivered)

\* api_agent_report: keeps the results, moves the queue to the delivered list,
\* and forgets what was delivered too long ago.  The confirmation reads a
\* field that reports do not have, and confirms nothing.
Accept(res) ==
    /\ results' = LastKept(results \o res)
    /\ history' = Completed(ToSet(res))
    /\ pending' = <<>>
    /\ delivered' = (delivered \ old) \union ToSet(pending)
    /\ old' = old \ (ToSet(pending) \union delivered)

HandleReport ==
    /\ post.state = "sent"
    /\ Accept(post.results)
    /\ post' = [post EXCEPT !.state = "answered", !.commands = pending]
    /\ UNCHANGED <<callVars, loop, stray, buffer, batch, wsVars, executed, faults>>

\* A report nobody waits for any more takes the queue all the same.
HandleStray ==
    \E res \in stray :
        /\ Accept(res)
        /\ stray' = stray \ {res}
        /\ UNCHANGED <<callVars, loop, post, buffer, batch, wsVars, executed, faults>>

\* The report or its answer is lost or too late for the agent.
GiveUp ==
    /\ loop = "reporting" /\ Fault
    /\ loop' = "collect"
    /\ stray' \in {stray} \union IF post.state = "sent" THEN {stray \union {post.results}} ELSE {}
    /\ post' = NoPost
    /\ UNCHANGED <<serverVars, callVars, buffer, batch, wsVars, executed>>

\* execute_commands takes the first BatchLimit commands of the answer.
TakeAnswer ==
    /\ post.state = "answered"
    /\ batch' = SubSeq(post.commands, 1, Min({Len(post.commands), BatchLimit}))
    /\ loop' = IF batch' = <<>> THEN "collect" ELSE "executing"
    /\ post' = NoPost
    /\ UNCHANGED <<serverVars, callVars, stray, buffer, wsVars, executed, faults>>

\* After the last command the loop sleeps, and collects again.
Execute ==
    /\ loop = "executing"
    /\ executed' = [executed EXCEPT ![Head(batch)] = @ + 1]
    /\ buffer' = Append(buffer, Head(batch))
    /\ batch' = Tail(batch)
    /\ loop' = IF batch' = <<>> THEN "collect" ELSE "executing"
    /\ UNCHANGED <<serverVars, callVars, post, stray, wsVars, faults>>

\* Nothing moves for ten minutes.
TenMinutes ==
    /\ ToSet(pending) \union delivered # {} /\ Fault
    /\ old' = ToSet(pending) \union delivered
    /\ UNCHANGED <<pending, delivered, results, history, callVars, agentVars, wsVars, executed>>

DropQueueOfAnyAge ==
    /\ pending' = <<>>
    /\ old' = old \intersect delivered
    /\ UNCHANGED <<delivered, results, history, callVars, agentVars, wsVars, executed, faults>>

\* The report of another host drops the stale queues of all hosts: the age of
\* its head condemns a whole queue.
DropStaleQueue ==
    /\ pending' = IF pending # <<>> /\ pending[1] \in old THEN <<>> ELSE pending
    /\ old' = old \intersect (ToSet(pending') \union delivered)
    /\ UNCHANGED <<delivered, results, history, callVars, agentVars, wsVars, executed, faults>>

\* _sweep_stale_commands, every five minutes.
Sweep ==
    /\ pending' = IF pending # <<>> /\ pending[1] \in old THEN <<>> ELSE pending
    /\ delivered' = IF delivered \subseteq old THEN {} ELSE delivered
    /\ old' = old \intersect (ToSet(pending') \union delivered')
    /\ UNCHANGED <<results, history, callVars, agentVars, wsVars, executed, faults>>

-----------------------------------------------------------------------------
(* The WebSocket. *)

Unused == {k \in Conn : conn[k] = FreshConn}

\* The agent's thread connects and identifies itself; the server registers the
\* connection and closes the one it replaces.
Identify ==
    /\ wsConn = 0 /\ Unused # {}
    /\ LET k == CHOOSE n \in Unused : \A m \in Unused : n <= m IN
         /\ wsConn' = k /\ ws' = k
         /\ conn' = [j \in Conn |->
                IF j = k THEN [FreshConn EXCEPT !.open = TRUE, !.handler = "opening"]
                ELSE IF j = ws THEN [conn[j] EXCEPT !.open = FALSE] ELSE conn[j]]
    /\ UNCHANGED <<serverVars, callVars, agentVars, wsRun, executed, faults>>

TakeQueueKeeping(k) ==
    /\ conn[k].handler = "opening"
    /\ conn' = [conn EXCEPT ![k].handler = IF pending = <<>> THEN "reading" ELSE "draining",
                           ![k].drain = pending]
    /\ UNCHANGED <<serverVars, callVars, agentVars, ws, wsConn, wsRun, executed, faults>>

\* The handler takes the queue ...
TakeQueue(k) ==
    /\ conn[k].handler = "opening"
    /\ conn' = [conn EXCEPT ![k].handler = IF pending = <<>> THEN "reading" ELSE "draining",
                           ![k].drain = pending]
    /\ pending' = <<>>
    /\ old' = old \ ToSet(pending)
    /\ UNCHANGED <<delivered, results, history, callVars, agentVars, ws, wsConn, wsRun,
                   executed, faults>>

\* ... and sends it, one command per await.
SendQueued(k) ==
    /\ conn[k].handler = "draining" /\ conn[k].open
    /\ conn' = [conn EXCEPT ![k].handler = IF Len(conn[k].drain) = 1 THEN "reading" ELSE @,
                           ![k].drain = Tail(@),
                           ![k].down = Append(@, Head(conn[k].drain))]
    /\ UNCHANGED <<serverVars, callVars, agentVars, ws, wsConn, wsRun, executed, faults>>

\* _handle_ws_result.
ReceiveResult(k) ==
    /\ conn[k].handler = "reading" /\ conn[k].up # <<>>
    /\ results' = LastKept(Append(results, Head(conn[k].up)))
    /\ history' = Completed({Head(conn[k].up)})
    /\ conn' = [conn EXCEPT ![k].up = Tail(@)]
    /\ UNCHANGED <<pending, delivered, old, callVars, agentVars, ws, wsConn, wsRun,
                   executed, faults>>

\* The handler's finally: it unregisters its own connection only.  What it had
\* still to send is lost.
HandlerEnds(k) ==
    /\ conn[k].handler \in {"opening", "draining", "reading"} /\ ~conn[k].open
    /\ conn' = [conn EXCEPT ![k] = [FreshConn EXCEPT !.handler = "ended", !.down = conn[k].down]]
    /\ ws' = IF ws = k THEN 0 ELSE ws
    /\ UNCHANGED <<serverVars, callVars, agentVars, wsConn, wsRun, executed, faults>>

Drop(k) ==
    /\ conn[k].open /\ Fault
    /\ conn' = [conn EXCEPT ![k].open = FALSE]
    /\ UNCHANGED <<serverVars, callVars, agentVars, ws, wsConn, wsRun, executed>>

\* The agent's thread executes a command, then sends its result.
WsExecute ==
    /\ wsConn # 0 /\ wsRun = <<>> /\ conn[wsConn].down # <<>>
    /\ LET c == Head(conn[wsConn].down) IN
         /\ executed' = [executed EXCEPT ![c] = @ + 1]
         /\ wsRun' = <<c>>
    /\ conn' = [conn EXCEPT ![wsConn].down = Tail(@)]
    /\ UNCHANGED <<serverVars, callVars, agentVars, ws, wsConn, faults>>

WsReply ==
    /\ wsRun # <<>> /\ conn[wsConn].open
    /\ conn' = [conn EXCEPT ![wsConn].up = @ \o wsRun]
    /\ wsRun' = <<>>
    /\ UNCHANGED <<serverVars, callVars, agentVars, ws, wsConn, executed, faults>>

\* It notices the loss of the connection; what it had not read is lost.
WsLost ==
    /\ wsConn # 0 /\ ~conn[wsConn].open
    /\ conn' = [conn EXCEPT ![wsConn].down = <<>>]
    /\ wsConn' = 0 /\ wsRun' = <<>>
    /\ UNCHANGED <<serverVars, callVars, agentVars, ws, executed, faults>>

-----------------------------------------------------------------------------
(* Restarts. *)

Closed == [k \in Conn |-> [conn[k] EXCEPT !.open = FALSE]]

\* The agent is restarted by systemd, or updates itself: it has nothing on disk.
AgentRestarts ==
    /\ Fault
    /\ loop' = "collect" /\ post' = NoPost /\ buffer' = <<>> /\ batch' = <<>>
    /\ conn' = [k \in Conn |-> [Closed[k] EXCEPT !.down = <<>>]]
    /\ wsConn' = 0 /\ wsRun' = <<>>
    /\ UNCHANGED <<serverVars, callVars, stray, ws, executed>>

\* The server restarts: the dictionaries and its callers are gone, the rows stay.
ServerRestarts ==
    /\ Fault
    /\ pending' = <<>> /\ delivered' = {} /\ old' = {} /\ results' = <<>>
    /\ call' = [c \in Command |-> IF call[c] = "none" THEN "none" ELSE
                                  IF call[c] = "answered" THEN "answered" ELSE "done"]
    /\ stray' = {} /\ ws' = 0
    /\ loop' = IF post.state = "sent" THEN "collect" ELSE loop
    /\ post' = IF post.state = "sent" THEN NoPost ELSE post
    /\ conn' = [k \in Conn |-> IF conn[k].handler = "none" THEN conn[k] ELSE
                   [FreshConn EXCEPT !.handler = "ended", !.down = conn[k].down]]
    /\ UNCHANGED <<history, via, buffer, batch, wsConn, wsRun, executed>>

-----------------------------------------------------------------------------
AgentThreads ==
    Report \/ TakeAnswer \/ Execute \/ Identify \/ WsExecute \/ WsReply \/ WsLost

Callers(c) == SendReturns(c, FALSE) \/ PollFinds(c) \/ PollEnds(c) \/ WaitEnds(c)

Handlers(k) == TakeQueue(k) \/ SendQueued(k) \/ ReceiveResult(k) \/ HandlerEnds(k)

ChannelNext ==
    \/ AgentThreads
    \/ \E c \in Command :
          \/ \E waits \in BOOLEAN : QueueCommand(c, waits)
          \/ QueueInstead(c) \/ SendCommand(c) \/ SendReturns(c, TRUE)
          \/ \E polls \in BOOLEAN : SendRaises(c, polls)
          \/ Callers(c)
    \/ HandleReport \/ HandleStray \/ DropStaleQueue \/ Sweep
    \/ \E k \in Conn : Handlers(k) \/ Drop(k)
    \/ GiveUp \/ TenMinutes \/ AgentRestarts \/ ServerRestarts

ChannelSpec == ChannelInit /\ [][ChannelNext]_channelVars

\* The threads of the agent and the handlers of the server keep running.  A
\* caller may wait as long as its timeout, a fault need never happen.
ChannelFairness ==
    /\ WF_channelVars(Report) /\ WF_channelVars(TakeAnswer)
    /\ WF_channelVars(Execute) /\ WF_channelVars(HandleReport)
    /\ WF_channelVars(WsExecute) /\ WF_channelVars(WsReply) /\ WF_channelVars(WsLost)
    /\ \A k \in Conn : WF_channelVars(Handlers(k))
    /\ \A c \in Command : WF_channelVars(Callers(c))

ChannelFairSpec == ChannelSpec /\ ChannelFairness

-----------------------------------------------------------------------------
(* Properties. *)

\* Where commands wait to be executed.
Place == {<<"pending", 0>>, <<"answer", 0>>, <<"batch", 0>>} \union ({"drain", "down"} \X Conn)

Held(p) ==
    CASE p[1] = "pending" -> pending
      [] p[1] = "answer"  -> post.commands
      [] p[1] = "batch"   -> batch
      [] p[1] = "drain"   -> conn[p[2]].drain
      [] p[1] = "down"    -> conn[p[2]].down

\* The copies of a command that are still to be executed.
Copies(c) == {w \in UNION {{p} \X DOMAIN Held(p) : p \in Place} : Held(w[1])[w[2]] = c}

\* A command is in one place at a time and is executed at most once, whatever
\* is lost, retried or restarted.  Only a command whose WebSocket dropped may
\* be executed twice: it is queued again when the send raised, although the
\* agent may have read it.
ExecutedAtMostOnce ==
    \A c \in Command :
        executed[c] + Cardinality(Copies(c)) <= IF via[c] = 0 \/ conn[via[c]].open THEN 1 ELSE 2

\* A result that is kept, on its way, in the history or in a caller's hands is
\* the result of a command the agent executed.
AnswersAreReal ==
    \A c \in Command :
        \/ executed[c] > 0
        \/ /\ history[c] # "done" /\ call[c] # "answered"
           /\ c \notin UNION ({ToSet(results), ToSet(buffer), ToSet(post.results)}
                              \union {ToSet(conn[k].up) : k \in Conn})

\* What becomes of a command, as its caller and the history see it.
CallerOf ==
    [c \in Command |-> CASE call[c] = "none" -> "new" [] call[c] = "answered" -> "answered"
                         [] call[c] = "done" -> "left" [] OTHER -> "open"]

Doubtful == {c \in Command : via[c] # 0 /\ ~conn[via[c]].open}

Delivery == INSTANCE CommandDelivery WITH
    Order <- Command, caller <- CallerOf, runs <- executed, doubt <- Doubtful, record <- history

\* Queues, reports, sockets and handlers together keep what CommandDelivery
\* says: commands are carried out after they were issued and as often as it
\* allows, answers and rows follow executions, and nothing is taken back.
ImplementsDelivery == Delivery!Spec

\* As long as nothing is lost, restarted or silent, and no answer holds more
\* commands than the agent takes, every command that is issued is executed,
\* whichever way it goes and whenever the connection opens.
IssuedIsExecuted ==
    [](faults = 0 /\ Len(pending) <= BatchLimit) =>
        \A c \in Command : call[c] # "none" ~> executed[c] = 1

\* What the comments in api_agent_report promise ("Track delivered commands for
\* retry on failure", "Re-queue commands that were delivered but never confirmed
\* (timeout)"): a command that was delivered long ago and never executed is
\* queued again by the next report.
TimedOutIsRequeued ==
    [][HandleReport => \A c \in delivered \cap old : executed[c] = 0 => c \in ToSet(pending')]_channelVars
=============================================================================
