--------------------------- MODULE RemoteDesktop ---------------------------
(***************************************************************************)
(* Remote desktop: the browser endpoint agent_rdp_ws of routers/agent_rdp  *)
(* tells the agent to capture its screen when a viewer comes and to stop   *)
(* when the last one goes; _ws_thread of the agent starts and stops the    *)
(* capture thread of rdp.py, and stops it when its connection fails.  Both *)
(* ends keep their own idea of the connection: conn is the agent's, known  *)
(* what _agent_websockets holds.  A message that is sent does not suspend  *)
(* the server between the registry and the socket: coming and leaving are  *)
(* one step each.                                                          *)
(***************************************************************************)
EXTENDS Naturals, Sequences

CONSTANTS Viewer,       \* browsers
          Visits,       \* bound: viewers that come, changes of quality
          Connections,  \* bound: connections of the agent
          Loops         \* bound: capture threads at once

ASSUME DesktopAssumption == {Visits, Connections, Loops} \subseteq Nat \ {0}

VARIABLES viewers,  \* _rdp_subscribers of the host
          ghosts,   \* those of them whose start failed: nothing takes them out
          visits,
          conn,     \* the agent's connection: its number, whether it is up
          online,   \* the agent is in its receive loop
          known,    \* the connection in _agent_websockets, 0 if none
          handlers, \* connections whose server handler has not ended
          wire,     \* messages on their way to the agent
          capturing,\* _rdp_active
          loops,    \* capture threads alive
          display,  \* the screen can be captured
          asked,    \* the connection rdp_start was last sent on
          popped    \* the registry lost a live connection to a failed send

desktopVars == <<viewers, ghosts, visits, conn, online, known, handlers, wire, capturing, loops, display,
                 asked, popped>>

DesktopTypeOK ==
    /\ viewers \subseteq Viewer /\ ghosts \subseteq viewers /\ visits \in 0..Visits
    /\ conn \in [n : 0..Connections, up : BOOLEAN]
    /\ {online, capturing, display, popped} \subseteq BOOLEAN
    /\ known \in {0} \union handlers /\ handlers \subseteq 1..Connections
    /\ wire \in Seq({"rdp_start", "rdp_stop"})
    /\ loops \in 0..Loops /\ asked \in 0..Connections

DesktopInit ==
    /\ viewers = {} /\ ghosts = {} /\ visits = 0 /\ wire = <<>> /\ loops = 0
    /\ conn = [n |-> 0, up |-> FALSE] /\ known = 0 /\ handlers = {} /\ asked = 0
    /\ online = FALSE /\ capturing = FALSE /\ popped = FALSE /\ display = TRUE

\* A message sent to the connection in the registry; on one that is down it is
\* lost, and the exception of a failed send suppressed.
Sent(message) == wire' = IF known # 0 /\ known = conn.n /\ conn.up THEN Append(wire, message) ELSE wire

-----------------------------------------------------------------------------
(* agent_rdp_ws. *)

Visit == visits < Visits /\ visits' = visits + 1

Come(v) ==
    /\ v \notin viewers /\ Visit
    /\ viewers' = viewers \union {v}
    /\ Sent("rdp_start") /\ asked' = IF known # 0 THEN known ELSE asked
    /\ UNCHANGED <<ghosts, conn, online, known, handlers, capturing, loops, display, popped>>

\* The queue of a viewer is registered before its parameters are read, which may
\* be no numbers, and before the browser is told, which may have gone: these
\* exceptions pass the finally clause that would take the viewer out.
ComeFails(v) ==
    /\ v \notin viewers /\ Visit
    /\ viewers' = viewers \union {v} /\ ghosts' = ghosts \union {v}
    /\ \/ UNCHANGED <<wire, asked>>
       \/ Sent("rdp_start") /\ asked' = IF known # 0 THEN known ELSE asked
    /\ UNCHANGED <<conn, online, known, handlers, capturing, loops, display, popped>>

\* A viewer changes the quality: the capture is started anew.
ChangeQuality(v) ==
    /\ v \in viewers \ ghosts /\ Visit
    /\ Sent("rdp_start") /\ asked' = IF known # 0 THEN known ELSE asked
    /\ UNCHANGED <<viewers, ghosts, conn, online, known, handlers, capturing, loops, display, popped>>

LeaveAlways(v) ==
    /\ v \in viewers \ ghosts
    /\ viewers' = viewers \ {v}
    /\ Sent("rdp_stop")
    /\ UNCHANGED <<ghosts, visits, conn, online, known, handlers, capturing, loops, display, asked, popped>>

\* The last viewer that leaves stops the capture; one that is gone and still
\* registered counts as one that stays.
Leave(v) ==
    /\ v \in viewers \ ghosts
    /\ viewers' = viewers \ {v}
    /\ IF viewers' = {} THEN Sent("rdp_stop") ELSE UNCHANGED wire
    /\ UNCHANGED <<ghosts, visits, conn, online, known, handlers, capturing, loops, display, asked, popped>>

-----------------------------------------------------------------------------
(* The agent. *)

\* The agent connects and identifies itself: agent_websocket replaces what it
\* had in the registry.
Connect ==
    /\ ~online /\ conn.n < Connections
    /\ conn' = [n |-> conn.n + 1, up |-> TRUE] /\ online' = TRUE
    /\ known' = conn.n + 1 /\ handlers' = handlers \union {conn.n + 1} /\ wire' = <<>>
    /\ UNCHANGED <<viewers, ghosts, visits, capturing, loops, display, asked, popped>>

\* _rdp_start clears the flag and joins a thread that is running; one that does
\* not see the flag down before it is up again runs on next to the new one.
ReceiveStart ==
    /\ online /\ conn.up /\ wire # <<>> /\ Head(wire) = "rdp_start"
    /\ wire' = Tail(wire) /\ capturing' = TRUE
    /\ \E left \in IF capturing THEN 0..loops ELSE {loops} :
          left < Loops /\ loops' = left + 1
    /\ UNCHANGED <<viewers, ghosts, visits, conn, online, known, handlers, display, asked, popped>>

ReceiveStop ==
    /\ online /\ conn.up /\ wire # <<>> /\ Head(wire) = "rdp_stop"
    /\ wire' = Tail(wire) /\ capturing' = FALSE
    /\ UNCHANGED <<viewers, ghosts, visits, conn, online, known, handlers, loops, display, asked, popped>>

\* A capture thread sees that the flag is down.
LoopEnds ==
    /\ loops > 0 /\ ~capturing
    /\ loops' = loops - 1
    /\ UNCHANGED <<viewers, ghosts, visits, conn, online, known, handlers, wire, capturing, display, asked,
                   popped>>

\* A capture thread gives up on the screen, and takes the others with it.
CaptureFails ==
    /\ loops > 0 /\ ~display
    /\ loops' = loops - 1 /\ capturing' = FALSE
    /\ UNCHANGED <<viewers, ghosts, visits, conn, online, known, handlers, wire, display, asked, popped>>

OfflineCapturing == online' = FALSE /\ UNCHANGED capturing

\* The receive loop ends in an exception, whose handler calls _rdp_stop.
Offline == online' = FALSE /\ capturing' = FALSE

AgentLosesConnection ==
    /\ online /\ ~conn.up
    /\ Offline
    /\ UNCHANGED <<viewers, ghosts, visits, conn, known, handlers, wire, loops, display, asked, popped>>

-----------------------------------------------------------------------------
(* What else happens. *)

DisplayFails ==
    /\ display /\ display' = FALSE
    /\ UNCHANGED <<viewers, ghosts, visits, conn, online, known, handlers, wire, capturing, loops, asked, popped>>

ConnectionDrops ==
    /\ conn.up
    /\ conn' = [conn EXCEPT !.up = FALSE] /\ wire' = <<>>
    /\ UNCHANGED <<viewers, ghosts, visits, online, known, handlers, capturing, loops, display, asked, popped>>

\* The server's handler of a dropped connection ends: it takes itself out of
\* the registry, not a newer one.
DesktopHandlerEnds(n) ==
    /\ n \in handlers /\ (n # conn.n \/ ~conn.up)
    /\ handlers' = handlers \ {n}
    /\ known' = IF known = n THEN 0 ELSE known
    /\ UNCHANGED <<viewers, ghosts, visits, conn, online, wire, capturing, loops, display, asked, popped>>

\* A command that was being sent on an earlier connection fails, and takes what
\* is in the registry by now out of it (api_agent_command).
SendPops ==
    /\ known = conn.n /\ conn.up /\ conn.n > 1
    /\ known' = 0 /\ popped' = TRUE
    /\ UNCHANGED <<viewers, ghosts, visits, conn, online, handlers, wire, capturing, loops, display, asked>>

DesktopNext ==
    \/ \E v \in Viewer : Come(v) \/ ComeFails(v) \/ ChangeQuality(v) \/ Leave(v)
    \/ Connect \/ ReceiveStart \/ ReceiveStop \/ LoopEnds \/ CaptureFails
    \/ AgentLosesConnection \/ DisplayFails \/ ConnectionDrops \/ SendPops
    \/ \E n \in handlers : DesktopHandlerEnds(n)

\* The agent's threads run: it receives what was sent, notices a connection
\* that is down, and its capture threads look at their flag.
DesktopFairness ==
    /\ WF_desktopVars(ReceiveStart) /\ WF_desktopVars(ReceiveStop)
    /\ WF_desktopVars(LoopEnds) /\ WF_desktopVars(AgentLosesConnection)

DesktopSpec == DesktopInit /\ [][DesktopNext]_desktopVars /\ DesktopFairness

-----------------------------------------------------------------------------
(* Properties. *)

\* While a viewer watches over the connection it was announced on, the agent is
\* capturing or will be when it has read what was sent, as long as its screen
\* can be captured: no leaving viewer stops the capture of one who stays or
\* came meanwhile.
ViewersAreServed ==
    viewers \ ghosts # {} /\ asked = conn.n /\ conn.up /\ known = conn.n /\ display =>
        IF wire = <<>> THEN capturing /\ loops > 0 ELSE wire[Len(wire)] = "rdp_start"

\* When nobody watches any more the agent stops capturing and its capture
\* threads end, whichever connection came or went, unless the registry lost the
\* agent while it was connected.  (A viewer whose start failed stays registered:
\* the capture then goes on for nobody.)
CaptureStops == viewers = {} ~> viewers # {} \/ popped \/ (~capturing /\ loops = 0)
=============================================================================
