----------------------------- MODULE LogStreams -----------------------------
(***************************************************************************)
(* A live log stream: the thread _stream_reader of the agent puts what     *)
(* journalctl prints into a buffer, the agent's main loop takes the buffer *)
(* along with its next report, api_agent_report appends the lines to the   *)
(* server's list, and a browser polls that list from a cursor.  The        *)
(* commands follow_logs and stop_stream reach the agent in the answers to  *)
(* its reports.  Lines are numbered in the order they are printed.         *)
(***************************************************************************)
EXTENDS Naturals, Sequences

CONSTANTS Lines,       \* bound: lines printed
          BufferMax,   \* _STREAM_BUFFER_MAX of the agent
          LinesMax,    \* _STREAM_LINES_MAX of the server
          StreamFaults \* bound: lost or late reports, lost answers, restarts, ends

ASSUME StreamAssumption == {Lines, BufferMax, LinesMax} \subseteq Nat \ {0} /\ StreamFaults \in Nat

VARIABLES journal,  \* journalctl and its reader: alive, lines printed and read
          active,   \* the stream is in the agent's _active_streams
          buffer,   \* the agent's _stream_buffers[stream]
          todo,     \* commands the main loop has yet to execute
          post,     \* reports on their way; the agent waits for the one "live"
          listed,   \* the stream is in the server's _agent_streams
          orders,   \* _agent_commands: what the next answer carries
          list,     \* the server's _agent_stream_lines[stream]
          viewer,   \* the browser: its cursor and the lines it was given
          dropped,  \* lines were dropped by a cap, a loss, a flush or a stop
          late,     \* a report was handled after the agent had given up on it
          mischief

streamVars == <<journal, active, buffer, todo, post, listed, orders, list, viewer, dropped,
                late, mischief>>

None == [there |-> FALSE, lines |-> <<>>]
Command == {"follow_logs", "stop_stream", "forget_buffer"}

StreamTypeOK ==
    /\ journal \in [runs : BOOLEAN, read : BOOLEAN, printed : 0..Lines, taken : 0..Lines]
    /\ {active, listed, dropped, late} \subseteq BOOLEAN
    /\ \A l \in {buffer, list} : l.there \in BOOLEAN /\ l.lines \in Seq(1..Lines)
    /\ Len(buffer.lines) =< BufferMax /\ Len(list.lines) =< LinesMax
    /\ todo \in Seq(Command) /\ orders \in Seq(Command)
    /\ \A r \in post : r.live \in BOOLEAN /\ r.lines \in Seq(1..Lines)
    /\ viewer.cursor \in 0..LinesMax /\ viewer.seen \in Seq(1..Lines)
    /\ mischief \in 0..StreamFaults

StreamInit ==
    /\ journal = [runs |-> FALSE, read |-> FALSE, printed |-> 0, taken |-> 0]
    /\ active = FALSE /\ listed = FALSE /\ dropped = FALSE /\ late = FALSE
    /\ buffer = None /\ list = None
    /\ todo = <<>> /\ orders = <<>> /\ post = {}
    /\ viewer = [cursor |-> 0, seen |-> <<>>]
    /\ mischief = 0

Mischief == mischief < StreamFaults /\ mischief' = mischief + 1

KeptAll(lines, max) == lines

\* The last max lines, what both ends keep of a list that grew.
Kept(lines, max) == IF Len(lines) =< max THEN lines
                    ELSE SubSeq(lines, Len(lines) - max + 1, Len(lines))

-----------------------------------------------------------------------------
(* The operator and the browser. *)

FollowLogs ==
    /\ ~listed /\ orders = <<>> /\ journal.printed = 0 /\ ~journal.read /\ todo = <<>>
    /\ listed' = TRUE /\ orders' = <<"follow_logs">>
    /\ UNCHANGED <<journal, active, buffer, todo, post, list, viewer, dropped, late, mischief>>

\* api_agent_stop_stream: the server's list goes at once, the agent is told later.
StopStream ==
    /\ listed
    /\ listed' = FALSE /\ list' = None
    /\ orders' = Append(orders, "stop_stream") /\ dropped' = TRUE
    /\ UNCHANGED <<journal, active, buffer, todo, post, viewer, late, mischief>>

CursorOfNew(total, new) == new

\* The cursor that api_agent_stream returns.
Cursor(total, new) == total

\* The browser polls: what lies behind its cursor.  A stream without lines, or
\* none at all, sets the cursor back.
Poll ==
    LET new == SubSeq(list.lines, viewer.cursor + 1, Len(list.lines)) IN
    /\ viewer' = IF list.there
                 THEN [cursor |-> Cursor(Len(list.lines), Len(new)), seen |-> viewer.seen \o new]
                 ELSE [viewer EXCEPT !.cursor = 0]
    /\ UNCHANGED <<journal, active, buffer, todo, post, listed, orders, list, dropped, late,
                   mischief>>

-----------------------------------------------------------------------------
(* The agent. *)

LineIsPrinted ==
    /\ journal.runs /\ journal.printed < Lines
    /\ journal' = [journal EXCEPT !.printed = @ + 1]
    /\ UNCHANGED <<active, buffer, todo, post, listed, orders, list, viewer, dropped, late, mischief>>

JournalEnds ==
    /\ journal.runs /\ Mischief
    /\ journal' = [journal EXCEPT !.runs = FALSE]
    /\ UNCHANGED <<active, buffer, todo, post, listed, orders, list, viewer, dropped, late>>

\* _stream_reader: a buffer that is gone is made again.
ReadLine ==
    LET lines == Append(buffer.lines, journal.taken + 1) IN
    /\ journal.read /\ journal.taken < journal.printed
    /\ journal' = [journal EXCEPT !.taken = @ + 1]
    /\ buffer' = [there |-> TRUE, lines |-> Kept(lines, BufferMax)]
    /\ dropped' = (dropped \/ Len(lines) > BufferMax)
    /\ UNCHANGED <<active, todo, post, listed, orders, list, viewer, late, mischief>>

ReaderEnds ==
    /\ journal.read /\ ~journal.runs /\ journal.taken = journal.printed
    /\ journal' = [journal EXCEPT !.read = FALSE]
    /\ active' = FALSE
    /\ UNCHANGED <<buffer, todo, post, listed, orders, list, viewer, dropped, late, mischief>>

\* The main loop takes the buffer and reports; only one report is waited for.
SendReport ==
    /\ todo = <<>> /\ \A r \in post : ~r.live
    /\ post' = post \union {[live |-> TRUE, lines |-> buffer.lines]}
    /\ buffer' = [buffer EXCEPT !.lines = <<>>]
    /\ UNCHANGED <<journal, active, todo, listed, orders, list, viewer, dropped, late, mischief>>

\* _store_stream_data, and the commands that the answer carries, unless it is
\* lost or nobody waits for it any more.
HandleLines(r) ==
    LET lines == list.lines \o r.lines
        lost == ~r.live \/ mischief' > mischief
    IN
    /\ r \in post /\ post' = post \ {r}
    /\ (r.live /\ Mischief) \/ UNCHANGED mischief
    /\ list' = IF r.lines = <<>> THEN list ELSE [there |-> TRUE, lines |-> Kept(lines, LinesMax)]
    /\ dropped' = (dropped \/ Len(lines) > LinesMax)
    /\ late' = (late \/ (~r.live /\ r.lines # <<>>))
    /\ orders' = <<>>
    /\ todo' = IF lost THEN todo ELSE orders
    /\ UNCHANGED <<journal, active, buffer, listed, viewer>>

\* A report fails: it is lost, or comes late.  Its lines are not sent again.
LoseLines(r) ==
    /\ r \in post /\ r.live /\ Mischief
    /\ post' \in {post \ {r}, (post \ {r}) \union {[r EXCEPT !.live = FALSE]}}
    /\ dropped' = (dropped \/ r.lines # <<>>)
    /\ UNCHANGED <<journal, active, buffer, todo, listed, orders, list, viewer, late>>

ExecuteFollow ==
    /\ todo # <<>> /\ Head(todo) = "follow_logs"
    /\ todo' = Tail(todo) /\ active' = TRUE
    /\ buffer' = [there |-> TRUE, lines |-> <<>>]
    /\ journal' = [journal EXCEPT !.runs = TRUE, !.read = TRUE]
    /\ UNCHANGED <<post, listed, orders, list, viewer, dropped, late, mischief>>

\* _cmd_stop_stream terminates journalctl, and then removes the buffer: the
\* reader may still be reading what is left.
ExecuteStop ==
    /\ todo # <<>> /\ Head(todo) = "stop_stream"
    /\ active' = FALSE
    /\ IF active THEN /\ journal' = [journal EXCEPT !.runs = FALSE]
                      /\ todo' = <<"forget_buffer">> \o Tail(todo)
       ELSE journal' = journal /\ todo' = Tail(todo)
    /\ UNCHANGED <<buffer, post, listed, orders, list, viewer, dropped, late, mischief>>

ForgetBuffer ==
    /\ todo # <<>> /\ Head(todo) = "forget_buffer"
    /\ todo' = Tail(todo) /\ buffer' = None /\ dropped' = TRUE
    /\ UNCHANGED <<journal, active, post, listed, orders, list, viewer, late, mischief>>

\* The command get_stream of an operator flushes the buffer into its own result.
GetStream ==
    /\ Mischief
    /\ buffer' = [there |-> TRUE, lines |-> <<>>]
    /\ dropped' = (dropped \/ buffer.lines # <<>>)
    /\ UNCHANGED <<journal, active, todo, post, listed, orders, list, viewer, late>>

\* The server forgets everything; the agent goes on.
StreamServerRestarts ==
    /\ Mischief
    /\ listed' = FALSE /\ orders' = <<>> /\ list' = None /\ post' = {} /\ dropped' = TRUE
    /\ UNCHANGED <<journal, active, buffer, todo, viewer, late>>

StreamNext ==
    \/ FollowLogs \/ StopStream \/ Poll
    \/ LineIsPrinted \/ JournalEnds \/ ReadLine \/ ReaderEnds
    \/ SendReport \/ ExecuteFollow \/ ExecuteStop \/ ForgetBuffer \/ GetStream
    \/ StreamServerRestarts
    \/ \E r \in post : HandleLines(r) \/ LoseLines(r)

StreamSpec == StreamInit /\ [][StreamNext]_streamVars

-----------------------------------------------------------------------------
(* Properties. *)

\* The browser gets the lines of a stream in the order they were printed and
\* none of them twice, and until lines were dropped it has missed none: over a
\* buffer, reports, a capped list and a cursor.  A report that is handled after
\* the agent gave up on it may come after the next one.
LinesInOrder ==
    ~late =>
        /\ \A i, j \in DOMAIN viewer.seen : i < j => viewer.seen[i] < viewer.seen[j]
        /\ dropped \/ \A i \in DOMAIN viewer.seen : viewer.seen[i] = i
=============================================================================
