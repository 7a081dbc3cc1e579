----------------------------- MODULE JobRunner -----------------------------
(***************************************************************************)
(* JobRunner: the bounded pool of background jobs behind every automation, *)
(* workflow step and remediation, and the job_runs table it reports in.    *)
(*                                                                         *)
(* A submitted job holds a slot of the pool from the moment its row is     *)
(* inserted until its own thread gives the slot back.  That thread builds  *)
(* the job's process, reads its output to the end, waits for it, judges    *)
(* the outcome and records it.  Meanwhile a timer of the job, and any      *)
(* number of API threads that cancel it, kill the same process without a   *)
(* lock; the server may be stopped, in which case the shutdown cancels     *)
(* what it finds, or may crash.                                            *)
(***************************************************************************)
EXTENDS Integers, FiniteSets

CONSTANTS
  Run,          \* job_runs ids
  MaxJobs,      \* max_concurrent
  Caller,       \* API threads that cancel jobs
  Stopper,      \* the thread that runs shutdown
  Kind          \* what run_fn may return

\* A process of the server's user; one whose descendants may keep its output
\* open when it is gone, or ignore SIGTERM; one started through sudo, which
\* refuses signals; a finished _HttpResult, whose pid is 0; None, or an
\* exception.
AllKind == {"child", "family", "privileged", "reply", "nothing"}
Thread == Caller \union {Stopper}

ASSUME RunnerAssumption ==
  /\ IsFiniteSet(Run)
  /\ MaxJobs \in Nat \ {0}
  /\ Stopper \notin Caller
  /\ Kind \subseteq AllKind

VARIABLES
  active,      \* keys of _active: the slots taken
  row,         \* job_runs.status of each run
  unwritten,   \* history: runs whose final update_job_run failed
  job,         \* each run's thread, entry and process
  flagging,    \* the runs each thread has still to flag as cancelled
  killing,     \* the run, if any, whose process it kills now
  server,      \* "up", told to stop by somebody, or stopping
  orphaned     \* history: runs whose server died under them

rows == <<row, unwritten>>
control == <<flagging, killing, server, orphaned>>
vars == <<active, rows, job, control>>

Settled == {"done", "failed", "timeout", "cancelled"}
Exit == {"ok", "bad"}
JobPc == {"free", "registered", "unstarted", "build", "stream", "wait",
          "judge", "record", "release", "callback", "over"}

\* held: the reading loop waits for an output that is open though the
\* process is gone; cancelled is entry["cancelled"], expired is timed_out,
\* verdict is status in _run; raised: an exception took _run past the process
\* it had started.
JobState == [pc : JobPc, kind : AllKind,
             proc : Exit \union {"none", "alive"}, held : BOOLEAN,
             cancelled : BOOLEAN, timer : {"off", "armed", "killing"},
             expired : BOOLEAN, verdict : Settled, raised : BOOLEAN]

NewJob == [pc |-> "free", kind |-> "nothing", proc |-> "none", held |-> FALSE,
           cancelled |-> FALSE, timer |-> "off", expired |-> FALSE,
           verdict |-> "failed", raised |-> FALSE]

TypeOK ==
  /\ active \subseteq Run /\ unwritten \subseteq Run /\ orphaned \subseteq Run
  /\ row \in [Run -> Settled \union {"none", "running"}]
  /\ job \in [Run -> JobState]
  /\ flagging \in [Thread -> SUBSET Run] /\ killing \in [Thread -> SUBSET Run]
  /\ server \in {"up", "asked to stop", "hit by a job", "stopping"}

Init ==
  /\ active = {} /\ unwritten = {} /\ orphaned = {} /\ server = "up"
  /\ row = [r \in Run |-> "none"]
  /\ job = [r \in Run |-> NewJob]
  /\ flagging = [t \in Thread |-> {}] /\ killing = [t \in Thread |-> {}]

Goes(r, pc) == job' = [job EXCEPT ![r].pc = pc]

\* What only concerns the job's thread, entry and process.
Becomes(r, j) ==
  job' = [job EXCEPT ![r] = j] /\ UNCHANGED <<active, rows, control>>

(***************************************************************************)
(* Submitting                                                              *)
(***************************************************************************)
\* submit, under the lock: capacity check, row, slot.
Submit(r) ==
  /\ job[r].pc = "free"
  /\ Cardinality(active) < MaxJobs
  /\ active' = active \union {r}
  /\ row' = [row EXCEPT ![r] = "running"]
  /\ Goes(r, "registered")
  /\ UNCHANGED <<unwritten, control>>

\* submit, after the lock: the job's thread is started, or cannot be, and
\* then nobody is left to give the slot back.
Start(r) ==
  /\ job[r].pc = "registered"
  /\ \E pc \in {"build", "unstarted"} : Becomes(r, [job[r] EXCEPT !.pc = pc])

(***************************************************************************)
(* _run, in the job's thread                                               *)
(***************************************************************************)
\* A process ends; whether its output, if it is still read, is open after it.
Ended(j, code, held) == [j EXCEPT !.proc = code, !.held = held]
MayHold(r) == IF job[r].kind = "family" /\ job[r].pc = "stream" THEN BOOLEAN ELSE {FALSE}

\* _kill_process: what may become of a job whose process runs.  It ends, by
\* SIGTERM or SIGKILL; the error of a privileged one is swallowed.
Killed(r) ==
  IF job[r].proc = "alive" /\ job[r].kind \in {"child", "family"}
  THEN {Ended(job[r], code, held) : code \in Exit, held \in MayHold(r)}
  ELSE {job[r]}

\* getpgid(0), for a reply, is the server's own process group.
HitsServer(r) == job[r].kind = "reply"

\* run_fn returns; its process is published, and the timer started.
Build(r) ==
  /\ job[r].pc = "build"
  /\ \E k \in Kind, proc \in Exit \union {"none", "alive"} :
       /\ k = "nothing" <=> proc = "none"
       /\ k \in {"child", "family", "privileged"} <=> proc = "alive"
       /\ Becomes(r, [job[r] EXCEPT
            !.kind = k, !.proc = proc,
            !.timer = IF k = "nothing" THEN "off" ELSE "armed",
            !.pc = IF k = "nothing" THEN "record" ELSE "stream"])

OutputOpen(r) == job[r].proc = "alive" \/ job[r].held

\* The reading loop meets the end of file.
StreamEnds(r) ==
  /\ job[r].pc = "stream" /\ ~OutputOpen(r)
  /\ Becomes(r, [job[r] EXCEPT !.pc = "wait"])

\* It is left early: a line came after the cancel, the output limit is
\* reached, or the process closed its output itself.
StreamBreaks(r) ==
  /\ job[r].pc = "stream" /\ OutputOpen(r)
  /\ Becomes(r, [job[r] EXCEPT !.held = FALSE, !.pc = "wait"])

TimerOff(timer) == IF timer = "armed" THEN "off" ELSE timer

\* Mutant of WaitEnds: a process that does not end in time is left alone.
WaitGivesUp(r) ==
  /\ job[r].pc = "wait"
  /\ Becomes(r, [job[r] EXCEPT !.timer = TimerOff(@), !.pc = "judge"])

\* proc.wait returns, or gives up after 5s and kills; then timer.cancel.
WaitEnds(r) ==
  /\ job[r].pc = "wait"
  /\ \E j \in Killed(r) :
       Becomes(r, [j EXCEPT !.timer = TimerOff(@), !.pc = "judge"])

\* An exception after run_fn returned: no thread for the timer, no output to
\* read, a read that fails, a killed process that is not gone after another
\* 3s.  The timer is cancelled, the run recorded as "failed" and its slot
\* given back; nobody looks after the process, though it may still be running.
JobRaises(r) ==
  /\ job[r].pc \in {"stream", "wait"}
  /\ Becomes(r, [job[r] EXCEPT !.timer = TimerOff(@), !.held = FALSE, !.raised = TRUE,
                               !.pc = "record"])

\* Mutant of Verdict: the exit code is not looked at.
VerdictBlind(r) ==
  IF job[r].expired THEN "timeout"
  ELSE IF job[r].cancelled THEN "cancelled" ELSE "done"

Verdict(r) ==
  IF job[r].expired THEN "timeout"
  ELSE IF job[r].cancelled THEN "cancelled"
  ELSE IF job[r].proc = "ok" THEN "done" ELSE "failed"

\* Mutant of Judge: the slot is given back before the outcome is recorded.
JudgeReleases(r) ==
  /\ job[r].pc = "judge"
  /\ job' = [job EXCEPT ![r].verdict = Verdict(r), ![r].pc = "record"]
  /\ active' = active \ {r}
  /\ UNCHANGED <<rows, control>>

\* The outcome; what run_fn returned for a cancelled job is killed here once
\* more, though it was waited for, or refused.
Judge(r) ==
  /\ job[r].pc = "judge"
  /\ job' = [job EXCEPT ![r].verdict = Verdict(r), ![r].pc = "record"]
  /\ server' = IF Verdict(r) = "cancelled" /\ HitsServer(r) /\ server = "up"
               THEN "hit by a job" ELSE server
  /\ UNCHANGED <<active, rows, flagging, killing, orphaned>>

\* update_job_run, which may fail and then only logs.
Record(r) ==
  /\ job[r].pc = "record"
  /\ \/ row' = [row EXCEPT ![r] = job[r].verdict] /\ UNCHANGED unwritten
     \/ unwritten' = unwritten \union {r} /\ UNCHANGED row
  /\ Goes(r, "release")
  /\ UNCHANGED <<active, control>>

ReleaseSlot(r) ==
  /\ job[r].pc = "release"
  /\ active' = active \ {r}
  /\ Goes(r, "callback")
  /\ UNCHANGED <<rows, control>>

\* on_complete: a job it submits next is a Submit like any other.
Callback(r) ==
  job[r].pc = "callback" /\ Becomes(r, [job[r] EXCEPT !.pc = "over"])

(***************************************************************************)
(* The watchdog, and the process itself                                    *)
(***************************************************************************)
\* Mutant of TimerFires: the timer only notes that it is late.
TimerNotes(r) ==
  /\ job[r].timer = "armed" /\ job[r].kind # "reply"
  /\ Becomes(r, [job[r] EXCEPT !.timer = "off", !.expired = TRUE])

\* JOB_TIMEOUT has passed, perhaps just as the process ended.  Reading a
\* reply takes no time.
TimerFires(r) ==
  /\ job[r].timer = "armed" /\ job[r].kind # "reply"
  /\ Becomes(r, [job[r] EXCEPT !.timer = "killing", !.expired = TRUE])

\* A group whose leader is gone is still killed, unless a poll or a wait has
\* reaped the leader.
TimerKills(r) ==
  /\ job[r].timer = "killing"
  /\ \E j \in Killed(r) : \E held \in {j.held, FALSE} :
       Becomes(r, [j EXCEPT !.timer = "off", !.held = held])

ProcessExits(r) ==
  /\ job[r].proc = "alive"
  /\ \E code \in Exit, held \in MayHold(r) : Becomes(r, Ended(job[r], code, held))

\* The last descendant ends.
OutputCloses(r) == job[r].held /\ Becomes(r, [job[r] EXCEPT !.held = FALSE])

(***************************************************************************)
(* Cancelling: a thread flags a run, then kills the process it saw when it *)
(* did; a process that run_fn had not returned yet is not killed.          *)
(***************************************************************************)
Idle(t) == flagging[t] = {} /\ killing[t] = {}

Flag(t, r) ==
  /\ job' = [job EXCEPT ![r].cancelled = TRUE]
  /\ killing' = [killing EXCEPT ![t] = IF job[r].proc = "none" THEN {} ELSE {r}]

\* cancel, under the lock, of a run that holds a slot.
Cancel(c, r) ==
  /\ Idle(c) /\ r \in active
  /\ Flag(c, r)
  /\ UNCHANGED <<active, rows, flagging, server, orphaned>>

\* cancel_group, under the lock: the group is only collected.
CancelGroup(c) ==
  /\ Idle(c)
  /\ \E group \in SUBSET active : flagging' = [flagging EXCEPT ![c] = group]
  /\ UNCHANGED <<active, rows, job, killing, server, orphaned>>

\* shutdown, under the lock: the runs that hold a slot now will be cancelled.
Shutdown ==
  /\ server \in {"asked to stop", "hit by a job"}
  /\ server' = "stopping"
  /\ flagging' = [flagging EXCEPT ![Stopper] = active]
  /\ UNCHANGED <<active, rows, job, killing, orphaned>>

\* The next run of a group, or of a shutdown, whose cancel looks again
\* whether the run still holds its slot.
FlagNext(t, r) ==
  /\ r \in flagging[t] /\ killing[t] = {}
  /\ IF t = Stopper /\ r \notin active THEN UNCHANGED <<job, killing>>
     ELSE Flag(t, r)
  /\ flagging' = [flagging EXCEPT ![t] = @ \ {r}]
  /\ UNCHANGED <<active, rows, server, orphaned>>

\* What is polled as finished, a reply included, is not killed here.
KillNext(t, r) ==
  /\ r \in killing[t]
  /\ \E j \in Killed(r) : job' = [job EXCEPT ![r] = j]
  /\ killing' = [killing EXCEPT ![t] = {}]
  /\ UNCHANGED <<active, rows, flagging, server, orphaned>>

(***************************************************************************)
(* Stopping and starting the server                                        *)
(***************************************************************************)
OperatorStops ==
  /\ server = "up"
  /\ server' = "asked to stop"
  /\ UNCHANGED <<active, rows, job, flagging, killing, orphaned>>

\* Mutant of MarkStale: whatever is not done has failed.
MarkNotDone ==
  /\ row' = [r \in Run |-> IF row[r] \in {"none", "done"} THEN row[r] ELSE "failed"]
  /\ UNCHANGED unwritten

\* mark_stale_jobs, which may fail and then only logs.
MarkStale ==
  LET stale == {r \in Run : row[r] = "running"} IN
  \/ /\ row' = [r \in Run |-> IF r \in stale THEN "failed" ELSE row[r]]
     /\ UNCHANGED unwritten
  \/ unwritten' = unwritten \union stale /\ UNCHANGED row

Abandoned(j) ==
  IF j.pc = "free" THEN j ELSE [j EXCEPT !.held = FALSE, !.pc = "over", !.timer = "off"]

\* The server crashed, or its shutdown is through with the joins: the
\* threads are gone, and a new server has marked the runs they left.  The
\* processes have sessions of their own and live on.
Restart ==
  /\ active' = {} /\ server' = "up"
  /\ flagging' = [t \in Thread |-> {}] /\ killing' = [t \in Thread |-> {}]
  /\ orphaned' = orphaned \union {r \in Run : job[r].pc \notin {"free", "over"}}
  /\ job' = [r \in Run |-> Abandoned(job[r])]
  /\ MarkStale

(***************************************************************************)
(* Specification                                                           *)
(***************************************************************************)
JobStep(r) ==
  \/ Start(r) \/ Build(r) \/ StreamEnds(r) \/ StreamBreaks(r) \/ WaitEnds(r)
  \/ JobRaises(r) \/ Judge(r) \/ Record(r) \/ ReleaseSlot(r) \/ Callback(r)

ProcessStep(r) ==
  TimerFires(r) \/ TimerKills(r) \/ ProcessExits(r) \/ OutputCloses(r)

Next ==
  \/ \E r \in Run : Submit(r) \/ JobStep(r) \/ ProcessStep(r)
  \/ \E c \in Caller : CancelGroup(c) \/ \E r \in Run : Cancel(c, r)
  \/ \E t \in Thread, r \in Run : FlagNext(t, r) \/ KillNext(t, r)
  \/ OperatorStops \/ Shutdown \/ Restart

Spec == Init /\ [][Next]_vars

\* The threads of a job are scheduled and its run_fn returns; nothing says
\* that its process ever ends or closes its output by itself.
Fairness ==
  \A r \in Run :
    /\ WF_vars(Build(r)) /\ WF_vars(StreamEnds(r)) /\ WF_vars(WaitEnds(r))
    /\ WF_vars(Judge(r)) /\ WF_vars(Record(r)) /\ WF_vars(ReleaseSlot(r))
    /\ WF_vars(TimerFires(r)) /\ WF_vars(TimerKills(r))

FairSpec == Spec /\ Fairness

(***************************************************************************)
(* Properties                                                              *)
(***************************************************************************)
\* The processes of this server that somebody looks after: not those which
\* signals cannot reach, nor those whose thread an exception ended.
Running ==
  {r \in Run : /\ job[r].proc = "alive" /\ job[r].kind # "privileged"
               /\ r \notin orphaned /\ ~job[r].raised}

\* max_concurrent bounds the processes and not only the entries of _active:
\* a slot is given back after the process it was taken for has ended,
\* whatever the reading loop, the timer and the cancelling threads do.  Not
\* so after an exception in _run: that frees the slot of a live process.
WorkIsBounded ==
  /\ Running \subseteq active
  /\ Cardinality(active) <= MaxJobs

\* job_runs never shows a run as running that has no slot any more, and so
\* no thread that will settle it, unless the database refused to be told.
RunningRowIsAttended ==
  \A r \in Run : row[r] = "running" => r \in active \union unwritten

\* A recorded outcome is what happened: "done" is a process that exited
\* with 0, "cancelled" was asked for, "timeout" did run out.  No process that
\* signals reach outlives its record, short of a restart and of an exception
\* in _run; a run that an exception ended is never recorded but as "failed",
\* also when its time was up or somebody had cancelled it.
OutcomeIsTrue ==
  \A r \in Run :
    /\ row[r] = "done" => job[r].proc = "ok"
    /\ row[r] = "cancelled" => job[r].cancelled
    /\ row[r] = "timeout" => job[r].expired
    /\ row[r] \in Settled => r \notin Running
    /\ job[r].raised => row[r] \in {"running", "failed"}

\* An outcome is recorded once: no late timer, cancel or restart changes it.
OutcomeIsFinal ==
  [][\A r \in Run : row[r] \in Settled => row'[r] = row[r]]_vars

\* What becomes of the work of a run, whether anything can stop it, and
\* whether the runner has let go of it.
WorkOf(r) ==
  IF job[r].proc # "alive" THEN job[r].proc
  ELSE IF job[r].raised THEN "dropped"
  ELSE IF r \in Running THEN "alive" ELSE "beyond"

Contract == INSTANCE JobContract
  WITH Job <- Run, Limit <- MaxJobs, slots <- active, record <- row, lost <- unwritten,
       asked <- {r \in Run : job[r].cancelled}, late <- {r \in Run : job[r].expired},
       work <- [r \in Run |-> WorkOf(r)]

\* Timers, cancelling threads, failing updates, exceptions, shutdowns and
\* crashes show whoever submits jobs nothing that JobContract does not allow:
\* a record is written once, by evidence, and after the work unless the run
\* failed with the work dropped, and the slot follows it.
KeepsContract == Contract!Spec

\* A job whose thread was started gives its slot back, although its process
\* may never end, may stay silent, or may be cancelled before it is known.
\* Not so one that signals do not reach, or whose output is held open.
JobEnds ==
  \A r \in Run :
    job[r].pc = "build" ~>
      (r \notin active \/ job[r].kind \in {"privileged", "family"})

\* What submit and the comment on the timer say: a job that exceeds
\* JOB_TIMEOUT is killed, though the reading loop may be blocked.
TimeoutIsEnforced ==
  \A r \in Run :
    job[r].expired /\ job[r].timer = "off" /\ r \notin orphaned
      => ~OutputOpen(r)

\* What _HttpResult ("Popen-compatible") and _kill_process ("a process
\* group") promise: cancelling a job stops that job, not the server.
CancelStopsTheJobOnly == server # "hit by a job"
=============================================================================
