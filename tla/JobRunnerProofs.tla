--------------------------- MODULE JobRunnerProofs ---------------------------
(***************************************************************************)
(* Theorems about JobRunner, for every finite set of runs, every size of   *)
(* the pool, every set of cancelling threads and every kind of process.    *)
(***************************************************************************)
EXTENDS JobRunner, FiniteSetTheorems, TLAPS

\* Where a job's thread is while the job holds a slot.
Busy == {"registered", "unstarted", "build", "stream", "wait", "judge", "record", "release"}

\* The slot of a run is held exactly as long as its thread is busy.
Slots == \A r \in Run : r \in active <=> job[r].pc \in Busy

\* The process of a run in state j: only what run_fn returned runs, and what
\* signals reach runs only while the thread reads or waits.
Process(r, j) ==
  /\ j.kind = "nothing" <=> j.proc = "none"
  /\ j.proc = "alive" => j.kind \in {"child", "family", "privileged"}
  /\ j.pc \in {"free", "registered", "unstarted", "build"} => j.proc = "none"
  /\ j.proc = "alive" /\ j.kind # "privileged"
       => j.pc \in {"stream", "wait"} \/ r \in orphaned \/ j.raised

\* The verdict of a run is about what happened to it, and "failed" until it is
\* judged, which it is not after an exception.
Judged(j) ==
  /\ j.pc \in {"free", "registered", "unstarted", "build", "stream", "wait", "judge"}
       => j.verdict = "failed" /\ ~j.raised
  /\ j.raised => j.verdict = "failed"
  /\ j.verdict = "done" => j.proc = "ok"
  /\ j.verdict = "cancelled" => j.cancelled
  /\ j.verdict = "timeout" => j.expired

\* The row of a run follows its thread.
Row(r, j) ==
  /\ j.pc = "free" => row[r] = "none"
  /\ j.pc \in Busy \ {"release"} => row[r] = "running"
  /\ j.pc \in {"release", "callback", "over"} =>
       row[r] \in {j.verdict, "failed"} \/ (row[r] = "running" /\ r \in unwritten)

Good(r, j) == Process(r, j) /\ Judged(j) /\ Row(r, j)

\* The inductive invariant.
Inv == TypeOK /\ Slots /\ (\A r \in Run : Good(r, job[r])) /\ Cardinality(active) <= MaxJobs

\* It holds before anything was submitted.
LEMMA InitInv == Init => Inv
<1> SUFFICES ASSUME Init PROVE Inv
  OBVIOUS
<1>1. TypeOK
  BY DEF Init, TypeOK, NewJob, JobState, JobPc, AllKind, Exit, Settled
<1>2. Slots /\ \A r \in Run : Good(r, job[r])
  BY DEF Init, Slots, Good, Process, Judged, Row, NewJob, Busy
<1>3. Cardinality(active) <= MaxJobs
  BY FS_EmptySet, RunnerAssumption DEF Init
<1> QED BY <1>1, <1>2, <1>3 DEF Inv

\* What two states of a job have in common when only its process differs.
SameButProcess(j, k) ==
  /\ j.pc = k.pc /\ j.kind = k.kind /\ j.cancelled = k.cancelled /\ j.timer = k.timer
  /\ j.expired = k.expired /\ j.verdict = k.verdict /\ j.raised = k.raised

\* A process that ends leaves the rest of its job as it was.
LEMMA EndedState ==
  ASSUME NEW j \in JobState, NEW code \in Exit, NEW held \in BOOLEAN
  PROVE  /\ Ended(j, code, held) \in JobState
         /\ SameButProcess(Ended(j, code, held), j)
         /\ Ended(j, code, held).proc = code
<1> DEFINE e == [j EXCEPT !.proc = code]
           f == [e EXCEPT !.held = held]
<1>1. e \in JobState /\ SameButProcess(e, j) /\ e.proc = code
  BY DEF JobState, SameButProcess
<1>2. f = Ended(j, code, held)
  BY DEF JobState, Ended
<1> HIDE DEF e
<1>3. f \in JobState /\ SameButProcess(f, j) /\ f.proc = code
  BY <1>1 DEF JobState, SameButProcess
<1> QED BY <1>2, <1>3

\* Killing changes the process of a run only, and only one that runs and that
\* signals reach.
LEMMA KilledState ==
  ASSUME Inv, NEW r \in Run, NEW j \in Killed(r)
  PROVE  /\ j \in JobState
         /\ SameButProcess(j, job[r])
         /\ j.proc # job[r].proc => job[r].proc = "alive" /\ j.proc \in Exit
         /\ j.proc = "alive" => job[r].kind \notin {"child", "family"}
<1>1. job[r] \in JobState
  BY DEF Inv, TypeOK
<1>2. CASE job[r].proc = "alive" /\ job[r].kind \in {"child", "family"}
  <2>1. PICK code \in Exit, held \in MayHold(r) : j = Ended(job[r], code, held)
    BY <1>2 DEF Killed
  <2>2. held \in BOOLEAN
    BY <2>1 DEF MayHold
  <2>3. j \in JobState /\ SameButProcess(j, job[r]) /\ j.proc = code
    BY <1>1, <2>1, <2>2, EndedState
  <2> QED BY <1>2, <2>1, <2>3 DEF Exit
<1>3. CASE ~(job[r].proc = "alive" /\ job[r].kind \in {"child", "family"})
  BY <1>1, <1>3 DEF Killed, SameButProcess
<1> QED BY <1>2, <1>3

\* A step that changes one run's thread, entry and process only keeps the
\* invariant, if it keeps what that says of the run.
LEMMA BecomesInv ==
  ASSUME Inv, NEW r \in Run, NEW j \in JobState, Becomes(r, j),
         j.pc \in Busy <=> job[r].pc \in Busy, Good(r, j)
  PROVE  Inv'
<1>1. job' = [job EXCEPT ![r] = j]
  BY DEF Becomes
<1>2. UNCHANGED <<active, row, unwritten, flagging, killing, server, orphaned>>
  BY DEF Becomes, rows, control
<1>3. TypeOK'
  BY <1>1, <1>2 DEF Inv, TypeOK
<1>4. Slots'
  BY <1>1, <1>2 DEF Inv, Slots, TypeOK
<1>5. ASSUME NEW q \in Run PROVE Good(q, job[q])'
  <2>1. Good(q, job'[q])
    BY <1>1 DEF Inv, TypeOK
  <2> QED BY <1>2, <2>1 DEF Good, Process, Judged, Row
<1>6. Cardinality(active)' <= MaxJobs
  BY <1>2 DEF Inv
<1> QED BY <1>3, <1>4, <1>5, <1>6 DEF Inv

\* A step of a job's thread that leaves rows and slots alone keeps the invariant.
LEMMA ThreadInv ==
  ASSUME Inv, NEW r \in Run,
         \/ Start(r) \/ Build(r) \/ StreamEnds(r) \/ StreamBreaks(r) \/ WaitEnds(r)
         \/ JobRaises(r) \/ Callback(r)
  PROVE  Inv'
<1>1. job[r] \in JobState /\ Good(r, job[r])
  BY DEF Inv, TypeOK
<1> USE DEF Good, Process, Judged, Row, Busy
<1>2. CASE Start(r)
  <2>1. PICK pc \in {"build", "unstarted"} : Becomes(r, [job[r] EXCEPT !.pc = pc])
    BY <1>2 DEF Start
  <2>2. [job[r] EXCEPT !.pc = pc] \in JobState
    BY <1>1 DEF JobState, JobPc
  <2>3. Good(r, [job[r] EXCEPT !.pc = pc])
    BY <1>1, <1>2 DEF Start, JobState
  <2> QED BY <1>1, <1>2, <2>1, <2>2, <2>3, BecomesInv DEF JobState, Start
<1>3. CASE Build(r)
  <2>1. PICK k \in Kind, proc \in Exit \union {"none", "alive"} :
          /\ k = "nothing" <=> proc = "none"
          /\ k \in {"child", "family", "privileged"} <=> proc = "alive"
          /\ Becomes(r, [job[r] EXCEPT
               !.kind = k, !.proc = proc,
               !.timer = IF k = "nothing" THEN "off" ELSE "armed",
               !.pc = IF k = "nothing" THEN "record" ELSE "stream"])
    BY <1>3 DEF Build
  <2> DEFINE a == [job[r] EXCEPT !.kind = k]
             b == [a EXCEPT !.proc = proc]
             c == [b EXCEPT !.timer = IF k = "nothing" THEN "off" ELSE "armed"]
             d == [c EXCEPT !.pc = IF k = "nothing" THEN "record" ELSE "stream"]
  <2>2. d = [job[r] EXCEPT !.kind = k, !.proc = proc,
                           !.timer = IF k = "nothing" THEN "off" ELSE "armed",
                           !.pc = IF k = "nothing" THEN "record" ELSE "stream"]
    BY <1>1 DEF JobState
  <2>3. a \in JobState /\ a.kind = k /\ (a.verdict = job[r].verdict /\ a.raised = job[r].raised /\ a.cancelled = job[r].cancelled /\ a.expired = job[r].expired)
    BY <1>1, RunnerAssumption DEF JobState
  <2> HIDE DEF a
  <2>4. b \in JobState /\ b.kind = k /\ b.proc = proc /\ (b.verdict = a.verdict /\ b.raised = a.raised /\ b.cancelled = a.cancelled /\ b.expired = a.expired)
    BY <2>3 DEF JobState
  <2> HIDE DEF b
  <2>5. c \in JobState /\ c.kind = k /\ c.proc = proc /\ (c.verdict = b.verdict /\ c.raised = b.raised /\ c.cancelled = b.cancelled /\ c.expired = b.expired)
    BY <2>4 DEF JobState
  <2> HIDE DEF c
  <2>6. d \in JobState /\ d.kind = k /\ d.proc = proc /\ (d.verdict = c.verdict /\ d.raised = c.raised /\ d.cancelled = c.cancelled /\ d.expired = c.expired)
        /\ d.pc = IF k = "nothing" THEN "record" ELSE "stream"
    BY <2>5 DEF JobState, JobPc
  <2> HIDE DEF d
  <2>7. job[r].pc = "build" /\ job[r].proc = "none" /\ row[r] = "running"
    BY <1>1, <1>3 DEF Build
  <2>8. d.verdict = job[r].verdict /\ d.raised = job[r].raised /\ d.cancelled = job[r].cancelled /\ d.expired = job[r].expired
    BY <2>3, <2>4, <2>5, <2>6
  <2>9. Good(r, d)
    BY <1>1, <2>1, <2>6, <2>7, <2>8
  <2>10. d.pc \in Busy <=> job[r].pc \in Busy
    BY <2>6, <2>7
  <2>11. Becomes(r, d)
    BY <2>1, <2>2
  <2> QED BY <2>6, <2>9, <2>10, <2>11, BecomesInv
<1>4. CASE StreamEnds(r)
  <2>1. [job[r] EXCEPT !.pc = "wait"] \in JobState
    BY <1>1 DEF JobState, JobPc
  <2>2. Good(r, [job[r] EXCEPT !.pc = "wait"])
    BY <1>1, <1>4 DEF StreamEnds, JobState
  <2> QED BY <1>1, <1>4, <2>1, <2>2, BecomesInv DEF JobState, StreamEnds
<1>8. CASE StreamBreaks(r)
  <2> DEFINE a == [job[r] EXCEPT !.held = FALSE]
             b == [a EXCEPT !.pc = "wait"]
  <2>1. b = [job[r] EXCEPT !.held = FALSE, !.pc = "wait"]
    BY <1>1 DEF JobState
  <2>2. a \in JobState /\ a.kind = job[r].kind /\ a.proc = job[r].proc /\ a.cancelled = job[r].cancelled
        /\ a.expired = job[r].expired /\ a.verdict = job[r].verdict /\ a.raised = job[r].raised
    BY <1>1 DEF JobState
  <2> HIDE DEF a
  <2>3. b \in JobState /\ b.kind = a.kind /\ b.proc = a.proc /\ b.cancelled = a.cancelled
        /\ b.expired = a.expired /\ b.verdict = a.verdict /\ b.raised = a.raised /\ b.pc = "wait"
    BY <2>2 DEF JobState, JobPc
  <2> HIDE DEF b
  <2>4. job[r].pc = "stream" /\ Becomes(r, b)
    BY <1>8, <2>1 DEF StreamBreaks
  <2>5. Good(r, b)
    BY <1>1, <2>2, <2>3, <2>4
  <2> QED BY <2>3, <2>4, <2>5, BecomesInv
<1>5. CASE WaitEnds(r)
  <2>1. PICK j \in Killed(r) : Becomes(r, [j EXCEPT !.timer = TimerOff(@), !.pc = "judge"])
    BY <1>5 DEF WaitEnds
  <2>2. /\ j \in JobState /\ SameButProcess(j, job[r])
        /\ j.proc # job[r].proc => job[r].proc = "alive" /\ j.proc \in Exit
        /\ j.proc = "alive" => job[r].kind \notin {"child", "family"}
    BY KilledState
  <2> DEFINE a == [j EXCEPT !.timer = TimerOff(@)]
             b == [a EXCEPT !.pc = "judge"]
  <2>3. b = [j EXCEPT !.timer = TimerOff(@), !.pc = "judge"]
    BY <2>2 DEF JobState
  <2>4. a \in JobState /\ a.kind = j.kind /\ a.proc = j.proc /\ a.cancelled = j.cancelled
        /\ a.expired = j.expired /\ a.verdict = j.verdict /\ a.raised = j.raised
    BY <2>2 DEF JobState, TimerOff
  <2> HIDE DEF a
  <2>5. b \in JobState /\ b.kind = a.kind /\ b.proc = a.proc /\ b.cancelled = a.cancelled
        /\ b.expired = a.expired /\ b.verdict = a.verdict /\ b.raised = a.raised /\ b.pc = "judge"
    BY <2>4 DEF JobState, JobPc
  <2> HIDE DEF b
  <2>6. Good(r, b)
    <3>1. /\ job[r].pc = "wait" /\ b.pc = "judge" /\ b.kind = job[r].kind /\ b.proc = j.proc
          /\ b.cancelled = job[r].cancelled /\ b.expired = job[r].expired /\ b.verdict = job[r].verdict /\ b.raised = job[r].raised
      BY <1>5, <2>2, <2>4, <2>5 DEF WaitEnds, SameButProcess
    <3> QED BY <1>1, <2>2, <3>1 DEF Exit
  <2> QED BY <1>5, <2>1, <2>3, <2>5, <2>6, BecomesInv DEF WaitEnds
<1>6. CASE Callback(r)
  <2>1. [job[r] EXCEPT !.pc = "over"] \in JobState
    BY <1>1 DEF JobState, JobPc
  <2>2. Good(r, [job[r] EXCEPT !.pc = "over"])
    BY <1>1, <1>6 DEF Callback, JobState
  <2> QED BY <1>1, <1>6, <2>1, <2>2, BecomesInv DEF JobState, Callback
<1>7. CASE JobRaises(r)
  <2> DEFINE t == [job[r] EXCEPT !.timer = TimerOff(@)]
             a == [t EXCEPT !.held = FALSE]
             b == [a EXCEPT !.raised = TRUE]
             c == [b EXCEPT !.pc = "record"]
  <2>1. c = [job[r] EXCEPT !.timer = TimerOff(@), !.held = FALSE, !.raised = TRUE, !.pc = "record"]
    BY <1>1 DEF JobState
  <2>2. a \in JobState /\ a.kind = job[r].kind /\ a.proc = job[r].proc /\ a.cancelled = job[r].cancelled
        /\ a.expired = job[r].expired /\ a.verdict = job[r].verdict
    BY <1>1 DEF JobState, TimerOff
  <2> HIDE DEF a
  <2>3. b \in JobState /\ b.kind = a.kind /\ b.proc = a.proc /\ b.cancelled = a.cancelled
        /\ b.expired = a.expired /\ b.verdict = a.verdict /\ b.raised
    BY <2>2 DEF JobState
  <2> HIDE DEF b
  <2>4. c \in JobState /\ c.kind = b.kind /\ c.proc = b.proc /\ c.cancelled = b.cancelled
        /\ c.expired = b.expired /\ c.verdict = b.verdict /\ c.raised /\ c.pc = "record"
    BY <2>3 DEF JobState, JobPc
  <2> HIDE DEF c
  <2>5. job[r].pc \in {"stream", "wait"} /\ Becomes(r, c)
    BY <1>7, <2>1 DEF JobRaises
  <2>6. Good(r, c)
    BY <1>1, <2>2, <2>3, <2>4, <2>5
  <2> QED BY <2>4, <2>5, <2>6, BecomesInv
<1> QED BY <1>2, <1>3, <1>4, <1>5, <1>6, <1>7, <1>8

\* Taking a slot keeps the invariant: there was room for it.
LEMMA SubmitInv ==
  ASSUME Inv, NEW r \in Run, Submit(r)
  PROVE  Inv'
<1> DEFINE j == [job[r] EXCEPT !.pc = "registered"]
<1>1. job[r] \in JobState /\ Good(r, job[r]) /\ job[r].pc = "free"
  BY DEF Inv, TypeOK, Submit
<1>2. job' = [job EXCEPT ![r] = j]
  BY DEF Submit, Goes
<1>3. j \in JobState /\ j.pc = "registered" /\ j.proc = job[r].proc /\ j.kind = job[r].kind
      /\ Judged(j)
  BY <1>1 DEF JobState, JobPc, Good, Judged
<1> HIDE DEF j
<1>4. /\ active' = active \union {r} /\ row' = [row EXCEPT ![r] = "running"]
      /\ UNCHANGED <<unwritten, flagging, killing, server, orphaned>>
  BY DEF Submit, control
<1>5. TypeOK'
  BY <1>2, <1>3, <1>4 DEF Inv, TypeOK
<1>6. Slots'
  BY <1>2, <1>3, <1>4 DEF Inv, Slots, TypeOK, Busy
<1>7. ASSUME NEW q \in Run PROVE Good(q, job[q])'
  <2>1. CASE q = r
    <3>1. job'[q] = j /\ row'[q] = "running"
      BY <1>2, <1>4, <2>1 DEF Inv, TypeOK
    <3> QED BY <1>1, <1>3, <1>4, <2>1, <3>1 DEF Good, Judged, Process, Row, Busy
  <2>2. CASE q # r
    <3>1. job'[q] = job[q] /\ row'[q] = row[q]
      BY <1>2, <1>4, <2>2 DEF Inv, TypeOK
    <3> QED BY <1>4, <3>1 DEF Inv, Good, Process, Judged, Row
  <2> QED BY <2>1, <2>2
<1>8. Cardinality(active)' <= MaxJobs
  <2>1. IsFiniteSet(active)
    BY FS_Subset, RunnerAssumption DEF Inv, TypeOK
  <2>2. r \notin active
    BY <1>1 DEF Inv, Slots, Busy
  <2>3. Cardinality(active \union {r}) = Cardinality(active) + 1 /\ Cardinality(active) \in Nat
    BY <2>1, <2>2, FS_AddElement, FS_CardinalityType
  <2> QED BY <1>4, <2>3, RunnerAssumption DEF Submit
<1> QED BY <1>5, <1>6, <1>7, <1>8 DEF Inv

\* Judging a run keeps the invariant: the verdict is about what happened.
LEMMA JudgeInv ==
  ASSUME Inv, NEW r \in Run, Judge(r)
  PROVE  Inv'
<1> DEFINE a == [job[r] EXCEPT !.verdict = Verdict(r)]
           b == [a EXCEPT !.pc = "record"]
<1>1. job[r] \in JobState /\ Good(r, job[r]) /\ job[r].pc = "judge"
  BY DEF Inv, TypeOK, Judge
<1>2. job' = [job EXCEPT ![r] = b]
  BY DEF Judge, Inv, TypeOK
<1>3. Verdict(r) \in Settled
  BY DEF Verdict, Settled
<1>4. a \in JobState /\ a.pc = "judge" /\ a.kind = job[r].kind /\ a.proc = job[r].proc
      /\ a.cancelled = job[r].cancelled /\ a.expired = job[r].expired /\ a.raised = job[r].raised /\ a.verdict = Verdict(r)
  BY <1>1, <1>3 DEF JobState
<1> HIDE DEF a
<1>5. b \in JobState /\ b.pc = "record" /\ b.kind = a.kind /\ b.proc = a.proc
      /\ b.cancelled = a.cancelled /\ b.expired = a.expired /\ b.verdict = a.verdict /\ b.raised = a.raised
  BY <1>4 DEF JobState, JobPc
<1> HIDE DEF b
<1>6. Good(r, b)
  BY <1>1, <1>4, <1>5 DEF Good, Process, Judged, Row, Busy, Verdict
<1>7. UNCHANGED <<active, row, unwritten, flagging, killing, orphaned>>
  BY DEF Judge, rows
<1>8. TypeOK'
  BY <1>2, <1>5, <1>7 DEF Inv, TypeOK, Judge
<1>9. Slots'
  BY <1>1, <1>2, <1>5, <1>7 DEF Inv, Slots, TypeOK, Busy
<1>10. ASSUME NEW q \in Run PROVE Good(q, job[q])'
  <2>1. Good(q, job'[q])
    BY <1>2, <1>6 DEF Inv, TypeOK
  <2> QED BY <1>7, <2>1 DEF Good, Process, Judged, Row
<1> QED BY <1>7, <1>8, <1>9, <1>10 DEF Inv

\* Recording the verdict, or failing to, keeps the invariant.
LEMMA RecordInv ==
  ASSUME Inv, NEW r \in Run, Record(r)
  PROVE  Inv'
<1> DEFINE j == [job[r] EXCEPT !.pc = "release"]
<1>1. job[r] \in JobState /\ Good(r, job[r]) /\ job[r].pc = "record"
  BY DEF Inv, TypeOK, Record
<1>2. job' = [job EXCEPT ![r] = j]
  BY DEF Record, Goes
<1>3. j \in JobState /\ j.pc = "release" /\ j.proc = job[r].proc /\ j.kind = job[r].kind
      /\ Judged(j) /\ j.verdict = job[r].verdict /\ j.raised = job[r].raised
  BY <1>1 DEF JobState, JobPc, Good, Judged
<1> HIDE DEF j
<1>4. /\ \/ row' = [row EXCEPT ![r] = job[r].verdict] /\ unwritten' = unwritten
         \/ unwritten' = unwritten \union {r} /\ row' = row
      /\ UNCHANGED <<active, flagging, killing, server, orphaned>>
  BY DEF Record, control
<1>5. job[r].verdict \in Settled /\ row[r] = "running"
  BY <1>1 DEF JobState, Good, Row, Busy
<1>6. TypeOK'
  BY <1>2, <1>3, <1>4, <1>5 DEF Inv, TypeOK
<1>7. Slots'
  BY <1>1, <1>2, <1>3, <1>4 DEF Inv, Slots, TypeOK, Busy
<1>8. ASSUME NEW q \in Run PROVE Good(q, job[q])'
  <2>1. CASE q = r
    <3>1. job'[q] = j /\ (row'[q] = j.verdict \/ (row'[q] = "running" /\ q \in unwritten'))
      BY <1>2, <1>3, <1>4, <1>5, <2>1 DEF Inv, TypeOK
    <3> QED BY <1>1, <1>3, <1>4, <2>1, <3>1 DEF Good, Judged, Process, Row, Busy
  <2>2. CASE q # r
    <3>1. job'[q] = job[q] /\ row'[q] = row[q] /\ (q \in unwritten' <=> q \in unwritten)
      BY <1>2, <1>4, <2>2 DEF Inv, TypeOK
    <3> QED BY <1>4, <3>1 DEF Inv, Good, Process, Judged, Row
  <2> QED BY <2>1, <2>2
<1> QED BY <1>4, <1>6, <1>7, <1>8 DEF Inv

\* Giving the slot back keeps the invariant.
LEMMA ReleaseInv ==
  ASSUME Inv, NEW r \in Run, ReleaseSlot(r)
  PROVE  Inv'
<1> DEFINE j == [job[r] EXCEPT !.pc = "callback"]
<1>1. job[r] \in JobState /\ Good(r, job[r]) /\ job[r].pc = "release"
  BY DEF Inv, TypeOK, ReleaseSlot
<1>2. job' = [job EXCEPT ![r] = j]
  BY DEF ReleaseSlot, Goes
<1>3. j \in JobState /\ j.pc = "callback" /\ j.proc = job[r].proc /\ j.kind = job[r].kind
      /\ Judged(j) /\ j.verdict = job[r].verdict /\ j.raised = job[r].raised
  BY <1>1 DEF JobState, JobPc, Good, Judged
<1> HIDE DEF j
<1>4. /\ active' = active \ {r}
      /\ UNCHANGED <<row, unwritten, flagging, killing, server, orphaned>>
  BY DEF ReleaseSlot, control, rows
<1>5. TypeOK'
  BY <1>2, <1>3, <1>4 DEF Inv, TypeOK
<1>6. Slots'
  BY <1>2, <1>3, <1>4 DEF Inv, Slots, TypeOK, Busy
<1>7. ASSUME NEW q \in Run PROVE Good(q, job[q])'
  <2>1. Good(r, j)
    BY <1>1, <1>3 DEF Good, Process, Row, Busy
  <2>2. Good(q, job'[q])
    BY <1>2, <2>1 DEF Inv, TypeOK
  <2> QED BY <1>4, <2>2 DEF Good, Process, Judged, Row
<1>8. Cardinality(active)' <= MaxJobs
  <2>1. IsFiniteSet(active)
    BY FS_Subset, RunnerAssumption DEF Inv, TypeOK
  <2>2. Cardinality(active \ {r}) <= Cardinality(active) /\ Cardinality(active) \in Nat
        /\ Cardinality(active \ {r}) \in Nat
    BY <2>1, FS_Subset, FS_CardinalityType
  <2> QED BY <1>4, <2>2, RunnerAssumption DEF Inv
<1> QED BY <1>5, <1>6, <1>7, <1>8 DEF Inv

\* What a timer, or the process itself, does to a run keeps the invariant.
LEMMA ProcessInv ==
  ASSUME Inv, NEW r \in Run, ProcessStep(r)
  PROVE  Inv'
<1>1. job[r] \in JobState /\ Good(r, job[r])
  BY DEF Inv, TypeOK
<1>2. CASE TimerFires(r)
  <2> DEFINE a == [job[r] EXCEPT !.timer = "killing"]
             b == [a EXCEPT !.expired = TRUE]
  <2>1. b = [job[r] EXCEPT !.timer = "killing", !.expired = TRUE]
    BY <1>1 DEF JobState
  <2>2. a \in JobState /\ a.pc = job[r].pc /\ a.kind = job[r].kind /\ a.proc = job[r].proc
        /\ a.cancelled = job[r].cancelled /\ a.verdict = job[r].verdict /\ a.raised = job[r].raised
    BY <1>1 DEF JobState
  <2> HIDE DEF a
  <2>3. b \in JobState /\ b.pc = a.pc /\ b.kind = a.kind /\ b.proc = a.proc
        /\ b.cancelled = a.cancelled /\ b.verdict = a.verdict /\ b.raised = a.raised /\ b.expired = TRUE
    BY <2>2 DEF JobState
  <2> HIDE DEF b
  <2>4. Good(r, b)
    BY <1>1, <2>2, <2>3 DEF Good, Process, Judged, Row
  <2>5. Becomes(r, b)
    BY <1>2, <2>1 DEF TimerFires
  <2> QED BY <2>2, <2>3, <2>4, <2>5, BecomesInv
<1>3. CASE TimerKills(r)
  <2>1. PICK j \in Killed(r) : \E held \in {j.held, FALSE} :
               Becomes(r, [j EXCEPT !.timer = "off", !.held = held])
    BY <1>3 DEF TimerKills
  <2>2. PICK held \in {j.held, FALSE} : Becomes(r, [j EXCEPT !.timer = "off", !.held = held])
    BY <2>1
  <2>3. /\ j \in JobState /\ SameButProcess(j, job[r])
        /\ j.proc # job[r].proc => job[r].proc = "alive" /\ j.proc \in Exit
        /\ j.proc = "alive" => job[r].kind \notin {"child", "family"}
    BY KilledState
  <2> DEFINE a == [j EXCEPT !.timer = "off"]
             b == [a EXCEPT !.held = held]
  <2>4. b = [j EXCEPT !.timer = "off", !.held = held]
    BY <2>3 DEF JobState
  <2>5. a \in JobState /\ a.proc = j.proc /\ a.pc = j.pc /\ a.kind = j.kind
        /\ a.cancelled = j.cancelled /\ a.expired = j.expired /\ a.verdict = j.verdict /\ a.raised = j.raised
    BY <2>3 DEF JobState
  <2> HIDE DEF a
  <2>6. held \in BOOLEAN
    BY <2>2, <2>3 DEF JobState
  <2>7. b \in JobState /\ b.proc = a.proc /\ b.pc = a.pc /\ b.kind = a.kind
        /\ b.cancelled = a.cancelled /\ b.expired = a.expired /\ b.verdict = a.verdict /\ b.raised = a.raised
    BY <2>5, <2>6 DEF JobState
  <2> HIDE DEF b
  <2>8. Good(r, b)
    BY <1>1, <2>3, <2>5, <2>7 DEF Good, Process, Judged, Row, SameButProcess, Exit
  <2>9. Becomes(r, b)
    BY <2>2, <2>4
  <2> QED BY <2>3, <2>5, <2>7, <2>8, <2>9, BecomesInv DEF SameButProcess
<1>4. CASE ProcessExits(r)
  <2>1. PICK code \in Exit, held \in MayHold(r) : Becomes(r, Ended(job[r], code, held))
    BY <1>4 DEF ProcessExits
  <2>2. held \in BOOLEAN
    BY <2>1 DEF MayHold
  <2> DEFINE j == Ended(job[r], code, held)
  <2>3. j \in JobState /\ SameButProcess(j, job[r]) /\ j.proc = code
    BY <1>1, <2>1, <2>2, EndedState
  <2> HIDE DEF j
  <2>4. Good(r, j)
    BY <1>1, <1>4, <2>1, <2>3 DEF ProcessExits, Good, Process, Judged, Row, SameButProcess, Exit
  <2>5. Becomes(r, j)
    BY <2>1 DEF j
  <2> QED BY <2>3, <2>4, <2>5, BecomesInv DEF SameButProcess
<1>5. CASE OutputCloses(r)
  <2>1. [job[r] EXCEPT !.held = FALSE] \in JobState
    BY <1>1 DEF JobState
  <2>2. Good(r, [job[r] EXCEPT !.held = FALSE])
    BY <1>1 DEF Good, Process, Judged, Row, JobState
  <2> QED BY <1>1, <1>5, <2>1, <2>2, BecomesInv DEF JobState, OutputCloses
<1> QED BY <1>2, <1>3, <1>4, <1>5 DEF ProcessStep

\* A step of a thread that cancels keeps the invariant, if it keeps the state
\* of every run except for a flag, or for a process that it ends.
LEMMA CancellingInv ==
  ASSUME Inv, UNCHANGED <<active, row, unwritten, orphaned>>,
         job' \in [Run -> JobState],
         \A q \in Run : job'[q].pc = job[q].pc /\ Good(q, job'[q]),
         flagging' \in [Thread -> SUBSET Run], killing' \in [Thread -> SUBSET Run],
         server' \in {"up", "asked to stop", "hit by a job", "stopping"}
  PROVE  Inv'
<1>1. TypeOK'
  BY DEF Inv, TypeOK
<1>2. Slots'
  BY DEF Inv, Slots
<1>3. ASSUME NEW q \in Run PROVE Good(q, job[q])'
  <2>1. Good(q, job'[q])
    OBVIOUS
  <2> QED BY <2>1 DEF Good, Process, Judged, Row
<1> QED BY <1>1, <1>2, <1>3 DEF Inv

\* Flagging a run as cancelled keeps what the invariant says of the runs.
LEMMA FlagGood ==
  ASSUME Inv, NEW t \in Thread, NEW r \in Run, Flag(t, r)
  PROVE  /\ job' \in [Run -> JobState]
         /\ \A q \in Run : job'[q].pc = job[q].pc /\ Good(q, job'[q])
         /\ killing' \in [Thread -> SUBSET Run]
<1> DEFINE j == [job[r] EXCEPT !.cancelled = TRUE]
<1>1. job[r] \in JobState /\ Good(r, job[r])
  BY DEF Inv, TypeOK
<1>2. job' = [job EXCEPT ![r] = j]
  BY DEF Flag
<1>3. j \in JobState /\ j.pc = job[r].pc /\ j.kind = job[r].kind /\ j.proc = job[r].proc
      /\ j.cancelled = TRUE /\ j.expired = job[r].expired /\ j.verdict = job[r].verdict /\ j.raised = job[r].raised
  BY <1>1 DEF JobState
<1> HIDE DEF j
<1>4. Good(r, j)
  BY <1>1, <1>3 DEF Good, Process, Judged, Row
<1>5. \A q \in Run : job'[q].pc = job[q].pc /\ Good(q, job'[q])
  BY <1>2, <1>3, <1>4 DEF Inv, TypeOK
<1>6. killing' \in [Thread -> SUBSET Run]
  BY DEF Flag, Inv, TypeOK
<1> QED BY <1>2, <1>3, <1>5, <1>6 DEF Inv, TypeOK

\* What threads that cancel, and the ones that stop the server, do keeps it.
LEMMA CancelInv ==
  ASSUME Inv,
         \/ \E c \in Caller : CancelGroup(c) \/ \E r \in Run : Cancel(c, r)
         \/ \E t \in Thread, r \in Run : FlagNext(t, r) \/ KillNext(t, r)
         \/ OperatorStops \/ Shutdown
  PROVE  Inv'
<1>1. Caller \subseteq Thread /\ Stopper \in Thread
  BY DEF Thread
<1>2. job \in [Run -> JobState] /\ \A q \in Run : Good(q, job[q])
  BY DEF Inv, TypeOK
<1>3. ASSUME NEW c \in Caller, CancelGroup(c) PROVE Inv'
  BY <1>1, <1>2, <1>3, CancellingInv DEF CancelGroup, rows, Inv, TypeOK
<1>4. ASSUME NEW c \in Caller, NEW r \in Run, Cancel(c, r) PROVE Inv'
  <2>1. c \in Thread /\ Flag(c, r)
    BY <1>1, <1>4 DEF Cancel
  <2>2. UNCHANGED <<active, row, unwritten, orphaned, flagging, server>>
    BY <1>4 DEF Cancel, rows
  <2> QED BY <2>1, <2>2, FlagGood, CancellingInv DEF Inv, TypeOK
<1>5. ASSUME NEW t \in Thread, NEW r \in Run, FlagNext(t, r) PROVE Inv'
  <2>1. UNCHANGED <<active, row, unwritten, orphaned, server>>
    BY <1>5 DEF FlagNext, rows
  <2>2. flagging' \in [Thread -> SUBSET Run]
    BY <1>5 DEF FlagNext, Inv, TypeOK
  <2>3. CASE UNCHANGED <<job, killing>>
    BY <1>2, <2>1, <2>2, <2>3, CancellingInv DEF Inv, TypeOK
  <2>4. CASE Flag(t, r)
    BY <2>1, <2>2, <2>4, FlagGood, CancellingInv DEF Inv, TypeOK
  <2> QED BY <1>5, <2>3, <2>4 DEF FlagNext
<1>6. ASSUME NEW t \in Thread, NEW r \in Run, KillNext(t, r) PROVE Inv'
  <2>1. PICK j \in Killed(r) : job' = [job EXCEPT ![r] = j]
    BY <1>6 DEF KillNext
  <2>2. /\ j \in JobState /\ SameButProcess(j, job[r])
        /\ j.proc # job[r].proc => job[r].proc = "alive" /\ j.proc \in Exit
        /\ j.proc = "alive" => job[r].kind \notin {"child", "family"}
    BY KilledState
  <2>3. Good(r, j)
    BY <1>2, <2>2 DEF Good, Process, Judged, Row, SameButProcess, Exit, JobState
  <2>4. UNCHANGED <<active, row, unwritten, orphaned, flagging, server>>
    BY <1>6 DEF KillNext, rows
  <2>5. killing' \in [Thread -> SUBSET Run]
    BY <1>6 DEF KillNext, Inv, TypeOK
  <2>6. job' \in [Run -> JobState] /\ \A q \in Run : job'[q].pc = job[q].pc /\ Good(q, job'[q])
    BY <1>2, <2>1, <2>2, <2>3 DEF SameButProcess
  <2> QED BY <2>4, <2>5, <2>6, CancellingInv DEF Inv, TypeOK
<1>7. CASE OperatorStops \/ Shutdown
  BY <1>1, <1>2, <1>7, CancellingInv DEF OperatorStops, Shutdown, rows, Inv, TypeOK
<1> QED BY <1>3, <1>4, <1>5, <1>6, <1>7

\* The thread of a submitted run is gone after a restart, its process is not.
LEMMA AbandonedState ==
  ASSUME NEW j \in JobState
  PROVE  /\ Abandoned(j) \in JobState
         /\ j.pc = "free" => Abandoned(j) = j
         /\ j.pc # "free" => Abandoned(j).pc = "over"
         /\ Abandoned(j).kind = j.kind /\ Abandoned(j).proc = j.proc
         /\ Abandoned(j).cancelled = j.cancelled /\ Abandoned(j).expired = j.expired
         /\ Abandoned(j).verdict = j.verdict /\ Abandoned(j).raised = j.raised
<1>1. CASE j.pc = "free"
  BY <1>1 DEF Abandoned
<1>2. CASE j.pc # "free"
  <2> DEFINE h == [j EXCEPT !.held = FALSE]
             a == [h EXCEPT !.pc = "over"]
             b == [a EXCEPT !.timer = "off"]
  <2>1. b = Abandoned(j)
    BY <1>2 DEF Abandoned, JobState
  <2>2. a \in JobState /\ a.pc = "over" /\ a.kind = j.kind /\ a.proc = j.proc
        /\ a.cancelled = j.cancelled /\ a.expired = j.expired /\ a.verdict = j.verdict /\ a.raised = j.raised
    BY DEF JobState, JobPc
  <2> HIDE DEF a
  <2>3. b \in JobState /\ b.pc = a.pc /\ b.kind = a.kind /\ b.proc = a.proc
        /\ b.cancelled = a.cancelled /\ b.expired = a.expired /\ b.verdict = a.verdict /\ b.raised = a.raised
    BY <2>2 DEF JobState
  <2> HIDE DEF b
  <2> QED BY <1>2, <2>1, <2>2, <2>3
<1> QED BY <1>1, <1>2

\* A restart keeps the invariant, even if it cannot mark the runs it finds.
LEMMA RestartInv ==
  ASSUME Inv, Restart
  PROVE  Inv'
<1>1. /\ active' = {} /\ server' = "up"
      /\ flagging' = [t \in Thread |-> {}] /\ killing' = [t \in Thread |-> {}]
      /\ orphaned' = orphaned \union {r \in Run : job[r].pc \notin {"free", "over"}}
      /\ job' = [r \in Run |-> Abandoned(job[r])]
  BY DEF Restart
<1>2. \A r \in Run : job[r] \in JobState /\ Good(r, job[r]) /\ job'[r] = Abandoned(job[r])
  BY <1>1 DEF Inv, TypeOK
<1>3. \A r \in Run :
        /\ job'[r] \in JobState
        /\ job[r].pc = "free" => job'[r] = job[r]
        /\ job[r].pc # "free" => job'[r].pc = "over"
        /\ job'[r].kind = job[r].kind /\ job'[r].proc = job[r].proc
        /\ job'[r].cancelled = job[r].cancelled /\ job'[r].expired = job[r].expired
        /\ job'[r].verdict = job[r].verdict /\ job'[r].raised = job[r].raised
  BY <1>2, AbandonedState
<1>4. /\ row' \in [Run -> Settled \union {"none", "running"}] /\ unwritten' \subseteq Run
      /\ \A r \in Run :
           /\ r \in unwritten => r \in unwritten'
           /\ row[r] # "running" => row'[r] = row[r]
           /\ row[r] = "running" => row'[r] = "failed" \/ (row'[r] = "running" /\ r \in unwritten')
  <2>1. row \in [Run -> Settled \union {"none", "running"}] /\ unwritten \subseteq Run
    BY DEF Inv, TypeOK
  <2>2. MarkStale
    BY DEF Restart
  <2> QED BY <2>1, <2>2 DEF MarkStale, Settled
<1>5. TypeOK'
  <2>1. job' \in [Run -> JobState]
    BY <1>1, <1>3
  <2> QED BY <1>1, <1>4, <2>1 DEF Inv, TypeOK
<1>6. Slots'
  BY <1>1, <1>3 DEF Slots, Busy
<1>7. ASSUME NEW r \in Run PROVE Good(r, job[r])'
  <2>1. job[r] \in JobState
    BY DEF Inv, TypeOK
  <2>2. CASE job[r].pc = "free"
    <3>1. job'[r] = job[r] /\ row'[r] = row[r] /\ row[r] = "none"
      BY <1>2, <1>3, <1>4, <2>2 DEF Good, Row
    <3> QED BY <1>2, <2>2, <3>1 DEF Good, Process, Judged, Row, Busy
  <2>3. CASE job[r].pc # "free"
    <3>1. job[r].pc = "over" \/ r \in orphaned'
      BY <1>1, <2>3
    <3>2. Process(r, job[r])'
      BY <1>1, <1>2, <1>3, <2>3, <3>1 DEF Good, Process
    <3>3. Judged(job[r])'
      BY <1>2, <1>3 DEF Good, Judged
    <3>4. row'[r] \in {job[r].verdict, "failed"} \/ (row'[r] = "running" /\ r \in unwritten')
      BY <1>2, <1>4, <2>1, <2>3 DEF Good, Row, Busy, JobState, JobPc, Settled
    <3>5. Row(r, job[r])'
      BY <1>3, <2>3, <3>4 DEF Row, Busy
    <3> QED BY <3>2, <3>3, <3>5 DEF Good
  <2> QED BY <2>2, <2>3
<1>8. Cardinality(active)' <= MaxJobs
  BY <1>1, FS_EmptySet, RunnerAssumption
<1> QED BY <1>5, <1>6, <1>7, <1>8 DEF Inv

\* Every step of the runner keeps the invariant.
LEMMA StepInv == Inv /\ [Next]_vars => Inv'
<1> SUFFICES ASSUME Inv, [Next]_vars PROVE Inv'
  OBVIOUS
<1>1. ASSUME NEW r \in Run, Submit(r) PROVE Inv'
  BY <1>1, SubmitInv
<1>2. ASSUME NEW r \in Run, JobStep(r) PROVE Inv'
  BY <1>2, ThreadInv, JudgeInv, RecordInv, ReleaseInv DEF JobStep
<1>3. ASSUME NEW r \in Run, ProcessStep(r) PROVE Inv'
  BY <1>3, ProcessInv
<1>4. CASE UNCHANGED vars
  <2>1. UNCHANGED <<active, row, unwritten, job, flagging, killing, server, orphaned>>
    BY <1>4 DEF vars, rows, control
  <2> QED BY <2>1 DEF Inv, TypeOK, Slots, Good, Process, Judged, Row
<1> QED BY <1>1, <1>2, <1>3, <1>4, CancelInv, RestartInv DEF Next

\* The inductive invariant holds throughout.
THEOREM AlwaysInv == Spec => []Inv
BY InitInv, StepInv, PTL DEF Spec

\* Every variable of the runner keeps its type.
THEOREM RunnerTypes == Spec => []TypeOK
<1>1. Inv => TypeOK
  BY DEF Inv
<1> QED BY <1>1, AlwaysInv, PTL

\* max_concurrent bounds the processes that signals reach, and not only the
\* entries of _active: whatever timers, cancelling threads, shutdowns and
\* crashes do, no process outlives its slot short of a restart and of an
\* exception in _run.
THEOREM PoolIsBounded == Spec => []WorkIsBounded
<1>1. Inv => WorkIsBounded
  <2> SUFFICES ASSUME Inv PROVE WorkIsBounded
    OBVIOUS
  <2>1. ASSUME NEW r \in Running PROVE r \in active
    BY <2>1 DEF Running, Inv, Good, Process, Slots, Busy
  <2> QED BY <2>1 DEF WorkIsBounded, Inv
<1> QED BY <1>1, AlwaysInv, PTL

\* A run that job_runs shows as running has a slot, and so a thread that will
\* settle it, or the database refused the update that would have settled it.
THEOREM RowIsAttended == Spec => []RunningRowIsAttended
<1>1. Inv => RunningRowIsAttended
  BY DEF Inv, RunningRowIsAttended, TypeOK, Good, Row, Slots, Busy, JobState, JobPc, Settled
<1> QED BY <1>1, AlwaysInv, PTL

\* What job_runs records of a run is what happened to it, and no process that
\* signals reach outlives its record, short of a restart and of an exception
\* in _run, after which the record says "failed" whatever else was true.
THEOREM RecordIsTrue == Spec => []OutcomeIsTrue
<1>1. Inv => OutcomeIsTrue
  <2> SUFFICES ASSUME Inv, NEW r \in Run
               PROVE  /\ row[r] = "done" => job[r].proc = "ok"
                      /\ row[r] = "cancelled" => job[r].cancelled
                      /\ row[r] = "timeout" => job[r].expired
                      /\ row[r] \in Settled => r \notin Running
                      /\ job[r].raised => row[r] \in {"running", "failed"}
    BY DEF OutcomeIsTrue
  <2>1. job[r] \in JobState /\ Good(r, job[r])
    BY DEF Inv, TypeOK
  <2>2. row[r] \in Settled
          => job[r].pc \in {"release", "callback", "over"} /\ row[r] \in {job[r].verdict, "failed"}
    BY <2>1 DEF Good, Row, Busy, JobState, JobPc, Settled
  <2>3. row[r] \in Settled => r \notin Running
    BY <2>1, <2>2 DEF Good, Process, Running
  <2>4. job[r].raised => row[r] \in {"running", "failed"}
    BY <2>1 DEF Good, Row, Judged, Busy, JobState, JobPc
  <2> QED BY <2>1, <2>2, <2>3, <2>4 DEF Good, Judged, Settled
<1> QED BY <1>1, AlwaysInv, PTL

\* An outcome is recorded once: no late timer, cancel or restart changes it.
THEOREM RecordIsFinal == Spec => OutcomeIsFinal
<1>1. Inv /\ [Next]_vars => [\A r \in Run : row[r] \in Settled => row'[r] = row[r]]_vars
  <2> SUFFICES ASSUME Inv, Next, NEW r \in Run, row[r] \in Settled
               PROVE  row'[r] = row[r]
    OBVIOUS
  <2>1. job[r] \in JobState /\ Good(r, job[r]) /\ row \in [Run -> Settled \union {"none", "running"}]
    BY DEF Inv, TypeOK
  <2>2. job[r].pc \in {"release", "callback", "over"}
    BY <2>1 DEF Good, Row, Busy, JobState, JobPc, Settled
  <2>3. ASSUME NEW q \in Run, Submit(q) \/ Record(q) PROVE row'[r] = row[r]
    BY <2>1, <2>2, <2>3 DEF Submit, Record
  <2>4. ASSUME NEW q \in Run, JobStep(q) \/ ProcessStep(q), ~Record(q) PROVE row' = row
    BY <2>4 DEF JobStep, ProcessStep, Start, Build, StreamEnds, StreamBreaks, WaitEnds, Judge,
                JobRaises, ReleaseSlot, Callback, TimerFires, TimerKills, ProcessExits, OutputCloses,
                Becomes, rows
  <2>5. ASSUME \/ \E c \in Caller : CancelGroup(c) \/ \E q \in Run : Cancel(c, q)
               \/ \E t \in Thread, q \in Run : FlagNext(t, q) \/ KillNext(t, q)
               \/ OperatorStops \/ Shutdown
        PROVE row' = row
    BY <2>5 DEF CancelGroup, Cancel, FlagNext, KillNext, OperatorStops, Shutdown, rows
  <2>6. CASE Restart
    BY <2>1, <2>6 DEF Restart, MarkStale, Settled
  <2> QED BY <2>3, <2>4, <2>5, <2>6 DEF Next
<1> QED BY <1>1, AlwaysInv, PTL DEF Spec, OutcomeIsFinal

-----------------------------------------------------------------------------
(***************************************************************************)
(* The runner keeps JobContract.                                           *)
(***************************************************************************)

Asked == {r \in Run : job[r].cancelled}
Late == {r \in Run : job[r].expired}
Works == [r \in Run |-> WorkOf(r)]

\* What becomes of the work of r in state j.
WorkIn(r, j) ==
  IF j.proc # "alive" THEN j.proc
  ELSE IF j.raised THEN "dropped"
  ELSE IF j.kind = "privileged" \/ r \in orphaned THEN "beyond" ELSE "alive"

\* What the contract sees of a step that changes the state of one run.
LEMMA OneRunSeen ==
  ASSUME Inv, NEW r \in Run, NEW j \in JobState, job' = [job EXCEPT ![r] = j], UNCHANGED orphaned
  PROVE  /\ j.cancelled = job[r].cancelled => UNCHANGED Asked
         /\ j.cancelled => Asked' = Asked \union {r}
         /\ j.expired = job[r].expired => UNCHANGED Late
         /\ j.expired => Late' = Late \union {r}
         /\ Works[r] = WorkIn(r, job[r])
         /\ Works' = [Works EXCEPT ![r] = WorkIn(r, j)]
<1>1. job \in [Run -> JobState] /\ job'[r] = j /\ \A q \in Run \ {r} : job'[q] = job[q]
  BY DEF Inv, TypeOK
<1>2. ASSUME NEW q \in Run PROVE WorkOf(q) = WorkIn(q, job[q]) /\ WorkOf(q)' = WorkIn(q, job'[q])
  BY DEF WorkOf, WorkIn, Running
<1>3. Works' = [Works EXCEPT ![r] = WorkIn(r, j)]
  BY <1>1, <1>2 DEF Works
<1>4. \A q \in Run : job[q].cancelled \in BOOLEAN /\ job[q].expired \in BOOLEAN
  BY <1>1 DEF JobState
<1>5. j.cancelled \in BOOLEAN /\ j.expired \in BOOLEAN
  BY DEF JobState
<1>6. /\ j.cancelled = job[r].cancelled => UNCHANGED Asked
      /\ j.cancelled => Asked' = Asked \union {r}
  BY <1>1, <1>4, <1>5 DEF Asked
<1>7. /\ j.expired = job[r].expired => UNCHANGED Late
      /\ j.expired => Late' = Late \union {r}
  BY <1>1, <1>4, <1>5 DEF Late
<1> QED BY <1>2, <1>3, <1>6, <1>7 DEF Works

\* A step that changes nothing the contract sees, but that the work of a run
\* may end.
LEMMA WorkStops ==
  ASSUME Inv, NEW r \in Run, NEW j \in JobState, job' = [job EXCEPT ![r] = j],
         UNCHANGED <<active, row, unwritten, orphaned>>,
         j.kind = job[r].kind, j.raised = job[r].raised, j.cancelled = job[r].cancelled, j.expired = job[r].expired,
         j.proc = job[r].proc \/ (job[r].proc = "alive" /\ j.proc \in Exit)
  PROVE  [Contract!Next]_(Contract!contractVars)
<1>1. /\ UNCHANGED Asked /\ UNCHANGED Late /\ Works[r] = WorkIn(r, job[r])
      /\ Works' = [Works EXCEPT ![r] = WorkIn(r, j)]
  BY OneRunSeen
<1>2. CASE j.proc = job[r].proc
  <2>1. WorkIn(r, j) = Works[r] /\ Works = [q \in Run |-> Works[q]]
    BY <1>1, <1>2 DEF WorkIn, Works
  <2>2. UNCHANGED Works
    BY <1>1, <2>1
  <2> QED BY <1>1, <2>2 DEF Contract!contractVars, Asked, Late, Works
<1>3. CASE job[r].proc = "alive" /\ j.proc \in Exit
  <2>1. Works[r] \in {"alive", "beyond", "dropped"} /\ WorkIn(r, j) \in {"ok", "bad"}
    BY <1>1, <1>3 DEF WorkIn, Exit
  <2>2. Contract!Stop(r)
    BY <1>1, <2>1 DEF Contract!Stop, Asked, Late, Works
  <2> QED BY <2>2 DEF Contract!Next
<1> QED BY <1>2, <1>3

\* Likewise for a step that only moves the thread of a run.
LEMMA ThreadMoves ==
  ASSUME Inv, NEW r \in Run, NEW j \in JobState, job' = [job EXCEPT ![r] = j], UNCHANGED orphaned,
         j.kind = job[r].kind, j.raised = job[r].raised, j.cancelled = job[r].cancelled, j.expired = job[r].expired,
         j.proc = job[r].proc
  PROVE  UNCHANGED Asked /\ UNCHANGED Late /\ UNCHANGED Works
<1>1. WorkIn(r, j) = WorkIn(r, job[r])
  BY DEF WorkIn
<1> QED BY <1>1, OneRunSeen DEF Works

\* What a new pc leaves alone.
LEMMA PcOnly ==
  ASSUME NEW j \in JobState, NEW pc \in JobPc
  PROVE  LET k == [j EXCEPT !.pc = pc] IN
         /\ k \in JobState /\ k.pc = pc /\ k.kind = j.kind /\ k.raised = j.raised /\ k.proc = j.proc
         /\ k.cancelled = j.cancelled /\ k.expired = j.expired /\ k.verdict = j.verdict
BY DEF JobState

LEMMA ThreadKeepsContract ==
  ASSUME Inv, NEW r \in Run,
         \/ Start(r) \/ Build(r) \/ StreamEnds(r) \/ StreamBreaks(r) \/ WaitEnds(r)
         \/ JobRaises(r) \/ Callback(r)
  PROVE  [Contract!Next]_(Contract!contractVars)
<1>1. job[r] \in JobState /\ Good(r, job[r]) /\ (job[r].pc \in Busy => r \in active)
  BY DEF Inv, TypeOK, Slots
<1>2. CASE Start(r) \/ StreamEnds(r) \/ Callback(r)
  <2>1. PICK pc \in JobPc : Becomes(r, [job[r] EXCEPT !.pc = pc])
    BY <1>2 DEF Start, StreamEnds, Callback, JobPc
  <2> QED BY <1>1, <2>1, PcOnly, WorkStops DEF Becomes, rows, control
<1>6. CASE StreamBreaks(r)
  <2> DEFINE a == [job[r] EXCEPT !.held = FALSE]
             b == [a EXCEPT !.pc = "wait"]
  <2>1. b = [job[r] EXCEPT !.held = FALSE, !.pc = "wait"]
    BY <1>1 DEF JobState
  <2>2. a \in JobState /\ a.kind = job[r].kind /\ a.raised = job[r].raised /\ a.proc = job[r].proc
        /\ a.cancelled = job[r].cancelled /\ a.expired = job[r].expired
    BY <1>1 DEF JobState
  <2> HIDE DEF a
  <2>3. b \in JobState /\ b.kind = a.kind /\ b.raised = a.raised /\ b.proc = a.proc
        /\ b.cancelled = a.cancelled /\ b.expired = a.expired
    BY <2>2, PcOnly DEF JobPc
  <2> HIDE DEF b
  <2>4. job' = [job EXCEPT ![r] = b] /\ UNCHANGED <<active, row, unwritten, orphaned>>
    BY <1>6, <2>1 DEF StreamBreaks, Becomes, rows, control
  <2> QED BY <2>2, <2>3, <2>4, WorkStops
<1>3. CASE Build(r)
  <2>1. PICK k \in Kind, proc \in Exit \union {"none", "alive"} :
          /\ k = "nothing" <=> proc = "none"
          /\ k \in {"child", "family", "privileged"} <=> proc = "alive"
          /\ Becomes(r, [job[r] EXCEPT
               !.kind = k, !.proc = proc,
               !.timer = IF k = "nothing" THEN "off" ELSE "armed",
               !.pc = IF k = "nothing" THEN "record" ELSE "stream"])
    BY <1>3 DEF Build
  <2> DEFINE a == [job[r] EXCEPT !.kind = k]
             b == [a EXCEPT !.proc = proc]
             c == [b EXCEPT !.timer = IF k = "nothing" THEN "off" ELSE "armed"]
             d == [c EXCEPT !.pc = IF k = "nothing" THEN "record" ELSE "stream"]
  <2>2. d = [job[r] EXCEPT !.kind = k, !.proc = proc,
                           !.timer = IF k = "nothing" THEN "off" ELSE "armed",
                           !.pc = IF k = "nothing" THEN "record" ELSE "stream"]
    BY <1>1 DEF JobState
  <2>3. a \in JobState /\ a.cancelled = job[r].cancelled /\ a.expired = job[r].expired
        /\ a.raised = job[r].raised
    BY <1>1, RunnerAssumption DEF JobState
  <2> HIDE DEF a
  <2>4. b \in JobState /\ b.proc = proc /\ b.cancelled = a.cancelled /\ b.expired = a.expired
        /\ b.raised = a.raised
    BY <2>3 DEF JobState
  <2> HIDE DEF b
  <2>5. c \in JobState /\ c.proc = proc /\ c.cancelled = b.cancelled /\ c.expired = b.expired
        /\ c.raised = b.raised
    BY <2>4 DEF JobState
  <2> HIDE DEF c
  <2>6. d \in JobState /\ d.proc = proc /\ d.cancelled = c.cancelled /\ d.expired = c.expired
        /\ d.raised = c.raised
    BY <2>5 DEF JobState, JobPc
  <2> HIDE DEF d
  <2>7. /\ job' = [job EXCEPT ![r] = d]
        /\ UNCHANGED <<active, row, unwritten, orphaned>>
    BY <2>1, <2>2 DEF Becomes, rows, control
  <2>8. job[r].proc = "none" /\ row[r] = "running" /\ r \in active
    BY <1>1, <1>3 DEF Build, Good, Process, Row, Busy
  <2>9. /\ UNCHANGED Asked /\ UNCHANGED Late /\ Works[r] = "none"
        /\ Works' = [Works EXCEPT ![r] = WorkIn(r, d)]
    <3>1. d.cancelled = job[r].cancelled /\ d.expired = job[r].expired
      BY <2>3, <2>4, <2>5, <2>6
    <3>2. WorkIn(r, job[r]) = "none"
      BY <2>8 DEF WorkIn
    <3> QED BY <2>6, <2>7, <3>1, <3>2, OneRunSeen
  <2>10. CASE proc = "none"
    <3>1. WorkIn(r, d) = Works[r] /\ Works = [q \in Run |-> Works[q]]
      BY <2>6, <2>9, <2>10 DEF WorkIn, Works
    <3>2. UNCHANGED Works
      BY <2>9, <3>1
    <3> QED BY <2>7, <2>9, <3>2 DEF Contract!contractVars, Asked, Late, Works
  <2>11. CASE proc # "none"
    <3>1. WorkIn(r, d) \in {"alive", "beyond", "ok", "bad"}
      <4>1. ~d.raised
        BY <1>1, <1>3, <2>3, <2>4, <2>5, <2>6 DEF Build, Good, Judged
      <4> QED BY <2>6, <2>11, <4>1 DEF WorkIn, Exit
    <3>2. Contract!Begin(r)
      BY <2>7, <2>8, <2>9, <3>1 DEF Contract!Begin, Asked, Late, Works
    <3> QED BY <3>2 DEF Contract!Next
  <2> QED BY <2>10, <2>11
<1>4. CASE WaitEnds(r)
  <2>1. PICK j \in Killed(r) : Becomes(r, [j EXCEPT !.timer = TimerOff(@), !.pc = "judge"])
    BY <1>4 DEF WaitEnds
  <2>2. /\ j \in JobState /\ SameButProcess(j, job[r])
        /\ j.proc # job[r].proc => job[r].proc = "alive" /\ j.proc \in Exit
    BY KilledState
  <2> DEFINE a == [j EXCEPT !.timer = TimerOff(@)]
             b == [a EXCEPT !.pc = "judge"]
  <2>3. b = [j EXCEPT !.timer = TimerOff(@), !.pc = "judge"]
    BY <2>2 DEF JobState
  <2>4. a \in JobState /\ a.kind = j.kind /\ a.raised = j.raised /\ a.proc = j.proc /\ a.cancelled = j.cancelled
        /\ a.expired = j.expired
    BY <2>2 DEF JobState, TimerOff
  <2> HIDE DEF a
  <2>5. b \in JobState /\ b.kind = a.kind /\ b.raised = a.raised /\ b.proc = a.proc /\ b.cancelled = a.cancelled
        /\ b.expired = a.expired
    BY <2>4, PcOnly DEF JobPc
  <2> HIDE DEF b
  <2>6. job' = [job EXCEPT ![r] = b] /\ UNCHANGED <<active, row, unwritten, orphaned>>
    BY <2>1, <2>3 DEF Becomes, rows, control
  <2> QED BY <2>2, <2>4, <2>5, <2>6, WorkStops DEF SameButProcess
<1>5. CASE JobRaises(r)
  <2> DEFINE t == [job[r] EXCEPT !.timer = TimerOff(@)]
             a == [t EXCEPT !.held = FALSE]
             b == [a EXCEPT !.raised = TRUE]
             c == [b EXCEPT !.pc = "record"]
  <2>1. c = [job[r] EXCEPT !.timer = TimerOff(@), !.held = FALSE, !.raised = TRUE, !.pc = "record"]
    BY <1>1 DEF JobState
  <2>2. a \in JobState /\ a.kind = job[r].kind /\ a.proc = job[r].proc
        /\ a.cancelled = job[r].cancelled /\ a.expired = job[r].expired
    BY <1>1 DEF JobState, TimerOff
  <2> HIDE DEF a
  <2>3. b \in JobState /\ b.kind = a.kind /\ b.proc = a.proc /\ b.raised = TRUE
        /\ b.cancelled = a.cancelled /\ b.expired = a.expired
    BY <2>2 DEF JobState
  <2> HIDE DEF b
  <2>4. c \in JobState /\ c.kind = b.kind /\ c.proc = b.proc /\ c.raised = TRUE
        /\ c.cancelled = b.cancelled /\ c.expired = b.expired
    BY <2>3, PcOnly DEF JobPc
  <2> HIDE DEF c
  <2>5. /\ job[r].pc \in {"stream", "wait"} /\ row[r] = "running" /\ r \in active /\ ~job[r].raised
        /\ job' = [job EXCEPT ![r] = c] /\ UNCHANGED <<active, row, unwritten, orphaned>>
    BY <1>1, <1>5, <2>1 DEF JobRaises, Becomes, rows, control, Good, Row, Judged, Busy
  <2>6. /\ UNCHANGED Asked /\ UNCHANGED Late /\ Works[r] = WorkIn(r, job[r])
        /\ Works' = [Works EXCEPT ![r] = WorkIn(r, c)]
    <3>1. c.cancelled = job[r].cancelled /\ c.expired = job[r].expired
      BY <2>2, <2>3, <2>4
    <3> QED BY <2>4, <2>5, <3>1, OneRunSeen
  <2>7. CASE job[r].proc = "alive"
    <3>1. WorkIn(r, c) = "dropped" /\ Works[r] \in {"alive", "beyond"}
      BY <2>2, <2>3, <2>4, <2>5, <2>6, <2>7 DEF WorkIn
    <3>2. Contract!DropWork(r)
      BY <2>5, <2>6, <3>1 DEF Contract!DropWork, Asked, Late, Works
    <3> QED BY <3>2 DEF Contract!Next
  <2>8. CASE job[r].proc # "alive"
    <3>1. WorkIn(r, c) = Works[r] /\ Works = [q \in Run |-> Works[q]]
      BY <2>2, <2>3, <2>4, <2>6, <2>8 DEF WorkIn, Works
    <3>2. UNCHANGED Works
      BY <2>6, <3>1
    <3> QED BY <2>5, <2>6, <3>2 DEF Contract!contractVars, Asked, Late, Works
  <2> QED BY <2>7, <2>8
<1> QED BY <1>2, <1>3, <1>4, <1>5, <1>6

LEMMA ProcessKeepsContract ==
  ASSUME Inv, NEW r \in Run, ProcessStep(r)
  PROVE  [Contract!Next]_(Contract!contractVars)
<1>1. job[r] \in JobState
  BY DEF Inv, TypeOK
<1>2. CASE TimerFires(r)
  <2> DEFINE a == [job[r] EXCEPT !.timer = "killing"]
             b == [a EXCEPT !.expired = TRUE]
  <2>1. b = [job[r] EXCEPT !.timer = "killing", !.expired = TRUE]
    BY <1>1 DEF JobState
  <2>2. a \in JobState /\ a.kind = job[r].kind /\ a.raised = job[r].raised /\ a.proc = job[r].proc
        /\ a.cancelled = job[r].cancelled
    BY <1>1 DEF JobState
  <2> HIDE DEF a
  <2>3. b \in JobState /\ b.kind = a.kind /\ b.raised = a.raised /\ b.proc = a.proc
        /\ b.cancelled = a.cancelled /\ b.expired
    BY <2>2 DEF JobState
  <2> HIDE DEF b
  <2>4. job' = [job EXCEPT ![r] = b] /\ UNCHANGED <<active, row, unwritten, orphaned>>
    BY <1>2, <2>1 DEF TimerFires, Becomes, rows, control
  <2>5. UNCHANGED Asked /\ Late' = Late \union {r} /\ UNCHANGED Works
    <3>1. WorkIn(r, b) = WorkIn(r, job[r])
      BY <2>2, <2>3 DEF WorkIn
    <3>2. Works' = [Works EXCEPT ![r] = Works[r]] /\ UNCHANGED Asked /\ Late' = Late \union {r}
      <4>1. b \in JobState /\ b.cancelled = job[r].cancelled /\ b.expired
        BY <2>2, <2>3
      <4>2. job' = [job EXCEPT ![r] = b] /\ UNCHANGED orphaned
        BY <2>4
      <4> QED BY <3>1, <4>1, <4>2, OneRunSeen
    <3> QED BY <3>2 DEF Works
  <2>6. Contract!TimeIsUp(r)
    BY <2>4, <2>5 DEF Contract!TimeIsUp, Asked, Late, Works
  <2> QED BY <2>6 DEF Contract!Next
<1>3. CASE TimerKills(r)
  <2>1. PICK j \in Killed(r) : \E held \in {j.held, FALSE} :
               Becomes(r, [j EXCEPT !.timer = "off", !.held = held])
    BY <1>3 DEF TimerKills
  <2>2. PICK held \in {j.held, FALSE} : Becomes(r, [j EXCEPT !.timer = "off", !.held = held])
    BY <2>1
  <2>3. /\ j \in JobState /\ SameButProcess(j, job[r])
        /\ j.proc # job[r].proc => job[r].proc = "alive" /\ j.proc \in Exit
    BY KilledState
  <2> DEFINE a == [j EXCEPT !.timer = "off"]
             b == [a EXCEPT !.held = held]
  <2>4. b = [j EXCEPT !.timer = "off", !.held = held]
    BY <2>3 DEF JobState
  <2>5. a \in JobState /\ a.proc = j.proc /\ a.kind = j.kind /\ a.raised = j.raised
        /\ a.cancelled = j.cancelled /\ a.expired = j.expired
    BY <2>3 DEF JobState
  <2> HIDE DEF a
  <2>6. held \in BOOLEAN
    BY <2>2, <2>3 DEF JobState
  <2>7. b \in JobState /\ b.proc = a.proc /\ b.kind = a.kind /\ b.raised = a.raised
        /\ b.cancelled = a.cancelled /\ b.expired = a.expired
    BY <2>5, <2>6 DEF JobState
  <2> HIDE DEF b
  <2>8. job' = [job EXCEPT ![r] = b] /\ UNCHANGED <<active, row, unwritten, orphaned>>
    BY <2>2, <2>4 DEF Becomes, rows, control
  <2> QED BY <2>3, <2>5, <2>7, <2>8, WorkStops DEF SameButProcess
<1>4. CASE ProcessExits(r)
  <2>1. PICK code \in Exit, held \in MayHold(r) : Becomes(r, Ended(job[r], code, held))
    BY <1>4 DEF ProcessExits
  <2>2. held \in BOOLEAN
    BY <2>1 DEF MayHold
  <2> DEFINE j == Ended(job[r], code, held)
  <2>3. j \in JobState /\ SameButProcess(j, job[r]) /\ j.proc = code /\ job[r].proc = "alive"
    BY <1>1, <1>4, <2>1, <2>2, EndedState DEF ProcessExits
  <2> HIDE DEF j
  <2>4. job' = [job EXCEPT ![r] = j] /\ UNCHANGED <<active, row, unwritten, orphaned>>
    BY <2>1 DEF j, Becomes, rows, control
  <2> QED BY <2>3, <2>4, WorkStops DEF SameButProcess
<1>5. CASE OutputCloses(r)
  <2> DEFINE j == [job[r] EXCEPT !.held = FALSE]
  <2>1. j \in JobState /\ j.proc = job[r].proc /\ j.kind = job[r].kind /\ j.raised = job[r].raised
        /\ j.cancelled = job[r].cancelled /\ j.expired = job[r].expired
    BY <1>1 DEF JobState
  <2>2. job' = [job EXCEPT ![r] = j] /\ UNCHANGED <<active, row, unwritten, orphaned>>
    BY <1>5 DEF OutputCloses, Becomes, rows, control
  <2> HIDE DEF j
  <2> QED BY <2>1, <2>2, WorkStops
<1> QED BY <1>2, <1>3, <1>4, <1>5 DEF ProcessStep

LEMMA SlotsKeepContract ==
  ASSUME Inv, NEW r \in Run, Submit(r) \/ Judge(r) \/ Record(r) \/ ReleaseSlot(r)
  PROVE  [Contract!Next]_(Contract!contractVars)
<1>1. job[r] \in JobState /\ Good(r, job[r]) /\ (job[r].pc \in Busy => r \in active)
  BY DEF Inv, TypeOK, Slots
<1>2. Works[r] = "alive" => job[r].pc \in {"stream", "wait"} 
  BY <1>1 DEF Works, WorkOf, Running, Good, Process
<1>3. ASSUME NEW pc \in JobPc, Goes(r, pc), UNCHANGED orphaned
      PROVE  UNCHANGED Asked /\ UNCHANGED Late /\ UNCHANGED Works
  <2> DEFINE j == [job[r] EXCEPT !.pc = pc]
  <2>1. j \in JobState /\ j.kind = job[r].kind /\ j.raised = job[r].raised /\ j.proc = job[r].proc
        /\ j.cancelled = job[r].cancelled /\ j.expired = job[r].expired
    BY <1>1, PcOnly
  <2>2. job' = [job EXCEPT ![r] = j]
    BY <1>3 DEF Goes
  <2> HIDE DEF j
  <2> QED BY <1>3, <2>1, <2>2, ThreadMoves
<1>4. CASE Submit(r)
  <2>1. UNCHANGED Asked /\ UNCHANGED Late /\ UNCHANGED Works
    BY <1>3, <1>4 DEF Submit, control, JobPc
  <2>2. row[r] = "none"
    BY <1>1, <1>4 DEF Submit, Good, Row
  <2>3. Contract!Cardinality(active) < MaxJobs
    <3>1. Cardinality(active) < MaxJobs
      BY <1>4 DEF Submit
    <3>2. Contract!Cardinality(active) = Cardinality(active)
      BY DEF Contract!Cardinality, Cardinality
    <3> QED BY <3>1, <3>2
  <2>4. Contract!Accept(r)
    BY <1>4, <2>1, <2>2, <2>3 DEF Submit, control, Contract!Accept, Asked, Late, Works
  <2> QED BY <2>4 DEF Contract!Next
<1>5. CASE Judge(r)
  <2> DEFINE a == [job[r] EXCEPT !.verdict = Verdict(r)]
             b == [a EXCEPT !.pc = "record"]
  <2>1. job' = [job EXCEPT ![r] = b] /\ UNCHANGED <<active, row, unwritten, orphaned>>
    BY <1>5 DEF Judge, Inv, TypeOK, rows
  <2>2. Verdict(r) \in Settled
    BY DEF Verdict, Settled
  <2>3. a \in JobState /\ a.kind = job[r].kind /\ a.raised = job[r].raised /\ a.proc = job[r].proc
        /\ a.cancelled = job[r].cancelled /\ a.expired = job[r].expired
    BY <1>1, <2>2 DEF JobState
  <2> HIDE DEF a
  <2>4. b \in JobState /\ b.kind = a.kind /\ b.raised = a.raised /\ b.proc = a.proc
        /\ b.cancelled = a.cancelled /\ b.expired = a.expired
    BY <2>3, PcOnly DEF JobPc
  <2> HIDE DEF b
  <2> QED BY <2>1, <2>3, <2>4, WorkStops
<1>6. CASE Record(r)
  <2>1. UNCHANGED Asked /\ UNCHANGED Late /\ UNCHANGED Works
    BY <1>3, <1>6 DEF Record, control, JobPc
  <2>2. r \in active /\ row[r] = "running" /\ job[r].verdict \in Settled /\ Judged(job[r])
    BY <1>1, <1>6 DEF Record, Good, Row, Busy, JobState
  <2>3. Works[r] # "alive" /\ (job[r].proc = "ok" => Works[r] = "ok")
        /\ (Works[r] = "dropped" => job[r].verdict = "failed")
    <3>1. Works[r] # "alive" /\ (job[r].proc = "ok" => Works[r] = "ok")
      BY <1>2, <1>6 DEF Record, Works, WorkOf
    <3>2. job[r].proc \in Exit \union {"none", "alive"}
      BY <1>1 DEF JobState
    <3>3. Works[r] = "dropped" => job[r].raised
      BY <3>2 DEF Works, WorkOf, Exit
    <3> QED BY <1>1, <3>1, <3>3 DEF Good, Judged
  <2>4. UNCHANGED active /\ job[r].verdict \in Contract!Ended
    BY <1>6, <2>2 DEF Record, Contract!Ended, Settled
  <2>5. CASE row' = [row EXCEPT ![r] = job[r].verdict] /\ UNCHANGED unwritten
    <3>1. Contract!Settle(r, job[r].verdict)
      BY <2>1, <2>2, <2>3, <2>4, <2>5 DEF Contract!Settle, Judged, Asked, Late, Works
    <3> QED BY <2>4, <3>1 DEF Contract!Next
  <2>6. CASE unwritten' = unwritten \union {r} /\ UNCHANGED row
    <3>1. Contract!Lose(r)
      BY <2>1, <2>2, <2>3, <2>4, <2>6 DEF Contract!Lose, Asked, Late, Works
    <3> QED BY <3>1 DEF Contract!Next
  <2> QED BY <1>6, <2>5, <2>6 DEF Record
<1>7. CASE ReleaseSlot(r)
  <2>1. UNCHANGED Asked /\ UNCHANGED Late /\ UNCHANGED Works
    BY <1>3, <1>7 DEF ReleaseSlot, control, JobPc
  <2>2. r \in active /\ (row[r] \in Settled \/ r \in unwritten)
    BY <1>1, <1>7 DEF ReleaseSlot, Good, Row, Busy, JobState, Settled
  <2>3. Works[r] # "alive"
    BY <1>2, <1>7 DEF ReleaseSlot
  <2>4. Contract!GiveBack(r)
    BY <1>7, <2>1, <2>2, <2>3
      DEF ReleaseSlot, rows, Contract!GiveBack, Contract!Ended, Settled, Asked, Late, Works
  <2> QED BY <2>4 DEF Contract!Next
<1> QED BY <1>4, <1>5, <1>6, <1>7

LEMMA FlagKeepsContract ==
  ASSUME Inv, NEW t \in Thread, NEW r \in Run, Flag(t, r),
         UNCHANGED <<active, row, unwritten, orphaned>>
  PROVE  [Contract!Next]_(Contract!contractVars)
<1> DEFINE j == [job[r] EXCEPT !.cancelled = TRUE]
<1>1. job[r] \in JobState
  BY DEF Inv, TypeOK
<1>2. job' = [job EXCEPT ![r] = j]
  BY DEF Flag
<1>3. j \in JobState /\ j.kind = job[r].kind /\ j.raised = job[r].raised /\ j.proc = job[r].proc
      /\ j.cancelled = TRUE /\ j.expired = job[r].expired
  BY <1>1 DEF JobState
<1> HIDE DEF j
<1>4. WorkIn(r, j) = WorkIn(r, job[r])
  BY <1>3 DEF WorkIn
<1>5. Asked' = Asked \union {r} /\ UNCHANGED Late /\ UNCHANGED Works
  BY <1>2, <1>3, <1>4, OneRunSeen DEF Works
<1>6. Contract!Ask(r)
  BY <1>5 DEF Contract!Ask, Asked, Late, Works
<1> QED BY <1>6 DEF Contract!Next

\* A step that changes nothing the contract sees.
LEMMA Unseen ==
  ASSUME UNCHANGED <<active, row, unwritten, job, orphaned>>
  PROVE  [Contract!Next]_(Contract!contractVars)
<1>1. UNCHANGED Asked /\ UNCHANGED Late /\ UNCHANGED Works
  BY DEF Asked, Late, Works, WorkOf, Running
<1> QED BY <1>1 DEF Contract!contractVars, Asked, Late, Works

LEMMA CancelKeepsContract ==
  ASSUME Inv,
         \/ \E c \in Caller : CancelGroup(c) \/ \E r \in Run : Cancel(c, r)
         \/ \E t \in Thread, r \in Run : FlagNext(t, r) \/ KillNext(t, r)
         \/ OperatorStops \/ Shutdown
  PROVE  [Contract!Next]_(Contract!contractVars)
<1>1. ASSUME NEW c \in Caller, NEW r \in Run, Cancel(c, r)
      PROVE  [Contract!Next]_(Contract!contractVars)
  <2>1. c \in Thread /\ Flag(c, r) /\ UNCHANGED <<active, row, unwritten, orphaned>>
    BY <1>1 DEF Cancel, rows, Thread
  <2> QED BY <2>1, FlagKeepsContract
<1>2. ASSUME NEW t \in Thread, NEW r \in Run, FlagNext(t, r)
      PROVE  [Contract!Next]_(Contract!contractVars)
  <2>1. UNCHANGED job \/ Flag(t, r)
    BY <1>2 DEF FlagNext
  <2>2. UNCHANGED <<active, row, unwritten, orphaned>>
    BY <1>2 DEF FlagNext, rows
  <2>3. CASE UNCHANGED job
    BY <2>2, <2>3, Unseen
  <2>4. CASE Flag(t, r)
    BY <2>2, <2>4, FlagKeepsContract
  <2> QED BY <2>1, <2>3, <2>4
<1>3. ASSUME NEW t \in Thread, NEW r \in Run, KillNext(t, r)
      PROVE  [Contract!Next]_(Contract!contractVars)
  <2>1. PICK j \in Killed(r) : job' = [job EXCEPT ![r] = j]
    BY <1>3 DEF KillNext
  <2>2. /\ j \in JobState /\ SameButProcess(j, job[r])
        /\ j.proc # job[r].proc => job[r].proc = "alive" /\ j.proc \in Exit
    BY KilledState
  <2>3. UNCHANGED <<active, row, unwritten, orphaned>>
    BY <1>3 DEF KillNext, rows
  <2> QED BY <2>1, <2>2, <2>3, WorkStops DEF SameButProcess
<1>4. ASSUME (\E c \in Caller : CancelGroup(c)) \/ OperatorStops \/ Shutdown
      PROVE  [Contract!Next]_(Contract!contractVars)
  BY <1>4, Unseen DEF CancelGroup, OperatorStops, Shutdown, rows
<1> QED BY <1>1, <1>2, <1>3, <1>4

LEMMA RestartKeepsContract ==
  ASSUME Inv, Restart
  PROVE  Contract!Next
<1>1. /\ active' = {}
      /\ orphaned' = orphaned \union {r \in Run : job[r].pc \notin {"free", "over"}}
      /\ job' = [r \in Run |-> Abandoned(job[r])]
  BY DEF Restart
<1>2. \A r \in Run : job[r] \in JobState /\ Good(r, job[r]) /\ job'[r] = Abandoned(job[r])
  BY <1>1 DEF Inv, TypeOK
<1>3. \A r \in Run :
        /\ job'[r].kind = job[r].kind /\ job'[r].raised = job[r].raised /\ job'[r].proc = job[r].proc
        /\ job'[r].cancelled = job[r].cancelled /\ job'[r].expired = job[r].expired
  BY <1>2, AbandonedState
<1>4. UNCHANGED Asked /\ UNCHANGED Late
  BY <1>3 DEF Asked, Late
<1>5. ASSUME NEW r \in Run
      PROVE  WorkOf(r)' = IF WorkOf(r) = "alive" THEN "beyond" ELSE WorkOf(r)
  <2>1. CASE job[r].proc # "alive"
    BY <1>3, <2>1 DEF WorkOf
  <2>2. CASE job[r].proc = "alive"
    <3>1. job[r].kind = "privileged" \/ r \in orphaned' \/ job[r].raised
      BY <1>1, <1>2, <2>2 DEF Good, Process
    <3>2. WorkOf(r)' = IF job[r].raised THEN "dropped" ELSE "beyond"
      BY <1>3, <2>2, <3>1 DEF WorkOf, Running
    <3>3. IF job[r].raised THEN WorkOf(r) = "dropped" ELSE WorkOf(r) \in {"alive", "beyond"}
      BY <2>2 DEF WorkOf
    <3> QED BY <3>2, <3>3
  <2> QED BY <2>1, <2>2
<1>6. Works' = [r \in Run |-> IF Works[r] = "alive" THEN "beyond" ELSE Works[r]]
  BY <1>5 DEF Works
<1>7. Contract!Restart
  <2>1. MarkStale
    BY DEF Restart
  <2> QED BY <1>1, <1>4, <1>6, <2>1 DEF Contract!Restart, MarkStale, Asked, Late, Works
<1> QED BY <1>7 DEF Contract!Next

\* The runner, seen by whoever submits jobs, is JobContract, for any number of
\* runs, any size of the pool and any kinds of work.
THEOREM ContractIsKept == Spec => KeepsContract
<1>1. Init => Contract!Init
  <2> SUFFICES ASSUME Init PROVE Contract!Init
    OBVIOUS
  <2>1. \A r \in Run : /\ WorkOf(r) = "none" /\ ~job[r].cancelled /\ ~job[r].expired
    BY DEF Init, NewJob, WorkOf
  <2> QED BY <2>1 DEF Init, Contract!Init
<1>2. Inv /\ [Next]_vars => [Contract!Next]_(Contract!contractVars)
  <2> SUFFICES ASSUME Inv, [Next]_vars PROVE [Contract!Next]_(Contract!contractVars)
    OBVIOUS
  <2>1. ASSUME NEW r \in Run, Submit(r) \/ JobStep(r) \/ ProcessStep(r)
        PROVE  [Contract!Next]_(Contract!contractVars)
    BY <2>1, ThreadKeepsContract, SlotsKeepContract, ProcessKeepsContract DEF JobStep
  <2>2. CASE UNCHANGED vars
    BY <2>2, Unseen DEF vars, rows, control
  <2> QED BY <2>1, <2>2, CancelKeepsContract, RestartKeepsContract DEF Next
<1> QED BY <1>1, <1>2, AlwaysInv, PTL DEF Spec, KeepsContract, Contract!Spec
===============================================================================
