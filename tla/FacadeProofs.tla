---------------------------- MODULE FacadeProofs ----------------------------
(* Theorems about the facade, for any callers, bounds and failures.          *)
EXTENDS Facade, SequenceTheorems, TLAPS

-----------------------------------------------------------------------------
(* The queue as the set of its jobs.                                         *)

JobsOf(q) == {q[k] : k \in DOMAIN q}
Queued    == JobsOf(queue)

\* A queue that gets one more job.
LEMMA AppendedJob ==
  ASSUME NEW q \in Seq(Jobs), NEW job \in Jobs
  PROVE  /\ Append(q, job) \in Seq(Jobs)
         /\ Append(q, job) # << >>
         /\ JobsOf(Append(q, job)) = JobsOf(q) \cup {job}
<1> DEFINE more == Append(q, job)
<1>1. /\ more \in Seq(Jobs) /\ more # << >>
      /\ DOMAIN q = 1..Len(q) /\ DOMAIN more = 1..(Len(q) + 1)
      /\ Len(q) \in Nat
      /\ \A k \in 1..Len(q) : more[k] = q[k]
      /\ more[Len(q) + 1] = job
  BY AppendProperties, LenProperties
<1>2. ASSUME NEW k \in DOMAIN more  PROVE more[k] \in JobsOf(q) \cup {job}
  BY <1>1 DEF JobsOf
<1>3. job \in JobsOf(more)
  BY <1>1 DEF JobsOf
<1>4. ASSUME NEW k \in DOMAIN q  PROVE q[k] \in JobsOf(more)
  BY <1>1 DEF JobsOf
<1>5. QED
  BY <1>1, <1>2, <1>3, <1>4 DEF JobsOf

\* A queue whose first job is replaced by jobs at its end.  When it was alone,
\* they are all there is.
LEMMA NextJobs ==
  ASSUME NEW q \in Seq(Jobs), q # << >>, NEW jobs \in Seq(Jobs)
  PROVE  /\ Head(q) \in JobsOf(q)
         /\ Tail(q) \o jobs \in Seq(Jobs)
         /\ JobsOf(q) = {Head(q)} \cup JobsOf(Tail(q))
         /\ JobsOf(Tail(q) \o jobs) = JobsOf(Tail(q)) \cup JobsOf(jobs)
         /\ Len(q) = 1 => JobsOf(Tail(q)) = {}
         /\ Len(Tail(q) \o jobs) = Len(q) - 1 + Len(jobs)
<1> DEFINE rest == Tail(q)
           new  == rest \o jobs
<1>1. /\ Len(q) \in Nat \ {0} /\ DOMAIN q = 1..Len(q)
      /\ Head(q) = q[1]
  BY EmptySeq, LenProperties
<1>2. /\ rest \in Seq(Jobs) /\ Len(rest) = Len(q) - 1
      /\ DOMAIN rest = 1..Len(rest)
      /\ \A k \in 1..Len(rest) : rest[k] = q[k + 1]
  BY HeadTailProperties, LenProperties
<1>3. /\ new \in Seq(Jobs) /\ Len(new) = Len(rest) + Len(jobs)
      /\ DOMAIN new = 1..(Len(rest) + Len(jobs))
      /\ Len(jobs) \in Nat /\ DOMAIN jobs = 1..Len(jobs)
      /\ \A k \in 1..(Len(rest) + Len(jobs)) :
           new[k] = IF k <= Len(rest) THEN rest[k] ELSE jobs[k - Len(rest)]
  BY <1>2, ConcatProperties, LenProperties
<1>4. JobsOf(q) = {Head(q)} \cup JobsOf(rest)
  <2>1. ASSUME NEW k \in DOMAIN q  PROVE q[k] \in {Head(q)} \cup JobsOf(rest)
    <3>1. CASE k = 1
      BY <3>1, <1>1
    <3>2. CASE k # 1
      <4>1. k - 1 \in DOMAIN rest /\ rest[k - 1] = q[k]
        BY <3>2, <1>1, <1>2
      <4>2. QED
        BY <4>1 DEF JobsOf
    <3>3. QED
      BY <3>1, <3>2
  <2>2. Head(q) \in JobsOf(q)
    BY <1>1 DEF JobsOf
  <2>3. ASSUME NEW k \in DOMAIN rest  PROVE rest[k] \in JobsOf(q)
    <3>1. k + 1 \in DOMAIN q /\ q[k + 1] = rest[k]
      BY <1>1, <1>2
    <3>2. QED
      BY <3>1 DEF JobsOf
  <2>4. QED
    BY <2>1, <2>2, <2>3 DEF JobsOf
<1>5. JobsOf(new) = JobsOf(rest) \cup JobsOf(jobs)
  <2>1. ASSUME NEW k \in DOMAIN new  PROVE new[k] \in JobsOf(rest) \cup JobsOf(jobs)
    <3>1. CASE k <= Len(rest)
      BY <3>1, <1>2, <1>3 DEF JobsOf
    <3>2. CASE ~(k <= Len(rest))
      <4>1. k - Len(rest) \in DOMAIN jobs /\ new[k] = jobs[k - Len(rest)]
        BY <3>2, <1>1, <1>2, <1>3
      <4>2. QED
        BY <4>1 DEF JobsOf
    <3>3. QED
      BY <3>1, <3>2
  <2>2. ASSUME NEW k \in DOMAIN rest  PROVE rest[k] \in JobsOf(new)
    <3>1. k \in DOMAIN new /\ new[k] = rest[k]
      BY <1>1, <1>2, <1>3
    <3>2. QED
      BY <3>1 DEF JobsOf
  <2>3. ASSUME NEW k \in DOMAIN jobs  PROVE jobs[k] \in JobsOf(new)
    <3>1. Len(rest) + k \in DOMAIN new /\ new[Len(rest) + k] = jobs[k]
      BY <1>1, <1>2, <1>3
    <3>2. QED
      BY <3>1 DEF JobsOf
  <2>4. QED
    BY <2>1, <2>2, <2>3 DEF JobsOf
<1>6. ASSUME Len(q) = 1  PROVE JobsOf(rest) = {}
  <2>1. Len(rest) = 0
    BY <1>2, <1>6
  <2>3. \A k \in DOMAIN rest : FALSE
    BY <2>1, <1>2
  <2>2. QED
    BY <2>3 DEF JobsOf
<1>7. QED
  BY <1>1, <1>2, <1>3, <1>4, <1>5, <1>6

\* The sequences of jobs that microtasks queue.
LEMMA FewJobs ==
  ASSUME NEW j \in Jobs, NEW k \in Jobs
  PROVE  /\ << >> \in Seq(Jobs) /\ JobsOf(<< >>) = {}
         /\ << j >> \in Seq(Jobs) /\ JobsOf(<< j >>) = {j}
         /\ << j, k >> \in Seq(Jobs) /\ JobsOf(<< j, k >>) = {j, k}
         /\ Len(<< >>) = 0 /\ Len(<< j >>) = 1 /\ Len(<< j, k >>) = 2
<1>1. /\ DOMAIN << >> = {} /\ DOMAIN << j >> = {1} /\ DOMAIN << j, k >> = {1, 2}
      /\ << j >>[1] = j /\ << j, k >>[1] = j /\ << j, k >>[2] = k
  OBVIOUS
<1>2. QED
  BY <1>1 DEF JobsOf

LEMMA TwoJobs ==
  ASSUME NEW j \in Jobs, NEW k \in Jobs
  PROVE  << j >> \o << k >> = << j, k >> /\ << >> \o << k >> = << k >>
<1> DEFINE both == << j >> \o << k >>
<1>1. /\ << j >> \in Seq(Jobs) /\ << k >> \in Seq(Jobs) /\ << j, k >> \in Seq(Jobs)
      /\ Len(<< j >>) = 1 /\ Len(<< k >>) = 1 /\ Len(<< j, k >>) = 2
  OBVIOUS
<1>2. both \in Seq(Jobs) /\ Len(both) = 2 /\ both[1] = j /\ both[2] = k
  BY <1>1, ConcatProperties
<1>3. both = << j, k >>
  <2>1. \A i \in 1..Len(both) : both[i] = << j, k >>[i]
    BY <1>2
  <2>2. Len(both) = Len(<< j, k >>)
    BY <1>1, <1>2
  <2> HIDE DEF both
  <2>3. QED
    BY <2>1, <2>2, <1>1, <1>2, SeqEqual
<1>4. QED
  BY <1>1, <1>3, ConcatEmptySeq

-----------------------------------------------------------------------------
(* The invariant.                                                            *)

\* The continuations of open and close run alone: the event that queued one is
\* the engine's own, so nobody can add to the queue before it is done.
Alone ==
  \A j \in Queued : j.does \in {"opened", "ensured", "closed"}
                      => Len(queue) = 1 /\ running = Nobody

\* Who opens is told about it, and it is one caller.
Opener ==
  /\ OpenAlone
  /\ \A j \in Queued : j.does \in {"opened", "ensured"}
                         => j.task \in Tasks /\ call[j.task] = "opening"

\* A job that lets callers go on is only there while the engine is open.
LetsGoOn(j) == j.does = "ready" \/ (j.does \in {"ensured", "wake"} /\ j.ok)
Admitted    == \A j \in Queued : LetsGoOn(j) => isOpen

\* An open engine nobody abandoned: why it will be closed.
Attended ==
  isOpen /\ ~abandoned
    => \/ closes > 0
       \/ timers > 0 /\ ~suspended
       \/ \E j \in Queued : \/ j.does \in {"ready", "closed"}
                            \/ j.does = "ensured" /\ j.ok
                            \/ j.does = "suspend" /\ ~suspended

FacadeInv == TypeOK /\ Alone /\ Opener /\ Admitted /\ Attended

LEMMA FacadeInit == Init => FacadeInv
<1> SUFFICES ASSUME Init  PROVE FacadeInv
  OBVIOUS
<1>1. Queued = {} /\ queue \in Seq(Jobs) /\ waiters \in Seq(Tasks)
  BY DEF Init, Queued, JobsOf
<1>2. TypeOK
  <2>1. /\ isOpen \in BOOLEAN /\ suspended \in BOOLEAN /\ abandoned \in BOOLEAN
        /\ completer \in {"null", "pending", "completed"}
        /\ running \in Tasks \cup {"app", Nobody}
        /\ call \in [Tasks -> {"idle", "opening", "waiting", "ready", "working"}]
    BY DEF Init
  <2>2. timers \in 0..1 /\ closes \in Nat /\ pauses \in 0..MaxPauses /\ faults \in 0..MaxFaults
    BY FacadeAssumption DEF Init
  <2>3. QED
    BY <1>1, <2>1, <2>2 DEF TypeOK
<1>3. Opener
  BY <1>1 DEF Init, Opener, OpenAlone
<1>4. QED
  BY <1>1, <1>2, <1>3 DEF Init, FacadeInv, Alone, Admitted, Attended

-----------------------------------------------------------------------------
(* What the code of the application does.                                    *)

LEMMA JobType ==
  ASSUME NEW t \in Tasks \cup {Nobody}, NEW ok \in BOOLEAN,
         NEW does \in {"opened", "ensured", "wake", "ready", "returned",
                       "suspend", "resumed", "closed"}
  PROVE  /\ Job(does, t, ok) \in Jobs
         /\ Job(does, t, ok).does = does
         /\ Job(does, t, ok).task = t
         /\ Job(does, t, ok).ok = ok
  BY DEF Job, Jobs

\* While the application's code runs, no continuation of open or close waits.
LEMMA NobodyAlone ==
  ASSUME FacadeInv, queue = << >> \/ running # Nobody
  PROVE  \A j \in Queued : j.does \notin {"opened", "ensured", "closed"}
<1>1. queue = << >> => Queued = {}
  BY DEF Queued, JobsOf
<1>2. QED
  BY <1>1 DEF FacadeInv, Alone

LEMMA KeptByAlreadyOpen ==
  ASSUME FacadeInv, NEW t \in Tasks, AlreadyOpen(t)
  PROVE  FacadeInv'
<1> DEFINE job == Job("ready", t, TRUE)
<1> USE DEF FacadeInv, AlreadyOpen, Begins, engine, ready, lifecycle
<1>1. job \in Jobs /\ job.does = "ready"
  BY DEF Job, Jobs
<1>2. queue \in Seq(Jobs) /\ "app" \in Tasks \cup {"app", Nobody}
  BY DEF TypeOK
<1>3. queue' \in Seq(Jobs) /\ Queued' = Queued \cup {job}
  BY <1>1, <1>2, AppendedJob DEF Queued
<1>4. \A j \in Queued : j.does \notin {"opened", "ensured", "closed"}
  BY NobodyAlone, FacadeAssumption DEF TypeOK
<1>5. TypeOK'
  BY <1>3 DEF TypeOK
<1>6. Alone'
  BY <1>1, <1>3, <1>4 DEF Alone
<1>7. Opener'
  BY <1>1, <1>3, <1>4 DEF Opener, OpenAlone, TypeOK
<1>8. Admitted'
  BY <1>1, <1>3 DEF Admitted, LetsGoOn
<1>9. Attended'
  BY <1>1, <1>3 DEF Attended
<1>10. QED
  BY <1>5, <1>6, <1>7, <1>8, <1>9

LEMMA KeptByWaitForOpen ==
  ASSUME FacadeInv, NEW t \in Tasks, WaitForOpen(t)
  PROVE  FacadeInv'
<1> USE DEF FacadeInv, WaitForOpen, Begins, engine, ready, lifecycle
<1>1. Queued' = Queued
  BY DEF Queued
<1>2. \A j \in Queued : j.does \notin {"opened", "ensured", "closed"}
  BY NobodyAlone, FacadeAssumption DEF TypeOK
<1>3. waiters' \in Seq(Tasks)
  BY AppendProperties DEF TypeOK
<1>4. TypeOK'
  BY <1>3 DEF TypeOK
<1>5. Alone' /\ Admitted' /\ Attended'
  BY <1>1, <1>2 DEF Alone, Admitted, LetsGoOn, Attended
<1>6. Opener'
  BY <1>1, <1>2 DEF Opener, OpenAlone, TypeOK
<1>7. QED
  BY <1>4, <1>5, <1>6

LEMMA KeptByStartOpen ==
  ASSUME FacadeInv, NEW t \in Tasks, StartOpen(t)
  PROVE  FacadeInv'
<1> USE DEF FacadeInv, StartOpen, Begins, engine, ready, lifecycle
<1>1. Queued' = Queued
  BY DEF Queued
<1>2. \A j \in Queued : j.does \notin {"opened", "ensured", "closed"}
  BY NobodyAlone, FacadeAssumption DEF TypeOK
<1>3. TypeOK'
  BY DEF TypeOK
<1>4. Alone' /\ Admitted' /\ Attended'
  BY <1>1, <1>2 DEF Alone, Admitted, LetsGoOn, Attended
<1>5. \A u \in Tasks : call[u] # "opening"
  BY DEF Opener, OpenAlone
<1>6. Opener'
  BY <1>1, <1>2, <1>5 DEF Opener, OpenAlone, TypeOK
<1>7. QED
  BY <1>3, <1>4, <1>6

LEMMA KeptByAppPaused ==
  ASSUME FacadeInv, AppPaused
  PROVE  FacadeInv'
<1> DEFINE job == Job("suspend", Nobody, TRUE)
<1> USE DEF FacadeInv, AppPaused, engine, ready, lifecycle
<1>1. job \in Jobs /\ job.does = "suspend"
  BY DEF Job, Jobs
<1>2. \A j \in Queued : j.does \notin {"opened", "ensured", "closed"}
  BY NobodyAlone, FacadeAssumption DEF TypeOK
<1>3. queue' \in Seq(Jobs) /\ Queued' = (IF suspended THEN Queued ELSE Queued \cup {job})
  BY <1>1, AppendedJob DEF Queued, TypeOK
<1>4. TypeOK'
  <2>1. pauses' \in 0..MaxPauses
    BY FacadeAssumption DEF TypeOK
  <2>2. QED
    BY <1>3, <2>1 DEF TypeOK
<1>5. Alone' /\ Admitted'
  BY <1>1, <1>2, <1>3 DEF Alone, Admitted, LetsGoOn
<1>6. Attended'
  BY <1>1, <1>3 DEF Attended
<1>7. Opener'
  BY <1>1, <1>2, <1>3 DEF Opener, OpenAlone, TypeOK
<1>8. QED
  BY <1>4, <1>5, <1>6, <1>7

-----------------------------------------------------------------------------
(* The other events.                                                         *)

LEMMA EmptyQueue == queue = << >> => Queued = {}
  BY DEF Queued, JobsOf

LEMMA KeptByOpenAnswers ==
  ASSUME FacadeInv, NEW t \in Tasks, OpenAnswers(t)
  PROVE  FacadeInv'
<1> USE DEF FacadeInv, OpenAnswers, Event, engine, ready, lifecycle
<1>1. PICK ok \in BOOLEAN : queue' = << Job("opened", t, ok) >>
  OBVIOUS
<1> DEFINE job == Job("opened", t, ok)
<1>2. job \in Jobs /\ job.does = "opened" /\ job.task = t
  BY DEF Job, Jobs
<1>3. queue' \in Seq(Jobs) /\ Queued' = {job} /\ Len(queue') = 1
  BY <1>1, <1>2, FewJobs DEF Queued
<1>4. TypeOK'
  <2>1. faults' = faults \/ (faults < MaxFaults /\ faults' = faults + 1)
    OBVIOUS
  <2>2. faults' \in 0..MaxFaults
    BY <2>1, FacadeAssumption DEF TypeOK
  <2>3. QED
    BY <1>3, <2>2 DEF TypeOK
<1>5. Alone' /\ Admitted'
  BY <1>2, <1>3 DEF Alone, Admitted, LetsGoOn
<1>6. Opener'
  BY <1>2, <1>3 DEF Opener, OpenAlone
<1>7. Attended'
  BY EmptyQueue DEF Attended
<1>8. QED
  BY <1>4, <1>5, <1>6, <1>7

LEMMA KeptByCloseAnswers ==
  ASSUME FacadeInv, CloseAnswers
  PROVE  FacadeInv'
<1> DEFINE job == Job("closed", Nobody, TRUE)
<1> USE DEF FacadeInv, CloseAnswers, Event, engine, ready, lifecycle
<1>1. job \in Jobs /\ job.does = "closed"
  BY DEF Job, Jobs
<1>2. CASE queue' = << job >> /\ UNCHANGED <<abandoned, faults>>
  <2>1. queue' \in Seq(Jobs) /\ Queued' = {job} /\ Len(queue') = 1
    BY <1>1, <1>2, FewJobs DEF Queued
  <2>2. TypeOK'
    <3>1. closes' \in Nat
      BY FacadeAssumption DEF TypeOK
    <3>2. QED
      BY <1>2, <2>1, <3>1 DEF TypeOK
  <2>3. QED
    BY <1>1, <1>2, <2>1, <2>2 DEF Alone, Opener, OpenAlone, Admitted, LetsGoOn, Attended
<1>3. CASE faults < MaxFaults /\ faults' = faults + 1 /\ abandoned' = TRUE /\ UNCHANGED queue
  <2>1. Queued' = Queued /\ Queued = {}
    BY <1>3, EmptyQueue DEF Queued
  <2>2. TypeOK'
    BY <1>3, FacadeAssumption DEF TypeOK
  <2>3. QED
    BY <1>3, <2>1, <2>2 DEF Alone, Opener, OpenAlone, Admitted, Attended
<1>4. QED
  BY <1>2, <1>3

LEMMA KeptByOperationAnswers ==
  ASSUME FacadeInv, NEW t \in Tasks, OperationAnswers(t)
  PROVE  FacadeInv'
<1> DEFINE job == Job("returned", t, TRUE)
<1> USE DEF FacadeInv, OperationAnswers, Event, engine, ready, lifecycle
<1>1. job \in Jobs /\ job.does = "returned"
  BY DEF Job, Jobs
<1>2. queue' \in Seq(Jobs) /\ Queued' = {job} /\ Queued = {}
  BY <1>1, FewJobs, EmptyQueue DEF Queued
<1>3. TypeOK'
  BY <1>2 DEF TypeOK
<1>4. QED
  BY <1>1, <1>2, <1>3 DEF Alone, Opener, OpenAlone, Admitted, LetsGoOn, Attended

LEMMA KeptByIdleTimeout ==
  ASSUME FacadeInv, IdleTimeoutFires
  PROVE  FacadeInv'
<1> DEFINE job == Job("suspend", Nobody, TRUE)
<1> USE DEF FacadeInv, IdleTimeoutFires, Event, engine, ready, lifecycle
<1>1. job \in Jobs /\ job.does = "suspend"
  BY DEF Job, Jobs
<1>2. /\ queue' \in Seq(Jobs) /\ Queued = {}
      /\ Queued' = IF suspended THEN {} ELSE {job}
  BY <1>1, FewJobs, EmptyQueue DEF Queued
<1>3. TypeOK'
  <2>1. timers' \in 0..1
    BY FacadeAssumption DEF TypeOK
  <2>2. QED
    BY <1>2, <2>1 DEF TypeOK
<1>4. Alone' /\ Opener' /\ Admitted'
  BY <1>1, <1>2 DEF Alone, Opener, OpenAlone, Admitted, LetsGoOn
<1>5. Attended'
  BY <1>1, <1>2 DEF Attended
<1>6. QED
  BY <1>3, <1>4, <1>5

-----------------------------------------------------------------------------
(* Microtasks.                                                               *)

Later == JobsOf(Tail(queue))

LEMMA FirstJob ==
  ASSUME FacadeInv, queue # << >>
  PROVE  /\ Head(queue) \in Queued /\ Head(queue) \in Jobs
         /\ Head(queue).ok \in BOOLEAN
<1>1. queue \in Seq(Jobs) /\ << >> \in Seq(Jobs)
  BY DEF FacadeInv, TypeOK
<1>2. Head(queue) \in Queued /\ Head(queue) \in Jobs
  BY <1>1, NextJobs, HeadTailProperties DEF Queued
<1>3. QED
  BY <1>2 DEF Jobs

\* The first job is done, others go to the end of the queue.
LEMMA Turn ==
  ASSUME FacadeInv, queue # << >>, NEW jobs \in Seq(Jobs), Then(jobs)
  PROVE  /\ Head(queue) \in Queued /\ Head(queue) \in Jobs
         /\ Queued = {Head(queue)} \cup Later
         /\ queue' \in Seq(Jobs)
         /\ Queued' = Later \cup JobsOf(jobs)
         /\ Head(queue).does \in {"opened", "ensured", "closed"}
              => Later = {} /\ Len(queue') = Len(jobs)
         /\ \A j \in Later : j.does \notin {"opened", "ensured", "closed"}
<1>1. queue \in Seq(Jobs)
  BY DEF FacadeInv, TypeOK
<1>2. /\ Head(queue) \in Queued
      /\ Queued = {Head(queue)} \cup Later
      /\ queue' \in Seq(Jobs)
      /\ Queued' = Later \cup JobsOf(jobs)
      /\ Len(queue) = 1 => Later = {}
      /\ Len(queue') = Len(queue) - 1 + Len(jobs)
  BY <1>1, NextJobs DEF Queued, Later, Then
<1>3. Head(queue) \in Jobs /\ Len(jobs) \in Nat
  BY <1>1, HeadTailProperties, LenProperties
<1>4. \A j \in Queued : j.does \in {"opened", "ensured", "closed"} => Len(queue) = 1
  BY DEF FacadeInv, Alone
<1>5. Head(queue).does \in {"opened", "ensured", "closed"}
        => Later = {} /\ Len(queue') = Len(jobs)
  <2>1. ASSUME Head(queue).does \in {"opened", "ensured", "closed"}
        PROVE  Len(queue) = 1
    BY <2>1, <1>2, <1>4
  <2>2. Len(queue) = 1 => Len(queue') = Len(jobs)
    BY <1>2, <1>3
  <2>3. QED
    BY <2>1, <2>2, <1>2
<1>6. \A j \in Later : j.does \notin {"opened", "ensured", "closed"}
  BY <1>2, <1>4
<1>7. QED
  BY <1>2, <1>3, <1>5, <1>6

LEMMA KeptByOpened ==
  ASSUME FacadeInv, Opened
  PROVE  FacadeInv'
<1> DEFINE job == Head(queue)
           next == [job EXCEPT !.does = "ensured"]
<1> USE DEF FacadeInv, Opened, Runs, engine, ready, lifecycle
<1>1. job \in Jobs /\ job \in Queued
  BY FirstJob
<1>2. next \in Jobs /\ next.does = "ensured" /\ next.task = job.task /\ next.ok = job.ok
  BY <1>1 DEF Jobs
<1>3. << next >> \in Seq(Jobs) /\ JobsOf(<< next >>) = {next} /\ Len(<< next >>) = 1
  BY <1>2, FewJobs
<1>4. queue' \in Seq(Jobs) /\ Queued' = {next} /\ Len(queue') = 1
  BY <1>3, Turn
<1>5. TypeOK'
  BY <1>1, <1>4 DEF TypeOK, Jobs
<1>6. Alone'
  BY <1>2, <1>4 DEF Alone
<1>7. Opener'
  BY <1>1, <1>2, <1>4 DEF Opener, OpenAlone
<1>8. Admitted'
  BY <1>2, <1>4 DEF Admitted, LetsGoOn
<1>9. Attended'
  <2>1. CASE job.ok
    BY <2>1, <1>2, <1>4 DEF Attended
  <2>2. CASE ~job.ok
    <3>1. Queued = {job}
      BY <1>3, Turn
    <3>2. QED
      BY <2>2, <3>1 DEF Attended
  <2>3. QED
    BY <2>1, <2>2
<1>10. QED
  BY <1>5, <1>6, <1>7, <1>8, <1>9

LEMMA KeptByEnsured ==
  ASSUME FacadeInv, Ensured
  PROVE  FacadeInv'
<1> DEFINE job  == Head(queue)
           wake == Job("wake", Nobody, job.ok)
           next == Resume(job.task, job.ok)
<1> USE DEF FacadeInv, Ensured, Runs, engine, ready, lifecycle
<1>1. job \in Jobs /\ job \in Queued
  BY FirstJob
<1>2. /\ wake \in Jobs /\ wake.does = "wake" /\ wake.ok = job.ok
      /\ next \in Jobs /\ next.does = IF job.ok THEN "ready" ELSE "returned"
  BY <1>1 DEF Jobs, Job, Resume
<1>3. << wake, next >> \in Seq(Jobs) /\ JobsOf(<< wake, next >>) = {wake, next}
  BY <1>2, FewJobs
<1>4. queue' \in Seq(Jobs) /\ Queued' = {wake, next} /\ Queued = {job}
  BY <1>3, Turn
<1>5. TypeOK'
  BY <1>4 DEF TypeOK
<1>6. Alone'
  BY <1>2, <1>4 DEF Alone
<1>7. \A t \in Tasks : call'[t] # "opening"
  BY <1>1 DEF Opener, OpenAlone, TypeOK
<1>8. Opener'
  BY <1>2, <1>4, <1>7 DEF Opener, OpenAlone
<1>9. Admitted'
  BY <1>1, <1>2, <1>4 DEF Admitted, LetsGoOn
<1>10. Attended'
  BY <1>2, <1>4 DEF Attended
<1>11. QED
  BY <1>5, <1>6, <1>8, <1>9, <1>10

\* What the waiters get to run.
LEMMA WakeJobs ==
  ASSUME FacadeInv, NEW ok \in BOOLEAN
  PROVE  LET jobs == [k \in DOMAIN waiters |-> Resume(waiters[k], ok)]
         IN  /\ jobs \in Seq(Jobs)
             /\ \A j \in JobsOf(jobs) :
                  j.does \in {"ready", "returned"} /\ (j.does = "ready" => ok)
<1> DEFINE jobs == [k \in DOMAIN waiters |-> Resume(waiters[k], ok)]
<1>1. waiters \in Seq(Tasks) /\ DOMAIN waiters = 1..Len(waiters) /\ Len(waiters) \in Nat
  BY LenProperties DEF FacadeInv, TypeOK
<1>2. \A k \in DOMAIN waiters :
        /\ Resume(waiters[k], ok) \in Jobs
        /\ Resume(waiters[k], ok).does = IF ok THEN "ready" ELSE "returned"
  <2>1. ASSUME NEW k \in DOMAIN waiters  PROVE waiters[k] \in Tasks
    BY <1>1, ElementOfSeq
  <2>2. QED
    BY <2>1 DEF Resume, Job, Jobs
<1>3. jobs \in Seq(Jobs)
  BY <1>1, <1>2
<1>4. QED
  BY <1>2, <1>3 DEF JobsOf

LEMMA KeptByWake ==
  ASSUME FacadeInv, Wake
  PROVE  FacadeInv'
<1> DEFINE job  == Head(queue)
           jobs == [k \in DOMAIN waiters |-> Resume(waiters[k], job.ok)]
<1> USE DEF FacadeInv, Wake, Runs, engine, ready, lifecycle
<1>1. job \in Jobs /\ job \in Queued /\ job.ok \in BOOLEAN
  BY FirstJob
<1>2. jobs \in Seq(Jobs) /\ \A j \in JobsOf(jobs) :
        j.does \in {"ready", "returned"} /\ (j.does = "ready" => job.ok)
  BY <1>1, WakeJobs
<1>3. /\ queue' \in Seq(Jobs)
      /\ Queued = {job} \cup Later /\ Queued' = Later \cup JobsOf(jobs)
      /\ \A j \in Later : j.does \notin {"opened", "ensured", "closed"}
  BY <1>2, Turn
<1>4. TypeOK'
  BY <1>3 DEF TypeOK
<1>5. Alone'
  BY <1>2, <1>3 DEF Alone
<1>6. Opener'
  BY <1>2, <1>3 DEF Opener, OpenAlone, TypeOK
<1>7. Admitted'
  BY <1>2, <1>3 DEF Admitted, LetsGoOn
<1>8. Attended'
  BY <1>3 DEF Attended
<1>9. QED
  BY <1>4, <1>5, <1>6, <1>7, <1>8

LEMMA KeptByReady ==
  ASSUME FacadeInv, Ready
  PROVE  FacadeInv'
<1> DEFINE job      == Head(queue)
           back     == Job("returned", job.task, TRUE)
           resumed  == Job("resumed", Nobody, TRUE)
           resuming == IF suspended THEN << resumed >> ELSE << >>
<1> USE DEF FacadeInv, Ready, Runs, engine, ready, lifecycle
<1>1. job \in Jobs /\ job \in Queued
  BY FirstJob
<1>2. /\ back \in Jobs /\ back.does = "returned"
      /\ resumed \in Jobs /\ resumed.does = "resumed"
  BY <1>1 DEF Jobs, Job
<1>3. /\ resuming \in Seq(Jobs) /\ JobsOf(resuming) \subseteq {resumed}
      /\ resuming \o << back >> \in Seq(Jobs)
      /\ JobsOf(resuming \o << back >>) \subseteq {resumed, back}
  <2>1. /\ << resumed >> \o << back >> = << resumed, back >>
        /\ << >> \o << back >> = << back >>
    BY <1>2, TwoJobs
  <2>2. CASE suspended
    BY <2>1, <2>2, <1>2, FewJobs
  <2>3. CASE ~suspended
    BY <2>1, <2>3, <1>2, FewJobs
  <2>4. QED
    BY <2>2, <2>3
<1>4. PICK jobs \in Seq(Jobs) : Then(jobs) /\ JobsOf(jobs) \subseteq {resumed, back}
  BY <1>3
<1>5. /\ queue' \in Seq(Jobs)
      /\ Queued = {job} \cup Later /\ Queued' \subseteq Later \cup {resumed, back}
      /\ \A j \in Later : j.does \notin {"opened", "ensured", "closed"}
  BY <1>4, Turn
<1>6. TypeOK'
  <2>1. timers' \in 0..1
    BY DEF ResetIdleTimer
  <2>2. call' \in [Tasks -> {"idle", "opening", "waiting", "ready", "working"}]
    BY DEF TypeOK
  <2>3. QED
    BY <1>5, <2>1, <2>2 DEF TypeOK
<1>7. Alone'
  BY <1>2, <1>5 DEF Alone
<1>8. Opener'
  BY <1>2, <1>5 DEF Opener, OpenAlone, TypeOK
<1>9. Admitted'
  BY <1>2, <1>5 DEF Admitted, LetsGoOn
<1>10. Attended'
  BY DEF Attended, ResetIdleTimer
<1>11. QED
  BY <1>6, <1>7, <1>8, <1>9, <1>10

LEMMA KeptByResumed ==
  ASSUME FacadeInv, Resumed
  PROVE  FacadeInv'
<1> DEFINE job == Head(queue)
<1> USE DEF FacadeInv, Resumed, Runs, engine, ready, lifecycle
<1>1. /\ queue' \in Seq(Jobs)
      /\ Queued = {job} \cup Later /\ Queued' = Later
      /\ \A j \in Later : j.does \notin {"opened", "ensured", "closed"}
  BY Turn, FewJobs, FirstJob
<1>2. TypeOK'
  BY <1>1 DEF TypeOK, ResetIdleTimer
<1>3. Alone' /\ Opener' /\ Admitted'
  BY <1>1 DEF Alone, Opener, OpenAlone, Admitted, LetsGoOn
<1>4. Attended'
  BY <1>1 DEF Attended, ResetIdleTimer
<1>5. QED
  BY <1>2, <1>3, <1>4

LEMMA KeptByReturned ==
  ASSUME FacadeInv, Returned
  PROVE  FacadeInv'
<1> DEFINE job == Head(queue)
<1> USE DEF FacadeInv, Returned, Runs, engine, ready, lifecycle
<1>1. /\ queue' \in Seq(Jobs)
      /\ Queued = {job} \cup Later /\ Queued' = Later
      /\ \A j \in Later : j.does \notin {"opened", "ensured", "closed"}
  BY Turn, FewJobs, FirstJob
<1>2. running' \in Tasks \cup {"app", Nobody}
  BY FirstJob DEF Jobs
<1>3. TypeOK'
  BY <1>1, <1>2 DEF TypeOK
<1>4. Alone' /\ Admitted' /\ Attended'
  BY <1>1 DEF Alone, Admitted, LetsGoOn, Attended
<1>5. Opener'
  BY <1>1 DEF Opener, OpenAlone, TypeOK
<1>6. QED
  BY <1>3, <1>4, <1>5

LEMMA KeptBySuspend ==
  ASSUME FacadeInv, Suspend
  PROVE  FacadeInv'
<1> DEFINE job == Head(queue)
<1> USE DEF FacadeInv, Suspend, Runs, engine, ready, lifecycle
<1>1. /\ queue' \in Seq(Jobs)
      /\ Queued = {job} \cup Later /\ Queued' = Later
      /\ \A j \in Later : j.does \notin {"opened", "ensured", "closed"}
  BY Turn, FewJobs, FirstJob
<1>2. closes' \in Nat /\ timers' \in 0..1
  BY DEF TypeOK
<1>3. TypeOK'
  BY <1>1, <1>2 DEF TypeOK
<1>4. Alone' /\ Opener' /\ Admitted'
  BY <1>1 DEF Alone, Opener, OpenAlone, Admitted, LetsGoOn
<1>5. Attended'
  <2>1. CASE suspended
    BY <2>1, <1>1 DEF Attended
  <2>2. CASE ~suspended
    <3>1. isOpen => closes' > 0
      BY <2>2 DEF TypeOK
    <3>2. QED
      BY <3>1 DEF Attended
  <2>3. QED
    BY <2>1, <2>2
<1>6. QED
  BY <1>3, <1>4, <1>5

LEMMA KeptByClosed ==
  ASSUME FacadeInv, Closed
  PROVE  FacadeInv'
<1> USE DEF FacadeInv, Closed, Runs, engine, ready, lifecycle
<1>1. queue' \in Seq(Jobs) /\ Queued' = {}
  BY Turn, FewJobs, FirstJob
<1>2. TypeOK'
  BY <1>1 DEF TypeOK
<1>3. QED
  BY <1>1, <1>2 DEF Alone, Opener, OpenAlone, Admitted, LetsGoOn, Attended

-----------------------------------------------------------------------------
LEMMA FacadeStep == FacadeInv /\ [Next]_vars => FacadeInv'
<1> SUFFICES ASSUME FacadeInv, [Next]_vars  PROVE FacadeInv'
  OBVIOUS
<1>1. ASSUME NEW t \in Tasks, Begin(t) \/ OpenAnswers(t) \/ OperationAnswers(t)
      PROVE  FacadeInv'
  BY <1>1, KeptByAlreadyOpen, KeptByWaitForOpen, KeptByStartOpen,
     KeptByOpenAnswers, KeptByOperationAnswers DEF Begin
<1>2. ASSUME CloseAnswers \/ AppPaused \/ IdleTimeoutFires
      PROVE  FacadeInv'
  BY <1>2, KeptByCloseAnswers, KeptByAppPaused, KeptByIdleTimeout
<1>3. ASSUME Microtask
      PROVE  FacadeInv'
  BY <1>3, KeptByOpened, KeptByEnsured, KeptByWake, KeptByReady, KeptByResumed,
     KeptByReturned, KeptBySuspend, KeptByClosed DEF Microtask
<1>4. CASE UNCHANGED vars
  BY <1>4 DEF vars, engine, ready, lifecycle, FacadeInv, TypeOK, Alone, Opener,
              OpenAlone, Admitted, Attended, Queued
<1>5. QED
  BY <1>1, <1>2, <1>3, <1>4 DEF Next

LEMMA FacadeCorrect == Spec => []FacadeInv
  BY FacadeInit, FacadeStep, PTL DEF Spec

\* Every variable of the facade keeps its type; one idle timer runs at most.
THEOREM FacadeTypes == Spec => []TypeOK
<1>1. FacadeInv => TypeOK
  BY DEF FacadeInv
<1>2. QED
  BY <1>1, FacadeCorrect, PTL

\* The engine is opened by one caller at a time (_ensureReady), however many
\* call, and whatever is closed meanwhile.
THEOREM OneOpen == Spec => []OpenAlone
<1>1. FacadeInv => OpenAlone
  BY DEF FacadeInv, Opener
<1>2. QED
  BY <1>1, FacadeCorrect, PTL

\* A call that _ensureReady let go on finds the engine open.
THEOREM Available == Spec => []AlwaysAvailable
<1>1. FacadeInv => AlwaysAvailable
  BY FirstJob DEF FacadeInv, Admitted, LetsGoOn, AlwaysAvailable
<1>2. QED
  BY <1>1, FacadeCorrect, PTL

\* An open engine is always on its way to be closed (LifecycleManager), unless
\* a close failed and nobody called since.
THEOREM WillBeClosed == Spec => []OnTheWayToClose
<1>1. FacadeInv => OnTheWayToClose
  BY EmptyQueue DEF FacadeInv, Attended, OnTheWayToClose
<1>2. QED
  BY <1>1, FacadeCorrect, PTL
=============================================================================
