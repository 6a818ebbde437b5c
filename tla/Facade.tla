------------------------------- MODULE Facade -------------------------------
(* The facade TorexStore (torexstore.dart) and its LifecycleManager: who     *)
(* opens the storage engine, who waits for it, and who closes it again.      *)
(*                                                                           *)
(* Dart runs one event handler at a time and then every microtask it queued, *)
(* first in first out, before the next event.  The queue is a variable; a    *)
(* continuation after an await is a microtask, and the answer of a file      *)
(* operation, a timer and a change of the application's state are events.    *)
(* What a call does in the engine, and how open and close do it, is the      *)
(* business of StorageEngine.                                                *)
EXTENDS Naturals, Sequences, FiniteSets

CONSTANTS Tasks,        \* the callers
          Nobody,       \* the task of a microtask that is no caller's
          IdleTimeout,  \* idleTimeout, in any unit
          Faults,       \* what can fail: a subset of {"open", "close"}
          MaxFaults,    \* bound: how often it does
          MaxPauses,    \* bound: how often the application is paused
          MaxCloses     \* bound: the closes under way together

ASSUME FacadeAssumption ==
  /\ Nobody \notin Tasks \cup {"app"}
  /\ IdleTimeout \in Nat /\ MaxFaults \in Nat /\ MaxPauses \in Nat /\ MaxCloses \in Nat

VARIABLES isOpen,     \* _engine.isOpen
          completer,  \* _initCompleter
          waiters,    \* the callers that await its future, first come first
          call,       \* what each caller is waiting for
          suspended,  \* _isSuspended
          timers,     \* the idle timers that run
          closes,     \* the closes of the engine that wait for a file
          queue,      \* the microtasks
          running,    \* whose code runs now and may call: a task whose call has
                      \* returned, any while an event of the application is
                      \* handled ("app"), nobody's in other events
          abandoned,  \* history: a close failed and no call came since
          pauses,     \* how often the application was paused
          faults      \* failures so far

engine    == <<isOpen, closes>>
ready     == <<completer, waiters>>
lifecycle == <<suspended, timers>>
vars      == <<engine, ready, call, lifecycle, queue, running, abandoned, pauses, faults>>

Job(does, t, ok) == [does |-> does, task |-> t, ok |-> ok]
Jobs == [does : {"opened", "ensured", "wake", "ready", "returned",
                 "suspend", "resumed", "closed"},
         task : Tasks \cup {Nobody}, ok : BOOLEAN]

TypeOK ==
  /\ isOpen \in BOOLEAN
  /\ completer \in {"null", "pending", "completed"}
  /\ waiters \in Seq(Tasks)
  /\ call \in [Tasks -> {"idle", "opening", "waiting", "ready", "working"}]
  /\ suspended \in BOOLEAN
  /\ timers \in 0..1
  /\ closes \in Nat
  /\ queue \in Seq(Jobs)
  /\ running \in Tasks \cup {"app", Nobody}
  /\ abandoned \in BOOLEAN
  /\ pauses \in 0..MaxPauses
  /\ faults \in 0..MaxFaults

Init ==
  /\ isOpen = FALSE
  /\ completer = "null"
  /\ waiters = << >>
  /\ call = [t \in Tasks |-> "idle"]
  /\ suspended = FALSE
  /\ timers = 0
  /\ closes = 0
  /\ queue = << >>
  /\ running = Nobody
  /\ abandoned = FALSE
  /\ pauses = 0
  /\ faults = 0

-----------------------------------------------------------------------------
\* A call, up to its first await: _ensureReady returns when the engine is open,
\* waits when somebody opens it, and else opens it.

Begins(t) ==
  /\ call[t] = "idle"
  /\ queue = << >> \/ running \in {t, "app"}
  /\ running' = IF queue = << >> THEN "app" ELSE running
  /\ UNCHANGED <<engine, lifecycle, abandoned, pauses, faults>>

AlreadyOpen(t) ==
  /\ Begins(t) /\ isOpen
  /\ call' = [call EXCEPT ![t] = "ready"]
  /\ queue' = Append(queue, Job("ready", t, TRUE))
  /\ UNCHANGED ready

GoesOn(t) ==  \* mutant: somebody opens it already, so go on
  /\ Begins(t) /\ ~isOpen
  /\ completer = "pending"
  /\ call' = [call EXCEPT ![t] = "ready"]
  /\ queue' = Append(queue, Job("ready", t, TRUE))
  /\ UNCHANGED ready

WaitForOpen(t) ==
  /\ Begins(t) /\ ~isOpen
  /\ completer = "pending"
  /\ call' = [call EXCEPT ![t] = "waiting"]
  /\ waiters' = Append(waiters, t)
  /\ UNCHANGED <<completer, queue>>

OpenAnyway(t) ==  \* mutant: the completer is not looked at
  /\ Begins(t) /\ ~isOpen
  /\ call' = [call EXCEPT ![t] = "opening"]
  /\ completer' = "pending"
  /\ waiters' = << >>
  /\ UNCHANGED queue

StartOpen(t) ==
  /\ Begins(t) /\ ~isOpen
  /\ completer # "pending"
  /\ call' = [call EXCEPT ![t] = "opening"]
  /\ completer' = "pending"
  /\ waiters' = << >>
  /\ UNCHANGED queue

-----------------------------------------------------------------------------
\* Events.  The one that ends a wait for a file queues the continuation.

Event == queue = << >> /\ running' = Nobody

\* The last file operation of open is done, or one of them has thrown.
OpenAnswers(t) ==
  /\ Event
  /\ call[t] = "opening"
  /\ \/ /\ queue' = << Job("opened", t, TRUE) >>
        /\ UNCHANGED faults
     \/ /\ "open" \in Faults /\ faults < MaxFaults
        /\ queue' = << Job("opened", t, FALSE) >>
        /\ faults' = faults + 1
  /\ UNCHANGED <<engine, ready, call, lifecycle, abandoned, pauses>>

\* The same for close.  A failure ends it, and the engine stays open.
CloseAnswers ==
  /\ Event
  /\ closes > 0
  /\ closes' = closes - 1
  /\ \/ /\ queue' = << Job("closed", Nobody, TRUE) >>
        /\ UNCHANGED <<abandoned, faults>>
     \/ /\ "close" \in Faults /\ faults < MaxFaults
        /\ faults' = faults + 1
        /\ abandoned' = TRUE
        /\ UNCHANGED queue
  /\ UNCHANGED <<isOpen, ready, call, lifecycle, pauses>>

\* The operation of a call is done.
OperationAnswers(t) ==
  /\ Event
  /\ call[t] = "working"
  /\ queue' = << Job("returned", t, TRUE) >>
  /\ UNCHANGED <<engine, ready, call, lifecycle, abandoned, pauses, faults>>

\* The bound on closes: each suspend of the queue may start one.
Suspending == {k \in DOMAIN queue : queue[k].does = "suspend"}
RoomToClose == closes + Cardinality(Suspending) < MaxCloses

\* _onAppPaused.  The callers may be told of the pause in the same event, and
\* before it; paused and detached may come in one event as well.
AppPausedMarks ==  \* mutant: suspended before the microtask that suspends
  /\ queue = << >> \/ running = "app"
  /\ RoomToClose
  /\ pauses < MaxPauses
  /\ pauses' = pauses + 1
  /\ running' = "app"
  /\ suspended' = TRUE
  /\ queue' = IF suspended THEN queue ELSE Append(queue, Job("suspend", Nobody, TRUE))
  /\ UNCHANGED <<engine, ready, call, timers, abandoned, faults>>

AppPaused ==
  /\ queue = << >> \/ running = "app"
  /\ RoomToClose
  /\ pauses < MaxPauses
  /\ pauses' = pauses + 1
  /\ running' = "app"
  /\ queue' = IF suspended THEN queue ELSE Append(queue, Job("suspend", Nobody, TRUE))
  /\ UNCHANGED <<engine, ready, call, lifecycle, abandoned, faults>>

IdleTimeoutFires ==
  /\ Event
  /\ RoomToClose
  /\ timers > 0
  /\ timers' = timers - 1
  /\ queue' = IF suspended THEN queue ELSE << Job("suspend", Nobody, TRUE) >>
  /\ UNCHANGED <<engine, ready, call, suspended, abandoned, pauses, faults>>

-----------------------------------------------------------------------------
\* Microtasks.

Runs(does, who) ==
  /\ queue # << >>
  /\ Head(queue).does = does
  /\ running' = who
  /\ UNCHANGED <<pauses, faults>>

Then(jobs) == queue' = Tail(queue) \o jobs

\* The end of the engine's open.
Opened ==
  /\ Runs("opened", Nobody)
  /\ isOpen' = (isOpen \/ Head(queue).ok)
  /\ Then(<< [Head(queue) EXCEPT !.does = "ensured"] >>)
  /\ UNCHANGED <<closes, ready, call, lifecycle, abandoned>>

\* _resetIdleTimer: the timer that runs is cancelled, another one starts.
AnotherTimer == timers' = timers + 1  \* mutant: nothing is cancelled

ResetIdleTimer == timers' = 1

\* What a caller goes on with when _ensureReady is done, or has thrown.
Resume(t, ok) == Job(IF ok THEN "ready" ELSE "returned", t, ok)

\* The end of _ensureReady for the caller that opened: it completes the
\* completer, with a value or with the error, and returns or throws.
EnsuredAlone ==  \* mutant: an error does not complete it
  LET job == Head(queue)
  IN  /\ Runs("ensured", Nobody)
      /\ completer' = "completed"
      /\ call' = [call EXCEPT ![job.task] = "ready"]
      /\ Then((IF job.ok THEN << Job("wake", Nobody, TRUE) >> ELSE << >>)
              \o << Resume(job.task, job.ok) >>)
      /\ UNCHANGED <<engine, waiters, lifecycle, abandoned>>

Ensured ==
  LET job == Head(queue)
  IN  /\ Runs("ensured", Nobody)
      /\ completer' = "completed"
      /\ call' = [call EXCEPT ![job.task] = "ready"]
      /\ Then(<< Job("wake", Nobody, job.ok), Resume(job.task, job.ok) >>)
      /\ UNCHANGED <<engine, waiters, lifecycle, abandoned>>

\* The completer's future reaches those who wait for it.
Wake ==
  LET ok == Head(queue).ok
  IN  /\ Runs("wake", Nobody)
      /\ waiters' = << >>
      /\ call' = [t \in Tasks |-> IF call[t] = "waiting" THEN "ready" ELSE call[t]]
      /\ Then([k \in DOMAIN waiters |-> Resume(waiters[k], ok)])
      /\ UNCHANGED <<engine, completer, lifecycle, abandoned>>

\* The caller goes on: recordActivity, then the operation, which answers from
\* memory or waits for a file.
ReadyStaysSuspended ==  \* mutant: activity starts the timer and nothing else
  LET t == Head(queue).task
  IN  /\ Runs("ready", Nobody)
      /\ ResetIdleTimer
      /\ abandoned' = FALSE
      /\ \/ /\ Then(<< Job("returned", t, TRUE) >>)
            /\ UNCHANGED call
         \/ /\ Then(<< >>)
            /\ call' = [call EXCEPT ![t] = "working"]
      /\ UNCHANGED <<engine, ready, suspended>>

Ready ==
  LET t == Head(queue).task
      resuming == IF suspended THEN << Job("resumed", Nobody, TRUE) >> ELSE << >>
  IN  /\ Runs("ready", Nobody)
      /\ suspended' = FALSE
      /\ ResetIdleTimer
      /\ abandoned' = FALSE
      /\ \/ /\ Then(resuming \o << Job("returned", t, TRUE) >>)
            /\ UNCHANGED call
         \/ /\ Then(resuming)
            /\ call' = [call EXCEPT ![t] = "working"]
      /\ UNCHANGED <<engine, ready>>

\* _resume after onResume, which does nothing: it starts the timer again.
Resumed ==
  /\ Runs("resumed", Nobody)
  /\ ResetIdleTimer
  /\ Then(<< >>)
  /\ UNCHANGED <<engine, ready, call, suspended, abandoned>>

\* The call returns or throws, and the code that made it goes on.
Returned ==
  LET t == Head(queue).task
  IN  /\ Runs("returned", t)
      /\ call' = [call EXCEPT ![t] = "idle"]
      /\ Then(<< >>)
      /\ UNCHANGED <<engine, ready, lifecycle, abandoned>>

\* suspend, with the engine's close up to its first await.
Suspend ==
  /\ Runs("suspend", Nobody)
  /\ Then(<< >>)
  /\ suspended' = TRUE
  /\ timers' = IF suspended THEN timers ELSE 0
  /\ closes' = IF ~suspended /\ isOpen THEN closes + 1 ELSE closes
  /\ UNCHANGED <<isOpen, ready, call, abandoned>>

\* The end of the engine's close.
Closed ==
  /\ Runs("closed", Nobody)
  /\ isOpen' = FALSE
  /\ Then(<< >>)
  /\ UNCHANGED <<closes, ready, call, lifecycle, abandoned>>

-----------------------------------------------------------------------------
Microtask == Opened \/ Ensured \/ Wake \/ Ready \/ Resumed \/ Returned \/ Suspend \/ Closed

Begin(t) == AlreadyOpen(t) \/ WaitForOpen(t) \/ StartOpen(t)

Next ==
  \/ \E t \in Tasks : Begin(t) \/ OpenAnswers(t) \/ OperationAnswers(t)
  \/ CloseAnswers \/ AppPaused \/ IdleTimeoutFires
  \/ Microtask

Spec == Init /\ [][Next]_vars

-----------------------------------------------------------------------------
(* Properties.                                                               *)

\* One open of the engine at a time, and none of an engine that is open:
\* StorageEngine relies on it.
OpenAlone ==
  /\ \A t, u \in Tasks : call[t] = "opening" /\ call[u] = "opening" => t = u
  /\ \A t \in Tasks : call[t] = "opening" => completer = "pending"

\* A caller that _ensureReady let go on finds the engine open when it uses it:
\* no call throws StateError, whatever closes and opens meanwhile.
AlwaysAvailable ==
  queue # << >> /\ Head(queue).does = "ready" => isOpen

\* Between two events an open engine is on its way to be closed: the timer
\* runs and will suspend, or a close is under way.  Only a close that failed
\* leaves it open with nobody to close it, until the next call.
OnTheWayToClose ==
  (queue = << >> /\ isOpen /\ ~abandoned)
    => closes > 0 \/ (timers > 0 /\ ~suspended)

-----------------------------------------------------------------------------
\* Liveness: the event loop runs its microtasks, and handles the answer of a
\* file operation even if other events keep coming (strong fairness: while one
\* is handled the answer has to wait).  A timer nothing cancels fires.
FairSpec ==
  /\ Spec
  /\ WF_vars(Microtask) /\ WF_vars(IdleTimeoutFires) /\ SF_vars(CloseAnswers)
  /\ \A t \in Tasks : SF_vars(OpenAnswers(t)) /\ SF_vars(OperationAnswers(t))

\* Callers that go on calling when a call has answered from memory keep the
\* event loop from its next event: an application must let it turn.
LoopTurns == []<>(queue = << >>)

\* Every call returns or throws, the ones that wait for another's open as well.
EveryCallReturns ==
  LoopTurns => \A t \in Tasks : call[t] # "idle" ~> call[t] = "idle"

\* An application that makes no more calls gets its engine closed, by the idle
\* timer if by nothing else, unless the close fails.
IdleCloses ==
  <>[](~abandoned /\ \A t \in Tasks : call[t] = "idle") => <>[]~isOpen

-----------------------------------------------------------------------------
(* What the documents of the repository promise, and the code does not keep. *)

\* TorexStoreConfig: a timeout of zero disables the idle timeout, so only a
\* pause of the application closes the engine.
ZeroDisables == IdleTimeout = 0 /\ pauses = 0 => closes = 0
=============================================================================
