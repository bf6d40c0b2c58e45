------------------------------- MODULE EventLoop -------------------------------
(***************************************************************************)
(* An event loop with a thread of its own (Net/Eventloop.cpp, auto_start), *)
(* and the threads that hand it functors and timers or tell it to quit.    *)
(*                                                                         *)
(* m_mutex guards the queue and the timers; m_quit, m_threadId and         *)
(* m_callingPendingFunctors are read by other threads without it.  Poll    *)
(* returns when the wakeup descriptor is readable or after 10 ms, so it is *)
(* never stuck; the property on wakeups says when it had to time out.  A   *)
(* functor is a number; what matters of a callback is which of the loop's  *)
(* own methods it calls.                                                   *)
(***************************************************************************)
EXTENDS Integers, Sequences, FiniteSets

CONSTANTS
    Threads,       \* threads other than the loop's
    Owner,         \* the one that creates the loop
    Self,          \* the loop's own thread
    Delays,        \* the delays given to RunAfter
    MaxFunctors,   \* bound: functors queued in a behaviour
    MaxTimers,     \* bound: timers set in a behaviour
    MaxClock       \* bound: the clock

ASSUME EventLoopAssumption ==
    /\ Owner \in Threads /\ Self \notin Threads
    /\ Delays \subseteq Nat
    /\ MaxFunctors \in Nat /\ MaxTimers \in Nat /\ MaxClock \in Nat

VARIABLES
    m_threadId, m_quit, m_callingPendingFunctors,
    m_pendingFunctors,
    m_delayed_tasks,   \* a set of timers
    wakeup,            \* is the wakeup descriptor readable
    pc,                \* where the loop's thread is
    functors,          \* what is left of the batch DoPendingFunctors swapped out
    ready,             \* what is left of the timers ProcessDelayedTasks took out
    call,              \* thread -> the call it is in the middle of
    now,               \* the clock
    posted, timed,     \* functors queued and timers set so far
    ran, fired         \* functors that ran, in order; timers that fired

loopVars == <<m_threadId, m_quit, m_callingPendingFunctors, pc, functors, ready, ran, fired>>
sharedVars == <<m_pendingFunctors, m_delayed_tasks, wakeup, posted, timed>>
vars == <<loopVars, sharedVars, call, now>>

Places == {"created", "started", "check", "poll", "read", "events", "swap", "functors",
           "take", "timers", "done"}
Sources == {"thread", "event", "functor", "timer"}
Functors == [n : 1..MaxFunctors, from : Sources]
Timers == [n : 1..MaxTimers, due : Nat]
NoCall == [op |-> "none"]
Calls == {NoCall, [op |-> "wake"]} \cup [op : {"timer"}, due : Nat]

Init ==
    /\ m_threadId = Owner
    /\ m_quit = FALSE
    /\ m_callingPendingFunctors = FALSE
    /\ m_pendingFunctors = <<>>
    /\ m_delayed_tasks = {}
    /\ wakeup = FALSE
    /\ pc = "created"
    /\ functors = <<>>
    /\ ready = {}
    /\ call = [t \in Threads |-> NoCall]
    /\ now = 0
    /\ posted = 0 /\ timed = 0
    /\ ran = <<>> /\ fired = {}

-----------------------------------------------------------------------------
(***************************************************************************)
(* The parts of QueueInLoop and RunAfter that hold m_mutex.                *)
(***************************************************************************)
PushFunctor(from) ==
    /\ posted < MaxFunctors
    /\ posted' = posted + 1
    /\ m_pendingFunctors' = Append(m_pendingFunctors, [n |-> posted + 1, from |-> from])
    /\ UNCHANGED <<m_delayed_tasks, timed>>

PushTimer(due) ==
    /\ timed < MaxTimers
    /\ timed' = timed + 1
    /\ m_delayed_tasks' = m_delayed_tasks \cup {[n |-> timed + 1, due |-> due]}
    /\ UNCHANGED <<m_pendingFunctors, posted>>

\* The loop's thread decides on a wakeup in QueueInLoop and RunAfter.
WakeupBySelf == wakeup' = (wakeup \/ m_callingPendingFunctors)

\* What a callback that runs in the loop's thread may do to its loop.
Callback(from) ==
    \/ UNCHANGED <<sharedVars, m_quit>>
    \/ PushFunctor(from) /\ WakeupBySelf /\ UNCHANGED m_quit
    \/ \E d \in Delays :
         PushTimer(now + d) /\ WakeupBySelf /\ UNCHANGED m_quit
    \/ m_quit' = TRUE /\ UNCHANGED sharedVars

-----------------------------------------------------------------------------
(***************************************************************************)
(* The loop's thread.                                                      *)
(***************************************************************************)
At(place) == pc = place

\* The thread that the constructor starts.
StartThread ==
    /\ At("created")
    /\ m_threadId' = Self
    /\ pc' = "started"
    /\ UNCHANGED <<m_quit, m_callingPendingFunctors, functors, ready, ran, fired, sharedVars,
                   call, now>>

\* Loop starts with m_quit = false.
EnterLoop ==
    /\ At("started")
    /\ m_quit' = FALSE
    /\ pc' = "check"
    /\ UNCHANGED <<m_threadId, m_callingPendingFunctors, functors, ready, ran, fired,
                   sharedVars, call, now>>

CheckQuit ==
    /\ At("check")
    /\ pc' = IF m_quit THEN "done" ELSE "poll"
    /\ UNCHANGED <<m_threadId, m_quit, m_callingPendingFunctors, functors, ready, ran, fired,
                   sharedVars, call, now>>

\* Poll returns with the wakeup channel among the active ones or without it.
Poll ==
    /\ At("poll")
    /\ pc' = IF wakeup THEN "read" ELSE "events"
    /\ UNCHANGED <<m_threadId, m_quit, m_callingPendingFunctors, functors, ready, ran, fired,
                   sharedVars, call, now>>

\* The wakeup descriptor is read until it is empty.
HandleWakeupRead ==
    /\ At("read")
    /\ wakeup' = FALSE
    /\ pc' = "events"
    /\ UNCHANGED <<m_threadId, m_quit, m_callingPendingFunctors, functors, ready, ran, fired,
                   m_pendingFunctors, m_delayed_tasks, posted, timed, call, now>>

\* The other channels' handlers, one of whose callbacks may call the loop.
HandleEvents ==
    /\ At("events")
    /\ Callback("event")
    /\ pc' = "swap"
    /\ UNCHANGED <<m_threadId, m_callingPendingFunctors, functors, ready, ran, fired, call, now>>

\* Faulty: the queue is copied, and emptied when the functors have run.
SwapFunctorsCopies ==
    /\ At("swap")
    /\ m_callingPendingFunctors' = TRUE
    /\ functors' = m_pendingFunctors
    /\ pc' = "functors"
    /\ UNCHANGED <<m_threadId, m_quit, ready, ran, fired, sharedVars, call, now>>

\* Faulty: one functor is taken, the queue is emptied.
SwapFunctorsTakesOne ==
    /\ At("swap")
    /\ m_callingPendingFunctors' = TRUE
    /\ functors' = IF m_pendingFunctors = <<>> THEN <<>> ELSE <<Head(m_pendingFunctors)>>
    /\ m_pendingFunctors' = <<>>
    /\ pc' = "functors"
    /\ UNCHANGED <<m_threadId, m_quit, ready, ran, fired, m_delayed_tasks, wakeup, posted,
                   timed, call, now>>

\* DoPendingFunctors up to the swap under m_mutex ...
SwapFunctors ==
    /\ At("swap")
    /\ m_callingPendingFunctors' = TRUE
    /\ functors' = m_pendingFunctors
    /\ m_pendingFunctors' = <<>>
    /\ pc' = "functors"
    /\ UNCHANGED <<m_threadId, m_quit, ready, ran, fired, m_delayed_tasks, wakeup, posted,
                   timed, call, now>>

\* ... each functor, without the mutex ...
RunFunctor ==
    /\ At("functors")
    /\ functors # <<>>
    /\ functors' = Tail(functors)
    /\ ran' = Append(ran, Head(functors))
    /\ Callback("functor")
    /\ UNCHANGED <<m_threadId, m_callingPendingFunctors, pc, ready, fired, call, now>>

\* Faulty: a loop that is told to quit leaves in the middle of a batch.
EndFunctorsOnQuit ==
    /\ At("functors")
    /\ functors = <<>> \/ m_quit
    /\ m_callingPendingFunctors' = FALSE
    /\ pc' = "take"
    /\ UNCHANGED <<m_threadId, m_quit, functors, ready, ran, fired, sharedVars, call, now>>

\* ... and the end of it.
EndFunctors ==
    /\ At("functors")
    /\ functors = <<>>
    /\ m_callingPendingFunctors' = FALSE
    /\ pc' = "take"
    /\ UNCHANGED <<m_threadId, m_quit, functors, ready, ran, fired, sharedVars, call, now>>

\* Faulty: a timer that is due this very moment is dropped.
TakeTimersStrictly ==
    /\ At("take")
    /\ ready' = {x \in m_delayed_tasks : x.due < now}
    /\ m_delayed_tasks' = {x \in m_delayed_tasks : x.due > now}
    /\ pc' = "timers"
    /\ UNCHANGED <<m_threadId, m_quit, m_callingPendingFunctors, functors, ran, fired,
                   m_pendingFunctors, wakeup, posted, timed, call, now>>

\* ProcessDelayedTasks: what is due is taken out under m_mutex ...
TakeTimers ==
    /\ At("take")
    /\ ready' = {x \in m_delayed_tasks : x.due <= now}
    /\ m_delayed_tasks' = {x \in m_delayed_tasks : x.due > now}
    /\ pc' = "timers"
    /\ UNCHANGED <<m_threadId, m_quit, m_callingPendingFunctors, functors, ran, fired,
                   m_pendingFunctors, wakeup, posted, timed, call, now>>

\* ... and called, earliest first; the heap decides between equals.
RunTimer ==
    /\ At("timers")
    /\ \E x \in ready :
         /\ \A y \in ready : x.due <= y.due
         /\ ready' = ready \ {x}
         /\ fired' = fired \cup {x.n}
    /\ Callback("timer")
    /\ UNCHANGED <<m_threadId, m_callingPendingFunctors, pc, functors, ran, call, now>>

EndTimers ==
    /\ At("timers")
    /\ ready = {}
    /\ pc' = "check"
    /\ UNCHANGED <<m_threadId, m_quit, m_callingPendingFunctors, functors, ready, ran, fired,
                   sharedVars, call, now>>

-----------------------------------------------------------------------------
(***************************************************************************)
(* Other threads.  RunInLoop and QueueInLoop push under the mutex and then *)
(* wake the loop, RunAfter reads the clock first and wakes the loop before *)
(* it lets go of the mutex, Quit sets m_quit and then wakes the loop.  The *)
(* creator counts as the loop's thread until the new thread has said which *)
(* it is: its RunInLoop then runs the functor at once, without the queue.  *)
(***************************************************************************)
MayCall(t) == call[t] = NoCall

InCall(t, op) == call[t].op = op

Wakes(t) == m_threadId # t \/ m_callingPendingFunctors

\* QueueInLoop, as RunInLoop calls it for a thread that is not the loop's.
RunInLoop(t) ==
    /\ MayCall(t)
    /\ m_threadId # t
    /\ PushFunctor("thread")
    /\ call' = [call EXCEPT ![t] = [op |-> "wake"]]
    /\ UNCHANGED <<loopVars, wakeup, now>>

\* Faulty: only a loop that is running functors is woken.
WakeupIfCalling(t) ==
    /\ InCall(t, "wake")
    /\ wakeup' = (wakeup \/ m_callingPendingFunctors)
    /\ call' = [call EXCEPT ![t] = NoCall]
    /\ UNCHANGED <<loopVars, m_pendingFunctors, m_delayed_tasks, posted, timed, now>>

Wakeup(t) ==
    /\ InCall(t, "wake")
    /\ wakeup' = (wakeup \/ Wakes(t))
    /\ call' = [call EXCEPT ![t] = NoCall]
    /\ UNCHANGED <<loopVars, m_pendingFunctors, m_delayed_tasks, posted, timed, now>>

BeginRunAfter(t) ==
    /\ MayCall(t)
    /\ timed < MaxTimers
    /\ \E d \in Delays :
         call' = [call EXCEPT ![t] = [op |-> "timer", due |-> now + d]]
    /\ UNCHANGED <<loopVars, sharedVars, now>>

EndRunAfter(t) ==
    /\ InCall(t, "timer")
    /\ PushTimer(call[t].due)
    /\ wakeup' = (wakeup \/ Wakes(t))
    /\ call' = [call EXCEPT ![t] = NoCall]
    /\ UNCHANGED <<loopVars, now>>

\* Faulty: only a thread that counts as the loop's wakes it.
QuitUnwoken(t) ==
    /\ MayCall(t)
    /\ m_quit' = TRUE
    /\ call' = [call EXCEPT ![t] = IF m_threadId = t THEN [op |-> "wake"] ELSE @]
    /\ UNCHANGED <<m_threadId, m_callingPendingFunctors, pc, functors, ready, ran, fired,
                   sharedVars, now>>

\* The creator does not wake a loop whose thread has not said yet who it is, and
\* EnterLoop forgets what was asked before.
Quit(t) ==
    /\ MayCall(t)
    /\ m_quit' = TRUE
    /\ call' = [call EXCEPT ![t] = [op |-> "wake"]]
    /\ UNCHANGED <<m_threadId, m_callingPendingFunctors, pc, functors, ready, ran, fired,
                   sharedVars, now>>

Tick ==
    /\ now < MaxClock
    /\ now' = now + 1
    /\ UNCHANGED <<loopVars, sharedVars, call>>

LoopStep ==
    \/ StartThread \/ EnterLoop \/ CheckQuit \/ Poll \/ HandleWakeupRead \/ HandleEvents
    \/ SwapFunctors \/ RunFunctor \/ EndFunctors
    \/ TakeTimers \/ RunTimer \/ EndTimers

ThreadStep(t) ==
    \/ RunInLoop(t) \/ Wakeup(t) \/ BeginRunAfter(t) \/ EndRunAfter(t) \/ Quit(t)

Next == LoopStep \/ (\E t \in Threads : ThreadStep(t)) \/ Tick

Spec == Init /\ [][Next]_vars

(***************************************************************************)
(* The operating system runs the loop's thread, Poll times out, and time   *)
(* passes.                                                                 *)
(***************************************************************************)
FairSpec == Spec /\ WF_vars(LoopStep) /\ WF_vars(Tick)

-----------------------------------------------------------------------------
(***************************************************************************)
(* The state is of its type; a batch exists only while it runs, and every  *)
(* functor and timer is one that was handed over.                          *)
(***************************************************************************)
TypeOK ==
    /\ m_threadId \in Threads \cup {Self}
    /\ m_quit \in BOOLEAN /\ m_callingPendingFunctors \in BOOLEAN
    /\ wakeup \in BOOLEAN
    /\ pc \in Places
    /\ m_pendingFunctors \in Seq(Functors)
    /\ functors \in Seq(Functors)
    /\ ran \in Seq(Functors)
    /\ m_delayed_tasks \subseteq Timers /\ ready \subseteq Timers
    /\ posted \in 0..MaxFunctors /\ timed \in 0..MaxTimers /\ now \in Nat
    /\ call \in [Threads -> Calls]
    /\ pc # "functors" => functors = <<>>
    /\ pc # "timers" => ready = {}

(***************************************************************************)
(* Functors run in the order they were handed over, each once, whoever     *)
(* hands them over while a batch runs (refinement of FunctorQueue).        *)
(***************************************************************************)
Queue == INSTANCE FunctorQueue
           WITH queue <- functors \o m_pendingFunctors, ran <- ran
QueueSpec == Queue!Spec

(***************************************************************************)
(* The loop does not go to sleep on work: when it polls and functors of    *)
(* other threads, or of a functor, are queued, it has been woken or is     *)
(* about to be (Eventloop.cpp:244: the two cases that need a wakeup).      *)
(***************************************************************************)
NoSleepOnWork ==
    pc = "poll" /\ (\E i \in DOMAIN m_pendingFunctors :
                      m_pendingFunctors[i].from \in {"thread", "functor"})
        => wakeup \/ \E t \in Threads : InCall(t, "wake")

(***************************************************************************)
(* Nor does it go to sleep on being told to quit, by whatever thread and   *)
(* at whatever moment (Eventloop.cpp:203: a poll that blocks is woken): it *)
(* ends after this round.                                                  *)
(***************************************************************************)
NoSleepOnQuit ==
    pc = "poll" /\ m_quit => wakeup \/ \E t \in Threads : InCall(t, "wake")

(***************************************************************************)
(* A queued functor runs, unless the loop ends.                            *)
(***************************************************************************)
Queued(n) == \E i \in DOMAIN m_pendingFunctors : m_pendingFunctors[i].n = n
HasRun(n) == \E i \in DOMAIN ran : ran[i].n = n
EveryFunctorRuns ==
    \A n \in 1..MaxFunctors : Queued(n) ~> HasRun(n) \/ pc = "done"

(***************************************************************************)
(* A timer that was set fires, unless the loop ends.                       *)
(***************************************************************************)
TimersFire ==
    \A n \in 1..MaxTimers :
        (\E x \in m_delayed_tasks : x.n = n /\ x.due <= MaxClock)
            ~> n \in fired \/ pc = "done"

=============================================================================
