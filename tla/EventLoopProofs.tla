---------------------------- MODULE EventLoopProofs ----------------------------
(***************************************************************************)
(* Proofs about EventLoop: its types, that it sleeps neither on work nor   *)
(* on being told to quit, and that it implements FunctorQueue.             *)
(***************************************************************************)
EXTENDS EventLoop, SequenceTheorems, TLAPS

USE EventLoopAssumption

(***************************************************************************)
(* What the threads agree on: m_callingPendingFunctors is the loop being   *)
(* in a batch, and past the start of its thread m_threadId is its own.     *)
(***************************************************************************)
Agreement ==
    /\ m_callingPendingFunctors = (pc = "functors")
    /\ pc # "created" => m_threadId = Self

IInv == TypeOK /\ Agreement

(***************************************************************************)
(* One lemma per way a step can use the parts of QueueInLoop and RunAfter. *)
(***************************************************************************)
LEMMA PushFunctorTypes ==
    ASSUME TypeOK, NEW from \in Sources, PushFunctor(from)
    PROVE  /\ m_pendingFunctors' \in Seq(Functors)
           /\ posted' \in 0..MaxFunctors
           /\ m_delayed_tasks' \subseteq Timers
           /\ timed' \in 0..MaxTimers
<1>1. [n |-> posted + 1, from |-> from] \in Functors
  BY DEF TypeOK, PushFunctor, Functors
<1>2. m_pendingFunctors' \in Seq(Functors)
  BY <1>1, AppendProperties DEF TypeOK, PushFunctor
<1> QED
  BY <1>2 DEF TypeOK, PushFunctor

LEMMA PushTimerTypes ==
    ASSUME TypeOK, NEW due \in Nat, PushTimer(due)
    PROVE  /\ m_pendingFunctors' \in Seq(Functors)
           /\ posted' \in 0..MaxFunctors
           /\ m_delayed_tasks' \subseteq Timers
           /\ timed' \in 0..MaxTimers
<1>1. [n |-> timed + 1, due |-> due] \in Timers
  BY DEF TypeOK, PushTimer, Timers
<1> QED
  BY <1>1 DEF TypeOK, PushTimer

LEMMA CallbackTypes ==
    ASSUME TypeOK, NEW from \in Sources, Callback(from)
    PROVE  /\ m_pendingFunctors' \in Seq(Functors)
           /\ posted' \in 0..MaxFunctors
           /\ m_delayed_tasks' \subseteq Timers
           /\ timed' \in 0..MaxTimers
           /\ wakeup' \in BOOLEAN /\ m_quit' \in BOOLEAN
<1>1. CASE UNCHANGED <<sharedVars, m_quit>>
  BY <1>1 DEF TypeOK, sharedVars
<1>2. CASE PushFunctor(from) /\ WakeupBySelf /\ UNCHANGED m_quit
  BY <1>2, PushFunctorTypes DEF TypeOK, WakeupBySelf
<1>3. ASSUME NEW d \in Delays,
             PushTimer(now + d) /\ WakeupBySelf /\ UNCHANGED m_quit
      PROVE  /\ m_pendingFunctors' \in Seq(Functors)
             /\ posted' \in 0..MaxFunctors
             /\ m_delayed_tasks' \subseteq Timers
             /\ timed' \in 0..MaxTimers
             /\ wakeup' \in BOOLEAN /\ m_quit' \in BOOLEAN
  <2>1. now + d \in Nat
    BY DEF TypeOK
  <2> QED
    BY <1>3, <2>1, PushTimerTypes DEF TypeOK, WakeupBySelf
<1>4. CASE m_quit' = TRUE /\ UNCHANGED sharedVars
  BY <1>4 DEF TypeOK, sharedVars
<1> QED
  BY <1>1, <1>2, <1>3, <1>4 DEF Callback


LEMMA InitIInv == Init => IInv
<1> SUFFICES ASSUME Init PROVE IInv
  OBVIOUS
<1>1. \A S : <<>> \in Seq(S)
  BY EmptySeq
<1>2. call \in [Threads -> Calls]
  BY DEF Init, Calls
<1>3. m_pendingFunctors \in Seq(Functors) /\ functors \in Seq(Functors) /\ ran \in Seq(Functors)
  BY <1>1 DEF Init
<1>4. Agreement
  BY DEF Init, Agreement
<1>5. posted \in 0..MaxFunctors /\ timed \in 0..MaxTimers /\ now \in Nat
  BY DEF Init
<1>6. /\ m_threadId \in Threads \cup {Self} /\ pc \in Places
      /\ m_quit \in BOOLEAN /\ m_callingPendingFunctors \in BOOLEAN
      /\ wakeup \in BOOLEAN
      /\ m_delayed_tasks \subseteq Timers /\ ready \subseteq Timers
  BY DEF Init, Places
<1> QED
  BY <1>2, <1>3, <1>4, <1>5, <1>6 DEF Init, IInv, TypeOK

(***************************************************************************)
(* Every step of the loop's thread keeps IInv ...                          *)
(***************************************************************************)
LEMMA LoopStepIInv ==
    ASSUME IInv, LoopStep
    PROVE  IInv'
<1> USE DEF IInv, Agreement, At
<1>1. CASE StartThread
  BY <1>1 DEF TypeOK, StartThread, sharedVars, Places
<1>2. CASE EnterLoop
  BY <1>2 DEF TypeOK, EnterLoop, sharedVars, Places
<1>3. CASE CheckQuit
  BY <1>3 DEF TypeOK, CheckQuit, sharedVars, Places
<1>4. CASE Poll \/ HandleWakeupRead
  BY <1>4 DEF TypeOK, Poll, HandleWakeupRead, sharedVars, Places
<1>5. CASE HandleEvents
  <2>1. Callback("event")
    BY <1>5 DEF HandleEvents
  <2> QED
    BY <1>5, <2>1, CallbackTypes DEF TypeOK, HandleEvents, Places, Sources
<1>6. CASE SwapFunctors
  <2>1. m_pendingFunctors' \in Seq(Functors)
    BY <1>6, EmptySeq DEF SwapFunctors
  <2> QED
    BY <1>6, <2>1 DEF TypeOK, SwapFunctors, Places
<1>7. CASE RunFunctor
  <2>1. Callback("functor")
    BY <1>7 DEF RunFunctor
  <2>2. functors' \in Seq(Functors) /\ Head(functors) \in Functors
    BY <1>7, HeadTailProperties DEF TypeOK, RunFunctor
  <2>3. ran' \in Seq(Functors)
    BY <1>7, <2>2, AppendProperties DEF TypeOK, RunFunctor
  <2> QED
    BY <1>7, <2>1, <2>2, <2>3, CallbackTypes DEF TypeOK, RunFunctor, Sources
<1>8. CASE EndFunctors
  BY <1>8 DEF TypeOK, EndFunctors, sharedVars, Places
<1>9. CASE TakeTimers
  BY <1>9 DEF TypeOK, TakeTimers, Places
<1>10. CASE RunTimer
  <2>1. Callback("timer")
    BY <1>10 DEF RunTimer
  <2>2. ready' \subseteq Timers
    BY <1>10 DEF TypeOK, RunTimer
  <2> QED
    BY <1>10, <2>1, <2>2, CallbackTypes DEF TypeOK, RunTimer, Sources
<1>11. CASE EndTimers
  BY <1>11 DEF TypeOK, EndTimers, sharedVars, Places
<1> QED
  BY <1>1, <1>2, <1>3, <1>4, <1>5, <1>6, <1>7, <1>8, <1>9, <1>10, <1>11 DEF LoopStep

(***************************************************************************)
(* ... and so does every step of another thread.                           *)
(***************************************************************************)
LEMMA ThreadStepIInv ==
    ASSUME IInv, NEW t \in Threads, ThreadStep(t)
    PROVE  IInv'
<1> USE DEF IInv, Agreement, loopVars
<1>1. CASE RunInLoop(t)
  <2>1. PushFunctor("thread")
    BY <1>1 DEF RunInLoop
  <2>2. call' \in [Threads -> Calls]
    BY <1>1 DEF TypeOK, RunInLoop, Calls
  <2> QED
    BY <1>1, <2>1, <2>2, PushFunctorTypes DEF TypeOK, RunInLoop, Sources
<1>2. CASE Wakeup(t)
  <2>1. call' \in [Threads -> Calls]
    BY <1>2 DEF TypeOK, Wakeup, Calls
  <2> QED
    BY <1>2, <2>1 DEF TypeOK, Wakeup
<1>3. CASE BeginRunAfter(t)
  <2>1. PICK d \in Delays : call' = [call EXCEPT ![t] = [op |-> "timer", due |-> now + d]]
    BY <1>3 DEF BeginRunAfter
  <2>2. now + d \in Nat
    BY DEF TypeOK
  <2>3. call' \in [Threads -> Calls]
    BY <2>1, <2>2 DEF TypeOK, Calls
  <2> QED
    BY <1>3, <2>3 DEF TypeOK, BeginRunAfter, sharedVars
<1>4. CASE EndRunAfter(t)
  <2>1. call[t].due \in Nat
    BY <1>4 DEF TypeOK, EndRunAfter, InCall, Calls, NoCall
  <2>2. PushTimer(call[t].due)
    BY <1>4 DEF EndRunAfter
  <2>3. call' \in [Threads -> Calls]
    BY <1>4 DEF TypeOK, EndRunAfter, Calls
  <2> QED
    BY <1>4, <2>1, <2>2, <2>3, PushTimerTypes DEF TypeOK, EndRunAfter
<1>5. CASE Quit(t)
  <2>1. call' \in [Threads -> Calls]
    BY <1>5 DEF TypeOK, Quit, Calls
  <2> QED
    BY <1>5, <2>1 DEF TypeOK, Quit, sharedVars
<1> QED
  BY <1>1, <1>2, <1>3, <1>4, <1>5 DEF ThreadStep

LEMMA NextIInv == IInv /\ [Next]_vars => IInv'
<1>1. ASSUME IInv, LoopStep PROVE IInv'
  BY <1>1, LoopStepIInv
<1>2. ASSUME IInv, NEW t \in Threads, ThreadStep(t) PROVE IInv'
  BY <1>2, ThreadStepIInv
<1>3. ASSUME IInv, Tick PROVE IInv'
  BY <1>3 DEF IInv, TypeOK, Agreement, Tick, loopVars, sharedVars
<1>4. ASSUME IInv, UNCHANGED vars PROVE IInv'
  BY <1>4 DEF IInv, TypeOK, Agreement, vars, loopVars, sharedVars
<1> QED
  BY <1>1, <1>2, <1>3, <1>4 DEF Next

(***************************************************************************)
(* In every behaviour the state is of its type and the threads agree on    *)
(* who runs the loop.                                                      *)
(***************************************************************************)
THEOREM LoopTypes == Spec => []TypeOK
<1>1. Spec => []IInv
  BY InitIInv, NextIInv, PTL DEF Spec
<1> QED
  BY <1>1, PTL DEF IInv

-----------------------------------------------------------------------------
(***************************************************************************)
(* The loop does not sleep on work.  The strengthening holds everywhere    *)
(* but between Poll and the swap, and says who is about to wake the loop:  *)
(* a thread that the loop does not take for itself.                        *)
(***************************************************************************)
Needy(s) == \E i \in DOMAIN s : s[i].from \in {"thread", "functor"}

WillWake == wakeup \/ \E t \in Threads : InCall(t, "wake") /\ t # m_threadId

WakeInv == pc \notin {"read", "events", "swap"} /\ Needy(m_pendingFunctors) => WillWake

LEMMA NeedyAppend ==
    ASSUME NEW s \in Seq(Functors), NEW f \in Functors,
           f.from \notin {"thread", "functor"}, Needy(Append(s, f))
    PROVE  Needy(s)
<1>1. /\ Append(s, f)[Len(s) + 1] = f
      /\ \A i \in 1..Len(s) : Append(s, f)[i] = s[i]
      /\ Len(Append(s, f)) = Len(s) + 1 /\ Append(s, f) \in Seq(Functors)
  BY AppendProperties
<1>2. PICK i \in 1..(Len(s) + 1) : Append(s, f)[i].from \in {"thread", "functor"}
  BY <1>1, LenProperties DEF Needy
<1>3. i \in 1..Len(s)
  BY <1>1, <1>2, LenProperties
<1> QED
  BY <1>1, <1>2, <1>3, LenProperties DEF Needy

(***************************************************************************)
(* A callback outside a batch leaves no new work to wake for, one inside a *)
(* batch wakes the loop itself.                                            *)
(***************************************************************************)
LEMMA CallbackWakes ==
    ASSUME TypeOK, NEW from \in Sources, Callback(from),
           from \in {"thread", "functor"} => m_callingPendingFunctors
    PROVE  /\ wakeup => wakeup'
           /\ Needy(m_pendingFunctors') => Needy(m_pendingFunctors) \/ wakeup'
<1>1. CASE UNCHANGED <<sharedVars, m_quit>>
  BY <1>1 DEF sharedVars
<1>2. CASE PushFunctor(from) /\ WakeupBySelf /\ UNCHANGED m_quit
  <2>1. CASE m_callingPendingFunctors
    BY <1>2, <2>1 DEF WakeupBySelf
  <2>2. CASE from \notin {"thread", "functor"}
    <3>1. [n |-> posted + 1, from |-> from] \in Functors
      BY <1>2 DEF TypeOK, PushFunctor, Functors
    <3> QED
      BY <1>2, <2>2, <3>1, NeedyAppend DEF TypeOK, PushFunctor, WakeupBySelf
  <2> QED
    BY <2>1, <2>2
<1>3. CASE \E d \in Delays :
             PushTimer(now + d) /\ WakeupBySelf /\ UNCHANGED m_quit
  BY <1>3 DEF PushTimer, WakeupBySelf
<1>4. CASE m_quit' = TRUE /\ UNCHANGED sharedVars
  BY <1>4 DEF sharedVars
<1> QED
  BY <1>1, <1>2, <1>3, <1>4 DEF Callback

LEMMA LoopStepWakes ==
    ASSUME IInv, WakeInv, LoopStep
    PROVE  WakeInv'
<1> USE DEF WakeInv, WillWake, InCall, At
<1>1. CASE StartThread
  BY <1>1 DEF StartThread, sharedVars
<1>2. CASE EnterLoop \/ CheckQuit \/ EndFunctors \/ EndTimers
  BY <1>2 DEF EnterLoop, CheckQuit, EndFunctors, EndTimers, sharedVars
<1>3. CASE Poll \/ HandleWakeupRead
  BY <1>3 DEF Poll, HandleWakeupRead, sharedVars
<1>4. CASE HandleEvents
  BY <1>4 DEF HandleEvents
<1>5. CASE SwapFunctors
  BY <1>5 DEF SwapFunctors, Needy
<1>6. CASE RunFunctor
  <2>1. Callback("functor") /\ m_callingPendingFunctors
    BY <1>6 DEF RunFunctor, IInv, Agreement
  <2> QED
    BY <1>6, <2>1, CallbackWakes DEF RunFunctor, IInv, Sources
<1>7. CASE TakeTimers
  BY <1>7 DEF TakeTimers
<1>8. CASE RunTimer
  <2>1. Callback("timer")
    BY <1>8 DEF RunTimer
  <2> QED
    BY <1>8, <2>1, CallbackWakes DEF RunTimer, IInv, Sources
<1> QED
  BY <1>1, <1>2, <1>3, <1>4, <1>5, <1>6, <1>7, <1>8 DEF LoopStep

(***************************************************************************)
(* A thread that makes work is one that will wake the loop, and no step of *)
(* a thread takes the promise of another one away.                         *)
(***************************************************************************)
LEMMA ThreadStepWakes ==
    ASSUME IInv, WakeInv, NEW t \in Threads, ThreadStep(t)
    PROVE  WakeInv'
<1> USE DEF WakeInv, WillWake, InCall, loopVars
<1>1. \A u \in Threads \ {t} : call'[u] = call[u]
  BY DEF IInv, TypeOK, ThreadStep, RunInLoop, Wakeup, BeginRunAfter, EndRunAfter, Quit
<1>2. CASE RunInLoop(t)
  <2>1. call'[t].op = "wake" /\ m_threadId' # t
    BY <1>2 DEF RunInLoop, IInv, TypeOK
  <2> QED
    BY <2>1
<1>3. CASE Wakeup(t)
  <2>1. CASE t # m_threadId
    BY <1>3, <2>1 DEF Wakeup, Wakes
  <2>2. CASE t = m_threadId
    BY <1>1, <1>3, <2>2 DEF Wakeup
  <2> QED
    BY <2>1, <2>2
<1>4. CASE BeginRunAfter(t)
  BY <1>1, <1>4 DEF BeginRunAfter, MayCall, NoCall, sharedVars
<1>5. CASE EndRunAfter(t)
  BY <1>1, <1>5 DEF EndRunAfter, PushTimer
<1>6. CASE Quit(t)
  BY <1>1, <1>6 DEF Quit, MayCall, NoCall, sharedVars
<1> QED
  BY <1>2, <1>3, <1>4, <1>5, <1>6 DEF ThreadStep

(***************************************************************************)
(* The loop does not go to sleep on work of another thread or of a functor *)
(* (QueueInLoop's two cases that need a wakeup, Eventloop.cpp:244).        *)
(***************************************************************************)
THEOREM NeverSleepsOnWork == Spec => []NoSleepOnWork
<1>1. Init => WakeInv
  BY DEF Init, WakeInv, Needy
<1>2. ASSUME IInv, WakeInv, [Next]_vars PROVE WakeInv'
  <2>1. CASE LoopStep
    BY <1>2, <2>1, LoopStepWakes
  <2>2. ASSUME NEW t \in Threads, ThreadStep(t) PROVE WakeInv'
    BY <1>2, <2>2, ThreadStepWakes
  <2>3. CASE Tick
    BY <1>2, <2>3 DEF Tick, WakeInv, WillWake, InCall, loopVars, sharedVars
  <2>4. CASE UNCHANGED vars
    BY <1>2, <2>4 DEF vars, WakeInv, WillWake, InCall, loopVars, sharedVars
  <2> QED
    BY <1>2, <2>1, <2>2, <2>3, <2>4 DEF Next
<1>3. WakeInv => NoSleepOnWork
  BY DEF WakeInv, WillWake, Needy, NoSleepOnWork
<1> QED
  BY <1>1, <1>2, <1>3, InitIInv, NextIInv, PTL DEF Spec

-----------------------------------------------------------------------------
(***************************************************************************)
(* Nor does it sleep on being told to quit.  A loop that goes to sleep has *)
(* just read m_quit; whoever sets it from then on is another thread, and   *)
(* about to wake the loop.                                                 *)
(***************************************************************************)
QuitInv == pc = "poll" /\ m_quit => WillWake

LEMMA LoopStepQuits ==
    ASSUME IInv, QuitInv, LoopStep
    PROVE  QuitInv'
<1>1. CASE CheckQuit
  BY <1>1 DEF CheckQuit, At, QuitInv
<1>2. CASE ~CheckQuit
  <2>1. pc' # "poll"
    BY <1>2 DEF LoopStep, StartThread, EnterLoop, Poll, HandleWakeupRead, HandleEvents,
                SwapFunctors, RunFunctor, EndFunctors, TakeTimers, RunTimer, EndTimers, At
  <2> QED
    BY <2>1 DEF QuitInv
<1> QED
  BY <1>1, <1>2

LEMMA ThreadStepQuits ==
    ASSUME IInv, QuitInv, NEW t \in Threads, ThreadStep(t)
    PROVE  QuitInv'
<1> USE DEF QuitInv, WillWake, InCall, loopVars
<1>1. \A u \in Threads \ {t} : call'[u] = call[u]
  BY DEF IInv, TypeOK, ThreadStep, RunInLoop, Wakeup, BeginRunAfter, EndRunAfter, Quit
<1>2. pc = "poll" => t # m_threadId
  BY DEF IInv, Agreement
<1>3. CASE RunInLoop(t) \/ Quit(t)
  <2>1. call'[t].op = "wake" /\ m_threadId' = m_threadId /\ pc' = pc
    BY <1>3 DEF RunInLoop, Quit, IInv, TypeOK
  <2> QED
    BY <1>2, <2>1
<1>4. CASE Wakeup(t)
  BY <1>2, <1>4 DEF Wakeup, Wakes
<1>5. CASE BeginRunAfter(t)
  BY <1>1, <1>5 DEF BeginRunAfter, MayCall, NoCall, sharedVars
<1>6. CASE EndRunAfter(t)
  BY <1>1, <1>2, <1>6 DEF EndRunAfter, Wakes
<1> QED
  BY <1>3, <1>4, <1>5, <1>6 DEF ThreadStep

(***************************************************************************)
(* A loop that has been told to quit does not wait for its poll to time    *)
(* out: it has been woken or is about to be (Quit, Eventloop.cpp:203).     *)
(***************************************************************************)
THEOREM NeverSleepsOnQuit == Spec => []NoSleepOnQuit
<1>1. Init => QuitInv
  BY DEF Init, QuitInv
<1>2. ASSUME IInv, QuitInv, [Next]_vars PROVE QuitInv'
  <2>1. CASE LoopStep
    BY <1>2, <2>1, LoopStepQuits
  <2>2. ASSUME NEW t \in Threads, ThreadStep(t) PROVE QuitInv'
    BY <1>2, <2>2, ThreadStepQuits
  <2>3. CASE Tick
    BY <1>2, <2>3 DEF Tick, QuitInv, WillWake, InCall, loopVars, sharedVars
  <2>4. CASE UNCHANGED vars
    BY <1>2, <2>4 DEF vars, QuitInv, WillWake, InCall, loopVars, sharedVars
  <2> QED
    BY <1>2, <2>1, <2>2, <2>3, <2>4 DEF Next
<1>3. QuitInv => NoSleepOnQuit
  BY DEF QuitInv, WillWake, NoSleepOnQuit
<1> QED
  BY <1>1, <1>2, <1>3, InitIInv, NextIInv, PTL DEF Spec

-----------------------------------------------------------------------------
(***************************************************************************)
(* The loop implements FunctorQueue.  The numbers given out so far tell a  *)
(* new functor from all that are queued, in the batch, or done.            *)
(***************************************************************************)
Handed(k) == {f \in Functors : f.n <= k}

Numbered ==
    /\ m_pendingFunctors \in Seq(Handed(posted))
    /\ functors \in Seq(Handed(posted))
    /\ ran \in Seq(Handed(posted))

LEMMA HandedGrows ==
    ASSUME NEW k \in Nat, NEW j \in Nat, k <= j, NEW s \in Seq(Handed(k))
    PROVE  s \in Seq(Handed(j))
<1>1. s \in [1..Len(s) -> Handed(j)] /\ Len(s) \in Nat
  BY DEF Handed, Functors
<1> QED
  BY <1>1

LEMMA ConcatAppend ==
    ASSUME NEW S, NEW s \in Seq(S), NEW t \in Seq(S), NEW e \in S
    PROVE  s \o Append(t, e) = Append(s \o t, e)
<1>1. <<e>> \in Seq(S) /\ s \o t \in Seq(S)
  BY ConcatProperties
<1>2. Append(t, e) = t \o <<e>> /\ Append(s \o t, e) = (s \o t) \o <<e>>
  BY <1>1, AppendIsConcat
<1> QED
  BY <1>1, <1>2, ConcatAssociative

LEMMA HeadTailConcat ==
    ASSUME NEW S, NEW s \in Seq(S), s # <<>>, NEW t \in Seq(S)
    PROVE  Head(s \o t) = Head(s) /\ Tail(s \o t) = Tail(s) \o t /\ s \o t # <<>>
<1>1. Head(s) \in S /\ Tail(s) \in Seq(S) /\ <<Head(s)>> \in Seq(S)
  BY HeadTailProperties
<1>2. s = <<Head(s)>> \o Tail(s)
  BY HeadTailProperties, ConcatProperties
<1>3. s \o t = <<Head(s)>> \o (Tail(s) \o t) /\ Tail(s) \o t \in Seq(S)
  BY <1>1, <1>2, ConcatAssociative, ConcatProperties
<1> QED
  BY <1>1, <1>3, ConcatProperties, HeadTailProperties

(***************************************************************************)
(* A callback, as the queue sees it: nothing, or one new functor.          *)
(***************************************************************************)
NewFunctor(f) ==
    /\ f \in Functors /\ f.n = posted + 1 /\ posted' = posted + 1
    /\ m_pendingFunctors' = Append(m_pendingFunctors, f)

LEMMA PushIsNew ==
    ASSUME TypeOK, NEW from \in Sources, PushFunctor(from)
    PROVE  \E f \in Functors : NewFunctor(f)
<1>1. [n |-> posted + 1, from |-> from] \in Functors
  BY DEF TypeOK, PushFunctor, Functors
<1> QED
  BY <1>1 DEF PushFunctor, NewFunctor

LEMMA CallbackQueues ==
    ASSUME TypeOK, NEW from \in Sources, Callback(from)
    PROVE  \/ UNCHANGED <<m_pendingFunctors, posted>>
           \/ \E f \in Functors : NewFunctor(f)
<1>1. CASE PushFunctor(from)
  BY <1>1, PushIsNew
<1>2. CASE ~PushFunctor(from)
  BY <1>2 DEF Callback, PushTimer, sharedVars
<1> QED
  BY <1>1, <1>2

LEMMA NumberedPush ==
    ASSUME TypeOK, Numbered, NEW f \in Functors, NewFunctor(f)
    PROVE  /\ m_pendingFunctors' \in Seq(Handed(posted'))
           /\ functors \in Seq(Handed(posted'))
           /\ ran \in Seq(Handed(posted'))
           /\ f \notin Queue!Seen
<1>1. posted \in Nat /\ posted' \in Nat /\ posted <= posted'
  BY DEF TypeOK, NewFunctor
<1>2. /\ m_pendingFunctors \in Seq(Handed(posted'))
      /\ functors \in Seq(Handed(posted')) /\ ran \in Seq(Handed(posted'))
  BY <1>1, HandedGrows DEF Numbered
<1>3. f \in Handed(posted') /\ f \notin Handed(posted)
  BY DEF Handed, NewFunctor, TypeOK
<1>4. functors \o m_pendingFunctors \in Seq(Handed(posted))
  BY ConcatProperties DEF Numbered
<1>5. Queue!Seen \subseteq Handed(posted)
  <2>1. \A s \in Seq(Handed(posted)) : {s[i] : i \in DOMAIN s} \subseteq Handed(posted)
    OBVIOUS
  <2> QED
    BY <1>4, <2>1 DEF Numbered, Queue!Seen
<1> QED
  BY <1>2, <1>3, <1>5, AppendProperties DEF NewFunctor

(***************************************************************************)
(* A functor that joins the queue while no other leaves it.                *)
(***************************************************************************)
LEMMA PushPosts ==
    ASSUME TypeOK, Numbered, NEW f \in Functors, NewFunctor(f), UNCHANGED <<functors, ran>>
    PROVE  Queue!Post(f) /\ Numbered'
<1>1. f \notin Queue!Seen
  BY NumberedPush
<1>2. functors' \o m_pendingFunctors' = Append(functors \o m_pendingFunctors, f)
  BY ConcatAppend DEF NewFunctor, TypeOK
<1>3. Numbered'
  BY NumberedPush DEF Numbered
<1> QED
  BY <1>1, <1>2, <1>3 DEF Queue!Post

LEMMA StutterQueues ==
    ASSUME Numbered, UNCHANGED <<functors, ran, m_pendingFunctors, posted>>
    PROVE  UNCHANGED Queue!vars /\ Numbered'
BY DEF Numbered, Queue!vars

(***************************************************************************)
(* The head of the batch runs, and what its callback queued joins.         *)
(***************************************************************************)
LEMMA RunFunctorQueues ==
    ASSUME TypeOK, Numbered, RunFunctor
    PROVE  Queue!Next /\ Numbered'
<1> DEFINE queue == functors \o m_pendingFunctors
<1>1. /\ functors # <<>> /\ functors' = Tail(functors)
      /\ ran' = Append(ran, Head(functors)) /\ Callback("functor")
  BY DEF RunFunctor
<1>2. /\ Head(queue) = Head(functors) /\ queue # <<>>
      /\ Tail(queue) = Tail(functors) \o m_pendingFunctors
  BY <1>1, HeadTailConcat DEF TypeOK
<1>3. Tail(functors) \in Seq(Functors)
  BY <1>1, HeadTailProperties DEF TypeOK
<1>4. CASE UNCHANGED <<m_pendingFunctors, posted>>
  <2>1. Queue!Run
    BY <1>1, <1>2, <1>4 DEF Queue!Run
  <2>2. functors' \in Seq(Handed(posted)) /\ ran' \in Seq(Handed(posted))
    BY <1>1, HeadTailProperties, AppendProperties DEF Numbered
  <2> QED
    BY <1>4, <2>1, <2>2 DEF Queue!Next, Numbered
<1>5. ASSUME NEW f \in Functors, NewFunctor(f) PROVE Queue!Next /\ Numbered'
  <2>1. /\ f \notin Queue!Seen /\ m_pendingFunctors' \in Seq(Handed(posted'))
        /\ functors \in Seq(Handed(posted')) /\ ran \in Seq(Handed(posted'))
    BY <1>5, NumberedPush
  <2>2. functors' \in Seq(Handed(posted')) /\ ran' \in Seq(Handed(posted'))
    BY <1>1, <2>1, HeadTailProperties, AppendProperties
  <2>3. functors' \o m_pendingFunctors' = Append(Tail(queue), f)
    <3>1. Tail(functors) \o Append(m_pendingFunctors, f)
            = Append(Tail(functors) \o m_pendingFunctors, f)
      BY <1>3, ConcatAppend DEF TypeOK
    <3> QED
      BY <1>1, <1>2, <1>5, <3>1 DEF NewFunctor
  <2>4. Queue!RunAndPost(f)
    BY <1>1, <1>2, <2>1, <2>3 DEF Queue!RunAndPost
  <2> QED
    BY <2>1, <2>2, <2>4 DEF Queue!Next, Numbered
<1> QED
  BY <1>1, <1>4, <1>5, CallbackQueues DEF Sources

LEMMA LoopStepQueues ==
    ASSUME TypeOK, Numbered, LoopStep
    PROVE  [Queue!Next]_(Queue!vars) /\ Numbered'
<1>1. CASE StartThread \/ EnterLoop \/ CheckQuit \/ EndFunctors \/ EndTimers
  BY <1>1, StutterQueues
     DEF StartThread, EnterLoop, CheckQuit, EndFunctors, EndTimers, sharedVars
<1>2. CASE Poll \/ HandleWakeupRead \/ TakeTimers
  BY <1>2, StutterQueues DEF Poll, HandleWakeupRead, TakeTimers, sharedVars
<1>3. ASSUME HandleEvents \/ RunTimer
      PROVE  [Queue!Next]_(Queue!vars) /\ Numbered'
  <2>1. UNCHANGED <<functors, ran>> /\ \E from \in Sources : Callback(from)
    BY <1>3 DEF HandleEvents, RunTimer, Sources
  <2>2. \/ UNCHANGED <<m_pendingFunctors, posted>>
        \/ \E f \in Functors : NewFunctor(f)
    BY <2>1, CallbackQueues
  <2> QED
    BY <2>1, <2>2, PushPosts, StutterQueues DEF Queue!Next
<1>4. CASE SwapFunctors
  <2>1. functors = <<>> /\ functors' = m_pendingFunctors /\ m_pendingFunctors' = <<>>
    BY <1>4 DEF SwapFunctors, TypeOK, At
  <2>2. functors' \o m_pendingFunctors' = functors \o m_pendingFunctors
    BY <2>1, ConcatEmptySeq DEF TypeOK
  <2>3. m_pendingFunctors' \in Seq(Handed(posted))
    BY <2>1, EmptySeq
  <2> QED
    BY <1>4, <2>1, <2>2, <2>3 DEF SwapFunctors, Numbered, Queue!vars
<1>5. CASE RunFunctor
  BY <1>5, RunFunctorQueues
<1> QED
  BY <1>1, <1>2, <1>3, <1>4, <1>5 DEF LoopStep

LEMMA ThreadStepQueues ==
    ASSUME TypeOK, Numbered, NEW t \in Threads, ThreadStep(t)
    PROVE  [Queue!Next]_(Queue!vars) /\ Numbered'
<1> USE DEF loopVars
<1>1. CASE RunInLoop(t)
  <2>1. UNCHANGED <<functors, ran>> /\ PushFunctor("thread")
    BY <1>1 DEF RunInLoop
  <2> QED
    BY <2>1, PushIsNew, PushPosts DEF Sources, Queue!Next
<1>2. CASE Wakeup(t) \/ BeginRunAfter(t) \/ EndRunAfter(t) \/ Quit(t)
  BY <1>2, StutterQueues
     DEF Wakeup, BeginRunAfter, EndRunAfter, Quit, PushTimer, sharedVars
<1> QED
  BY <1>1, <1>2 DEF ThreadStep

(***************************************************************************)
(* Functors run in the order they were handed over and once each: the loop *)
(* implements FunctorQueue, whichever threads and callbacks hand them over.*)
(***************************************************************************)
THEOREM LoopIsQueue == Spec => QueueSpec
<1>1. Init => Queue!Init /\ Numbered
  <2> SUFFICES ASSUME Init PROVE Queue!Init /\ Numbered
    OBVIOUS
  <2>1. \A S : <<>> \in Seq(S)
    BY EmptySeq
  <2>2. functors \o m_pendingFunctors = <<>>
    BY <2>1, ConcatEmptySeq DEF Init
  <2> QED
    BY <2>1, <2>2 DEF Init, Numbered, Queue!Init
<1>2. ASSUME IInv, Numbered, [Next]_vars
      PROVE  [Queue!Next]_(Queue!vars) /\ Numbered'
  <2>1. TypeOK
    BY <1>2 DEF IInv
  <2>2. CASE LoopStep
    BY <1>2, <2>1, <2>2, LoopStepQueues
  <2>3. ASSUME NEW t \in Threads, ThreadStep(t)
        PROVE  [Queue!Next]_(Queue!vars) /\ Numbered'
    BY <1>2, <2>1, <2>3, ThreadStepQueues
  <2>4. CASE Tick \/ UNCHANGED vars
    BY <1>2, <2>4, StutterQueues DEF Tick, vars, loopVars, sharedVars
  <2> QED
    BY <1>2, <2>2, <2>3, <2>4 DEF Next
<1> QED
  BY <1>1, <1>2, InitIInv, NextIInv, PTL DEF Spec, QueueSpec, Queue!Spec

=============================================================================
