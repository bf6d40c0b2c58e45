----------------------------- MODULE FunctorQueue -----------------------------
(***************************************************************************)
(* What an event loop promises to whoever hands it a functor: it runs in   *)
(* the order it was handed over, and once.                                 *)
(***************************************************************************)
EXTENDS Sequences, Naturals

CONSTANT Functors

VARIABLES
    queue,   \* functors handed over and not yet run
    ran      \* functors that ran, in that order

vars == <<queue, ran>>

Seen == {queue[i] : i \in DOMAIN queue} \cup {ran[i] : i \in DOMAIN ran}

Init == queue = <<>> /\ ran = <<>>

Post(f) ==
    /\ f \notin Seen
    /\ queue' = Append(queue, f)
    /\ UNCHANGED ran

Run ==
    /\ queue # <<>>
    /\ queue' = Tail(queue)
    /\ ran' = Append(ran, Head(queue))

\* A functor that runs may hand over another one.
RunAndPost(f) ==
    /\ queue # <<>>
    /\ f \notin Seen
    /\ queue' = Append(Tail(queue), f)
    /\ ran' = Append(ran, Head(queue))

Next == Run \/ \E f \in Functors : Post(f) \/ RunAndPost(f)

Spec == Init /\ [][Next]_vars

=============================================================================
