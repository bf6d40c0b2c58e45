------------------------------- MODULE BytePipe -------------------------------
(***************************************************************************)
(* What a connection promises: the receiver gets the bytes that were sent, *)
(* in order, each once, in whatever pieces.                                *)
(***************************************************************************)
EXTENDS Integers, Sequences

CONSTANT Bytes

VARIABLES sent, received

vars == <<sent, received>>

Extends(longer, s) == Len(s) <= Len(longer) /\ SubSeq(longer, 1, Len(s)) = s

Init == sent = <<>> /\ received = <<>>

Send ==
    /\ sent' \in Seq(Bytes)
    /\ Extends(sent', sent)
    /\ UNCHANGED received

Receive ==
    /\ received' \in Seq(Bytes)
    /\ Extends(received', received)
    /\ Extends(sent, received')
    /\ UNCHANGED sent

Spec == Init /\ [][Send \/ Receive]_vars

=============================================================================
