------------------------------- MODULE MCStream -------------------------------
(***************************************************************************)
(* Two packets, one with an empty text and one whose text holds the magic  *)
(* number (a task's parameters may); noise without it: a packet of a newer *)
(* version, a packet with damaged text, and a byte of dirt.                *)
(***************************************************************************)
EXTENDS Stream

CONSTANTS p1, p2

Sym(kind, n) == <<kind, n, NoPacket>>

MCPackets == {p1, p2}
MCBody == [x \in MCPackets |-> IF x = p1 THEN <<>> ELSE <<Sym("text", 1), Magic(1)>>]
MCZero == Sym("zero", 0)

MCNoise == {<<Magic(2), BodyLength(1, p1), Sym("text", 2)>>,
            <<Magic(1), BodyLength(2, p2), Sym("text", 1), Sym("text", 2)>>,
            <<Sym("dirt", 0)>>}

=============================================================================
