-------------------------- MODULE RegistryMembership --------------------------
(***************************************************************************)
(* What a registry promises about identities, whatever it keeps inside:    *)
(* a worker joins under an id that nobody ever had, may leave, and an id   *)
(* that left never comes back.                                             *)
(***************************************************************************)
CONSTANT Ids

VARIABLES
    members,   \* the ids that are registered
    former     \* the ids that were, and no longer are

Init == members = {} /\ former = {}

Join(id) ==
    /\ id \notin members \cup former
    /\ members' = members \cup {id}
    /\ former' = former

Leave(S) ==
    /\ S # {}
    /\ S \subseteq members
    /\ members' = members \ S
    /\ former' = former \cup S

Next == \/ \E id \in Ids : Join(id)
        \/ \E S \in SUBSET members : Leave(S)

Spec == Init /\ [][Next]_<<members, former>>

=============================================================================
