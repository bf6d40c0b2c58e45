------------------------------- MODULE MCGateway -------------------------------
(***************************************************************************)
(* A submission, a query of the nodes, and a query of a task.              *)
(***************************************************************************)
EXTENDS Gateway

CONSTANTS r1, r2, r3

MCRequests == {r1, r2, r3}
MCPath == [r \in MCRequests |->
             IF r = r1 THEN "submit_task" ELSE IF r = r2 THEN "list_nodes" ELSE "query_task"]
MCTwo == {r1, r2}
MCTwoPaths == [r \in MCTwo |-> MCPath[r]]

=============================================================================
