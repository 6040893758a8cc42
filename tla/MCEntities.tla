----------------------------- MODULE MCEntities -----------------------------
(* Instances of CampaignEntities for TLC. *)
EXTENDS CampaignEntities, TLC

CONSTANTS m, w, c1, c2

TwoMasters == {<<c1, m>>, <<c2, w>>}

\* Every kind in turn: ids of different kinds have no constraint in common.
OneKind == {[e \in Entities |-> k] : k \in Kinds}

AllOperations ==
    {"post", "patch", "link", "show", "unlink", "admin", "delete", "fail"}

\* The campaigns may change places when their masters do.
Swap == [x \in {m, w, c1, c2} |->
            CASE x = m -> w [] x = w -> m [] x = c1 -> c2 [] x = c2 -> c1]

Symmetry ==
    Permutations(Requests) \cup {f @@ Swap : f \in Permutations(Requests)}
=============================================================================
