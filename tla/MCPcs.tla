------------------------------- MODULE MCPcs -------------------------------
(* Instances of CampaignPcs for TLC. *)
EXTENDS CampaignPcs, TLC

CONSTANTS m, w, c1

OneMaster == {<<c1, m>>}

CreateOperations ==
    {"create", "relation", "link", "unlink", "badId", "deleteUser"}
EditOperations ==
    {"create", "link", "unlink", "edit", "delete", "deleteUser"}

Symmetry ==
    Permutations(Requests) \cup Permutations(Pcs) \cup Permutations(Jobs)
=============================================================================
