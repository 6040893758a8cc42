----------------------------- MODULE MCCampaign -----------------------------
(* Instances of CampaignSystem for TLC. *)
EXTENDS CampaignSystem, TLC

CONSTANTS m, p, q, c1, c2

OneCampaign == c1 :> m
NoCampaign  == <<>>

InvitationOperations ==
    {"send", "cancel", "accept", "decline", "remove", "role", "deleteUser",
     "delete", "abandon", "tick"}
SerialOperations ==
    {"send", "cancel", "accept", "decline", "add", "remove",
     "adminDelete", "deleteUser", "adminCreate", "tick"}
LimitOperations ==
    {"create", "delete", "dbError", "send", "tick"}

CancelRaceOperations ==
    {"send", "cancel", "accept"}

Symmetry == Permutations(Requests) \cup Permutations(Invitations)

\* The campaigns may change places as well where none is there at first.
LimitSymmetry == Symmetry \cup Permutations(Campaigns)
=============================================================================
