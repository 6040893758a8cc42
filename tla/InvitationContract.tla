------------------------ MODULE InvitationContract ------------------------
(***************************************************************************)
(* What the invitation rules promise, without saying how: who is invited,  *)
(* which invitations are open, and how one is settled, each in one step.   *)
(* CampaignSystem keeps this contract as long as no two requests overlap.  *)
(***************************************************************************)
EXTENDS Integers

CONSTANTS Users, Campaigns, Invitations, TTL

VARIABLES role, invitation

vars == <<role, invitation>>

IsMember(c, u) == role[<<c, u>>] # "none"

IsOpen(i) == invitation[i].status = "pending" /\ invitation[i].left > 0

\* Only somebody who is not a member and has no open invitation is invited.
Invite ==
    \E c \in Campaigns, by \in Users, u \in Users,
       i \in Invitations \ DOMAIN invitation :
        /\ ~IsMember(c, u)
        /\ ~\E j \in DOMAIN invitation :
               IsOpen(j) /\ invitation[j].campaign = c /\ invitation[j].invitee = u
        /\ invitation' = [j \in DOMAIN invitation \cup {i} |->
             IF j = i THEN [campaign |-> c, inviter |-> by, invitee |-> u,
                            status |-> "pending", left |-> TTL]
                      ELSE invitation[j]]
        /\ UNCHANGED role

Settle(i, s) ==
    /\ invitation[i].status = "pending"
    /\ invitation' = [invitation EXCEPT ![i].status = s]

\* A pending invitation is refused or withdrawn ...
TurnDown ==
    /\ \E i \in DOMAIN invitation, s \in {"declined", "cancelled"} : Settle(i, s)
    /\ UNCHANGED role

\* ... or admits its invitee, as a player, in the step that settles it.
Admit ==
    \E i \in DOMAIN invitation :
        /\ Settle(i, "accepted")
        /\ ~IsMember(invitation[i].campaign, invitation[i].invitee)
        /\ role' = [role EXCEPT
             ![<<invitation[i].campaign, invitation[i].invitee>>] = "player"]

\* A master changes one member row, whatever the invitations say.
ChangeMember ==
    /\ \E p \in Campaigns \X Users, rl \in {"master", "player", "none"} :
         role' = [role EXCEPT ![p] = rl]
    /\ UNCHANGED invitation

\* A campaign or an account goes, with its member rows and its invitations.
Forget ==
    \E cs \in SUBSET Campaigns, us \in SUBSET Users :
        /\ role' = [p \in Campaigns \X Users |->
             IF p[1] \in cs \/ p[2] \in us THEN "none" ELSE role[p]]
        /\ invitation' = [i \in {j \in DOMAIN invitation :
               /\ invitation[j].campaign \notin cs
               /\ {invitation[j].inviter, invitation[j].invitee} \cap us = {}}
             |-> invitation[i]]

\* Time passes for the pending invitations.
Age ==
    /\ invitation' = [i \in DOMAIN invitation |->
         IF invitation[i].status = "pending" /\ invitation[i].left > -1
           THEN [invitation[i] EXCEPT !.left = @ - 1] ELSE invitation[i]]
    /\ UNCHANGED role

Init == invitation = [i \in {} |-> 0] /\ role \in [Campaigns \X Users -> {"master", "player", "none"}]

Next == Invite \/ TurnDown \/ Admit \/ ChangeMember \/ Forget \/ Age

Spec == Init /\ [][Next]_vars
===========================================================================
