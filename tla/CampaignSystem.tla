-------------------------- MODULE CampaignSystem --------------------------
(***************************************************************************)
(* The handlers of CampaignInvitations and CampaignMembers over one        *)
(* database, in any interleaving.                                          *)
(***************************************************************************)
EXTENDS CampaignInvitations, CampaignMembers

\* The Worker is evicted, or a call throws and the handler does not catch it:
\* what the request has written stays, and the rest does not happen.
Abandon(r) ==
    /\ "abandon" \in Operations
    /\ request[r] # Idle
    /\ Finish(r)
    /\ UNCHANGED <<tables, history>>

Init == StoreInit

Next ==
    \/ \E r \in Requests : InvitationHandlers(r) \/ MemberHandlers(r) \/ Abandon(r)
    \/ \E u \in Users : DeleteUser(u)
    \/ AdminCreate
    \/ Tick

Spec == Init /\ [][Next]_vars

\* Real time passes; nothing else need ever happen.
FairSpec == Spec /\ WF_vars(Tick)

----------------------------------------------------------------------------
(* Types *)

\* Every variable holds a value of its type.
TypeOK ==
    /\ users \subseteq Users
    /\ campaigns \subseteq usedCampaigns
    /\ usedCampaigns \subseteq Campaigns
    /\ role \in [Pairs -> Roles \cup {"none"}]
    /\ DOMAIN invitation \subseteq usedInvitations
    /\ usedInvitations \subseteq Invitations
    /\ invitation \in [DOMAIN invitation -> InvitationRow]
    /\ request \in [Requests -> RequestRecord]
    /\ joined \subseteq Pairs
    /\ offered \subseteq Pairs
    /\ mastered \subseteq Pairs

\* A request has read the fields that the call it makes next will use.
FieldsAreSet(r) ==
    /\ request[r].next \in {"send:member", "send:active", "send:insert", "add:insert",
                            "role:member", "role:write", "remove:member", "remove:write"} =>
         request[r].campaign \in Campaigns /\ request[r].target \in Users
    /\ request[r].next \in {"add:insert", "role:member", "role:write"} =>
         request[r].role \in Roles
    /\ request[r].next \in {"send:member", "send:active", "send:insert",
                            "accept:commit", "create:insert", "create:member"} =>
         request[r].actor \in Users
    /\ request[r].next \in {"accept:commit", "create:member", "create:undo",
                            "delete:write"} =>
         request[r].campaign \in Campaigns

TypeInv == TypeOK /\ \A r \in Requests : FieldsAreSet(r)

----------------------------------------------------------------------------
(* What holds however requests interleave *)

\* No row outlives what it refers to: an INSERT that was in flight while the
\* campaign or an account was deleted leaves no member and no invitation behind
\* (the foreign keys of migrations 0030 and 0033).
ReferentialIntegrity ==
    /\ \A p \in Pairs : role[p] # "none" => p[1] \in campaigns /\ p[2] \in users
    /\ \A i \in DOMAIN invitation :
         /\ invitation[i].campaign \in campaigns
         /\ invitation[i].inviter \in users
         /\ invitation[i].invitee \in users

\* An invitation that reads "accepted" has let its invitee in: the INSERT and
\* the UPDATE of acceptAndCreateMembership happen together or not at all.
AcceptedHasJoined ==
    \A i \in DOMAIN invitation :
        invitation[i].status = "accepted" =>
            <<invitation[i].campaign, invitation[i].invitee>> \in joined

\* Nobody is in a campaign whom nobody invited or added to that campaign,
\* whatever invitation id he has answered.
JoinedWasOffered == joined \subseteq offered

\* Every invitation was sent by somebody who had been master of that campaign
\* (or is a super user): isMaster may be stale when the row is written, but it
\* was true once.
InviterWasMaster ==
    \A i \in DOMAIN invitation :
        \/ invitation[i].inviter \in SuperUsers
        \/ <<invitation[i].campaign, invitation[i].inviter>> \in mastered

\* What people are shown is what they can act on: whom the search offers, no check of
\* sendInvitation refuses; whom it hides, the master finds among the members or, even
\* when the invitation has expired, among those that he can cancel; the invitee sees
\* the invitation that stands in the way of another, and can answer it; and every
\* member row that counts is on the list of its campaign and on that of its user.
ListsTellTheTruth ==
    /\ \A c \in campaigns, a \in users : \A u \in users \ {a} :
         IF u \in SearchUsers(c, a)
           THEN ~IsMember(c, u) /\ FindActive(c, u) = {}
           ELSE \/ u \in FindMembersWithNicknames(c)
                \/ \E i \in PendingInvitations(c) : invitation[i].invitee = u
    /\ \A i \in DOMAIN invitation :
         Active(i) => /\ i \in FindPendingByInviteeId(invitation[i].invitee)
                      /\ Answerable(i, invitation[i].invitee)
    /\ \A p \in Pairs :
         role[p] # "none" => /\ p[1] \in FindCampaignsByUserId(p[2])
                             /\ p[2] \in FindMembersWithNicknames(p[1])

\* The inductive strengthening of the four invariants above.  The histories
\* record the member rows, every invitation row is an offer, and a request that
\* is past its checks still knows whom it is about: ids are not used twice and
\* no statement changes the campaign, the inviter or the invitee of a row.
HistoriesRecord ==
    \A p \in Pairs : /\ role[p] # "none" => p \in joined
                     /\ role[p] = "master" => p \in mastered

InvitationsAreOffers ==
    \A i \in DOMAIN invitation :
        <<invitation[i].campaign, invitation[i].invitee>> \in offered

SenderWasMaster(r) ==
    request[r].next \in {"send:member", "send:active", "send:insert"} =>
        \/ request[r].actor \in SuperUsers
        \/ <<request[r].campaign, request[r].actor>> \in mastered

AccepterWasOffered(r) ==
    At(r, "accept:commit") =>
        /\ request[r].invitation \in usedInvitations
        /\ <<request[r].campaign, request[r].actor>> \in offered
        /\ Exists(request[r].invitation) =>
             /\ invitation[request[r].invitation].campaign = request[r].campaign
             /\ invitation[request[r].invitation].invitee = request[r].actor

IInv ==
    /\ ReferentialIntegrity
    /\ AcceptedHasJoined
    /\ JoinedWasOffered
    /\ InviterWasMaster
    /\ HistoriesRecord
    /\ InvitationsAreOffers
    /\ \A r \in Requests : SenderWasMaster(r) /\ AccepterWasOffered(r)

\* A pending invitation stops counting as active by itself, so that a forgotten
\* one does not block another for ever (migration 0034).
PendingLapses ==
    \A i \in Invitations :
        (Exists(i) /\ Active(i)) ~> ~(Exists(i) /\ Active(i))

----------------------------------------------------------------------------
(* What holds as long as requests do not overlap *)

\* A user has at most one active invitation to a campaign
\* (InvitationAlreadyExistsError).
OneActiveInvitation ==
    \A c \in Campaigns, u \in Users : Cardinality(FindActive(c, u)) <= 1

\* A cancelled invitation admits nobody: only a pending one can be accepted
\* (InvitationNotPendingError).
CancelledIsFinal ==
    [][\A i \in DOMAIN invitation \cap DOMAIN invitation' :
         invitation[i].status = "cancelled" => invitation'[i].status = "cancelled"]_vars

Contract ==
    INSTANCE InvitationContract WITH role <- role, invitation <- invitation

\* Every step of the handlers on member rows and invitations is a step, or a
\* stutter, of the invitation rules as InvitationContract states them.
KeepsContract == Contract!Spec

\* However many creations overlap, each goes past the limit of POST /v1/campaigns
\* by one at most.
MasterLimitOvershoot ==
    \A u \in Users :
        Cardinality(MasterCampaigns(u)) < MasterLimit + Cardinality(Requests)

\* A user never has more active invitations to a campaign than requests are in flight
\* at once, however often sends overlap: between findActiveByCampaignAndInvitee and the
\* INSERT others may add one each, but to a list that is not empty nobody adds.
ActiveOvershoot ==
    \A c \in Campaigns, u \in Users :
        Cardinality(FindActive(c, u)) <= Cardinality(Requests)

\* No campaign is without a master, except while its creation is in progress.
EveryCampaignHasMaster ==
    \A c \in campaigns :
        \/ \E u \in users : role[<<c, u>>] = "master"
        \/ \E r \in Requests :
             request[r].campaign = c /\ request[r].next \in {"create:member", "create:undo"}
============================================================================
