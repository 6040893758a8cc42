------------------------ MODULE CampaignInvitations ------------------------
(***************************************************************************)
(* CampaignInvitationService and the routes that call it.  Each action is  *)
(* one await of a handler; a check that fails answers the request, which   *)
(* leaves the tables alone.  A request that its first reads refuse is not  *)
(* modelled: it changes nothing.                                           *)
(*                                                                         *)
(* Adjacent reads are one action where the one in between cannot be told   *)
(* from an interleaving of the rest: the user row of userAuthMiddleware    *)
(* with the member row of campaignMemberMiddleware and the invitee's row   *)
(* (an account is never created here, and deleting one removes its member  *)
(* rows and fails the foreign keys of the INSERT).                         *)
(***************************************************************************)
EXTENDS CampaignStore

\* POST /:campaignId/invitations: isMaster, then the invitee is looked up.
StartSend(r, a, c, u) ==
    /\ "send" \in Operations
    /\ IsMaster(a, c) /\ u \in users
    /\ Start(r, "send:member", a, c, u, None, "none")
    /\ UNCHANGED <<tables, history>>

\* findByUserAndCampaign: MemberAlreadyExistsError for a member.
SendCheckMember(r) ==
    /\ At(r, "send:member")
    /\ IF IsMember(request[r].campaign, request[r].target)
         THEN Finish(r)
         ELSE Continue(r, "send:active")
    /\ UNCHANGED <<tables, history>>

\* findActiveByCampaignAndInvitee: InvitationAlreadyExistsError if there is one.
SendSkipActive(r) ==
    /\ At(r, "send:active")
    /\ Continue(r, "send:insert")
    /\ UNCHANGED <<tables, history>>
SendCheckActive(r) ==
    /\ At(r, "send:active")
    /\ IF FindActive(request[r].campaign, request[r].target) # {}
         THEN Finish(r)
         ELSE Continue(r, "send:insert")
    /\ UNCHANGED <<tables, history>>

\* create: one INSERT, which a foreign key may refuse.
SendInsert(r) ==
    LET c == request[r].campaign  u == request[r].target  a == request[r].actor IN
    /\ At(r, "send:insert")
    /\ IF InsertableInvitation(c, a, u)
         THEN /\ InsertInvitation(c, a, u)
              /\ offered' = offered \cup {<<c, u>>}
         ELSE UNCHANGED <<invitation, usedInvitations, offered>>
    /\ Finish(r)
    /\ UNCHANGED <<users, campaigns, role, usedCampaigns, joined, mastered>>

----------------------------------------------------------------------------
\* DELETE /:campaignId/invitations/:invitationId: isMaster.
StartCancel(r, a, c, i) ==
    /\ "cancel" \in Operations
    /\ IsMaster(a, c)
    /\ Start(r, "cancel:read", a, c, None, i, "none")
    /\ UNCHANGED <<tables, history>>

\* findById: of this campaign, and pending.  Expiry does not matter.
CancelRead(r) ==
    LET i == request[r].invitation IN
    /\ At(r, "cancel:read")
    /\ IF /\ Exists(i)
          /\ invitation[i].campaign = request[r].campaign
          /\ invitation[i].status = "pending"
         THEN Continue(r, "cancel:write")
         ELSE Finish(r)
    /\ UNCHANGED <<tables, history>>

CancelWrite(r) ==
    /\ At(r, "cancel:write")
    /\ UpdateStatus(request[r].invitation, "cancelled")
    /\ Finish(r)
    /\ UNCHANGED <<users, campaigns, role, usedCampaigns, usedInvitations, history>>

----------------------------------------------------------------------------
\* What acceptInvitation and declineInvitation ask of the row they have read:
\* it is addressed to the caller, pending and not expired.
AnswerableByAnyone(i, u) ==
    /\ Exists(i)
    /\ invitation[i].status = "pending"
    /\ ~IsInvitationExpired(invitation[i])
AnswerableTwice(i, u) ==
    /\ Exists(i)
    /\ invitation[i].invitee = u
    /\ ~IsInvitationExpired(invitation[i])
Answerable(i, u) ==
    /\ Exists(i)
    /\ invitation[i].invitee = u
    /\ invitation[i].status = "pending"
    /\ ~IsInvitationExpired(invitation[i])

\* POST /v1/invitations/:invitationId/accept, up to the answer of findById.
\* The campaign to join is the one of the row as it was then.
StartAccept(r, u, i) ==
    /\ "accept" \in Operations
    /\ u \in users /\ Answerable(i, u)
    /\ Start(r, "accept:commit", u, invitation[i].campaign, None, i, "none")
    /\ UNCHANGED <<tables, history>>

\* acceptAndCreateMembership: a batch, so a refused INSERT undoes the UPDATE.
AcceptInTwoCalls(r) ==
    /\ At(r, "accept:commit")
    /\ UpdateStatus(request[r].invitation, "accepted")
    /\ request' = [request EXCEPT ![r].next = "add:insert",
                      ![r].target = request[r].actor, ![r].role = "player"]
    /\ UNCHANGED <<users, campaigns, role, usedCampaigns, usedInvitations, history>>
AcceptCommit(r) ==
    LET c == request[r].campaign  u == request[r].actor IN
    /\ At(r, "accept:commit")
    /\ IF InsertableMember(c, u)
         THEN /\ SetRole(c, u, "player")
              /\ UpdateStatus(request[r].invitation, "accepted")
         ELSE UNCHANGED <<role, joined, mastered, invitation>>
    /\ Finish(r)
    /\ UNCHANGED <<users, campaigns, usedCampaigns, usedInvitations, offered>>

\* POST /v1/invitations/:invitationId/decline, up to the answer of findById.
StartDecline(r, u, i) ==
    /\ "decline" \in Operations
    /\ u \in users /\ Answerable(i, u)
    /\ Start(r, "decline:write", u, None, None, i, "none")
    /\ UNCHANGED <<tables, history>>

DeclineWrite(r) ==
    /\ At(r, "decline:write")
    /\ UpdateStatus(request[r].invitation, "declined")
    /\ Finish(r)
    /\ UNCHANGED <<users, campaigns, role, usedCampaigns, usedInvitations, history>>

----------------------------------------------------------------------------
(* What people see before they act; each is one SELECT *)

\* GET /v1/users/search, for a query that matches everybody (LIMIT 10 left out): it
\* asks for the status only, where sendInvitation also asks for expires_at.
SearchUsersWithPending(c, a) == {u \in users \ {a} : ~IsMember(c, u)}
SearchUsers(c, a) ==
    {u \in users \ {a} :
        /\ ~IsMember(c, u)
        /\ \A i \in DOMAIN invitation :
             invitation[i].campaign = c /\ invitation[i].invitee = u =>
                 invitation[i].status # "pending"}

\* GET /v1/invitations: INNER JOIN with the campaign and the inviter.
FindPendingByInviteeId(u) ==
    {i \in DOMAIN invitation :
        /\ invitation[i].invitee = u /\ Active(i)
        /\ invitation[i].campaign \in campaigns /\ invitation[i].inviter \in users}

\* GET /:campaignId/invitations: INNER JOIN with the invitee.
FindByCampaignId(c) ==
    {i \in DOMAIN invitation : invitation[i].campaign = c /\ invitation[i].invitee \in users}

\* pendingInvitations of GET /:campaignId/home, for a master.
PendingInvitations(c) == {i \in FindByCampaignId(c) : invitation[i].status = "pending"}

\* members of GET /:campaignId/home, and GET /v1/campaigns; JOINs again.
FindMembersWithNicknames(c) == {u \in users : IsMember(c, u)}
FindCampaignsByUserId(u)    == {c \in campaigns : IsMember(c, u)}

----------------------------------------------------------------------------
\* The clock: expires_at - now of every pending row goes down, to just below 0.
\* No handler reads expires_at of a row that is no longer pending.
Tick ==
    /\ "tick" \in Operations
    /\ \E i \in DOMAIN invitation :
         invitation[i].status = "pending" /\ invitation[i].left \notin {-1, Never}
    /\ invitation' = [i \in DOMAIN invitation |->
         IF invitation[i].status = "pending" /\ invitation[i].left \notin {-1, Never}
           THEN [invitation[i] EXCEPT !.left = @ - 1]
           ELSE invitation[i]]
    /\ UNCHANGED <<users, campaigns, role, usedCampaigns, usedInvitations,
                   request, history>>

InvitationHandlers(r) ==
    \/ \E a \in Users, c \in Campaigns, u \in Users : StartSend(r, a, c, u)
    \/ SendCheckMember(r)
    \/ SendCheckActive(r)
    \/ SendInsert(r)
    \/ \E a \in Users, c \in Campaigns, i \in Invitations : StartCancel(r, a, c, i)
    \/ CancelRead(r)
    \/ CancelWrite(r)
    \/ \E u \in Users, i \in Invitations : StartAccept(r, u, i)
    \/ AcceptCommit(r)
    \/ \E u \in Users, i \in Invitations : StartDecline(r, u, i)
    \/ DeclineWrite(r)
============================================================================
