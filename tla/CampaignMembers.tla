-------------------------- MODULE CampaignMembers --------------------------
(***************************************************************************)
(* CampaignMemberService and CampaignService, and the routes that call     *)
(* them: the members of a campaign, its creation (two statements and a     *)
(* compensation) and its deletion.  Conventions as in CampaignInvitations; *)
(* the assertCampaignExists that opens each member operation is one action *)
(* with the middleware: deleting the campaign after it removes the member  *)
(* row that the next read looks for, or fails the INSERT's foreign key.    *)
(***************************************************************************)
EXTENDS CampaignStore

\* POST /:campaignId/members, by a master.
StartAdd(r, a, c, u, rl) ==
    /\ "add" \in Operations
    /\ IsMaster(a, c) /\ c \in campaigns
    /\ Start(r, "add:insert", a, c, u, None, rl)
    /\ UNCHANGED <<tables, history>>

\* add: one INSERT, refused by UNIQUE (MemberAlreadyExistsError) or a foreign key.
AddInsert(r) ==
    LET c == request[r].campaign  u == request[r].target IN
    /\ At(r, "add:insert")
    /\ IF InsertableMember(c, u)
         THEN /\ SetRole(c, u, request[r].role)
              /\ offered' = offered \cup {<<c, u>>}
         ELSE UNCHANGED <<role, history>>
    /\ Finish(r)
    /\ UNCHANGED <<users, campaigns, invitation, usedCampaigns, usedInvitations>>

\* PATCH /:campaignId/members/:userId
StartRole(r, a, c, u, rl) ==
    /\ "role" \in Operations
    /\ IsMaster(a, c) /\ c \in campaigns
    /\ Start(r, "role:member", a, c, u, None, rl)
    /\ UNCHANGED <<tables, history>>

\* DELETE /:campaignId/members/:userId
StartRemove(r, a, c, u) ==
    /\ "remove" \in Operations
    /\ IsMaster(a, c) /\ c \in campaigns
    /\ Start(r, "remove:member", a, c, u, None, "none")
    /\ UNCHANGED <<tables, history>>

\* assertMemberExists, of both.
CheckMember(r) ==
    /\ request[r].next \in {"role:member", "remove:member"}
    /\ IF ~IsMember(request[r].campaign, request[r].target)
         THEN Finish(r)
         ELSE Continue(r, IF At(r, "role:member") THEN "role:write" ELSE "remove:write")
    /\ UNCHANGED <<tables, history>>

\* UPDATE campaign_members: nothing to update when the row has gone.
RoleWrite(r) ==
    LET c == request[r].campaign  u == request[r].target IN
    /\ At(r, "role:write")
    /\ IF IsMember(c, u)
         THEN SetRole(c, u, request[r].role)
         ELSE UNCHANGED <<role, joined, mastered>>
    /\ Finish(r)
    /\ UNCHANGED <<users, campaigns, invitation, usedCampaigns, usedInvitations, offered>>

RemoveWrite(r) ==
    /\ At(r, "remove:write")
    /\ SetRole(request[r].campaign, request[r].target, "none")
    /\ Finish(r)
    /\ UNCHANGED <<users, campaigns, invitation, usedCampaigns, usedInvitations, offered>>

----------------------------------------------------------------------------
\* POST /v1/campaigns, up to countMasterCampaigns.
StartCreateOffByOne(r, u) ==
    /\ "create" \in Operations
    /\ u \in users /\ Cardinality(MasterCampaigns(u)) <= MasterLimit
    /\ Start(r, "create:insert", u, None, None, None, "none")
    /\ UNCHANGED <<tables, history>>
StartCreate(r, u) ==
    /\ "create" \in Operations
    /\ u \in users /\ Cardinality(MasterCampaigns(u)) < MasterLimit
    /\ Start(r, "create:insert", u, None, None, None, "none")
    /\ UNCHANGED <<tables, history>>

\* createCampaign: one INSERT, refused when another campaign has the name.
InsertCampaign(c) ==
    /\ c \notin usedCampaigns
    /\ usedCampaigns' = usedCampaigns \cup {c}
    /\ campaigns' = campaigns \cup {c}
CreateInsert(r) ==
    /\ At(r, "create:insert")
    /\ \/ \E c \in Campaigns :
            /\ InsertCampaign(c)
            /\ request' = [request EXCEPT ![r].next = "create:member", ![r].campaign = c]
       \/ Finish(r) /\ UNCHANGED <<campaigns, usedCampaigns>>
    /\ UNCHANGED <<users, role, invitation, usedInvitations, history>>

\* addMember of the creator.  Whatever it throws, the handler compensates.
CreateMemberNoCatch(r) ==
    LET c == request[r].campaign  u == request[r].actor IN
    /\ At(r, "create:member")
    /\ \/ /\ InsertableMember(c, u)
          /\ SetRole(c, u, "master")
          /\ offered' = offered \cup {<<c, u>>}
       \/ /\ ~InsertableMember(c, u) \/ "dbError" \in Operations
          /\ UNCHANGED <<role, history>>
    /\ Finish(r)
    /\ UNCHANGED <<users, campaigns, invitation, usedCampaigns, usedInvitations>>
CreateMember(r) ==
    LET c == request[r].campaign  u == request[r].actor IN
    /\ At(r, "create:member")
    /\ \/ /\ InsertableMember(c, u)
          /\ SetRole(c, u, "master")
          /\ offered' = offered \cup {<<c, u>>}
          /\ Finish(r)
       \/ /\ ~InsertableMember(c, u) \/ "dbError" \in Operations
          /\ Continue(r, "create:undo")
          /\ UNCHANGED <<role, history>>
    /\ UNCHANGED <<users, campaigns, invitation, usedCampaigns, usedInvitations>>

\* DELETE FROM campaigns, with what cascades.
DeleteCampaign(c) ==
    /\ campaigns' = campaigns \ {c}
    /\ Cascade({c}, {})

\* The compensation, and the last call of DELETE /:campaignId, of a master or
\* with the API token.  getCampaignById and the DELETE are one action: without
\* the row neither changes anything.
DeleteWrite(r) ==
    /\ request[r].next \in {"create:undo", "delete:write"}
    /\ DeleteCampaign(request[r].campaign)
    /\ Finish(r)
    /\ UNCHANGED <<users, usedCampaigns, usedInvitations, history>>

\* Here the route looks for a member row itself: a super user needs one too.
StartDelete(r, a, c) ==
    /\ "delete" \in Operations
    /\ a \in users /\ role[<<c, a>>] = "master"
    /\ Start(r, "delete:write", a, c, None, None, "none")
    /\ UNCHANGED <<tables, history>>

\* DELETE /v1/admin/campaigns/:id, with the API token.
StartAdminDelete(r, c) ==
    /\ "adminDelete" \in Operations
    /\ Start(r, "delete:write", Admin, c, None, None, "none")
    /\ UNCHANGED <<tables, history>>

\* POST /v1/admin/campaigns: a campaign without members.
AdminCreate ==
    /\ "adminCreate" \in Operations
    /\ \E c \in Campaigns : InsertCampaign(c)
    /\ UNCHANGED <<users, role, invitation, usedInvitations, request, history>>

\* DELETE /v1/admin/users/:id, with what cascades.
DeleteUser(u) ==
    /\ "deleteUser" \in Operations
    /\ u \in users
    /\ users' = users \ {u}
    /\ Cascade({}, {u})
    /\ UNCHANGED <<campaigns, usedCampaigns, usedInvitations, request, history>>

MemberHandlers(r) ==
    \/ \E a \in Users, c \in Campaigns, u \in Users, rl \in Roles :
         StartAdd(r, a, c, u, rl) \/ StartRole(r, a, c, u, rl)
    \/ \E a \in Users, c \in Campaigns, u \in Users : StartRemove(r, a, c, u)
    \/ AddInsert(r)
    \/ CheckMember(r)
    \/ RoleWrite(r)
    \/ RemoveWrite(r)
    \/ \E u \in Users : StartCreate(r, u)
    \/ CreateInsert(r)
    \/ CreateMember(r)
    \/ DeleteWrite(r)
    \/ \E a \in Users, c \in Campaigns : StartDelete(r, a, c)
    \/ \E c \in Campaigns : StartAdminDelete(r, c)
============================================================================
