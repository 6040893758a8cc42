--------------------------- MODULE CampaignStore ---------------------------
(***************************************************************************)
(* The D1 tables behind campaign membership (users, campaigns,             *)
(* campaign_members, campaign_invitations), the statements that the        *)
(* repositories run on them, and the requests of the Worker that run them. *)
(*                                                                         *)
(* A statement, or a db.batch of statements, is atomic.  A request is a    *)
(* sequence of them, and other requests run between any two: what a        *)
(* request has read it keeps in its own record, and may be stale when it   *)
(* is used.                                                                *)
(***************************************************************************)
EXTENDS Integers, FiniteSets

CONSTANTS
    Users,          \* the accounts that exist at the start
    SuperUsers,     \* those of them with is_super_user = 1
    Admin,          \* the holder of the API token, who is no user
    Campaigns,      \* campaign ids; AUTOINCREMENT: an id is used once
    Invitations,    \* invitation ids; AUTOINCREMENT: an id is used once
    Requests,       \* slots for requests in flight at the same time
    TTL,            \* INVITATION_TTL_DAYS, in ticks of the clock
    MasterLimit,    \* campaigns a user may master (5 in the code)
    FirstMaster,    \* campaign |-> its master, for the campaigns there at first
    Operations,     \* the operations that clients issue in this instance
    Never,          \* NULL in expires_at
    None            \* a field that a request does not use

VARIABLES
    users,          \* the rows of users
    campaigns,      \* the rows of campaigns
    role,           \* campaign_members: <<campaign, user>> |-> role or "none"
    invitation,     \* campaign_invitations: id |-> row
    usedCampaigns,  \* campaign ids that AUTOINCREMENT has given out
    usedInvitations,\* invitation ids that AUTOINCREMENT has given out
    request,        \* what each request in flight is about to do, and has read
    joined,         \* history: pairs that have been a row of campaign_members
    offered,        \* history: pairs that somebody invited or added
    mastered        \* history: pairs that have had the role master

tables  == <<users, campaigns, role, invitation, usedCampaigns, usedInvitations>>
history == <<joined, offered, mastered>>
vars    == <<tables, request, history>>

Pairs    == Campaigns \X Users
Roles    == {"master", "player"}
Statuses == {"pending", "accepted", "declined", "cancelled"}

ASSUME StoreAssumption ==
    /\ SuperUsers \subseteq Users
    /\ DOMAIN FirstMaster \subseteq Campaigns
    /\ \A c \in DOMAIN FirstMaster : FirstMaster[c] \in Users
    /\ TTL \in Nat \ {0}
    /\ MasterLimit \in Nat \ {0}
    /\ Admin \notin Users
    /\ None \notin Users \cup {Admin} \cup Campaigns \cup Invitations
    /\ Never \notin Int
    /\ IsFiniteSet(Campaigns) /\ IsFiniteSet(Invitations)
    /\ IsFiniteSet(Requests) /\ Requests # {}

----------------------------------------------------------------------------
(* Rows and requests *)

\* "left" is expires_at - now.
InvitationRow ==
    [campaign : Campaigns, inviter : Users, invitee : Users,
     status : Statuses, left : (-1..TTL) \cup {Never}]

\* The call that a request will make next; "idle" is a free slot.
NextCall ==
    {"idle", "send:member", "send:active", "send:insert",
     "cancel:read", "cancel:write", "accept:commit", "decline:write",
     "add:insert", "role:member", "role:write", "remove:member", "remove:write",
     "create:insert", "create:member", "create:undo", "delete:write"}

RequestRecord ==
    [next : NextCall, actor : Users \cup {Admin, None},
     campaign : Campaigns \cup {None}, target : Users \cup {None},
     invitation : Invitations \cup {None}, role : Roles \cup {"none"}]

Idle == [next |-> "idle", actor |-> None, campaign |-> None, target |-> None,
         invitation |-> None, role |-> "none"]

\* A request in slot r, past its middleware, that will make the call n next.
Start(r, n, a, c, t, i, rl) ==
    /\ request[r] = Idle
    /\ request' = [request EXCEPT ![r] =
         [next |-> n, actor |-> a, campaign |-> c, target |-> t,
          invitation |-> i, role |-> rl]]

At(r, n)       == request[r].next = n
Continue(r, n) == request' = [request EXCEPT ![r].next = n]
Finish(r)      == request' = [request EXCEPT ![r] = Idle]

----------------------------------------------------------------------------
(* What statements read *)

Exists(i) == i \in DOMAIN invitation

IsMember(c, u) == role[<<c, u>>] # "none"

\* isMaster(c): the campaignRole that campaignMemberMiddleware has set.
\* A super user passes without a row.
IsMaster(a, c) == a \in users /\ (a \in SuperUsers \/ role[<<c, a>>] = "master")

\* notExpiredSql, with D1's clock.
NotExpiredSql(row) == row.left = Never \/ row.left > 0

\* isInvitationExpired, with the Worker's clock: at the very instant of
\* expires_at neither of the two conditions counts the row as expired.
IsInvitationExpired(row) == row.left # Never /\ row.left < 0

Active(i) == invitation[i].status = "pending" /\ NotExpiredSql(invitation[i])

FindActive(c, u) ==
    {i \in DOMAIN invitation :
        invitation[i].campaign = c /\ invitation[i].invitee = u /\ Active(i)}

MasterCampaigns(u) == {c \in campaigns : role[<<c, u>>] = "master"}

----------------------------------------------------------------------------
(* What statements write *)

\* Both foreign keys and UNIQUE (campaign_id, user_id) of campaign_members.
InsertableMemberNoForeignKey(c, u) == ~IsMember(c, u)
InsertableMember(c, u) == c \in campaigns /\ u \in users /\ ~IsMember(c, u)

SetRole(c, u, rl) ==
    /\ role' = [role EXCEPT ![<<c, u>>] = rl]
    /\ joined' = IF rl = "none" THEN joined ELSE joined \cup {<<c, u>>}
    /\ mastered' = IF rl = "master" THEN mastered \cup {<<c, u>>} ELSE mastered

\* The three foreign keys of campaign_invitations.
InsertableInvitation(c, inviter, invitee) ==
    c \in campaigns /\ inviter \in users /\ invitee \in users

NewInvitationWithoutExpiry(c, inviter, invitee) ==
    [campaign |-> c, inviter |-> inviter, invitee |-> invitee,
     status |-> "pending", left |-> Never]
NewInvitationSwapped(c, inviter, invitee) ==
    [campaign |-> c, inviter |-> invitee, invitee |-> inviter,
     status |-> "pending", left |-> TTL]
NewInvitation(c, inviter, invitee) ==
    [campaign |-> c, inviter |-> inviter, invitee |-> invitee,
     status |-> "pending", left |-> TTL]

InsertInvitationReusingIds(c, inviter, invitee) ==
    \E i \in Invitations \ DOMAIN invitation :
        /\ UNCHANGED usedInvitations
        /\ invitation' = [j \in DOMAIN invitation \cup {i} |->
             IF j = i THEN NewInvitation(c, inviter, invitee) ELSE invitation[j]]
InsertInvitation(c, inviter, invitee) ==
    \E i \in Invitations \ usedInvitations :
        /\ usedInvitations' = usedInvitations \cup {i}
        /\ invitation' = [j \in DOMAIN invitation \cup {i} |->
             IF j = i THEN NewInvitation(c, inviter, invitee) ELSE invitation[j]]

\* UPDATE ... SET status = s WHERE id = i: no condition on the old status,
\* and no effect when the row is gone.
UpdateStatus(i, s) ==
    invitation' = [j \in DOMAIN invitation |->
        IF j = i THEN [invitation[j] EXCEPT !.status = s] ELSE invitation[j]]

\* ON DELETE CASCADE, from campaigns and from users.
Cascade(goneCampaigns, goneUsers) ==
    /\ role' = [p \in Pairs |->
         IF p[1] \in goneCampaigns \/ p[2] \in goneUsers THEN "none" ELSE role[p]]
    /\ invitation' =
         [i \in {j \in DOMAIN invitation :
                    /\ invitation[j].campaign \notin goneCampaigns
                    /\ invitation[j].inviter \notin goneUsers
                    /\ invitation[j].invitee \notin goneUsers} |-> invitation[i]]

----------------------------------------------------------------------------
(* The database before the first request *)

StoreInit ==
    /\ users = Users
    /\ campaigns = DOMAIN FirstMaster
    /\ usedCampaigns = DOMAIN FirstMaster
    /\ role = [p \in Pairs |->
         IF p[1] \in DOMAIN FirstMaster /\ FirstMaster[p[1]] = p[2]
           THEN "master" ELSE "none"]
    /\ invitation = [i \in {} |-> None]
    /\ usedInvitations = {}
    /\ request = [r \in Requests |-> Idle]
    /\ joined   = {p \in Pairs : role[p] # "none"}
    /\ offered  = {p \in Pairs : role[p] # "none"}
    /\ mastered = {p \in Pairs : role[p] = "master"}
============================================================================
