-------------------------- MODULE CampaignEntities --------------------------
(***************************************************************************)
(* The NPCs, monsters, items, locations, factions and sessions that a      *)
(* master creates and edits in a campaign, and the catalogue rows that a   *)
(* master links to it.                                                     *)
(*                                                                         *)
(* A creation is INSERT, then link; an edit is a look for the link, then   *)
(* UPDATE, then the visibility of the link: separate calls without         *)
(* transaction or compensation, between which other requests act.  Of the  *)
(* calls that assertCampaignExists precedes, only the call is modelled: on *)
(* a campaign that is gone it has no effect or is refused by the foreign   *)
(* key.  Who is master of which campaign is read once, in the middleware,  *)
(* and is a constant here.  The rows that hang on an NPC or a monster are  *)
(* in module Sheets.                                                       *)
(***************************************************************************)
EXTENDS EntityStore

CONSTANTS
    Users,      \* the accounts that send requests
    MasterOf,   \* pairs <<campaign, user>> for which isMaster holds
    Requests,   \* slots for requests in flight at the same time
    Operations  \* the operations that clients issue in this instance

VARIABLES
    request,    \* what each request in flight is about to do, and has read
    origin,     \* history: the campaign whose POST inserted the row, or "admin"
    released,   \* history: rows whose POST was cut short before the link, or that their
                \* campaign unlinked
    linked,     \* history: pairs that have been a row of campaign_entities
    apart,      \* history: pairs that a master has linked, shown or hidden by hand, that
                \* two PATCHes in flight at once are about, or one that was cut short
    writer,     \* history: the campaign whose request last wrote the row
    edited      \* history: pairs <<user, id>> of edits

history == <<origin, released, linked, apart, writer, edited>>
vars    == <<store, request, history>>

ASSUME EntitiesAssumption ==
    /\ MasterOf \subseteq Campaigns \X Users
    /\ None \notin Users \cup Entities \cup Kinds
    /\ "admin" \notin Campaigns \cup {None}

----------------------------------------------------------------------------
(* Requests *)

NextCall == {"idle", "post:insert", "post:link", "patch:write", "patch:visible"}

RequestRecord ==
    [next : NextCall, actor : Users \cup {None}, campaign : Campaigns \cup {None},
     kind : Kinds \cup {None}, entity : Entities \cup {None}, flag : Flags]

Idle == [next |-> "idle", actor |-> None, campaign |-> None, kind |-> None,
         entity |-> None, flag |-> "hidden"]

Start(r, q)    == request[r] = Idle /\ request' = [request EXCEPT ![r] = q]
At(r, n)       == request[r].next = n
Continue(r, n) == request' = [request EXCEPT ![r].next = n]
Finish(r)      == request' = [request EXCEPT ![r] = Idle]

\* campaignMemberMiddleware and forbidIfNotMaster.
IsMaster(c, u) == c \in campaigns /\ <<c, u>> \in MasterOf

Fresh == {e \in Entities : origin[e] = None}

Patching(r, c, e) ==
    /\ request[r].next \in {"patch:write", "patch:visible"}
    /\ request[r].campaign = c /\ request[r].entity = e

----------------------------------------------------------------------------
(* POST /:campaignId/<kind> *)

\* (An instance issues no POST of a kind that it has no ids of.)
StartPost(r, u, c, k, flag) ==
    /\ "post" \in Operations /\ \E e \in Entities : kindOf[e] = k
    /\ IsMaster(c, u)
    /\ Start(r, [next |-> "post:insert", actor |-> u, campaign |-> c, kind |-> k,
                 entity |-> None, flag |-> flag])
    /\ UNCHANGED <<store, history>>

PostNpc(r, u, c, flag)      == StartPost(r, u, c, "npc", flag)
PostMonster(r, u, c, flag)  == StartPost(r, u, c, "monster", flag)
PostItem(r, u, c, flag)     == StartPost(r, u, c, "item", flag)
PostLocation(r, u, c, flag) == StartPost(r, u, c, "location", flag)
PostFaction(r, u, c, flag)  == StartPost(r, u, c, "faction", flag)
PostSession(r, u, c, flag)  == StartPost(r, u, c, "session", flag)

\* create<Kind>: one INSERT, or one batch for a faction with its locations.
InsertOfKind(k, e, c, flag) ==
    \/ k = "npc"      /\ InsertNpc(e, flag)
    \/ k = "monster"  /\ InsertMonster(e, flag)
    \/ k = "item"     /\ InsertItem(e, flag)
    \/ k = "location" /\ InsertLocation(e, flag)
    \/ k = "faction"  /\ InsertFaction(e, flag)
    \/ k = "session"  /\ InsertSession(e, c, flag)

PostInsert(r) ==
    LET q == request[r] IN
    /\ At(r, "post:insert")
    /\ \/ \E e \in Fresh :
            /\ InsertOfKind(q.kind, e, q.campaign, q.flag)
            /\ request' = [request EXCEPT ![r].next = "post:link", ![r].entity = e]
            /\ origin' = [origin EXCEPT ![e] = q.campaign]
            /\ writer' = [writer EXCEPT ![e] = q.campaign]
       \/ Finish(r) /\ UNCHANGED <<content, home, origin, writer>>
    /\ UNCHANGED <<campaigns, kindOf, link, released, linked, apart, edited>>

\* linkEntity: refused when the campaign is gone, or when a master has linked the
\* id before the row existed.  The row stays.
PostLink(r) ==
    LET c == request[r].campaign  e == request[r].entity IN
    /\ At(r, "post:link")
    /\ IF Linkable(c, e)
         THEN InsertLink(c, e, request[r].flag) /\ linked' = linked \cup {<<c, e>>}
         ELSE UNCHANGED <<link, linked>>
    /\ Finish(r)
    /\ UNCHANGED <<campaigns, kindOf, content, home, origin, released, apart, writer,
                   edited>>

----------------------------------------------------------------------------
(* PATCH /:campaignId/<kind>/:id *)

\* getEntity: 404 unless the campaign links the id.
StartPatchAnywhere(r, u, c, k, e, flag) ==
    /\ "patch" \in Operations
    /\ IsMaster(c, u)
    /\ kindOf[e] = k /\ \E d \in Campaigns : Linked(d, e)
    /\ Start(r, [next |-> "patch:write", actor |-> u, campaign |-> c, kind |-> k,
                 entity |-> e, flag |-> flag])
    /\ apart' = IF \E s \in Requests : Patching(s, c, e)
                  THEN apart \cup {<<c, e>>} ELSE apart
    /\ UNCHANGED <<store, origin, released, linked, writer, edited>>
StartPatch(r, u, c, k, e, flag) ==
    /\ "patch" \in Operations
    /\ IsMaster(c, u)
    /\ kindOf[e] = k /\ Linked(c, e)
    /\ Start(r, [next |-> "patch:write", actor |-> u, campaign |-> c, kind |-> k,
                 entity |-> e, flag |-> flag])
    /\ apart' = IF \E s \in Requests : Patching(s, c, e)
                  THEN apart \cup {<<c, e>>} ELSE apart
    /\ UNCHANGED <<store, origin, released, linked, writer, edited>>

PatchNpc(r, u, c, e, flag)      == StartPatch(r, u, c, "npc", e, flag)
PatchMonster(r, u, c, e, flag)  == StartPatch(r, u, c, "monster", e, flag)
PatchItem(r, u, c, e, flag)     == StartPatch(r, u, c, "item", e, flag)
PatchLocation(r, u, c, e, flag) == StartPatch(r, u, c, "location", e, flag)
PatchFaction(r, u, c, e, flag)  == StartPatch(r, u, c, "faction", e, flag)
PatchSession(r, u, c, e, flag)  == StartPatch(r, u, c, "session", e, flag)

\* update<Kind>.
UpdateOfKind(k, e, flag) ==
    \/ k = "npc"      /\ UpdateNpcRow(e, flag)
    \/ k = "monster"  /\ UpdateMonsterRow(e, flag)
    \/ k = "item"     /\ UpdateItemRow(e, flag)
    \/ k = "location" /\ UpdateLocationRow(e, flag)
    \/ k = "faction"  /\ UpdateFactionRow(e, flag)
    \/ k = "session"  /\ UpdateSessionRow(e, flag)

\* The UPDATE may be refused: the new name is taken, a relation is invalid.
PatchWrite(r) ==
    LET q == request[r] IN
    /\ At(r, "patch:write")
    /\ \/ /\ UpdateOfKind(q.kind, q.entity, q.flag)
          /\ Continue(r, "patch:visible")
          /\ IF RowExists(q.entity)
               THEN /\ edited' = edited \cup {<<q.actor, q.entity>>}
                    /\ writer' = [writer EXCEPT ![q.entity] = q.campaign]
               ELSE UNCHANGED <<edited, writer>>
       \/ Finish(r) /\ UNCHANGED <<content, edited, writer>>
    /\ UNCHANGED <<campaigns, kindOf, home, link, origin, released, linked, apart>>

\* updateEntityVisibility: nothing to update when the link has gone meanwhile.
PatchVisibleNever(r) ==
    /\ At(r, "patch:visible")
    /\ Finish(r)
    /\ UNCHANGED <<store, history>>
PatchVisible(r) ==
    /\ At(r, "patch:visible")
    /\ UpdateVisibility(request[r].campaign, request[r].entity, request[r].flag)
    /\ Finish(r)
    /\ UNCHANGED <<campaigns, kindOf, content, home, history>>

----------------------------------------------------------------------------
(* /:campaignId/entities: links by hand, of any id *)

LinkEntity(u, c, e, flag) ==
    /\ "link" \in Operations
    /\ IsMaster(c, u) /\ Linkable(c, e)
    /\ InsertLink(c, e, flag)
    /\ linked' = linked \cup {<<c, e>>}
    /\ apart' = apart \cup {<<c, e>>}
    /\ UNCHANGED <<campaigns, kindOf, content, home, request, origin, released,
                   writer, edited>>

ShowEntity(u, c, e, flag) ==
    /\ "show" \in Operations
    /\ IsMaster(c, u) /\ Linked(c, e)
    /\ UpdateVisibility(c, e, flag)
    /\ apart' = apart \cup {<<c, e>>}
    /\ UNCHANGED <<campaigns, kindOf, content, home, request, origin, released,
                   linked, writer, edited>>

UnlinkEntity(u, c, e) ==
    /\ "unlink" \in Operations
    /\ IsMaster(c, u) /\ Linked(c, e)
    /\ DeleteLink(c, e)
    /\ released' = IF origin[e] = c THEN released \cup {e} ELSE released
    /\ UNCHANGED <<campaigns, kindOf, content, home, request, origin, linked,
                   apart, writer, edited>>

----------------------------------------------------------------------------
(* The admin, the end of a campaign, and failures *)

\* POST /v1/admin/...: one INSERT; there is none for sessions.
AdminCreate(e) ==
    /\ "admin" \in Operations
    /\ e \in Fresh
    /\ \/ InsertNpc(e, "visible")
       \/ InsertMonster(e, "visible")
       \/ InsertItem(e, "visible")
       \/ InsertLocation(e, "visible")
       \/ InsertFaction(e, "visible")
       \/ InsertJob(e, "visible")
       \/ InsertPower(e, "visible")
       \/ InsertSpell(e, "visible")
       \/ InsertArcana(e, "visible")
    /\ origin' = [origin EXCEPT ![e] = "admin"]
    /\ UNCHANGED <<campaigns, kindOf, link, request, released, linked, apart,
                   writer, edited>>

DeleteCampaign(c) ==
    /\ "delete" \in Operations
    /\ c \in campaigns
    /\ DropCampaign(c)
    /\ UNCHANGED <<kindOf, request, history>>

\* An uncaught error between two calls, or the eviction of the Worker: nothing
\* is undone.
Abandon(r) ==
    LET q == request[r] IN
    /\ "fail" \in Operations
    /\ ~At(r, "idle")
    /\ released' = IF At(r, "post:link") THEN released \cup {q.entity} ELSE released
    /\ apart' = IF At(r, "patch:visible")
                  THEN apart \cup {<<q.campaign, q.entity>>} ELSE apart
    /\ Finish(r)
    /\ UNCHANGED <<store, origin, linked, writer, edited>>

----------------------------------------------------------------------------
Init ==
    /\ campaigns = Campaigns
    /\ kindOf \in KindAssignments
    /\ content = [e \in {} |-> "hidden"]
    /\ home = [e \in Entities |-> None]
    /\ link = [x \in Campaigns \X Entities |-> "none"]
    /\ request = [r \in Requests |-> Idle]
    /\ origin = [e \in Entities |-> None]
    /\ released = {}
    /\ linked = {}
    /\ apart = {}
    /\ writer = [e \in Entities |-> None]
    /\ edited = {}

Posts(r, u, c, flag) ==
    \/ PostNpc(r, u, c, flag)
    \/ PostMonster(r, u, c, flag)
    \/ PostItem(r, u, c, flag)
    \/ PostLocation(r, u, c, flag)
    \/ PostFaction(r, u, c, flag)
    \/ PostSession(r, u, c, flag)

Patches(r, u, c, e, flag) ==
    \/ PatchNpc(r, u, c, e, flag)
    \/ PatchMonster(r, u, c, e, flag)
    \/ PatchItem(r, u, c, e, flag)
    \/ PatchLocation(r, u, c, e, flag)
    \/ PatchFaction(r, u, c, e, flag)
    \/ PatchSession(r, u, c, e, flag)

Handlers(r) ==
    \/ \E u \in Users, c \in Campaigns, flag \in Flags : Posts(r, u, c, flag)
    \/ PostInsert(r)
    \/ PostLink(r)
    \/ \E u \in Users, c \in Campaigns, e \in Entities, flag \in Flags :
          Patches(r, u, c, e, flag)
    \/ PatchWrite(r)
    \/ PatchVisible(r)
    \/ Abandon(r)

ByHand(u, c, e) ==
    \/ \E flag \in Flags : LinkEntity(u, c, e, flag)
    \/ \E flag \in Flags : ShowEntity(u, c, e, flag)
    \/ UnlinkEntity(u, c, e)

Next ==
    \/ \E r \in Requests : Handlers(r)
    \/ \E u \in Users, c \in Campaigns, e \in Entities : ByHand(u, c, e)
    \/ \E e \in Entities : AdminCreate(e)
    \/ \E c \in Campaigns : DeleteCampaign(c)

Spec == Init /\ [][Next]_vars

----------------------------------------------------------------------------
(* Properties *)

\* Every variable holds a value of its type.
TypeOK ==
    /\ campaigns \subseteq Campaigns
    /\ kindOf \in [Entities -> Kinds]
    /\ DOMAIN content \subseteq Entities
    /\ content \in [DOMAIN content -> Flags]
    /\ home \in [Entities -> Campaigns \cup {None}]
    /\ link \in [Campaigns \X Entities -> Flags \cup {"none"}]
    /\ request \in [Requests -> RequestRecord]
    /\ origin \in [Entities -> Campaigns \cup {"admin", None}]
    /\ released \subseteq Entities
    /\ linked \subseteq Campaigns \X Entities
    /\ apart \subseteq Campaigns \X Entities
    /\ writer \in [Entities -> Campaigns \cup {None}]
    /\ edited \subseteq Users \X Entities

\* No link and no session belongs to a campaign that has been deleted, also when
\* the deletion falls between the calls of a POST (the foreign keys).
NothingOfDeletedCampaigns ==
    \A e \in Entities :
        /\ \A c \in Campaigns : Linked(c, e) => c \in campaigns
        /\ RowExists(e) /\ kindOf[e] = "session" => home[e] \in campaigns

Linking(e) == \E r \in Requests : At(r, "post:link") /\ request[r].entity = e

\* What a master creates in a campaign shows up in a global catalogue only while
\* its POST has not linked it yet or when that was cut short, or after the campaign
\* was deleted or the link removed (the NOT IN of the global lists).  A link that is
\* refused, because the id was linked by hand before the row came, leaves none there.
GlobalListIsEarned ==
    \A e \in GlobalLists :
        origin[e] \in campaigns => Linking(e) \/ e \in released

\* A row is edited by masters of campaigns that have linked it only, whatever
\* happened to the link between the look for it and the UPDATE.
EditsStayInCampaign ==
    \A x \in edited :
        \E c \in Campaigns : <<c, x[1]>> \in MasterOf /\ <<c, x[2]>> \in linked

Hiding(c, e) ==
    \E r \in Requests : At(r, "patch:visible") /\ Patching(r, c, e)

\* What was written as hidden from players is listed for the players of that
\* campaign at most until its own PATCH hides it, unless two PATCHes overlapped,
\* one was cut short, or a master linked or showed it by hand.
HiddenStaysHidden ==
    \A c \in Campaigns : \A e \in CampaignLists(c, "player") :
        content[e] = "hidden" /\ writer[e] = c =>
            Hiding(c, e) \/ <<c, e>> \in apart

\* The numbers of the home page are those of the master's lists, but for ids that
\* a master linked by hand: no creation, edit or deletion leaves a link without
\* its row.
HomeStatsMatchLists ==
    \A c \in Campaigns, k \in HomeKinds :
        HomeStats(c)[k] =
            Cardinality({e \in CampaignLists(c, "master") : kindOf[e] = k})
            + Cardinality({e \in Entities : /\ kindOf[e] = k /\ Linked(c, e)
                                            /\ ~RowExists(e) /\ <<c, e>> \in apart})
============================================================================
