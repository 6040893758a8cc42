---------------------------- MODULE CampaignPcs ----------------------------
(***************************************************************************)
(* Player characters: their creation in a campaign (INSERT pcs, the link,  *)
(* the relations one by one, and a compensation when one of them fails),   *)
(* the relations that an owner adds later, the links that a master makes   *)
(* and removes, and the edits of both.                                     *)
(*                                                                         *)
(* A request is a sequence of atomic statements, as in CampaignStore.      *)
(* Who is a master of which campaign is a constant here: a request reads   *)
(* it once, in its middleware.  Two reads that follow each other are one   *)
(* action where a deletion between them only turns one error into another. *)
(***************************************************************************)
EXTENDS Integers, FiniteSets

CONSTANTS
    Users,           \* the accounts that exist at the start; all are members
    SuperUsers,      \* those of them with is_super_user = 1
    MasterOf,        \* pairs <<campaign, user>> for which isMaster holds
    Campaigns,       \* the campaigns that exist at the start
    Pcs,             \* PC ids; AUTOINCREMENT: an id is used once
    Jobs,            \* jobs that a PC can take
    Things,          \* rows of the other catalogues: powers, spells, items, ...
    Requests,        \* slots for requests in flight at the same time
    PcLimit,         \* PCs that a player may create per campaign (3 in the code)
    UnmasteredLimit, \* MAX_UNMASTERED_JOBS (3 in the code)
    Operations,      \* the operations that clients issue in this instance
    None             \* a field that a request does not use

VARIABLES
    users,           \* the rows of users
    campaigns,       \* the rows of campaigns
    owner,           \* pcs: id |-> user_id
    link,            \* campaign_pcs: pairs <<campaign, pc>>
    level,           \* pc_jobs: <<pc, job>> |-> "none", "learning" or "mastered"
    relation,        \* the other pc_* tables: pairs <<pc, thing>>
    request,         \* what each request in flight is about to do, and has read
    creator,         \* history: the user each PC id was given out to
    linked,          \* history: pairs that have been a row of campaign_pcs
    created,         \* history: the links, still there, that a player's creation made
    failed,          \* history: PCs whose creation went wrong after the INSERT
    edited           \* history: pairs <<user, pc>> of edits

tables  == <<users, campaigns, owner, link, level, relation>>
history == <<creator, linked, created, failed, edited>>
vars    == <<tables, request, history>>

Levels == {"learning", "mastered"}

ASSUME PcsAssumption ==
    /\ SuperUsers \subseteq Users
    /\ MasterOf \subseteq Campaigns \X Users
    /\ Campaigns \X SuperUsers \subseteq MasterOf
    /\ PcLimit \in Nat \ {0}
    /\ UnmasteredLimit \in Nat \ {0}
    /\ IsFiniteSet(Pcs) /\ IsFiniteSet(Jobs) /\ IsFiniteSet(Requests)
    /\ None \notin Users \cup Campaigns \cup Pcs \cup Jobs \cup Things

----------------------------------------------------------------------------
(* Requests *)

NextCall ==
    {"idle", "pc:insert", "pc:link", "pc:relations", "pc:undo", "job:read",
     "job:insert", "thing:read", "thing:insert", "link:insert", "edit:write"}

\* "creating": the call is one of POST /:campaignId/pcs.
RequestRecord ==
    [next : NextCall, creating : BOOLEAN, actor : Users \cup {None},
     campaign : Campaigns \cup {None}, pc : Pcs \cup {None},
     job : Jobs \cup {None}, level : Levels \cup {"none"}, thing : Things \cup {None}]

Idle == [next |-> "idle", creating |-> FALSE, actor |-> None, campaign |-> None,
         pc |-> None, job |-> None, level |-> "none", thing |-> None]

Start(r, q) == request[r] = Idle /\ request' = [request EXCEPT ![r] = q]

At(r, n)       == request[r].next = n
Continue(r, n) == request' = [request EXCEPT ![r].next = n]
Finish(r)      == request' = [request EXCEPT ![r] = Idle]

PcExists(p) == p \in DOMAIN owner

Learning(p) == {j \in Jobs : level[<<p, j>>] = "learning"}

OwnPcsIn(u, c) == {p \in DOMAIN owner : owner[p] = u /\ <<c, p>> \in link}

\* What a failed call does: the handler of the creation catches it and
\* compensates, the other routes answer the error.
Fail(r) ==
    IF request[r].creating
      THEN /\ Continue(r, "pc:undo")
           /\ failed' = failed \cup {request[r].pc}
      ELSE Finish(r) /\ UNCHANGED failed

Succeed(r) ==
    /\ IF request[r].creating THEN Continue(r, "pc:relations") ELSE Finish(r)
    /\ UNCHANGED failed

----------------------------------------------------------------------------
(* POST /:campaignId/pcs *)

\* Up to the COUNT(*) of the PCs of the caller in this campaign.
StartCreateOffByOne(r, u, c) ==
    /\ "create" \in Operations
    /\ u \in users /\ c \in campaigns
    /\ <<c, u>> \in MasterOf \/ Cardinality(OwnPcsIn(u, c)) <= PcLimit
    /\ Start(r, [Idle EXCEPT !.next = "pc:insert", !.creating = TRUE,
                             !.actor = u, !.campaign = c])
    /\ UNCHANGED <<tables, history>>
StartCreate(r, u, c) ==
    /\ "create" \in Operations
    /\ u \in users /\ c \in campaigns
    /\ <<c, u>> \in MasterOf \/ Cardinality(OwnPcsIn(u, c)) < PcLimit
    /\ Start(r, [Idle EXCEPT !.next = "pc:insert", !.creating = TRUE,
                             !.actor = u, !.campaign = c])
    /\ UNCHANGED <<tables, history>>

\* INSERT INTO pcs, with the user_id that the route passes.
InsertPcWithoutOwner(p, u) ==
    /\ owner' = [x \in DOMAIN owner \cup {p} |-> IF x = p THEN None ELSE owner[x]]
    /\ creator' = [creator EXCEPT ![p] = u]
InsertPc(p, u) ==
    /\ owner' = [x \in DOMAIN owner \cup {p} |-> IF x = p THEN u ELSE owner[x]]
    /\ creator' = [creator EXCEPT ![p] = u]

\* createPc: one INSERT, which UNIQUE (name) or the foreign key may refuse.
PcInsert(r) ==
    LET u == request[r].actor IN
    /\ At(r, "pc:insert")
    /\ \/ /\ u \in users
          /\ \E p \in {x \in Pcs : creator[x] = None} :
               /\ InsertPc(p, u)
               /\ request' = [request EXCEPT ![r].next = "pc:link", ![r].pc = p]
       \/ Finish(r) /\ UNCHANGED <<owner, creator>>
    /\ UNCHANGED <<users, campaigns, link, level, relation, linked, created, failed, edited>>

\* Both foreign keys and the primary key of campaign_pcs.
Linkable(c, p) == c \in campaigns /\ PcExists(p) /\ <<c, p>> \notin link

\* linkPc: the PC may have gone, or a master may have linked it already.
PcLink(r) ==
    LET c == request[r].campaign  p == request[r].pc  u == request[r].actor IN
    /\ At(r, "pc:link")
    /\ IF Linkable(c, p)
         THEN /\ link' = link \cup {<<c, p>>}
              /\ linked' = linked \cup {<<c, p>>}
              /\ created' = IF <<c, u>> \in MasterOf THEN created ELSE created \cup {<<c, p>>}
              /\ Succeed(r)
         ELSE Fail(r) /\ UNCHANGED <<link, linked, created>>
    /\ UNCHANGED <<users, campaigns, owner, level, relation, creator, edited>>

\* The loops over the relations in the body: one more of them, or 201.
NextRelation(r) ==
    /\ At(r, "pc:relations")
    /\ \/ \E j \in Jobs, l \in Levels :
            request' = [request EXCEPT ![r].next = "job:read", ![r].job = j, ![r].level = l]
       \/ \E t \in Things :
            request' = [request EXCEPT ![r].next = "thing:read", ![r].thing = t]
       \/ Finish(r)
    /\ UNCHANGED <<tables, history>>

\* deletePc, with ON DELETE CASCADE to every table that refers to the PC.
DropPcs(gone) ==
    /\ owner' = [p \in DOMAIN owner \ gone |-> owner[p]]
    /\ link' = {l \in link : l[2] \notin gone}
    /\ level' = [x \in Pcs \X Jobs |-> IF x[1] \in gone THEN "none" ELSE level[x]]
    /\ relation' = {x \in relation : x[1] \notin gone}

UndoLinkOnly(r) ==
    /\ At(r, "pc:undo")
    /\ link' = {l \in link : l[2] # request[r].pc}
    /\ Finish(r)
    /\ UNCHANGED <<users, campaigns, owner, level, relation, history>>
Undo(r) ==
    /\ At(r, "pc:undo")
    /\ DropPcs({request[r].pc})
    /\ Finish(r)
    /\ UNCHANGED <<users, campaigns, history>>

----------------------------------------------------------------------------
(* Relations: in the creation, and POST /v1/pcs/:pcId/... of the owner *)

\* pcOwnerMiddleware lets a super user pass before it looks for the PC.
StartRelation(r, u, p) ==
    /\ "relation" \in Operations
    /\ u \in users
    /\ u \in SuperUsers \/ (PcExists(p) /\ owner[p] = u)
    /\ \/ \E j \in Jobs, l \in Levels :
            Start(r, [Idle EXCEPT !.next = "job:read", !.actor = u, !.pc = p,
                                  !.job = j, !.level = l])
       \/ \E t \in Things :
            Start(r, [Idle EXCEPT !.next = "thing:read", !.actor = u, !.pc = p, !.thing = t])
    /\ UNCHANGED <<tables, history>>

\* validatePcExists and validateUnmasteredJobLimit.
JobReadWithoutLimit(r) ==
    /\ At(r, "job:read")
    /\ IF PcExists(request[r].pc)
         THEN Continue(r, "job:insert") /\ UNCHANGED failed
         ELSE Fail(r)
    /\ UNCHANGED <<tables, creator, linked, created, edited>>
JobRead(r) ==
    LET p == request[r].pc IN
    /\ At(r, "job:read")
    /\ IF /\ PcExists(p)
          /\ request[r].level = "mastered" \/ Cardinality(Learning(p)) < UnmasteredLimit
         THEN Continue(r, "job:insert") /\ UNCHANGED failed
         ELSE Fail(r)
    /\ UNCHANGED <<tables, creator, linked, created, edited>>

\* INSERT INTO pc_jobs: the primary key and the foreign key to pcs; "badId" is a
\* job_id that does not exist, or any other error of the database.
JobInsert(r) ==
    LET p == request[r].pc  j == request[r].job IN
    /\ At(r, "job:insert")
    /\ \/ /\ PcExists(p) /\ level[<<p, j>>] = "none"
          /\ level' = [level EXCEPT ![<<p, j>>] = request[r].level]
          /\ Succeed(r)
       \/ /\ ~PcExists(p) \/ level[<<p, j>>] # "none" \/ "badId" \in Operations
          /\ Fail(r) /\ UNCHANGED level
    /\ UNCHANGED <<users, campaigns, owner, link, relation, creator, linked, created, edited>>

\* validatePcExists of the other relations ...
ThingRead(r) ==
    /\ At(r, "thing:read")
    /\ IF PcExists(request[r].pc)
         THEN Continue(r, "thing:insert") /\ UNCHANGED failed
         ELSE Fail(r)
    /\ UNCHANGED <<tables, creator, linked, created, edited>>

\* ... and their INSERT.
ThingInsertNoForeignKey(r) ==
    LET x == <<request[r].pc, request[r].thing>> IN
    /\ At(r, "thing:insert")
    /\ relation' = relation \cup {x}
    /\ Succeed(r)
    /\ UNCHANGED <<users, campaigns, owner, link, level, creator, linked, created, edited>>
ThingInsert(r) ==
    LET x == <<request[r].pc, request[r].thing>> IN
    /\ At(r, "thing:insert")
    /\ \/ /\ PcExists(x[1]) /\ x \notin relation
          /\ relation' = relation \cup {x}
          /\ Succeed(r)
       \/ /\ ~PcExists(x[1]) \/ x \in relation \/ "badId" \in Operations
          /\ Fail(r) /\ UNCHANGED relation
    /\ UNCHANGED <<users, campaigns, owner, link, level, creator, linked, created, edited>>

----------------------------------------------------------------------------
(* The links and edits of masters and owners, and what cascades *)

\* POST /:campaignId/campaign-pcs: any PC id.
StartLink(r, a, c, p) ==
    /\ "link" \in Operations
    /\ a \in users /\ c \in campaigns /\ <<c, a>> \in MasterOf
    /\ Start(r, [Idle EXCEPT !.next = "link:insert", !.actor = a, !.campaign = c, !.pc = p])
    /\ UNCHANGED <<tables, history>>

LinkInsert(r) ==
    LET c == request[r].campaign  p == request[r].pc IN
    /\ At(r, "link:insert")
    /\ IF Linkable(c, p)
         THEN link' = link \cup {<<c, p>>} /\ linked' = linked \cup {<<c, p>>}
         ELSE UNCHANGED <<link, linked>>
    /\ Finish(r)
    /\ UNCHANGED <<users, campaigns, owner, level, relation, creator, created, failed, edited>>

\* DELETE /:campaignId/campaign-pcs/:pcId: one DELETE.
Unlink(c, p) ==
    /\ "unlink" \in Operations
    /\ <<c, p>> \in link
    /\ link' = link \ {<<c, p>>}
    /\ created' = created \ {<<c, p>>}
    /\ UNCHANGED <<users, campaigns, owner, level, relation, request,
                   creator, linked, failed, edited>>

\* PUT /:campaignId/pcs/:pcId: a master may edit the PCs of the campaign, a
\* player his own.
StartEditAny(r, u, c, p) ==
    /\ "edit" \in Operations
    /\ u \in users /\ c \in campaigns
    /\ IF <<c, u>> \in MasterOf THEN PcExists(p) ELSE PcExists(p) /\ owner[p] = u
    /\ Start(r, [Idle EXCEPT !.next = "edit:write", !.actor = u, !.campaign = c, !.pc = p])
    /\ UNCHANGED <<tables, history>>
StartEdit(r, u, c, p) ==
    /\ "edit" \in Operations
    /\ u \in users /\ c \in campaigns
    /\ IF <<c, u>> \in MasterOf THEN <<c, p>> \in link ELSE PcExists(p) /\ owner[p] = u
    /\ Start(r, [Idle EXCEPT !.next = "edit:write", !.actor = u, !.campaign = c, !.pc = p])
    /\ UNCHANGED <<tables, history>>

\* updatePc: validatePcExists and one UPDATE, whose columns are left out.
EditWrite(r) ==
    /\ At(r, "edit:write")
    /\ edited' = IF PcExists(request[r].pc)
                   THEN edited \cup {<<request[r].actor, request[r].pc>>} ELSE edited
    /\ Finish(r)
    /\ UNCHANGED <<tables, creator, linked, created, failed>>

\* DELETE of an account: pcs.user_id cascades.
DeleteUser(u) ==
    /\ "deleteUser" \in Operations
    /\ u \in users
    /\ users' = users \ {u}
    /\ DropPcs({p \in DOMAIN owner : owner[p] = u})
    /\ UNCHANGED <<campaigns, request, history>>

\* DELETE of a campaign: its links go, the PCs stay.
DeleteCampaign(c) ==
    /\ "delete" \in Operations
    /\ c \in campaigns
    /\ campaigns' = campaigns \ {c}
    /\ link' = {l \in link : l[1] # c}
    /\ UNCHANGED <<users, owner, level, relation, request, history>>

----------------------------------------------------------------------------
Init ==
    /\ users = Users
    /\ campaigns = Campaigns
    /\ owner = [p \in {} |-> None]
    /\ link = {}
    /\ level = [x \in Pcs \X Jobs |-> "none"]
    /\ relation = {}
    /\ request = [r \in Requests |-> Idle]
    /\ creator = [p \in Pcs |-> None]
    /\ linked = {}
    /\ created = {}
    /\ failed = {}
    /\ edited = {}

Handlers(r) ==
    \/ \E u \in Users, c \in Campaigns : StartCreate(r, u, c)
    \/ PcInsert(r)
    \/ PcLink(r)
    \/ NextRelation(r)
    \/ Undo(r)
    \/ \E u \in Users, p \in Pcs : StartRelation(r, u, p)
    \/ JobRead(r)
    \/ JobInsert(r)
    \/ ThingRead(r)
    \/ ThingInsert(r)
    \/ \E a \in Users, c \in Campaigns, p \in Pcs : StartLink(r, a, c, p)
    \/ LinkInsert(r)
    \/ \E u \in Users, c \in Campaigns, p \in Pcs : StartEdit(r, u, c, p)
    \/ EditWrite(r)

Next ==
    \/ \E r \in Requests : Handlers(r)
    \/ \E c \in Campaigns, p \in Pcs : Unlink(c, p)
    \/ \E u \in Users : DeleteUser(u)
    \/ \E c \in Campaigns : DeleteCampaign(c)

Spec == Init /\ [][Next]_vars

----------------------------------------------------------------------------
(* Properties *)

\* Every variable holds a value of its type.
TypeOK ==
    /\ users \subseteq Users
    /\ campaigns \subseteq Campaigns
    /\ DOMAIN owner \subseteq Pcs
    /\ owner \in [DOMAIN owner -> Users]
    /\ link \subseteq Campaigns \X Pcs
    /\ level \in [Pcs \X Jobs -> Levels \cup {"none"}]
    /\ relation \subseteq Pcs \X Things
    /\ request \in [Requests -> RequestRecord]
    /\ creator \in [Pcs -> Users \cup {None}]
    /\ linked \subseteq Campaigns \X Pcs
    /\ created \subseteq Campaigns \X Pcs
    /\ failed \subseteq Pcs
    /\ edited \subseteq Users \X Pcs

\* A request has read the fields that the call it makes next will use.
FieldsAreSet(q) ==
    /\ q.next \in {"pc:insert", "edit:write"} => q.actor \in Users
    /\ q.next \in {"pc:insert", "pc:link", "link:insert"} => q.campaign \in Campaigns
    /\ q.next \notin {"idle", "pc:insert"} => q.pc \in Pcs
    /\ q.next \in {"job:read", "job:insert"} => q.job \in Jobs /\ q.level \in Levels
    /\ q.next \in {"thing:read", "thing:insert"} => q.thing \in Things

TypeInv == TypeOK /\ \A r \in Requests : FieldsAreSet(request[r])

\* No row outlives the PC, the account or the campaign that it refers to, also
\* when the deletion falls between validatePcExists and the INSERT it guards.
RowsHaveParents ==
    /\ \A p \in DOMAIN owner : owner[p] \in users
    /\ \A l \in link : l[1] \in campaigns /\ PcExists(l[2])
    /\ \A x \in Pcs \X Jobs : level[x] # "none" => PcExists(x[1])
    /\ \A x \in relation : PcExists(x[1])

Undoing(p) == \E r \in Requests : At(r, "pc:undo") /\ request[r].pc = p

Gone(p) ==
    /\ ~PcExists(p)
    /\ \A l \in link : l[2] # p
    /\ \A j \in Jobs : level[<<p, j>>] = "none"
    /\ \A x \in relation : x[1] # p

\* A creation that answers an error leaves nothing behind, neither what it wrote
\* itself nor what the owner or a master has added to the PC meanwhile (the
\* compensation of POST /:campaignId/pcs).
FailedLeavesNothing == \A p \in failed : Undoing(p) \/ Gone(p)

Entitled(u, p) ==
    \/ creator[p] = u
    \/ \E c \in Campaigns : <<c, u>> \in MasterOf /\ <<c, p>> \in linked

\* A PC is edited by its owner or by a master of a campaign that it has been
\* linked to, never by a master of another campaign only.
EditsStayInCampaign == \A e \in edited : Entitled(e[1], e[2])

\* The inductive strengthening of these three.  A PC id is never given out again,
\* so a request that waits between its check and its write still means the same
\* PC, and a PC that was undone stays gone.
Remembers(q) ==
    /\ q.creating /\ q.next \notin {"idle", "pc:insert"} => creator[q.pc] # None
    /\ q.next = "edit:write" => Entitled(q.actor, q.pc)

IInv ==
    /\ RowsHaveParents
    /\ FailedLeavesNothing
    /\ EditsStayInCampaign
    /\ \A p \in DOMAIN owner : owner[p] = creator[p]
    /\ \A p \in failed : creator[p] # None
    /\ link \subseteq linked
    /\ \A r \in Requests : Remembers(request[r])

CreatedBy(u, c) == {p \in OwnPcsIn(u, c) : <<c, p>> \in created}

\* The limit of PCs that a player makes in a campaign is counted before the INSERT:
\* however many creations overlap, each goes past it by one at most.
PcLimitOvershoot ==
    \A u \in Users, c \in Campaigns :
        Cardinality(CreatedBy(u, c)) < PcLimit + Cardinality(Requests)

\* The limit of validateUnmasteredJobLimit is counted before the INSERT: however
\* many requests overlap, each goes past it by one at most.
UnmasteredOvershoot ==
    \A p \in Pcs : Cardinality(Learning(p)) < UnmasteredLimit + Cardinality(Requests)
============================================================================
