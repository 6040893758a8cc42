------------------------------- MODULE PcPages -------------------------------
(***************************************************************************)
(* Who sees which PC, and whether its page opens: the five queries that    *)
(* decide it, each with its own SQL, over the rows of accounts, members,   *)
(* PCs, campaign_pcs, pc_bonds and items, which anybody may change between *)
(* two requests.  A page is what the assembler makes of the rows at one    *)
(* moment.  How members come and go and how a PC is created, call by call, *)
(* is in CampaignMembers and CampaignPcs; here each statement is a step.   *)
(***************************************************************************)
EXTENDS PcStats, FiniteSets

CONSTANTS
    Campaigns, Users, Pcs,
    Items,      \* what a PC may wear as armor
    ItemRows,   \* what a row of items may hold
    BaseSheet,  \* the dice, the jobs and the other hands of every PC
    Samples,    \* sheets on which the statistics are compared
    None

VARIABLES
    campaigns,  \* the rows of campaigns
    accounts,   \* the rows of users
    role,       \* campaign_members: <<campaign, user>> |-> role, or "none"
    issued,     \* sqlite_sequence of pcs: the ids that AUTOINCREMENT has given
    owner,      \* pcs.user_id; None when the PC has no row
    shown,      \* campaign_pcs: <<campaign, pc>> |-> "visible" or "hidden", or "none"
    bonds,      \* pc_bonds with target_type 'pc': [Pcs -> set of target_id]
    armor,      \* pc_equipments.armor
    item        \* the rows of items

vars == <<campaigns, accounts, role, issued, owner, shown, bonds, armor, item>>

Flags == {"visible", "hidden"}

ASSUME PagesAssumption ==
    /\ None \notin Users \cup Items
    /\ ItemRows \subseteq ItemRecords
    /\ BaseSheet \in SheetRecords
    /\ Samples \subseteq SheetRecords

PcExists(p)  == owner[p] # None
InCampaign(p) == \E c \in Campaigns : shown[<<c, p>>] # "none"

----------------------------------------------------------------------------
(* The queries.  UNION and JOIN are over the rows that exist. *)

\* findAccessibleSummary, without and with scope=global.
Accessible(u) ==
    {p \in Pcs :
        \/ owner[p] = u
        \/ \E c \in Campaigns :
              /\ shown[<<c, p>>] # "none" /\ role[<<c, u>>] # "none"
              /\ shown[<<c, p>>] = "visible" \/ role[<<c, u>>] = "master"}

GlobalPcs(u) == {p \in Pcs : owner[p] = u /\ ~InCampaign(p)}

\* canUserAccessPc, for GET /pcs/:id.
CanUserAccessAsMember(u, p) ==
    \/ owner[p] = u
    \/ \E c \in Campaigns : shown[<<c, p>>] = "visible" /\ role[<<c, u>>] # "none"
CanUserAccess(u, p) ==
    \/ owner[p] = u
    \/ \E c \in Campaigns :
          /\ shown[<<c, p>>] # "none" /\ role[<<c, u>>] # "none"
          /\ shown[<<c, p>>] = "visible" \/ role[<<c, u>>] = "master"

\* VIS_PC: a player sees what is visible and what is theirs, others see all.
Sees(c, u, p) == role[<<c, u>>] # "player" \/ shown[<<c, p>>] = "visible" \/ owner[p] = u

\* findPcSummaries and isPcInCampaign, for the members of the campaign.
FindPcSummaries(c, u) == {p \in Pcs : shown[<<c, p>>] # "none" /\ Sees(c, u, p)}

IsPcInCampaign(c, u, p) == shown[<<c, p>>] # "none" /\ Sees(c, u, p)

----------------------------------------------------------------------------
(* The page *)

\* PcFullAssembler: what it refers to is there by foreign key, but for bonds.
Sheet(p) == [BaseSheet EXCEPT !.armor = IF armor[p] = None THEN NoItem ELSE item[armor[p]]]

\* PcBondResolver throws when a target is not found.
BondsResolve(p) == \A t \in bonds[p] : PcExists(t)

Page(p) ==
    IF ~PcExists(p) THEN "missing"
    ELSE IF Readable(Sheet(p)) /\ BondsResolve(p) THEN "ok" ELSE "error"

\* GET /pcs/:id and GET /:campaignId/pcs/:pcId.
OpenPc(u, p) == IF CanUserAccess(u, p) THEN Page(p) ELSE "missing"

OpenCampaignPc(c, u, p) ==
    IF role[<<c, u>>] = "none" THEN "forbidden"
    ELSE IF IsPcInCampaign(c, u, p) THEN Page(p) ELSE "missing"

\* The player's home drops, without a word, the PCs whose pages fail.
MyPcs(c, u) == {p \in FindPcSummaries(c, u) : Page(p) = "ok"}

----------------------------------------------------------------------------
(* What changes the rows *)

SetRole(c, u, r) ==
    /\ c \in campaigns /\ u \in accounts
    /\ role' = [role EXCEPT ![<<c, u>>] = r]
    /\ UNCHANGED <<campaigns, accounts, issued, owner, shown, bonds, armor, item>>

\* The first two calls of POST /:campaignId/pcs.
CreatePc(u, p) ==
    /\ u \in accounts /\ p \notin issued
    /\ issued' = issued \cup {p}
    /\ owner' = [owner EXCEPT ![p] = u]
    /\ UNCHANGED <<campaigns, accounts, role, shown, bonds, armor, item>>

LinkPc(c, p, flag) ==
    /\ c \in campaigns /\ PcExists(p) /\ shown[<<c, p>>] = "none"
    /\ shown' = [shown EXCEPT ![<<c, p>>] = flag]
    /\ UNCHANGED <<campaigns, accounts, role, issued, owner, bonds, armor, item>>

\* PATCH /:campaignId/campaign-pcs/:pcId.
UpdateCampaignPc(c, u, p, flag) ==
    /\ role[<<c, u>>] = "master" /\ shown[<<c, p>>] # "none"
    /\ shown' = [shown EXCEPT ![<<c, p>>] = flag]
    /\ UNCHANGED <<campaigns, accounts, role, issued, owner, bonds, armor, item>>

UnlinkPcToNull(c, u, p) ==
    /\ role[<<c, u>>] = "master"
    /\ shown' = [shown EXCEPT ![<<c, p>>] = None]
    /\ UNCHANGED <<campaigns, accounts, role, issued, owner, bonds, armor, item>>
UnlinkPc(c, u, p) ==
    /\ role[<<c, u>>] = "master"
    /\ shown' = [shown EXCEPT ![<<c, p>>] = "none"]
    /\ UNCHANGED <<campaigns, accounts, role, issued, owner, bonds, armor, item>>

\* POST /pcs/:pcId/bonds, by the owner, to any id: neither the service nor a foreign
\* key asks whether a PC has it.
BondPc(u, p, t) ==
    /\ owner[p] = u
    /\ bonds' = [bonds EXCEPT ![p] = @ \cup {t}]
    /\ UNCHANGED <<campaigns, accounts, role, issued, owner, shown, armor, item>>

\* POST /pcs/:pcId/equipments, once per PC.
EquipPc(u, p, i) ==
    /\ owner[p] = u /\ armor[p] = None
    /\ armor' = [armor EXCEPT ![p] = i]
    /\ UNCHANGED <<campaigns, accounts, role, issued, owner, shown, bonds, item>>

\* PATCH /:campaignId/items/:itemId, by a master (module CampaignEntities).
EditItem(i, new) ==
    /\ item' = [item EXCEPT ![i] = new]
    /\ UNCHANGED <<campaigns, accounts, role, issued, owner, shown, bonds, armor>>

\* DELETE /users/:id, with ON DELETE CASCADE to members and PCs, and from the PCs
\* to what is theirs; a bond of another PC that names them stays.
DeleteUserKeepingLinks(u) ==
    /\ u \in accounts
    /\ accounts' = accounts \ {u}
    /\ role' = [x \in Campaigns \X Users |-> IF x[2] = u THEN "none" ELSE role[x]]
    /\ owner' = [p \in Pcs |-> IF owner[p] = u THEN None ELSE owner[p]]
    /\ bonds' = [p \in Pcs |-> IF owner[p] = u THEN {} ELSE bonds[p]]
    /\ armor' = [p \in Pcs |-> IF owner[p] = u THEN None ELSE armor[p]]
    /\ UNCHANGED <<campaigns, issued, shown, item>>
DeleteUser(u) ==
    /\ u \in accounts
    /\ accounts' = accounts \ {u}
    /\ role' = [x \in Campaigns \X Users |-> IF x[2] = u THEN "none" ELSE role[x]]
    /\ owner' = [p \in Pcs |-> IF owner[p] = u THEN None ELSE owner[p]]
    /\ shown' = [x \in Campaigns \X Pcs |-> IF owner[x[2]] = u THEN "none" ELSE shown[x]]
    /\ bonds' = [p \in Pcs |-> IF owner[p] = u THEN {} ELSE bonds[p]]
    /\ armor' = [p \in Pcs |-> IF owner[p] = u THEN None ELSE armor[p]]
    /\ UNCHANGED <<campaigns, issued, item>>

DeleteCampaign(c) ==
    /\ c \in campaigns
    /\ campaigns' = campaigns \ {c}
    /\ role' = [x \in Campaigns \X Users |-> IF x[1] = c THEN "none" ELSE role[x]]
    /\ shown' = [x \in Campaigns \X Pcs |-> IF x[1] = c THEN "none" ELSE shown[x]]
    /\ UNCHANGED <<accounts, issued, owner, bonds, armor, item>>

Init ==
    /\ campaigns = Campaigns
    /\ accounts = Users
    /\ role = [x \in Campaigns \X Users |-> "none"]
    /\ issued = {}
    /\ owner = [p \in Pcs |-> None]
    /\ shown = [x \in Campaigns \X Pcs |-> "none"]
    /\ bonds = [p \in Pcs |-> {}]
    /\ armor = [p \in Pcs |-> None]
    /\ item \in [Items -> ItemRows]

Next ==
    \/ \E c \in Campaigns, u \in Users :
          \E r \in {"none", "player", "master"} : SetRole(c, u, r)
    \/ \E u \in Users, p \in Pcs : CreatePc(u, p)
    \/ \E c \in Campaigns, p \in Pcs, flag \in Flags :
          LinkPc(c, p, flag) \/ \E u \in Users : UpdateCampaignPc(c, u, p, flag)
    \/ \E c \in Campaigns, u \in Users, p \in Pcs : UnlinkPc(c, u, p)
    \/ \E u \in Users, p \in Pcs, t \in Pcs : BondPc(u, p, t)
    \/ \E u \in Users, p \in Pcs, i \in Items : EquipPc(u, p, i)
    \/ \E i \in Items, new \in ItemRows : EditItem(i, new)
    \/ \E u \in Users : DeleteUser(u)
    \/ \E c \in Campaigns : DeleteCampaign(c)

Spec == Init /\ [][Next]_vars

----------------------------------------------------------------------------
(* Properties *)

\* Every variable holds a value of its type.
TypeOK ==
    /\ campaigns \subseteq Campaigns
    /\ accounts \subseteq Users
    /\ role \in [Campaigns \X Users -> {"none", "player", "master"}]
    /\ issued \subseteq Pcs
    /\ owner \in [Pcs -> Users \cup {None}]
    /\ shown \in [Campaigns \X Pcs -> Flags \cup {"none"}]
    /\ bonds \in [Pcs -> SUBSET Pcs]
    /\ armor \in [Pcs -> Items \cup {None}]
    /\ item \in [Items -> ItemRows]

\* Nothing outlives an account or a campaign, not a membership, a PC, its bonds or
\* its place in somebody else's campaign, but the bonds of others to it.
NothingOfTheDeleted ==
    /\ \A x \in Campaigns \X Users :
          role[x] # "none" => x[1] \in campaigns /\ x[2] \in accounts
    /\ \A p \in Pcs : owner[p] \in accounts \cup {None}
    /\ \A x \in Campaigns \X Pcs : shown[x] # "none" => x[1] \in campaigns /\ PcExists(x[2])
    /\ \A p \in Pcs : ~PcExists(p) => bonds[p] = {} /\ armor[p] = None

\* The five queries agree: an account lists exactly the PCs that it can open, at
\* either address; those are its own, and those of its campaigns' lists; and a PC
\* of its own is either in a campaign or in the list with scope=global, never both.
ListsAgree ==
    \A u \in accounts :
        LET memberOf == {c \in campaigns : role[<<c, u>>] # "none"}
            own == {p \in Pcs : owner[p] = u}
        IN  /\ Accessible(u) = {p \in Pcs : OpenPc(u, p) # "missing"}
            /\ Accessible(u) = own \cup UNION {FindPcSummaries(c, u) : c \in memberOf}
            /\ \A c \in memberOf :
                  /\ FindPcSummaries(c, u)
                        = {p \in Pcs : OpenCampaignPc(c, u, p) \in {"ok", "error"}}
                  /\ \A p \in FindPcSummaries(c, u) : OpenCampaignPc(c, u, p) = OpenPc(u, p)
            /\ GlobalPcs(u) \subseteq own
            /\ \A c \in campaigns, v \in Users : GlobalPcs(u) \cap FindPcSummaries(c, v) = {}
            /\ own \ GlobalPcs(u) \subseteq UNION {FindPcSummaries(c, u) : c \in campaigns}

Swapped(seq) == IF Len(seq) < 2 THEN seq ELSE <<seq[2], seq[1]>> \o SubSeq(seq, 3, Len(seq))

MainHandAdds(sheet) ==
    Stats([sheet EXCEPT !.main_hand = NoItem])
        = [Stats(sheet) EXCEPT !.defense = @ - sheet.main_hand.defense_bonus,
                               !.magic_defense = @ - sheet.main_hand.magic_defense_bonus]

LevelsCountOnce(sheet) ==
    sheet.jobs # <<>> =>
        Stats([sheet EXCEPT !.jobs[1].level = @ + 1])
            = [Stats(sheet) EXCEPT !.level = @ + 1, !.hp = @ + 1, !.mp = @ + 1]

Behaves(sheet) ==
    /\ Stats([sheet EXCEPT !.jobs = Swapped(@)]) = Stats(sheet)
    /\ \A i \in DOMAIN sheet.jobs : sheet.jobs[i].allows \subseteq Capacities(sheet.jobs).allows
    /\ LevelsCountOnce(sheet)
    /\ MainHandAdds(sheet)

SamplesBehave == \A sheet \in Samples : Readable(sheet) => Behaves(sheet)

\* The statistics of every page that opens, and of any sheet: the order in which the
\* jobs are read makes no difference; a permission that one job gives, no other takes
\* away; a level gained is a level, a hit point and a mind point more and nothing
\* else; and an item in the main hand adds its two bonuses and nothing else.
StatsBehave ==
    /\ \A sheet \in {Sheet(p) : p \in {q \in Pcs : Page(q) = "ok"}} : Behaves(sheet)
    /\ SamplesBehave

\* Stated by the description of GET /pcs/:id (public-pcs-routes.ts:39): it returns the
\* PC with its bonds, to the owner without a condition.  So nothing that is done
\* elsewhere makes the page of a PC fail that opened.
OwnerOpensOwnPc ==
    [][\A p \in Pcs :
          /\ owner[p] # None /\ owner'[p] = owner[p]
          /\ bonds'[p] = bonds[p] /\ armor'[p] = armor[p] /\ item' = item
          /\ OpenPc(owner[p], p) = "ok"
          => OpenPc(owner[p], p)' = "ok"]_vars
==============================================================================
