---------------------------- MODULE EntityStore ----------------------------
(***************************************************************************)
(* The catalogue tables (npcs, monsters, items, ...) and campaign_entities,*)
(* which links their rows to campaigns: each statement of the repositories *)
(* that the handlers of CampaignEntities use, and each list that is read   *)
(* from them.  A D1 statement, and a batch, is atomic.                     *)
(*                                                                         *)
(* Every catalogue has ids of its own; here an id says which one it is of. *)
(* The columns of a row are abstracted to whether they were written with   *)
(* visible_to_players: "visible", or "hidden" (meant for the master only). *)
(***************************************************************************)
EXTENDS Integers, FiniteSets

CONSTANTS
    Campaigns,        \* the campaigns that exist at the start
    Entities,         \* ids of catalogue rows; AUTOINCREMENT: an id is used once
    KindAssignments,  \* which catalogue the ids are of: functions to Kinds
    None              \* no campaign

VARIABLES
    campaigns,   \* the rows of campaigns
    kindOf,      \* the catalogue of each id; never changes
    content,     \* the catalogues: id |-> "visible" or "hidden"
    home,        \* sessions.campaign_id; None for the other catalogues
    link         \* campaign_entities: <<campaign, id>> |-> visible_to_players, or "none"

store == <<campaigns, kindOf, content, home, link>>

\* The entity_type of campaign_entities.
Kinds == {"session", "npc", "monster", "location", "faction", "item",
          "job", "spell", "power", "arcana"}

Flags == {"visible", "hidden"}

ASSUME StoreAssumption ==
    /\ KindAssignments \subseteq [Entities -> Kinds]
    /\ IsFiniteSet(Entities)
    /\ None \notin Campaigns

RowExists(e) == e \in DOMAIN content

Linked(c, e) == link[<<c, e>>] # "none"

----------------------------------------------------------------------------
(* INSERTs and UPDATEs of the catalogues.  A UNIQUE constraint may refuse   *)
(* any of them; the actions that use them say what happens then.           *)

AddRow(e, k, c, flag) ==
    /\ kindOf[e] = k
    /\ content' = [x \in DOMAIN content \cup {e} |-> IF x = e THEN flag ELSE content[x]]
    /\ home' = [home EXCEPT ![e] = c]

InsertNpc(e, flag)      == AddRow(e, "npc", None, flag)
InsertMonster(e, flag)  == AddRow(e, "monster", None, flag)
InsertItem(e, flag)     == AddRow(e, "item", None, flag)
InsertLocation(e, flag) == AddRow(e, "location", None, flag)
InsertFaction(e, flag)  == AddRow(e, "faction", None, flag)
InsertJob(e, flag)      == AddRow(e, "job", None, flag)
InsertPower(e, flag)    == AddRow(e, "power", None, flag)
InsertSpell(e, flag)    == AddRow(e, "spell", None, flag)
InsertArcana(e, flag)   == AddRow(e, "arcana", None, flag)

\* sessions.campaign_id has a foreign key.
InsertSessionAnywhere(e, c, flag) == AddRow(e, "session", c, flag)
InsertSession(e, c, flag) == c \in campaigns /\ AddRow(e, "session", c, flag)

\* UPDATE ... WHERE id = ?: no row, no effect and no error.
SetRow(e, k, flag) ==
    /\ kindOf[e] = k
    /\ content' = [x \in DOMAIN content |-> IF x = e THEN flag ELSE content[x]]

UpdateNpcRow(e, flag)      == SetRow(e, "npc", flag)
UpdateMonsterRow(e, flag)  == SetRow(e, "monster", flag)
UpdateItemRow(e, flag)     == SetRow(e, "item", flag)
UpdateLocationRow(e, flag) == SetRow(e, "location", flag)
UpdateFactionRow(e, flag)  == SetRow(e, "faction", flag)
UpdateSessionRow(e, flag)  == SetRow(e, "session", flag)

----------------------------------------------------------------------------
(* campaign_entities *)

\* The foreign key to campaigns and UNIQUE (campaign_id, entity_type, entity_id);
\* entity_id has no foreign key: the row need not exist.
Linkable(c, e) == c \in campaigns /\ ~Linked(c, e)

InsertLinkWithoutFlag(c, e, flag) == link' = [link EXCEPT ![<<c, e>>] = None]
InsertLink(c, e, flag) == link' = [link EXCEPT ![<<c, e>>] = flag]

DeleteLink(c, e) == link' = [link EXCEPT ![<<c, e>>] = "none"]

UpdateVisibility(c, e, flag) ==
    link' = IF Linked(c, e) THEN [link EXCEPT ![<<c, e>>] = flag] ELSE link

\* DELETE FROM campaigns: its links and its sessions cascade; the rows of the other
\* catalogues stay, and so do the links of other campaigns to the sessions.
DropCampaignKeepLinks(c) ==
    /\ campaigns' = campaigns \ {c}
    /\ content' = [e \in {x \in DOMAIN content : home[x] # c} |-> content[e]]
    /\ home' = [e \in Entities |-> IF home[e] = c THEN None ELSE home[e]]
    /\ UNCHANGED link
DropCampaign(c) ==
    /\ campaigns' = campaigns \ {c}
    /\ link' = [x \in Campaigns \X Entities |-> IF x[1] = c THEN "none" ELSE link[x]]
    /\ content' = [e \in {x \in DOMAIN content : home[x] # c} |-> content[e]]
    /\ home' = [e \in Entities |-> IF home[e] = c THEN None ELSE home[e]]

----------------------------------------------------------------------------
(* GET /public/...?scope=global: the rows that no campaign links *)

Unlinked(k) ==
    {e \in DOMAIN content : kindOf[e] = k /\ \A c \in Campaigns : ~Linked(c, e)}

GlobalNpcs     == Unlinked("npc")
GlobalMonstersUnfiltered == {e \in DOMAIN content : kindOf[e] = "monster"}
GlobalMonsters == Unlinked("monster")
GlobalItems    == Unlinked("item")
GlobalJobs     == Unlinked("job")
GlobalPowers   == Unlinked("power")
GlobalSpells   == Unlinked("spell")
GlobalArcanas  == Unlinked("arcana")

\* The lists of sessions, locations and factions have no such scope.
GlobalLists ==
    UNION {GlobalNpcs, GlobalMonsters, GlobalItems, GlobalJobs, GlobalPowers,
           GlobalSpells, GlobalArcanas}

----------------------------------------------------------------------------
(* GET /v1/campaigns/:campaignId/...: the rows that this campaign links, for *)
(* a player only those that are visible to players                          *)

Listed(k, c, role) ==
    {e \in DOMAIN content :
        /\ kindOf[e] = k /\ Linked(c, e)
        /\ role = "player" => link[<<c, e>>] = "visible"}

ListSessions(c, role)  == Listed("session", c, role)
ListNpcs(c, role)      == Listed("npc", c, role)
ListLocations(c, role) == Listed("location", c, role)
ListFactions(c, role)  == Listed("faction", c, role)
ListMonsters(c, role)  == Listed("monster", c, role)
ListItems(c, role)     == Listed("item", c, role)
ListSpells(c, role)    == Listed("spell", c, role)
ListJobs(c, role)      == Listed("job", c, role)
ListPowers(c, role)    == Listed("power", c, role)
ListArcanas(c, role)   == Listed("arcana", c, role)

CampaignLists(c, role) ==
    UNION {ListSessions(c, role), ListNpcs(c, role), ListLocations(c, role),
           ListFactions(c, role), ListMonsters(c, role), ListItems(c, role),
           ListSpells(c, role), ListJobs(c, role), ListPowers(c, role),
           ListArcanas(c, role)}

\* The numbers of the home page count the links, whether the row exists or not.
HomeKinds == {"session", "npc", "location", "faction", "monster"}

HomeStats(c) ==
    [k \in HomeKinds |-> Cardinality({e \in Entities : kindOf[e] = k /\ Linked(c, e)})]
============================================================================
