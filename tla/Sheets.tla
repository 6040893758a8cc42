------------------------------- MODULE Sheets -------------------------------
(***************************************************************************)
(* The lists that hang on an NPC (rules, inventory, equipment), a monster  *)
(* (traits, affinities, actions) or a faction (locations), and the monster *)
(* spells that PCs learn, which are rows of monster_actions.               *)
(*                                                                         *)
(* A creation inserts part after part; the update of an NPC or a monster   *)
(* is one D1 batch; that of a faction is again call after call.  Between   *)
(* two calls other requests act.  A list is the set of its parts, whatever *)
(* their table; a body is the sequence in which they are inserted.         *)
(***************************************************************************)
EXTENDS Integers, FiniteSets, Sequences, Functions

CONSTANTS
    Owners,           \* ids of npcs, monsters or factions
    KindAssignments,  \* which table they are of: functions to SheetKinds
    Parts,            \* what a list can hold; the affinities of a monster are one
                      \* part, and so is the equipment of an NPC
    TableOf,          \* [Parts -> Tables]: the table that holds the part
    Spells,           \* the parts with action_type 'spell', when on a monster
    Bodies,           \* the lists that clients send; one may repeat a part
    Pcs,              \* the player characters that exist at the start
    Requests,         \* slots for requests in flight at the same time
    MaxId,            \* bound: ids of monster_actions
    Operations,       \* the operations that clients issue in this instance
    None

VARIABLES
    kindOf,    \* the table of each owner; never changes
    owners,    \* the rows of npcs, monsters and factions
    row,       \* [Owners -> [Parts -> id]]: the row that holds the part, 0 for none;
               \* only monster_actions has ids of its own: elsewhere the id is 1
    lastId,    \* sqlite_sequence: AUTOINCREMENT never gives an id twice
    pcs,       \* the rows of pcs
    learned,   \* pc_monster_spells: pairs <<pc, action id>>
    request,   \* what each request in flight is about to do, and has read
    answered,  \* history: the list that the last success sent
    settled    \* history: the owners whose list is as the last success left it: no
               \* creation, and no PATCH of a faction, has overlapped another
               \* request or stopped midway since

tables  == <<owners, row, lastId, pcs, learned>>
history == <<answered, settled>>
vars    == <<kindOf, tables, request, history>>

SheetKinds == {"npc", "monster", "faction"}

\* rules, inventories, equipments; traits, affinities, actions; locations.
Tables == 1..3

ASSUME SheetsAssumption ==
    /\ KindAssignments \subseteq [Owners -> SheetKinds]
    /\ TableOf \in [Parts -> Tables]
    /\ Spells \subseteq Parts
    /\ Bodies \subseteq Seq(Parts)
    /\ MaxId \in Nat \ {0}
    /\ None \notin Owners \cup Pcs

List(o) == {p \in Parts : row[o][p] # 0}

\* monster_actions, by id.
Actions(P) == {row[o][p] : o \in {x \in Owners : kindOf[x] = "monster"}, p \in P} \ {0}

----------------------------------------------------------------------------
(* Requests *)

NextCall == {"idle", "post:part", "patch:batch", "faction:delete", "faction:part",
             "learn:check", "learn:insert"}

\* "list" is the whole body, "rest" what is still to be inserted; "alone" says that
\* no other request has written the same list since.
RequestRecord ==
    [next : NextCall, owner : Owners \cup {None}, list : SUBSET Parts, rest : Seq(Parts),
     alone : BOOLEAN, pc : Pcs \cup {None}, id : 0..MaxId]

Idle == [next |-> "idle", owner |-> None, list |-> {}, rest |-> <<>>,
         alone |-> TRUE, pc |-> None, id |-> 0]

At(r, n) == request[r].next = n

Writing == {"post:part", "patch:batch", "faction:delete", "faction:part"}
Writers(o) == {r \in Requests : request[r].next \in Writing /\ request[r].owner = o}

\* The other writers of the same list are no longer alone.
Disturb(o) == [r \in Requests |-> IF r \in Writers(o)
                                    THEN [request[r] EXCEPT !.alone = FALSE]
                                    ELSE request[r]]

StartWriting(r, o, n, body) ==
    /\ request[r] = Idle
    /\ request' = [Disturb(o) EXCEPT
                     ![r] = [next |-> n, owner |-> o, list |-> Range(body), rest |-> body,
                             alone |-> Writers(o) = {}, pc |-> None, id |-> 0]]

Continue(r, n) == request' = [request EXCEPT ![r].next = n] /\ UNCHANGED history
Finish(r)      == request' = [request EXCEPT ![r] = Idle] /\ UNCHANGED history

Answer(r) ==
    LET q == request[r] IN
    /\ request' = [request EXCEPT ![r] = Idle]
    /\ answered' = [answered EXCEPT ![q.owner] = q.list]
    /\ settled' = IF q.alone THEN settled \cup {q.owner} ELSE settled

----------------------------------------------------------------------------
(* One part at a time *)

NewId(o) == IF kindOf[o] = "monster" THEN lastId + 1 ELSE 1

\* UNIQUE (owner, part).
InsertPart(o, p) ==
    /\ row[o][p] = 0
    /\ NewId(o) <= MaxId
    /\ row' = [row EXCEPT ![o][p] = NewId(o)]
    /\ lastId' = IF kindOf[o] = "monster" THEN lastId + 1 ELSE lastId

InsertInto(k, t, o, p) == kindOf[o] = k /\ TableOf[p] = t /\ InsertPart(o, p)

CreateRule(o, p)      == InsertInto("npc", 1, o, p)
CreateInventory(o, p) == InsertInto("npc", 2, o, p)
CreateEquipment(o, p) == InsertInto("npc", 3, o, p)
CreateNpcPart(o, p)   == CreateRule(o, p) \/ CreateInventory(o, p) \/ CreateEquipment(o, p)

CreateTrait(o, p)       == InsertInto("monster", 1, o, p)
CreateAffinity(o, p)    == InsertInto("monster", 2, o, p)
CreateAction(o, p)      == InsertInto("monster", 3, o, p)
CreateMonsterPart(o, p) == CreateTrait(o, p) \/ CreateAffinity(o, p) \/ CreateAction(o, p)

CreateRelation(o, p) == kindOf[o] = "faction" /\ InsertPart(o, p)

\* The loops of the handlers: what is there already ends the request midway.
NextPart(r, n) ==
    LET q == request[r] IN
    /\ At(r, n)
    /\ q.rest # <<>>
    /\ IF row[q.owner][Head(q.rest)] # 0
         THEN Finish(r) /\ UNCHANGED <<row, lastId>>
         ELSE /\ \/ CreateNpcPart(q.owner, Head(q.rest))
                 \/ CreateMonsterPart(q.owner, Head(q.rest))
                 \/ CreateRelation(q.owner, Head(q.rest))
              /\ request' = [request EXCEPT ![r].rest = Tail(@)]
              /\ UNCHANGED history
    /\ UNCHANGED <<kindOf, owners, pcs, learned>>

AllInserted(r, n) ==
    /\ At(r, n)
    /\ request[r].rest = <<>>
    /\ Answer(r)
    /\ UNCHANGED <<kindOf, tables>>

\* POST /:campaignId/npcs and /monsters: the row (module CampaignEntities has its
\* link), then its parts.
PostOwner(r, o, k, body) ==
    /\ "post" \in Operations
    /\ kindOf[o] = k /\ o \notin owners
    /\ owners' = owners \cup {o}
    /\ StartWriting(r, o, "post:part", body)
    /\ UNCHANGED <<kindOf, row, lastId, pcs, learned, history>>

PostNpc(r, o, body)     == PostOwner(r, o, "npc", body)
PostMonster(r, o, body) == PostOwner(r, o, "monster", body)
PostPart(r)             == NextPart(r, "post:part")
PostDone(r)             == AllInserted(r, "post:part")

\* The administrator's POST /npcs/special, /monsters/actions, ...
AdminPart(o, p) ==
    /\ "admin" \in Operations
    /\ o \in owners
    /\ CreateNpcPart(o, p) \/ CreateMonsterPart(o, p)
    /\ request' = Disturb(o)
    /\ answered' = [answered EXCEPT ![o] = @ \cup {p}]
    /\ UNCHANGED <<kindOf, owners, pcs, learned, settled>>

----------------------------------------------------------------------------
(* A whole list *)

\* UPDATE, then DELETE and INSERT of each list, in one batch: all or nothing.
UpdateNpcWithoutOthers(o, body) ==
    /\ kindOf[o] = "npc"
    /\ row' = [row EXCEPT ![o] = [p \in Range(body) |-> 1]]
    /\ UNCHANGED <<lastId, learned>>
UpdateNpcWithRelations(o, body) ==
    /\ kindOf[o] = "npc"
    /\ row' = [row EXCEPT ![o] = [p \in Parts |-> IF p \in Range(body) THEN 1 ELSE 0]]
    /\ UNCHANGED <<lastId, learned>>

Numbered(body) ==
    [p \in Parts |-> IF p \in Range(body)
                       THEN lastId + (CHOOSE i \in DOMAIN body : body[i] = p) ELSE 0]

\* An action that stays on the list is deleted and inserted anew as well, and
\* ON DELETE CASCADE takes the old one from the PCs that have learned it.
UpdateMonsterWithoutCascade(o, body) ==
    /\ kindOf[o] = "monster"
    /\ lastId + Len(body) <= MaxId
    /\ row' = [row EXCEPT ![o] = Numbered(body)]
    /\ lastId' = lastId + Len(body)
    /\ UNCHANGED learned
UpdateMonsterWithRelations(o, body) ==
    /\ kindOf[o] = "monster"
    /\ lastId + Len(body) <= MaxId
    /\ row' = [row EXCEPT ![o] = Numbered(body)]
    /\ lastId' = lastId + Len(body)
    /\ learned' = {x \in learned : x[2] \notin {row[o][p] : p \in Parts}}

\* PATCH /:campaignId/npcs/:npcId and /monsters/:monsterId, once the link is found.
\* (For an id without a row the batch has no effect, or the foreign keys refuse it.)
StartPatch(r, o, body) ==
    /\ "patch" \in Operations
    /\ o \in owners /\ kindOf[o] # "faction"
    /\ StartWriting(r, o, "patch:batch", body)
    /\ UNCHANGED <<kindOf, tables, history>>

\* A list that names a part twice is refused, and with it the batch.
PatchWithoutBatch(r) ==
    LET o == request[r].owner  body == request[r].rest IN
    /\ At(r, "patch:batch")
    /\ IF IsInjective(body)
         THEN /\ UpdateNpcWithRelations(o, body) \/ UpdateMonsterWithRelations(o, body)
              /\ Answer(r)
         ELSE /\ UpdateNpcWithRelations(o, <<>>) \/ UpdateMonsterWithRelations(o, <<>>)
              /\ Finish(r)
    /\ UNCHANGED <<kindOf, owners, pcs>>
PatchBatch(r) ==
    LET o == request[r].owner  body == request[r].rest IN
    /\ At(r, "patch:batch")
    /\ IF IsInjective(body)
         THEN /\ UpdateNpcWithRelations(o, body) \/ UpdateMonsterWithRelations(o, body)
              /\ Answer(r)
         ELSE Finish(r) /\ UNCHANGED <<row, lastId, learned>>
    /\ UNCHANGED <<kindOf, owners, pcs>>

\* POST /:campaignId/factions: one batch.
PostFaction(o, body) ==
    /\ "post" \in Operations
    /\ kindOf[o] = "faction" /\ o \notin owners /\ IsInjective(body)
    /\ owners' = owners \cup {o}
    /\ row' = [row EXCEPT ![o] = [p \in Parts |-> IF p \in Range(body) THEN 1 ELSE 0]]
    /\ answered' = [answered EXCEPT ![o] = Range(body)]
    /\ settled' = settled \cup {o}
    /\ UNCHANGED <<kindOf, lastId, pcs, learned, request>>

\* PATCH /:campaignId/factions/:factionId: UPDATE, DELETE, then INSERT by INSERT.
PatchFaction(r, o, body) ==
    /\ "patch" \in Operations
    /\ o \in owners /\ kindOf[o] = "faction"
    /\ StartWriting(r, o, "faction:delete", body)
    /\ settled' = settled \ {o}
    /\ UNCHANGED <<kindOf, tables, answered>>

KeepRelations(r) ==
    /\ At(r, "faction:delete")
    /\ Continue(r, "faction:part")
    /\ UNCHANGED <<kindOf, tables>>
DeleteByFactionId(r) ==
    /\ At(r, "faction:delete")
    /\ row' = [row EXCEPT ![request[r].owner] = [p \in Parts |-> 0]]
    /\ Continue(r, "faction:part")
    /\ UNCHANGED <<kindOf, owners, lastId, pcs, learned>>

PatchFactionPart(r) == NextPart(r, "faction:part")
PatchFactionDone(r) == AllInserted(r, "faction:part")

----------------------------------------------------------------------------
(* POST /pcs/:pcId/monster-spells *)

StartLearn(r, c, id) ==
    /\ "learn" \in Operations
    /\ c \in pcs
    /\ request[r] = Idle
    /\ request' = [request EXCEPT
                     ![r] = [next |-> "learn:check", owner |-> None, list |-> {}, rest |-> <<>>,
                             alone |-> TRUE, pc |-> c, id |-> id]]
    /\ UNCHANGED <<kindOf, tables, history>>

IsMonsterSpell(id) == id \in Actions(Spells)

LearnCheck(r) ==
    /\ At(r, "learn:check")
    /\ IF IsMonsterSpell(request[r].id) THEN Continue(r, "learn:insert") ELSE Finish(r)
    /\ UNCHANGED <<kindOf, tables>>

\* The foreign keys refuse a PC or an action that has gone since.
LearnInsert(r) ==
    LET c == request[r].pc  id == request[r].id IN
    /\ At(r, "learn:insert")
    /\ learned' = IF c \in pcs /\ id \in Actions(Parts)
                    THEN learned \cup {<<c, id>>} ELSE learned
    /\ Finish(r)
    /\ UNCHANGED <<kindOf, owners, row, lastId, pcs>>

DeletePc(c) ==
    /\ "delete" \in Operations
    /\ pcs' = pcs \ {c}
    /\ learned' = {x \in learned : x[1] # c}
    /\ UNCHANGED <<kindOf, owners, row, lastId, request, history>>

\* An uncaught error or the eviction of the Worker: nothing is undone.
Abandon(r) ==
    /\ "fail" \in Operations
    /\ ~At(r, "idle")
    /\ Finish(r)
    /\ UNCHANGED <<kindOf, tables>>

----------------------------------------------------------------------------
Init ==
    /\ kindOf \in KindAssignments
    /\ owners = {}
    /\ row = [o \in Owners |-> [p \in Parts |-> 0]]
    /\ lastId = 0
    /\ pcs = Pcs
    /\ learned = {}
    /\ request = [r \in Requests |-> Idle]
    /\ answered = [o \in Owners |-> {}]
    /\ settled = {}

Writes(r, o) ==
    \E body \in Bodies :
        \/ PostNpc(r, o, body)
        \/ PostMonster(r, o, body)
        \/ StartPatch(r, o, body)
        \/ PatchFaction(r, o, body)

Steps(r) ==
    \/ PostPart(r)
    \/ PostDone(r)
    \/ PatchBatch(r)
    \/ DeleteByFactionId(r)
    \/ PatchFactionPart(r)
    \/ PatchFactionDone(r)
    \/ LearnCheck(r)
    \/ LearnInsert(r)
    \/ Abandon(r)

Next ==
    \/ \E r \in Requests, o \in Owners : Writes(r, o)
    \/ \E r \in Requests : Steps(r)
    \/ \E r \in Requests, c \in Pcs, id \in 1..MaxId : StartLearn(r, c, id)
    \/ \E o \in Owners, body \in Bodies : PostFaction(o, body)
    \/ \E o \in Owners, p \in Parts : AdminPart(o, p)
    \/ \E c \in Pcs : DeletePc(c)

Spec == Init /\ [][Next]_vars

----------------------------------------------------------------------------
(* Properties *)

\* Every variable holds a value of its type.
TypeOK ==
    /\ kindOf \in [Owners -> SheetKinds]
    /\ owners \subseteq Owners
    /\ row \in [Owners -> [Parts -> 0..MaxId]]
    /\ lastId \in 0..MaxId
    /\ pcs \subseteq Pcs
    /\ learned \subseteq Pcs \X (1..MaxId)
    /\ request \in [Requests -> RequestRecord]
    /\ answered \in [Owners -> SUBSET Parts]
    /\ settled \subseteq Owners

\* What a PC has learned is a spell that is on the list of some monster, also when
\* the monster was updated or the PC deleted between the check and the INSERT.
LearnedSpellsExist ==
    \A x \in learned : x[1] \in pcs /\ x[2] \in Actions(Spells)

\* The list is what the last success sent, with what the administrator has added,
\* while no creation or PATCH of a faction was cut short or overlapped: a success
\* leaves nothing out and keeps nothing of the old list, and a PATCH of an NPC or a
\* monster that fails, or overlaps another, does no harm.
AnsweredIsStored ==
    \A o \in settled : List(o) = answered[o]

\* A list that NPCs and monsters have is only ever replaced as a whole, and by one
\* that is asked for: no failure between two calls takes a part away.
Contract ==
    INSTANCE RelationContract
        WITH list <- [o \in Owners |-> IF kindOf[o] = "faction" THEN {} ELSE List(o)],
             pending <- {<<request[r].owner, request[r].list>> :
                            r \in {s \in Requests : At(s, "patch:batch")}}
KeepsRelations == Contract!RelationSpec

\* Stated by the comment in d1-monster-repository.ts:223-226 (the update is one batch so
\* that no relations are lost): who has learned a spell keeps it, whatever is done to
\* the monster, while it is on the monster's list.
LearnedIsKept ==
    [][\A x \in learned, o \in Owners, p \in Spells :
          /\ kindOf[o] = "monster"
          /\ row[o][p] = x[2] /\ row'[o][p] # 0 /\ x[1] \in pcs'
          => <<x[1], row'[o][p]>> \in learned']_vars
=============================================================================
