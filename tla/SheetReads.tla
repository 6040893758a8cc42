----------------------------- MODULE SheetReads -----------------------------
(***************************************************************************)
(* The pages that show the lists of module Sheets, while others write.     *)
(*                                                                         *)
(* The page of an NPC, a monster or a faction reads the row, then the      *)
(* tables that the client includes, one after the other: it is no snapshot.*)
(* The page of a PC reads the row, then what the PC has, ids only, then    *)
(* looks the ids up, and fails when it does not find one: of the catalogues*)
(* it looks in, only monster_actions ever loses a row.                     *)
(***************************************************************************)
EXTENDS Sheets

CONSTANTS
    Readers,   \* slots for pages that are being put together
    Includes   \* the include parameters that clients send: sets of tables

VARIABLE reader  \* what each page has read so far; "sure" and "raced" are history

readVars == <<vars, reader>>

ASSUME ReadsAssumption == Includes \subseteq SUBSET Tables

\* seen: the parts on the page; sure: those that it promises to show; left: the
\* tables to read; ids: the actions to look up; raced: one of them has been deleted.
ReaderRecord ==
    [next : {"idle", "owner:tables", "pc:relations", "pc:lookup", "pc:failed", "pc:done"},
     owner : Owners \cup {None}, left : SUBSET Tables, seen : SUBSET Parts,
     sure : SUBSET Parts, pc : Pcs \cup {None}, ids : SUBSET (1..MaxId), raced : BOOLEAN]

NoPage == [next |-> "idle", owner |-> None, left |-> {}, seen |-> {}, sure |-> {},
           pc |-> None, ids |-> {}, raced |-> FALSE]

Open(g, q) == reader[g] = NoPage /\ reader' = [reader EXCEPT ![g] = q]

\* What a client may count on: the last success listed it, and every request that
\* writes the list now lists it, too.
Sure(o) ==
    IF o \in settled THEN {p \in answered[o] : \A w \in Writers(o) : p \in request[w].list}
                     ELSE {}

----------------------------------------------------------------------------
(* GET /npcs/:id?include=..., /monsters/:id?include=... and                 *)
(* /factions/:factionId, which always comes with its locations              *)

\* The row first, 404 when there is none.
FindOwner(g, k, o, include) ==
    /\ o \in owners /\ kindOf[o] = k
    /\ Open(g, [NoPage EXCEPT !.next = "owner:tables", !.owner = o, !.left = include,
                              !.sure = {p \in Sure(o) : TableOf[p] \in include}])
    /\ UNCHANGED vars

FindNpc(g, o, include)     == FindOwner(g, "npc", o, include)
FindMonster(g, o, include) == FindOwner(g, "monster", o, include)
FindFaction(g, o)          == FindOwner(g, "faction", o, Tables)

\* Then some tables at once.
ReadTables(g, k, these) ==
    LET q == reader[g] IN
    /\ q.next = "owner:tables" /\ kindOf[q.owner] = k
    /\ reader' = [reader EXCEPT
                    ![g].left = @ \ these,
                    ![g].seen = @ \cup {p \in List(q.owner) : TableOf[p] \in these}]
    /\ UNCHANGED vars

\* The next of those that are included.
ReadTable(g, k, t) ==
    /\ t \in reader[g].left
    /\ \A u \in reader[g].left : t <= u
    /\ ReadTables(g, k, {t})

\* The items of an inventory or an equipment are looked up: no item is ever deleted.
FindRules(g)      == ReadTable(g, "npc", 1)
FindInventory(g)  == ReadTable(g, "npc", 2)
FindEquipment(g)  == ReadTable(g, "npc", 3)
FindTraits(g)     == ReadTable(g, "monster", 1)
FindAffinities(g) == ReadTable(g, "monster", 2)
FindActions(g)    == ReadTable(g, "monster", 3)

FindRelations(g) == reader[g].left # {} /\ ReadTables(g, "faction", Tables)

----------------------------------------------------------------------------
\* GET /pcs/:pcId: the row, once the user may see it (module PcPages).
FindPc(g, c) ==
    /\ c \in pcs
    /\ Open(g, [NoPage EXCEPT !.next = "pc:relations", !.pc = c])
    /\ UNCHANGED vars

LearnedBy(c) == {x[2] : x \in {y \in learned : y[1] = c}}

\* Of these ids, those that are found; any action will do.
MonsterSpellsById(ids) == ids \cap Actions(Parts)

\* The first Promise.all of the assembler.
FindLearned(g) ==
    LET q == reader[g] IN
    /\ q.next = "pc:relations"
    /\ reader' = [reader EXCEPT
                    ![g].next = "pc:lookup",
                    ![g].ids = LearnedBy(q.pc)]
    /\ UNCHANGED vars

\* The second, and the errors 500 of what is not found.
FindSpells(g) ==
    LET q == reader[g] IN
    /\ q.next = "pc:lookup"
    /\ reader' = [reader EXCEPT
                    ![g].next = IF MonsterSpellsById(q.ids) = q.ids THEN "pc:done" ELSE "pc:failed"]
    /\ UNCHANGED vars

\* The answer of a page, or the eviction of the Worker.
Close(g) ==
    /\ reader[g].next # "idle"
    /\ reader' = [reader EXCEPT ![g] = NoPage]
    /\ UNCHANGED vars

\* A step of Sheets: what the pages in the making may count on from now on.
Promises == [o \in Owners |-> Sure(o)]

Observed(q, promises, actions) ==
    [q EXCEPT !.sure = IF q.owner = None THEN {} ELSE @ \cap promises[q.owner],
              !.raced = @ \/ (q.next = "pc:lookup" /\ ~(q.ids \subseteq actions))]

ReadInit == Init /\ reader = [g \in Readers |-> NoPage]

ReadNext ==
    \/ Next /\ reader' = [g \in Readers |-> Observed(reader[g], Promises', Actions(Parts)')]
    \/ \E g \in Readers :
          \/ \E o \in Owners, include \in Includes :
                FindNpc(g, o, include) \/ FindMonster(g, o, include)
          \/ \E o \in Owners : FindFaction(g, o)
          \/ FindRules(g) \/ FindInventory(g) \/ FindEquipment(g)
          \/ FindTraits(g) \/ FindAffinities(g) \/ FindActions(g)
          \/ FindRelations(g)
          \/ \E c \in Pcs : FindPc(g, c)
          \/ FindLearned(g)
          \/ FindSpells(g)
          \/ Close(g)

ReadSpec == ReadInit /\ [][ReadNext]_readVars

----------------------------------------------------------------------------
(* Properties *)

\* A page that is complete shows everything that was promised all the time it was
\* read, although it reads table after table while lists are replaced: a PATCH in
\* between, also one that fails, hides no part that the old and the new list share.
PagesMissNothing ==
    \A g \in Readers :
        reader[g].next = "owner:tables" /\ reader[g].left = {} =>
            reader[g].sure \subseteq reader[g].seen

\* The page of a PC fails only when a monster's update takes a spell of it away
\* between the two reads: the next try succeeds, no PC becomes unreadable by it.
PagesFailOnlyInRaces ==
    \A g \in Readers : reader[g].next = "pc:failed" => reader[g].raced
=============================================================================
