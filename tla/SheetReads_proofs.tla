------------------------- MODULE SheetReads_proofs -------------------------
(***************************************************************************)
(* Proofs about SheetReads: the pages rest on what Sheets_proofs shows of  *)
(* the tables, and on what each page has read so far.                      *)
(***************************************************************************)
EXTENDS SheetReads, Sheets_proofs

\* A part that an owner's page promises is still promised, and on the page or in a
\* table that is yet to be read.
OwnerPage(q) ==
    q.next = "owner:tables" =>
        /\ q.owner \in Owners
        /\ q.sure \subseteq Sure(q.owner)
        /\ \A p \in q.sure : TableOf[p] \in q.left \/ p \in q.seen

\* The actions that a PC's page looks up exist, or one has been deleted meanwhile.
PcPage(q) ==
    /\ q.next = "pc:lookup" => q.ids \subseteq Actions(Parts) \/ q.raced
    /\ q.next = "pc:failed" => q.raced

Pages == \A g \in Readers : OwnerPage(reader[g]) /\ PcPage(reader[g])

ReaderType ==
    /\ DOMAIN reader = Readers
    /\ \A g \in Readers :
          DOMAIN reader[g] = {"next", "owner", "left", "seen", "sure", "pc", "ids", "raced"}

RInv == ReaderType /\ Pages

----------------------------------------------------------------------------
\* Reading changes nothing: seen without its readers, the system is Sheets.
THEOREM ReadsImplementSheets == ReadSpec => Spec
<1>1. ReadInit => Init
  BY DEF ReadInit
<1>2. [ReadNext]_readVars => [Next]_vars
  BY DEF ReadNext, readVars, FindNpc, FindMonster, FindFaction, FindOwner, ReadTable, ReadTables,
         FindRules, FindInventory, FindEquipment, FindTraits, FindAffinities, FindActions,
         FindRelations, FindPc, FindLearned, FindSpells, Close
<1>. QED  BY <1>1, <1>2, PTL DEF ReadSpec, Spec

\* Nothing is open at the start.
LEMMA ReadInitInv == ReadInit => RInv
BY DEF ReadInit, RInv, ReaderType, Pages, OwnerPage, PcPage, NoPage

\* What is promised is there.
LEMMA SureIsListed ==
    ASSUME AnsweredIsStored, NEW o \in Owners
    PROVE  Sure(o) \subseteq List(o)
BY DEF AnsweredIsStored, Sure

\* What is learned can be looked up.
LEMMA LearnedIsFound ==
    ASSUME LearnedSpellsExist, NEW x \in learned
    PROVE  x[2] \in Actions(Parts)
BY SheetsAssumption DEF LearnedSpellsExist, Actions

\* When only the page of g changes, and the tables stay, only g is to be looked at.
LEMMA OnePage ==
    ASSUME RInv, NEW g \in Readers, UNCHANGED vars, NEW q,
           reader' = [reader EXCEPT ![g] = q],
           DOMAIN q = {"next", "owner", "left", "seen", "sure", "pc", "ids", "raced"},
           OwnerPage(q), PcPage(q)
    PROVE  RInv'
<1>1. ReaderType'
  BY DEF RInv, ReaderType
<1>2. ASSUME NEW h \in Readers PROVE (OwnerPage(reader[h]) /\ PcPage(reader[h]))'
  <2>1. CASE h = g
    <3>1. reader'[h] = q
      BY <2>1 DEF RInv, ReaderType
    <3>. QED  BY <3>1 DEF OwnerPage, PcPage, Sure, Writers, Actions, vars, tables, history
  <2>2. CASE h # g
    <3>1. reader'[h] = reader[h]
      BY <2>2 DEF RInv, ReaderType
    <3>2. OwnerPage(reader[h]) /\ PcPage(reader[h])
      BY DEF RInv, Pages
    <3>. QED  BY <3>1, <3>2 DEF OwnerPage, PcPage, Sure, Writers, Actions, vars, tables, history
  <2>. QED  BY <2>1, <2>2
<1>. QED  BY <1>1, <1>2 DEF RInv, Pages

----------------------------------------------------------------------------
\* A step of Sheets narrows the promises to those that still hold, and marks the
\* pages that have lost an action.
LEMMA SheetsStep ==
    ASSUME RInv, reader' = [g \in Readers |-> Observed(reader[g], Promises', Actions(Parts)')],
           None \notin Owners
    PROVE  RInv'
<1> DEFINE r(g) == Observed(reader[g], Promises', Actions(Parts)')
<1>1. ASSUME NEW g \in Readers
      PROVE  /\ DOMAIN reader'[g] = DOMAIN reader[g]
             /\ reader'[g].next = reader[g].next /\ reader'[g].owner = reader[g].owner
             /\ reader'[g].left = reader[g].left /\ reader'[g].seen = reader[g].seen
             /\ reader'[g].ids = reader[g].ids
             /\ reader[g].owner # None =>
                   reader'[g].sure = reader[g].sure \cap Promises'[reader[g].owner]
             /\ reader[g].next = "pc:lookup" =>
                   reader'[g].ids \subseteq Actions(Parts)' \/ reader'[g].raced
             /\ reader[g].raced => reader'[g].raced
  BY DEF Observed, RInv, ReaderType
<1>2. ReaderType'
  BY <1>1 DEF RInv, ReaderType
<1>3. ASSUME NEW g \in Readers PROVE OwnerPage(reader[g])'
  <2> SUFFICES ASSUME NEW o, o = reader'[g].owner, reader'[g].next = "owner:tables"
               PROVE  /\ o \in Owners
                      /\ reader'[g].sure \subseteq Sure(o)'
                      /\ \A p \in reader'[g].sure :
                            TableOf[p] \in reader'[g].left \/ p \in reader'[g].seen
    BY DEF OwnerPage, Sure, Writers
  <2>1. OwnerPage(reader[g])
    BY DEF RInv, Pages
  <2>2. o \in Owners /\ o = reader[g].owner
    BY <1>1, <2>1 DEF OwnerPage
  <2>3. Promises'[o] = Sure(o)'
    BY <2>2 DEF Promises
  <2>4. reader'[g].sure = reader[g].sure \cap Sure(o)'
    BY <1>1, <2>2, <2>3
  <2>. QED  BY <1>1, <2>1, <2>2, <2>4 DEF OwnerPage
<1>4. ASSUME NEW g \in Readers PROVE PcPage(reader[g])'
  <2>1. PcPage(reader[g])
    BY DEF RInv, Pages
  <2>. QED  BY <1>1, <2>1 DEF PcPage
<1>. QED  BY <1>2, <1>3, <1>4 DEF RInv, Pages

\* Every step keeps the pages true, given what Sheets_proofs shows of the tables.
LEMMA ReadStep ==
    ASSUME RInv, AnsweredIsStored, LearnedSpellsExist, [ReadNext]_readVars
    PROVE  RInv'
<1>1. CASE Next /\ reader' = [g \in Readers |-> Observed(reader[g], Promises', Actions(Parts)')]
  BY <1>1, SheetsStep, SheetsAssumption
<1>2. ASSUME NEW g \in Readers, NEW o \in Owners, NEW include, NEW k,
             FindOwner(g, k, o, include)
      PROVE  RInv'
  <2> DEFINE q == [NoPage EXCEPT !.next = "owner:tables", !.owner = o, !.left = include,
                                 !.sure = {p \in Sure(o) : TableOf[p] \in include}]
  <2>1. OwnerPage(q) /\ PcPage(q)
    BY DEF OwnerPage, PcPage, NoPage
  <2>2. DOMAIN q = {"next", "owner", "left", "seen", "sure", "pc", "ids", "raced"}
    BY DEF NoPage
  <2>. QED  BY <1>2, <2>1, <2>2, OnePage DEF FindOwner, Open
<1>3. ASSUME NEW g \in Readers, NEW k, NEW these, ReadTables(g, k, these) PROVE RInv'
  <2> DEFINE p0 == reader[g]
             new == {p \in List(p0.owner) : TableOf[p] \in these}
             q == [p0 EXCEPT !.left = @ \ these, !.seen = @ \cup new]
  <2>1. reader' = [reader EXCEPT ![g] = q]
    BY <1>3 DEF ReadTables, RInv, ReaderType
  <2>2. p0.next = "owner:tables" /\ OwnerPage(p0) /\ PcPage(p0)
    BY <1>3 DEF ReadTables, RInv, Pages
  <2>3. /\ DOMAIN q = {"next", "owner", "left", "seen", "sure", "pc", "ids", "raced"}
        /\ q.next = p0.next /\ q.owner = p0.owner /\ q.sure = p0.sure
        /\ q.left = p0.left \ these /\ q.seen = p0.seen \cup new
    BY DEF RInv, ReaderType
  <2>4. p0.sure \subseteq List(p0.owner)
    BY <2>2, SureIsListed DEF OwnerPage
  <2>5. OwnerPage(q) /\ PcPage(q)
    BY <2>2, <2>3, <2>4 DEF OwnerPage, PcPage
  <2>. QED  BY <1>3, <2>1, <2>3, <2>5, OnePage DEF ReadTables
<1>4. ASSUME NEW g \in Readers, NEW c \in Pcs, FindPc(g, c) PROVE RInv'
  <2> DEFINE q == [NoPage EXCEPT !.next = "pc:relations", !.pc = c]
  <2>1. OwnerPage(q) /\ PcPage(q)
    BY DEF OwnerPage, PcPage, NoPage
  <2>2. DOMAIN q = {"next", "owner", "left", "seen", "sure", "pc", "ids", "raced"}
    BY DEF NoPage
  <2>. QED  BY <1>4, <2>1, <2>2, OnePage DEF FindPc, Open
<1>5. ASSUME NEW g \in Readers, FindLearned(g) PROVE RInv'
  <2> DEFINE p0 == reader[g]
             ids == {x[2] : x \in {y \in learned : y[1] = p0.pc}}
             q == [p0 EXCEPT !.next = "pc:lookup", !.ids = ids]
  <2>1. reader' = [reader EXCEPT ![g] = q]
    BY <1>5 DEF FindLearned, LearnedBy, RInv, ReaderType
  <2>2. ids \subseteq Actions(Parts)
    BY LearnedIsFound
  <2>3. DOMAIN q = {"next", "owner", "left", "seen", "sure", "pc", "ids", "raced"}
        /\ q.next = "pc:lookup" /\ q.ids = ids
    BY DEF RInv, ReaderType
  <2>4. OwnerPage(q) /\ PcPage(q)
    BY <2>2, <2>3 DEF OwnerPage, PcPage
  <2>. QED  BY <1>5, <2>1, <2>3, <2>4, OnePage DEF FindLearned
<1>6. ASSUME NEW g \in Readers, FindSpells(g) PROVE RInv'
  <2> DEFINE p0 == reader[g]
             next == IF p0.ids \subseteq Actions(Parts) THEN "pc:done" ELSE "pc:failed"
             q == [p0 EXCEPT !.next = next]
  <2>0. (MonsterSpellsById(p0.ids) = p0.ids) = (p0.ids \subseteq Actions(Parts))
    BY DEF MonsterSpellsById
  <2>1. reader' = [reader EXCEPT ![g] = q] /\ p0.next = "pc:lookup" /\ PcPage(p0)
    BY <1>6, <2>0 DEF FindSpells, RInv, ReaderType, Pages
  <2>2. DOMAIN q = {"next", "owner", "left", "seen", "sure", "pc", "ids", "raced"}
        /\ q.next = next /\ q.raced = p0.raced
    BY DEF RInv, ReaderType
  <2>3. OwnerPage(q) /\ PcPage(q)
    BY <2>1, <2>2 DEF OwnerPage, PcPage
  <2>. QED  BY <1>6, <2>1, <2>2, <2>3, OnePage DEF FindSpells
<1>7. ASSUME NEW g \in Readers, Close(g) PROVE RInv'
  <2>1. OwnerPage(NoPage) /\ PcPage(NoPage)
    BY DEF OwnerPage, PcPage, NoPage
  <2>2. DOMAIN NoPage = {"next", "owner", "left", "seen", "sure", "pc", "ids", "raced"}
    BY DEF NoPage
  <2>. QED  BY <1>7, <2>1, <2>2, OnePage DEF Close
<1>8. CASE UNCHANGED readVars
  BY <1>8 DEF readVars, vars, tables, history, RInv, ReaderType, Pages, OwnerPage, PcPage,
              Sure, Writers, Actions
<1>. QED  BY <1>1, <1>2, <1>3, <1>4, <1>5, <1>6, <1>7, <1>8
          DEF ReadNext, FindNpc, FindMonster, FindFaction, ReadTable, FindRules, FindInventory,
              FindEquipment, FindTraits, FindAffinities, FindActions, FindRelations

\* What the pages have read so far, in every reachable state.
THEOREM PagesInvariant == ReadSpec => []RInv
<1>1. ReadSpec => []AnsweredIsStored
  BY ReadsImplementSheets, SuccessIsStored, PTL
<1>2. ReadSpec => []LearnedSpellsExist
  BY ReadsImplementSheets, LearnedSpellsAreThere, PTL
<1>3. AnsweredIsStored /\ LearnedSpellsExist /\ RInv /\ [ReadNext]_readVars => RInv'
  BY ReadStep
<1>. QED  BY <1>1, <1>2, <1>3, ReadInitInv, PTL DEF ReadSpec

----------------------------------------------------------------------------
\* A page that reads table after table, with any number of writers in between, shows
\* every part that was promised throughout.
THEOREM CompletePages == ReadSpec => []PagesMissNothing
<1>1. RInv => PagesMissNothing
  BY DEF RInv, Pages, OwnerPage, PagesMissNothing
<1>. QED  BY PagesInvariant, <1>1, PTL

\* A PC's page fails only after an action that it had read of was deleted: the
\* tables themselves never make a PC unreadable.
THEOREM FailuresAreRaces == ReadSpec => []PagesFailOnlyInRaces
<1>1. RInv => PagesFailOnlyInRaces
  BY DEF RInv, Pages, PcPage, PagesFailOnlyInRaces
<1>. QED  BY PagesInvariant, <1>1, PTL
=============================================================================
