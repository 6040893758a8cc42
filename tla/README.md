# Verification of the Fabula Ultima campaign backend

TLA+ models, TLC runs and TLAPS proofs for this repository's Cloudflare Worker:
a Hono API over one D1 (SQLite) database. Paths below are relative to the
repository root.

## 1. The system

The Worker keeps no state between requests: everything shared is in D1. A
handler is a chain of `await`s, each of which is one SQL statement or one
`db.batch`. D1 runs a statement, or a batch, atomically; it offers no
transaction across calls. Between any two awaits other requests run, and what
the handler has read is a local variable that may be stale. A Worker can be
evicted between two awaits, and an error that no handler catches ends the
request in the error handler (`src/presentation/error-handler.ts`), with what has been
written still there. Foreign keys and `ON DELETE CASCADE` are in force.

| Component | State | Operations | Hard behaviour | What makes it correct | Modelled in |
|---|---|---|---|---|---|
| Campaign invitations | `campaign_invitations` | send, cancel, accept, decline; lazy expiry; lists, search | check-then-write in separate calls, two clocks for expiry, deletion of parents | accepted = joined, only the invited join, no dangling row, one active invitation (a bounded overshoot when sends overlap), expiry frees, lists show what can be acted on | CampaignInvitations, InvitationContract |
| Campaign members | `campaign_members` | add, change role, remove; lists | stale role in the middleware | rows have parents; a creation leaves a master | CampaignMembers |
| Campaigns | `campaigns` | create (two INSERTs + compensation), delete, admin create/delete; edit, notes | failure between the INSERTs, counting race | no creation without a master, limit of 5 | CampaignMembers |
| Player characters | `pcs`, `pc_*` | create (many INSERTs + compensation), add relations, edit | compensation, limits by count-then-insert, ownership by campaign | a failed creation leaves nothing; edits stay in the campaign; limits | CampaignPcs |
| PC links | `campaign_pcs` | link, unlink, visibility | racing a creation or a deletion | rows have parents; every query means the same by "sees" | CampaignPcs, PcPages |
| Guards | – | JWT + user row, member row, owner of PC, API token | read once, used later | they were true when read | guards of the actions |
| Accounts, login | `users`, JWT (30 days) | register, create, delete, login, search | cascade into everything; two reads in login; tokens outlive accounts | a token stands for the account whose password was given | Accounts, `DeleteUser` elsewhere |
| Campaign entities | `campaign_entities`, npcs, monsters, items, locations, factions, sessions | create-then-link, PATCH then visibility, link, unlink, show by hand | no compensation, a row without a link is global | in the lists with `scope=global` and those of campaigns: private stays private, hidden stays hidden; home and lists agree | CampaignEntities, EntityStore |
| Lists of NPCs, monsters, factions | `npc_*`, `monster_*`, `faction_locations`, `pc_monster_spells` | create part by part, replace the list, learn a spell; pages | one batch for two kinds, call by call for factions and creations; references to rows that are replaced | a success is stored, a list changes as a whole, pages miss nothing | Sheets, SheetReads, RelationContract |
| PC read model | – | assemble, statistics, bonds, who sees a PC | arithmetic with nulls, dangling bonds, five SQL queries for one rule | queries agree, statistics follow the sheet | PcPages, PcStats |
| Campaign read model | – | filters by role, home page | counts without joins | home equals the lists | EntityStore, PcPages, CampaignInvitations |
| Jobs' pages, scenario, schemas, CORS/cache/request-id, upload signature, composition, seed scripts | catalogue tables | reads, plumbing | none | – | not modelled |

`PROJECT.json` lists the components with their files, every definition with the
lines it stands for, and the hazards: what in this code is hard to test, at its
line, with the properties that would catch it.

## 2. Modules

```
CampaignStore          tables, statements, request records
  CampaignInvitations  handlers of invitations, the clock, lists and search
  CampaignMembers      handlers of members and campaigns, deletion of accounts
    CampaignSystem     both, over one database; properties, IInv
InvitationContract     abstract invitation rules, refined by CampaignSystem
CampaignPcs            player characters, links, relations, edits, call by call
EntityStore            catalogues, campaign_entities, and the lists read from them
  CampaignEntities     the handlers of masters and of the administrator
Sheets                 the lists of NPCs, monsters, factions; learned spells
  SheetReads           the pages that show them, read table by table
RelationContract       abstract lists, refined by Sheets
PcStats                the statistics of a PC, as operators
  PcPages              who sees which PC and whether its page opens
Accounts               accounts, logins and tokens
```

`X_proofs` holds the theorems about `X`, and `CampaignRules_proofs` those about
CampaignSystem that hold under a condition; `MCCampaign`, `MCPcs`, `MCEntities`,
`MCSheets`, `MCPages` and `MCAccounts` the values that the cfg files use.

**Conventions.** One action per await: `StartX` is the middleware, the checks in
the route and the first read; the following actions are the reads and writes.
A request refused by its first reads does not appear, because it changes
nothing. Neighbouring reads are one action only where an event between them
cannot be told from one before or after; each module says where. A handler that
writes with one call is one action. `request[r]` is a request in flight: `next`
is the call it will make next and the other fields are its local variables.
`Abandon` is an eviction or an uncaught error. AUTOINCREMENT never gives an id
twice, and the models keep what has been used. Histories are variables, or fields, that
properties use and no guard reads; the comments mark them.

**CampaignStore.** `users`, `campaigns`, `role` (the member table as a function on
`<<campaign, user>>`, which is what its UNIQUE constraint makes it) and
`invitation` are the tables. Expiry is `left`, expires_at minus now: the SQL comparison
(`NotExpiredSql`) and the one in TypeScript (`IsInvitationExpired`) differ at 0.
The lists (`FindPendingByInviteeId`, `PendingInvitations`, `SearchUsers`, ...) are operators on these
tables with the filters of their SQL.

**CampaignPcs.** `level` is `pc_jobs` (only whether the job is mastered), `relation` the other
`pc_*` tables, each of which has one key per PC and thing. `creating` tells a
call of POST `/:campaignId/pcs` from one of the relation routes: the former
goes on to the next relation, or to the compensation (`Undo`). `badId` among the operations lets an INSERT fail for
a reason outside the model. Roles are a constant, `MasterOf`, because each
request reads its role once, in its middleware; changes of role are in
CampaignMembers.

**InvitationContract** is what the rules promise, each in one step: only
somebody with neither membership nor open invitation is invited, only a pending
invitation is settled, and acceptance and membership are one step. Member
changes, deletions and time are unconstrained by it. `CampaignSystem` implements
it with the same names (`role`, `invitation`) when requests do not overlap;
reads and starts of requests are stutters.

**EntityStore and CampaignEntities.** An id says which of the ten catalogues it
is of (`kindOf`), `content` are the rows, `link` is `campaign_entities` with
`visible_to_players`, which may name ids without a row. The content of a row is only
whether it was last written by a body that hides it or one that shows it, so
that the row and the flag of its link, which are written by different calls,
can be compared. A POST is INSERT then link, a PATCH is a look for the link,
UPDATE, then the flag; `LinkEntity`, `ShowEntity` and `UnlinkEntity` are the routes for links by
hand. `released` is a history: the rows whose POST was cut short before the link, and those that their own
campaign unlinked. A link that is refused, because its campaign is gone or another campaign has linked
the id first, releases nothing. The lists (`GlobalLists`, `CampaignLists`, `HomeStats`) are operators.

**Sheets.** `row[o][p]` is the id of the row that holds part `p` of the list of owner
`o`, 0 for none: that is how an action keeps its place on a monster's list
while it changes its id, and `learned` refers to ids. A creation inserts part after
part (`PostPart`), the update of an NPC or a monster is one batch (`PatchBatch`), that of a
faction deletes and inserts call by call. What a table is matters to the pages only:
`TableOf` says which of three tables holds a part. Parts other than actions are
given ids on a monster too, but nothing reads those.

**SheetReads** adds pages: `FindNpc` and the like read the row, then one table after the
other; the page of a PC reads the ids of its learned spells, then looks them
up. `sure` is a history: what the page must show because it was promised all the
time since the page was opened. **RelationContract** is the abstract list: it is replaced
as a whole by one that a request in flight asks for, or a part is added.
Factions are outside of it, because their update makes no such promise.

**PcStats and PcPages.** PcStats has the arithmetic of `PcStatsCalculator`: a null die is 0, text is what
the code reads in it, and numbers are whole (a fraction in a text column, and
the precision of doubles, are left out). Both `reduce` over the jobs are recursive functions. PcPages has the five SQL queries that
decide who sees a PC, and the operations that change their tables, each of
which is one statement here: the calls of a creation and of a deletion of a PC are in
CampaignPcs. A bond may be to any id, of a PC that is gone or of none yet (`BondPc`): the code
does not look for the target and migration 0027 has no foreign key on it. `issued` is the sequence
of `pcs`, which gives no id twice, so a bond never comes to mean another PC, but one to an id
that is still to come starts to work. A page opens (`Page`) when the statistics can be read and
every bond has its target.

**Accounts.** A login reads the hash, then the row, in two calls; a token is a
record with its subject and expiry; the identifier matches an e-mail before a
nickname, because SQLite answers the OR by its two indexes in that order and
`LIMIT 1` takes the first.

## 3. What the runs check

All bounds are constants of the cfg files. Two overlapping
requests suffice for every check-then-write race in this code, since each such
race is between one pair of calls; what a third adds is left to the proofs, which are for
any number.

| Run | Instance | Shows |
|---|---|---|
| `races` | 3 accounts (master, invitee, a third party), 1 campaign, 1 invitation, 2 requests, TTL 1, evictions | `TypeOK`, `ReferentialIntegrity`, `AcceptedHasJoined`, `JoinedWasOffered`, `InviterWasMaster` in every interleaving; the search and the lists tell the truth (`ListsTellTheTruth`) |
| `serial` | 2 accounts (1 super user), 1 campaign made and deleted by the admin, 2 invitations, 1 request | without overlap the handlers keep `InvitationContract`, `OneActiveInvitation` holds, and every active invitation lapses (`PendingLapses`) |
| `limits` | 2 accounts, 3 campaigns, 3 invitations, limit 1, 2 requests that create, delete or send, failing INSERTs, TTL 1, symmetry in campaigns too because none is there at first | the compensation keeps `EveryCampaignHasMaster`; the limit is exceeded by at most one per overlapping request (`MasterLimitOvershoot`); sends that overlap leave at most as many active invitations as there are requests (`ActiveOvershoot`) |
| `pcs_create` | 1 PC id, 3 jobs, limit 1, 2 requests, a super user, failing INSERTs | `FailedLeavesNothing`, `RowsHaveParents`, `UnmasteredOvershoot` |
| `pcs_edit` | 1 campaign with its master, 1 player, 3 PCs, limit 1, 2 requests, deletions | `EditsStayInCampaign` also when the PC is unlinked or the campaign deleted in between; `PcLimitOvershoot` |
| `entities` | 2 campaigns with a master each, 1 id of each of the 10 kinds in turn, 2 requests, evictions | `NothingOfDeletedCampaigns`, `GlobalListIsEarned`, `EditsStayInCampaign`, `HiddenStaysHidden`, `HomeStatsMatchLists` |
| `sheets` | 1 owner of each of the 3 kinds in turn, 2 parts in 2 tables, 4 bodies (one repeats a part), 2 requests, 1 PC, 1 page, ids to 4, evictions | `LearnedSpellsExist`, `AnsweredIsStored`, `PagesMissNothing`, `PagesFailOnlyInRaces`; `KeepsRelations` is the refinement of RelationContract |
| `pages` | 2 campaigns, 2 accounts, 2 PCs, an armor with two possible rows, 72 sheets | `NothingOfTheDeleted`, `ListsAgree`, `StatsBehave` |
| `accounts` | 2 e-mails, one more nickname, 2 passwords, 3 ids, 2 requests, 3 instants, tokens that live 1, one at a time | `TokensKeepTheirMeaning`, `LoginProvesPassword`, `EveryoneLogsInAsThemselves` |

Why the bounds are enough: the limits of the code (5, 3, 3) are 1, because the checks compare
with the limit and never use its value. TTL is one tick: before, at and after the
instant of expiry. Kinds and tables are taken in turn because ids of different
kinds share no row and no constraint. Four ids of actions are two lists of
two, so a list can be replaced, and be replaced again while a PC learns from
it. Three account ids let an account go and another come under the same names
while a third keeps one of them; one token is enough because a property of tokens speaks of one at a time.
The sheets of `pages` cross three lists of jobs, a shield in either hand or
unreadable, and every kind of armor. The runs set `CHECK_DEADLOCK FALSE` where they do because ids are used up and
clients may stop.

**What the properties leave open.** `EveryCampaignHasMaster` is claimed of
creations: role changes, removals, the deletion of an account, an eviction and
the administrator can all leave a campaign without a master. `InviterWasMaster` says that the
inviter has been a master, not that he still is when the row is written: a demotion after the
middleware is not looked at again. `InvitationContract` says nothing of time, so
an acceptance just past the expiry is no breach of it; what the two clocks may not break is
`OneActiveInvitation`. `GlobalListIsEarned` exempts rows that a cut-short POST has left without a
link (`released`): there is no compensation, and they are global until somebody links them by hand.
`HomeStatsMatchLists` exempts links made by hand to ids without a row. `HiddenStaysHidden` and
`AnsweredIsStored` exempt what two requests write at once or one leaves half done:
the code promises nothing there, and the histories `apart` and `settled`
name exactly these cases. `LoginProvesPassword` exempts a login whose identifier
changes hands between the two reads (`disturbed`). Where one of these can go wrong, `PROJECT.json` lists it
as a hazard without a property, and says why.

**What the runs refute.** Each of these is a run that expects a violation,
with a line of the repository that says otherwise:

- `cancel_race` – a cancelled invitation can still be accepted. The status is checked one call
  before an unconditional UPDATE (`CancelledIsFinal`).
- `learned_spells` – any PATCH of a monster deletes its actions and inserts them under new
  ids, and with the old ids goes what PCs have learned, although the spell
  stays on the list (`LearnedIsKept`). The comment on that batch says that it is there so that
  no relations are lost.
- `owner_page` – a PC with a bond to a PC that is deleted later: its owner can open
  its page no more (`OwnerOpensOwnPc`). The description of the route promises the owner the PC
  with its bonds; that the resolver throws is tested, what it does to the page is not.

## 4. Fairness

The specifications have none: no request need ever arrive or finish. `FairSpec` of CampaignSystem adds
`WF_vars(Tick)` only: real time passes. `PendingLapses` needs nothing else,
because expiry is a comparison in each query and not a job. Nothing else in this
code must happen eventually: it has no queue, no retry and no background work.

## 5. What is proved

The theorems hold for every value of the constants that the `ASSUME` of the
module allows, and every run that uses the module evaluates that `ASSUME`. They cover what no run
has room for: any number of requests, accounts, campaigns, ids and parts. Each
`X_proofs` module goes by action: lemmas say what each statement does to the types and the
invariant, and each handler cites the statements it runs.

| Module | Theorems | The strengthening, and why it is needed |
|---|---|---|
| `CampaignSystem_proofs` | `TypeCorrect`, `NothingDangles`, `AcceptanceAdmits`, `OnlyTheOfferedJoin`, `OnlyMastersInvite`, `ListsCanBeActedOn` | `IInv`: the batch of an acceptance inserts a member from values read earlier and updates the row by id only. It is right because ids are not reused and no statement changes a row's campaign or invitee: the row is gone or still about the same pair (`AccepterWasOffered`, `SenderWasMaster`) |
| `CampaignRules_proofs` | `ActiveOvershootIsBounded`; `NobodyCallsUnasked`, `CampaignsKeepAMaster`, `LimitOvershootIsBounded`; `AloneInvariant`, `AloneOneActive`, `AloneKeepsContract`, `AloneCancelledIsFinal` | see below |
| `CampaignPcs_proofs` | `TypeCorrect`, `NothingDangles`, `CompensationIsComplete`, `OnlyTheEntitledEdit`; `CountInvariant`, `PcOvershootIsBounded`, `JobOvershootIsBounded` | `IInv`: a creation may undo only a PC that it made itself, and an edit is written after its check, so `Remembers` carries the creator and the entitlement to the write. `Counted`: a request that has passed its check holds a place, so rows and places together never exceed the limit by as much as there are slots |
| `CampaignEntities_proofs` | `TypeCorrect`, `DeletionTakesAll`, `PrivateStaysPrivate`, `MastersEditTheirOwn`, `PlayersDoNotSee`, `HomeCountsTheLists` | `IInv`: every row that its campaign does not link is on the way or released (`Accounted`); what a request is about to show or hide is what it wrote (`Agreed`), which needs that no two requests are about one pair unless it is set apart (`SetApart`). `Rooted`: a link names a row, unless somebody made or broke it by hand, so a count of links is the length of the list that joins the rows |
| `Sheets_proofs` | `TypeCorrect`, `LearnedSpellsAreThere`, `SuccessIsStored`, `SheetsKeepRelations` | `LearnInv`: an id of an action is held once and never given again (`UniqueIds`), so what was a spell when it was checked is a spell, or gone and refused, at the INSERT. `StoredInv`: a writer that nobody disturbed is the only one (`AloneIsOne`), and what it has inserted and has yet to insert is its list (`Progress`) |
| `SheetReads_proofs` | `ReadsImplementSheets`, `CompletePages`, `FailuresAreRaces` | pages change nothing, so every theorem about Sheets holds here; `RInv`: what a page promises is on it or in a table yet to be read, because no writer takes away a part that it and the stored list share, and a list that is being rebuilt promises nothing |
| `PcPages_proofs` | `TypeCorrect`, `DeletionIsComplete`, `QueriesAlwaysAgree`, `StatsAlwaysBehave` | deletions are inductive with the types; the agreement of the five queries follows from that: each join of one query is a row that cannot be missing in the other. The statistics are a fact about every sheet, by induction along its jobs |
| `Accounts_proofs` | `TypeCorrect`, `TokensStandForOneAccount`, `LoginsReadOneAccount`, `EveryoneCanLogIn` | `IInv`: a token's subject is not ahead of the sequence, so no later row gets its id (`Remembered`); whoever is found under the identifier of an undisturbed login has the password that was checked (`Steady`) |

**One active invitation, and what overlap leaves of it** (`CampaignRules_proofs`).
`ActiveOvershootIsBounded` has no condition: however many requests overlap, a user never has more active
invitations to a campaign than there are request slots. `ActiveCounted` counts, for each campaign and
user, the active rows and the sends that are past their check: a send takes its place when its
check finds no active row, so at that moment only places count, and each slot
holds one at most. From then on a place turns into a row, and nothing else adds one, since no change of
status and no clock makes an inactive invitation active again.

**Rules that hold under a condition** (`CampaignRules_proofs`). What follows is false of all
operations at once, so each theorem names, in its hypothesis, the operations that must not
be issued, or says that there is one request at a time; the rest stays arbitrary.

- `CampaignsKeepAMaster`: without role changes, removals, the deletion of accounts,
  evictions and the administrator's creations, every campaign has a master or a
  request that is about to add or to undo it. These are exactly the operations that
  take a master away, or never put one there, and the code does not check
  for the last master in any of them. `NobodyCallsUnasked` ties the calls in flight to the operations issued.
- `LimitOvershootIsBounded`: if masters come from creations only, nobody is
  master of more campaigns than the limit plus the number of request slots less one. `MastersCounted` counts
  a request past its check as a place taken. An administrator who adds members, or a change
  of role, does not look at the limit.
- `AloneInvariant`, `AloneOneActive`, `AloneKeepsContract`, `AloneCancelledIsFinal`: with
  requests one at a time, whatever each of them does, no two invitations of a user
  to a campaign are active, CampaignSystem implements InvitationContract step by step, and a
  cancelled invitation stays so. `SerialInv` says that what the request has read still holds when it
  writes (`ReadsHold`). So what `cancel_race` refutes is due to the overlap alone.

**Induction along the jobs** (`PcPages_proofs`). `reduce` is a recursive function, so its
theorems need induction. `LeastNat`, a set of naturals has a least element, comes from
the well-foundedness of `<`; `Upward` turns it into induction over the set of places where a
fact holds. `LoopExists` gives the function that the recursion defines, the two equations follow,
and every fact about totals is a set of places closed under the next one. The sheets are arbitrary
records of the types in PcStats, which the `ASSUME` of PcPages asks of its constants.

**Assumptions on finiteness.** Theorems that count ask for finitely many ids (SQLite's row ids have 64 bits)
and request slots, and for at least one slot.

Two refinements are stated with INSTANCE, `KeepsRelations` (Sheets implements
RelationContract) and `KeepsContract` (CampaignSystem implements InvitationContract); both are checked
and proved, the latter of requests that do not overlap.

Only model-checked: liveness (`PendingLapses`), which the prover cannot do, and the
properties of the runs that expect a violation. Every other property of a run is a theorem.

## 6. Not modelled

Bodies, names, pictures and texts; responses and status codes; pagination and
the LIMIT 10 of the search; unique names except as a reason for an INSERT to fail.
Cookies and the administrator's token; signatures and hashes, which stand for
what only their owner can make. The pages of jobs and the scenario: reads of
tables that only grow. The page of a single campaign entity: the page of the
catalogue behind the filter that the lists have. The public lists of NPCs, monsters and items
without `scope=global`, and their pages by id: each shows every row, private or hidden in its campaigns
or not, to whoever asks. So what is checked and proved of privacy (`GlobalListIsEarned`,
`HiddenStaysHidden`) is about the lists with `scope=global` and those of campaigns, and about nothing else. Schemas: the actions take
bodies that pass them. Middleware for CORS, cache and request ids, the upload
signature, the composition roots and the seed scripts have no state that requests share.
A D1 error in an arbitrary call is `Abandon`; in `CampaignPcs` it is the failing INSERT of a relation, and an eviction in the
middle of a creation, from which the code does not recover, is not modelled there.

## 7. Plan

1. **One database**: CampaignEntities and CampaignPcs with the changing roles of
   CampaignMembers instead of a constant `MasterOf`.
2. **Pages of jobs**, which join four tables, and the scenario.
3. **Weaker conditions** in `CampaignRules_proofs`: which of the rules of one request at a time
   survive an overlap of requests about different pairs of campaign and user.
