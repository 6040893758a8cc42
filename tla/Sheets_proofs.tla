---------------------------- MODULE Sheets_proofs ----------------------------
(***************************************************************************)
(* Proofs about Sheets, for any number of owners, parts, PCs and requests  *)
(* that overlap, and for any bodies: the types, what the spells that PCs   *)
(* learn refer to, what a success leaves stored, and that the lists of     *)
(* NPCs and monsters implement RelationContract.                           *)
(***************************************************************************)
EXTENDS Sheets, TLAPS

----------------------------------------------------------------------------
(* What a statement does to the rows *)

\* The owner of a request that writes is known, and so is its table.
FieldsAreSet(q) ==
    /\ q.next \in Writing => q.owner \in Owners
    /\ q.next \in {"faction:delete", "faction:part"} => kindOf[q.owner] = "faction"
    /\ q.next = "patch:batch" => kindOf[q.owner] # "faction"

TypeInv == TypeOK /\ \A r \in Requests : FieldsAreSet(request[r])

RowsTyped == row \in [Owners -> [Parts -> 0..MaxId]] /\ lastId \in 0..MaxId

\* A statement gives monster_actions only ids that no row has had, each to one row.
RowsGrow ==
    /\ lastId' >= lastId
    /\ \A o \in Owners, p \in Parts : kindOf[o] = "monster" =>
          row'[o][p] \in {0, row[o][p]} \cup ((lastId + 1)..lastId')
    /\ \A o, x \in Owners, p, q \in Parts :
          /\ kindOf[o] = "monster" /\ kindOf[x] = "monster"
          /\ row'[o][p] = row'[x][q] /\ row'[o][p] > lastId
          => o = x /\ p = q

OtherRowsStay(o) == \A x \in Owners \ {o} : row'[x] = row[x]

\* The first part of a body, and the rest.
LEMMA BodySplits ==
    ASSUME NEW s \in Seq(Parts), s # <<>>
    PROVE  /\ Head(s) \in Parts
           /\ Tail(s) \in Seq(Parts)
           /\ Range(s) = {Head(s)} \cup Range(Tail(s))
<1>1. Head(s) \in Parts /\ Tail(s) \in Seq(Parts) /\ Len(s) \in Nat \ {0}
  OBVIOUS
<1>2. /\ DOMAIN s = 1..Len(s) /\ DOMAIN Tail(s) = 1..(Len(s) - 1)
      /\ \A i \in 1..(Len(s) - 1) : Tail(s)[i] = s[i + 1]
      /\ Head(s) = s[1]
  BY <1>1
<1>3. ASSUME NEW x \in Range(s)
      PROVE  x \in {Head(s)} \cup Range(Tail(s))
  <2>1. PICK i \in 1..Len(s) : s[i] = x
    BY <1>2, <1>3 DEF Range
  <2>2. CASE i = 1
    BY <1>2, <2>1, <2>2
  <2>3. CASE i # 1
    <3>1. i - 1 \in 1..(Len(s) - 1) /\ (i - 1) + 1 = i
      BY <1>1, <2>1, <2>3
    <3> QED
      BY <1>2, <2>1, <3>1 DEF Range
  <2> QED
    BY <2>2, <2>3
<1>4. ASSUME NEW x \in {Head(s)} \cup Range(Tail(s))
      PROVE  x \in Range(s)
  <2>1. CASE x = Head(s)
    BY <1>1, <1>2, <2>1 DEF Range
  <2>2. CASE x \in Range(Tail(s))
    <3>1. PICK i \in 1..(Len(s) - 1) : Tail(s)[i] = x
      BY <1>2, <2>2 DEF Range
    <3>2. i + 1 \in 1..Len(s)
      BY <1>1, <3>1
    <3> QED
      BY <1>2, <3>1, <3>2 DEF Range
  <2> QED
    BY <1>4, <2>1, <2>2
<1> QED
  BY <1>1, <1>3, <1>4

LEMMA BodyRange ==
    ASSUME NEW s \in Seq(Parts)
    PROVE  Range(s) \subseteq Parts
BY DEF Range

LEMMA EmptyBody == Range(<<>>) = {}
BY DEF Range

\* One INSERT.
LEMMA InsertEffect ==
    ASSUME TypeInv, NEW o \in Owners, NEW p \in Parts, InsertPart(o, p), UNCHANGED kindOf
    PROVE  /\ RowsTyped'
           /\ row[o][p] = 0
           /\ List(o)' = List(o) \cup {p}
           /\ \A q \in Parts \ {p} : row'[o][q] = row[o][q]
           /\ OtherRowsStay(o)
           /\ kindOf[o] = "monster" => row'[o][p] = lastId + 1 /\ lastId' = lastId + 1
           /\ kindOf[o] # "monster" => UNCHANGED lastId
<1>1. row \in [Owners -> [Parts -> 0..MaxId]] /\ lastId \in 0..MaxId /\ MaxId \in Nat
  BY SheetsAssumption DEF TypeInv, TypeOK
<1>2. NewId(o) \in 1..MaxId
  BY <1>1, SheetsAssumption DEF InsertPart, NewId
<1>3. row' = [row EXCEPT ![o] = [row[o] EXCEPT ![p] = NewId(o)]]
  BY <1>1 DEF InsertPart
<1>4. RowsTyped'
  BY <1>1, <1>2, <1>3 DEF InsertPart, NewId, RowsTyped
<1>5. /\ row'[o][p] = NewId(o)
      /\ \A q \in Parts \ {p} : row'[o][q] = row[o][q]
      /\ OtherRowsStay(o)
  BY <1>1, <1>3 DEF OtherRowsStay
<1>6. List(o)' = List(o) \cup {p}
  BY <1>2, <1>5 DEF List
<1> QED
  BY <1>4, <1>5, <1>6 DEF InsertPart, NewId

\* A list of an NPC or of a faction, set as a whole.
LEMMA SetEffect ==
    ASSUME TypeInv, NEW o \in Owners, NEW S \in SUBSET Parts,
           row' = [row EXCEPT ![o] = [p \in Parts |-> IF p \in S THEN 1 ELSE 0]]
    PROVE  /\ row' \in [Owners -> [Parts -> 0..MaxId]]
           /\ List(o)' = S
           /\ OtherRowsStay(o)
<1>1. row \in [Owners -> [Parts -> 0..MaxId]] /\ MaxId \in Nat \ {0}
  BY SheetsAssumption DEF TypeInv, TypeOK
<1>2. [p \in Parts |-> IF p \in S THEN 1 ELSE 0] \in [Parts -> 0..MaxId]
  BY <1>1
<1>3. row'[o] = [p \in Parts |-> IF p \in S THEN 1 ELSE 0] /\ OtherRowsStay(o)
  BY <1>1 DEF OtherRowsStay
<1> QED
  BY <1>1, <1>2, <1>3 DEF List

\* The ids that a batch gives out.
LEMMA NumberedEffect ==
    ASSUME TypeInv, NEW body \in Seq(Parts), NEW p \in Parts
    PROVE  /\ p \in Range(body) =>
                 \E i \in 1..Len(body) : body[i] = p /\ Numbered(body)[p] = lastId + i
           /\ p \notin Range(body) => Numbered(body)[p] = 0
<1>1. ASSUME p \in Range(body)
      PROVE  \E i \in 1..Len(body) : body[i] = p /\ Numbered(body)[p] = lastId + i
  <2>1. \E i \in DOMAIN body : body[i] = p
    BY <1>1 DEF Range
  <2> DEFINE i == CHOOSE j \in DOMAIN body : body[j] = p
  <2>2. i \in DOMAIN body /\ body[i] = p
    BY <2>1
  <2>3. Numbered(body)[p] = lastId + i
    BY <1>1 DEF Numbered
  <2>4. DOMAIN body = 1..Len(body)
    OBVIOUS
  <2> QED
    BY <2>2, <2>3, <2>4
<1> QED
  BY <1>1 DEF Numbered

\* The batch of a monster.
LEMMA MonsterEffect ==
    ASSUME TypeInv, NEW o \in Owners, NEW body \in Seq(Parts),
           UpdateMonsterWithRelations(o, body)
    PROVE  /\ RowsTyped'
           /\ List(o)' = Range(body)
           /\ OtherRowsStay(o)
           /\ lastId' = lastId + Len(body) /\ lastId' >= lastId
           /\ \A p \in Parts : row'[o][p] # 0 =>
                 \E i \in 1..Len(body) : body[i] = p /\ row'[o][p] = lastId + i
<1>1. /\ row \in [Owners -> [Parts -> 0..MaxId]] /\ lastId \in 0..MaxId
      /\ MaxId \in Nat /\ Len(body) \in Nat
  BY SheetsAssumption DEF TypeInv, TypeOK
<1>2. /\ row' = [row EXCEPT ![o] = Numbered(body)]
      /\ lastId + Len(body) <= MaxId /\ lastId' = lastId + Len(body)
  BY DEF UpdateMonsterWithRelations
<1>3. ASSUME NEW p \in Parts
      PROVE  Numbered(body)[p] \in 0..MaxId /\ (Numbered(body)[p] # 0 <=> p \in Range(body))
  BY <1>1, <1>2, NumberedEffect
<1>4. Numbered(body) \in [Parts -> 0..MaxId]
  BY <1>3 DEF Numbered
<1>5. row'[o] = Numbered(body) /\ OtherRowsStay(o)
  BY <1>1, <1>2 DEF OtherRowsStay
<1>6. RowsTyped'
  BY <1>1, <1>2, <1>4 DEF RowsTyped
<1>7. List(o)' = Range(body)
  BY <1>3, <1>5, BodyRange DEF List
<1> QED
  BY <1>1, <1>2, <1>3, <1>5, <1>6, <1>7, NumberedEffect

----------------------------------------------------------------------------
(* Types *)

\* A request is as it was, but for having been disturbed.
Alike(q, s) ==
    /\ q \in RequestRecord
    /\ q.next = s.next /\ q.owner = s.owner /\ q.list = s.list /\ q.rest = s.rest
    /\ q.pc = s.pc /\ q.id = s.id
    /\ q.alone => s.alone

OtherRequestsAlike(r) == \A s \in Requests \ {r} : Alike(request'[s], request[s])

\* One request moves.
LEMMA MoveEffect ==
    ASSUME TypeInv, NEW r \in Requests, NEW q \in RequestRecord,
           request' = [request EXCEPT ![r] = q]
    PROVE  /\ request' \in [Requests -> RequestRecord]
           /\ request'[r] = q
           /\ \A s \in Requests \ {r} : request'[s] = request[s]
           /\ OtherRequestsAlike(r)
<1>1. request \in [Requests -> RequestRecord]
  BY DEF TypeInv, TypeOK
<1>2. /\ request' \in [Requests -> RequestRecord]
      /\ request'[r] = q
      /\ \A s \in Requests \ {r} : request'[s] = request[s]
  BY <1>1
<1> QED
  BY <1>1, <1>2 DEF OtherRequestsAlike, Alike

LEMMA IdleTyped ==
    /\ Idle \in RequestRecord
    /\ Idle.next = "idle"
BY SheetsAssumption DEF Idle, RequestRecord, NextCall

LEMMA FinishEffect ==
    ASSUME TypeInv, NEW r \in Requests, request' = [request EXCEPT ![r] = Idle]
    PROVE  /\ request' \in [Requests -> RequestRecord]
           /\ request'[r] = Idle
           /\ \A s \in Requests \ {r} : request'[s] = request[s]
           /\ OtherRequestsAlike(r)
BY IdleTyped, MoveEffect

LEMMA ContinueEffect ==
    ASSUME TypeInv, NEW r \in Requests, NEW n \in NextCall,
           request' = [request EXCEPT ![r].next = n]
    PROVE  /\ request' \in [Requests -> RequestRecord]
           /\ request'[r] = [request[r] EXCEPT !.next = n]
           /\ \A s \in Requests \ {r} : request'[s] = request[s]
           /\ OtherRequestsAlike(r)
<1>1. request[r] \in RequestRecord
  BY DEF TypeInv, TypeOK
<1>2. [request[r] EXCEPT !.next = n] \in RequestRecord
  BY <1>1 DEF RequestRecord
<1>3. request' = [request EXCEPT ![r] = [request[r] EXCEPT !.next = n]]
  BY DEF TypeInv, TypeOK
<1> QED
  BY <1>2, <1>3, MoveEffect

\* The others are no longer alone.
LEMMA DisturbEffect ==
    ASSUME TypeInv, NEW o \in Owners
    PROVE  /\ Disturb(o) \in [Requests -> RequestRecord]
           /\ \A s \in Requests : /\ Alike(Disturb(o)[s], request[s])
                                  /\ s \in Writers(o) => ~Disturb(o)[s].alone
<1>1. ASSUME NEW s \in Requests
      PROVE  /\ Disturb(o)[s] \in RequestRecord
             /\ Alike(Disturb(o)[s], request[s])
             /\ s \in Writers(o) => ~Disturb(o)[s].alone
  <2>1. request[s] \in RequestRecord
    BY DEF TypeInv, TypeOK
  <2>2. Disturb(o)[s] = IF s \in Writers(o) THEN [request[s] EXCEPT !.alone = FALSE]
                                            ELSE request[s]
    BY DEF Disturb
  <2>3. [request[s] EXCEPT !.alone = FALSE] \in RequestRecord
    BY <2>1 DEF RequestRecord
  <2> QED
    BY <2>1, <2>2, <2>3 DEF Alike, RequestRecord
<1> QED
  BY <1>1 DEF Disturb

\* A request starts to write a list.
LEMMA StartEffect ==
    ASSUME TypeInv, NEW r \in Requests, NEW o \in Owners, NEW n \in Writing,
           NEW body \in Seq(Parts), StartWriting(r, o, n, body)
    PROVE  /\ request' \in [Requests -> RequestRecord]
           /\ request[r] = Idle
           /\ request'[r].next = n /\ request'[r].owner = o
           /\ request'[r].list = Range(body) /\ request'[r].rest = body
           /\ request'[r].alone => Writers(o) = {}
           /\ OtherRequestsAlike(r)
           /\ \A s \in Requests \ {r} : s \in Writers(o) => ~request'[s].alone
<1> DEFINE q == [next |-> n, owner |-> o, list |-> Range(body), rest |-> body,
                 alone |-> Writers(o) = {}, pc |-> None, id |-> 0]
<1>1. q \in RequestRecord
  <2>1. n \in NextCall /\ (Writers(o) = {}) \in BOOLEAN /\ 0 \in 0..MaxId
    BY SheetsAssumption DEF Writing, NextCall
  <2> QED
    BY <2>1, BodyRange DEF RequestRecord
<1>2. request' = [Disturb(o) EXCEPT ![r] = q] /\ request[r] = Idle
  BY DEF StartWriting
<1>3. /\ q.next = n /\ q.owner = o /\ q.list = Range(body) /\ q.rest = body
      /\ q.alone => Writers(o) = {}
  <2> DEFINE record(b) == [next |-> n, owner |-> o, list |-> Range(body), rest |-> body,
                           alone |-> b, pc |-> None, id |-> 0]
  <2>1. ASSUME NEW b \in BOOLEAN
        PROVE  /\ record(b).next = n /\ record(b).owner = o
               /\ record(b).list = Range(body) /\ record(b).rest = body
               /\ record(b).alone = b
    OBVIOUS
  <2>2. q = record(Writers(o) = {}) /\ (Writers(o) = {}) \in BOOLEAN
    OBVIOUS
  <2> HIDE DEF record, q
  <2>3. q.alone = (Writers(o) = {})
    BY <2>1, <2>2, Zenon
  <2> QED
    BY <2>1, <2>2, <2>3, Zenon
<1> HIDE DEF q
<1> QED
  BY <1>1, <1>2, <1>3, DisturbEffect DEF OtherRequestsAlike

LEMMA FieldsStay ==
    ASSUME TypeInv, UNCHANGED kindOf, NEW r \in Requests, OtherRequestsAlike(r),
           FieldsAreSet(request'[r])
    PROVE  (\A s \in Requests : FieldsAreSet(request[s]))'
<1>1. ASSUME NEW s \in Requests \ {r}
      PROVE  FieldsAreSet(request'[s])
  BY <1>1 DEF OtherRequestsAlike, Alike, FieldsAreSet, TypeInv
<1> QED
  BY <1>1 DEF FieldsAreSet

LEMMA IdleHasFields == FieldsAreSet(Idle)
BY DEF FieldsAreSet, Idle, Writing

\* The answer to a success.
LEMMA AnswerEffect ==
    ASSUME TypeInv, NEW r \in Requests, request[r].next \in Writing, Answer(r)
    PROVE  /\ request' = [request EXCEPT ![r] = Idle]
           /\ answered' \in [Owners -> SUBSET Parts]
           /\ answered'[request[r].owner] = request[r].list
           /\ \A o \in Owners \ {request[r].owner} : answered'[o] = answered[o]
           /\ settled' = IF request[r].alone THEN settled \cup {request[r].owner} ELSE settled
           /\ settled' \subseteq Owners
<1>1. request[r] \in RequestRecord /\ request[r].owner \in Owners
  BY DEF TypeInv, TypeOK, FieldsAreSet
<1>2. answered \in [Owners -> SUBSET Parts] /\ settled \subseteq Owners
  BY DEF TypeInv, TypeOK
<1>3. request[r].list \in SUBSET Parts
  BY <1>1 DEF RequestRecord
<1>4. /\ request' = [request EXCEPT ![r] = Idle]
      /\ answered' = [answered EXCEPT ![request[r].owner] = request[r].list]
      /\ settled' = IF request[r].alone THEN settled \cup {request[r].owner} ELSE settled
  BY DEF Answer
<1> QED
  BY <1>1, <1>2, <1>3, <1>4

\* One turn of a loop over the parts.
LEMMA NextPartEffect ==
    ASSUME TypeInv, NEW r \in Requests, NEW n \in {"post:part", "faction:part"},
           NextPart(r, n)
    PROVE  LET q == request[r] IN
           /\ q \in RequestRecord /\ q.next = n /\ q.owner \in Owners
           /\ n = "faction:part" => kindOf[q.owner] = "faction"
           /\ q.rest # <<>> /\ Head(q.rest) \in Parts
           /\ UNCHANGED <<kindOf, owners, pcs, learned, history>>
           /\ \/ /\ request' = [request EXCEPT ![r] = Idle]
                 /\ UNCHANGED <<row, lastId>>
              \/ /\ InsertPart(q.owner, Head(q.rest))
                 /\ request' = [request EXCEPT ![r] = [q EXCEPT !.rest = Tail(q.rest)]]
<1> DEFINE q == request[r]
<1>1. q \in RequestRecord /\ q.next = n /\ q.owner \in Owners
  BY DEF TypeInv, TypeOK, FieldsAreSet, NextPart, At, Writing
<1>2. n = "faction:part" => kindOf[q.owner] = "faction"
  BY <1>1 DEF TypeInv, FieldsAreSet
<1>3. q.rest # <<>> /\ Head(q.rest) \in Parts
  <2>1. q.rest \in Seq(Parts)
    BY <1>1 DEF RequestRecord
  <2> QED
    BY <2>1, BodySplits DEF NextPart
<1>4. request \in [Requests -> RequestRecord]
  BY DEF TypeInv, TypeOK
<1>5. UNCHANGED <<kindOf, owners, pcs, learned, history>>
  BY DEF NextPart, Finish
<1>6. CASE row[q.owner][Head(q.rest)] # 0
  BY <1>1, <1>2, <1>3, <1>5, <1>6 DEF NextPart, Finish
<1>7. CASE row[q.owner][Head(q.rest)] = 0
  <2>1. InsertPart(q.owner, Head(q.rest))
    BY <1>7 DEF NextPart, CreateNpcPart, CreateRule, CreateInventory, CreateEquipment,
    CreateMonsterPart, CreateTrait, CreateAffinity, CreateAction, InsertInto, CreateRelation
  <2>2. request' = [request EXCEPT ![r].rest = Tail(@)]
    BY <1>7 DEF NextPart
  <2>3. request' = [request EXCEPT ![r] = [q EXCEPT !.rest = Tail(q.rest)]]
    BY <1>4, <2>2
  <2> QED
    BY <1>1, <1>2, <1>3, <1>5, <2>1, <2>3
<1> QED
  BY <1>6, <1>7

\* The batch of a PATCH, for an NPC or a monster.
LEMMA PatchBatchEffect ==
    ASSUME TypeInv, NEW r \in Requests, PatchBatch(r)
    PROVE  LET q == request[r] IN
           /\ q \in RequestRecord /\ q.next = "patch:batch"
           /\ q.owner \in Owners /\ kindOf[q.owner] # "faction"
           /\ UNCHANGED <<kindOf, owners, pcs>>
           /\ \/ /\ request' = [request EXCEPT ![r] = Idle]
                 /\ UNCHANGED <<row, lastId, learned, history>>
              \/ /\ kindOf[q.owner] = "npc" /\ Answer(r) /\ UNCHANGED <<lastId, learned>>
                 /\ row' = [row EXCEPT ![q.owner] =
                               [p \in Parts |-> IF p \in Range(q.rest) THEN 1 ELSE 0]]
              \/ /\ kindOf[q.owner] = "monster" /\ Answer(r)
                 /\ UpdateMonsterWithRelations(q.owner, q.rest)
<1> DEFINE q == request[r]
<1>1. q \in RequestRecord /\ q.next = "patch:batch" /\ q.owner \in Owners
  BY DEF TypeInv, TypeOK, FieldsAreSet, PatchBatch, At, Writing
<1>2. kindOf[q.owner] # "faction"
  BY <1>1 DEF TypeInv, FieldsAreSet
<1>3. UNCHANGED <<kindOf, owners, pcs>>
  BY DEF PatchBatch
<1>4. CASE IsInjective(q.rest)
  BY <1>1, <1>2, <1>3, <1>4
     DEF PatchBatch, UpdateNpcWithRelations, UpdateMonsterWithRelations
<1>5. CASE ~IsInjective(q.rest)
  BY <1>1, <1>2, <1>3, <1>5 DEF PatchBatch, Finish
<1> QED
  BY <1>4, <1>5

\* A request that goes on, or starts, keeps every type when it changes nothing else.
LEMMA RequestTyped ==
    ASSUME TypeInv, NEW r \in Requests, request' \in [Requests -> RequestRecord],
           OtherRequestsAlike(r), FieldsAreSet(request'[r]), UNCHANGED kindOf,
           RowsTyped', owners' \subseteq Owners, pcs' \subseteq Pcs,
           learned' \subseteq Pcs \X (1..MaxId),
           answered' \in [Owners -> SUBSET Parts], settled' \subseteq Owners
    PROVE  TypeInv'
<1>1. (\A s \in Requests : FieldsAreSet(request[s]))'
  BY FieldsStay
<1> QED
  BY <1>1 DEF TypeInv, TypeOK, RowsTyped

\* A request that changes nothing but itself.
LEMMA LocalTyped ==
    ASSUME TypeInv, NEW r \in Requests, request' \in [Requests -> RequestRecord],
           OtherRequestsAlike(r), FieldsAreSet(request'[r]),
           UNCHANGED <<kindOf, tables, history>>
    PROVE  TypeInv'
BY RequestTyped DEF TypeInv, TypeOK, RowsTyped, tables, history

LEMMA ContinueTyped ==
    ASSUME TypeInv, NEW r \in Requests, NEW n \in {"faction:part", "learn:insert"},
           request' = [request EXCEPT ![r].next = n],
           n = "faction:part" => request[r].next = "faction:delete"
    PROVE  /\ request' \in [Requests -> RequestRecord]
           /\ OtherRequestsAlike(r) /\ FieldsAreSet(request'[r])
<1>1. n \in NextCall
  BY DEF NextCall
<1>2. /\ request' \in [Requests -> RequestRecord]
      /\ request'[r] = [request[r] EXCEPT !.next = n]
      /\ OtherRequestsAlike(r)
  BY <1>1, ContinueEffect
<1>3. request[r] \in RequestRecord
  BY DEF TypeInv, TypeOK
<1>4. request'[r].next = n /\ request'[r].owner = request[r].owner
  BY <1>2, <1>3 DEF RequestRecord
<1> QED
  BY <1>2, <1>4 DEF TypeInv, FieldsAreSet, Writing

\* The handlers that have a request.
LEMMA StepsKeepTypes ==
    ASSUME TypeInv, NEW r \in Requests, Steps(r)
    PROVE  TypeInv'
<1>0. TypeOK /\ RowsTyped /\ request[r] \in RequestRecord /\ FieldsAreSet(request[r])
  BY DEF TypeInv, TypeOK, RowsTyped
<1>1. ASSUME NEW n \in {"post:part", "faction:part"}, NextPart(r, n)
      PROVE  TypeInv'
  <2> DEFINE q == request[r]
  <2>0. /\ q.next = n /\ q.owner \in Owners /\ q.rest # <<>>
        /\ UNCHANGED <<kindOf, owners, pcs, learned, history>>
    BY <1>1, NextPartEffect
  <2>1. CASE request' = [request EXCEPT ![r] = Idle] /\ UNCHANGED <<row, lastId>>
    BY <2>0, <2>1, FinishEffect, IdleHasFields, LocalTyped DEF tables
  <2>2. CASE /\ InsertPart(q.owner, Head(q.rest))
             /\ request' = [request EXCEPT ![r] = [q EXCEPT !.rest = Tail(q.rest)]]
    <3>1. Head(q.rest) \in Parts /\ Tail(q.rest) \in Seq(Parts)
      BY <1>0, <2>0, BodySplits DEF RequestRecord
    <3>2. RowsTyped'
      BY <2>0, <2>2, <3>1, InsertEffect
    <3>3. [q EXCEPT !.rest = Tail(q.rest)] \in RequestRecord
      BY <1>0, <3>1 DEF RequestRecord
    <3>4. FieldsAreSet([q EXCEPT !.rest = Tail(q.rest)])
      BY <1>0 DEF FieldsAreSet, RequestRecord
    <3>5. /\ request' \in [Requests -> RequestRecord]
          /\ OtherRequestsAlike(r) /\ FieldsAreSet(request'[r])
      BY <2>2, <3>3, <3>4, MoveEffect
    <3> QED
      BY <1>0, <2>0, <3>2, <3>5, RequestTyped DEF TypeOK, history
  <2> QED
    BY <1>1, <2>1, <2>2, NextPartEffect
<1>2. ASSUME NEW n \in {"post:part", "faction:part"}, AllInserted(r, n)
      PROVE  TypeInv'
  <2>1. request[r].next \in Writing /\ Answer(r) /\ UNCHANGED <<kindOf, tables>>
    BY <1>2 DEF AllInserted, At, Writing
  <2> QED
    BY <1>0, <2>1, AnswerEffect, FinishEffect, IdleHasFields, RequestTyped
       DEF tables, TypeOK, RowsTyped
<1>3. CASE PatchBatch(r)
  <2> DEFINE q == request[r]
  <2>0. /\ q.next = "patch:batch" /\ q.next \in Writing /\ q.owner \in Owners
        /\ UNCHANGED <<kindOf, owners, pcs>>
    BY <1>3, PatchBatchEffect DEF Writing
  <2>1. CASE /\ request' = [request EXCEPT ![r] = Idle]
             /\ UNCHANGED <<row, lastId, learned, history>>
    BY <2>0, <2>1, FinishEffect, IdleHasFields, LocalTyped DEF tables
  <2>2. ASSUME Answer(r), RowsTyped', learned' \subseteq learned
        PROVE  TypeInv'
    BY <1>0, <2>0, <2>2, AnswerEffect, FinishEffect, IdleHasFields, RequestTyped
       DEF TypeOK
  <2>3. q.rest \in Seq(Parts) /\ Range(q.rest) \in SUBSET Parts
    BY <1>0, BodyRange DEF RequestRecord
  <2>4. CASE /\ kindOf[q.owner] = "npc" /\ Answer(r) /\ UNCHANGED <<lastId, learned>>
             /\ row' = [row EXCEPT ![q.owner] =
                           [p \in Parts |-> IF p \in Range(q.rest) THEN 1 ELSE 0]]
    <3>1. RowsTyped'
      BY <1>0, <2>0, <2>3, <2>4, SetEffect DEF RowsTyped
    <3> QED
      BY <2>2, <2>4, <3>1
  <2>5. CASE /\ kindOf[q.owner] = "monster" /\ Answer(r)
             /\ UpdateMonsterWithRelations(q.owner, q.rest)
    <3>1. RowsTyped'
      BY <2>0, <2>3, <2>5, MonsterEffect
    <3>2. learned' \subseteq learned
      BY <2>5 DEF UpdateMonsterWithRelations
    <3> QED
      BY <2>2, <2>5, <3>1, <3>2
  <2> QED
    BY <1>3, <2>1, <2>4, <2>5, PatchBatchEffect
<1>4. CASE DeleteByFactionId(r)
  <2>1. /\ request[r].next = "faction:delete" /\ request[r].owner \in Owners
        /\ request' = [request EXCEPT ![r].next = "faction:part"]
        /\ row' = [row EXCEPT ![request[r].owner] = [p \in Parts |-> 0]]
        /\ UNCHANGED <<kindOf, owners, lastId, pcs, learned, history>>
    BY <1>0, <1>4 DEF DeleteByFactionId, Continue, At, FieldsAreSet, Writing
  <2>2. RowsTyped'
    <3>1. [p \in Parts |-> 0] \in [Parts -> 0..MaxId]
      BY SheetsAssumption
    <3> QED
      BY <1>0, <2>1, <3>1 DEF RowsTyped
  <2> QED
    BY <1>0, <2>1, <2>2, ContinueTyped, RequestTyped DEF TypeOK, history
<1>5. CASE LearnCheck(r)
  <2>1. CASE Continue(r, "learn:insert")
    BY <1>5, <2>1, ContinueTyped, LocalTyped DEF LearnCheck, Continue
  <2>2. CASE Finish(r)
    BY <1>5, <2>2, FinishEffect, IdleHasFields, LocalTyped DEF LearnCheck, Finish
  <2> QED
    BY <1>5, <2>1, <2>2 DEF LearnCheck
<1>6. CASE LearnInsert(r)
  <2>1. learned' \subseteq Pcs \X (1..MaxId)
    <3>1. Actions(Parts) \subseteq 1..MaxId
      BY <1>0, SheetsAssumption DEF Actions, RowsTyped
    <3> QED
      BY <1>0, <1>6, <3>1 DEF LearnInsert, TypeOK
  <2> QED
    BY <1>0, <1>6, <2>1, FinishEffect, IdleHasFields, RequestTyped
       DEF LearnInsert, Finish, history, TypeOK, RowsTyped
<1>7. CASE Abandon(r)
  BY <1>7, FinishEffect, IdleHasFields, LocalTyped DEF Abandon, Finish
<1> QED
  BY <1>1, <1>2, <1>3, <1>4, <1>5, <1>6, <1>7
     DEF Steps, PostPart, PostDone, PatchFactionPart, PatchFactionDone

\* The requests that start to write a list.
LEMMA WritesKeepTypes ==
    ASSUME TypeInv, NEW r \in Requests, NEW o \in Owners, Writes(r, o)
    PROVE  TypeInv'
<1>0. TypeOK /\ RowsTyped
  BY DEF TypeInv, TypeOK, RowsTyped
<1>1. PICK body \in Bodies :
        \/ PostNpc(r, o, body)
        \/ PostMonster(r, o, body)
        \/ StartPatch(r, o, body)
        \/ PatchFaction(r, o, body)
  BY DEF Writes
<1>2. body \in Seq(Parts)
  BY SheetsAssumption
<1>3. ASSUME NEW n \in Writing, StartWriting(r, o, n, body),
             n \in {"faction:delete", "faction:part"} => kindOf[o] = "faction",
             n = "patch:batch" => kindOf[o] # "faction"
      PROVE  /\ request' \in [Requests -> RequestRecord]
             /\ OtherRequestsAlike(r) /\ FieldsAreSet(request'[r])
  <2>1. /\ request' \in [Requests -> RequestRecord] /\ OtherRequestsAlike(r)
        /\ request'[r].next = n /\ request'[r].owner = o
    BY <1>2, <1>3, StartEffect
  <2> QED
    BY <1>3, <2>1 DEF FieldsAreSet
<1>4. ASSUME NEW k, PostOwner(r, o, k, body)
      PROVE  TypeInv'
  BY <1>0, <1>3, <1>4, RequestTyped
     DEF PostOwner, Writing, TypeOK, RowsTyped, history
<1>5. CASE StartPatch(r, o, body)
  BY <1>3, <1>5, LocalTyped DEF StartPatch, Writing
<1>6. CASE PatchFaction(r, o, body)
  BY <1>0, <1>3, <1>6, RequestTyped
     DEF PatchFaction, Writing, TypeOK, RowsTyped, tables
<1> QED
  BY <1>1, <1>4, <1>5, <1>6 DEF PostNpc, PostMonster

\* TypeOK with the owners of the requests that write is inductive.
THEOREM TypeInvariant == Spec => []TypeInv
<1>1. Init => TypeInv
  <2> SUFFICES ASSUME Init
               PROVE  TypeInv
    OBVIOUS
  <2>1. \A r \in Requests : FieldsAreSet(request[r])
    BY IdleHasFields DEF Init
  <2>2. kindOf \in [Owners -> SheetKinds] /\ 0 \in 0..MaxId
    BY SheetsAssumption DEF Init
  <2> QED
    BY <2>1, <2>2, IdleTyped DEF Init, TypeInv, TypeOK
<1>2. TypeInv /\ [Next]_vars => TypeInv'
  <2> SUFFICES ASSUME TypeInv, [Next]_vars
               PROVE  TypeInv'
    OBVIOUS
  <2>0. TypeOK /\ RowsTyped
    BY DEF TypeInv, TypeOK, RowsTyped
  <2>1. ASSUME NEW r \in Requests, NEW c \in Pcs, NEW id \in 1..MaxId, StartLearn(r, c, id)
        PROVE  TypeInv'
    <3> DEFINE q == [next |-> "learn:check", owner |-> None, list |-> {}, rest |-> <<>>,
                     alone |-> TRUE, pc |-> c, id |-> id]
    <3>1. /\ request' = [request EXCEPT ![r] = q]
          /\ UNCHANGED <<kindOf, tables, history>>
      BY <2>1 DEF StartLearn
    <3>2. id \in 0..MaxId /\ <<>> \in Seq(Parts) /\ {} \in SUBSET Parts
      BY SheetsAssumption
    <3>3. q \in RequestRecord /\ q.next = "learn:check"
      BY <3>2 DEF RequestRecord, NextCall
    <3> HIDE DEF q
    <3> QED
      BY <3>1, <3>3, MoveEffect, LocalTyped DEF FieldsAreSet, Writing
  <2>2. ASSUME NEW o \in Owners, NEW body \in Bodies, PostFaction(o, body)
        PROVE  TypeInv'
    <3>1. Range(body) \in SUBSET Parts
      BY BodyRange, SheetsAssumption
    <3>2. row' \in [Owners -> [Parts -> 0..MaxId]]
      BY <2>2, <3>1, SetEffect DEF PostFaction
    <3>3. answered' \in [Owners -> SUBSET Parts]
      BY <2>0, <2>2, <3>1 DEF PostFaction, TypeOK
    <3> QED
      BY <2>2, <3>2, <3>3 DEF PostFaction, TypeInv, TypeOK, FieldsAreSet
  <2>3. ASSUME NEW o \in Owners, NEW p \in Parts, AdminPart(o, p)
        PROVE  TypeInv'
    <3>1. RowsTyped'
      BY <2>3, InsertEffect DEF AdminPart, CreateNpcPart, CreateRule, CreateInventory, CreateEquipment,
    CreateMonsterPart, CreateTrait, CreateAffinity, CreateAction, InsertInto
    <3>2. answered' \in [Owners -> SUBSET Parts]
      <4>1. answered[o] \cup {p} \in SUBSET Parts
        BY <2>0 DEF TypeOK
      <4> QED
        BY <2>0, <2>3, <4>1 DEF AdminPart, TypeOK
    <3>3. /\ request' \in [Requests -> RequestRecord]
          /\ \A s \in Requests : Alike(request'[s], request[s])
      BY <2>3, DisturbEffect DEF AdminPart
    <3>4. UNCHANGED <<kindOf, owners, pcs, learned, settled>>
      BY <2>3 DEF AdminPart
    <3>5. (\A s \in Requests : FieldsAreSet(request[s]))'
      BY <3>3, <3>4 DEF Alike, FieldsAreSet, TypeInv
    <3> QED
      BY <2>0, <3>1, <3>2, <3>3, <3>4, <3>5 DEF RowsTyped, TypeInv, TypeOK
  <2>4. ASSUME NEW c \in Pcs, DeletePc(c)
        PROVE  TypeInv'
    BY <2>4 DEF DeletePc, history, TypeInv, TypeOK, FieldsAreSet
  <2>5. CASE UNCHANGED vars
    BY <2>5 DEF vars, tables, history, TypeInv, TypeOK, FieldsAreSet
  <2> QED
    BY <2>1, <2>2, <2>3, <2>4, <2>5, StepsKeepTypes, WritesKeepTypes DEF Next
<1> QED
  BY <1>1, <1>2, PTL DEF Spec

\* Every variable of Sheets keeps its type.
THEOREM TypeCorrect == Spec => []TypeOK
<1>1. TypeInv => TypeOK
  BY DEF TypeInv
<1> QED
  BY <1>1, TypeInvariant, PTL

----------------------------------------------------------------------------
(* The spells that PCs learn *)

\* monster_actions has no id twice, and none that sqlite_sequence has not given out.
UniqueIds ==
    /\ \A o \in Owners, p \in Parts : kindOf[o] = "monster" => row[o][p] <= lastId
    /\ \A o, x \in Owners, p, q \in Parts :
          /\ kindOf[o] = "monster" /\ kindOf[x] = "monster"
          /\ row[o][p] = row[x][q] /\ row[o][p] # 0
          => o = x /\ p = q

\* The id that LearnCheck found may be gone since, but names nothing else.
CheckedIsSpell ==
    \A r \in Requests : At(r, "learn:insert") =>
        request[r].id <= lastId /\ request[r].id \notin Actions(Parts \ Spells)

LearnInv == UniqueIds /\ CheckedIsSpell /\ LearnedSpellsExist

\* A statement that only takes rows away, which it takes from the PCs too, or gives
\* out new ids.
LEMMA RowsKeepLearnInv ==
    ASSUME TypeInv, TypeInv', LearnInv, RowsGrow, UNCHANGED <<kindOf, pcs>>,
           learned' \subseteq learned,
           \A x \in learned', o \in Owners, p \in Parts :
              kindOf[o] = "monster" /\ row[o][p] = x[2] => row'[o][p] = x[2],
           \A r \in Requests : request'[r].next = "learn:insert" =>
              request[r].next = "learn:insert" /\ request'[r].id = request[r].id
    PROVE  LearnInv'
<1>0. /\ row \in [Owners -> [Parts -> 0..MaxId]] /\ lastId \in Nat
      /\ row' \in [Owners -> [Parts -> 0..MaxId]] /\ lastId' \in Nat
      /\ MaxId \in Nat
      /\ Spells \subseteq Parts
      /\ learned \subseteq Pcs \X (1..MaxId)
  BY SheetsAssumption DEF TypeInv, TypeOK
<1>1. UniqueIds'
  <2>1. ASSUME NEW o \in Owners, NEW p \in Parts, kindOf[o] = "monster"
        PROVE  row'[o][p] <= lastId'
    BY <1>0, <2>1 DEF RowsGrow, LearnInv, UniqueIds
  <2>2. ASSUME NEW o \in Owners, NEW x \in Owners, NEW p \in Parts, NEW q \in Parts,
               kindOf[o] = "monster", kindOf[x] = "monster",
               row'[o][p] = row'[x][q], row'[o][p] # 0
        PROVE  o = x /\ p = q
    <3>1. CASE row'[o][p] > lastId
      BY <2>2, <3>1 DEF RowsGrow
    <3>2. CASE ~(row'[o][p] > lastId)
      <4>1. row'[o][p] = row[o][p] /\ row'[x][q] = row[x][q]
        BY <1>0, <2>2, <3>2 DEF RowsGrow
      <4>2. row[o][p] = row[x][q] /\ row[o][p] # 0
        BY <2>2, <4>1
      <4>3. UniqueIds
        BY DEF LearnInv
      <4> QED
        BY <2>2, <4>2, <4>3 DEF UniqueIds
    <3> QED
      BY <3>1, <3>2
  <2> QED
    BY <2>1, <2>2 DEF UniqueIds
<1>2. CheckedIsSpell'
  <2>1. ASSUME NEW r \in Requests, At(r, "learn:insert")'
        PROVE  (request[r].id <= lastId /\ request[r].id \notin Actions(Parts \ Spells))'
    <3> DEFINE id == request[r].id
    <3>0. /\ At(r, "learn:insert") /\ request'[r].id = id /\ id \in Nat
          /\ id <= lastId /\ id \notin Actions(Parts \ Spells)
      <4>1. request'[r].next = "learn:insert"
        BY <2>1 DEF At
      <4>2. At(r, "learn:insert") /\ request'[r].id = id
        BY <4>1 DEF At
      <4>3. request[r] \in RequestRecord
        BY DEF TypeInv, TypeOK
      <4>4. id \in Nat
        BY <4>3, SheetsAssumption DEF RequestRecord
      <4> QED
        BY <4>2, <4>4 DEF LearnInv, CheckedIsSpell
    <3>1. id <= lastId'
      BY <1>0, <3>0 DEF RowsGrow
    <3>2. ASSUME NEW o \in Owners, NEW p \in Parts \ Spells, kindOf[o] = "monster",
                 row'[o][p] = id, id # 0
          PROVE  FALSE
      <4>1. row[o][p] = id
        BY <1>0, <3>0, <3>2 DEF RowsGrow
      <4> QED
        BY <3>0, <3>2, <4>1 DEF Actions
    <3> QED
      BY <3>0, <3>1, <3>2 DEF Actions
  <2> QED
    BY <2>1 DEF CheckedIsSpell
<1>3. LearnedSpellsExist'
  <2>1. ASSUME NEW x \in learned'
        PROVE  x[1] \in pcs' /\ x[2] \in Actions(Spells)'
    <3>1. x[1] \in pcs /\ x[2] \in Actions(Spells) /\ x[2] # 0
      BY <1>0 DEF LearnInv, LearnedSpellsExist
    <3>2. PICK o \in Owners, p \in Spells : kindOf[o] = "monster" /\ row[o][p] = x[2]
      BY <3>1 DEF Actions
    <3>3. row'[o][p] = x[2]
      BY <1>0, <3>2
    <3> QED
      BY <3>1, <3>2, <3>3 DEF Actions
  <2> QED
    BY <2>1 DEF LearnedSpellsExist
<1> QED
  BY <1>1, <1>2, <1>3 DEF LearnInv

\* A statement that leaves monster_actions alone.
LEMMA OthersKeepLearnInv ==
    ASSUME TypeInv, TypeInv', LearnInv, UNCHANGED <<kindOf, pcs, lastId>>,
           \A o \in Owners : kindOf[o] = "monster" => row'[o] = row[o],
           learned' \subseteq learned,
           \A r \in Requests : request'[r].next = "learn:insert" =>
              request[r].next = "learn:insert" /\ request'[r].id = request[r].id
    PROVE  LearnInv'
<1>1. /\ row \in [Owners -> [Parts -> 0..MaxId]] /\ lastId \in Nat /\ MaxId \in Nat
  BY SheetsAssumption DEF TypeInv, TypeOK
<1>2. RowsGrow
  BY <1>1 DEF RowsGrow, LearnInv, UniqueIds
<1> QED
  BY <1>2, RowsKeepLearnInv

\* One INSERT into monster_actions, or elsewhere.
LEMMA InsertKeepsLearnInv ==
    ASSUME TypeInv, TypeInv', LearnInv, NEW o \in Owners, NEW p \in Parts,
           InsertPart(o, p), UNCHANGED <<kindOf, pcs, learned>>,
           \A r \in Requests : request'[r].next = "learn:insert" =>
              request[r].next = "learn:insert" /\ request'[r].id = request[r].id
    PROVE  LearnInv'
<1>0. /\ row \in [Owners -> [Parts -> 0..MaxId]] /\ lastId \in Nat /\ MaxId \in Nat
      /\ learned \subseteq Pcs \X (1..MaxId)
  BY SheetsAssumption DEF TypeInv, TypeOK
<1>1. /\ row[o][p] = 0
      /\ \A q \in Parts \ {p} : row'[o][q] = row[o][q]
      /\ OtherRowsStay(o)
      /\ kindOf[o] = "monster" => row'[o][p] = lastId + 1 /\ lastId' = lastId + 1
      /\ kindOf[o] # "monster" => UNCHANGED lastId
  BY InsertEffect
<1>2. CASE kindOf[o] = "monster"
  <2>1. \A x \in Owners, q \in Parts : row'[x][q] = row[x][q] \/ (x = o /\ q = p)
    BY <1>1 DEF OtherRowsStay
  <2>2. RowsGrow
    BY <1>0, <1>1, <1>2, <2>1 DEF RowsGrow, LearnInv, UniqueIds
  <2>3. \A x \in learned', y \in Owners, q \in Parts :
           kindOf[y] = "monster" /\ row[y][q] = x[2] => row'[y][q] = x[2]
    BY <1>0, <1>1, <2>1
  <2> QED
    BY <2>2, <2>3, RowsKeepLearnInv
<1>3. CASE kindOf[o] # "monster"
  BY <1>1, <1>3, OthersKeepLearnInv DEF OtherRowsStay
<1> QED
  BY <1>2, <1>3

\* The batch of a monster.
LEMMA BatchKeepsLearnInv ==
    ASSUME TypeInv, TypeInv', LearnInv, NEW o \in Owners, NEW body \in Seq(Parts),
           kindOf[o] = "monster", UpdateMonsterWithRelations(o, body),
           UNCHANGED <<kindOf, pcs>>,
           \A r \in Requests : request'[r].next = "learn:insert" =>
              request[r].next = "learn:insert" /\ request'[r].id = request[r].id
    PROVE  LearnInv'
<1>0. /\ row \in [Owners -> [Parts -> 0..MaxId]] /\ lastId \in Nat /\ MaxId \in Nat
      /\ Len(body) \in Nat /\ row' \in [Owners -> [Parts -> 0..MaxId]]
      /\ learned \subseteq Pcs \X (1..MaxId)
  BY SheetsAssumption DEF TypeInv, TypeOK
<1>1. /\ OtherRowsStay(o)
      /\ lastId' = lastId + Len(body)
      /\ \A p \in Parts : row'[o][p] # 0 =>
            \E i \in 1..Len(body) : body[i] = p /\ row'[o][p] = lastId + i
  BY MonsterEffect
<1>2. RowsGrow
  <2>1. lastId' >= lastId
    BY <1>0, <1>1
  <2>2. ASSUME NEW x \in Owners, NEW p \in Parts, kindOf[x] = "monster"
        PROVE  row'[x][p] \in {0, row[x][p]} \cup ((lastId + 1)..lastId')
    <3>1. CASE x = o
      <4>1. CASE row'[o][p] = 0
        BY <3>1, <4>1
      <4>2. CASE row'[o][p] # 0
        BY <1>0, <1>1, <3>1, <4>2
      <4> QED
        BY <4>1, <4>2
    <3>2. CASE x # o
      BY <1>1, <3>2 DEF OtherRowsStay
    <3> QED
      BY <3>1, <3>2
  <2>3. ASSUME NEW x \in Owners, NEW p \in Parts, kindOf[x] = "monster",
               row'[x][p] > lastId
        PROVE  x = o
    BY <1>0, <1>1, <2>3 DEF OtherRowsStay, LearnInv, UniqueIds
  <2>4. ASSUME NEW p \in Parts, NEW q \in Parts,
               row'[o][p] = row'[o][q], row'[o][p] > lastId
        PROVE  p = q
    <3>1. row'[o][p] # 0
      BY <1>0, <2>4
    <3>2. PICK i \in 1..Len(body) : body[i] = p /\ row'[o][p] = lastId + i
      BY <1>1, <3>1
    <3>3. PICK j \in 1..Len(body) : body[j] = q /\ row'[o][q] = lastId + j
      BY <1>1, <2>4, <3>1
    <3>4. i = j
      <4>1. lastId + i = lastId + j
        BY <2>4, <3>2, <3>3, Zenon
      <4>2. lastId \in Int /\ i \in Int /\ j \in Int
        BY <1>0
      <4> QED
        BY <4>1, <4>2
    <3> QED
      BY <3>2, <3>3, <3>4
  <2> QED
    BY <2>1, <2>2, <2>3, <2>4 DEF RowsGrow
<1>3. learned' = {x \in learned : x[2] \notin {row[o][p] : p \in Parts}}
  BY DEF UpdateMonsterWithRelations
<1>4. ASSUME NEW x \in learned', NEW y \in Owners, NEW p \in Parts, row[y][p] = x[2]
      PROVE  row'[y][p] = x[2]
  <2>1. y # o
    BY <1>3, <1>4
  <2> QED
    BY <1>1, <1>4, <2>1 DEF OtherRowsStay
<1> QED
  BY <1>2, <1>3, <1>4, RowsKeepLearnInv

\* A request of another kind than learning.
LEMMA NotLearning ==
    ASSUME TypeInv, NEW r \in Requests, OtherRequestsAlike(r),
           request'[r].next # "learn:insert"
    PROVE  \A s \in Requests : request'[s].next = "learn:insert" =>
              request[s].next = "learn:insert" /\ request'[s].id = request[s].id
BY DEF OtherRequestsAlike, Alike

LEMMA FinishNotLearning ==
    ASSUME TypeInv, NEW r \in Requests, request' = [request EXCEPT ![r] = Idle]
    PROVE  \A s \in Requests : request'[s].next = "learn:insert" =>
              request[s].next = "learn:insert" /\ request'[s].id = request[s].id
BY FinishEffect, IdleTyped, NotLearning

\* The handlers that have a request.
LEMMA StepsKeepLearnInv ==
    ASSUME TypeInv, TypeInv', LearnInv, NEW r \in Requests, Steps(r)
    PROVE  LearnInv'
<1> DEFINE StillLearning ==
             \A s \in Requests : request'[s].next = "learn:insert" =>
                request[s].next = "learn:insert" /\ request'[s].id = request[s].id
<1>0. request[r] \in RequestRecord /\ MaxId \in Nat /\ row \in [Owners -> [Parts -> 0..MaxId]]
  BY SheetsAssumption DEF TypeInv, TypeOK
<1>1. ASSUME NEW n \in {"post:part", "faction:part"}, NextPart(r, n)
      PROVE  LearnInv'
  <2> DEFINE q == request[r]
  <2>0. /\ q.next = n /\ q.owner \in Owners /\ q.rest # <<>> /\ Head(q.rest) \in Parts
        /\ UNCHANGED <<kindOf, owners, pcs, learned, history>>
    BY <1>1, NextPartEffect
  <2>1. CASE request' = [request EXCEPT ![r] = Idle] /\ UNCHANGED <<row, lastId>>
    BY <2>0, <2>1, FinishNotLearning, OthersKeepLearnInv
  <2>2. CASE /\ InsertPart(q.owner, Head(q.rest))
             /\ request' = [request EXCEPT ![r] = [q EXCEPT !.rest = Tail(q.rest)]]
    <3>1. Tail(q.rest) \in Seq(Parts)
      BY <1>0, <2>0, BodySplits DEF RequestRecord
    <3>2. /\ [q EXCEPT !.rest = Tail(q.rest)] \in RequestRecord
          /\ [q EXCEPT !.rest = Tail(q.rest)].next = n
      BY <1>0, <2>0, <3>1 DEF RequestRecord
    <3>3. StillLearning
      BY <2>2, <3>2, MoveEffect, NotLearning
    <3> QED
      BY <2>0, <2>2, <3>3, InsertKeepsLearnInv
  <2> QED
    BY <1>1, <2>1, <2>2, NextPartEffect
<1>2. ASSUME NEW n \in {"post:part", "faction:part"}, AllInserted(r, n)
      PROVE  LearnInv'
  BY <1>2, FinishNotLearning, OthersKeepLearnInv DEF AllInserted, Answer, tables
<1>3. CASE PatchBatch(r)
  <2> DEFINE q == request[r]
  <2>0. q.owner \in Owners /\ UNCHANGED <<kindOf, owners, pcs>>
    BY <1>3, PatchBatchEffect
  <2>1. StillLearning
    BY <1>3, PatchBatchEffect, FinishNotLearning DEF Answer
  <2>2. q.rest \in Seq(Parts)
    BY <1>0 DEF RequestRecord
  <2>3. CASE UNCHANGED <<row, lastId, learned>>
    BY <2>0, <2>1, <2>3, OthersKeepLearnInv
  <2>4. CASE /\ kindOf[q.owner] = "npc" /\ UNCHANGED <<lastId, learned>>
             /\ row' = [row EXCEPT ![q.owner] =
                           [p \in Parts |-> IF p \in Range(q.rest) THEN 1 ELSE 0]]
    BY <1>0, <2>0, <2>1, <2>4, OthersKeepLearnInv
  <2>5. CASE kindOf[q.owner] = "monster" /\ UpdateMonsterWithRelations(q.owner, q.rest)
    BY <2>0, <2>1, <2>2, <2>5, BatchKeepsLearnInv
  <2> QED
    BY <1>3, <2>3, <2>4, <2>5, PatchBatchEffect
<1>4. CASE DeleteByFactionId(r)
  <2>1. /\ kindOf[request[r].owner] = "faction"
        /\ request' = [request EXCEPT ![r].next = "faction:part"]
        /\ row' = [row EXCEPT ![request[r].owner] = [p \in Parts |-> 0]]
        /\ UNCHANGED <<kindOf, lastId, pcs, learned>>
    BY <1>4 DEF DeleteByFactionId, Continue, At, TypeInv, FieldsAreSet
  <2>2. StillLearning
    <3>1. /\ request'[r] = [request[r] EXCEPT !.next = "faction:part"]
          /\ OtherRequestsAlike(r)
      BY <2>1, ContinueEffect DEF NextCall
    <3>2. request'[r].next = "faction:part"
      BY <1>0, <3>1 DEF RequestRecord
    <3> QED
      BY <3>1, <3>2, NotLearning
  <2>3. \A o \in Owners : kindOf[o] = "monster" => row'[o] = row[o]
    BY <1>0, <2>1
  <2> QED
    BY <2>1, <2>2, <2>3, OthersKeepLearnInv
<1>5. CASE LearnCheck(r)
  <2>1. CASE Finish(r)
    BY <1>5, <2>1, FinishNotLearning, OthersKeepLearnInv DEF LearnCheck, Finish, tables
  <2>2. CASE request[r].id \in Actions(Spells) /\ Continue(r, "learn:insert")
    <3>0. UNCHANGED <<kindOf, tables>> /\ UniqueIds
      BY <1>5 DEF LearnCheck, IsMonsterSpell, LearnInv
    <3>1. /\ request'[r] = [request[r] EXCEPT !.next = "learn:insert"]
          /\ \A s \in Requests \ {r} : request'[s] = request[s]
      BY <2>2, ContinueEffect DEF Continue, NextCall
    <3>2. request'[r].id = request[r].id
      BY <1>0, <3>1 DEF RequestRecord
    <3>3. PICK o \in Owners, p \in Spells :
             kindOf[o] = "monster" /\ row[o][p] = request[r].id /\ request[r].id # 0
      BY <2>2 DEF Actions
    <3>4. p \in Parts
      BY SheetsAssumption
    <3>5. request[r].id <= lastId
      BY <3>0, <3>3, <3>4 DEF UniqueIds
    <3>6. request[r].id \notin Actions(Parts \ Spells)
      <4>1. ASSUME NEW x \in Owners, NEW y \in Parts \ Spells, kindOf[x] = "monster",
                   row[x][y] = request[r].id
            PROVE  FALSE
        BY <3>0, <3>3, <3>4, <4>1 DEF UniqueIds
      <4> QED
        BY <4>1 DEF Actions
    <3>7. CheckedIsSpell'
      <4>1. ASSUME NEW s \in Requests, At(s, "learn:insert")'
            PROVE  (request[s].id <= lastId
                      /\ request[s].id \notin Actions(Parts \ Spells))'
        <5>1. CASE s = r
          BY <3>0, <3>2, <3>5, <3>6, <5>1 DEF tables, Actions
        <5>2. CASE s # r
          BY <3>0, <3>1, <4>1, <5>2 DEF tables, Actions, At, LearnInv, CheckedIsSpell
        <5> QED
          BY <5>1, <5>2
      <4> QED
        BY <4>1 DEF CheckedIsSpell
    <3> QED
      BY <3>0, <3>7 DEF tables, LearnInv, UniqueIds, LearnedSpellsExist, Actions
  <2> QED
    BY <1>5, <2>1, <2>2 DEF LearnCheck, IsMonsterSpell
<1>6. CASE LearnInsert(r)
  <2> DEFINE c == request[r].pc
             id == request[r].id
  <2>0. /\ UNCHANGED <<kindOf, owners, row, lastId, pcs>>
        /\ request' = [request EXCEPT ![r] = Idle]
        /\ At(r, "learn:insert")
        /\ learned' = IF c \in pcs /\ id \in Actions(Parts)
                         THEN learned \cup {<<c, id>>} ELSE learned
    BY <1>6 DEF LearnInsert, Finish
  <2>1. CheckedIsSpell'
    <3>1. StillLearning
      BY <2>0, FinishNotLearning
    <3>2. Actions(Parts \ Spells)' = Actions(Parts \ Spells)
      BY <2>0 DEF Actions
    <3>3. CheckedIsSpell
      BY DEF LearnInv
    <3> QED
      BY <2>0, <3>1, <3>2, <3>3 DEF CheckedIsSpell, At
  <2>2. id \in Actions(Parts) => id \in Actions(Spells)
    BY <2>0 DEF LearnInv, CheckedIsSpell, Actions
  <2>3. LearnedSpellsExist'
    <3>1. \A x \in learned' : x[1] \in pcs /\ x[2] \in Actions(Spells)
      BY <2>0, <2>2 DEF LearnInv, LearnedSpellsExist
    <3>2. Actions(Spells)' = Actions(Spells)
      BY <2>0 DEF Actions
    <3> QED
      BY <2>0, <3>1, <3>2 DEF LearnedSpellsExist
  <2> QED
    BY <2>0, <2>1, <2>3 DEF LearnInv, UniqueIds
<1>7. CASE Abandon(r)
  BY <1>7, FinishNotLearning, OthersKeepLearnInv DEF Abandon, Finish, tables
<1> QED
  BY <1>1, <1>2, <1>3, <1>4, <1>5, <1>6, <1>7
     DEF Steps, PostPart, PostDone, PatchFactionPart, PatchFactionDone

\* UniqueIds is what makes LearnedSpellsExist inductive: an id that LearnCheck has
\* found may be deleted before the INSERT, but not given to another action.
THEOREM LearningInvariant == Spec => []LearnInv
<1>1. Init => LearnInv
  <2> SUFFICES ASSUME Init
               PROVE  LearnInv
    OBVIOUS
  <2>1. \A o \in Owners, p \in Parts : row[o][p] = 0
    BY DEF Init
  <2>2. UniqueIds
    BY <2>1 DEF Init, UniqueIds
  <2>3. CheckedIsSpell
    BY IdleTyped DEF Init, CheckedIsSpell, At
  <2> QED
    BY <2>2, <2>3 DEF Init, LearnInv, LearnedSpellsExist
<1>2. TypeInv /\ TypeInv' /\ LearnInv /\ [Next]_vars => LearnInv'
  <2> SUFFICES ASSUME TypeInv, TypeInv', LearnInv, [Next]_vars
               PROVE  LearnInv'
    OBVIOUS
  <2>0. row \in [Owners -> [Parts -> 0..MaxId]] /\ request \in [Requests -> RequestRecord]
    BY DEF TypeInv, TypeOK
  <2>1. ASSUME NEW r \in Requests, NEW o \in Owners, Writes(r, o)
        PROVE  LearnInv'
    <3>1. PICK body \in Bodies :
            \/ PostNpc(r, o, body)
            \/ PostMonster(r, o, body)
            \/ StartPatch(r, o, body)
            \/ PatchFaction(r, o, body)
      BY <2>1 DEF Writes
    <3>2. PICK n \in Writing : StartWriting(r, o, n, body)
      BY <3>1 DEF PostNpc, PostMonster, PostOwner, StartPatch, PatchFaction, Writing
    <3>3. request'[r].next = n /\ OtherRequestsAlike(r)
      BY <3>2, StartEffect, SheetsAssumption
    <3>4. UNCHANGED <<kindOf, row, lastId, pcs, learned>>
      BY <3>1 DEF PostNpc, PostMonster, PostOwner, StartPatch, PatchFaction, tables
    <3> QED
      BY <3>3, <3>4, NotLearning, OthersKeepLearnInv DEF Writing
  <2>2. ASSUME NEW r \in Requests, NEW c \in Pcs, NEW id \in 1..MaxId, StartLearn(r, c, id)
        PROVE  LearnInv'
    <3>1. /\ UNCHANGED <<kindOf, row, lastId, pcs, learned>>
          /\ request'[r].next = "learn:check"
          /\ \A s \in Requests \ {r} : request'[s] = request[s]
      BY <2>0, <2>2 DEF StartLearn, tables
    <3>2. \A s \in Requests : request'[s].next = "learn:insert" =>
             request[s].next = "learn:insert" /\ request'[s].id = request[s].id
      BY <3>1
    <3> QED
      BY <3>1, <3>2, OthersKeepLearnInv
  <2>3. ASSUME NEW o \in Owners, NEW body \in Bodies, PostFaction(o, body)
        PROVE  LearnInv'
    <3>1. \A x \in Owners : kindOf[x] = "monster" => row'[x] = row[x]
      BY <2>0, <2>3 DEF PostFaction
    <3> QED
      BY <2>3, <3>1, OthersKeepLearnInv DEF PostFaction
  <2>4. ASSUME NEW o \in Owners, NEW p \in Parts, AdminPart(o, p)
        PROVE  LearnInv'
    <3>1. InsertPart(o, p) /\ UNCHANGED <<kindOf, pcs, learned>>
      BY <2>4 DEF AdminPart, CreateNpcPart, CreateRule, CreateInventory, CreateEquipment,
    CreateMonsterPart, CreateTrait, CreateAffinity, CreateAction, InsertInto
    <3>2. \A s \in Requests : request'[s].next = "learn:insert" =>
             request[s].next = "learn:insert" /\ request'[s].id = request[s].id
      BY <2>4, DisturbEffect DEF AdminPart, Alike
    <3> QED
      BY <3>1, <3>2, InsertKeepsLearnInv
  <2>5. ASSUME NEW c \in Pcs, DeletePc(c)
        PROVE  LearnInv'
    BY <2>5 DEF DeletePc, LearnInv, UniqueIds, CheckedIsSpell, LearnedSpellsExist, Actions, At
  <2>6. CASE UNCHANGED vars
    BY <2>6, OthersKeepLearnInv DEF vars, tables
  <2> QED
    BY <2>1, <2>2, <2>3, <2>4, <2>5, <2>6, StepsKeepLearnInv DEF Next
<1> QED
  BY <1>1, <1>2, TypeInvariant, PTL DEF Spec

\* Whatever a PC has learned is a spell on the list of some monster, whatever was
\* updated or deleted between the check and the INSERT.
THEOREM LearnedSpellsAreThere == Spec => []LearnedSpellsExist
<1>1. LearnInv => LearnedSpellsExist
  BY DEF LearnInv
<1> QED
  BY <1>1, LearningInvariant, PTL

----------------------------------------------------------------------------
(* What a success leaves stored *)

\* How far a request has come with its list.
Progress(q) ==
    /\ q.next \in {"patch:batch", "faction:delete"} => q.list = Range(q.rest)
    /\ q.next \in {"post:part", "faction:part"} /\ q.alone =>
          q.list = List(q.owner) \cup Range(q.rest)

OwnersAreRows ==
    /\ settled \subseteq owners
    /\ \A o \in Owners \ owners : List(o) = {}
    /\ \A r \in Requests : request[r].next \in Writing => request[r].owner \in owners

\* Who is alone writes the list alone.
AloneIsOne ==
    \A r, s \in Requests :
        /\ request[r].next \in Writing /\ request[s].next \in Writing
        /\ request[r].owner = request[s].owner /\ request[r].alone
        => r = s

\* A list that is written call by call is not settled.
PartialIsUnsettled ==
    \A r \in Requests :
        request[r].next \in {"post:part", "faction:delete", "faction:part"} =>
            request[r].owner \notin settled

StoredInv ==
    /\ OwnersAreRows
    /\ AloneIsOne
    /\ PartialIsUnsettled
    /\ \A r \in Requests : Progress(request[r])
    /\ AnsweredIsStored

\* The others come no further when a request writes, and do not when it is not there.
LEMMA OthersProgress ==
    ASSUME TypeInv, StoredInv, NEW r \in Requests, request[r].next \in Writing,
           OtherRowsStay(request[r].owner), OtherRequestsAlike(r)
    PROVE  \A s \in Requests \ {r} : Progress(request[s])'
<1> SUFFICES ASSUME NEW s \in Requests \ {r}
             PROVE  Progress(request[s])'
  OBVIOUS
<1>1. Alike(request'[s], request[s]) /\ Progress(request[s])
  BY DEF OtherRequestsAlike, StoredInv
<1>2. /\ request'[s].next = request[s].next /\ request'[s].owner = request[s].owner
      /\ request'[s].list = request[s].list /\ request'[s].rest = request[s].rest
      /\ request'[s].alone => request[s].alone
  BY <1>1 DEF Alike
<1>3. ASSUME request[s].next \in {"post:part", "faction:part"}, request[s].alone
      PROVE  row'[request[s].owner] = row[request[s].owner]
  <2>1. request[s].next \in Writing
    BY <1>3 DEF Writing
  <2>2. request[s].owner # request[r].owner
    BY <1>3, <2>1 DEF StoredInv, AloneIsOne
  <2>3. request[s].owner \in Owners
    BY <2>1 DEF TypeInv, FieldsAreSet
  <2> QED
    BY <2>2, <2>3 DEF OtherRowsStay
<1> QED
  BY <1>1, <1>2, <1>3 DEF Progress, List

\* A request that writes, and goes on to write the same list or ends, stays the only
\* one if it was.
LEMMA MoveKeepsAlone ==
    ASSUME TypeInv, StoredInv, NEW r \in Requests, OtherRequestsAlike(r),
           \/ request'[r].next \notin Writing
           \/ /\ request'[r].next \in Writing /\ request[r].next \in Writing
              /\ request'[r].owner = request[r].owner
              /\ request'[r].alone => request[r].alone
    PROVE  AloneIsOne'
<1> SUFFICES ASSUME NEW s \in Requests, NEW t \in Requests,
                    request'[s].next \in Writing, request'[t].next \in Writing,
                    request'[s].owner = request'[t].owner, request'[s].alone
             PROVE  s = t
  BY DEF AloneIsOne
<1>1. ASSUME NEW x \in Requests, request'[x].next \in Writing
      PROVE  /\ request[x].next \in Writing
             /\ request'[x].owner = request[x].owner
             /\ request'[x].alone => request[x].alone
  BY <1>1 DEF OtherRequestsAlike, Alike
<1>2. /\ request[s].next \in Writing /\ request[t].next \in Writing
      /\ request[s].owner = request[t].owner /\ request[s].alone
  BY <1>1
<1>3. AloneIsOne
  BY DEF StoredInv
<1> QED
  BY <1>2, <1>3 DEF AloneIsOne

\* A request that starts, or ends, and changes no list.
LEMMA QuietKeepsStored ==
    ASSUME TypeInv, StoredInv, NEW r \in Requests, OtherRequestsAlike(r),
           request'[r].next \notin Writing, UNCHANGED <<owners, row, history>>
    PROVE  StoredInv'
<1>1. AloneIsOne'
  BY MoveKeepsAlone
<1>2. \A o : List(o)' = List(o)
  BY DEF List
<1>3. ASSUME NEW s \in Requests, request'[s].next \in Writing
      PROVE  Alike(request'[s], request[s])
  BY <1>3 DEF OtherRequestsAlike
<1>4. OwnersAreRows'
  BY <1>2, <1>3 DEF StoredInv, OwnersAreRows, Alike, history
<1>5. PartialIsUnsettled'
  BY <1>3 DEF StoredInv, PartialIsUnsettled, Alike, history, Writing
<1>6. ASSUME NEW s \in Requests
      PROVE  Progress(request[s])'
  <2>1. CASE request'[s].next \in Writing
    <3>1. Alike(request'[s], request[s]) /\ Progress(request[s])
      BY <1>3, <2>1 DEF StoredInv
    <3> QED
      BY <1>2, <3>1 DEF Alike, Progress
  <2>2. CASE request'[s].next \notin Writing
    BY <2>2 DEF Progress, Writing
  <2> QED
    BY <2>1, <2>2
<1>7. AnsweredIsStored'
  BY <1>2 DEF StoredInv, AnsweredIsStored, history
<1> QED
  BY <1>1, <1>4, <1>5, <1>6, <1>7 DEF StoredInv

LEMMA FinishKeepsStored ==
    ASSUME TypeInv, StoredInv, NEW r \in Requests,
           request' = [request EXCEPT ![r] = Idle], UNCHANGED <<owners, row, history>>
    PROVE  StoredInv'
BY FinishEffect, IdleTyped, QuietKeepsStored DEF Writing

\* A part of the list of a request, or its whole list, is written and the answer is
\* still to come.
LEMMA PartialKeepsStored ==
    ASSUME TypeInv, StoredInv, NEW r \in Requests,
           request[r].next \in {"post:part", "faction:delete", "faction:part"},
           OtherRequestsAlike(r),
           request'[r].next \in {"post:part", "faction:part"},
           request'[r].owner = request[r].owner,
           request'[r].alone => request[r].alone,
           Progress(request[r])', OtherRowsStay(request[r].owner),
           UNCHANGED <<owners, history>>
    PROVE  StoredInv'
<1> DEFINE o == request[r].owner
<1>0. o \in Owners /\ o \in owners /\ o \notin settled /\ request[r].next \in Writing
  BY DEF TypeInv, FieldsAreSet, Writing, StoredInv, OwnersAreRows, PartialIsUnsettled
<1>1. AloneIsOne'
  BY <1>0, MoveKeepsAlone DEF Writing
<1>2. \A x \in Owners \ {o} : List(x)' = List(x)
  BY DEF OtherRowsStay, List
<1>3. ASSUME NEW s \in Requests \ {r}
      PROVE  Alike(request'[s], request[s])
  BY DEF OtherRequestsAlike
<1>4. OwnersAreRows'
  <2>1. settled' \subseteq owners'
    BY DEF StoredInv, OwnersAreRows, history
  <2>2. \A x \in Owners \ owners : List(x)' = {}
    BY <1>0, <1>2 DEF StoredInv, OwnersAreRows
  <2>3. \A s \in Requests : request'[s].next \in Writing => request'[s].owner \in owners
    BY <1>0, <1>3 DEF StoredInv, OwnersAreRows, Alike
  <2> QED
    BY <2>1, <2>2, <2>3 DEF OwnersAreRows
<1>5. PartialIsUnsettled'
  BY <1>0, <1>3 DEF StoredInv, PartialIsUnsettled, Alike, history
<1>6. \A s \in Requests : Progress(request[s])'
  BY <1>0, OthersProgress
<1>7. AnsweredIsStored'
  <2>1. \A x \in settled : x \in Owners /\ x # o
    BY <1>0 DEF TypeInv, TypeOK
  <2> QED
    BY <1>2, <2>1 DEF StoredInv, AnsweredIsStored, history
<1> QED
  BY <1>1, <1>4, <1>5, <1>6, <1>7 DEF StoredInv

\* A request is answered, and its list is stored if it was alone or had one batch.
LEMMA AnswerKeepsStored ==
    ASSUME TypeInv, StoredInv, NEW r \in Requests, request[r].next \in Writing,
           NEW o \in Owners, request[r].owner = o,
           Answer(r), OtherRowsStay(o), UNCHANGED owners,
           request[r].alone \/ request[r].next = "patch:batch" =>
              List(o)' = request[r].list
    PROVE  StoredInv'
<1>0. o \in owners
  BY DEF StoredInv, OwnersAreRows
<1>1. /\ request' = [request EXCEPT ![r] = Idle]
      /\ answered'[o] = request[r].list
      /\ \A x \in Owners \ {o} : answered'[x] = answered[x]
      /\ settled' = IF request[r].alone THEN settled \cup {o} ELSE settled
  BY AnswerEffect
<1>2. OtherRequestsAlike(r) /\ request'[r].next \notin Writing
  BY <1>1, FinishEffect, IdleTyped DEF Writing
<1>3. AloneIsOne'
  BY <1>2, MoveKeepsAlone
<1>4. \A x \in Owners \ {o} : List(x)' = List(x)
  BY DEF OtherRowsStay, List
<1>5. ASSUME NEW s \in Requests, request'[s].next \in Writing
      PROVE  s # r /\ Alike(request'[s], request[s]) /\ request[s].next \in Writing
  BY <1>2, <1>5 DEF OtherRequestsAlike, Alike
<1>6. OwnersAreRows'
  <2>1. settled' \subseteq owners'
    BY <1>0, <1>1 DEF StoredInv, OwnersAreRows
  <2>2. \A x \in Owners \ owners : List(x)' = {}
    BY <1>0, <1>4 DEF StoredInv, OwnersAreRows
  <2>3. \A s \in Requests : request'[s].next \in Writing => request'[s].owner \in owners
    BY <1>5 DEF StoredInv, OwnersAreRows, Alike
  <2> QED
    BY <2>1, <2>2, <2>3 DEF OwnersAreRows
<1>7. PartialIsUnsettled'
  <2>1. ASSUME NEW s \in Requests,
               request'[s].next \in {"post:part", "faction:delete", "faction:part"}
        PROVE  request'[s].owner \notin settled'
    <3>1. /\ s # r /\ Alike(request'[s], request[s]) /\ request[s].next \in Writing
          /\ request[s].owner \notin settled
      BY <1>5, <2>1 DEF Writing, StoredInv, PartialIsUnsettled, Alike
    <3>2. request[r].alone => request[s].owner # o
      BY <3>1 DEF StoredInv, AloneIsOne
    <3> QED
      BY <1>1, <3>1, <3>2 DEF Alike
  <2> QED
    BY <2>1 DEF PartialIsUnsettled
<1>8. \A s \in Requests : Progress(request[s])'
  <2>1. Progress(request[r])'
    BY <1>2 DEF Progress, Writing
  <2> QED
    BY <1>2, <2>1, OthersProgress
<1>9. AnsweredIsStored'
  <2>1. ASSUME NEW x \in settled', x # o
        PROVE  List(x)' = answered'[x]
    <3>1. x \in settled /\ x \in Owners
      BY <1>1, <2>1 DEF TypeInv, TypeOK
    <3> QED
      BY <1>1, <1>4, <2>1, <3>1 DEF StoredInv, AnsweredIsStored
  <2>2. ASSUME o \in settled'
        PROVE  List(o)' = answered'[o]
    <3>1. request[r].alone \/ o \in settled
      BY <1>1, <2>2
    <3>2. request[r].alone \/ request[r].next = "patch:batch"
      BY <3>1 DEF StoredInv, PartialIsUnsettled, Writing
    <3> QED
      BY <1>1, <3>2
  <2>3. ASSUME NEW x \in settled'
        PROVE  List(x)' = answered'[x]
    <3>1. CASE x = o
      BY <2>2, <2>3, <3>1
    <3>2. CASE x # o
      BY <2>1, <2>3, <3>2
    <3> QED
      BY <3>1, <3>2
  <2> QED
    BY <2>3 DEF AnsweredIsStored
<1> QED
  BY <1>3, <1>6, <1>7, <1>8, <1>9 DEF StoredInv

\* A request starts to write a list that is not settled, or that it will replace by
\* one batch.
LEMMA StartKeepsStored ==
    ASSUME TypeInv, StoredInv, NEW r \in Requests, NEW o \in Owners,
           NEW n \in {"post:part", "patch:batch", "faction:delete"},
           NEW body \in Seq(Parts), StartWriting(r, o, n, body),
           UNCHANGED <<row, answered>>, settled' \subseteq settled,
           owners \subseteq owners', o \in owners',
           n # "patch:batch" => o \notin settled',
           n = "post:part" => List(o) = {}
    PROVE  StoredInv'
<1>0. n \in Writing
  BY DEF Writing
<1>1. /\ request'[r].next = n /\ request'[r].owner = o
      /\ request'[r].list = Range(body) /\ request'[r].rest = body
      /\ request'[r].alone => Writers(o) = {}
      /\ OtherRequestsAlike(r)
      /\ \A s \in Requests \ {r} : s \in Writers(o) => ~request'[s].alone
  BY <1>0, StartEffect
<1>2. ASSUME NEW s \in Requests, s # r
      PROVE  /\ request'[s].next = request[s].next /\ request'[s].owner = request[s].owner
             /\ request'[s].list = request[s].list /\ request'[s].rest = request[s].rest
             /\ request'[s].alone => request[s].alone
             /\ Progress(request[s])
  BY <1>1, <1>2 DEF OtherRequestsAlike, Alike, StoredInv
<1>3. OwnersAreRows'
  BY <1>1, <1>2 DEF StoredInv, OwnersAreRows, List
<1>4. ASSUME NEW s \in Requests, NEW t \in Requests,
             request'[s].next \in Writing, request'[t].next \in Writing,
             request'[s].owner = request'[t].owner, request'[s].alone
      PROVE  s = t
  <2>1. CASE s = r /\ t # r
    BY <1>1, <1>2, <1>4, <2>1 DEF Writers
  <2>2. CASE s # r /\ t = r
    BY <1>1, <1>2, <1>4, <2>2 DEF Writers
  <2>3. CASE s # r /\ t # r
    <3>1. /\ request[s].next \in Writing /\ request[t].next \in Writing
          /\ request[s].owner = request[t].owner /\ request[s].alone
      BY <1>2, <1>4, <2>3
    <3> QED
      BY <3>1 DEF StoredInv, AloneIsOne
  <2> QED
    BY <2>1, <2>2, <2>3
<1>5. PartialIsUnsettled'
  BY <1>1, <1>2 DEF StoredInv, PartialIsUnsettled
<1>6. ASSUME NEW s \in Requests
      PROVE  Progress(request[s])'
  <2>1. CASE s = r
    <3>1. n = "post:part" => {p \in Parts : row[o][p] # 0} = {}
      BY DEF List
    <3> QED
      BY <1>1, <2>1, <3>1 DEF Progress, List
  <2>2. CASE s # r
    BY <1>2, <2>2 DEF Progress, List
  <2> QED
    BY <2>1, <2>2
<1>7. AnsweredIsStored'
  BY DEF StoredInv, AnsweredIsStored, List
<1> QED
  BY <1>3, <1>4, <1>5, <1>6, <1>7 DEF StoredInv, AloneIsOne

LEMMA WritesKeepStored ==
    ASSUME TypeInv, StoredInv, NEW r \in Requests, NEW o \in Owners, Writes(r, o)
    PROVE  StoredInv'
<1>1. PICK body \in Bodies :
        \/ PostNpc(r, o, body)
        \/ PostMonster(r, o, body)
        \/ StartPatch(r, o, body)
        \/ PatchFaction(r, o, body)
  BY DEF Writes
<1>2. body \in Seq(Parts)
  BY SheetsAssumption
<1>3. ASSUME NEW k, PostOwner(r, o, k, body)
      PROVE  StoredInv'
  <2>1. /\ o \notin owners /\ owners' = owners \cup {o}
        /\ StartWriting(r, o, "post:part", body)
        /\ UNCHANGED <<row, answered, settled>>
    BY <1>3 DEF PostOwner, history
  <2>2. List(o) = {} /\ o \notin settled
    BY <2>1 DEF StoredInv, OwnersAreRows
  <2> QED
    BY <1>2, <2>1, <2>2, StartKeepsStored
<1>4. CASE StartPatch(r, o, body)
  BY <1>2, <1>4, StartKeepsStored DEF StartPatch, tables, history
<1>5. CASE PatchFaction(r, o, body)
  BY <1>2, <1>5, StartKeepsStored DEF PatchFaction, tables
<1> QED
  BY <1>1, <1>3, <1>4, <1>5 DEF PostNpc, PostMonster

LEMMA StepsKeepStored ==
    ASSUME TypeInv, StoredInv, NEW r \in Requests, Steps(r)
    PROVE  StoredInv'
<1>0. /\ request[r] \in RequestRecord /\ request \in [Requests -> RequestRecord]
      /\ Progress(request[r]) /\ row \in [Owners -> [Parts -> 0..MaxId]]
  BY DEF TypeInv, TypeOK, StoredInv
<1>1. ASSUME NEW n \in {"post:part", "faction:part"}, NextPart(r, n)
      PROVE  StoredInv'
  <2> DEFINE q == request[r]
             p == Head(q.rest)
             after == [q EXCEPT !.rest = Tail(q.rest)]
  <2>0. /\ q.next = n /\ q.owner \in Owners /\ q.rest # <<>>
        /\ UNCHANGED <<kindOf, owners, history>>
    BY <1>1, NextPartEffect
  <2>1. CASE request' = [request EXCEPT ![r] = Idle] /\ UNCHANGED <<row, lastId>>
    BY <2>0, <2>1, FinishKeepsStored
  <2>2. CASE InsertPart(q.owner, p) /\ request' = [request EXCEPT ![r] = after]
    <3>1. /\ p \in Parts /\ Tail(q.rest) \in Seq(Parts)
          /\ Range(q.rest) = {p} \cup Range(Tail(q.rest))
      BY <1>0, <2>0, BodySplits DEF RequestRecord
    <3>2. after \in RequestRecord
      BY <1>0, <3>1 DEF RequestRecord
    <3>3. request'[r] = after /\ OtherRequestsAlike(r)
      BY <2>2, <3>2, MoveEffect
    <3>4. /\ after.next = n /\ after.owner = q.owner /\ after.alone = q.alone
          /\ after.list = q.list /\ after.rest = Tail(q.rest)
      BY <1>0, <2>0 DEF RequestRecord
    <3>5. \A o \in Owners : o = q.owner => List(o)' = List(o) \cup {p}
      BY <2>0, <2>2, <3>1, InsertEffect
    <3>6. OtherRowsStay(q.owner)
      BY <2>0, <2>2, <3>1, InsertEffect
    <3>7. Progress(request[r])'
      <4>1. /\ request'[r].next = n /\ request'[r].owner = q.owner
            /\ request'[r].alone = q.alone
            /\ request'[r].list = q.list /\ request'[r].rest = Tail(q.rest)
        BY <3>3, <3>4
      <4>2. q.alone => q.list = List(q.owner) \cup Range(q.rest)
        BY <1>0, <2>0 DEF Progress
      <4>3. List(request[r].owner)' = List(q.owner) \cup {p}
        BY <2>0, <3>5, <4>1 DEF List
      <4> QED
        BY <3>1, <4>1, <4>2, <4>3 DEF Progress
    <3> QED
      BY <2>0, <3>3, <3>4, <3>6, <3>7, PartialKeepsStored
  <2> QED
    BY <1>1, <2>1, <2>2, NextPartEffect
<1>2. ASSUME NEW n \in {"post:part", "faction:part"}, AllInserted(r, n)
      PROVE  StoredInv'
  <2>1. /\ request[r].next = n /\ request[r].next \in Writing /\ Answer(r)
        /\ request[r].rest = <<>> /\ UNCHANGED <<owners, row>>
    BY <1>2 DEF AllInserted, At, Writing, tables
  <2>2. PICK o \in Owners : request[r].owner = o
    BY <2>1 DEF TypeInv, FieldsAreSet
  <2>3. request[r].alone => List(o)' = request[r].list
    <3>1. request[r].alone => request[r].list = List(o) \cup {}
      BY <1>0, <2>1, <2>2, EmptyBody DEF Progress
    <3> QED
      BY <2>1, <3>1 DEF List
  <2> QED
    BY <2>1, <2>2, <2>3, AnswerKeepsStored DEF OtherRowsStay
<1>3. CASE PatchBatch(r)
  <2> DEFINE q == request[r]
  <2>0. /\ q.next = "patch:batch" /\ q.next \in Writing
        /\ q.list = Range(q.rest) /\ UNCHANGED owners
    BY <1>0, <1>3, PatchBatchEffect DEF Writing, Progress
  <2>1. q.rest \in Seq(Parts) /\ Range(q.rest) \in SUBSET Parts
    BY <1>0, BodyRange DEF RequestRecord
  <2>2. PICK o \in Owners : request[r].owner = o
    BY <2>0 DEF TypeInv, FieldsAreSet
  <2>3. CASE /\ request' = [request EXCEPT ![r] = Idle]
             /\ UNCHANGED <<row, lastId, learned, history>>
    BY <2>0, <2>3, FinishKeepsStored
  <2>4. CASE /\ Answer(r)
             /\ row' = [row EXCEPT ![o] =
                           [p \in Parts |-> IF p \in Range(q.rest) THEN 1 ELSE 0]]
    <3>1. List(o)' = Range(q.rest) /\ OtherRowsStay(o)
      BY <2>1, <2>4, SetEffect
    <3> QED
      BY <2>0, <2>2, <2>4, <3>1, AnswerKeepsStored
  <2>5. CASE Answer(r) /\ UpdateMonsterWithRelations(o, q.rest)
    <3>1. List(o)' = Range(q.rest) /\ OtherRowsStay(o)
      BY <2>1, <2>5, MonsterEffect
    <3> QED
      BY <2>0, <2>2, <2>5, <3>1, AnswerKeepsStored
  <2> QED
    BY <1>3, <2>2, <2>3, <2>4, <2>5, PatchBatchEffect
<1>4. CASE DeleteByFactionId(r)
  <2> DEFINE after == [request[r] EXCEPT !.next = "faction:part"]
  <2>1. /\ request[r].next = "faction:delete"
        /\ request' = [request EXCEPT ![r].next = "faction:part"]
        /\ row' = [row EXCEPT ![request[r].owner] = [p \in Parts |-> 0]]
        /\ UNCHANGED <<owners, history>>
    BY <1>4 DEF DeleteByFactionId, Continue, At
  <2>2. PICK o \in Owners : request[r].owner = o
    BY <2>1 DEF TypeInv, FieldsAreSet, Writing
  <2>3. request'[r] = after /\ OtherRequestsAlike(r)
    BY <2>1, ContinueEffect DEF NextCall
  <2>4. /\ request'[r].next = "faction:part" /\ request'[r].owner = o
        /\ request'[r].alone = request[r].alone
        /\ request'[r].list = request[r].list /\ request'[r].rest = request[r].rest
    BY <1>0, <2>2, <2>3 DEF RequestRecord
  <2>5. OtherRowsStay(o) /\ row'[o] = [p \in Parts |-> 0]
    BY <1>0, <2>1, <2>2 DEF OtherRowsStay
  <2>6. Progress(request[r])'
    <3>1. request[r].list = Range(request[r].rest)
      BY <1>0, <2>1 DEF Progress
    <3>2. List(request[r].owner)' = {}
      BY <2>4, <2>5 DEF List
    <3> QED
      BY <2>4, <3>1, <3>2 DEF Progress
  <2> QED
    BY <2>1, <2>2, <2>3, <2>4, <2>5, <2>6, PartialKeepsStored
<1>5. CASE LearnCheck(r)
  <2>0. /\ request[r].next = "learn:check" /\ UNCHANGED <<owners, row>>
    BY <1>5 DEF LearnCheck, At, tables
  <2>1. CASE Continue(r, "learn:insert")
    <3>1. /\ request'[r] = [request[r] EXCEPT !.next = "learn:insert"]
          /\ OtherRequestsAlike(r) /\ UNCHANGED history
      BY <2>1, ContinueEffect DEF Continue, NextCall
    <3>2. request'[r].next \notin Writing
      BY <1>0, <3>1 DEF RequestRecord, Writing
    <3> QED
      BY <2>0, <3>1, <3>2, QuietKeepsStored
  <2>2. CASE Finish(r)
    BY <2>0, <2>2, FinishKeepsStored DEF Finish
  <2> QED
    BY <1>5, <2>1, <2>2 DEF LearnCheck
<1>6. CASE LearnInsert(r)
  BY <1>6, FinishKeepsStored DEF LearnInsert, Finish
<1>7. CASE Abandon(r)
  BY <1>7, FinishKeepsStored DEF Abandon, Finish, tables
<1> QED
  BY <1>1, <1>2, <1>3, <1>4, <1>5, <1>6, <1>7
     DEF Steps, PostPart, PostDone, PatchFactionPart, PatchFactionDone

\* A faction is created: nobody wrote its list before.
LEMMA PostFactionKeepsStored ==
    ASSUME TypeInv, StoredInv, NEW o \in Owners, NEW body \in Seq(Parts),
           PostFaction(o, body)
    PROVE  StoredInv'
<1>1. /\ o \notin owners /\ owners' = owners \cup {o}
      /\ row' = [row EXCEPT ![o] = [p \in Parts |-> IF p \in Range(body) THEN 1 ELSE 0]]
      /\ answered' = [answered EXCEPT ![o] = Range(body)]
      /\ settled' = settled \cup {o}
      /\ request' = request
  BY DEF PostFaction
<1>2. List(o)' = Range(body) /\ OtherRowsStay(o)
  BY <1>1, BodyRange, SetEffect
<1>3. \A x \in Owners \ {o} : List(x)' = List(x)
  BY <1>2 DEF OtherRowsStay, List
<1>4. \A s \in Requests : request[s].next \in Writing =>
         request[s].owner \in Owners \ {o}
  BY <1>1 DEF StoredInv, OwnersAreRows, TypeInv, FieldsAreSet
<1>5. OwnersAreRows'
  BY <1>1, <1>3 DEF StoredInv, OwnersAreRows
<1>6. AloneIsOne' /\ PartialIsUnsettled'
  BY <1>1, <1>4 DEF StoredInv, AloneIsOne, PartialIsUnsettled, Writing
<1>7. ASSUME NEW s \in Requests
      PROVE  Progress(request[s])'
  <2>1. Progress(request[s]) /\ request'[s] = request[s]
    BY <1>1 DEF StoredInv
  <2>2. request[s].next \in Writing => row'[request[s].owner] = row[request[s].owner]
    BY <1>2, <1>4 DEF OtherRowsStay
  <2> QED
    BY <2>1, <2>2 DEF Progress, List, Writing
<1>8. AnsweredIsStored'
  <2>1. answered \in [Owners -> SUBSET Parts] /\ settled \subseteq Owners
    BY DEF TypeInv, TypeOK
  <2>2. ASSUME NEW x \in settled'
        PROVE  List(x)' = answered'[x]
    <3>1. CASE x = o
      BY <1>1, <1>2, <2>1, <3>1
    <3>2. CASE x # o
      BY <1>1, <1>3, <2>1, <2>2, <3>2 DEF StoredInv, AnsweredIsStored
    <3> QED
      BY <3>1, <3>2
  <2> QED
    BY <2>2 DEF AnsweredIsStored
<1> QED
  BY <1>5, <1>6, <1>7, <1>8 DEF StoredInv

\* The administrator adds a part: what others are writing is no longer theirs alone.
LEMMA AdminPartKeepsStored ==
    ASSUME TypeInv, StoredInv, NEW o \in Owners, NEW p \in Parts, AdminPart(o, p)
    PROVE  StoredInv'
<1>1. /\ o \in owners /\ InsertPart(o, p) /\ request' = Disturb(o)
      /\ answered' = [answered EXCEPT ![o] = @ \cup {p}]
      /\ UNCHANGED <<kindOf, owners, settled>>
  BY DEF AdminPart, CreateNpcPart, CreateRule, CreateInventory, CreateEquipment,
    CreateMonsterPart, CreateTrait, CreateAffinity, CreateAction, InsertInto
<1>2. List(o)' = List(o) \cup {p} /\ OtherRowsStay(o)
  BY <1>1, InsertEffect
<1>3. \A x \in Owners \ {o} : List(x)' = List(x)
  BY <1>2 DEF OtherRowsStay, List
<1>4. ASSUME NEW s \in Requests
      PROVE  /\ request'[s].next = request[s].next /\ request'[s].owner = request[s].owner
             /\ request'[s].list = request[s].list /\ request'[s].rest = request[s].rest
             /\ request'[s].alone => request[s].alone
             /\ s \in Writers(o) => ~request'[s].alone
             /\ Progress(request[s])
  BY <1>1, DisturbEffect DEF Alike, StoredInv
<1>5. OwnersAreRows'
  BY <1>1, <1>3, <1>4 DEF StoredInv, OwnersAreRows
<1>6. ASSUME NEW s \in Requests, NEW t \in Requests,
             request'[s].next \in Writing, request'[t].next \in Writing,
             request'[s].owner = request'[t].owner, request'[s].alone
      PROVE  s = t
  <2>1. /\ request[s].next \in Writing /\ request[t].next \in Writing
        /\ request[s].owner = request[t].owner /\ request[s].alone
    BY <1>4, <1>6
  <2> QED
    BY <2>1 DEF StoredInv, AloneIsOne
<1>7. PartialIsUnsettled'
  BY <1>1, <1>4 DEF StoredInv, PartialIsUnsettled
<1>8. ASSUME NEW s \in Requests
      PROVE  Progress(request[s])'
  <2>1. ASSUME request[s].next \in {"post:part", "faction:part"}, request'[s].alone
        PROVE  row'[request[s].owner] = row[request[s].owner]
    <3>1. request[s].next \in Writing
      BY <2>1 DEF Writing
    <3>2. request[s].owner \in Owners /\ request[s].owner # o
      BY <1>4, <2>1, <3>1 DEF Writers, TypeInv, FieldsAreSet
    <3> QED
      BY <1>2, <3>2 DEF OtherRowsStay
  <2> QED
    BY <1>4, <2>1 DEF Progress, List
<1>9. AnsweredIsStored'
  <2>1. answered \in [Owners -> SUBSET Parts] /\ settled \subseteq Owners
    BY DEF TypeInv, TypeOK
  <2>2. ASSUME NEW x \in settled
        PROVE  List(x)' = answered'[x]
    <3>1. List(x) = answered[x]
      BY <2>2 DEF StoredInv, AnsweredIsStored
    <3>2. CASE x = o
      BY <1>1, <1>2, <2>1, <3>1, <3>2
    <3>3. CASE x # o
      BY <1>1, <1>3, <2>1, <2>2, <3>1, <3>3
    <3> QED
      BY <3>2, <3>3
  <2> QED
    BY <1>1, <2>2 DEF AnsweredIsStored
<1> QED
  BY <1>5, <1>6, <1>7, <1>8, <1>9 DEF StoredInv, AloneIsOne

\* What the answers and the lists have in common, with how far each request is: the
\* strengthening of AnsweredIsStored that every step keeps.
THEOREM StoredInvariant == Spec => []StoredInv
<1>1. Init => StoredInv
  <2> SUFFICES ASSUME Init
               PROVE  StoredInv
    OBVIOUS
  <2>1. \A r \in Requests : request[r].next \notin Writing
    BY DEF Init, Idle, Writing
  <2>2. \A o \in Owners : List(o) = {}
    BY DEF Init, List
  <2>3. OwnersAreRows /\ AnsweredIsStored
    BY <2>1, <2>2 DEF Init, OwnersAreRows, AnsweredIsStored
  <2>4. AloneIsOne /\ PartialIsUnsettled /\ \A r \in Requests : Progress(request[r])
    BY <2>1 DEF AloneIsOne, PartialIsUnsettled, Progress, Writing
  <2> QED
    BY <2>3, <2>4 DEF StoredInv
<1>2. TypeInv /\ StoredInv /\ [Next]_vars => StoredInv'
  <2> SUFFICES ASSUME TypeInv, StoredInv, [Next]_vars
               PROVE  StoredInv'
    OBVIOUS
  <2>1. ASSUME UNCHANGED <<owners, row, request, history>>
        PROVE  StoredInv'
    BY <2>1 DEF StoredInv, OwnersAreRows, AloneIsOne, PartialIsUnsettled, Progress,
                AnsweredIsStored, List, history
  <2>2. ASSUME NEW r \in Requests, NEW o \in Owners, Writes(r, o)
        PROVE  StoredInv'
    BY <2>2, WritesKeepStored
  <2>3. ASSUME NEW r \in Requests, Steps(r)
        PROVE  StoredInv'
    BY <2>3, StepsKeepStored
  <2>4. ASSUME NEW r \in Requests, NEW c \in Pcs, NEW id \in 1..MaxId, StartLearn(r, c, id)
        PROVE  StoredInv'
    <3> DEFINE q == [next |-> "learn:check", owner |-> None, list |-> {}, rest |-> <<>>,
                     alone |-> TRUE, pc |-> c, id |-> id]
    <3>1. q \in RequestRecord /\ q.next = "learn:check"
      BY SheetsAssumption DEF RequestRecord, NextCall
    <3>2. request' = [request EXCEPT ![r] = q] /\ UNCHANGED <<owners, row, history>>
      BY <2>4 DEF StartLearn, tables
    <3> HIDE DEF q
    <3>3. request'[r] = q /\ OtherRequestsAlike(r)
      BY <3>1, <3>2, MoveEffect
    <3> QED
      BY <3>1, <3>2, <3>3, QuietKeepsStored DEF Writing
  <2>5. ASSUME NEW o \in Owners, NEW body \in Bodies, PostFaction(o, body)
        PROVE  StoredInv'
    BY <2>5, SheetsAssumption, PostFactionKeepsStored
  <2>6. ASSUME NEW o \in Owners, NEW p \in Parts, AdminPart(o, p)
        PROVE  StoredInv'
    BY <2>6, AdminPartKeepsStored
  <2>7. ASSUME NEW c \in Pcs, DeletePc(c)
        PROVE  StoredInv'
    BY <2>1, <2>7 DEF DeletePc
  <2>8. CASE UNCHANGED vars
    BY <2>1, <2>8 DEF vars, tables
  <2> QED
    BY <2>2, <2>3, <2>4, <2>5, <2>6, <2>7, <2>8 DEF Next
<1> QED
  BY <1>1, <1>2, TypeInvariant, PTL DEF Spec

\* A list is what the last success sent, with what the administrator has added, as
\* long as nothing that is written call by call was cut short or overlapped.
THEOREM SuccessIsStored == Spec => []AnsweredIsStored
<1>1. StoredInv => AnsweredIsStored
  BY DEF StoredInv
<1> QED
  BY <1>1, StoredInvariant, PTL

----------------------------------------------------------------------------
(* The lists of NPCs and monsters implement the contract *)

\* What the contract sees.
Lists == [o \in Owners |-> IF kindOf[o] = "faction" THEN {} ELSE List(o)]

Asked(R) == {<<request[r].owner, request[r].list>> : r \in {s \in R : At(s, "patch:batch")}}

ContractStep ==
    \/ Contract!RelationNext
    \/ UNCHANGED <<Lists, Asked(Requests)>>

LEMMA WhatTheContractSees ==
    /\ KeepsRelations <=> Contract!RelationInit
                          /\ [][Contract!RelationNext]_<<Lists, Asked(Requests)>>
BY DEF KeepsRelations, Contract!RelationSpec, Lists, Asked

\* The steps of the contract, as steps of what it sees.
LEMMA AskStep ==
    ASSUME NEW o \in Owners, NEW S \in SUBSET Parts,
           Lists' = Lists, Asked(Requests)' = Asked(Requests) \cup {<<o, S>>}
    PROVE  ContractStep
BY DEF ContractStep, Contract!RelationNext, Contract!Ask, Lists, Asked

LEMMA DropStep ==
    ASSUME NEW o \in Owners, NEW S \in SUBSET Parts,
           Lists' = Lists, Asked(Requests)' = Asked(Requests) \ {<<o, S>>}
    PROVE  ContractStep
BY DEF ContractStep, Contract!RelationNext, Contract!Drop, Lists, Asked

LEMMA ReplaceStep ==
    ASSUME NEW o \in Owners, NEW S \in SUBSET Parts, <<o, S>> \in Asked(Requests),
           Lists' = [Lists EXCEPT ![o] = S],
           Asked(Requests)' \in {Asked(Requests), Asked(Requests) \ {<<o, S>>}}
    PROVE  ContractStep
BY DEF ContractStep, Contract!RelationNext, Contract!Replace, Lists, Asked

LEMMA GrowStep ==
    ASSUME NEW o \in Owners, NEW p \in Parts,
           Lists' = [Lists EXCEPT ![o] = @ \cup {p}], Asked(Requests)' = Asked(Requests)
    PROVE  ContractStep
BY DEF ContractStep, Contract!RelationNext, Contract!Grow, Lists, Asked

\* What is asked for, by one request and by the others.
LEMMA AskedSplits ==
    ASSUME NEW r \in Requests, OtherRequestsAlike(r)
    PROVE  /\ request[r].next = "patch:batch" =>
                 Asked(Requests) = Asked(Requests \ {r})
                                   \cup {<<request[r].owner, request[r].list>>}
           /\ request[r].next # "patch:batch" => Asked(Requests) = Asked(Requests \ {r})
           /\ request'[r].next = "patch:batch" =>
                 Asked(Requests)' = Asked(Requests \ {r})
                                    \cup {<<request'[r].owner, request'[r].list>>}
           /\ request'[r].next # "patch:batch" => Asked(Requests)' = Asked(Requests \ {r})
<1>1. ASSUME NEW s \in Requests \ {r}
      PROVE  /\ request'[s].next = request[s].next
             /\ request'[s].owner = request[s].owner
             /\ request'[s].list = request[s].list
  BY DEF OtherRequestsAlike, Alike
<1>2. Asked(Requests \ {r})' = Asked(Requests \ {r})
  BY <1>1 DEF Asked, At
<1>3. /\ request[r].next = "patch:batch" =>
            Asked(Requests) = Asked(Requests \ {r})
                              \cup {<<request[r].owner, request[r].list>>}
      /\ request[r].next # "patch:batch" => Asked(Requests) = Asked(Requests \ {r})
  BY DEF Asked, At
<1>4. /\ request'[r].next = "patch:batch" =>
            Asked(Requests)' = Asked(Requests \ {r})'
                               \cup {<<request'[r].owner, request'[r].list>>}
      /\ request'[r].next # "patch:batch" => Asked(Requests)' = Asked(Requests \ {r})'
  BY DEF Asked, At
<1> QED
  BY <1>2, <1>3, <1>4

\* A request that was not asking, and does not, is a stutter if it changes no list.
LEMMA QuietSteps ==
    ASSUME NEW r \in Requests, OtherRequestsAlike(r), Lists' = Lists,
           request[r].next # "patch:batch", request'[r].next # "patch:batch"
    PROVE  ContractStep
BY AskedSplits DEF ContractStep

\* A request that has asked ends, and may have changed the list it asked about.
LEMMA EndSteps ==
    ASSUME NEW r \in Requests, NEW o \in Owners, NEW S \in SUBSET Parts,
           OtherRequestsAlike(r), request'[r].next # "patch:batch",
           request[r].next = "patch:batch" /\ request[r].owner = o /\ request[r].list = S,
           Lists' \in {Lists, [Lists EXCEPT ![o] = S]}
    PROVE  ContractStep
<1>1. /\ Asked(Requests) = Asked(Requests \ {r}) \cup {<<o, S>>}
      /\ Asked(Requests)' = Asked(Requests \ {r})
  BY AskedSplits
<1>2. <<o, S>> \in Asked(Requests)
  BY <1>1
<1>3. Asked(Requests)' \in {Asked(Requests), Asked(Requests) \ {<<o, S>>}}
  BY <1>1
<1>4. CASE Lists' = [Lists EXCEPT ![o] = S]
  BY <1>2, <1>3, <1>4, ReplaceStep
<1>5. CASE Lists' = Lists
  BY <1>3, <1>5, DropStep DEF ContractStep
<1> QED
  BY <1>4, <1>5

\* What a change of rows is to the contract.
LEMMA SetList ==
    ASSUME UNCHANGED kindOf, NEW o \in Owners, NEW S, OtherRowsStay(o), List(o)' = S,
           kindOf[o] # "faction"
    PROVE  Lists' = [Lists EXCEPT ![o] = S]
<1>1. \A x \in Owners \ {o} : List(x)' = List(x)
  BY DEF OtherRowsStay, List
<1>2. Lists' = [x \in Owners |-> IF kindOf[x] = "faction" THEN {} ELSE List(x)']
  BY DEF Lists
<1>3. [Lists EXCEPT ![o] = S] =
         [x \in Owners |-> IF x = o THEN S ELSE IF kindOf[x] = "faction" THEN {} ELSE List(x)]
  BY DEF Lists
<1> QED
  BY <1>1, <1>2, <1>3

LEMMA FactionsAreHidden ==
    ASSUME UNCHANGED kindOf, NEW o \in Owners, OtherRowsStay(o), kindOf[o] = "faction"
    PROVE  Lists' = Lists
BY DEF OtherRowsStay, List, Lists

LEMMA SameRowsSameLists ==
    ASSUME UNCHANGED <<kindOf, row>>
    PROVE  Lists' = Lists
BY DEF Lists, List

LEMMA InsertIsGrow ==
    ASSUME TypeInv, NEW o \in Owners, NEW p \in Parts, InsertPart(o, p), UNCHANGED kindOf,
           Asked(Requests)' = Asked(Requests)
    PROVE  ContractStep
<1>1. OtherRowsStay(o) /\ List(o)' = List(o) \cup {p}
  BY InsertEffect
<1>2. CASE kindOf[o] = "faction"
  BY <1>1, <1>2, FactionsAreHidden DEF ContractStep
<1>3. CASE kindOf[o] # "faction"
  <2>1. Lists[o] = List(o)
    BY <1>3 DEF Lists
  <2>2. Lists' = [Lists EXCEPT ![o] = List(o) \cup {p}]
    BY <1>1, <1>3, SetList
  <2> QED
    BY <2>1, <2>2, GrowStep
<1> QED
  BY <1>2, <1>3

\* The steps of a request in flight.
LEMMA StepsKeepContract ==
    ASSUME TypeInv, StoredInv, NEW r \in Requests, Steps(r)
    PROVE  ContractStep
<1>0. /\ request[r] \in RequestRecord /\ request \in [Requests -> RequestRecord]
      /\ Progress(request[r]) /\ row \in [Owners -> [Parts -> 0..MaxId]]
      /\ FieldsAreSet(request[r])
  BY DEF TypeInv, TypeOK, StoredInv
<1>1. ASSUME NEW n \in {"post:part", "faction:part"}, NextPart(r, n)
      PROVE  ContractStep
  <2> DEFINE q == request[r]
             after == [q EXCEPT !.rest = Tail(q.rest)]
  <2>0. /\ q.next = n /\ q.owner \in Owners /\ q.rest # <<>> /\ Head(q.rest) \in Parts
        /\ UNCHANGED kindOf
    BY <1>1, NextPartEffect
  <2>1. CASE request' = [request EXCEPT ![r] = Idle] /\ UNCHANGED <<row, lastId>>
    BY <2>0, <2>1, FinishEffect, IdleTyped, SameRowsSameLists, QuietSteps
  <2>2. CASE InsertPart(q.owner, Head(q.rest)) /\ request' = [request EXCEPT ![r] = after]
    <3>1. Tail(q.rest) \in Seq(Parts)
      BY <1>0, <2>0, BodySplits DEF RequestRecord
    <3>2. after \in RequestRecord /\ after.next = n
      BY <1>0, <2>0, <3>1 DEF RequestRecord
    <3>3. request'[r].next = n /\ OtherRequestsAlike(r)
      BY <2>2, <3>2, MoveEffect
    <3>4. Asked(Requests)' = Asked(Requests)
      BY <2>0, <3>3, AskedSplits
    <3> QED
      BY <2>0, <2>2, <3>4, InsertIsGrow
  <2> QED
    BY <1>1, <2>1, <2>2, NextPartEffect
<1>2. ASSUME NEW n \in {"post:part", "faction:part"}, AllInserted(r, n)
      PROVE  ContractStep
  <2>1. /\ request[r].next = n /\ UNCHANGED <<kindOf, row>>
        /\ request' = [request EXCEPT ![r] = Idle]
    BY <1>2 DEF AllInserted, At, Answer, tables
  <2> QED
    BY <2>1, FinishEffect, IdleTyped, SameRowsSameLists, QuietSteps
<1>3. CASE PatchBatch(r)
  <2> DEFINE q == request[r]
  <2>0. /\ q.next = "patch:batch" /\ q.list = Range(q.rest) /\ UNCHANGED kindOf
    BY <1>0, <1>3, PatchBatchEffect DEF Progress
  <2>1. q.rest \in Seq(Parts) /\ Range(q.rest) \in SUBSET Parts
    BY <1>0, BodyRange DEF RequestRecord
  <2>2. PICK o \in Owners : request[r].owner = o
    BY <1>0, <2>0 DEF FieldsAreSet, Writing
  <2>3. request' = [request EXCEPT ![r] = Idle] /\ kindOf[o] # "faction"
    BY <1>3, <2>2, PatchBatchEffect DEF Answer
  <2>4. OtherRequestsAlike(r) /\ request'[r].next # "patch:batch"
    BY <2>3, FinishEffect, IdleTyped
  <2>5. CASE UNCHANGED row
    BY <2>0, <2>1, <2>2, <2>4, <2>5, SameRowsSameLists, EndSteps
  <2>6. CASE row' = [row EXCEPT ![o] = [p \in Parts |-> IF p \in Range(q.rest) THEN 1 ELSE 0]]
    <3>1. List(o)' = q.list /\ OtherRowsStay(o)
      BY <2>0, <2>1, <2>6, SetEffect
    <3>2. Lists' = [Lists EXCEPT ![o] = q.list]
      BY <2>0, <2>3, <3>1, SetList
    <3> QED
      BY <2>0, <2>1, <2>2, <2>4, <3>2, EndSteps
  <2>7. CASE UpdateMonsterWithRelations(o, q.rest)
    <3>1. List(o)' = q.list /\ OtherRowsStay(o)
      BY <2>0, <2>1, <2>7, MonsterEffect
    <3>2. Lists' = [Lists EXCEPT ![o] = q.list]
      BY <2>0, <2>3, <3>1, SetList
    <3> QED
      BY <2>0, <2>1, <2>2, <2>4, <3>2, EndSteps
  <2> QED
    BY <1>3, <2>2, <2>5, <2>6, <2>7, PatchBatchEffect
<1>4. CASE DeleteByFactionId(r)
  <2>1. /\ request[r].next = "faction:delete" /\ UNCHANGED kindOf
        /\ request' = [request EXCEPT ![r].next = "faction:part"]
        /\ row' = [row EXCEPT ![request[r].owner] = [p \in Parts |-> 0]]
    BY <1>4 DEF DeleteByFactionId, Continue, At
  <2>2. request[r].owner \in Owners /\ kindOf[request[r].owner] = "faction"
    BY <1>0, <2>1 DEF FieldsAreSet, Writing
  <2>3. OtherRowsStay(request[r].owner)
    BY <1>0, <2>1, <2>2 DEF OtherRowsStay
  <2>4. request'[r].next = "faction:part" /\ OtherRequestsAlike(r)
    BY <1>0, <2>1, ContinueEffect DEF NextCall, RequestRecord
  <2> QED
    BY <2>1, <2>2, <2>3, <2>4, FactionsAreHidden, QuietSteps
<1>5. CASE LearnCheck(r)
  <2>0. request[r].next = "learn:check" /\ UNCHANGED <<kindOf, row>>
    BY <1>5 DEF LearnCheck, At, tables
  <2>1. CASE Continue(r, "learn:insert")
    <3>1. request'[r].next = "learn:insert" /\ OtherRequestsAlike(r)
      BY <1>0, <2>1, ContinueEffect DEF Continue, NextCall, RequestRecord
    <3> QED
      BY <2>0, <3>1, SameRowsSameLists, QuietSteps
  <2>2. CASE Finish(r)
    BY <2>0, <2>2, FinishEffect, IdleTyped, SameRowsSameLists, QuietSteps DEF Finish
  <2> QED
    BY <1>5, <2>1, <2>2 DEF LearnCheck
<1>6. CASE LearnInsert(r)
  BY <1>6, FinishEffect, IdleTyped, SameRowsSameLists, QuietSteps DEF LearnInsert, Finish, At
<1>7. CASE Abandon(r)
  <2>1. /\ request' = [request EXCEPT ![r] = Idle] /\ UNCHANGED <<kindOf, row>>
        /\ request[r].next # "idle"
    BY <1>7 DEF Abandon, Finish, At, tables
  <2>2. OtherRequestsAlike(r) /\ request'[r].next # "patch:batch" /\ Lists' = Lists
    BY <2>1, FinishEffect, IdleTyped, SameRowsSameLists
  <2>3. CASE request[r].next = "patch:batch"
    <3>1. request[r].owner \in Owners /\ request[r].list \in SUBSET Parts
      BY <1>0, <2>3 DEF FieldsAreSet, Writing, RequestRecord
    <3> QED
      BY <2>2, <2>3, <3>1, EndSteps
  <2>4. CASE request[r].next # "patch:batch"
    BY <2>2, <2>4, QuietSteps
  <2> QED
    BY <2>3, <2>4
<1> QED
  BY <1>1, <1>2, <1>3, <1>4, <1>5, <1>6, <1>7
     DEF Steps, PostPart, PostDone, PatchFactionPart, PatchFactionDone

\* The requests that start: a PATCH of an NPC or a monster asks, the others do not.
LEMMA StartsKeepContract ==
    ASSUME TypeInv, NEW r \in Requests, NEW o \in Owners,
           NEW n \in {"post:part", "patch:batch", "faction:delete"},
           NEW body \in Seq(Parts), StartWriting(r, o, n, body), UNCHANGED <<kindOf, row>>
    PROVE  ContractStep
<1>1. /\ request[r].next = "idle" /\ request'[r].next = n
      /\ request'[r].owner = o /\ request'[r].list = Range(body)
      /\ OtherRequestsAlike(r)
  BY StartEffect, IdleTyped DEF Writing
<1>2. Lists' = Lists
  BY SameRowsSameLists
<1>3. CASE n = "patch:batch"
  <2>1. Asked(Requests)' = Asked(Requests) \cup {<<o, Range(body)>>}
    BY <1>1, <1>3, AskedSplits
  <2> QED
    BY <1>2, <2>1, AskStep, BodyRange
<1>4. CASE n # "patch:batch"
  BY <1>1, <1>2, <1>4, QuietSteps
<1> QED
  BY <1>3, <1>4

LEMMA WritesKeepContract ==
    ASSUME TypeInv, NEW r \in Requests, NEW o \in Owners, Writes(r, o)
    PROVE  ContractStep
<1>1. PICK body \in Bodies :
        \/ PostNpc(r, o, body)
        \/ PostMonster(r, o, body)
        \/ StartPatch(r, o, body)
        \/ PatchFaction(r, o, body)
  BY DEF Writes
<1>2. body \in Seq(Parts)
  BY SheetsAssumption
<1>3. CASE PostNpc(r, o, body) \/ PostMonster(r, o, body)
  BY <1>2, <1>3, StartsKeepContract DEF PostNpc, PostMonster, PostOwner
<1>4. CASE StartPatch(r, o, body)
  BY <1>2, <1>4, StartsKeepContract DEF StartPatch, tables
<1>5. CASE PatchFaction(r, o, body)
  BY <1>2, <1>5, StartsKeepContract DEF PatchFaction, tables
<1> QED
  BY <1>1, <1>3, <1>4, <1>5

\* The lists of NPCs and monsters implement the contract: whatever requests overlap,
\* fail or are cut short, a list is only replaced as a whole, by one asked for, or
\* grows by a part.
THEOREM SheetsKeepRelations == Spec => KeepsRelations
<1>1. Init => Contract!RelationInit
  <2> SUFFICES ASSUME Init
               PROVE  Contract!RelationInit
    OBVIOUS
  <2>1. Lists = [o \in Owners |-> {}]
    BY DEF Init, Lists, List
  <2>2. Asked(Requests) = {}
    BY DEF Init, Asked, At, Idle
  <2> QED
    BY <2>1, <2>2 DEF Contract!RelationInit, Lists, Asked
<1>2. TypeInv /\ StoredInv /\ [Next]_vars =>
         [Contract!RelationNext]_<<Lists, Asked(Requests)>>
  <2> SUFFICES ASSUME TypeInv, StoredInv, [Next]_vars
               PROVE  ContractStep
    BY DEF ContractStep
  <2>1. ASSUME UNCHANGED <<kindOf, row, request>>
        PROVE  ContractStep
    BY <2>1 DEF ContractStep, Lists, List, Asked, At
  <2>2. ASSUME NEW r \in Requests, NEW o \in Owners, Writes(r, o)
        PROVE  ContractStep
    BY <2>2, WritesKeepContract
  <2>3. ASSUME NEW r \in Requests, Steps(r)
        PROVE  ContractStep
    BY <2>3, StepsKeepContract
  <2>4. ASSUME NEW r \in Requests, NEW c \in Pcs, NEW id \in 1..MaxId, StartLearn(r, c, id)
        PROVE  ContractStep
    <3> DEFINE q == [next |-> "learn:check", owner |-> None, list |-> {}, rest |-> <<>>,
                     alone |-> TRUE, pc |-> c, id |-> id]
    <3>1. q \in RequestRecord /\ q.next = "learn:check"
      BY SheetsAssumption DEF RequestRecord, NextCall
    <3>2. /\ request' = [request EXCEPT ![r] = q] /\ UNCHANGED <<kindOf, row>>
          /\ request[r] = Idle
      BY <2>4 DEF StartLearn, tables
    <3> HIDE DEF q
    <3>3. request'[r] = q /\ OtherRequestsAlike(r)
      BY <3>1, <3>2, MoveEffect
    <3> QED
      BY <3>1, <3>2, <3>3, IdleTyped, SameRowsSameLists, QuietSteps
  <2>5. ASSUME NEW o \in Owners, NEW body \in Bodies, PostFaction(o, body)
        PROVE  ContractStep
    <3>1. body \in Seq(Parts) /\ Range(body) \in SUBSET Parts
      BY SheetsAssumption, BodyRange
    <3>2. /\ kindOf[o] = "faction" /\ UNCHANGED <<kindOf, request>>
          /\ row' = [row EXCEPT ![o] = [p \in Parts |-> IF p \in Range(body) THEN 1 ELSE 0]]
      BY <2>5 DEF PostFaction
    <3>3. OtherRowsStay(o)
      BY <3>1, <3>2, SetEffect
    <3>4. Lists' = Lists
      BY <3>2, <3>3, FactionsAreHidden
    <3> QED
      BY <3>2, <3>4 DEF ContractStep, Asked, At
  <2>6. ASSUME NEW o \in Owners, NEW p \in Parts, AdminPart(o, p)
        PROVE  ContractStep
    <3>1. InsertPart(o, p) /\ request' = Disturb(o) /\ UNCHANGED kindOf
      BY <2>6 DEF AdminPart, CreateNpcPart, CreateRule, CreateInventory, CreateEquipment,
    CreateMonsterPart, CreateTrait, CreateAffinity, CreateAction, InsertInto
    <3>2. \A s \in Requests : Alike(request'[s], request[s])
      BY <3>1, DisturbEffect
    <3>3. Asked(Requests)' = Asked(Requests)
      BY <3>2 DEF Asked, At, Alike
    <3> QED
      BY <3>1, <3>3, InsertIsGrow
  <2>7. ASSUME NEW c \in Pcs, DeletePc(c)
        PROVE  ContractStep
    BY <2>1, <2>7 DEF DeletePc
  <2>8. CASE UNCHANGED vars
    BY <2>1, <2>8 DEF vars, tables
  <2> QED
    BY <2>2, <2>3, <2>4, <2>5, <2>6, <2>7, <2>8 DEF Next
<1> QED
  BY <1>1, <1>2, TypeInvariant, StoredInvariant, WhatTheContractSees, PTL DEF Spec

=============================================================================
