------------------------- MODULE CampaignPcs_proofs -------------------------
(***************************************************************************)
(* Proofs about CampaignPcs, for any number of accounts, campaigns, PCs,   *)
(* jobs, other relations and overlapping requests, and for any limits.     *)
(***************************************************************************)
EXTENDS CampaignPcs, FiniteSetTheorems, TLAPS

----------------------------------------------------------------------------
(* Types *)

\* One request goes on with a record that has the fields it needs.
LEMMA MoveTyped ==
    ASSUME TypeInv, NEW r \in Requests, NEW q \in RequestRecord, FieldsAreSet(q),
           request' = [request EXCEPT ![r] = q]
    PROVE  /\ request' \in [Requests -> RequestRecord]
           /\ \A s \in Requests : FieldsAreSet(request'[s])
<1>1. request' \in [Requests -> RequestRecord]
  BY DEF TypeInv, TypeOK
<1>2. ASSUME NEW s \in Requests
      PROVE  FieldsAreSet(request'[s])
  <2>1. CASE s = r
    BY <2>1 DEF TypeInv, TypeOK
  <2>2. CASE s # r
    <3>1. request'[s] = request[s]
      BY <2>2 DEF TypeInv, TypeOK
    <3> QED
      BY <3>1 DEF TypeInv
  <2> QED
    BY <2>1, <2>2
<1> QED
  BY <1>1, <1>2

\* A request that starts.
LEMMA StartTyped ==
    ASSUME TypeInv, NEW r \in Requests, NEW q \in RequestRecord, FieldsAreSet(q),
           Start(r, q)
    PROVE  /\ request' \in [Requests -> RequestRecord]
           /\ \A s \in Requests : FieldsAreSet(request'[s])
BY MoveTyped DEF Start

\* A request that goes on to a call for which it has the fields.
LEMMA ContinueTyped ==
    ASSUME TypeInv, NEW r \in Requests, NEW n \in NextCall, Continue(r, n),
           FieldsAreSet([request[r] EXCEPT !.next = n])
    PROVE  /\ request' \in [Requests -> RequestRecord]
           /\ \A s \in Requests : FieldsAreSet(request'[s])
<1>1. request[r] \in RequestRecord
  BY DEF TypeInv, TypeOK
<1>2. [request[r] EXCEPT !.next = n] \in RequestRecord
  BY <1>1 DEF RequestRecord
<1>3. request' = [request EXCEPT ![r] = [request[r] EXCEPT !.next = n]]
  BY DEF Continue, TypeInv, TypeOK
<1> QED
  BY <1>2, <1>3, MoveTyped

\* An answered request leaves its slot idle.
LEMMA FinishTyped ==
    ASSUME TypeInv, NEW r \in Requests, Finish(r)
    PROVE  /\ request' \in [Requests -> RequestRecord]
           /\ \A s \in Requests : FieldsAreSet(request'[s])
<1>1. Idle \in RequestRecord /\ FieldsAreSet(Idle)
  BY DEF Idle, RequestRecord, NextCall, FieldsAreSet
<1> QED
  BY <1>1, MoveTyped DEF Finish

\* A call of a creation, or of a route, that fails or succeeds.
LEMMA OutcomeTyped ==
    ASSUME TypeInv, NEW r \in Requests, Fail(r) \/ Succeed(r),
           request[r].next \notin {"idle", "pc:insert"}
    PROVE  /\ request' \in [Requests -> RequestRecord]
           /\ \A s \in Requests : FieldsAreSet(request'[s])
           /\ failed' \subseteq Pcs
<1>1. request[r] \in RequestRecord /\ request[r].pc \in Pcs
  BY DEF TypeInv, TypeOK, FieldsAreSet
<1>2. \A n \in {"pc:undo", "pc:relations"} :
        /\ n \in NextCall
        /\ FieldsAreSet([request[r] EXCEPT !.next = n])
  BY <1>1 DEF NextCall, FieldsAreSet, RequestRecord
<1>3. failed' \subseteq Pcs
  BY <1>1 DEF Fail, Succeed, TypeInv, TypeOK
<1>4. Continue(r, "pc:undo") \/ Continue(r, "pc:relations") \/ Finish(r)
  BY DEF Fail, Succeed
<1> QED
  BY <1>2, <1>3, <1>4, ContinueTyped, FinishTyped

\* A deletion of PCs keeps the tables well typed.
LEMMA DropPcsTyped ==
    ASSUME TypeInv, NEW gone, DropPcs(gone)
    PROVE  /\ DOMAIN owner' \subseteq Pcs
           /\ owner' \in [DOMAIN owner' -> Users]
           /\ link' \subseteq Campaigns \X Pcs
           /\ level' \in [Pcs \X Jobs -> Levels \cup {"none"}]
           /\ relation' \subseteq Pcs \X Things
<1>1. DOMAIN owner' = DOMAIN owner \ gone
  BY DEF DropPcs
<1>2. \A p \in DOMAIN owner' : owner'[p] = owner[p]
  BY DEF DropPcs
<1>3. \A p \in DOMAIN owner : owner[p] \in Users
  BY DEF TypeInv, TypeOK
<1>4. owner' = [p \in DOMAIN owner \ gone |-> owner[p]]
  BY DEF DropPcs
<1>5. owner' \in [DOMAIN owner' -> Users]
  BY <1>1, <1>3, <1>4
<1>6. level' \in [Pcs \X Jobs -> Levels \cup {"none"}]
  BY DEF DropPcs, TypeInv, TypeOK
<1> QED
  BY <1>1, <1>5, <1>6 DEF DropPcs, TypeInv, TypeOK

\* The handlers keep every variable in its type.
LEMMA HandlersKeepTypes ==
    ASSUME TypeInv, NEW r \in Requests, Handlers(r)
    PROVE  TypeInv'
<1> USE DEF tables, history
<1> DEFINE Typed == /\ request' \in [Requests -> RequestRecord]
                    /\ \A s \in Requests : FieldsAreSet(request'[s])
<1>0. request[r] \in RequestRecord /\ FieldsAreSet(request[r])
  BY DEF TypeInv, TypeOK
<1>1. ASSUME NEW u \in Users, NEW c \in Campaigns, StartCreate(r, u, c)
      PROVE  TypeInv'
  <2> DEFINE q == [Idle EXCEPT !.next = "pc:insert", !.creating = TRUE,
                               !.actor = u, !.campaign = c]
  <2>1. q \in RequestRecord /\ FieldsAreSet(q)
    BY DEF Idle, RequestRecord, NextCall, FieldsAreSet
  <2>2. Typed
    BY <1>1, <2>1, StartTyped DEF StartCreate
  <2> QED
    BY <1>1, <2>2 DEF StartCreate, TypeInv, TypeOK
<1>2. CASE PcInsert(r)
  <2> DEFINE u == request[r].actor
  <2>1. ASSUME u \in users, NEW p \in Pcs, InsertPc(p, u), At(r, "pc:insert"),
               request' = [request EXCEPT ![r].next = "pc:link", ![r].pc = p],
               UNCHANGED <<users, campaigns, link, level, relation,
                           linked, created, failed, edited>>
        PROVE  TypeInv'
    <3> DEFINE q == [request[r] EXCEPT !.next = "pc:link", !.pc = p]
    <3>1. q \in RequestRecord
      BY <1>0 DEF RequestRecord, NextCall
    <3>2. FieldsAreSet(q)
      BY <1>0, <2>1 DEF RequestRecord, FieldsAreSet, At
    <3>3. request' = [request EXCEPT ![r] = q]
      BY <2>1 DEF TypeInv, TypeOK
    <3>4. Typed
      BY <3>1, <3>2, <3>3, MoveTyped
    <3>5. u \in Users
      BY <2>1 DEF TypeInv, TypeOK
    <3>6. owner' = [x \in DOMAIN owner \cup {p} |-> IF x = p THEN u ELSE owner[x]]
      BY <2>1 DEF InsertPc
    <3>7. /\ DOMAIN owner' \subseteq Pcs
          /\ owner' \in [DOMAIN owner' -> Users]
      BY <3>5, <3>6 DEF TypeInv, TypeOK
    <3>8. creator' \in [Pcs -> Users \cup {None}]
      BY <2>1, <3>5 DEF InsertPc, TypeInv, TypeOK
    <3> QED
      BY <2>1, <3>4, <3>7, <3>8 DEF TypeInv, TypeOK
  <2>2. CASE /\ Finish(r)
             /\ UNCHANGED <<owner, creator, users, campaigns, link, level, relation,
                            linked, created, failed, edited>>
    BY <2>2, FinishTyped DEF TypeInv, TypeOK
  <2> QED
    BY <1>2, <2>1, <2>2 DEF PcInsert
<1>3. CASE PcLink(r)
  <2>1. Typed /\ failed' \subseteq Pcs
    BY <1>3, OutcomeTyped DEF PcLink, At
  <2>2. request[r].campaign \in Campaigns /\ request[r].pc \in Pcs
    BY <1>0, <1>3 DEF PcLink, At, FieldsAreSet
  <2>3. /\ link' \subseteq Campaigns \X Pcs
        /\ linked' \subseteq Campaigns \X Pcs
        /\ created' \subseteq Campaigns \X Pcs
    BY <1>3, <2>2 DEF PcLink, TypeInv, TypeOK
  <2> QED
    BY <1>3, <2>1, <2>3 DEF PcLink, TypeInv, TypeOK
<1>4. CASE NextRelation(r)
  <2>1. ASSUME NEW j \in Jobs, NEW l \in Levels,
               request' = [request EXCEPT ![r].next = "job:read", ![r].job = j,
                                          ![r].level = l]
        PROVE  Typed
    <3> DEFINE q == [request[r] EXCEPT !.next = "job:read", !.job = j, !.level = l]
    <3>1. q \in RequestRecord
      BY <1>0 DEF RequestRecord, NextCall
    <3>2. FieldsAreSet(q)
      BY <1>0, <1>4 DEF NextRelation, RequestRecord, FieldsAreSet, At
    <3>3. request' = [request EXCEPT ![r] = q]
      BY <2>1 DEF TypeInv, TypeOK
    <3> QED
      BY <3>1, <3>2, <3>3, MoveTyped
  <2>2. ASSUME NEW t \in Things,
               request' = [request EXCEPT ![r].next = "thing:read", ![r].thing = t]
        PROVE  Typed
    <3> DEFINE q == [request[r] EXCEPT !.next = "thing:read", !.thing = t]
    <3>1. q \in RequestRecord
      BY <1>0 DEF RequestRecord, NextCall
    <3>2. FieldsAreSet(q)
      BY <1>0, <1>4 DEF NextRelation, RequestRecord, FieldsAreSet, At
    <3>3. request' = [request EXCEPT ![r] = q]
      BY <2>2 DEF TypeInv, TypeOK
    <3> QED
      BY <3>1, <3>2, <3>3, MoveTyped
  <2>3. Typed
    BY <1>4, <2>1, <2>2, FinishTyped DEF NextRelation
  <2> QED
    BY <1>4, <2>3 DEF NextRelation, TypeInv, TypeOK
<1>5. CASE Undo(r)
  BY <1>5, DropPcsTyped, FinishTyped DEF Undo, TypeInv, TypeOK
<1>6. ASSUME NEW u \in Users, NEW p \in Pcs, StartRelation(r, u, p)
      PROVE  TypeInv'
  <2>1. ASSUME NEW j \in Jobs, NEW l \in Levels,
               Start(r, [Idle EXCEPT !.next = "job:read", !.actor = u, !.pc = p,
                                     !.job = j, !.level = l])
        PROVE  Typed
    <3> DEFINE q == [Idle EXCEPT !.next = "job:read", !.actor = u, !.pc = p,
                                 !.job = j, !.level = l]
    <3>1. q \in RequestRecord /\ FieldsAreSet(q)
      BY DEF Idle, RequestRecord, NextCall, FieldsAreSet
    <3> QED
      BY <2>1, <3>1, StartTyped
  <2>2. ASSUME NEW t \in Things,
               Start(r, [Idle EXCEPT !.next = "thing:read", !.actor = u, !.pc = p,
                                     !.thing = t])
        PROVE  Typed
    <3> DEFINE q == [Idle EXCEPT !.next = "thing:read", !.actor = u, !.pc = p,
                                 !.thing = t]
    <3>1. q \in RequestRecord /\ FieldsAreSet(q)
      BY DEF Idle, RequestRecord, NextCall, FieldsAreSet
    <3> QED
      BY <2>2, <3>1, StartTyped
  <2>3. Typed
    BY <1>6, <2>1, <2>2 DEF StartRelation
  <2> QED
    BY <1>6, <2>3 DEF StartRelation, TypeInv, TypeOK
<1>7. CASE JobRead(r)
  <2>1. FieldsAreSet([request[r] EXCEPT !.next = "job:insert"])
    BY <1>0, <1>7 DEF JobRead, At, FieldsAreSet, RequestRecord
  <2>2. Typed /\ failed' \subseteq Pcs
    <3>1. CASE Continue(r, "job:insert") /\ UNCHANGED failed
      BY <2>1, <3>1, ContinueTyped DEF NextCall, TypeInv, TypeOK
    <3>2. CASE Fail(r)
      BY <1>7, <3>2, OutcomeTyped DEF JobRead, At
    <3> QED
      BY <1>7, <3>1, <3>2 DEF JobRead
  <2> QED
    BY <1>7, <2>2 DEF JobRead, TypeInv, TypeOK
<1>8. CASE JobInsert(r)
  <2>1. Typed /\ failed' \subseteq Pcs
    BY <1>8, OutcomeTyped DEF JobInsert, At
  <2>2. /\ request[r].pc \in Pcs
        /\ request[r].job \in Jobs
        /\ request[r].level \in Levels
    BY <1>0, <1>8 DEF JobInsert, At, FieldsAreSet
  <2>3. level' \in [Pcs \X Jobs -> Levels \cup {"none"}]
    BY <1>8, <2>2 DEF JobInsert, TypeInv, TypeOK
  <2> QED
    BY <1>8, <2>1, <2>3 DEF JobInsert, TypeInv, TypeOK
<1>9. CASE ThingRead(r)
  <2>1. FieldsAreSet([request[r] EXCEPT !.next = "thing:insert"])
    BY <1>0, <1>9 DEF ThingRead, At, FieldsAreSet, RequestRecord
  <2>2. Typed /\ failed' \subseteq Pcs
    <3>1. CASE Continue(r, "thing:insert") /\ UNCHANGED failed
      BY <2>1, <3>1, ContinueTyped DEF NextCall, TypeInv, TypeOK
    <3>2. CASE Fail(r)
      BY <1>9, <3>2, OutcomeTyped DEF ThingRead, At
    <3> QED
      BY <1>9, <3>1, <3>2 DEF ThingRead
  <2> QED
    BY <1>9, <2>2 DEF ThingRead, TypeInv, TypeOK
<1>10. CASE ThingInsert(r)
  <2>1. Typed /\ failed' \subseteq Pcs
    BY <1>10, OutcomeTyped DEF ThingInsert, At
  <2>2. request[r].pc \in Pcs /\ request[r].thing \in Things
    BY <1>0, <1>10 DEF ThingInsert, At, FieldsAreSet
  <2>3. relation' \subseteq Pcs \X Things
    BY <1>10, <2>2 DEF ThingInsert, TypeInv, TypeOK
  <2> QED
    BY <1>10, <2>1, <2>3 DEF ThingInsert, TypeInv, TypeOK
<1>11. ASSUME NEW a \in Users, NEW c \in Campaigns, NEW p \in Pcs,
              StartLink(r, a, c, p)
       PROVE  TypeInv'
  <2> DEFINE q == [Idle EXCEPT !.next = "link:insert", !.actor = a,
                               !.campaign = c, !.pc = p]
  <2>1. q \in RequestRecord /\ FieldsAreSet(q)
    BY DEF Idle, RequestRecord, NextCall, FieldsAreSet
  <2>2. Typed
    BY <1>11, <2>1, StartTyped DEF StartLink
  <2> QED
    BY <1>11, <2>2 DEF StartLink, TypeInv, TypeOK
<1>12. CASE LinkInsert(r)
  <2>1. request[r].campaign \in Campaigns /\ request[r].pc \in Pcs
    BY <1>0, <1>12 DEF LinkInsert, At, FieldsAreSet
  <2>2. link' \subseteq Campaigns \X Pcs /\ linked' \subseteq Campaigns \X Pcs
    BY <1>12, <2>1 DEF LinkInsert, TypeInv, TypeOK
  <2> QED
    BY <1>12, <2>2, FinishTyped DEF LinkInsert, TypeInv, TypeOK
<1>13. ASSUME NEW u \in Users, NEW c \in Campaigns, NEW p \in Pcs,
              StartEdit(r, u, c, p)
       PROVE  TypeInv'
  <2> DEFINE q == [Idle EXCEPT !.next = "edit:write", !.actor = u,
                               !.campaign = c, !.pc = p]
  <2>1. q \in RequestRecord /\ FieldsAreSet(q)
    BY DEF Idle, RequestRecord, NextCall, FieldsAreSet
  <2>2. Typed
    BY <1>13, <2>1, StartTyped DEF StartEdit
  <2> QED
    BY <1>13, <2>2 DEF StartEdit, TypeInv, TypeOK
<1>14. CASE EditWrite(r)
  <2>1. request[r].actor \in Users /\ request[r].pc \in Pcs
    BY <1>0, <1>14 DEF EditWrite, At, FieldsAreSet
  <2>2. edited' \subseteq Users \X Pcs
    BY <1>14, <2>1 DEF EditWrite, TypeInv, TypeOK
  <2> QED
    BY <1>14, <2>2, FinishTyped DEF EditWrite, TypeInv, TypeOK
<1> QED
  BY <1>1, <1>2, <1>3, <1>4, <1>5, <1>6, <1>7, <1>8, <1>9, <1>10, <1>11, <1>12,
     <1>13, <1>14 DEF Handlers

\* Every variable always holds a value of its type, and every request has read
\* the fields that its next call uses.
THEOREM TypeInvariant == Spec => []TypeInv
<1>1. Init => TypeInv
  <2>1. Idle \in RequestRecord /\ FieldsAreSet(Idle)
    BY DEF Idle, RequestRecord, NextCall, FieldsAreSet
  <2> QED
    BY <2>1 DEF Init, TypeInv, TypeOK, Levels
<1>2. TypeInv /\ [Next]_vars => TypeInv'
  <2> SUFFICES ASSUME TypeInv, [Next]_vars PROVE TypeInv'
    OBVIOUS
  <2> USE DEF tables, history
  <2>1. ASSUME NEW c \in Campaigns, NEW p \in Pcs, Unlink(c, p)
        PROVE  TypeInv'
    BY <2>1 DEF Unlink, TypeInv, TypeOK
  <2>2. ASSUME NEW u \in Users, DeleteUser(u)
        PROVE  TypeInv'
    BY <2>2, DropPcsTyped DEF DeleteUser, TypeInv, TypeOK
  <2>3. ASSUME NEW c \in Campaigns, DeleteCampaign(c)
        PROVE  TypeInv'
    BY <2>3 DEF DeleteCampaign, TypeInv, TypeOK
  <2>4. CASE UNCHANGED vars
    BY <2>4 DEF vars, TypeInv, TypeOK
  <2> QED
    BY <2>1, <2>2, <2>3, <2>4, HandlersKeepTypes DEF Next
<1> QED
  BY <1>1, <1>2, PTL DEF Spec

\* The type invariant that the runs check.
THEOREM TypeCorrect == Spec => []TypeOK
<1>1. TypeInv => TypeOK
  BY DEF TypeInv
<1> QED
  BY <1>1, TypeInvariant, PTL

----------------------------------------------------------------------------
(* The safety invariants *)

\* What histories remember: an id keeps its creator, a link stays known.
HistoryGrows ==
    /\ \A p \in Pcs : creator[p] # None => creator'[p] = creator[p]
    /\ linked \subseteq linked'

\* Who may edit a PC once may be recorded as its editor for ever.
LEMMA EntitledStays ==
    ASSUME HistoryGrows, NEW u \in Users, NEW p \in Pcs, Entitled(u, p)
    PROVE  Entitled(u, p)'
BY PcsAssumption DEF HistoryGrows, Entitled

\* What a step has to show: of the requests that move, what they remember and,
\* for a compensation, that it is complete; of the tables, that they keep their
\* parents and that what is gone stays gone; of the histories, that they grow.
LEMMA StepKeepsIInv ==
    ASSUME TypeInv, IInv, NEW R \in SUBSET Requests,
           \A s \in Requests \ R : request'[s] = request[s],
           \A s \in R : Remembers(request[s])',
           \A s \in R, p \in Pcs : At(s, "pc:undo") /\ request[s].pc = p => Gone(p)',
           RowsHaveParents',
           \A p \in DOMAIN owner' : owner'[p] = creator'[p],
           link' \subseteq linked',
           HistoryGrows,
           \A e \in edited' \ edited : Entitled(e[1], e[2])',
           \A p \in failed' \ failed : creator'[p] # None /\ Undoing(p)',
           \A p \in failed : Gone(p) => Gone(p)'
    PROVE  IInv'
<1>1. \A r \in Requests : Remembers(request[r])'
  <2> SUFFICES ASSUME NEW r \in Requests \ R PROVE Remembers(request[r])'
    OBVIOUS
  <2>1. /\ request'[r] = request[r]
        /\ FieldsAreSet(request[r])
        /\ Remembers(request[r])
    BY DEF TypeInv, IInv
  <2>2. request[r].creating /\ request[r].next \notin {"idle", "pc:insert"} =>
          creator'[request[r].pc] # None
    BY <2>1 DEF FieldsAreSet, Remembers, HistoryGrows
  <2>3. ASSUME request[r].next = "edit:write"
        PROVE  Entitled(request[r].actor, request[r].pc)'
    <3>1. PICK u \in Users, p \in Pcs : u = request[r].actor /\ p = request[r].pc
      BY <2>1, <2>3 DEF FieldsAreSet
    <3>2. Entitled(u, p)
      BY <2>1, <2>3, <3>1 DEF Remembers
    <3>3. Entitled(u, p)'
      BY <3>2, EntitledStays
    <3> QED
      BY <2>1, <3>1, <3>3 DEF Entitled
  <2> QED
    BY <2>1, <2>2, <2>3 DEF Remembers
<1>2. EditsStayInCampaign'
  <2>1. \A e \in edited : e[1] \in Users /\ e[2] \in Pcs /\ Entitled(e[1], e[2])
    BY DEF IInv, EditsStayInCampaign, TypeInv, TypeOK
  <2>2. \A e \in edited : Entitled(e[1], e[2])'
    BY <2>1, EntitledStays
  <2> QED
    BY <2>2 DEF EditsStayInCampaign
<1>3. \A p \in failed' : creator'[p] # None
  BY DEF IInv, HistoryGrows, TypeInv, TypeOK
<1>4. FailedLeavesNothing'
  <2> SUFFICES ASSUME NEW p \in failed PROVE Undoing(p)' \/ Gone(p)'
    BY DEF FailedLeavesNothing
  <2>1. CASE Gone(p)
    BY <2>1
  <2>2. CASE Undoing(p)
    <3>1. PICK r \in Requests : At(r, "pc:undo") /\ request[r].pc = p
      BY <2>2 DEF Undoing
    <3>2. CASE r \in R
      BY <3>1, <3>2 DEF TypeInv, TypeOK
    <3>3. CASE r \notin R
      BY <3>1, <3>3 DEF Undoing, At
    <3> QED
      BY <3>2, <3>3
  <2> QED
    BY <2>1, <2>2 DEF IInv, FailedLeavesNothing
<1> QED
  BY <1>1, <1>2, <1>3, <1>4 DEF IInv

\* An answered request has nothing to remember.
LEMMA FinishForgets ==
    ASSUME TypeInv, NEW r \in Requests, Finish(r)
    PROVE  /\ \A s \in Requests \ {r} : request'[s] = request[s]
           /\ Remembers(request[r])'
<1>1. request'[r] = Idle /\ \A s \in Requests \ {r} : request'[s] = request[s]
  BY DEF Finish, TypeInv, TypeOK
<1> QED
  BY <1>1 DEF Remembers, Idle

\* A call that fails or succeeds: a creation that fails goes on to undo its PC.
LEMMA OutcomeRemembers ==
    ASSUME TypeInv, IInv, NEW r \in Requests, Fail(r) \/ Succeed(r),
           request[r].next \notin {"idle", "pc:insert"}, UNCHANGED creator
    PROVE  /\ \A s \in Requests \ {r} : request'[s] = request[s]
           /\ Remembers(request[r])'
           /\ \A p \in failed' \ failed : creator'[p] # None /\ Undoing(p)'
<1>1. CASE ~request[r].creating
  <2>1. Finish(r) /\ UNCHANGED failed
    BY <1>1 DEF Fail, Succeed
  <2> QED
    BY <2>1, FinishForgets
<1>2. CASE request[r].creating
  <2>1. request[r] \in RequestRecord /\ Remembers(request[r])
    BY DEF TypeInv, TypeOK, IInv
  <2>2. creator[request[r].pc] # None
    BY <1>2, <2>1 DEF Remembers
  <2>3. PICK n \in {"pc:undo", "pc:relations"} :
          /\ Continue(r, n)
          /\ \/ UNCHANGED failed
             \/ n = "pc:undo" /\ failed' = failed \cup {request[r].pc}
    BY <1>2 DEF Fail, Succeed
  <2>4. request'[r] = [request[r] EXCEPT !.next = n]
    BY <2>3 DEF Continue, TypeInv, TypeOK
  <2>5. /\ request'[r].next = n
        /\ request'[r].pc = request[r].pc
    BY <2>1, <2>4 DEF RequestRecord
  <2>6. \A s \in Requests \ {r} : request'[s] = request[s]
    BY <2>3 DEF Continue, TypeInv, TypeOK
  <2>7. Remembers(request[r])'
    BY <2>2, <2>3, <2>5 DEF Remembers
  <2>8. \A p \in failed' \ failed : creator'[p] # None /\ Undoing(p)'
    BY <2>2, <2>3, <2>5 DEF Undoing, At
  <2> QED
    BY <2>6, <2>7, <2>8
<1> QED
  BY <1>1, <1>2

\* A step of one request that writes no table.
LEMMA ReadKeepsIInv ==
    ASSUME TypeInv, IInv, NEW r \in Requests, ~At(r, "pc:undo"),
           \A s \in Requests \ {r} : request'[s] = request[s],
           Remembers(request[r])',
           UNCHANGED <<tables, creator, linked, edited>>,
           \A p \in failed' \ failed : creator'[p] # None /\ Undoing(p)'
    PROVE  IInv'
<1>1. RowsHaveParents'
  BY DEF IInv, RowsHaveParents, PcExists, tables
<1>2. /\ \A p \in DOMAIN owner' : owner'[p] = creator'[p]
      /\ link' \subseteq linked'
      /\ HistoryGrows
      /\ \A e \in edited' \ edited : Entitled(e[1], e[2])'
  BY DEF IInv, HistoryGrows, tables
<1>3. \A p \in failed : Gone(p) => Gone(p)'
  BY DEF Gone, PcExists, tables
<1>4. \A s \in {r}, p \in Pcs : At(s, "pc:undo") /\ request[s].pc = p => Gone(p)'
  OBVIOUS
<1>5. \A s \in {r} : Remembers(request[s])'
  OBVIOUS
<1> QED
  BY <1>1, <1>2, <1>3, <1>4, <1>5, StepKeepsIInv, {r} \in SUBSET Requests

\* A request that starts and is no edit.
LEMMA StartKeepsIInv ==
    ASSUME TypeInv, IInv, NEW r \in Requests, NEW q, Start(r, q),
           q.next # "edit:write", q.creating => q.next = "pc:insert",
           UNCHANGED <<tables, history>>
    PROVE  IInv'
<1>1. request'[r] = q /\ \A s \in Requests \ {r} : request'[s] = request[s]
  BY DEF Start, TypeInv, TypeOK
<1>2. Remembers(request[r])'
  BY <1>1 DEF Remembers
<1>3. ~At(r, "pc:undo")
  BY DEF Start, At, Idle
<1> QED
  BY <1>1, <1>2, <1>3, ReadKeepsIInv DEF history

\* INSERT of a link between a campaign and a PC that exist.
LEMMA LinkKeepsIInv ==
    ASSUME TypeInv, IInv, NEW r \in Requests, ~At(r, "pc:undo"),
           \A s \in Requests \ {r} : request'[s] = request[s],
           Remembers(request[r])',
           NEW c, NEW p, Linkable(c, p),
           link' = link \cup {<<c, p>>}, linked' = linked \cup {<<c, p>>},
           UNCHANGED <<users, campaigns, owner, level, relation, creator, failed, edited>>
    PROVE  IInv'
<1>1. RowsHaveParents'
  BY DEF IInv, RowsHaveParents, PcExists, Linkable
<1>2. /\ \A x \in DOMAIN owner' : owner'[x] = creator'[x]
      /\ link' \subseteq linked'
      /\ HistoryGrows
      /\ \A e \in edited' \ edited : Entitled(e[1], e[2])'
      /\ \A x \in failed' \ failed : creator'[x] # None /\ Undoing(x)'
  BY DEF IInv, HistoryGrows
<1>3. \A x \in failed : Gone(x) => Gone(x)'
  BY DEF Gone, PcExists, Linkable
<1>4. \A s \in {r}, x \in Pcs : At(s, "pc:undo") /\ request[s].pc = x => Gone(x)'
  OBVIOUS
<1>5. \A s \in {r} : Remembers(request[s])'
  OBVIOUS
<1> QED
  BY <1>1, <1>2, <1>3, <1>4, <1>5, StepKeepsIInv, {r} \in SUBSET Requests

\* A deletion of PCs removes every row that refers to them, and only those.
LEMMA DropPcsParents ==
    ASSUME TypeInv, IInv, NEW gone, DropPcs(gone)
    PROVE  /\ DOMAIN owner' = DOMAIN owner \ gone
           /\ \A p \in DOMAIN owner' : owner'[p] = owner[p]
           /\ \A l \in link' : l \in link /\ PcExists(l[2])'
           /\ \A x \in Pcs \X Jobs : level'[x] # "none" => PcExists(x[1])'
           /\ \A x \in relation' : PcExists(x[1])'
           /\ \A p \in Pcs : p \in gone \/ Gone(p) => Gone(p)'
<1>1. /\ DOMAIN owner' = DOMAIN owner \ gone
      /\ \A p \in DOMAIN owner' : owner'[p] = owner[p]
  BY DEF DropPcs
<1>2. \A l \in link' : l \in link /\ l[2] \notin gone /\ PcExists(l[2])'
  BY <1>1 DEF DropPcs, IInv, RowsHaveParents, PcExists
<1>3. \A x \in Pcs \X Jobs :
        /\ level'[x] # "none" => level[x] # "none" /\ x[1] \notin gone
        /\ level'[x] # "none" => PcExists(x[1])'
  BY <1>1 DEF DropPcs, IInv, RowsHaveParents, PcExists
<1>4. \A x \in relation' : x \in relation /\ x[1] \notin gone /\ PcExists(x[1])'
  BY <1>1 DEF DropPcs, IInv, RowsHaveParents, PcExists
<1>5. ASSUME NEW p \in Pcs, p \in gone \/ Gone(p)
      PROVE  Gone(p)'
  <2>1. ~PcExists(p)'
    BY <1>1, <1>5 DEF Gone, PcExists
  <2>2. \A l \in link' : l[2] # p
    BY <1>2, <1>5 DEF Gone
  <2>3. \A j \in Jobs : level'[<<p, j>>] = "none"
    BY <1>3, <1>5 DEF Gone
  <2>4. \A x \in relation' : x[1] # p
    BY <1>4, <1>5 DEF Gone
  <2> QED
    BY <2>1, <2>2, <2>3, <2>4 DEF Gone
<1> QED
  BY <1>1, <1>2, <1>3, <1>4, <1>5

\* Every step of a handler keeps the invariant.
LEMMA HandlersKeepIInv ==
    ASSUME TypeInv, IInv, NEW r \in Requests, Handlers(r)
    PROVE  IInv'
<1> USE DEF tables, history
<1>0. /\ request[r] \in RequestRecord
      /\ FieldsAreSet(request[r])
      /\ Remembers(request[r])
  BY DEF TypeInv, TypeOK, IInv
<1>1. ASSUME NEW u \in Users, NEW c \in Campaigns, StartCreate(r, u, c)
      PROVE  IInv'
  BY <1>1, StartKeepsIInv DEF StartCreate, Idle
<1>2. CASE PcInsert(r)
  <2> DEFINE u == request[r].actor
  <2>1. ASSUME u \in users, NEW p \in Pcs, creator[p] = None, InsertPc(p, u),
               request' = [request EXCEPT ![r].next = "pc:link", ![r].pc = p],
               At(r, "pc:insert"),
               UNCHANGED <<users, campaigns, link, level, relation,
                           linked, created, failed, edited>>
        PROVE  IInv'
    <3>1. /\ owner' = [x \in DOMAIN owner \cup {p} |-> IF x = p THEN u ELSE owner[x]]
          /\ creator' = [creator EXCEPT ![p] = u]
      BY <2>1 DEF InsertPc
    <3>2. u \in Users /\ u # None
      BY <2>1, PcsAssumption DEF TypeInv, TypeOK
    <3>3. /\ creator'[p] = u
          /\ \A x \in Pcs \ {p} : creator'[x] = creator[x]
      BY <3>1 DEF TypeInv, TypeOK
    <3>4. /\ DOMAIN owner' = DOMAIN owner \cup {p}
          /\ owner'[p] = u
          /\ \A x \in DOMAIN owner \ {p} : owner'[x] = owner[x]
      BY <3>1
    <3>5. RowsHaveParents'
      BY <2>1, <3>4 DEF IInv, RowsHaveParents, PcExists
    <3>6. \A x \in DOMAIN owner' : owner'[x] = creator'[x]
      BY <3>3, <3>4 DEF IInv, TypeInv, TypeOK
    <3>7. HistoryGrows
      BY <2>1, <3>3 DEF HistoryGrows
    <3>8. \A x \in failed : x # p /\ (Gone(x) => Gone(x)')
      BY <2>1, <3>4 DEF IInv, Gone, PcExists
    <3>9. /\ request'[r].next = "pc:link"
          /\ request'[r].pc = p
          /\ \A s \in Requests \ {r} : request'[s] = request[s]
      BY <1>0, <2>1 DEF TypeInv, TypeOK, RequestRecord
    <3>10. Remembers(request[r])'
      BY <3>2, <3>3, <3>9 DEF Remembers
    <3>11. \A s \in {r}, x \in Pcs : At(s, "pc:undo") /\ request[s].pc = x => Gone(x)'
      BY <2>1 DEF At
    <3>12. \A s \in {r} : Remembers(request[s])'
      BY <3>10
    <3>13. link' \subseteq linked'
      BY <2>1 DEF IInv
    <3> QED
      BY <2>1, <3>5, <3>6, <3>7, <3>8, <3>9, <3>11, <3>12, <3>13, StepKeepsIInv,
         {r} \in SUBSET Requests
  <2>2. CASE /\ Finish(r)
             /\ UNCHANGED <<owner, creator, users, campaigns, link, level, relation,
                            linked, created, failed, edited>>
    BY <1>2, <2>2, FinishForgets, ReadKeepsIInv DEF PcInsert, At
  <2> QED
    BY <1>2, <2>1, <2>2 DEF PcInsert
<1>3. CASE PcLink(r)
  <2> DEFINE c == request[r].campaign
             p == request[r].pc
  <2>1. /\ \A s \in Requests \ {r} : request'[s] = request[s]
        /\ Remembers(request[r])'
        /\ \A x \in failed' \ failed : creator'[x] # None /\ Undoing(x)'
    BY <1>3, OutcomeRemembers DEF PcLink, At
  <2>2. ~At(r, "pc:undo")
    BY <1>3 DEF PcLink, At
  <2>3. CASE Linkable(c, p)
    BY <1>3, <2>1, <2>2, <2>3, LinkKeepsIInv DEF PcLink, Succeed
  <2>4. CASE ~Linkable(c, p)
    BY <1>3, <2>1, <2>2, <2>4, ReadKeepsIInv DEF PcLink
  <2> QED
    BY <2>3, <2>4
<1>4. CASE NextRelation(r)
  <2>1. /\ \A s \in Requests \ {r} : request'[s] = request[s]
        /\ Remembers(request[r])'
    <3>1. ASSUME NEW j \in Jobs, NEW l \in Levels,
                 request' = [request EXCEPT ![r].next = "job:read", ![r].job = j,
                                            ![r].level = l]
          PROVE  <2>1!1 /\ <2>1!2
      <4>1. /\ request'[r].next = "job:read"
            /\ request'[r].creating = request[r].creating
            /\ request'[r].pc = request[r].pc
            /\ \A s \in Requests \ {r} : request'[s] = request[s]
        BY <1>0, <3>1 DEF TypeInv, TypeOK, RequestRecord
      <4> QED
        BY <1>0, <1>4, <4>1 DEF NextRelation, Remembers, At
    <3>2. ASSUME NEW t \in Things,
                 request' = [request EXCEPT ![r].next = "thing:read", ![r].thing = t]
          PROVE  <2>1!1 /\ <2>1!2
      <4>1. /\ request'[r].next = "thing:read"
            /\ request'[r].creating = request[r].creating
            /\ request'[r].pc = request[r].pc
            /\ \A s \in Requests \ {r} : request'[s] = request[s]
        BY <1>0, <3>2 DEF TypeInv, TypeOK, RequestRecord
      <4> QED
        BY <1>0, <1>4, <4>1 DEF NextRelation, Remembers, At
    <3> QED
      BY <1>4, <3>1, <3>2, FinishForgets DEF NextRelation
  <2> QED
    BY <1>4, <2>1, ReadKeepsIInv DEF NextRelation, At
<1>5. CASE Undo(r)
  <2> DEFINE gone == {request[r].pc}
  <2>1. DropPcs(gone)
    BY <1>5 DEF Undo
  <2>2. /\ \A s \in Requests \ {r} : request'[s] = request[s]
        /\ Remembers(request[r])'
    BY <1>5, FinishForgets DEF Undo
  <2>3. /\ DOMAIN owner' = DOMAIN owner \ gone
        /\ \A p \in DOMAIN owner' : owner'[p] = owner[p]
        /\ \A l \in link' : l \in link /\ PcExists(l[2])'
        /\ \A x \in Pcs \X Jobs : level'[x] # "none" => PcExists(x[1])'
        /\ \A x \in relation' : PcExists(x[1])'
        /\ \A p \in Pcs : p \in gone \/ Gone(p) => Gone(p)'
    BY <2>1, DropPcsParents
  <2>4. RowsHaveParents'
    BY <1>5, <2>3 DEF Undo, IInv, RowsHaveParents
  <2>5. /\ \A p \in DOMAIN owner' : owner'[p] = creator'[p]
        /\ link' \subseteq linked'
        /\ HistoryGrows
        /\ edited' = edited /\ failed' = failed
    BY <1>5, <2>3 DEF Undo, IInv, HistoryGrows
  <2>6. \A p \in failed : Gone(p) => Gone(p)'
    BY <2>3 DEF TypeInv, TypeOK
  <2>7. \A s \in {r}, p \in Pcs : At(s, "pc:undo") /\ request[s].pc = p => Gone(p)'
    BY <2>3
  <2>8. \A s \in {r} : Remembers(request[s])'
    BY <2>2
  <2> QED
    BY <2>2, <2>4, <2>5, <2>6, <2>7, <2>8, StepKeepsIInv, {r} \in SUBSET Requests
<1>6. ASSUME NEW u \in Users, NEW p \in Pcs, StartRelation(r, u, p)
      PROVE  IInv'
  <2>1. UNCHANGED <<tables, history>>
    BY <1>6 DEF StartRelation
  <2>2. ASSUME NEW j \in Jobs, NEW l \in Levels,
               Start(r, [Idle EXCEPT !.next = "job:read", !.actor = u, !.pc = p,
                                     !.job = j, !.level = l])
        PROVE  IInv'
    BY <2>1, <2>2, StartKeepsIInv DEF Idle
  <2>3. ASSUME NEW t \in Things,
               Start(r, [Idle EXCEPT !.next = "thing:read", !.actor = u, !.pc = p,
                                     !.thing = t])
        PROVE  IInv'
    BY <2>1, <2>3, StartKeepsIInv DEF Idle
  <2> QED
    BY <1>6, <2>2, <2>3 DEF StartRelation
<1>7. CASE JobRead(r)
  <2>1. /\ \A s \in Requests \ {r} : request'[s] = request[s]
        /\ Remembers(request[r])'
        /\ \A x \in failed' \ failed : creator'[x] # None /\ Undoing(x)'
    <3>1. CASE Fail(r)
      BY <1>7, <3>1, OutcomeRemembers DEF JobRead, At
    <3>2. CASE Continue(r, "job:insert") /\ UNCHANGED failed
      <4>1. /\ request'[r].next = "job:insert"
            /\ request'[r].creating = request[r].creating
            /\ request'[r].pc = request[r].pc
            /\ \A s \in Requests \ {r} : request'[s] = request[s]
        BY <1>0, <3>2 DEF Continue, TypeInv, TypeOK, RequestRecord
      <4> QED
        BY <1>0, <1>7, <3>2, <4>1 DEF JobRead, Remembers, At
    <3> QED
      BY <1>7, <3>1, <3>2 DEF JobRead
  <2> QED
    BY <1>7, <2>1, ReadKeepsIInv DEF JobRead, At
<1>8. CASE JobInsert(r)
  <2> DEFINE p == request[r].pc
             j == request[r].job
  <2>1. /\ \A s \in Requests \ {r} : request'[s] = request[s]
        /\ Remembers(request[r])'
        /\ \A x \in failed' \ failed : creator'[x] # None /\ Undoing(x)'
    BY <1>8, OutcomeRemembers DEF JobInsert, At
  <2>2. CASE UNCHANGED level
    BY <1>8, <2>1, <2>2, ReadKeepsIInv DEF JobInsert, At
  <2>3. CASE /\ PcExists(p) /\ level[<<p, j>>] = "none"
             /\ level' = [level EXCEPT ![<<p, j>>] = request[r].level]
    <3>1. RowsHaveParents'
      BY <1>8, <2>3 DEF JobInsert, IInv, RowsHaveParents, PcExists, TypeInv, TypeOK
    <3>2. \A x \in failed : Gone(x) => Gone(x)'
      BY <1>8, <2>3 DEF JobInsert, Gone, PcExists, TypeInv, TypeOK
    <3>3. /\ \A x \in DOMAIN owner' : owner'[x] = creator'[x]
          /\ link' \subseteq linked'
          /\ HistoryGrows
          /\ edited' = edited
      BY <1>8 DEF JobInsert, IInv, HistoryGrows
    <3>4. \A s \in {r}, x \in Pcs : At(s, "pc:undo") /\ request[s].pc = x => Gone(x)'
      BY <1>8 DEF JobInsert, At
    <3>5. \A s \in {r} : Remembers(request[s])'
      BY <2>1
    <3> QED
      BY <2>1, <3>1, <3>2, <3>3, <3>4, <3>5, StepKeepsIInv, {r} \in SUBSET Requests
  <2> QED
    BY <1>8, <2>2, <2>3 DEF JobInsert
<1>9. CASE ThingRead(r)
  <2>1. /\ \A s \in Requests \ {r} : request'[s] = request[s]
        /\ Remembers(request[r])'
        /\ \A x \in failed' \ failed : creator'[x] # None /\ Undoing(x)'
    <3>1. CASE Fail(r)
      BY <1>9, <3>1, OutcomeRemembers DEF ThingRead, At
    <3>2. CASE Continue(r, "thing:insert") /\ UNCHANGED failed
      <4>1. /\ request'[r].next = "thing:insert"
            /\ request'[r].creating = request[r].creating
            /\ request'[r].pc = request[r].pc
            /\ \A s \in Requests \ {r} : request'[s] = request[s]
        BY <1>0, <3>2 DEF Continue, TypeInv, TypeOK, RequestRecord
      <4> QED
        BY <1>0, <1>9, <3>2, <4>1 DEF ThingRead, Remembers, At
    <3> QED
      BY <1>9, <3>1, <3>2 DEF ThingRead
  <2> QED
    BY <1>9, <2>1, ReadKeepsIInv DEF ThingRead, At
<1>10. CASE ThingInsert(r)
  <2> DEFINE x == <<request[r].pc, request[r].thing>>
  <2>1. /\ \A s \in Requests \ {r} : request'[s] = request[s]
        /\ Remembers(request[r])'
        /\ \A p \in failed' \ failed : creator'[p] # None /\ Undoing(p)'
    BY <1>10, OutcomeRemembers DEF ThingInsert, At
  <2>2. CASE UNCHANGED relation
    BY <1>10, <2>1, <2>2, ReadKeepsIInv DEF ThingInsert, At
  <2>3. CASE PcExists(x[1]) /\ relation' = relation \cup {x}
    <3>1. RowsHaveParents'
      BY <1>10, <2>3 DEF ThingInsert, IInv, RowsHaveParents, PcExists
    <3>2. \A p \in failed : Gone(p) => Gone(p)'
      BY <1>10, <2>3 DEF ThingInsert, Gone, PcExists
    <3>3. /\ \A p \in DOMAIN owner' : owner'[p] = creator'[p]
          /\ link' \subseteq linked'
          /\ HistoryGrows
          /\ edited' = edited
      BY <1>10 DEF ThingInsert, IInv, HistoryGrows
    <3>4. \A s \in {r}, p \in Pcs : At(s, "pc:undo") /\ request[s].pc = p => Gone(p)'
      BY <1>10 DEF ThingInsert, At
    <3>5. \A s \in {r} : Remembers(request[s])'
      BY <2>1
    <3> QED
      BY <2>1, <3>1, <3>2, <3>3, <3>4, <3>5, StepKeepsIInv, {r} \in SUBSET Requests
  <2> QED
    BY <1>10, <2>2, <2>3 DEF ThingInsert
<1>11. ASSUME NEW a \in Users, NEW c \in Campaigns, NEW p \in Pcs,
              StartLink(r, a, c, p)
       PROVE  IInv'
  BY <1>11, StartKeepsIInv DEF StartLink, Idle
<1>12. CASE LinkInsert(r)
  <2> DEFINE c == request[r].campaign
             p == request[r].pc
  <2>1. /\ \A s \in Requests \ {r} : request'[s] = request[s]
        /\ Remembers(request[r])'
        /\ ~At(r, "pc:undo")
    BY <1>12, FinishForgets DEF LinkInsert, At
  <2>2. CASE Linkable(c, p)
    BY <1>12, <2>1, <2>2, LinkKeepsIInv DEF LinkInsert
  <2>3. CASE ~Linkable(c, p)
    BY <1>12, <2>1, <2>3, ReadKeepsIInv DEF LinkInsert
  <2> QED
    BY <2>2, <2>3
<1>13. ASSUME NEW u \in Users, NEW c \in Campaigns, NEW p \in Pcs,
              StartEdit(r, u, c, p)
       PROVE  IInv'
  <2>1. Entitled(u, p)
    BY <1>13 DEF StartEdit, Entitled, PcExists, IInv
  <2>2. /\ request'[r] = [Idle EXCEPT !.next = "edit:write", !.actor = u,
                                      !.campaign = c, !.pc = p]
        /\ \A s \in Requests \ {r} : request'[s] = request[s]
    BY <1>13 DEF StartEdit, Start, TypeInv, TypeOK
  <2>3. Remembers(request[r])'
    BY <1>13, <2>1, <2>2 DEF StartEdit, Remembers, Entitled, Idle
  <2>4. ~At(r, "pc:undo")
    BY <1>13 DEF StartEdit, Start, At, Idle
  <2> QED
    BY <1>13, <2>2, <2>3, <2>4, ReadKeepsIInv DEF StartEdit
<1>14. CASE EditWrite(r)
  <2>1. /\ \A s \in Requests \ {r} : request'[s] = request[s]
        /\ Remembers(request[r])'
    BY <1>14, FinishForgets DEF EditWrite
  <2>2. RowsHaveParents'
    BY <1>14 DEF EditWrite, IInv, RowsHaveParents, PcExists
  <2>3. /\ \A x \in DOMAIN owner' : owner'[x] = creator'[x]
        /\ link' \subseteq linked'
        /\ HistoryGrows
        /\ failed' = failed
    BY <1>14 DEF EditWrite, IInv, HistoryGrows
  <2>4. \A e \in edited' \ edited : Entitled(e[1], e[2])'
    BY <1>0, <1>14 DEF EditWrite, Remembers, At, Entitled
  <2>5. \A x \in failed : Gone(x) => Gone(x)'
    BY <1>14 DEF EditWrite, Gone, PcExists
  <2>6. \A s \in {r}, x \in Pcs : At(s, "pc:undo") /\ request[s].pc = x => Gone(x)'
    BY <1>14 DEF EditWrite, At
  <2>7. \A s \in {r} : Remembers(request[s])'
    BY <2>1
  <2> QED
    BY <2>1, <2>2, <2>3, <2>4, <2>5, <2>6, <2>7, StepKeepsIInv, {r} \in SUBSET Requests
<1> QED
  BY <1>1, <1>2, <1>3, <1>4, <1>5, <1>6, <1>7, <1>8, <1>9, <1>10, <1>11, <1>12,
     <1>13, <1>14 DEF Handlers

\* The strengthened invariant holds in every state, whatever requests overlap.
THEOREM SafetyInvariant == Spec => []IInv
<1>1. Init => IInv
  <2> SUFFICES ASSUME Init PROVE IInv
    OBVIOUS
  <2>1. DOMAIN owner = {} /\ link = {} /\ relation = {} /\ failed = {} /\ edited = {}
    BY DEF Init
  <2>2. RowsHaveParents
    BY <2>1 DEF Init, RowsHaveParents
  <2>3. \A r \in Requests : Remembers(request[r])
    BY DEF Init, Remembers, Idle
  <2> QED
    BY <2>1, <2>2, <2>3 DEF IInv, FailedLeavesNothing, EditsStayInCampaign
<1>2. TypeInv /\ IInv /\ [Next]_vars => IInv'
  <2> SUFFICES ASSUME TypeInv, IInv, [Next]_vars PROVE IInv'
    OBVIOUS
  <2> USE DEF tables, history
  <2>0. ASSUME UNCHANGED <<request, creator, linked, failed, edited>>,
               RowsHaveParents',
               \A p \in DOMAIN owner' : owner'[p] = creator'[p],
               link' \subseteq linked',
               \A p \in failed : Gone(p) => Gone(p)'
        PROVE  IInv'
    <3>1. HistoryGrows
      BY <2>0 DEF HistoryGrows
    <3> QED
      BY <2>0, <3>1, StepKeepsIInv, {} \in SUBSET Requests
  <2>1. ASSUME NEW c \in Campaigns, NEW p \in Pcs, Unlink(c, p)
        PROVE  IInv'
    <3>1. RowsHaveParents'
      BY <2>1 DEF Unlink, IInv, RowsHaveParents, PcExists
    <3>2. \A x \in failed : Gone(x) => Gone(x)'
      BY <2>1 DEF Unlink, Gone, PcExists
    <3>3. /\ \A x \in DOMAIN owner' : owner'[x] = creator'[x]
          /\ link' \subseteq linked'
      BY <2>1 DEF Unlink, IInv
    <3> QED
      BY <2>0, <2>1, <3>1, <3>2, <3>3 DEF Unlink
  <2>2. ASSUME NEW u \in Users, DeleteUser(u)
        PROVE  IInv'
    <3> DEFINE gone == {p \in DOMAIN owner : owner[p] = u}
    <3>1. DropPcs(gone) /\ users' = users \ {u} /\ UNCHANGED campaigns
      BY <2>2 DEF DeleteUser
    <3>2. /\ DOMAIN owner' = DOMAIN owner \ gone
          /\ \A p \in DOMAIN owner' : owner'[p] = owner[p]
          /\ \A l \in link' : l \in link /\ PcExists(l[2])'
          /\ \A x \in Pcs \X Jobs : level'[x] # "none" => PcExists(x[1])'
          /\ \A x \in relation' : PcExists(x[1])'
          /\ \A p \in Pcs : p \in gone \/ Gone(p) => Gone(p)'
      BY <3>1, DropPcsParents
    <3>3. RowsHaveParents'
      BY <3>1, <3>2 DEF IInv, RowsHaveParents
    <3>4. /\ \A x \in DOMAIN owner' : owner'[x] = creator'[x]
          /\ link' \subseteq linked'
      BY <2>2, <3>2 DEF DeleteUser, IInv
    <3>5. \A x \in failed : Gone(x) => Gone(x)'
      BY <3>2 DEF TypeInv, TypeOK
    <3> QED
      BY <2>0, <2>2, <3>3, <3>4, <3>5 DEF DeleteUser
  <2>3. ASSUME NEW c \in Campaigns, DeleteCampaign(c)
        PROVE  IInv'
    <3>1. RowsHaveParents'
      BY <2>3 DEF DeleteCampaign, IInv, RowsHaveParents, PcExists
    <3>2. \A x \in failed : Gone(x) => Gone(x)'
      BY <2>3 DEF DeleteCampaign, Gone, PcExists
    <3>3. /\ \A x \in DOMAIN owner' : owner'[x] = creator'[x]
          /\ link' \subseteq linked'
      BY <2>3 DEF DeleteCampaign, IInv
    <3> QED
      BY <2>0, <2>3, <3>1, <3>2, <3>3 DEF DeleteCampaign
  <2>4. CASE UNCHANGED vars
    <3>1. RowsHaveParents' /\ \A x \in failed : Gone(x) => Gone(x)'
      BY <2>4 DEF vars, IInv, RowsHaveParents, Gone, PcExists
    <3>2. /\ \A x \in DOMAIN owner' : owner'[x] = creator'[x]
          /\ link' \subseteq linked'
      BY <2>4 DEF vars, IInv
    <3> QED
      BY <2>0, <2>4, <3>1, <3>2 DEF vars
  <2> QED
    BY <2>1, <2>2, <2>3, <2>4, HandlersKeepIInv DEF Next
<1> QED
  BY <1>1, <1>2, TypeInvariant, PTL DEF Spec

\* No row outlives the PC, the account or the campaign that it refers to.
THEOREM NothingDangles == Spec => []RowsHaveParents
<1>1. IInv => RowsHaveParents
  BY DEF IInv
<1> QED
  BY <1>1, SafetyInvariant, PTL

\* A creation that fails after the INSERT of the PC leaves no row of that PC, once
\* its compensation has run.
THEOREM CompensationIsComplete == Spec => []FailedLeavesNothing
<1>1. IInv => FailedLeavesNothing
  BY DEF IInv
<1> QED
  BY <1>1, SafetyInvariant, PTL

\* Whoever edits a PC made it, or was a master of a campaign it was linked to.
THEOREM OnlyTheEntitledEdit == Spec => []EditsStayInCampaign
<1>1. IInv => EditsStayInCampaign
  BY DEF IInv
<1> QED
  BY <1>1, SafetyInvariant, PTL
----------------------------------------------------------------------------
(* How far requests that overlap go past the limits *)

\* The creations of a player past the COUNT of his PCs, whose link is still to come.
Creating(u, c) ==
    {r \in Requests : /\ At(r, "pc:insert") \/ At(r, "pc:link")
                      /\ request[r].actor = u /\ request[r].campaign = c}

\* The requests past validateUnmasteredJobLimit for a job that the PC is to learn.
Teaching(p) ==
    {r \in Requests : /\ At(r, "job:insert")
                      /\ request[r].pc = p /\ request[r].level = "learning"}

\* A link that a creation made is there, as long as its campaign and its PC are, and
\* is of a player who is no master; its PC is the one that the request inserted.
CreationsTraced ==
    /\ created \subseteq linked
    /\ \A l \in linked : creator[l[2]] # None
    /\ \A l \in created :
          /\ <<l[1], creator[l[2]]>> \notin MasterOf
          /\ l \in link \/ l[1] \notin campaigns \/ ~PcExists(l[2])
    /\ \A r \in Requests : At(r, "pc:link") =>
          request[r].actor \in Users /\ creator[request[r].pc] = request[r].actor

\* What is written and what is past its check, together: a request adds to the second
\* only when the first is below the limit, and what it writes leaves the second.
PcsCounted ==
    \A u \in Users, c \in Campaigns :
        <<c, u>> \notin MasterOf =>
            Cardinality(CreatedBy(u, c)) + Cardinality(Creating(u, c))
                <= PcLimit - 1 + Cardinality(Requests)

JobsCounted ==
    \A p \in Pcs :
        Cardinality(Learning(p)) + Cardinality(Teaching(p))
            <= UnmasteredLimit - 1 + Cardinality(Requests)

Counted == CreationsTraced /\ PcsCounted /\ JobsCounted

\* Two finite sets that lose elements, or of which one gives an element to the other.
LEMMA SumShrinks ==
    ASSUME NEW S, IsFiniteSet(S), NEW T, IsFiniteSet(T),
           NEW A \in SUBSET S, NEW B \in SUBSET T,
           NEW n \in Int, Cardinality(S) + Cardinality(T) <= n
    PROVE  Cardinality(A) + Cardinality(B) <= n
<1>1. /\ Cardinality(S) \in Nat /\ Cardinality(T) \in Nat
      /\ Cardinality(A) <= Cardinality(S) /\ Cardinality(B) <= Cardinality(T)
      /\ IsFiniteSet(A) /\ IsFiniteSet(B)
  BY FS_Subset, FS_CardinalityType
<1>2. Cardinality(A) \in Nat /\ Cardinality(B) \in Nat
  BY <1>1, FS_CardinalityType
<1> QED
  BY <1>1, <1>2

LEMMA SumMoves ==
    ASSUME NEW S, IsFiniteSet(S), NEW T, IsFiniteSet(T), NEW x, NEW y \in T,
           NEW n \in Int, Cardinality(S) + Cardinality(T) <= n
    PROVE  /\ IsFiniteSet(S \cup {x}) /\ IsFiniteSet(T \ {y})
           /\ Cardinality(S \cup {x}) + Cardinality(T \ {y}) <= n
<1>1. Cardinality(S) \in Nat /\ Cardinality(T) \in Nat
  BY FS_CardinalityType
<1>2. IsFiniteSet(S \cup {x}) /\ Cardinality(S \cup {x}) <= Cardinality(S) + 1
  <2>1. /\ IsFiniteSet(S \cup {x})
        /\ \/ Cardinality(S \cup {x}) = Cardinality(S)
           \/ Cardinality(S \cup {x}) = Cardinality(S) + 1
    BY FS_AddElement, Zenon
  <2> QED
    BY <1>1, <2>1
<1>3. IsFiniteSet(T \ {y}) /\ Cardinality(T \ {y}) = Cardinality(T) - 1
  BY FS_RemoveElement
<1>4. Cardinality(S \cup {x}) \in Nat
  BY <1>2, FS_CardinalityType
<1> QED
  BY <1>1, <1>2, <1>3, <1>4

\* A set that its check has seen below the limit, and any requests.
LEMMA SumWithinSlots ==
    ASSUME NEW S, IsFiniteSet(S), NEW n \in Nat, Cardinality(S) < n,
           NEW A \in SUBSET S, NEW B \in SUBSET Requests
    PROVE  Cardinality(A) + Cardinality(B) <= n - 1 + Cardinality(Requests)
<1>1. /\ Cardinality(S) \in Nat /\ Cardinality(Requests) \in Nat
  BY FS_CardinalityType, PcsAssumption
<1>2. Cardinality(S) + Cardinality(Requests) <= n - 1 + Cardinality(Requests)
  BY <1>1
<1>3. n - 1 + Cardinality(Requests) \in Int
  BY <1>1
<1> QED
  BY <1>2, <1>3, SumShrinks, PcsAssumption

LEMMA CountsFinite ==
    ASSUME TypeInv
    PROVE  /\ \A u, c : /\ IsFiniteSet(OwnPcsIn(u, c)) /\ IsFiniteSet(CreatedBy(u, c))
                        /\ IsFiniteSet(Creating(u, c))
           /\ \A p : IsFiniteSet(Learning(p)) /\ IsFiniteSet(Teaching(p))
           /\ PcLimit - 1 + Cardinality(Requests) \in Int
           /\ UnmasteredLimit - 1 + Cardinality(Requests) \in Int
<1>1. /\ \A u, c : /\ OwnPcsIn(u, c) \in SUBSET Pcs /\ CreatedBy(u, c) \in SUBSET Pcs
                   /\ Creating(u, c) \in SUBSET Requests
      /\ \A p : Learning(p) \in SUBSET Jobs /\ Teaching(p) \in SUBSET Requests
  BY DEF OwnPcsIn, CreatedBy, Creating, Learning, Teaching, TypeInv, TypeOK
<1>2. Cardinality(Requests) \in Nat
  BY FS_CardinalityType, PcsAssumption
<1> QED
  BY <1>1, <1>2, FS_Subset, PcsAssumption

\* Nothing is learned, and no request passes the check of the jobs.
LEMMA JobsFrame ==
    ASSUME TypeInv, JobsCounted,
           \A x \in Pcs \X Jobs : level'[x] = "learning" => level[x] = "learning",
           \A s \in Requests : request'[s].next = "job:insert" => request'[s] = request[s]
    PROVE  JobsCounted'
<1> SUFFICES ASSUME NEW p \in Pcs
             PROVE  Cardinality(Learning(p)') + Cardinality(Teaching(p)')
                       <= UnmasteredLimit - 1 + Cardinality(Requests)
  BY DEF JobsCounted
<1>1. Learning(p)' \in SUBSET Learning(p) /\ Teaching(p)' \in SUBSET Teaching(p)
  BY DEF Learning, Teaching, At
<1> QED
  BY <1>1, CountsFinite, SumShrinks DEF JobsCounted

\* No link is made by a creation, and no request passes the count of the PCs.
LEMMA PcsFrame ==
    ASSUME TypeInv, PcsCounted,
           \A l \in created' : l \in link' =>
              /\ l \in created /\ l \in link /\ l[2] \in DOMAIN owner
              /\ l[2] \in DOMAIN owner' => owner'[l[2]] = owner[l[2]],
           \A s \in Requests : request'[s].next \in {"pc:insert", "pc:link"} =>
              /\ request[s].next \in {"pc:insert", "pc:link"}
              /\ request'[s].actor = request[s].actor
              /\ request'[s].campaign = request[s].campaign
    PROVE  PcsCounted'
<1> SUFFICES ASSUME NEW u \in Users, NEW c \in Campaigns, <<c, u>> \notin MasterOf
             PROVE  Cardinality(CreatedBy(u, c)') + Cardinality(Creating(u, c)')
                       <= PcLimit - 1 + Cardinality(Requests)
  BY DEF PcsCounted
<1>1. CreatedBy(u, c)' \in SUBSET CreatedBy(u, c)
  BY DEF CreatedBy, OwnPcsIn
<1>2. Creating(u, c)' \in SUBSET Creating(u, c)
  BY DEF Creating, At
<1> QED
  BY <1>1, <1>2, CountsFinite, SumShrinks DEF PcsCounted

\* No link comes, and no PC is inserted.
LEMMA TracedFrame ==
    ASSUME TypeInv, CreationsTraced, UNCHANGED <<linked, creator>>, created' \subseteq created,
           \A l \in created' : \/ l \in link => l \in link'
                              \/ l[1] \notin campaigns' \/ l[2] \notin DOMAIN owner',
           campaigns' \subseteq campaigns, DOMAIN owner' \subseteq DOMAIN owner,
           \A s \in Requests : request'[s].next = "pc:link" => request'[s] = request[s]
    PROVE  CreationsTraced'
BY DEF CreationsTraced, At, PcExists

\* A request that moves to a call that nothing is counted for.
Calm(r) ==
    /\ \A s \in Requests \ {r} : request'[s] = request[s]
    /\ request'[r].next \notin {"pc:insert", "pc:link", "job:insert"}

LEMMA CalmKeepsCounted ==
    ASSUME TypeInv, Counted, NEW r \in Requests, Calm(r),
           UNCHANGED <<campaigns, owner, link, level, creator, linked, created>>, IInv
    PROVE  Counted'
<1>1. \A s \in Requests :
         request'[s].next \in {"pc:insert", "pc:link", "job:insert"} => request'[s] = request[s]
  BY DEF Calm
<1>2. \A l \in link : l[2] \in DOMAIN owner
  BY DEF IInv, RowsHaveParents, PcExists
<1> QED
  BY <1>1, <1>2, JobsFrame, PcsFrame, TracedFrame DEF Counted

LEMMA FinishIsCalm ==
    ASSUME TypeInv, NEW r \in Requests, Finish(r)
    PROVE  Calm(r)
BY DEF Finish, Calm, TypeInv, TypeOK, Idle

LEMMA OutcomeIsCalm ==
    ASSUME TypeInv, NEW r \in Requests, Fail(r) \/ Succeed(r)
    PROVE  Calm(r)
<1>1. ASSUME NEW n \in {"pc:undo", "pc:relations"}, Continue(r, n)
      PROVE  Calm(r)
  BY <1>1 DEF Continue, Calm, TypeInv, TypeOK, RequestRecord
<1> QED
  BY <1>1, FinishIsCalm DEF Fail, Succeed
\* POST /:campaignId/pcs.
LEMMA StartCreateKeepsCounted ==
    ASSUME TypeInv, IInv, Counted, NEW r \in Requests, NEW u \in Users, NEW c \in Campaigns,
           StartCreate(r, u, c)
    PROVE  Counted'
<1>1. /\ UNCHANGED <<campaigns, owner, link, level, creator, linked, created>>
      /\ \A s \in Requests \ {r} : request'[s] = request[s]
      /\ request'[r].next = "pc:insert" /\ request'[r].actor = u /\ request'[r].campaign = c
      /\ <<c, u>> \in MasterOf \/ Cardinality(OwnPcsIn(u, c)) < PcLimit
  BY DEF StartCreate, Start, Idle, TypeInv, TypeOK, tables, history
<1>2. CreationsTraced' /\ JobsCounted'
  BY <1>1, TracedFrame, JobsFrame DEF Counted
<1>3. ASSUME NEW v \in Users, NEW d \in Campaigns, <<d, v>> \notin MasterOf
      PROVE  Cardinality(CreatedBy(v, d)') + Cardinality(Creating(v, d)')
                <= PcLimit - 1 + Cardinality(Requests)
  <2>1. /\ CreatedBy(v, d)' = CreatedBy(v, d) /\ CreatedBy(v, d) \in SUBSET OwnPcsIn(v, d)
        /\ Creating(v, d)' \in SUBSET Requests
    BY <1>1 DEF CreatedBy, OwnPcsIn, Creating
  <2>2. CASE v = u /\ d = c
    BY <1>1, <1>3, <2>1, <2>2, SumWithinSlots, CountsFinite, PcsAssumption
  <2>3. CASE ~(v = u /\ d = c)
    <3>1. Creating(v, d)' \in SUBSET Creating(v, d)
      BY <1>1, <2>3 DEF Creating, At
    <3> QED
      BY <1>3, <2>1, <3>1, CountsFinite, SumShrinks DEF Counted, PcsCounted
  <2> QED
    BY <2>2, <2>3
<1> QED
  BY <1>2, <1>3 DEF Counted, PcsCounted

\* A fresh id has no link yet, in whatever campaign.
LEMMA PcInsertKeepsCounted ==
    ASSUME TypeInv, IInv, Counted, NEW r \in Requests, PcInsert(r)
    PROVE  Counted'
<1>1. CASE Finish(r) /\ UNCHANGED <<owner, creator>>
  BY <1>1, FinishIsCalm, CalmKeepsCounted DEF PcInsert
<1>2. ASSUME NEW p \in Pcs, creator[p] = None, InsertPc(p, request[r].actor),
             request' = [request EXCEPT ![r].next = "pc:link", ![r].pc = p]
      PROVE  Counted'
  <2> DEFINE u == request[r].actor
  <2>1. /\ request[r] \in RequestRecord /\ request[r].next = "pc:insert" /\ u \in Users
        /\ UNCHANGED <<campaigns, link, level, linked, created>>
    BY DEF PcInsert, At, TypeInv, TypeOK, FieldsAreSet
  <2>2. /\ \A s \in Requests \ {r} : request'[s] = request[s]
        /\ request'[r].next = "pc:link" /\ request'[r].pc = p
        /\ request'[r].actor = u /\ request'[r].campaign = request[r].campaign
    BY <1>2, <2>1 DEF TypeInv, TypeOK, RequestRecord
  <2>3. /\ p \notin DOMAIN owner /\ u # None
        /\ \A x \in DOMAIN owner : owner'[x] = owner[x]
        /\ creator'[p] = u /\ \A x \in Pcs \ {p} : creator'[x] = creator[x]
    BY <1>2, <2>1, PcsAssumption DEF InsertPc, IInv, TypeInv, TypeOK
  <2>4. DOMAIN owner' = DOMAIN owner \cup {p}
    BY <1>2 DEF InsertPc
  <2>5. /\ \A l \in link : l[2] \in DOMAIN owner
        /\ \A l \in linked : l[2] \in Pcs \ {p}
        /\ \A s \in Requests : At(s, "pc:link") => request[s].pc \in Pcs \ {p}
    <3>1. \A l \in linked : l[2] \in Pcs /\ creator[l[2]] # None
      BY DEF Counted, CreationsTraced, TypeInv, TypeOK
    <3>2. \A s \in Requests : At(s, "pc:link") =>
             request[s].pc \in Pcs /\ creator[request[s].pc] # None
      BY PcsAssumption DEF Counted, CreationsTraced, TypeInv, FieldsAreSet, At
    <3> QED
      BY <1>2, <3>1, <3>2 DEF IInv, RowsHaveParents, PcExists
  <2> HIDE DEF u
  <2>6. CreationsTraced'
    <3>1. created' \subseteq linked' /\ \A l \in linked' : creator'[l[2]] # None
      BY <2>1, <2>3, <2>5 DEF Counted, CreationsTraced
    <3>2. ASSUME NEW l \in created'
          PROVE  /\ <<l[1], creator'[l[2]]>> \notin MasterOf
                 /\ l \in link' \/ l[1] \notin campaigns' \/ l[2] \notin DOMAIN owner'
      <4>1. l \in created /\ l[2] \in Pcs \ {p}
        BY <2>1, <2>5 DEF Counted, CreationsTraced
      <4> QED
        BY <2>1, <2>3, <2>4, <4>1 DEF Counted, CreationsTraced, PcExists
    <3>3. \A s \in Requests : request'[s].next = "pc:link" =>
             /\ request'[s].actor \in Users
             /\ creator'[request'[s].pc] = request'[s].actor
      BY <2>1, <2>2, <2>3, <2>5 DEF Counted, CreationsTraced, At
    <3> QED
      BY <3>1, <3>2, <3>3 DEF CreationsTraced, At, PcExists
  <2>7. JobsCounted'
    BY <2>1, <2>2, JobsFrame DEF Counted
  <2>8. PcsCounted'
    <3>1. \A l \in created' : l \in link' =>
             /\ l \in created /\ l \in link /\ l[2] \in DOMAIN owner
             /\ owner'[l[2]] = owner[l[2]]
      BY <2>1, <2>3, <2>5
    <3>2. \A s \in Requests : request'[s].next \in {"pc:insert", "pc:link"} =>
             /\ request[s].next \in {"pc:insert", "pc:link"}
             /\ request'[s].actor = request[s].actor
             /\ request'[s].campaign = request[s].campaign
      BY <2>1, <2>2 DEF u
    <3> QED
      BY <3>1, <3>2, PcsFrame DEF Counted
  <2> QED
    BY <2>6, <2>7, <2>8 DEF Counted
<1> QED
  BY <1>1, <1>2 DEF PcInsert

\* The link that the creation makes, of the PC that it inserted for its caller.
LEMMA PcLinkKeepsCounted ==
    ASSUME TypeInv, IInv, Counted, NEW r \in Requests, PcLink(r)
    PROVE  Counted'
<1> DEFINE c == request[r].campaign
           p == request[r].pc
           u == request[r].actor
<1>1. /\ request[r].next = "pc:link"
      /\ c \in Campaigns /\ p \in Pcs /\ u \in Users /\ creator[p] = u
      /\ UNCHANGED <<users, campaigns, owner, level, relation, creator, edited>>
  BY DEF PcLink, At, TypeInv, FieldsAreSet, Counted, CreationsTraced
<1>2. Calm(r)
  BY OutcomeIsCalm DEF PcLink
<1>3. CASE ~Linkable(c, p)
  BY <1>1, <1>2, <1>3, CalmKeepsCounted DEF PcLink
<1>4. CASE Linkable(c, p)
  <2>1. /\ link' = link \cup {<<c, p>>} /\ linked' = linked \cup {<<c, p>>}
        /\ created' = IF <<c, u>> \in MasterOf THEN created ELSE created \cup {<<c, p>>}
        /\ c \in campaigns /\ p \in DOMAIN owner /\ <<c, p>> \notin link
        /\ owner[p] = u /\ u # None
    BY <1>1, <1>4, PcsAssumption DEF PcLink, Linkable, PcExists, IInv
  <2>2. \A s \in Requests : request'[s].next \in {"pc:insert", "pc:link", "job:insert"} =>
           s # r /\ request'[s] = request[s]
    BY <1>2 DEF Calm
  <2>3. <<c, p>> \notin created
    BY <2>1 DEF Counted, CreationsTraced, PcExists
  <2> HIDE DEF c, p, u
  <2>4. CreationsTraced'
    <3>1. created' \subseteq linked' /\ \A l \in linked' : creator'[l[2]] # None
      BY <1>1, <2>1 DEF Counted, CreationsTraced
    <3>2. ASSUME NEW l \in created'
          PROVE  /\ <<l[1], creator'[l[2]]>> \notin MasterOf
                 /\ l \in link' \/ l[1] \notin campaigns' \/ l[2] \notin DOMAIN owner'
      BY <1>1, <2>1 DEF Counted, CreationsTraced, PcExists
    <3> QED
      BY <1>1, <2>2, <3>1, <3>2 DEF Counted, CreationsTraced, At, PcExists
  <2>5. JobsCounted'
    BY <1>1, <2>2, JobsFrame DEF Counted
  <2>6. CASE <<c, u>> \in MasterOf
    <3>1. \A l \in created' : l \in link' => l \in created /\ l \in link
      BY <2>1, <2>3, <2>6
    <3> QED
      BY <1>1, <2>2, <2>4, <2>5, <3>1, PcsFrame DEF Counted, IInv, RowsHaveParents, PcExists
  <2>7. CASE <<c, u>> \notin MasterOf
    <3>1. ASSUME NEW v \in Users, NEW d \in Campaigns, <<d, v>> \notin MasterOf
          PROVE  Cardinality(CreatedBy(v, d)') + Cardinality(Creating(v, d)')
                    <= PcLimit - 1 + Cardinality(Requests)
      <4>1. Cardinality(CreatedBy(v, d)) + Cardinality(Creating(v, d))
               <= PcLimit - 1 + Cardinality(Requests)
        BY <3>1 DEF Counted, PcsCounted
      <4>2. CASE v = u /\ d = c
        <5>1. CreatedBy(v, d)' \in SUBSET (CreatedBy(v, d) \cup {p})
          BY <1>1, <2>1 DEF CreatedBy, OwnPcsIn
        <5>2. r \in Creating(v, d) /\ Creating(v, d)' \in SUBSET (Creating(v, d) \ {r})
          BY <1>1, <2>2, <4>2 DEF Creating, At, c, u
        <5> QED
          <6>1. /\ IsFiniteSet(CreatedBy(v, d) \cup {p}) /\ IsFiniteSet(Creating(v, d) \ {r})
                /\ Cardinality(CreatedBy(v, d) \cup {p}) + Cardinality(Creating(v, d) \ {r})
                      <= PcLimit - 1 + Cardinality(Requests)
            BY <4>1, <5>2, CountsFinite, SumMoves
          <6> QED
            BY <5>1, <5>2, <6>1, CountsFinite, SumShrinks
      <4>3. CASE ~(v = u /\ d = c)
        <5>1. CreatedBy(v, d)' \in SUBSET CreatedBy(v, d)
          BY <1>1, <2>1, <4>3 DEF CreatedBy, OwnPcsIn
        <5>2. Creating(v, d)' \in SUBSET Creating(v, d)
          BY <2>2 DEF Creating, At
        <5> QED
          BY <4>1, <5>1, <5>2, CountsFinite, SumShrinks
      <4> QED
        BY <4>2, <4>3
    <3> QED
      BY <2>4, <2>5, <3>1 DEF Counted, PcsCounted
  <2> QED
    BY <2>6, <2>7
<1> QED
  BY <1>3, <1>4

\* validateUnmasteredJobLimit, and the INSERT that follows it.
LEMMA JobReadKeepsCounted ==
    ASSUME TypeInv, IInv, Counted, NEW r \in Requests, JobRead(r)
    PROVE  Counted'
<1> DEFINE p == request[r].pc
<1>1. /\ request[r].next = "job:read" /\ request[r] \in RequestRecord /\ p \in Pcs
      /\ UNCHANGED <<campaigns, owner, link, level, creator, linked, created>>
  BY DEF JobRead, At, TypeInv, TypeOK, FieldsAreSet, tables
<1>2. CASE Fail(r)
  BY <1>1, <1>2, OutcomeIsCalm, CalmKeepsCounted
<1>3. ASSUME Continue(r, "job:insert"),
             request[r].level = "mastered" \/ Cardinality(Learning(p)) < UnmasteredLimit
      PROVE  Counted'
  <2>1. /\ \A s \in Requests \ {r} : request'[s] = request[s]
        /\ request'[r] = [request[r] EXCEPT !.next = "job:insert"]
    BY <1>3 DEF Continue, TypeInv, TypeOK
  <2>2. /\ request'[r].next = "job:insert" /\ request'[r].pc = p
        /\ request'[r].level = request[r].level
    BY <1>1, <2>1 DEF RequestRecord
  <2> HIDE DEF p
  <2>3. CreationsTraced'
    BY <1>1, <2>1, <2>2, TracedFrame DEF Counted
  <2>4. PcsCounted'
    BY <1>1, <2>1, <2>2, PcsFrame DEF Counted, IInv, RowsHaveParents, PcExists
  <2>5. ASSUME NEW x \in Pcs
        PROVE  Cardinality(Learning(x)') + Cardinality(Teaching(x)')
                  <= UnmasteredLimit - 1 + Cardinality(Requests)
    <3>1. Learning(x)' = Learning(x) /\ Teaching(x)' \in SUBSET Requests
      BY <1>1 DEF Learning, Teaching
    <3>2. CASE x = p /\ request[r].level # "mastered"
      BY <1>3, <3>1, <3>2, SumWithinSlots, CountsFinite, PcsAssumption
    <3>3. CASE ~(x = p /\ request[r].level # "mastered")
      <4>1. Teaching(x)' \in SUBSET Teaching(x)
        BY <2>1, <2>2, <3>3 DEF Teaching, At
      <4> QED
        BY <3>1, <4>1, CountsFinite, SumShrinks DEF Counted, JobsCounted
    <3> QED
      BY <3>2, <3>3
  <2> QED
    BY <2>3, <2>4, <2>5 DEF Counted, JobsCounted
<1> QED
  BY <1>2, <1>3 DEF JobRead

LEMMA JobInsertKeepsCounted ==
    ASSUME TypeInv, IInv, Counted, NEW r \in Requests, JobInsert(r)
    PROVE  Counted'
<1> DEFINE p == request[r].pc
           j == request[r].job
<1>1. /\ request[r].next = "job:insert" /\ p \in Pcs /\ j \in Jobs
      /\ UNCHANGED <<campaigns, owner, link, creator, linked, created>>
  BY DEF JobInsert, At, TypeInv, FieldsAreSet
<1>2. Calm(r)
  BY OutcomeIsCalm DEF JobInsert
<1>3. CASE UNCHANGED level
  BY <1>1, <1>2, <1>3, CalmKeepsCounted
<1>4. CASE level' = [level EXCEPT ![<<p, j>>] = request[r].level]
  <2>1. \A s \in Requests : request'[s].next \in {"pc:insert", "pc:link", "job:insert"} =>
           s # r /\ request'[s] = request[s]
    BY <1>2 DEF Calm
  <2>2. \A x \in Pcs, i \in Jobs :
           level'[<<x, i>>] = IF x = p /\ i = j THEN request[r].level ELSE level[<<x, i>>]
    BY <1>1, <1>4 DEF TypeInv, TypeOK
  <2> HIDE DEF p, j
  <2>3. CreationsTraced' /\ PcsCounted'
    BY <1>1, <2>1, TracedFrame, PcsFrame DEF Counted, IInv, RowsHaveParents, PcExists
  <2>4. ASSUME NEW x \in Pcs
        PROVE  Cardinality(Learning(x)') + Cardinality(Teaching(x)')
                  <= UnmasteredLimit - 1 + Cardinality(Requests)
    <3>1. CASE x = p /\ request[r].level = "learning"
      <4>1. Learning(x)' \in SUBSET (Learning(x) \cup {j})
        BY <2>2 DEF Learning
      <4>2. r \in Teaching(x) /\ Teaching(x)' \in SUBSET (Teaching(x) \ {r})
        BY <1>1, <2>1, <3>1 DEF Teaching, At, p
      <4>3. Cardinality(Learning(x)) + Cardinality(Teaching(x))
               <= UnmasteredLimit - 1 + Cardinality(Requests)
        BY DEF Counted, JobsCounted
      <4>4. /\ IsFiniteSet(Learning(x) \cup {j}) /\ IsFiniteSet(Teaching(x) \ {r})
            /\ Cardinality(Learning(x) \cup {j}) + Cardinality(Teaching(x) \ {r})
                  <= UnmasteredLimit - 1 + Cardinality(Requests)
        BY <4>2, <4>3, CountsFinite, SumMoves
      <4> QED
        BY <4>1, <4>2, <4>4, CountsFinite, SumShrinks
    <3>2. CASE ~(x = p /\ request[r].level = "learning")
      <4>1. Learning(x)' \in SUBSET Learning(x)
        BY <2>2, <3>2 DEF Learning
      <4>2. Teaching(x)' \in SUBSET Teaching(x)
        BY <2>1 DEF Teaching, At
      <4> QED
        BY <4>1, <4>2, CountsFinite, SumShrinks DEF Counted, JobsCounted
    <3> QED
      BY <3>1, <3>2
  <2> QED
    BY <2>3, <2>4 DEF Counted, JobsCounted
<1> QED
  BY <1>1, <1>3, <1>4 DEF JobInsert

\* Links by hand: a link that a creation made is there already.
LEMMA LinkInsertKeepsCounted ==
    ASSUME TypeInv, IInv, Counted, NEW r \in Requests, LinkInsert(r)
    PROVE  Counted'
<1> DEFINE c == request[r].campaign
           p == request[r].pc
<1>1. /\ UNCHANGED <<campaigns, owner, level, creator, created>> /\ Calm(r)
  BY FinishIsCalm DEF LinkInsert
<1>2. CASE ~Linkable(c, p)
  BY <1>1, <1>2, CalmKeepsCounted DEF LinkInsert
<1>3. CASE Linkable(c, p)
  <2>1. /\ link' = link \cup {<<c, p>>} /\ linked' = linked \cup {<<c, p>>}
        /\ c \in campaigns /\ p \in DOMAIN owner /\ <<c, p>> \notin link
    BY <1>3 DEF LinkInsert, Linkable, PcExists
  <2>2. \A s \in Requests : request'[s].next \in {"pc:insert", "pc:link", "job:insert"} =>
           request'[s] = request[s]
    BY <1>1 DEF Calm
  <2> HIDE DEF c, p
  <2>3. creator[p] # None
    <3>1. owner[p] \in Users /\ owner[p] = creator[p]
      BY <2>1 DEF IInv, TypeInv, TypeOK
    <3> QED
      BY <3>1, PcsAssumption
  <2>4. <<c, p>> \notin created
    BY <2>1 DEF Counted, CreationsTraced, PcExists
  <2>5. CreationsTraced'
    BY <1>1, <2>1, <2>2, <2>3, <2>4 DEF Counted, CreationsTraced, At, PcExists
  <2>6. JobsCounted'
    BY <1>1, <2>2, JobsFrame DEF Counted
  <2>7. PcsCounted'
    BY <1>1, <2>1, <2>2, <2>4, PcsFrame DEF Counted, IInv, RowsHaveParents, PcExists
  <2> QED
    BY <2>5, <2>6, <2>7 DEF Counted
<1> QED
  BY <1>2, <1>3

\* Deletions: PCs go with their levels and links.
LEMMA DropKeepsCounted ==
    ASSUME TypeInv, IInv, Counted, NEW gone, DropPcs(gone),
           UNCHANGED <<campaigns, creator, linked, created>>,
           \A s \in Requests : request'[s].next \in {"pc:insert", "pc:link", "job:insert"} =>
              request'[s] = request[s]
    PROVE  Counted'
<1>1. /\ DOMAIN owner' = DOMAIN owner \ gone
      /\ \A x \in DOMAIN owner' : owner'[x] = owner[x]
      /\ link' = {l \in link : l[2] \notin gone}
      /\ \A x \in Pcs \X Jobs : level'[x] = "learning" => level[x] = "learning"
  BY DEF DropPcs
<1>2. JobsCounted'
  BY <1>1, JobsFrame DEF Counted
<1>3. PcsCounted'
  BY <1>1, PcsFrame DEF Counted, IInv, RowsHaveParents, PcExists
<1>4. CreationsTraced'
  BY <1>1, TracedFrame DEF Counted
<1> QED
  BY <1>2, <1>3, <1>4 DEF Counted

\* The steps that read, or that write what is not counted.
LEMMA OthersAreCalm ==
    ASSUME TypeInv, NEW r \in Requests,
           \/ NextRelation(r) \/ ThingRead(r) \/ ThingInsert(r) \/ EditWrite(r)
           \/ \E u \in Users, p \in Pcs : StartRelation(r, u, p)
           \/ \E a \in Users, c \in Campaigns, p \in Pcs : StartLink(r, a, c, p)
           \/ \E u \in Users, c \in Campaigns, p \in Pcs : StartEdit(r, u, c, p)
    PROVE  /\ Calm(r)
           /\ UNCHANGED <<campaigns, owner, link, level, creator, linked, created>>
<1>1. ASSUME NEW n \in {"thing:read", "thing:insert", "job:read", "link:insert", "edit:write"},
             NEW q, q.next = n, request' = [request EXCEPT ![r] = q]
      PROVE  Calm(r)
  BY <1>1 DEF Calm, TypeInv, TypeOK
<1>2. request[r] \in RequestRecord /\ request = [s \in Requests |-> request[s]]
  BY DEF TypeInv, TypeOK
<1>3. CASE NextRelation(r)
  <2>1. ASSUME NEW j \in Jobs, NEW l \in Levels,
               request' = [request EXCEPT ![r].next = "job:read", ![r].job = j, ![r].level = l]
        PROVE  Calm(r)
    BY <1>2, <2>1 DEF Calm, RequestRecord
  <2>2. ASSUME NEW t \in Things,
               request' = [request EXCEPT ![r].next = "thing:read", ![r].thing = t]
        PROVE  Calm(r)
    BY <1>2, <2>2 DEF Calm, RequestRecord
  <2> QED
    BY <1>3, <2>1, <2>2, FinishIsCalm DEF NextRelation, tables, history
<1>4. CASE ThingRead(r) \/ ThingInsert(r)
  <2>1. Continue(r, "thing:insert") => Calm(r)
    BY <1>2 DEF Continue, Calm, RequestRecord
  <2> QED
    BY <1>4, <2>1, OutcomeIsCalm DEF ThingRead, ThingInsert, tables
<1>5. CASE EditWrite(r)
  BY <1>5, FinishIsCalm DEF EditWrite, tables
<1>6. ASSUME NEW u \in Users, NEW p \in Pcs, StartRelation(r, u, p)
      PROVE  Calm(r)
  BY <1>2, <1>6 DEF StartRelation, Start, Idle, Calm
<1>7. ASSUME NEW a \in Users, NEW c \in Campaigns, NEW p \in Pcs,
             StartLink(r, a, c, p) \/ StartEdit(r, a, c, p)
      PROVE  Calm(r)
  BY <1>2, <1>7 DEF StartLink, StartEdit, Start, Idle, Calm
<1> QED
  BY <1>3, <1>4, <1>5, <1>6, <1>7 DEF StartRelation, StartLink, StartEdit, tables, history

\* What is counted stays within the limits and the slots, whatever requests overlap.
THEOREM CountInvariant == Spec => []Counted
<1>1. Init => Counted
  <2> SUFFICES ASSUME Init PROVE Counted
    OBVIOUS
  <2>1. CreationsTraced
    BY DEF Init, CreationsTraced, At, Idle
  <2>2. /\ \A u, c : CreatedBy(u, c) = {} /\ Creating(u, c) = {}
        /\ \A p \in Pcs : Learning(p) = {} /\ Teaching(p) = {}
    BY DEF Init, CreatedBy, OwnPcsIn, Creating, Learning, Teaching, At, Idle
  <2>3. Cardinality(Requests) \in Nat /\ Cardinality({}) = 0
    BY FS_CardinalityType, FS_EmptySet, PcsAssumption
  <2>4. /\ 0 + 0 <= PcLimit - 1 + Cardinality(Requests)
        /\ 0 + 0 <= UnmasteredLimit - 1 + Cardinality(Requests)
    BY <2>3, PcsAssumption
  <2> QED
    BY <2>1, <2>2, <2>3, <2>4 DEF Counted, PcsCounted, JobsCounted
<1>2. TypeInv /\ IInv /\ Counted /\ [Next]_vars => Counted'
  <2> SUFFICES ASSUME TypeInv, IInv, Counted, [Next]_vars PROVE Counted'
    OBVIOUS
  <2>1. CASE UNCHANGED vars
    <3>1. CreationsTraced' /\ PcsCounted' /\ JobsCounted'
      BY <2>1, TracedFrame, PcsFrame, JobsFrame
         DEF vars, tables, history, Counted, IInv, RowsHaveParents, PcExists
    <3> QED
      BY <3>1 DEF Counted
  <2>2. ASSUME NEW c \in Campaigns, NEW p \in Pcs, Unlink(c, p)
        PROVE  Counted'
    <3>1. CreationsTraced' /\ PcsCounted' /\ JobsCounted'
      BY <2>2, TracedFrame, PcsFrame, JobsFrame
         DEF Unlink, Counted, IInv, RowsHaveParents, PcExists
    <3> QED
      BY <3>1 DEF Counted
  <2>3. ASSUME NEW u \in Users, DeleteUser(u)
        PROVE  Counted'
    BY <2>3, DropKeepsCounted DEF DeleteUser, history
  <2>4. ASSUME NEW c \in Campaigns, DeleteCampaign(c)
        PROVE  Counted'
    <3>1. CreationsTraced' /\ PcsCounted' /\ JobsCounted'
      BY <2>4, TracedFrame, PcsFrame, JobsFrame
         DEF DeleteCampaign, history, Counted, IInv, RowsHaveParents, PcExists
    <3> QED
      BY <3>1 DEF Counted
  <2>5. ASSUME NEW r \in Requests, Handlers(r)
        PROVE  Counted'
    <3>1. CASE Undo(r)
      <4>1. \A s \in Requests :
               request'[s].next \in {"pc:insert", "pc:link", "job:insert"} =>
                  request'[s] = request[s]
        BY <3>1, FinishIsCalm DEF Undo, Calm
      <4> QED
        BY <3>1, <4>1, DropKeepsCounted DEF Undo, history
    <3> QED
      BY <2>5, <3>1, StartCreateKeepsCounted, PcInsertKeepsCounted, PcLinkKeepsCounted,
         JobReadKeepsCounted, JobInsertKeepsCounted, LinkInsertKeepsCounted,
         OthersAreCalm, CalmKeepsCounted DEF Handlers
  <2> QED
    BY <2>1, <2>2, <2>3, <2>4, <2>5 DEF Next
<1> QED
  BY <1>1, <1>2, TypeInvariant, SafetyInvariant, PTL DEF Spec

\* However many creations overlap, each goes past the limit of PCs by one at most.
THEOREM PcOvershootIsBounded == Spec => []PcLimitOvershoot
<1>1. TypeInv /\ IInv /\ Counted => PcLimitOvershoot
  <2> SUFFICES ASSUME TypeInv, IInv, Counted, NEW u \in Users, NEW c \in Campaigns
               PROVE  Cardinality(CreatedBy(u, c)) < PcLimit + Cardinality(Requests)
    BY DEF PcLimitOvershoot
  <2>1. /\ Cardinality(CreatedBy(u, c)) \in Nat /\ Cardinality(Creating(u, c)) \in Nat
        /\ Cardinality(Requests) \in Nat
    BY CountsFinite, FS_CardinalityType, PcsAssumption
  <2>2. CASE <<c, u>> \in MasterOf
    <3>1. CreatedBy(u, c) = {}
      BY <2>2 DEF CreatedBy, OwnPcsIn, Counted, CreationsTraced, IInv
    <3> QED
      BY <2>1, <3>1, FS_EmptySet, PcsAssumption
  <2>3. CASE <<c, u>> \notin MasterOf
    <3>1. Cardinality(CreatedBy(u, c)) + Cardinality(Creating(u, c))
             <= PcLimit - 1 + Cardinality(Requests)
      BY <2>3 DEF Counted, PcsCounted
    <3> QED
      BY <2>1, <3>1, PcsAssumption
  <2> QED
    BY <2>2, <2>3
<1> QED
  BY <1>1, CountInvariant, TypeInvariant, SafetyInvariant, PTL

\* However many requests overlap, each goes past the limit of jobs by one at most.
THEOREM JobOvershootIsBounded == Spec => []UnmasteredOvershoot
<1>1. TypeInv /\ Counted => UnmasteredOvershoot
  <2> SUFFICES ASSUME TypeInv, Counted, NEW p \in Pcs
               PROVE  Cardinality(Learning(p)) < UnmasteredLimit + Cardinality(Requests)
    BY DEF UnmasteredOvershoot
  <2>1. /\ Cardinality(Learning(p)) \in Nat /\ Cardinality(Teaching(p)) \in Nat
        /\ Cardinality(Requests) \in Nat
    BY CountsFinite, FS_CardinalityType, PcsAssumption
  <2>2. Cardinality(Learning(p)) + Cardinality(Teaching(p))
           <= UnmasteredLimit - 1 + Cardinality(Requests)
    BY DEF Counted, JobsCounted
  <2> QED
    BY <2>1, <2>2, PcsAssumption
<1> QED
  BY <1>1, CountInvariant, TypeInvariant, PTL
=============================================================================
