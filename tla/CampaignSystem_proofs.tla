----------------------- MODULE CampaignSystem_proofs -----------------------
(***************************************************************************)
(* Proofs about CampaignSystem, for any number of users, campaigns,        *)
(* invitations and overlapping requests.                                   *)
(***************************************************************************)
EXTENDS CampaignSystem, TLAPS

----------------------------------------------------------------------------
(* How the request operators and the statements keep the types *)

\* A new request, of fields of their types, is a request.
LEMMA StartTyped ==
    ASSUME TypeOK, NEW r \in Requests, NEW n \in NextCall,
           NEW a \in Users \cup {Admin, None}, NEW c \in Campaigns \cup {None},
           NEW t \in Users \cup {None}, NEW i \in Invitations \cup {None},
           NEW rl \in Roles \cup {"none"}, Start(r, n, a, c, t, i, rl)
    PROVE  /\ request' \in [Requests -> RequestRecord]
           /\ request'[r] = [next |-> n, actor |-> a, campaign |-> c, target |-> t,
                             invitation |-> i, role |-> rl]
           /\ \A s \in Requests \ {r} : request'[s] = request[s]
<1> DEFINE rec == [next |-> n, actor |-> a, campaign |-> c, target |-> t,
                   invitation |-> i, role |-> rl]
<1>1. rec \in RequestRecord
  BY DEF RequestRecord
<1>2. request' = [request EXCEPT ![r] = rec]
  BY DEF Start
<1> QED
  BY <1>1, <1>2 DEF TypeOK

\* A request that goes on to its next call stays a request, and keeps its fields.
LEMMA ContinueTyped ==
    ASSUME TypeOK, NEW r \in Requests, NEW n \in NextCall, Continue(r, n)
    PROVE  /\ request' \in [Requests -> RequestRecord]
           /\ request'[r] = [request[r] EXCEPT !.next = n]
           /\ \A s \in Requests \ {r} : request'[s] = request[s]
BY DEF TypeOK, Continue, RequestRecord

\* An answered request leaves its slot idle.
LEMMA FinishTyped ==
    ASSUME TypeOK, NEW r \in Requests, Finish(r)
    PROVE  /\ request' \in [Requests -> RequestRecord]
           /\ request'[r] = Idle
           /\ \A s \in Requests \ {r} : request'[s] = request[s]
<1>1. Idle \in RequestRecord
  BY DEF Idle, RequestRecord, NextCall, Roles
<1> QED
  BY <1>1 DEF TypeOK, Finish

\* Writing one member row keeps the table and its histories well typed.
LEMMA SetRoleTyped ==
    ASSUME TypeOK, NEW c \in Campaigns, NEW u \in Users,
           NEW rl \in Roles \cup {"none"}, SetRole(c, u, rl)
    PROVE  /\ role' \in [Pairs -> Roles \cup {"none"}]
           /\ joined' \subseteq Pairs
           /\ mastered' \subseteq Pairs
BY DEF TypeOK, SetRole, Pairs

\* UPDATE of a status keeps every row, and all of it but the status.
LEMMA UpdateStatusTyped ==
    ASSUME TypeOK, NEW i, NEW s \in Statuses, UpdateStatus(i, s)
    PROVE  /\ DOMAIN invitation' = DOMAIN invitation
           /\ invitation' \in [DOMAIN invitation -> InvitationRow]
           /\ \A j \in DOMAIN invitation :
                /\ invitation'[j].campaign = invitation[j].campaign
                /\ invitation'[j].inviter = invitation[j].inviter
                /\ invitation'[j].invitee = invitation[j].invitee
                /\ invitation'[j].status = IF j = i THEN s ELSE invitation[j].status
<1>1. \A j \in DOMAIN invitation : [invitation[j] EXCEPT !.status = s] \in InvitationRow
  BY DEF TypeOK, InvitationRow
<1>2. \A j \in DOMAIN invitation : invitation[j] \in InvitationRow
  BY DEF TypeOK
<1>3. \A j \in DOMAIN invitation :
         invitation'[j] = IF j = i THEN [invitation[j] EXCEPT !.status = s]
                                   ELSE invitation[j]
  BY DEF UpdateStatus
<1>4. DOMAIN invitation' = DOMAIN invitation
  BY DEF UpdateStatus
<1>5. invitation' \in [DOMAIN invitation -> InvitationRow]
  BY <1>1, <1>2, <1>4 DEF UpdateStatus
<1> QED
  BY <1>2, <1>3, <1>4, <1>5 DEF InvitationRow

\* INSERT of an invitation adds one row under an id that was never used.
LEMMA InsertInvitationTyped ==
    ASSUME TypeOK, NEW c \in Campaigns, NEW a \in Users, NEW u \in Users,
           InsertInvitation(c, a, u)
    PROVE  /\ usedInvitations' \subseteq Invitations
           /\ usedInvitations \subseteq usedInvitations'
           /\ DOMAIN invitation' \subseteq usedInvitations'
           /\ invitation' \in [DOMAIN invitation' -> InvitationRow]
           /\ \A j \in DOMAIN invitation' :
                \/ j \in DOMAIN invitation /\ invitation'[j] = invitation[j]
                \/ j \notin usedInvitations /\ invitation'[j] = NewInvitation(c, a, u)
<1>1. PICK i \in Invitations \ usedInvitations :
         /\ usedInvitations' = usedInvitations \cup {i}
         /\ invitation' = [j \in DOMAIN invitation \cup {i} |->
              IF j = i THEN NewInvitation(c, a, u) ELSE invitation[j]]
  BY DEF InsertInvitation
<1>2. NewInvitation(c, a, u) \in InvitationRow
  BY StoreAssumption DEF NewInvitation, InvitationRow, Statuses
<1>3. /\ DOMAIN invitation' = DOMAIN invitation \cup {i}
      /\ \A j \in DOMAIN invitation' :
           invitation'[j] = IF j = i THEN NewInvitation(c, a, u) ELSE invitation[j]
  BY <1>1
<1>4. i \notin DOMAIN invitation
  BY <1>1 DEF TypeOK
<1>5. \A j \in DOMAIN invitation' : invitation'[j] \in InvitationRow
  BY <1>2, <1>3 DEF TypeOK
<1>6. invitation' \in [DOMAIN invitation' -> InvitationRow]
  BY <1>1, <1>3, <1>5
<1> QED
  BY <1>1, <1>3, <1>4, <1>6 DEF TypeOK

\* What cascades from a deletion: exactly the rows that refer to what is gone.
LEMMA CascadeTyped ==
    ASSUME TypeOK, NEW cs, NEW us, Cascade(cs, us)
    PROVE  /\ role' \in [Pairs -> Roles \cup {"none"}]
           /\ \A p \in Pairs :
                role'[p] = IF p[1] \in cs \/ p[2] \in us THEN "none" ELSE role[p]
           /\ DOMAIN invitation' \subseteq DOMAIN invitation
           /\ invitation' \in [DOMAIN invitation' -> InvitationRow]
           /\ \A i \in DOMAIN invitation' :
                /\ invitation'[i] = invitation[i]
                /\ invitation[i].campaign \notin cs
                /\ invitation[i].inviter \notin us
                /\ invitation[i].invitee \notin us
<1>1. /\ role' = [p \in Pairs |->
           IF p[1] \in cs \/ p[2] \in us THEN "none" ELSE role[p]]
      /\ invitation' =
           [i \in {j \in DOMAIN invitation :
                      /\ invitation[j].campaign \notin cs
                      /\ invitation[j].inviter \notin us
                      /\ invitation[j].invitee \notin us} |-> invitation[i]]
  BY DEF Cascade
<1>2. role' \in [Pairs -> Roles \cup {"none"}]
  BY <1>1 DEF TypeOK
<1>3. /\ DOMAIN invitation' = {j \in DOMAIN invitation :
                                 /\ invitation[j].campaign \notin cs
                                 /\ invitation[j].inviter \notin us
                                 /\ invitation[j].invitee \notin us}
      /\ \A i \in DOMAIN invitation' : invitation'[i] = invitation[i]
  BY <1>1
<1>4. \A i \in DOMAIN invitation' : invitation'[i] \in InvitationRow
  BY <1>3 DEF TypeOK
<1>5. invitation' \in [DOMAIN invitation' -> InvitationRow]
  BY <1>1, <1>3, <1>4
<1> QED
  BY <1>1, <1>2, <1>3, <1>5

\* The clock changes no field of a row but "left".
LEMMA TickTyped ==
    ASSUME TypeOK, Tick
    PROVE  /\ DOMAIN invitation' = DOMAIN invitation
           /\ invitation' \in [DOMAIN invitation -> InvitationRow]
           /\ \A i \in DOMAIN invitation :
                /\ invitation'[i].campaign = invitation[i].campaign
                /\ invitation'[i].inviter = invitation[i].inviter
                /\ invitation'[i].invitee = invitation[i].invitee
                /\ invitation'[i].status = invitation[i].status
<1> DEFINE old(i) == invitation[i].status = "pending" /\ invitation[i].left \notin {-1, Never}
           aged(i) == [invitation[i] EXCEPT !.left = @ - 1]
<1>1. invitation' = [i \in DOMAIN invitation |-> IF old(i) THEN aged(i) ELSE invitation[i]]
  BY DEF Tick
<1>2. \A i \in DOMAIN invitation : invitation[i] \in InvitationRow
  BY DEF TypeOK
<1>3. ASSUME NEW i \in DOMAIN invitation, old(i)
      PROVE  aged(i) \in InvitationRow
  <2>1. invitation[i].left \in 0..TTL
    BY <1>2, <1>3, StoreAssumption DEF InvitationRow
  <2>2. invitation[i].left - 1 \in -1..TTL
    BY <2>1, StoreAssumption
  <2> QED
    BY <1>2, <2>2 DEF InvitationRow
<1>4. invitation' \in [DOMAIN invitation -> InvitationRow]
  <2> HIDE DEF old, aged
  <2> QED
    BY <1>1, <1>2, <1>3
<1>5. \A i \in DOMAIN invitation :
         /\ aged(i).campaign = invitation[i].campaign
         /\ aged(i).inviter = invitation[i].inviter
         /\ aged(i).invitee = invitation[i].invitee
         /\ aged(i).status = invitation[i].status
  BY <1>2 DEF InvitationRow
<1> HIDE DEF old, aged
<1> QED
  BY <1>1, <1>4, <1>5

----------------------------------------------------------------------------
(* Type correctness *)

\* Only the request that moves can lose a field that it needs.
LEMMA OthersKeepFields ==
    ASSUME TypeInv, NEW r \in Requests,
           \A s \in Requests \ {r} : request'[s] = request[s], FieldsAreSet(r)'
    PROVE  \A s \in Requests : FieldsAreSet(s)'
BY DEF TypeInv, FieldsAreSet

\* A step that writes no table.
LEMMA ReadKeepsTypes ==
    ASSUME TypeInv, NEW r \in Requests, UNCHANGED <<tables, history>>,
           request' \in [Requests -> RequestRecord],
           \A s \in Requests \ {r} : request'[s] = request[s], FieldsAreSet(r)'
    PROVE  TypeInv'
<1>1. \A s \in Requests : FieldsAreSet(s)'
  BY OthersKeepFields
<1> QED
  BY <1>1 DEF TypeInv, TypeOK, tables, history

\* An answered request needs no field.
LEMMA FinishKeepsFields ==
    ASSUME TypeInv, NEW r \in Requests, Finish(r)
    PROVE  /\ request' \in [Requests -> RequestRecord]
           /\ \A s \in Requests : FieldsAreSet(s)'
<1>1. /\ request' \in [Requests -> RequestRecord]
      /\ request'[r] = Idle
      /\ \A s \in Requests \ {r} : request'[s] = request[s]
  BY FinishTyped DEF TypeInv
<1>2. FieldsAreSet(r)'
  BY <1>1 DEF FieldsAreSet, Idle
<1> QED
  BY <1>1, <1>2, OthersKeepFields

\* A request that starts has the fields its first call uses.
LEMMA StartKeepsTypes ==
    ASSUME TypeInv, NEW r \in Requests, NEW n \in NextCall,
           NEW a \in Users \cup {Admin, None}, NEW c \in Campaigns \cup {None},
           NEW t \in Users \cup {None}, NEW i \in Invitations \cup {None},
           NEW rl \in Roles \cup {"none"}, Start(r, n, a, c, t, i, rl),
           UNCHANGED <<tables, history>>,
           n \in {"send:member", "send:active", "send:insert", "add:insert",
                 "role:member", "role:write", "remove:member", "remove:write"} =>
             c \in Campaigns /\ t \in Users,
           n \in {"add:insert", "role:member", "role:write"} => rl \in Roles,
           n \in {"send:member", "send:active", "send:insert",
                 "accept:commit", "create:insert", "create:member"} => a \in Users,
           n \in {"accept:commit", "create:member", "create:undo", "delete:write"} =>
             c \in Campaigns
    PROVE  TypeInv'
<1>1. /\ request' \in [Requests -> RequestRecord]
      /\ request'[r] = [next |-> n, actor |-> a, campaign |-> c, target |-> t,
                        invitation |-> i, role |-> rl]
      /\ \A s \in Requests \ {r} : request'[s] = request[s]
  BY StartTyped DEF TypeInv
<1>2. FieldsAreSet(r)'
  BY <1>1 DEF FieldsAreSet
<1> QED
  BY <1>1, <1>2, ReadKeepsTypes

\* A check that fails answers the request, one that passes takes it to the
\* next call, which uses no field that this one did not.
LEMMA CheckKeepsTypes ==
    ASSUME TypeInv, NEW r \in Requests, NEW n \in NextCall,
           Finish(r) \/ Continue(r, n), UNCHANGED <<tables, history>>,
           FieldsAreSet(r) =>
             LET q == [request[r] EXCEPT !.next = n] IN
             /\ n \in {"send:member", "send:active", "send:insert", "add:insert",
                      "role:member", "role:write", "remove:member", "remove:write"} =>
                  q.campaign \in Campaigns /\ q.target \in Users
             /\ n \in {"add:insert", "role:member", "role:write"} => q.role \in Roles
             /\ n \in {"send:member", "send:active", "send:insert",
                      "accept:commit", "create:insert", "create:member"} =>
                  q.actor \in Users
             /\ n \in {"accept:commit", "create:member", "create:undo",
                      "delete:write"} => q.campaign \in Campaigns
    PROVE  TypeInv'
<1>1. CASE Finish(r)
  BY <1>1, FinishKeepsFields DEF TypeInv, TypeOK, tables, history
<1>2. CASE Continue(r, n)
  <2>1. /\ request' \in [Requests -> RequestRecord]
        /\ request'[r] = [request[r] EXCEPT !.next = n]
        /\ \A s \in Requests \ {r} : request'[s] = request[s]
    BY <1>2, ContinueTyped DEF TypeInv
  <2>2. request[r] \in RequestRecord
    BY DEF TypeInv, TypeOK
  <2>3. request'[r].next = n
    BY <2>1, <2>2 DEF RequestRecord
  <2>4. FieldsAreSet(r)
    BY DEF TypeInv
  <2>5. FieldsAreSet(r)'
    BY <2>1, <2>3, <2>4 DEF FieldsAreSet
  <2> QED
    BY <2>1, <2>5, ReadKeepsTypes
<1> QED
  BY <1>1, <1>2

\* The handlers of invitations keep every variable in its type.
LEMMA InvitationHandlersKeepTypes ==
    ASSUME TypeInv, NEW r \in Requests, InvitationHandlers(r)
    PROVE  TypeInv'
<1> USE DEF NextCall, Roles
<1>1. ASSUME NEW a \in Users, NEW c \in Campaigns, NEW u \in Users, StartSend(r, a, c, u)
      PROVE  TypeInv'
  BY <1>1, StartKeepsTypes DEF StartSend
<1>2. CASE SendCheckMember(r)
  <2>1. Finish(r) \/ Continue(r, "send:active")
    BY <1>2 DEF SendCheckMember
  <2> QED
    BY <1>2, <2>1, CheckKeepsTypes DEF SendCheckMember, At, FieldsAreSet, TypeInv, TypeOK, RequestRecord
<1>3. CASE SendCheckActive(r)
  <2>1. Finish(r) \/ Continue(r, "send:insert")
    BY <1>3 DEF SendCheckActive
  <2> QED
    BY <1>3, <2>1, CheckKeepsTypes DEF SendCheckActive, At, FieldsAreSet, TypeInv, TypeOK, RequestRecord
<1>4. CASE SendInsert(r)
  <2> DEFINE c == request[r].campaign
             u == request[r].target
             a == request[r].actor
  <2>1. c \in Campaigns /\ u \in Users /\ a \in Users
    BY <1>4 DEF SendInsert, At, TypeInv, FieldsAreSet
  <2>2. Finish(r)
    BY <1>4 DEF SendInsert
  <2>3. CASE InsertableInvitation(c, a, u)
    <3>1. InsertInvitation(c, a, u) /\ offered' = offered \cup {<<c, u>>}
      BY <1>4, <2>3 DEF SendInsert
    <3>2. offered' \subseteq Pairs
      BY <2>1, <3>1 DEF TypeInv, TypeOK, Pairs
    <3> QED
      BY <1>4, <2>1, <2>2, <3>1, <3>2, InsertInvitationTyped, FinishKeepsFields
      DEF SendInsert, TypeInv, TypeOK
  <2>4. CASE ~InsertableInvitation(c, a, u)
    BY <1>4, <2>2, <2>4, FinishKeepsFields DEF SendInsert, TypeInv, TypeOK
  <2> QED
    BY <2>3, <2>4
<1>5. ASSUME NEW a \in Users, NEW c \in Campaigns, NEW i \in Invitations, StartCancel(r, a, c, i)
      PROVE  TypeInv'
  BY <1>5, StartKeepsTypes DEF StartCancel
<1>6. CASE CancelRead(r)
  <2>1. Finish(r) \/ Continue(r, "cancel:write")
    BY <1>6 DEF CancelRead
  <2> QED
    BY <1>6, <2>1, CheckKeepsTypes DEF CancelRead
<1>7. CASE CancelWrite(r)
  BY <1>7, FinishKeepsFields, UpdateStatusTyped
  DEF CancelWrite, TypeInv, TypeOK, history, Statuses
<1>8. ASSUME NEW u \in Users, NEW i \in Invitations, StartAccept(r, u, i)
      PROVE  TypeInv'
  <2>1. invitation[i].campaign \in Campaigns
    BY <1>8 DEF StartAccept, Answerable, Exists, TypeInv, TypeOK, InvitationRow
  <2> QED
    BY <1>8, <2>1, StartKeepsTypes DEF StartAccept
<1>9. CASE AcceptCommit(r)
  <2> DEFINE c == request[r].campaign
             u == request[r].actor
  <2>1. c \in Campaigns /\ u \in Users
    BY <1>9 DEF AcceptCommit, At, TypeInv, FieldsAreSet
  <2>2. Finish(r)
    BY <1>9 DEF AcceptCommit
  <2>3. CASE InsertableMember(c, u)
    <3>1. SetRole(c, u, "player") /\ UpdateStatus(request[r].invitation, "accepted")
      BY <1>9, <2>3 DEF AcceptCommit
    <3> QED
      BY <1>9, <2>1, <2>2, <3>1, SetRoleTyped, UpdateStatusTyped, FinishKeepsFields
      DEF AcceptCommit, TypeInv, TypeOK, Statuses
  <2>4. CASE ~InsertableMember(c, u)
    BY <1>9, <2>2, <2>4, FinishKeepsFields DEF AcceptCommit, TypeInv, TypeOK
  <2> QED
    BY <2>3, <2>4
<1>10. ASSUME NEW u \in Users, NEW i \in Invitations, StartDecline(r, u, i)
       PROVE  TypeInv'
  BY <1>10, StartKeepsTypes DEF StartDecline
<1>11. CASE DeclineWrite(r)
  BY <1>11, FinishKeepsFields, UpdateStatusTyped
  DEF DeclineWrite, TypeInv, TypeOK, history, Statuses
<1> QED
  BY <1>1, <1>2, <1>3, <1>4, <1>5, <1>6, <1>7, <1>8, <1>9, <1>10, <1>11
  DEF InvitationHandlers

\* A request that no handler answers but that ends leaves the types alone too;
\* so do the statements that members and campaigns need.
LEMMA MemberHandlersKeepTypes ==
    ASSUME TypeInv, NEW r \in Requests, MemberHandlers(r)
    PROVE  TypeInv'
<1> USE DEF NextCall, Roles
<1> DEFINE c == request[r].campaign
           t == request[r].target
           u == request[r].actor
<1>1. ASSUME NEW a \in Users, NEW d \in Campaigns, NEW v \in Users,
             NEW rl \in Roles, StartAdd(r, a, d, v, rl)
      PROVE  TypeInv'
  BY <1>1, StartKeepsTypes DEF StartAdd
<1>2. ASSUME NEW a \in Users, NEW d \in Campaigns, NEW v \in Users,
             NEW rl \in Roles, StartRole(r, a, d, v, rl)
      PROVE  TypeInv'
  BY <1>2, StartKeepsTypes DEF StartRole
<1>3. ASSUME NEW a \in Users, NEW d \in Campaigns, NEW v \in Users,
             StartRemove(r, a, d, v)
      PROVE  TypeInv'
  BY <1>3, StartKeepsTypes DEF StartRemove
<1>4. CASE AddInsert(r)
  <2>1. c \in Campaigns /\ t \in Users /\ request[r].role \in Roles
    BY <1>4 DEF AddInsert, At, TypeInv, FieldsAreSet
  <2>2. Finish(r)
    BY <1>4 DEF AddInsert
  <2>3. CASE InsertableMember(c, t)
    <3>1. SetRole(c, t, request[r].role) /\ offered' = offered \cup {<<c, t>>}
      BY <1>4, <2>3 DEF AddInsert
    <3>2. offered' \subseteq Pairs
      BY <2>1, <3>1 DEF TypeInv, TypeOK, Pairs
    <3> QED
      BY <1>4, <2>1, <2>2, <3>1, <3>2, SetRoleTyped, FinishKeepsFields
      DEF AddInsert, TypeInv, TypeOK
  <2>4. CASE ~InsertableMember(c, t)
    BY <1>4, <2>2, <2>4, FinishKeepsFields DEF AddInsert, TypeInv, TypeOK, history
  <2> QED
    BY <2>3, <2>4
<1>5. CASE CheckMember(r)
  <2>1. CASE At(r, "role:member")
    <3>1. Finish(r) \/ Continue(r, "role:write")
      BY <1>5, <2>1 DEF CheckMember
    <3> QED
      BY <1>5, <2>1, <3>1, CheckKeepsTypes DEF CheckMember, At, FieldsAreSet, TypeInv, TypeOK, RequestRecord
  <2>2. CASE ~At(r, "role:member")
    <3>1. Finish(r) \/ Continue(r, "remove:write")
      BY <1>5, <2>2 DEF CheckMember
    <3> QED
      BY <1>5, <2>2, <3>1, CheckKeepsTypes DEF CheckMember, At, FieldsAreSet, TypeInv, TypeOK, RequestRecord
  <2> QED
    BY <2>1, <2>2
<1>6. CASE RoleWrite(r)
  <2>1. c \in Campaigns /\ t \in Users /\ request[r].role \in Roles
    BY <1>6 DEF RoleWrite, At, TypeInv, FieldsAreSet
  <2>2. Finish(r)
    BY <1>6 DEF RoleWrite
  <2>3. CASE IsMember(c, t)
    BY <1>6, <2>1, <2>2, <2>3, SetRoleTyped, FinishKeepsFields DEF RoleWrite, TypeInv, TypeOK
  <2>4. CASE ~IsMember(c, t)
    BY <1>6, <2>2, <2>4, FinishKeepsFields DEF RoleWrite, TypeInv, TypeOK
  <2> QED
    BY <2>3, <2>4
<1>7. CASE RemoveWrite(r)
  <2>1. c \in Campaigns /\ t \in Users
    BY <1>7 DEF RemoveWrite, At, TypeInv, FieldsAreSet
  <2> QED
    BY <1>7, <2>1, SetRoleTyped, FinishKeepsFields DEF RemoveWrite, TypeInv, TypeOK
<1>8. ASSUME NEW v \in Users, StartCreate(r, v)
      PROVE  TypeInv'
  BY <1>8, StartKeepsTypes DEF StartCreate
<1>9. CASE CreateInsert(r)
  <2>1. ASSUME NEW d \in Campaigns, InsertCampaign(d),
               request' = [request EXCEPT ![r].next = "create:member", ![r].campaign = d]
        PROVE  TypeInv'
    <3>1. request[r] \in RequestRecord /\ u \in Users
      BY <1>9 DEF CreateInsert, At, TypeInv, TypeOK, FieldsAreSet
    <3>2. /\ request' \in [Requests -> RequestRecord]
          /\ request'[r] = [request[r] EXCEPT !.next = "create:member", !.campaign = d]
          /\ \A s \in Requests \ {r} : request'[s] = request[s]
      BY <2>1, <3>1 DEF TypeInv, TypeOK, RequestRecord
    <3>3. FieldsAreSet(r)'
      BY <3>1, <3>2 DEF FieldsAreSet, RequestRecord
    <3>4. \A s \in Requests : FieldsAreSet(s)'
      BY <3>2, <3>3, OthersKeepFields
    <3> QED
      BY <1>9, <2>1, <3>2, <3>4 DEF CreateInsert, InsertCampaign, TypeInv, TypeOK, history
  <2>2. CASE Finish(r) /\ UNCHANGED <<campaigns, usedCampaigns>>
    BY <1>9, <2>2, FinishKeepsFields DEF CreateInsert, TypeInv, TypeOK, history
  <2> QED
    BY <1>9, <2>1, <2>2 DEF CreateInsert
<1>10. CASE CreateMember(r)
  <2>1. c \in Campaigns /\ u \in Users
    BY <1>10 DEF CreateMember, At, TypeInv, FieldsAreSet
  <2>2. CASE SetRole(c, u, "master") /\ offered' = offered \cup {<<c, u>>} /\ Finish(r)
    <3>1. offered' \subseteq Pairs
      BY <2>1, <2>2 DEF TypeInv, TypeOK, Pairs
    <3> QED
      BY <1>10, <2>1, <2>2, <3>1, SetRoleTyped, FinishKeepsFields DEF CreateMember, TypeInv, TypeOK
  <2>3. CASE Continue(r, "create:undo") /\ UNCHANGED <<role, history>>
    <3>1. UNCHANGED <<tables, history>>
      BY <1>10, <2>3 DEF CreateMember, tables
    <3> QED
      BY <2>1, <2>3, <3>1, CheckKeepsTypes DEF TypeInv, TypeOK, RequestRecord
  <2> QED
    BY <1>10, <2>2, <2>3 DEF CreateMember
<1>11. CASE DeleteWrite(r)
  <2>1. Cascade({c}, {}) /\ campaigns' = campaigns \ {c} /\ Finish(r)
    BY <1>11 DEF DeleteWrite, DeleteCampaign
  <2> QED
    BY <1>11, <2>1, CascadeTyped, FinishKeepsFields DEF DeleteWrite, TypeInv, TypeOK, history
<1>12. ASSUME NEW a \in Users, NEW d \in Campaigns, StartDelete(r, a, d)
       PROVE  TypeInv'
  BY <1>12, StartKeepsTypes DEF StartDelete
<1>13. ASSUME NEW d \in Campaigns, StartAdminDelete(r, d)
       PROVE  TypeInv'
  BY <1>13, StartKeepsTypes DEF StartAdminDelete
<1> QED
  BY <1>1, <1>2, <1>3, <1>4, <1>5, <1>6, <1>7, <1>8, <1>9, <1>10, <1>11, <1>12, <1>13
  DEF MemberHandlers

\* Every variable always holds a value of its type, and every request has read
\* the fields that its next call uses.
THEOREM TypeInvariant == Spec => []TypeInv
<1>1. Init => TypeInv
  <2> SUFFICES ASSUME Init PROVE TypeInv
    OBVIOUS
  <2>1. Idle \in RequestRecord
    BY DEF Idle, RequestRecord, NextCall
  <2>2. invitation \in [{} -> InvitationRow] /\ DOMAIN invitation = {}
    BY DEF Init, StoreInit
  <2>3. TypeOK
    BY <2>1, <2>2, StoreAssumption DEF Init, StoreInit, TypeOK, Roles, Pairs
  <2>4. \A r \in Requests : request[r].next = "idle"
    BY DEF Init, StoreInit, Idle
  <2>5. \A r \in Requests : FieldsAreSet(r)
    BY <2>4 DEF FieldsAreSet
  <2> QED
    BY <2>3, <2>5 DEF TypeInv
<1>2. TypeInv /\ [Next]_vars => TypeInv'
  <2> SUFFICES ASSUME TypeInv, [Next]_vars PROVE TypeInv'
    OBVIOUS
  <2>1. ASSUME NEW r \in Requests, Abandon(r)
        PROVE  TypeInv'
    BY <2>1, FinishKeepsFields DEF Abandon, TypeInv, TypeOK, tables, history
  <2>2. ASSUME NEW u \in Users, DeleteUser(u)
        PROVE  TypeInv'
    BY <2>2, CascadeTyped DEF DeleteUser, TypeInv, TypeOK, FieldsAreSet, history
  <2>3. CASE AdminCreate
    BY <2>3 DEF AdminCreate, InsertCampaign, TypeInv, TypeOK, FieldsAreSet, history
  <2>4. CASE Tick
    BY <2>4, TickTyped DEF Tick, TypeInv, TypeOK, FieldsAreSet, history
  <2>5. CASE UNCHANGED vars
    BY <2>5 DEF vars, tables, history, TypeInv, TypeOK, FieldsAreSet
  <2> QED
    BY <2>1, <2>2, <2>3, <2>4, <2>5, InvitationHandlersKeepTypes, MemberHandlersKeepTypes
    DEF Next
<1> QED
  BY <1>1, <1>2, PTL DEF Spec

\* The type invariant that the runs check.
THEOREM TypeCorrect == Spec => []TypeOK
<1>1. TypeInv => TypeOK
  BY DEF TypeInv
<1> QED
  BY <1>1, TypeInvariant, PTL

----------------------------------------------------------------------------
(* The safety invariants *)

\* What a request remembers stays true while other requests write: histories
\* and used ids only grow, and a row keeps its campaign and its invitee.
LEMMA RequestsRemember ==
    ASSUME TypeInv, IInv,
           NEW R \in SUBSET Requests,
           \A s \in Requests \ R : request'[s] = request[s],
           \A s \in R : SenderWasMaster(s)' /\ AccepterWasOffered(s)',
           mastered \subseteq mastered', offered \subseteq offered',
           usedInvitations \subseteq usedInvitations',
           \A i \in DOMAIN invitation' : i \in usedInvitations =>
               /\ i \in DOMAIN invitation
               /\ invitation'[i].campaign = invitation[i].campaign
               /\ invitation'[i].invitee = invitation[i].invitee
    PROVE  \A s \in Requests : SenderWasMaster(s)' /\ AccepterWasOffered(s)'
<1> SUFFICES ASSUME NEW s \in Requests \ R
             PROVE  SenderWasMaster(s)' /\ AccepterWasOffered(s)'
  OBVIOUS
<1>1. SenderWasMaster(s) /\ AccepterWasOffered(s)
  BY DEF IInv
<1>2. SenderWasMaster(s)'
  BY <1>1 DEF SenderWasMaster
<1>3. AccepterWasOffered(s)'
  BY <1>1 DEF AccepterWasOffered, At, Exists
<1> QED
  BY <1>2, <1>3

\* A step that writes no table, and starts or advances one request.
LEMMA ReadKeepsIInv ==
    ASSUME TypeInv, IInv, NEW r \in Requests, UNCHANGED <<tables, history>>,
           \A s \in Requests \ {r} : request'[s] = request[s],
           SenderWasMaster(r)', AccepterWasOffered(r)'
    PROVE  IInv'
<1>1. \A s \in Requests : SenderWasMaster(s)' /\ AccepterWasOffered(s)'
  BY RequestsRemember, {r} \in SUBSET Requests DEF tables, history
<1> QED
  BY <1>1 DEF IInv, tables, history, ReferentialIntegrity, AcceptedHasJoined, Active,
     JoinedWasOffered, InviterWasMaster, HistoriesRecord, InvitationsAreOffers

\* An answered request has nothing to remember.
LEMMA FinishForgets ==
    ASSUME TypeInv, NEW r \in Requests, Finish(r)
    PROVE  /\ \A s \in Requests \ {r} : request'[s] = request[s]
           /\ SenderWasMaster(r)' /\ AccepterWasOffered(r)'
<1>1. request'[r] = Idle /\ \A s \in Requests \ {r} : request'[s] = request[s]
  BY FinishTyped DEF TypeInv
<1> QED
  BY <1>1 DEF SenderWasMaster, AccepterWasOffered, At, Idle

\* Going on to a call that is neither part of sending nor of accepting, or to
\* the next call of sending.
LEMMA ContinueRemembers ==
    ASSUME TypeInv, IInv, NEW r \in Requests, NEW n \in NextCall, Continue(r, n),
           n # "accept:commit",
           n \in {"send:member", "send:active", "send:insert"} =>
             request[r].next \in {"send:member", "send:active", "send:insert"}
    PROVE  /\ \A s \in Requests \ {r} : request'[s] = request[s]
           /\ (UNCHANGED mastered) => SenderWasMaster(r)'
           /\ AccepterWasOffered(r)'
<1>1. request[r] \in RequestRecord
  BY DEF TypeInv, TypeOK
<1>2. /\ request'[r] = [request[r] EXCEPT !.next = n]
      /\ \A s \in Requests \ {r} : request'[s] = request[s]
  BY ContinueTyped DEF TypeInv
<1>3. /\ request'[r].next = n
      /\ request'[r].actor = request[r].actor
      /\ request'[r].campaign = request[r].campaign
  BY <1>1, <1>2 DEF RequestRecord
<1>4. SenderWasMaster(r)
  BY DEF IInv
<1> QED
  BY <1>2, <1>3, <1>4 DEF SenderWasMaster, AccepterWasOffered, At

\* A start of a request that neither sends nor accepts an invitation.
LEMMA StartKeepsIInv ==
    ASSUME TypeInv, IInv, NEW r \in Requests, NEW n \in NextCall,
           NEW a \in Users \cup {Admin, None}, NEW c \in Campaigns \cup {None},
           NEW t \in Users \cup {None}, NEW i \in Invitations \cup {None},
           NEW rl \in Roles \cup {"none"}, Start(r, n, a, c, t, i, rl),
           UNCHANGED <<tables, history>>,
           n \notin {"send:member", "send:active", "send:insert", "accept:commit"}
    PROVE  IInv'
<1>1. /\ request' \in [Requests -> RequestRecord]
      /\ request'[r] = [next |-> n, actor |-> a, campaign |-> c, target |-> t,
                        invitation |-> i, role |-> rl]
      /\ \A s \in Requests \ {r} : request'[s] = request[s]
  BY StartTyped DEF TypeInv
<1>2. SenderWasMaster(r)' /\ AccepterWasOffered(r)'
  BY <1>1 DEF SenderWasMaster, AccepterWasOffered, At
<1> QED
  BY <1>1, <1>2, ReadKeepsIInv

\* A check of such a request, or of one that sends.
LEMMA CheckKeepsIInv ==
    ASSUME TypeInv, IInv, NEW r \in Requests, NEW n \in NextCall,
           Finish(r) \/ Continue(r, n), UNCHANGED <<tables, history>>,
           n # "accept:commit",
           n \in {"send:member", "send:active", "send:insert"} =>
             request[r].next \in {"send:member", "send:active", "send:insert"}
    PROVE  IInv'
<1>1. CASE Finish(r)
  BY <1>1, FinishForgets, ReadKeepsIInv
<1>2. CASE Continue(r, n)
  BY <1>2, ContinueRemembers, ReadKeepsIInv DEF history
<1> QED
  BY <1>1, <1>2

\* UPDATE of a status: to "accepted" only where the invitee has joined.
LEMMA StatusKeepsIInv ==
    ASSUME TypeInv, IInv, NEW r \in Requests, Finish(r), NEW i, NEW s \in Statuses,
           UpdateStatus(i, s),
           UNCHANGED <<users, campaigns, role, usedInvitations, history>>,
           s # "accepted"
    PROVE  IInv'
<1>1. /\ DOMAIN invitation' = DOMAIN invitation
      /\ \A j \in DOMAIN invitation :
           /\ invitation'[j].campaign = invitation[j].campaign
           /\ invitation'[j].inviter = invitation[j].inviter
           /\ invitation'[j].invitee = invitation[j].invitee
           /\ invitation'[j].status = "accepted" => invitation[j].status = "accepted"
  BY UpdateStatusTyped DEF TypeInv
<1>2. \A q \in Requests : SenderWasMaster(q)' /\ AccepterWasOffered(q)'
  BY <1>1, FinishForgets, RequestsRemember, {r} \in SUBSET Requests DEF history
<1> QED
  BY <1>1, <1>2 DEF IInv, history, ReferentialIntegrity, AcceptedHasJoined,
     JoinedWasOffered, InviterWasMaster, HistoriesRecord, InvitationsAreOffers

\* A member row that is written for a pair already offered, with the rows of
\* invitations left alone.
LEMMA SetRoleKeepsIInv ==
    ASSUME TypeInv, IInv, NEW r \in Requests,
           \A s \in Requests \ {r} : request'[s] = request[s],
           SenderWasMaster(r)', AccepterWasOffered(r)',
           NEW c \in Campaigns, NEW u \in Users, NEW rl \in Roles \cup {"none"},
           SetRole(c, u, rl),
           rl # "none" => c \in campaigns /\ u \in users /\ <<c, u>> \in offered',
           offered \subseteq offered',
           UNCHANGED <<users, campaigns, invitation, usedInvitations>>
    PROVE  IInv'
<1>1. /\ role' = [role EXCEPT ![<<c, u>>] = rl]
      /\ joined' = IF rl = "none" THEN joined ELSE joined \cup {<<c, u>>}
      /\ mastered' = IF rl = "master" THEN mastered \cup {<<c, u>>} ELSE mastered
  BY DEF SetRole
<1>2. \A p \in Pairs : role'[p] = IF p = <<c, u>> THEN rl ELSE role[p]
  BY <1>1 DEF TypeInv, TypeOK, Pairs
<1>3. joined \subseteq joined' /\ mastered \subseteq mastered'
  BY <1>1
<1>4. \A s \in Requests : SenderWasMaster(s)' /\ AccepterWasOffered(s)'
  BY <1>3, RequestsRemember, {r} \in SUBSET Requests
<1>5. ReferentialIntegrity'
  BY <1>2 DEF IInv, ReferentialIntegrity
<1>6. HistoriesRecord'
  BY <1>1, <1>2, <1>3 DEF IInv, HistoriesRecord
<1>7. AcceptedHasJoined' /\ InviterWasMaster' /\ InvitationsAreOffers'
  BY <1>3 DEF IInv, AcceptedHasJoined, InviterWasMaster, InvitationsAreOffers
<1>8. JoinedWasOffered'
  BY <1>1 DEF IInv, JoinedWasOffered
<1> QED
  BY <1>4, <1>5, <1>6, <1>7, <1>8 DEF IInv

\* A deletion and what cascades from it.
LEMMA CascadeKeepsIInv ==
    ASSUME TypeInv, IInv, NEW R \in SUBSET Requests,
           \A s \in Requests \ R : request'[s] = request[s],
           \A s \in R : SenderWasMaster(s)' /\ AccepterWasOffered(s)',
           NEW cs, NEW us, Cascade(cs, us),
           campaigns' = campaigns \ cs, users' = users \ us,
           UNCHANGED <<usedInvitations, history>>
    PROVE  IInv'
<1>1. /\ \A p \in Pairs :
           role'[p] = IF p[1] \in cs \/ p[2] \in us THEN "none" ELSE role[p]
      /\ DOMAIN invitation' \subseteq DOMAIN invitation
      /\ \A i \in DOMAIN invitation' :
           /\ invitation'[i] = invitation[i]
           /\ invitation[i].campaign \notin cs
           /\ invitation[i].inviter \notin us
           /\ invitation[i].invitee \notin us
  BY CascadeTyped DEF TypeInv
<1>2. \A s \in Requests : SenderWasMaster(s)' /\ AccepterWasOffered(s)'
  BY <1>1, RequestsRemember DEF history
<1>3. ReferentialIntegrity'
  BY <1>1 DEF IInv, ReferentialIntegrity
<1>4. HistoriesRecord'
  BY <1>1 DEF IInv, HistoriesRecord, history
<1>5. AcceptedHasJoined' /\ InviterWasMaster' /\ InvitationsAreOffers' /\ JoinedWasOffered'
  BY <1>1 DEF IInv, AcceptedHasJoined, InviterWasMaster, InvitationsAreOffers,
     JoinedWasOffered, history
<1> QED
  BY <1>2, <1>3, <1>4, <1>5 DEF IInv

\* Every step keeps the invariant: the handlers of invitations.
LEMMA InvitationHandlersKeepIInv ==
    ASSUME TypeInv, IInv, NEW r \in Requests, InvitationHandlers(r)
    PROVE  IInv'
<1> USE DEF NextCall, Roles
<1>1. ASSUME NEW a \in Users, NEW c \in Campaigns, NEW u \in Users, StartSend(r, a, c, u)
      PROVE  IInv'
  <2>1. /\ request' \in [Requests -> RequestRecord]
        /\ request'[r] = [next |-> "send:member", actor |-> a, campaign |-> c,
                          target |-> u, invitation |-> None, role |-> "none"]
        /\ \A s \in Requests \ {r} : request'[s] = request[s]
    BY <1>1, StartTyped DEF StartSend, TypeInv
  <2>2. a \in SuperUsers \/ <<c, a>> \in mastered
    <3>1. <<c, a>> \in Pairs /\ a # Admin
      BY <1>1, StoreAssumption DEF Pairs
    <3> QED
      BY <1>1, <3>1 DEF StartSend, IsMaster, IInv, HistoriesRecord
  <2>3. SenderWasMaster(r)' /\ AccepterWasOffered(r)'
    BY <1>1, <2>1, <2>2 DEF SenderWasMaster, AccepterWasOffered, At, StartSend, history
  <2> QED
    BY <1>1, <2>1, <2>3, ReadKeepsIInv DEF StartSend
<1>2. CASE SendCheckMember(r)
  <2>1. Finish(r) \/ Continue(r, "send:active")
    BY <1>2 DEF SendCheckMember
  <2> QED
    BY <1>2, <2>1, CheckKeepsIInv DEF SendCheckMember, At
<1>3. CASE SendCheckActive(r)
  <2>1. Finish(r) \/ Continue(r, "send:insert")
    BY <1>3 DEF SendCheckActive
  <2> QED
    BY <1>3, <2>1, CheckKeepsIInv DEF SendCheckActive, At
<1>4. CASE SendInsert(r)
  <2> DEFINE c == request[r].campaign
             u == request[r].target
             a == request[r].actor
  <2>1. c \in Campaigns /\ u \in Users /\ a \in Users
    BY <1>4 DEF SendInsert, At, TypeInv, FieldsAreSet
  <2>2. /\ \A s \in Requests \ {r} : request'[s] = request[s]
        /\ SenderWasMaster(r)' /\ AccepterWasOffered(r)'
    BY <1>4, FinishForgets DEF SendInsert
  <2>3. CASE InsertableInvitation(c, a, u)
    <3>1. /\ InsertInvitation(c, a, u)
          /\ offered' = offered \cup {<<c, u>>}
          /\ UNCHANGED <<users, campaigns, role, joined, mastered>>
      BY <1>4, <2>3 DEF SendInsert
    <3>2. a \in SuperUsers \/ <<c, a>> \in mastered
      BY <1>4 DEF SendInsert, At, IInv, SenderWasMaster
    <3>3. /\ usedInvitations \subseteq usedInvitations'
          /\ \A j \in DOMAIN invitation' :
               \/ j \in DOMAIN invitation /\ invitation'[j] = invitation[j]
               \/ j \notin usedInvitations /\ invitation'[j] = NewInvitation(c, a, u)
      BY <2>1, <3>1, InsertInvitationTyped DEF TypeInv
    <3>4. \A s \in Requests : SenderWasMaster(s)' /\ AccepterWasOffered(s)'
      <4>1. \A j \in DOMAIN invitation' : j \in usedInvitations =>
              /\ j \in DOMAIN invitation
              /\ invitation'[j].campaign = invitation[j].campaign
              /\ invitation'[j].invitee = invitation[j].invitee
        BY <3>3
      <4>2. mastered \subseteq mastered' /\ offered \subseteq offered'
        BY <3>1
      <4> QED
        BY <2>2, <3>3, <4>1, <4>2, RequestsRemember, {r} \in SUBSET Requests
    <3>5. ReferentialIntegrity'
      BY <2>3, <3>1, <3>3 DEF IInv, ReferentialIntegrity, InsertableInvitation, NewInvitation
    <3>6. AcceptedHasJoined' /\ InviterWasMaster' /\ InvitationsAreOffers'
      BY <3>1, <3>2, <3>3 DEF IInv, AcceptedHasJoined, InviterWasMaster,
         InvitationsAreOffers, NewInvitation
    <3>7. JoinedWasOffered' /\ HistoriesRecord'
      BY <3>1 DEF IInv, JoinedWasOffered, HistoriesRecord
    <3> QED
      BY <3>4, <3>5, <3>6, <3>7 DEF IInv
  <2>4. CASE ~InsertableInvitation(c, a, u)
    BY <1>4, <2>2, <2>4, ReadKeepsIInv DEF SendInsert, tables, history
  <2> QED
    BY <2>3, <2>4
<1>5. ASSUME NEW a \in Users, NEW c \in Campaigns, NEW i \in Invitations, StartCancel(r, a, c, i)
      PROVE  IInv'
  BY <1>5, StartKeepsIInv DEF StartCancel
<1>6. CASE CancelRead(r)
  <2>1. Finish(r) \/ Continue(r, "cancel:write")
    BY <1>6 DEF CancelRead
  <2> QED
    BY <1>6, <2>1, CheckKeepsIInv DEF CancelRead
<1>7. CASE CancelWrite(r)
  BY <1>7, StatusKeepsIInv DEF CancelWrite, Statuses
<1>8. ASSUME NEW u \in Users, NEW i \in Invitations, StartAccept(r, u, i)
      PROVE  IInv'
  <2>1. i \in DOMAIN invitation /\ invitation[i].invitee = u
    BY <1>8 DEF StartAccept, Answerable, Exists
  <2>2. PICK c \in Campaigns : c = invitation[i].campaign
    BY <2>1 DEF TypeInv, TypeOK, InvitationRow
  <2>3. Start(r, "accept:commit", u, c, None, i, "none") /\ UNCHANGED <<tables, history>>
    BY <1>8, <2>2 DEF StartAccept
  <2>4. /\ request' \in [Requests -> RequestRecord]
        /\ request'[r] = [next |-> "accept:commit", actor |-> u, campaign |-> c,
                          target |-> None, invitation |-> i, role |-> "none"]
        /\ \A s \in Requests \ {r} : request'[s] = request[s]
    BY <2>3, StartTyped DEF TypeInv
  <2>5. i \in usedInvitations /\ <<c, u>> \in offered
    BY <2>1, <2>2 DEF TypeInv, TypeOK, IInv, InvitationsAreOffers
  <2>6. SenderWasMaster(r)' /\ AccepterWasOffered(r)'
    BY <2>1, <2>2, <2>3, <2>4, <2>5
    DEF SenderWasMaster, AccepterWasOffered, At, Exists, tables, history
  <2> QED
    BY <2>3, <2>4, <2>6, ReadKeepsIInv
<1>9. CASE AcceptCommit(r)
  <2> DEFINE c == request[r].campaign
             u == request[r].actor
             i == request[r].invitation
  <2>1. c \in Campaigns /\ u \in Users
    BY <1>9 DEF AcceptCommit, At, TypeInv, FieldsAreSet
  <2>2. /\ \A s \in Requests \ {r} : request'[s] = request[s]
        /\ SenderWasMaster(r)' /\ AccepterWasOffered(r)'
    BY <1>9, FinishForgets DEF AcceptCommit
  <2>3. CASE InsertableMember(c, u)
    <3>1. /\ SetRole(c, u, "player")
          /\ UpdateStatus(i, "accepted")
          /\ UNCHANGED <<users, campaigns, usedInvitations, offered>>
      BY <1>9, <2>3 DEF AcceptCommit
    <3>2. /\ DOMAIN invitation' = DOMAIN invitation
          /\ \A j \in DOMAIN invitation :
               /\ invitation'[j].campaign = invitation[j].campaign
               /\ invitation'[j].inviter = invitation[j].inviter
               /\ invitation'[j].invitee = invitation[j].invitee
               /\ invitation'[j].status = IF j = i THEN "accepted" ELSE invitation[j].status
      BY <3>1, UpdateStatusTyped DEF TypeInv, Statuses
    <3>3. /\ <<c, u>> \in offered
          /\ i \in DOMAIN invitation =>
               invitation[i].campaign = c /\ invitation[i].invitee = u
      BY <1>9 DEF AcceptCommit, IInv, AccepterWasOffered, Exists
    <3>4. /\ role' = [role EXCEPT ![<<c, u>>] = "player"]
          /\ joined' = joined \cup {<<c, u>>}
          /\ mastered' = mastered
      BY <3>1 DEF SetRole
    <3>5. \A p \in Pairs : role'[p] = IF p = <<c, u>> THEN "player" ELSE role[p]
      BY <3>4 DEF TypeInv, TypeOK, Pairs
    <3>6. \A s \in Requests : SenderWasMaster(s)' /\ AccepterWasOffered(s)'
      <4>1. mastered \subseteq mastered' /\ offered \subseteq offered'
        BY <3>1, <3>4
      <4>2. usedInvitations \subseteq usedInvitations'
        BY <3>1
      <4>3. \A j \in DOMAIN invitation' : j \in usedInvitations =>
              /\ j \in DOMAIN invitation
              /\ invitation'[j].campaign = invitation[j].campaign
              /\ invitation'[j].invitee = invitation[j].invitee
        BY <3>2
      <4> QED
        BY <2>2, <4>1, <4>2, <4>3, RequestsRemember, {r} \in SUBSET Requests
    <3>7. ReferentialIntegrity'
      BY <2>3, <3>1, <3>2, <3>5 DEF IInv, ReferentialIntegrity, InsertableMember
    <3>8. AcceptedHasJoined'
      BY <3>2, <3>3, <3>4 DEF IInv, AcceptedHasJoined
    <3>9. InviterWasMaster' /\ InvitationsAreOffers'
      BY <3>1, <3>2, <3>4 DEF IInv, InviterWasMaster, InvitationsAreOffers
    <3>10. JoinedWasOffered' /\ HistoriesRecord'
      BY <3>1, <3>3, <3>4, <3>5 DEF IInv, JoinedWasOffered, HistoriesRecord
    <3> QED
      BY <3>6, <3>7, <3>8, <3>9, <3>10 DEF IInv
  <2>4. CASE ~InsertableMember(c, u)
    BY <1>9, <2>2, <2>4, ReadKeepsIInv DEF AcceptCommit, tables, history
  <2> QED
    BY <2>3, <2>4
<1>10. ASSUME NEW u \in Users, NEW i \in Invitations, StartDecline(r, u, i)
       PROVE  IInv'
  BY <1>10, StartKeepsIInv DEF StartDecline
<1>11. CASE DeclineWrite(r)
  BY <1>11, StatusKeepsIInv DEF DeclineWrite, Statuses
<1> QED
  BY <1>1, <1>2, <1>3, <1>4, <1>5, <1>6, <1>7, <1>8, <1>9, <1>10, <1>11
  DEF InvitationHandlers

\* Every step keeps the invariant: the handlers of members and campaigns.
LEMMA MemberHandlersKeepIInv ==
    ASSUME TypeInv, IInv, NEW r \in Requests, MemberHandlers(r)
    PROVE  IInv'
<1> USE DEF NextCall, Roles
<1> DEFINE c == request[r].campaign
           t == request[r].target
           u == request[r].actor
<1>1. ASSUME NEW a \in Users, NEW d \in Campaigns, NEW v \in Users,
             NEW rl \in Roles, StartAdd(r, a, d, v, rl)
      PROVE  IInv'
  BY <1>1, StartKeepsIInv DEF StartAdd
<1>2. ASSUME NEW a \in Users, NEW d \in Campaigns, NEW v \in Users,
             NEW rl \in Roles, StartRole(r, a, d, v, rl)
      PROVE  IInv'
  BY <1>2, StartKeepsIInv DEF StartRole
<1>3. ASSUME NEW a \in Users, NEW d \in Campaigns, NEW v \in Users,
             StartRemove(r, a, d, v)
      PROVE  IInv'
  BY <1>3, StartKeepsIInv DEF StartRemove
<1>4. CASE AddInsert(r)
  <2>1. PICK rl \in Roles : rl = request[r].role
    BY <1>4 DEF AddInsert, At, TypeInv, FieldsAreSet
  <2>2. c \in Campaigns /\ t \in Users
    BY <1>4 DEF AddInsert, At, TypeInv, FieldsAreSet
  <2>3. /\ \A s \in Requests \ {r} : request'[s] = request[s]
        /\ SenderWasMaster(r)' /\ AccepterWasOffered(r)'
    BY <1>4, FinishForgets DEF AddInsert
  <2>4. CASE InsertableMember(c, t)
    <3>1. /\ SetRole(c, t, rl)
          /\ offered' = offered \cup {<<c, t>>}
          /\ UNCHANGED <<users, campaigns, invitation, usedInvitations>>
      BY <1>4, <2>1, <2>4 DEF AddInsert
    <3>2. c \in campaigns /\ t \in users /\ <<c, t>> \in offered' /\ offered \subseteq offered'
      BY <2>4, <3>1 DEF InsertableMember
    <3> QED
      BY <2>2, <2>3, <3>1, <3>2, SetRoleKeepsIInv
  <2>5. CASE ~InsertableMember(c, t)
    BY <1>4, <2>3, <2>5, ReadKeepsIInv DEF AddInsert, tables, history
  <2> QED
    BY <2>4, <2>5
<1>5. CASE CheckMember(r)
  <2>1. PICK n \in {"role:write", "remove:write"} : Finish(r) \/ Continue(r, n)
    BY <1>5 DEF CheckMember
  <2> QED
    BY <1>5, <2>1, CheckKeepsIInv DEF CheckMember
<1>6. CASE RoleWrite(r)
  <2>1. PICK rl \in Roles : rl = request[r].role
    BY <1>6 DEF RoleWrite, At, TypeInv, FieldsAreSet
  <2>2. c \in Campaigns /\ t \in Users
    BY <1>6 DEF RoleWrite, At, TypeInv, FieldsAreSet
  <2>3. /\ \A s \in Requests \ {r} : request'[s] = request[s]
        /\ SenderWasMaster(r)' /\ AccepterWasOffered(r)'
    BY <1>6, FinishForgets DEF RoleWrite
  <2>4. CASE IsMember(c, t)
    <3>1. SetRole(c, t, rl)
      BY <1>6, <2>1, <2>4 DEF RoleWrite
    <3>2. UNCHANGED <<users, campaigns, invitation, usedInvitations, offered>>
      BY <1>6 DEF RoleWrite
    <3>3. <<c, t>> \in Pairs /\ role[<<c, t>>] # "none"
      BY <2>2, <2>4 DEF IsMember, Pairs
    <3>4. c \in campaigns /\ t \in users
      BY <3>3 DEF IInv, ReferentialIntegrity
    <3>5. <<c, t>> \in offered' /\ offered \subseteq offered'
      BY <3>2, <3>3 DEF IInv, HistoriesRecord, JoinedWasOffered
    <3> QED
      BY <2>2, <2>3, <3>1, <3>2, <3>4, <3>5, SetRoleKeepsIInv
  <2>5. CASE ~IsMember(c, t)
    BY <1>6, <2>3, <2>5, ReadKeepsIInv DEF RoleWrite, tables, history
  <2> QED
    BY <2>4, <2>5
<1>7. CASE RemoveWrite(r)
  <2>1. c \in Campaigns /\ t \in Users
    BY <1>7 DEF RemoveWrite, At, TypeInv, FieldsAreSet
  <2>2. /\ \A s \in Requests \ {r} : request'[s] = request[s]
        /\ SenderWasMaster(r)' /\ AccepterWasOffered(r)'
    BY <1>7, FinishForgets DEF RemoveWrite
  <2>3. /\ SetRole(c, t, "none") /\ offered \subseteq offered'
        /\ UNCHANGED <<users, campaigns, invitation, usedInvitations>>
    BY <1>7 DEF RemoveWrite
  <2> QED
    BY <2>1, <2>2, <2>3, SetRoleKeepsIInv
<1>8. ASSUME NEW v \in Users, StartCreate(r, v)
      PROVE  IInv'
  BY <1>8, StartKeepsIInv DEF StartCreate
<1>9. CASE CreateInsert(r)
  <2>1. ASSUME NEW d \in Campaigns, InsertCampaign(d),
               request' = [request EXCEPT ![r].next = "create:member", ![r].campaign = d]
        PROVE  IInv'
    <3>1. /\ campaigns \subseteq campaigns'
          /\ UNCHANGED <<users, role, invitation, usedInvitations, history>>
      BY <1>9, <2>1 DEF CreateInsert, InsertCampaign
    <3>2. request'[r].next = "create:member" /\ \A s \in Requests \ {r} : request'[s] = request[s]
      BY <2>1 DEF TypeInv, TypeOK, RequestRecord
    <3>3. SenderWasMaster(r)' /\ AccepterWasOffered(r)'
      BY <3>2 DEF SenderWasMaster, AccepterWasOffered, At
    <3>4. \A s \in Requests : SenderWasMaster(s)' /\ AccepterWasOffered(s)'
      <4>1. \A j \in DOMAIN invitation' : j \in usedInvitations =>
              /\ j \in DOMAIN invitation
              /\ invitation'[j].campaign = invitation[j].campaign
              /\ invitation'[j].invitee = invitation[j].invitee
        BY <3>1
      <4>2. mastered \subseteq mastered' /\ offered \subseteq offered'
            /\ usedInvitations \subseteq usedInvitations'
        BY <3>1 DEF history
      <4> QED
        BY <3>2, <3>3, <4>1, <4>2, RequestsRemember, {r} \in SUBSET Requests
    <3> QED
      BY <3>1, <3>4 DEF IInv, history, ReferentialIntegrity, AcceptedHasJoined,
         JoinedWasOffered, InviterWasMaster, HistoriesRecord, InvitationsAreOffers
  <2>2. CASE Finish(r) /\ UNCHANGED <<campaigns, usedCampaigns>>
    BY <1>9, <2>2, FinishForgets, ReadKeepsIInv DEF CreateInsert, tables
  <2> QED
    BY <1>9, <2>1, <2>2 DEF CreateInsert
<1>10. CASE CreateMember(r)
  <2>1. c \in Campaigns /\ u \in Users
    BY <1>10 DEF CreateMember, At, TypeInv, FieldsAreSet
  <2>2. CASE /\ InsertableMember(c, u) /\ SetRole(c, u, "master")
             /\ offered' = offered \cup {<<c, u>>} /\ Finish(r)
    <3>1. /\ \A s \in Requests \ {r} : request'[s] = request[s]
          /\ SenderWasMaster(r)' /\ AccepterWasOffered(r)'
      BY <2>2, FinishForgets
    <3>2. UNCHANGED <<users, campaigns, invitation, usedInvitations>>
      BY <1>10 DEF CreateMember
    <3>3. c \in campaigns /\ u \in users /\ <<c, u>> \in offered' /\ offered \subseteq offered'
      BY <2>2 DEF InsertableMember
    <3> QED
      BY <2>1, <2>2, <3>1, <3>2, <3>3, SetRoleKeepsIInv
  <2>3. CASE Continue(r, "create:undo") /\ UNCHANGED <<role, history>>
    <3>1. UNCHANGED <<tables, history>>
      BY <1>10, <2>3 DEF CreateMember, tables
    <3> QED
      BY <2>3, <3>1, CheckKeepsIInv
  <2> QED
    BY <1>10, <2>2, <2>3 DEF CreateMember
<1>11. CASE DeleteWrite(r)
  <2>1. Cascade({c}, {}) /\ campaigns' = campaigns \ {c} /\ Finish(r)
    BY <1>11 DEF DeleteWrite, DeleteCampaign
  <2>2. users' = users \ {} /\ UNCHANGED <<usedInvitations, history>>
    BY <1>11 DEF DeleteWrite
  <2>3. /\ \A s \in Requests \ {r} : request'[s] = request[s]
        /\ \A s \in {r} : SenderWasMaster(s)' /\ AccepterWasOffered(s)'
    BY <2>1, FinishForgets
  <2> QED
    BY <2>1, <2>2, <2>3, CascadeKeepsIInv, {r} \in SUBSET Requests
<1>12. ASSUME NEW a \in Users, NEW d \in Campaigns, StartDelete(r, a, d)
       PROVE  IInv'
  BY <1>12, StartKeepsIInv DEF StartDelete
<1>13. ASSUME NEW d \in Campaigns, StartAdminDelete(r, d)
       PROVE  IInv'
  BY <1>13, StartKeepsIInv DEF StartAdminDelete
<1> QED
  BY <1>1, <1>2, <1>3, <1>4, <1>5, <1>6, <1>7, <1>8, <1>9, <1>10, <1>11, <1>12, <1>13
  DEF MemberHandlers

\* The strengthened invariant holds in every state, whatever requests overlap
\* and wherever one is abandoned.
THEOREM SafetyInvariant == Spec => []IInv
<1>1. Init => IInv
  <2> SUFFICES ASSUME Init PROVE IInv
    OBVIOUS
  <2>1. \A r \in Requests : request[r].next = "idle"
    BY DEF Init, StoreInit, Idle
  <2>2. \A r \in Requests : SenderWasMaster(r) /\ AccepterWasOffered(r)
    BY <2>1 DEF SenderWasMaster, AccepterWasOffered, At
  <2>3. DOMAIN invitation = {}
    BY DEF Init, StoreInit
  <2>4. ReferentialIntegrity
    BY <2>3, StoreAssumption DEF Init, StoreInit, ReferentialIntegrity, Pairs
  <2>5. HistoriesRecord /\ JoinedWasOffered
    BY DEF Init, StoreInit, HistoriesRecord, JoinedWasOffered
  <2> QED
    BY <2>2, <2>3, <2>4, <2>5 DEF IInv, AcceptedHasJoined, InviterWasMaster, InvitationsAreOffers
<1>2. TypeInv /\ IInv /\ [Next]_vars => IInv'
  <2> SUFFICES ASSUME TypeInv, IInv, [Next]_vars PROVE IInv'
    OBVIOUS
  <2>1. ASSUME NEW r \in Requests, Abandon(r)
        PROVE  IInv'
    BY <2>1, FinishForgets, ReadKeepsIInv DEF Abandon
  <2>2. ASSUME NEW v \in Users, DeleteUser(v)
        PROVE  IInv'
    <3>1. Cascade({}, {v}) /\ users' = users \ {v} /\ campaigns' = campaigns \ {}
      BY <2>2 DEF DeleteUser
    <3>2. UNCHANGED <<usedInvitations, history>> /\ \A s \in Requests \ {} : request'[s] = request[s]
      BY <2>2 DEF DeleteUser
    <3> QED
      BY <3>1, <3>2, CascadeKeepsIInv, {} \in SUBSET Requests
  <2>3. CASE AdminCreate
    <3>1. /\ campaigns \subseteq campaigns'
          /\ UNCHANGED <<users, role, invitation, usedInvitations, request, history>>
      BY <2>3 DEF AdminCreate, InsertCampaign
    <3> QED
      BY <3>1 DEF IInv, history, ReferentialIntegrity, AcceptedHasJoined, JoinedWasOffered,
         InviterWasMaster, HistoriesRecord, InvitationsAreOffers, SenderWasMaster,
         AccepterWasOffered, At, Exists
  <2>4. CASE Tick
    <3>1. /\ DOMAIN invitation' = DOMAIN invitation
          /\ \A i \in DOMAIN invitation :
               /\ invitation'[i].campaign = invitation[i].campaign
               /\ invitation'[i].inviter = invitation[i].inviter
               /\ invitation'[i].invitee = invitation[i].invitee
               /\ invitation'[i].status = invitation[i].status
      BY <2>4 DEF Tick, TypeInv, TypeOK, InvitationRow
    <3>2. UNCHANGED <<users, campaigns, role, usedInvitations, request, history>>
      BY <2>4 DEF Tick
    <3> QED
      BY <3>1, <3>2 DEF IInv, history, ReferentialIntegrity, AcceptedHasJoined,
         JoinedWasOffered, InviterWasMaster, HistoriesRecord, InvitationsAreOffers,
         SenderWasMaster, AccepterWasOffered, At, Exists
  <2>5. CASE UNCHANGED vars
    BY <2>5 DEF vars, tables, history, IInv, ReferentialIntegrity, AcceptedHasJoined,
       JoinedWasOffered, InviterWasMaster, HistoriesRecord, InvitationsAreOffers,
       SenderWasMaster, AccepterWasOffered, At, Exists
  <2> QED
    BY <2>1, <2>2, <2>3, <2>4, <2>5, InvitationHandlersKeepIInv, MemberHandlersKeepIInv
    DEF Next
<1> QED
  BY <1>1, <1>2, TypeInvariant, PTL DEF Spec

\* No member row and no invitation outlives its campaign or its accounts, also
\* when the campaign goes between a check and the INSERT it guards.
THEOREM NothingDangles == Spec => []ReferentialIntegrity
<1>1. IInv => ReferentialIntegrity
  BY DEF IInv
<1> QED
  BY <1>1, SafetyInvariant, PTL

\* An accepted invitation has let its invitee in.
THEOREM AcceptanceAdmits == Spec => []AcceptedHasJoined
<1>1. IInv => AcceptedHasJoined
  BY DEF IInv
<1> QED
  BY <1>1, SafetyInvariant, PTL

\* Only somebody invited or added to a campaign is ever in it.
THEOREM OnlyTheOfferedJoin == Spec => []JoinedWasOffered
<1>1. IInv => JoinedWasOffered
  BY DEF IInv
<1> QED
  BY <1>1, SafetyInvariant, PTL

\* Only somebody who has been master of the campaign, or a super user, invites to it.
THEOREM OnlyMastersInvite == Spec => []InviterWasMaster
<1>1. IInv => InviterWasMaster
  BY DEF IInv
<1> QED
  BY <1>1, SafetyInvariant, PTL

\* Search, lists and checks agree in every reachable state: the joins of the lists
\* lose nothing because no row outlives what it refers to.
THEOREM ListsCanBeActedOn == Spec => []ListsTellTheTruth
<1>1. TypeInv /\ IInv => ListsTellTheTruth
  <2> SUFFICES ASSUME TypeInv, IInv PROVE ListsTellTheTruth
    OBVIOUS
  <2>1. \A i \in DOMAIN invitation :
           /\ invitation[i].campaign \in campaigns
           /\ invitation[i].inviter \in users
           /\ invitation[i].invitee \in users
    BY DEF IInv, ReferentialIntegrity
  <2>2. ASSUME NEW c \in campaigns, NEW a \in users, NEW u \in users \ {a}
        PROVE  IF u \in SearchUsers(c, a)
                 THEN ~IsMember(c, u) /\ FindActive(c, u) = {}
                 ELSE \/ u \in FindMembersWithNicknames(c)
                      \/ \E i \in PendingInvitations(c) : invitation[i].invitee = u
    <3>1. CASE u \in SearchUsers(c, a)
      BY <3>1 DEF SearchUsers, FindActive, Active
    <3>2. CASE u \notin SearchUsers(c, a)
      <4>1. CASE ~IsMember(c, u)
        <5>1. PICK i \in DOMAIN invitation :
                 /\ invitation[i].campaign = c /\ invitation[i].invitee = u
                 /\ invitation[i].status = "pending"
          BY <3>2, <4>1 DEF SearchUsers
        <5>2. i \in PendingInvitations(c)
          BY <2>1, <5>1 DEF PendingInvitations, FindByCampaignId
        <5> QED
          BY <3>2, <5>1, <5>2
      <4>2. CASE IsMember(c, u)
        BY <3>2, <4>2 DEF FindMembersWithNicknames
      <4> QED
        BY <4>1, <4>2
    <3> QED
      BY <3>1, <3>2
  <2>3. ASSUME NEW i \in DOMAIN invitation, Active(i)
        PROVE  /\ i \in FindPendingByInviteeId(invitation[i].invitee)
               /\ Answerable(i, invitation[i].invitee)
    <3>1. invitation[i].left \in (-1..TTL) \cup {Never}
      BY DEF TypeInv, TypeOK, InvitationRow
    <3>2. ~IsInvitationExpired(invitation[i])
      BY <2>3, <3>1, StoreAssumption DEF Active, NotExpiredSql, IsInvitationExpired
    <3> QED
      BY <2>1, <2>3, <3>2 DEF FindPendingByInviteeId, Answerable, Exists, Active
  <2>4. ASSUME NEW p \in Pairs, role[p] # "none"
        PROVE  /\ p[1] \in FindCampaignsByUserId(p[2])
               /\ p[2] \in FindMembersWithNicknames(p[1])
    <3>1. p = <<p[1], p[2]>> /\ p[1] \in campaigns /\ p[2] \in users
      BY <2>4 DEF IInv, ReferentialIntegrity, Pairs
    <3> QED
      BY <2>4, <3>1 DEF FindCampaignsByUserId, FindMembersWithNicknames, IsMember
  <2> QED
    BY <2>2, <2>3, <2>4 DEF ListsTellTheTruth
<1> QED
  BY <1>1, TypeInvariant, SafetyInvariant, PTL
=============================================================================
