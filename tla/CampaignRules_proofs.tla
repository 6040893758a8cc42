------------------------ MODULE CampaignRules_proofs ------------------------
(***************************************************************************)
(* Proofs of the rules of CampaignSystem that some operation or some       *)
(* overlap of requests breaks: the limit of campaigns per master, a master *)
(* in every campaign, one active invitation, and the invitation contract.  *)
(* Their theorems name the operations that must not be issued, or say that *)
(* requests do not overlap; everything else stays arbitrary.  What is left *)
(* of one active invitation when requests do overlap, a bound on how many  *)
(* there are, needs no condition (ActiveOvershootIsBounded).               *)
(***************************************************************************)
EXTENDS CampaignSystem_proofs, FiniteSetTheorems

----------------------------------------------------------------------------
(* The inductive strengthenings *)

\* A request makes the calls of operations that are issued, and of no other.
CallsAreIssued ==
    \A r \in Requests :
        /\ At(r, "add:insert") => "add" \in Operations
        /\ request[r].next \in {"role:member", "role:write"} => "role" \in Operations
        /\ request[r].next \in {"remove:member", "remove:write"} => "remove" \in Operations

\* The requests of u that have passed the check of the limit and may still
\* make him a master.
Creating(u) ==
    {r \in Requests : /\ request[r].next \in {"create:insert", "create:member"}
                      /\ request[r].actor = u}

\* Each of them took one place when the check found one free.
MastersCounted ==
    \A u \in Users :
        Cardinality(MasterCampaigns(u)) + Cardinality(Creating(u))
            <= MasterLimit + Cardinality(Requests) - 1

\* What the one request in flight has read is still so when it writes.
ReadsHold(r) ==
    /\ request[r].next \in {"send:active", "send:insert"} =>
         ~IsMember(request[r].campaign, request[r].target)
    /\ At(r, "send:insert") =>
         FindActive(request[r].campaign, request[r].target) = {}
    /\ request[r].next \in {"cancel:write", "decline:write", "accept:commit"} =>
         (Exists(request[r].invitation) =>
             invitation[request[r].invitation].status = "pending")

\* No two invitations of the same user to the same campaign are active, and
\* every row has an expiry.
OneEach ==
    \A i, j \in DOMAIN invitation :
        /\ Active(i) /\ Active(j)
        /\ invitation[i].campaign = invitation[j].campaign
        /\ invitation[i].invitee = invitation[j].invitee
        => i = j

AllExpire == \A i \in DOMAIN invitation : invitation[i].left # Never

SerialInv == OneEach /\ AllExpire /\ \A r \in Requests : ReadsHold(r)
----------------------------------------------------------------------------
(* Steps that create and delete no campaign *)

CreationCalls == {"create:insert", "create:member", "create:undo"}

\* Nobody becomes a master in this step, or stops being one.
NoNewMaster  == \A p \in Pairs : role'[p] = "master" => role[p] = "master"
NoLostMaster == \A p \in Pairs : role[p] = "master" => role'[p] = "master"

\* A step of r that has no part in creating or deleting a campaign, and makes
\* only the changes of masters that its operation is for.
Quiet(r) ==
    /\ \A s \in Requests \ {r} : request'[s] = request[s]
    /\ request[r].next \notin CreationCalls /\ request'[r].next \notin CreationCalls
    /\ UNCHANGED <<users, campaigns>>
    /\ CallsAreIssued'
    /\ Operations \cap {"add", "role"} = {} => NoNewMaster
    /\ Operations \cap {"role", "remove"} = {} => NoLostMaster

\* Starting a request of another kind.
LEMMA StartIsQuiet ==
    ASSUME TypeInv, CallsAreIssued, NEW r \in Requests, NEW n \in NextCall \ CreationCalls,
           NEW a \in Users \cup {Admin, None}, NEW c \in Campaigns \cup {None},
           NEW t \in Users \cup {None}, NEW i \in Invitations \cup {None},
           NEW rl \in Roles \cup {"none"}, Start(r, n, a, c, t, i, rl),
           UNCHANGED <<tables, history>>,
           n = "add:insert" => "add" \in Operations,
           n \in {"role:member", "role:write"} => "role" \in Operations,
           n \in {"remove:member", "remove:write"} => "remove" \in Operations
    PROVE  Quiet(r)
<1>0. TypeOK /\ n \in NextCall
  BY DEF TypeInv
<1>1. /\ request'[r] = [next |-> n, actor |-> a, campaign |-> c, target |-> t,
                        invitation |-> i, role |-> rl]
      /\ \A s \in Requests \ {r} : request'[s] = request[s]
  BY <1>0, StartTyped
<1>2. request[r].next = "idle"
  BY DEF Start, Idle
<1>3. CallsAreIssued'
  BY <1>1 DEF CallsAreIssued, At
<1> QED
  BY <1>1, <1>2, <1>3 DEF Quiet, CreationCalls, tables, NoNewMaster, NoLostMaster

\* Answering a request of another kind.
LEMMA FinishIsQuiet ==
    ASSUME TypeInv, CallsAreIssued, NEW r \in Requests,
           request[r].next \notin CreationCalls, Finish(r), UNCHANGED <<users, campaigns>>,
           Operations \cap {"add", "role"} = {} => NoNewMaster,
           Operations \cap {"role", "remove"} = {} => NoLostMaster
    PROVE  Quiet(r)
<1>1. /\ request'[r].next = "idle"
      /\ \A s \in Requests \ {r} : request'[s] = request[s]
  BY FinishTyped DEF TypeInv, Idle
<1>2. CallsAreIssued'
  BY <1>1 DEF CallsAreIssued, At
<1> QED
  BY <1>1, <1>2 DEF Quiet, CreationCalls

\* Passing a check, or failing it.
LEMMA CheckIsQuiet ==
    ASSUME TypeInv, CallsAreIssued, NEW r \in Requests, NEW n \in NextCall \ CreationCalls,
           request[r].next \notin CreationCalls, Finish(r) \/ Continue(r, n),
           UNCHANGED <<tables, history>>,
           n # "add:insert",
           n \in {"role:member", "role:write"} => request[r].next = "role:member",
           n \in {"remove:member", "remove:write"} => request[r].next = "remove:member"
    PROVE  Quiet(r)
<1>1. CASE Finish(r)
  BY <1>1, FinishIsQuiet DEF tables, NoNewMaster, NoLostMaster
<1>2. CASE Continue(r, n)
  <2>0. n \in NextCall /\ request[r] \in RequestRecord
    BY DEF TypeInv, TypeOK
  <2>1. /\ request'[r] = [request[r] EXCEPT !.next = n]
        /\ \A s \in Requests \ {r} : request'[s] = request[s]
    BY <1>2, <2>0, ContinueTyped DEF TypeInv
  <2>2. request'[r].next = n
    BY <2>0, <2>1 DEF RequestRecord
  <2>3. CallsAreIssued'
    BY <2>1, <2>2 DEF CallsAreIssued, At
  <2> QED
    BY <2>1, <2>2, <2>3 DEF Quiet, tables, NoNewMaster, NoLostMaster
<1> QED
  BY <1>1, <1>2

\* A new row that is no master, or an old one that goes, is no new master;
\* a new row is none that is lost.
LEMMA SetRoleMasters ==
    ASSUME TypeOK, NEW c \in Campaigns, NEW u \in Users,
           NEW rl \in Roles \cup {"none"}, SetRole(c, u, rl)
    PROVE  /\ rl # "master" => NoNewMaster
           /\ role[<<c, u>>] # "master" => NoLostMaster
BY DEF TypeOK, SetRole, NoNewMaster, NoLostMaster, Pairs

\* The handlers of invitations.
LEMMA InvitationHandlersAreQuiet ==
    ASSUME TypeInv, CallsAreIssued, NEW r \in Requests, InvitationHandlers(r)
    PROVE  Quiet(r)
<1> USE DEF NextCall, Roles, CreationCalls
<1>1. ASSUME NEW a \in Users, NEW c \in Campaigns, NEW u \in Users, StartSend(r, a, c, u)
      PROVE  Quiet(r)
  BY <1>1, StartIsQuiet DEF StartSend
<1>2. CASE SendCheckMember(r)
  BY <1>2, CheckIsQuiet DEF SendCheckMember, At
<1>3. CASE SendCheckActive(r)
  BY <1>3, CheckIsQuiet DEF SendCheckActive, At
<1>4. CASE SendInsert(r)
  BY <1>4, FinishIsQuiet DEF SendInsert, At, NoNewMaster, NoLostMaster
<1>5. ASSUME NEW a \in Users, NEW c \in Campaigns, NEW i \in Invitations, StartCancel(r, a, c, i)
      PROVE  Quiet(r)
  BY <1>5, StartIsQuiet DEF StartCancel
<1>6. CASE CancelRead(r)
  BY <1>6, CheckIsQuiet DEF CancelRead, At
<1>7. CASE CancelWrite(r)
  BY <1>7, FinishIsQuiet DEF CancelWrite, At, NoNewMaster, NoLostMaster
<1>8. ASSUME NEW u \in Users, NEW i \in Invitations, StartAccept(r, u, i)
      PROVE  Quiet(r)
  <2>1. invitation[i].campaign \in Campaigns
    BY <1>8 DEF StartAccept, Answerable, Exists, TypeInv, TypeOK, InvitationRow
  <2>2. /\ Start(r, "accept:commit", u, invitation[i].campaign, None, i, "none")
        /\ UNCHANGED <<tables, history>>
    BY <1>8 DEF StartAccept
  <2>3. /\ u \in Users \cup {Admin, None} /\ None \in Users \cup {None}
        /\ i \in Invitations \cup {None} /\ "none" \in Roles \cup {"none"}
        /\ invitation[i].campaign \in Campaigns \cup {None}
        /\ "accept:commit" \in NextCall \ CreationCalls
    BY <2>1
  <2> QED
    BY <2>2, <2>3, StartIsQuiet
<1>9. CASE AcceptCommit(r)
  <2> DEFINE c == request[r].campaign
             u == request[r].actor
  <2>1. c \in Campaigns /\ u \in Users
    BY <1>9 DEF AcceptCommit, At, TypeInv, FieldsAreSet
  <2>2. CASE InsertableMember(c, u)
    <3>1. SetRole(c, u, "player") /\ role[<<c, u>>] = "none"
      BY <1>9, <2>2 DEF AcceptCommit, InsertableMember, IsMember
    <3>2. NoNewMaster /\ NoLostMaster
      BY <2>1, <3>1, SetRoleMasters DEF TypeInv
    <3> QED
      BY <1>9, <3>2, FinishIsQuiet DEF AcceptCommit, At
  <2>3. CASE ~InsertableMember(c, u)
    BY <1>9, <2>3, FinishIsQuiet DEF AcceptCommit, At, NoNewMaster, NoLostMaster
  <2> QED
    BY <2>2, <2>3
<1>10. ASSUME NEW u \in Users, NEW i \in Invitations, StartDecline(r, u, i)
       PROVE  Quiet(r)
  BY <1>10, StartIsQuiet DEF StartDecline
<1>11. CASE DeclineWrite(r)
  BY <1>11, FinishIsQuiet DEF DeclineWrite, At, NoNewMaster, NoLostMaster
<1> QED
  BY <1>1, <1>2, <1>3, <1>4, <1>5, <1>6, <1>7, <1>8, <1>9, <1>10, <1>11
  DEF InvitationHandlers

\* The handlers of members, and the starts of deletions.
LEMMA MemberHandlersAreQuiet ==
    ASSUME TypeInv, CallsAreIssued, NEW r \in Requests, MemberHandlers(r)
    PROVE  \/ Quiet(r)
           \/ \E u \in Users : StartCreate(r, u)
           \/ CreateInsert(r) \/ CreateMember(r) \/ DeleteWrite(r)
<1> USE DEF NextCall, Roles, CreationCalls
<1> DEFINE c == request[r].campaign
           t == request[r].target
<1>1. ASSUME NEW a \in Users, NEW d \in Campaigns, NEW v \in Users,
             NEW rl \in Roles, StartAdd(r, a, d, v, rl)
      PROVE  Quiet(r)
  BY <1>1, StartIsQuiet DEF StartAdd
<1>2. ASSUME NEW a \in Users, NEW d \in Campaigns, NEW v \in Users,
             NEW rl \in Roles, StartRole(r, a, d, v, rl)
      PROVE  Quiet(r)
  BY <1>2, StartIsQuiet DEF StartRole
<1>3. ASSUME NEW a \in Users, NEW d \in Campaigns, NEW v \in Users,
             StartRemove(r, a, d, v)
      PROVE  Quiet(r)
  BY <1>3, StartIsQuiet DEF StartRemove
<1>4. ASSUME AddInsert(r)
      PROVE  Quiet(r)
  <2>1. PICK rl \in Roles : rl = request[r].role
    BY <1>4 DEF AddInsert, At, TypeInv, FieldsAreSet
  <2>2. c \in Campaigns /\ t \in Users /\ "add" \in Operations
    BY <1>4 DEF AddInsert, At, TypeInv, FieldsAreSet, CallsAreIssued
  <2>3. NoLostMaster
    <3>1. CASE InsertableMember(c, t)
      <4>1. SetRole(c, t, rl) /\ role[<<c, t>>] = "none"
        BY <1>4, <2>1, <3>1 DEF AddInsert, InsertableMember, IsMember
      <4> QED
        BY <2>2, <4>1, SetRoleMasters DEF TypeInv
    <3>2. CASE ~InsertableMember(c, t)
      BY <1>4, <3>2 DEF AddInsert, NoLostMaster
    <3> QED
      BY <3>1, <3>2
  <2> QED
    BY <1>4, <2>2, <2>3, FinishIsQuiet DEF AddInsert, At
<1>5. ASSUME CheckMember(r)
      PROVE  Quiet(r)
  <2>1. CASE At(r, "role:member")
    BY <1>5, <2>1, CheckIsQuiet DEF CheckMember, At
  <2>2. CASE ~At(r, "role:member")
    <3>1. request[r].next = "remove:member" /\ (Finish(r) \/ Continue(r, "remove:write"))
      BY <1>5, <2>2 DEF CheckMember, At
    <3> QED
      BY <1>5, <3>1, CheckIsQuiet DEF CheckMember
  <2> QED
    BY <2>1, <2>2
<1>6. ASSUME RoleWrite(r)
      PROVE  Quiet(r)
  <2>1. "role" \in Operations
    BY <1>6 DEF RoleWrite, At, CallsAreIssued
  <2> QED
    BY <1>6, <2>1, FinishIsQuiet DEF RoleWrite, At
<1>7. ASSUME RemoveWrite(r)
      PROVE  Quiet(r)
  <2>1. c \in Campaigns /\ t \in Users /\ "remove" \in Operations
    BY <1>7 DEF RemoveWrite, At, TypeInv, FieldsAreSet, CallsAreIssued
  <2>2. SetRole(c, t, "none") /\ "none" \in Roles \cup {"none"} /\ TypeOK
    BY <1>7 DEF RemoveWrite, TypeInv
  <2>3. NoNewMaster
    BY <2>1, <2>2, SetRoleMasters
  <2> QED
    BY <1>7, <2>1, <2>3, FinishIsQuiet DEF RemoveWrite, At
<1>8. ASSUME NEW a \in Users, NEW d \in Campaigns, StartDelete(r, a, d)
      PROVE  Quiet(r)
  BY <1>8, StartIsQuiet DEF StartDelete
<1>9. ASSUME NEW d \in Campaigns, StartAdminDelete(r, d)
      PROVE  Quiet(r)
  <2>1. /\ Start(r, "delete:write", Admin, d, None, None, "none")
        /\ UNCHANGED <<tables, history>>
    BY <1>9 DEF StartAdminDelete
  <2>2. /\ Admin \in Users \cup {Admin, None} /\ d \in Campaigns \cup {None}
        /\ None \in Users \cup {None} /\ None \in Invitations \cup {None}
        /\ "none" \in Roles \cup {"none"}
        /\ "delete:write" \in NextCall \ CreationCalls
    OBVIOUS
  <2> QED
    BY <2>1, <2>2, StartIsQuiet
<1> QED
  BY <1>1, <1>2, <1>3, <1>4, <1>5, <1>6, <1>7, <1>8, <1>9 DEF MemberHandlers

\* The steps of a creation make no other call.
LEMMA CreationKeepsCalls ==
    ASSUME TypeInv, CallsAreIssued, NEW r \in Requests,
           \/ \E u \in Users : StartCreate(r, u)
           \/ CreateInsert(r) \/ CreateMember(r) \/ DeleteWrite(r) \/ Abandon(r)
    PROVE  /\ CallsAreIssued'
           /\ \A s \in Requests \ {r} : request'[s] = request[s]
           /\ request'[r].next \in {"create:insert", "create:member", "create:undo", "idle"}
<1>1. request \in [Requests -> RequestRecord]
  BY DEF TypeInv, TypeOK
<1>2. /\ request'[r].next \in {"create:insert", "create:member", "create:undo", "idle"}
      /\ \A s \in Requests \ {r} : request'[s] = request[s]
  <2>1. CASE \E u \in Users : StartCreate(r, u)
    BY <1>1, <2>1 DEF StartCreate, Start
  <2>2. CASE CreateInsert(r)
    BY <1>1, <2>2 DEF CreateInsert, Finish, Idle, RequestRecord
  <2>3. CASE CreateMember(r)
    BY <1>1, <2>3 DEF CreateMember, Finish, Continue, Idle, RequestRecord
  <2>4. CASE DeleteWrite(r) \/ Abandon(r)
    BY <1>1, <2>4 DEF DeleteWrite, Abandon, Finish, Idle
  <2> QED
    BY <2>1, <2>2, <2>3, <2>4
<1> QED
  BY <1>2 DEF CallsAreIssued, At

\* In every state.
THEOREM NobodyCallsUnasked == Spec => []CallsAreIssued
<1>1. Init => CallsAreIssued
  BY DEF Init, StoreInit, Idle, CallsAreIssued, At
<1>2. TypeInv /\ CallsAreIssued /\ [Next]_vars => CallsAreIssued'
  <2> SUFFICES ASSUME TypeInv, CallsAreIssued, [Next]_vars PROVE CallsAreIssued'
    OBVIOUS
  <2>1. ASSUME NEW r \in Requests, InvitationHandlers(r)
        PROVE  CallsAreIssued'
    BY <2>1, InvitationHandlersAreQuiet DEF Quiet
  <2>2. ASSUME NEW r \in Requests, MemberHandlers(r)
        PROVE  CallsAreIssued'
    BY <2>2, MemberHandlersAreQuiet, CreationKeepsCalls DEF Quiet
  <2>3. ASSUME NEW r \in Requests, Abandon(r)
        PROVE  CallsAreIssued'
    BY <2>3, CreationKeepsCalls
  <2>4. CASE (\E u \in Users : DeleteUser(u)) \/ AdminCreate \/ Tick \/ UNCHANGED vars
    BY <2>4 DEF DeleteUser, AdminCreate, Tick, vars, CallsAreIssued, At
  <2> QED
    BY <2>1, <2>2, <2>3, <2>4 DEF Next
<1> QED
  BY <1>1, <1>2, TypeInvariant, PTL DEF Spec

----------------------------------------------------------------------------
(* A master in every campaign *)

\* A quiet step leaves every campaign the master, or the creation in progress,
\* that it had.
LEMMA QuietKeepsMasters ==
    ASSUME TypeInv, EveryCampaignHasMaster, NEW r \in Requests, Quiet(r),
           Operations \cap {"role", "remove"} = {}
    PROVE  EveryCampaignHasMaster'
<1> SUFFICES ASSUME NEW c \in campaigns'
             PROVE  \/ \E u \in users' : role'[<<c, u>>] = "master"
                    \/ \E s \in Requests : /\ request'[s].campaign = c
                                           /\ request'[s].next \in {"create:member", "create:undo"}
  BY DEF EveryCampaignHasMaster
<1>1. c \in campaigns /\ c \in Campaigns /\ users' = users /\ users \subseteq Users
  BY DEF Quiet, TypeInv, TypeOK
<1>2. CASE \E u \in users : role[<<c, u>>] = "master"
  BY <1>1, <1>2 DEF Quiet, NoLostMaster, Pairs
<1>3. CASE \E s \in Requests : /\ request[s].campaign = c
                               /\ request[s].next \in {"create:member", "create:undo"}
  BY <1>3 DEF Quiet, CreationCalls
<1> QED
  BY <1>1, <1>2, <1>3 DEF EveryCampaignHasMaster

\* POST /v1/campaigns leaves a campaign with a master, or none, however many
\* creations, deletions, invitations and additions overlap and whatever call
\* fails: the compensation does what it is there for.  Only what is meant to
\* take a master away can leave a campaign without: a change of roles, a removal,
\* the end of an account, a Worker that is evicted, an administrator's creation.
THEOREM CampaignsKeepAMaster ==
    ASSUME Operations \cap {"role", "remove", "deleteUser", "abandon", "adminCreate"} = {}
    PROVE  Spec => []EveryCampaignHasMaster
<1>1. Init => EveryCampaignHasMaster
  BY StoreAssumption DEF Init, StoreInit, EveryCampaignHasMaster, Pairs
<1>2. TypeInv /\ CallsAreIssued /\ EveryCampaignHasMaster /\ [Next]_vars
        => EveryCampaignHasMaster'
  <2> SUFFICES ASSUME TypeInv, CallsAreIssued, EveryCampaignHasMaster, [Next]_vars
               PROVE  EveryCampaignHasMaster'
    OBVIOUS
  <2>0. Operations \cap {"role", "remove"} = {}
    OBVIOUS
  <2>1. ASSUME NEW r \in Requests, InvitationHandlers(r)
        PROVE  EveryCampaignHasMaster'
    BY <2>0, <2>1, InvitationHandlersAreQuiet, QuietKeepsMasters
  <2>2. ASSUME NEW r \in Requests, NEW u \in Users, StartCreate(r, u)
        PROVE  EveryCampaignHasMaster'
    <3>1. request[r].next = "idle" /\ \A s \in Requests \ {r} : request'[s] = request[s]
      BY <2>2 DEF StartCreate, Start, Idle, TypeInv, TypeOK
    <3> QED
      BY <2>2, <3>1 DEF StartCreate, tables, EveryCampaignHasMaster
  <2>3. ASSUME NEW r \in Requests, CreateInsert(r)
        PROVE  EveryCampaignHasMaster'
    <3>1. /\ request[r].next = "create:insert"
          /\ UNCHANGED <<users, role>>
          /\ \A s \in Requests \ {r} : request'[s] = request[s]
      BY <2>3, CreationKeepsCalls DEF CreateInsert, At
    <3>2. ASSUME NEW d \in Campaigns, InsertCampaign(d),
                 request' = [request EXCEPT ![r].next = "create:member", ![r].campaign = d]
          PROVE  EveryCampaignHasMaster'
      <4>1. request'[r].next = "create:member" /\ request'[r].campaign = d
        BY <3>2 DEF TypeInv, TypeOK, RequestRecord
      <4>2. campaigns' = campaigns \cup {d}
        BY <3>2 DEF InsertCampaign
      <4> QED
        BY <3>1, <4>1, <4>2 DEF EveryCampaignHasMaster
    <3>3. CASE UNCHANGED campaigns
      BY <3>1, <3>3 DEF EveryCampaignHasMaster
    <3> QED
      BY <2>3, <3>2, <3>3 DEF CreateInsert
  <2>4. ASSUME NEW r \in Requests, CreateMember(r)
        PROVE  EveryCampaignHasMaster'
    <3> DEFINE c == request[r].campaign
               u == request[r].actor
    <3>1. /\ c \in Campaigns /\ u \in Users
          /\ UNCHANGED <<users, campaigns>>
          /\ \A s \in Requests \ {r} : request'[s] = request[s]
      BY <2>4, CreationKeepsCalls DEF CreateMember, At, TypeInv, FieldsAreSet
    <3>2. CASE InsertableMember(c, u) /\ SetRole(c, u, "master")
      <4>1. role' = [role EXCEPT ![<<c, u>>] = "master"] /\ <<c, u>> \in Pairs
        BY <3>1, <3>2 DEF SetRole, Pairs
      <4>2. role'[<<c, u>>] = "master" /\ u \in users'
        BY <3>1, <3>2, <4>1 DEF InsertableMember, TypeInv, TypeOK
      <4>3. NoLostMaster
        BY <4>1 DEF NoLostMaster, TypeInv, TypeOK
      <4>4. ASSUME NEW d \in campaigns \ {c}
            PROVE  \/ \E v \in users : role'[<<d, v>>] = "master"
                   \/ \E s \in Requests : /\ request'[s].campaign = d
                                          /\ request'[s].next \in {"create:member", "create:undo"}
        <5>1. d \in Campaigns /\ users \subseteq Users
          BY DEF TypeInv, TypeOK
        <5> QED
          BY <3>1, <4>3, <5>1 DEF EveryCampaignHasMaster, NoLostMaster, Pairs
      <4> QED
        BY <3>1, <4>2, <4>4 DEF EveryCampaignHasMaster
    <3>3. CASE Continue(r, "create:undo") /\ UNCHANGED <<role, history>>
      <4>1. request'[r].next = "create:undo" /\ request'[r].campaign = c
        BY <3>3 DEF Continue, TypeInv, TypeOK, RequestRecord
      <4> QED
        BY <3>1, <3>3, <4>1 DEF EveryCampaignHasMaster
    <3> QED
      BY <2>4, <3>2, <3>3 DEF CreateMember
  <2>5. ASSUME NEW r \in Requests, DeleteWrite(r)
        PROVE  EveryCampaignHasMaster'
    <3> DEFINE c == request[r].campaign
    <3>1. /\ campaigns' = campaigns \ {c} /\ users' = users
          /\ Cascade({c}, {})
          /\ \A s \in Requests \ {r} : request'[s] = request[s]
      BY <2>5, CreationKeepsCalls DEF DeleteWrite, DeleteCampaign
    <3>2. \A p \in Pairs : p[1] # c => role'[p] = role[p]
      BY <3>1 DEF Cascade
    <3>3. campaigns \subseteq Campaigns /\ users \subseteq Users
      BY DEF TypeInv, TypeOK
    <3>4. ASSUME NEW d \in campaigns \ {c}
          PROVE  \/ \E v \in users : role'[<<d, v>>] = "master"
                 \/ \E s \in Requests : /\ request'[s].campaign = d
                                        /\ request'[s].next \in {"create:member", "create:undo"}
      <4>1. CASE \E v \in users : role[<<d, v>>] = "master"
        <5>1. PICK v \in users : role[<<d, v>>] = "master"
          BY <4>1
        <5>2. <<d, v>> \in Pairs /\ <<d, v>>[1] # c
          BY <3>3 DEF Pairs
        <5> QED
          BY <3>2, <5>1, <5>2
      <4>2. CASE \E s \in Requests : /\ request[s].campaign = d
                                     /\ request[s].next \in {"create:member", "create:undo"}
        BY <3>1, <4>2
      <4> QED
        BY <4>1, <4>2 DEF EveryCampaignHasMaster
    <3> QED
      BY <3>1, <3>4 DEF EveryCampaignHasMaster
  <2>6. ASSUME NEW r \in Requests, MemberHandlers(r)
        PROVE  EveryCampaignHasMaster'
    <3>1. CASE Quiet(r)
      BY <2>0, <3>1, QuietKeepsMasters
    <3> QED
      BY <2>2, <2>3, <2>4, <2>5, <2>6, <3>1, MemberHandlersAreQuiet
  <2>7. CASE Tick \/ UNCHANGED vars
    BY <2>7 DEF Tick, vars, tables, EveryCampaignHasMaster
  <2>8. /\ \A r \in Requests : ~Abandon(r)
        /\ \A u \in Users : ~DeleteUser(u)
        /\ ~AdminCreate
    BY DEF Abandon, DeleteUser, AdminCreate
  <2> QED
    BY <2>1, <2>6, <2>7, <2>8 DEF Next
<1> QED
  BY <1>1, <1>2, TypeInvariant, NobodyCallsUnasked, PTL DEF Spec
----------------------------------------------------------------------------
(* The limit of campaigns per master *)

LEMMA CountsAreNaturals ==
    ASSUME TypeInv, NEW u \in Users
    PROVE  /\ IsFiniteSet(MasterCampaigns(u)) /\ Cardinality(MasterCampaigns(u)) \in Nat
           /\ IsFiniteSet(Creating(u)) /\ Cardinality(Creating(u)) \in Nat
           /\ Cardinality(Requests) \in Nat /\ Cardinality(Creating(u)) <= Cardinality(Requests)
<1>1. MasterCampaigns(u) \subseteq Campaigns /\ Creating(u) \subseteq Requests
  BY DEF MasterCampaigns, Creating, TypeInv, TypeOK
<1>2. IsFiniteSet(Campaigns) /\ IsFiniteSet(Requests)
  BY StoreAssumption
<1> QED
  BY <1>1, <1>2, FS_Subset, FS_CardinalityType

\* A bound on two counts outlasts a step that adds to neither.
LEMMA CountsShrink ==
    ASSUME NEW S, NEW T, NEW S1, NEW T1, NEW n \in Int, IsFiniteSet(S), IsFiniteSet(T),
           S1 \subseteq S, T1 \subseteq T, Cardinality(S) + Cardinality(T) <= n
    PROVE  Cardinality(S1) + Cardinality(T1) <= n
<1>1. /\ Cardinality(S1) \in Nat /\ Cardinality(S) \in Nat
      /\ Cardinality(S1) <= Cardinality(S)
  BY FS_Subset, FS_CardinalityType
<1>2. /\ Cardinality(T1) \in Nat /\ Cardinality(T) \in Nat
      /\ Cardinality(T1) <= Cardinality(T)
  BY FS_Subset, FS_CardinalityType
<1> QED
  BY <1>1, <1>2

\* Steps that make nobody a master, and let no creation pass its check.
LEMMA CalmKeepsCount ==
    ASSUME TypeInv, TypeInv', IInv, MastersCounted, NoNewMaster,
           \A s \in Requests :
               request'[s].next \in {"create:insert", "create:member"} =>
                   /\ request[s].next \in {"create:insert", "create:member"}
                   /\ request'[s].actor = request[s].actor
    PROVE  MastersCounted'
<1> SUFFICES ASSUME NEW u \in Users
             PROVE  Cardinality(MasterCampaigns(u)') + Cardinality(Creating(u)')
                      <= MasterLimit + Cardinality(Requests) - 1
  BY DEF MastersCounted
<1>1. MasterCampaigns(u)' \subseteq MasterCampaigns(u)
  <2> SUFFICES ASSUME NEW c \in campaigns', role'[<<c, u>>] = "master"
               PROVE  c \in campaigns /\ role[<<c, u>>] = "master"
    BY DEF MasterCampaigns
  <2>1. <<c, u>> \in Pairs
    BY DEF Pairs, TypeInv, TypeOK
  <2> QED
    BY <2>1 DEF NoNewMaster, IInv, ReferentialIntegrity
<1>2. Creating(u)' \subseteq Creating(u)
  BY DEF Creating
<1>3. /\ IsFiniteSet(MasterCampaigns(u)) /\ IsFiniteSet(Creating(u))
      /\ MasterLimit + Cardinality(Requests) - 1 \in Int
  BY CountsAreNaturals, StoreAssumption
<1>4. Cardinality(MasterCampaigns(u)) + Cardinality(Creating(u))
        <= MasterLimit + Cardinality(Requests) - 1
  BY DEF MastersCounted
<1> QED
  BY <1>1, <1>2, <1>3, <1>4, CountsShrink

\* countMasterCampaigns found a place free: after the check the sum is within
\* the bound, whatever is in flight.
LEMMA StartCreateKeepsCount ==
    ASSUME TypeInv, TypeInv', MastersCounted,
           NEW r \in Requests, NEW v \in Users, StartCreate(r, v)
    PROVE  MastersCounted'
<1> SUFFICES ASSUME NEW u \in Users
             PROVE  Cardinality(MasterCampaigns(u)') + Cardinality(Creating(u)')
                      <= MasterLimit + Cardinality(Requests) - 1
  BY DEF MastersCounted
<1>1. MasterCampaigns(u)' = MasterCampaigns(u)
  BY DEF StartCreate, tables, MasterCampaigns
<1>2. CASE u = v
  <2>1. Cardinality(MasterCampaigns(u)) < MasterLimit
    BY <1>2 DEF StartCreate
  <2>2. /\ Cardinality(Creating(u)') \in Nat /\ Cardinality(Requests) \in Nat
        /\ Cardinality(Creating(u)') <= Cardinality(Requests)
    <3>1. Creating(u)' \subseteq Requests
      BY DEF Creating
    <3> QED
      BY <3>1, StoreAssumption, FS_Subset, FS_CardinalityType
  <2> QED
    BY <1>1, <2>1, <2>2, CountsAreNaturals, StoreAssumption
<1>3. CASE u # v
  <2>1. request' = [request EXCEPT ![r] =
          [next |-> "create:insert", actor |-> v, campaign |-> None, target |-> None,
           invitation |-> None, role |-> "none"]]
    BY DEF StartCreate, Start
  <2>2. Creating(u)' \subseteq Creating(u)
    BY <1>3, <2>1 DEF Creating, TypeInv, TypeOK
  <2>3. /\ IsFiniteSet(MasterCampaigns(u)) /\ IsFiniteSet(Creating(u))
        /\ MasterLimit + Cardinality(Requests) - 1 \in Int
    BY CountsAreNaturals, StoreAssumption
  <2>4. Cardinality(MasterCampaigns(u)) + Cardinality(Creating(u))
          <= MasterLimit + Cardinality(Requests) - 1
    BY DEF MastersCounted
  <2> QED
    BY <1>1, <2>2, <2>3, <2>4, CountsShrink
<1> QED
  BY <1>2, <1>3

\* A bound on two counts outlasts a move of one from the second to the first.
LEMMA CountsMove ==
    ASSUME NEW S, NEW T, NEW x, NEW y, NEW n \in Int, IsFiniteSet(S), IsFiniteSet(T),
           y \in T, Cardinality(S) + Cardinality(T) <= n
    PROVE  /\ IsFiniteSet(S \cup {x}) /\ IsFiniteSet(T \ {y})
           /\ Cardinality(S \cup {x}) + Cardinality(T \ {y}) <= n
<1>1. IsFiniteSet(T \ {y}) /\ Cardinality(T \ {y}) = Cardinality(T) - 1
  BY FS_RemoveElement
<1>2. IsFiniteSet(S \cup {x})
  BY FS_AddElement
<1>3. \/ Cardinality(S \cup {x}) = Cardinality(S)
      \/ Cardinality(S \cup {x}) = Cardinality(S) + 1
  BY FS_AddElement, Zenon
<1>4. Cardinality(S) \in Nat /\ Cardinality(T) \in Nat
  BY FS_CardinalityType
<1> QED
  BY <1>1, <1>2, <1>3, <1>4

\* The new master row takes the place that the creation held.
LEMMA CreateMemberKeepsCount ==
    ASSUME TypeInv, TypeInv', IInv, MastersCounted, NEW r \in Requests, CreateMember(r)
    PROVE  MastersCounted'
<1> DEFINE c == request[r].campaign
           v == request[r].actor
<1>1. c \in Campaigns /\ v \in Users /\ r \in Creating(v)
  BY DEF CreateMember, At, TypeInv, FieldsAreSet, Creating
<1>2. CASE Finish(r) /\ SetRole(c, v, "master")
  <2> SUFFICES ASSUME NEW u \in Users
               PROVE  Cardinality(MasterCampaigns(u)') + Cardinality(Creating(u)')
                        <= MasterLimit + Cardinality(Requests) - 1
    BY DEF MastersCounted
  <2>1. role' = [role EXCEPT ![<<c, v>>] = "master"] /\ campaigns' = campaigns
    BY <1>2 DEF SetRole, CreateMember
  <2>2. \A s \in Requests \ {r} : request'[s] = request[s]
    BY <1>2, FinishTyped DEF TypeInv
  <2>3. request'[r].next = "idle"
    BY <1>2, FinishTyped DEF TypeInv, Idle
  <2>4. Creating(u)' \subseteq Creating(u) \ {r}
    BY <2>2, <2>3 DEF Creating
  <2>5. /\ IsFiniteSet(MasterCampaigns(u)) /\ IsFiniteSet(Creating(u))
        /\ MasterLimit + Cardinality(Requests) - 1 \in Int
    BY CountsAreNaturals, StoreAssumption
  <2>6. Cardinality(MasterCampaigns(u)) + Cardinality(Creating(u))
          <= MasterLimit + Cardinality(Requests) - 1
    BY DEF MastersCounted
  <2>7. CASE u = v
    <3>1. MasterCampaigns(u)' \subseteq MasterCampaigns(u) \cup {c}
      BY <1>1, <2>1 DEF MasterCampaigns, TypeInv, TypeOK, Pairs
    <3>2. /\ IsFiniteSet(MasterCampaigns(u) \cup {c}) /\ IsFiniteSet(Creating(u) \ {r})
          /\ Cardinality(MasterCampaigns(u) \cup {c}) + Cardinality(Creating(u) \ {r})
               <= MasterLimit + Cardinality(Requests) - 1
      BY <1>1, <2>5, <2>6, <2>7, CountsMove
    <3> QED
      BY <2>4, <2>5, <3>1, <3>2, CountsShrink
  <2>8. CASE u # v
    <3>1. MasterCampaigns(u)' \subseteq MasterCampaigns(u)
      BY <1>1, <2>1, <2>8 DEF MasterCampaigns, TypeInv, TypeOK, Pairs
    <3> QED
      BY <2>4, <2>5, <2>6, <3>1, CountsShrink
  <2> QED
    BY <2>7, <2>8
<1>3. CASE Continue(r, "create:undo") /\ UNCHANGED <<role, history>>
  <2>1. /\ request'[r].next = "create:undo"
        /\ \A s \in Requests \ {r} : request'[s] = request[s]
    BY <1>3 DEF Continue, TypeInv, TypeOK, RequestRecord
  <2>2. NoNewMaster
    BY <1>3 DEF NoNewMaster
  <2> QED
    BY <2>1, <2>2, CalmKeepsCount
<1> QED
  BY <1>2, <1>3 DEF CreateMember

\* Each step keeps the count, when nobody becomes master but by a creation.
LEMMA StepsKeepCount ==
    ASSUME TypeInv, TypeInv', IInv, CallsAreIssued, MastersCounted, [Next]_vars,
           Operations \cap {"add", "role"} = {}
    PROVE  MastersCounted'
<1>1. ASSUME NEW r \in Requests, Quiet(r)
      PROVE  MastersCounted'
  <2>1. NoNewMaster
    BY <1>1 DEF Quiet
  <2>2. \A s \in Requests :
           request'[s].next \in {"create:insert", "create:member"} => request'[s] = request[s]
    BY <1>1 DEF Quiet, CreationCalls
  <2> QED
    BY <2>1, <2>2, CalmKeepsCount
<1>2. ASSUME NEW r \in Requests, CreateInsert(r)
      PROVE  MastersCounted'
  <2>1. /\ request[r].next = "create:insert" /\ UNCHANGED role
        /\ \A s \in Requests \ {r} : request'[s] = request[s]
    BY <1>2, CreationKeepsCalls DEF CreateInsert, At
  <2>2. request'[r].next = "create:member" => request'[r].actor = request[r].actor
    BY <1>2 DEF CreateInsert, TypeInv, TypeOK, RequestRecord, Finish, Idle
  <2>3. request'[r].next \in {"create:member", "idle"}
    BY <1>2 DEF CreateInsert, TypeInv, TypeOK, RequestRecord, Finish, Idle
  <2>4. NoNewMaster
    BY <2>1 DEF NoNewMaster
  <2> QED
    BY <2>1, <2>2, <2>3, <2>4, CalmKeepsCount
<1>3. ASSUME NEW r \in Requests, Finish(r), NoNewMaster
      PROVE  MastersCounted'
  <2>1. /\ request'[r].next = "idle"
        /\ \A s \in Requests \ {r} : request'[s] = request[s]
    BY <1>3, FinishTyped DEF TypeInv, Idle
  <2> QED
    BY <1>3, <2>1, CalmKeepsCount
<1>4. ASSUME NEW cs, NEW us, Cascade(cs, us)
      PROVE  NoNewMaster
  BY <1>4, CascadeTyped DEF NoNewMaster, TypeInv
<1>5. ASSUME NEW r \in Requests, DeleteWrite(r) \/ Abandon(r)
      PROVE  MastersCounted'
  <2>1. NoNewMaster
    BY <1>4, <1>5 DEF DeleteWrite, DeleteCampaign, Abandon, tables, NoNewMaster
  <2> QED
    BY <1>3, <1>5, <2>1 DEF DeleteWrite, Abandon
<1>6. ASSUME NoNewMaster, UNCHANGED request
      PROVE  MastersCounted'
  BY <1>6, CalmKeepsCount
<1>7. CASE (\E u \in Users : DeleteUser(u)) \/ AdminCreate \/ Tick \/ UNCHANGED vars
  <2>1. UNCHANGED request
    BY <1>7 DEF DeleteUser, AdminCreate, Tick, vars
  <2>2. NoNewMaster
    <3>1. CASE \E u \in Users : DeleteUser(u)
      BY <1>4, <3>1 DEF DeleteUser
    <3>2. CASE AdminCreate \/ Tick \/ UNCHANGED vars
      BY <3>2 DEF AdminCreate, Tick, vars, tables, NoNewMaster
    <3> QED
      BY <1>7, <3>1, <3>2
  <2> QED
    BY <1>6, <2>1, <2>2
<1>8. ASSUME NEW r \in Requests, InvitationHandlers(r) \/ MemberHandlers(r)
      PROVE  MastersCounted'
  BY <1>1, <1>2, <1>5, <1>8, InvitationHandlersAreQuiet, MemberHandlersAreQuiet,
     StartCreateKeepsCount, CreateMemberKeepsCount
<1> QED
  BY <1>5, <1>7, <1>8 DEF Next

\* Creations that overlap pass the limit of five campaigns, but each by one at
\* most: all of n requests may have counted before any of them writes, and no
\* sequence of creations, deletions and abandoned requests makes it more.  The
\* check of POST /v1/campaigns is the only limit there is: a role given by another
\* master is not counted.
THEOREM LimitOvershootIsBounded ==
    ASSUME Operations \cap {"add", "role"} = {},
           \A u \in Users :
               Cardinality({c \in DOMAIN FirstMaster : FirstMaster[c] = u}) <= MasterLimit
    PROVE  Spec => []MasterLimitOvershoot
<1>1. Init => MastersCounted
  <2> SUFFICES ASSUME Init, NEW u \in Users
               PROVE  Cardinality(MasterCampaigns(u)) + Cardinality(Creating(u))
                        <= MasterLimit + Cardinality(Requests) - 1
    BY DEF MastersCounted
  <2>1. MasterCampaigns(u) = {c \in DOMAIN FirstMaster : FirstMaster[c] = u}
    BY StoreAssumption DEF Init, StoreInit, MasterCampaigns, Pairs
  <2>2. Creating(u) = {}
    BY DEF Init, StoreInit, Creating, Idle
  <2>3. MasterCampaigns(u) \subseteq Campaigns
    BY <2>1, StoreAssumption
  <2>4. /\ Cardinality(MasterCampaigns(u)) \in Nat /\ Cardinality(Requests) \in Nat
        /\ Cardinality(Creating(u)) = 0
    BY <2>2, <2>3, StoreAssumption, FS_Subset, FS_CardinalityType, FS_EmptySet
  <2>5. Cardinality(MasterCampaigns(u)) <= MasterLimit
    BY <2>1
  <2>6. Cardinality(Requests) # 0
    BY StoreAssumption, FS_EmptySet
  <2> QED
    BY <2>4, <2>5, <2>6, StoreAssumption
<1>2. TypeInv /\ TypeInv' /\ IInv /\ CallsAreIssued /\ MastersCounted /\ [Next]_vars
        => MastersCounted'
  BY StepsKeepCount
<1>3. TypeInv /\ MastersCounted => MasterLimitOvershoot
  <2> SUFFICES ASSUME TypeInv, MastersCounted, NEW u \in Users
               PROVE  Cardinality(MasterCampaigns(u)) < MasterLimit + Cardinality(Requests)
    BY DEF MasterLimitOvershoot
  <2>1. Cardinality(MasterCampaigns(u)) + Cardinality(Creating(u))
          <= MasterLimit + Cardinality(Requests) - 1
    BY DEF MastersCounted
  <2> QED
    BY <2>1, CountsAreNaturals, StoreAssumption
<1> QED
  BY <1>1, <1>2, <1>3, TypeInvariant, SafetyInvariant, NobodyCallsUnasked, PTL DEF Spec
----------------------------------------------------------------------------
(* Requests that do not overlap *)

\* The rows that a step leaves are rows there were, no more active than before.
RowsStay ==
    \A i \in DOMAIN invitation' :
        /\ i \in DOMAIN invitation
        /\ invitation'[i].campaign = invitation[i].campaign
        /\ invitation'[i].invitee = invitation[i].invitee
        /\ Active(i)' => Active(i)
        /\ invitation'[i].left # Never

LEMMA RowsStayOneEach ==
    ASSUME OneEach, RowsStay
    PROVE  /\ OneEach' /\ AllExpire'
           /\ \A c, u : FindActive(c, u)' \subseteq FindActive(c, u)
BY DEF OneEach, AllExpire, RowsStay, FindActive

LEMMA UnchangedRowsStay ==
    ASSUME AllExpire, UNCHANGED invitation
    PROVE  RowsStay
BY DEF AllExpire, RowsStay, Active

\* A status that is not "pending" makes a row less active.
LEMMA StatusRowsStay ==
    ASSUME TypeOK, AllExpire, NEW i, NEW s \in Statuses \ {"pending"}, UpdateStatus(i, s)
    PROVE  RowsStay
<1>1. /\ DOMAIN invitation' = DOMAIN invitation
      /\ \A j \in DOMAIN invitation :
           invitation'[j] = IF j = i THEN [invitation[j] EXCEPT !.status = s]
                                     ELSE invitation[j]
  BY DEF UpdateStatus
<1>2. \A j \in DOMAIN invitation : invitation[j] \in InvitationRow
  BY DEF TypeOK
<1>3. \A j \in DOMAIN invitation :
        /\ invitation'[j].campaign = invitation[j].campaign
        /\ invitation'[j].invitee = invitation[j].invitee
        /\ invitation'[j].left = invitation[j].left
        /\ invitation'[j].status = IF j = i THEN s ELSE invitation[j].status
  BY <1>1, <1>2 DEF InvitationRow
<1> QED
  BY <1>1, <1>3 DEF RowsStay, AllExpire, Active, NotExpiredSql

\* So does the clock, and it writes no status.
LEMMA TickRowsStay ==
    ASSUME TypeOK, AllExpire, Tick
    PROVE  RowsStay
<1>1. /\ DOMAIN invitation' = DOMAIN invitation
      /\ \A i \in DOMAIN invitation :
           /\ invitation'[i].campaign = invitation[i].campaign
           /\ invitation'[i].invitee = invitation[i].invitee
           /\ invitation'[i].status = invitation[i].status
  BY TickTyped
<1>2. ASSUME NEW i \in DOMAIN invitation
      PROVE  /\ invitation[i].left \in -1..TTL
             /\ \/ invitation'[i].left = invitation[i].left
                \/ invitation'[i].left = invitation[i].left - 1
  <2>1. invitation[i] \in InvitationRow /\ invitation[i].left # Never
    BY DEF TypeOK, AllExpire
  <2>2. invitation[i].left \in -1..TTL
    BY <2>1 DEF InvitationRow
  <2>3. \/ invitation'[i] = invitation[i]
        \/ invitation'[i] = [invitation[i] EXCEPT !.left = @ - 1]
    BY DEF Tick
  <2> QED
    BY <2>1, <2>2, <2>3 DEF InvitationRow
<1>3. \A i \in DOMAIN invitation : invitation'[i].left # Never
  BY <1>2, StoreAssumption
<1>4. ASSUME NEW i \in DOMAIN invitation, Active(i)'
      PROVE  Active(i)
  <2>1. invitation'[i].status = "pending" /\ invitation'[i].left > 0
    BY <1>3, <1>4 DEF Active, NotExpiredSql
  <2>2. invitation[i].left > 0
    BY <1>2, <2>1, StoreAssumption
  <2> QED
    BY <1>1, <2>1, <2>2 DEF Active, NotExpiredSql
<1> QED
  BY <1>1, <1>3, <1>4 DEF RowsStay

LEMMA CascadeRowsStay ==
    ASSUME TypeOK, AllExpire, NEW cs, NEW us, Cascade(cs, us)
    PROVE  RowsStay
<1>1. /\ DOMAIN invitation' \subseteq DOMAIN invitation
      /\ \A i \in DOMAIN invitation' : invitation'[i] = invitation[i]
  BY CascadeTyped
<1> QED
  BY <1>1 DEF RowsStay, AllExpire, Active

\* A request that has been answered has nothing to rely on.
LEMMA FinishAlone ==
    ASSUME TypeInv, NEW r \in Requests, \A s, q \in Requests : s = q, Finish(r)
    PROVE  \A s \in Requests : ReadsHold(s)'
<1>1. request'[r].next = "idle"
  BY FinishTyped DEF TypeInv, Idle
<1> QED
  BY <1>1 DEF ReadsHold, At

\* What one request writes, it writes last.
LEMMA WriteAlone ==
    ASSUME TypeInv, SerialInv, NEW r \in Requests, \A s, q \in Requests : s = q,
           Finish(r), RowsStay
    PROVE  SerialInv'
BY FinishAlone, RowsStayOneEach DEF SerialInv

\* A start, or the answer to a check: what has been read is so.
LEMMA ReadAlone ==
    ASSUME TypeInv, SerialInv, NEW r \in Requests, \A s, q \in Requests : s = q,
           UNCHANGED invitation, ReadsHold(r)'
    PROVE  SerialInv'
BY UnchangedRowsStay, RowsStayOneEach DEF SerialInv

\* A start of a request that has read nothing it relies on.
LEMMA StartAlone ==
    ASSUME TypeInv, SerialInv, NEW r \in Requests, \A s, q \in Requests : s = q,
           NEW n \in NextCall, NEW a \in Users \cup {Admin, None},
           NEW c \in Campaigns \cup {None}, NEW t \in Users \cup {None},
           NEW i \in Invitations \cup {None}, NEW rl \in Roles \cup {"none"},
           Start(r, n, a, c, t, i, rl), UNCHANGED <<tables, history>>,
           n \notin {"send:active", "send:insert"},
           n \in {"cancel:write", "decline:write", "accept:commit"} =>
             (Exists(i) => invitation[i].status = "pending")
    PROVE  SerialInv'
<1>0. TypeOK
  BY DEF TypeInv
<1>1. request'[r] = [next |-> n, actor |-> a, campaign |-> c, target |-> t,
                     invitation |-> i, role |-> rl]
  BY <1>0, StartTyped
<1>2. ReadsHold(r)'
  BY <1>1 DEF ReadsHold, At, Exists, tables
<1> QED
  BY <1>2, ReadAlone DEF tables

\* A check passed: the request goes on, and tables are as it has read them.
LEMMA ContinueAlone ==
    ASSUME TypeInv, SerialInv, NEW r \in Requests, \A s, q \in Requests : s = q,
           NEW n \in NextCall, UNCHANGED <<tables, history>>,
           \/ Finish(r)
           \/ /\ Continue(r, n)
              /\ n \in {"send:active", "send:insert"} =>
                   ~IsMember(request[r].campaign, request[r].target)
              /\ n = "send:insert" =>
                   FindActive(request[r].campaign, request[r].target) = {}
              /\ n \in {"cancel:write", "decline:write", "accept:commit"} =>
                   (Exists(request[r].invitation) =>
                       invitation[request[r].invitation].status = "pending")
    PROVE  SerialInv'
<1>1. CASE Finish(r)
  BY <1>1, UnchangedRowsStay, WriteAlone DEF tables, SerialInv
<1>2. CASE ~Finish(r)
  <2>1. request[r] \in RequestRecord /\ Continue(r, n)
    BY <1>2 DEF TypeInv, TypeOK
  <2>2. request'[r] = [request[r] EXCEPT !.next = n]
    BY <2>1, ContinueTyped DEF TypeInv
  <2>3. /\ request'[r].next = n
        /\ request'[r].campaign = request[r].campaign
        /\ request'[r].target = request[r].target
        /\ request'[r].invitation = request[r].invitation
    BY <2>1, <2>2 DEF RequestRecord
  <2>4. \A c, u : /\ IsMember(c, u)' <=> IsMember(c, u)
                  /\ FindActive(c, u)' = FindActive(c, u)
    BY DEF tables, IsMember, FindActive, Active
  <2>5. ReadsHold(r)'
    BY <1>2, <2>3, <2>4 DEF ReadsHold, At, Exists, tables
  <2> QED
    BY <2>5, ReadAlone DEF tables
<1> QED
  BY <1>1, <1>2

\* INSERT of an invitation that two checks have cleared.
LEMMA InsertAlone ==
    ASSUME TypeInv, SerialInv, NEW r \in Requests, \A s, q \in Requests : s = q,
           SendInsert(r)
    PROVE  SerialInv'
<1> DEFINE c == request[r].campaign
           u == request[r].target
           a == request[r].actor
<1>1. /\ c \in Campaigns /\ u \in Users /\ a \in Users /\ Finish(r)
      /\ FindActive(c, u) = {}
  BY DEF SendInsert, At, TypeInv, FieldsAreSet, SerialInv, ReadsHold
<1>2. CASE InsertableInvitation(c, a, u)
  <2>1. PICK i \in Invitations \ usedInvitations :
           invitation' = [j \in DOMAIN invitation \cup {i} |->
             IF j = i THEN NewInvitation(c, a, u) ELSE invitation[j]]
    BY <1>2 DEF SendInsert, InsertInvitation
  <2>2. i \notin DOMAIN invitation
    BY DEF TypeInv, TypeOK
  <2>3. /\ DOMAIN invitation' = DOMAIN invitation \cup {i}
        /\ invitation'[i] = NewInvitation(c, a, u)
        /\ \A j \in DOMAIN invitation : invitation'[j] = invitation[j]
    BY <2>1, <2>2
  <2>4. AllExpire'
    BY <2>3, StoreAssumption DEF SerialInv, AllExpire, NewInvitation
  <2>5. OneEach'
    <3> SUFFICES ASSUME NEW j \in DOMAIN invitation', NEW k \in DOMAIN invitation',
                        Active(j)', Active(k)',
                        invitation'[j].campaign = invitation'[k].campaign,
                        invitation'[j].invitee = invitation'[k].invitee
                 PROVE  j = k
      BY DEF OneEach
    <3>1. \A x \in DOMAIN invitation : Active(x)' => Active(x)
      BY <2>3 DEF Active
    <3>2. ASSUME NEW x \in DOMAIN invitation, Active(x)'
          PROVE  ~(invitation[x].campaign = c /\ invitation[x].invitee = u)
      BY <1>1, <3>1, <3>2 DEF FindActive
    <3>3. invitation'[i].campaign = c /\ invitation'[i].invitee = u
      BY <2>3 DEF NewInvitation
    <3>4. CASE j \in DOMAIN invitation /\ k \in DOMAIN invitation
      BY <2>3, <3>1, <3>4 DEF SerialInv, OneEach
    <3>5. CASE j = i /\ k \in DOMAIN invitation
      BY <2>3, <3>2, <3>3, <3>5
    <3>6. CASE k = i /\ j \in DOMAIN invitation
      BY <2>3, <3>2, <3>3, <3>6
    <3> QED
      BY <2>3, <3>4, <3>5, <3>6
  <2> QED
    BY <1>1, <2>4, <2>5, FinishAlone DEF SerialInv
<1>3. CASE ~InsertableInvitation(c, a, u)
  BY <1>1, <1>3, UnchangedRowsStay, WriteAlone DEF SendInsert, SerialInv
<1> QED
  BY <1>2, <1>3

\* The handlers of invitations, one at a time.
LEMMA InvitationHandlersAlone ==
    ASSUME TypeInv, SerialInv, NEW r \in Requests, \A s, q \in Requests : s = q,
           InvitationHandlers(r)
    PROVE  SerialInv'
<1> USE DEF NextCall, Roles
<1>1. ASSUME NEW a \in Users, NEW c \in Campaigns, NEW u \in Users, StartSend(r, a, c, u)
      PROVE  SerialInv'
  BY <1>1, StartAlone DEF StartSend
<1>2. CASE SendCheckMember(r)
  BY <1>2, ContinueAlone DEF SendCheckMember
<1>3. CASE SendCheckActive(r)
  BY <1>3, ContinueAlone DEF SendCheckActive, At, SerialInv, ReadsHold
<1>4. CASE SendInsert(r)
  BY <1>4, InsertAlone
<1>5. ASSUME NEW a \in Users, NEW c \in Campaigns, NEW i \in Invitations, StartCancel(r, a, c, i)
      PROVE  SerialInv'
  BY <1>5, StartAlone DEF StartCancel
<1>6. CASE CancelRead(r)
  BY <1>6, ContinueAlone DEF CancelRead
<1>7. ASSUME NEW s \in Statuses \ {"pending"}, Finish(r),
             \/ UpdateStatus(request[r].invitation, s)
             \/ UNCHANGED invitation
      PROVE  SerialInv'
  <2>1. TypeOK /\ AllExpire
    BY DEF TypeInv, SerialInv
  <2>2. RowsStay
    BY <1>7, <2>1, UnchangedRowsStay, StatusRowsStay
  <2> QED
    BY <1>7, <2>2, WriteAlone
<1>8. CASE CancelWrite(r) \/ AcceptCommit(r) \/ DeclineWrite(r)
  BY <1>7, <1>8 DEF CancelWrite, AcceptCommit, DeclineWrite, Statuses
<1>9. ASSUME NEW u \in Users, NEW i \in Invitations, StartAccept(r, u, i)
      PROVE  SerialInv'
  <2>1. invitation[i].campaign \in Campaigns /\ invitation[i].status = "pending"
    BY <1>9 DEF StartAccept, Answerable, Exists, TypeInv, TypeOK, InvitationRow
  <2>2. /\ Start(r, "accept:commit", u, invitation[i].campaign, None, i, "none")
        /\ UNCHANGED <<tables, history>>
    BY <1>9 DEF StartAccept
  <2>3. /\ u \in Users \cup {Admin, None} /\ None \in Users \cup {None}
        /\ i \in Invitations \cup {None} /\ "none" \in Roles \cup {"none"}
        /\ invitation[i].campaign \in Campaigns \cup {None}
        /\ "accept:commit" \in NextCall
    BY <2>1
  <2> QED
    BY <2>1, <2>2, <2>3, StartAlone
<1>10. ASSUME NEW u \in Users, NEW i \in Invitations, StartDecline(r, u, i)
       PROVE  SerialInv'
  BY <1>10, StartAlone DEF StartDecline, Answerable
<1> QED
  BY <1>1, <1>2, <1>3, <1>4, <1>5, <1>6, <1>8, <1>9, <1>10 DEF InvitationHandlers

\* The handlers of members, one at a time.
LEMMA MemberHandlersAlone ==
    ASSUME TypeInv, SerialInv, NEW r \in Requests, \A s, q \in Requests : s = q,
           MemberHandlers(r)
    PROVE  SerialInv'
<1> USE DEF NextCall, Roles
<1>1. ASSUME NEW a \in Users, NEW d \in Campaigns, NEW v \in Users,
             NEW rl \in Roles, StartAdd(r, a, d, v, rl) \/ StartRole(r, a, d, v, rl)
      PROVE  SerialInv'
  BY <1>1, StartAlone DEF StartAdd, StartRole
<1>2. ASSUME NEW a \in Users, NEW d \in Campaigns, NEW v \in Users,
             StartRemove(r, a, d, v)
      PROVE  SerialInv'
  BY <1>2, StartAlone DEF StartRemove
<1>3. ASSUME Finish(r), UNCHANGED invitation
      PROVE  SerialInv'
  BY <1>3, UnchangedRowsStay, WriteAlone DEF SerialInv
<1>4. CASE AddInsert(r) \/ RoleWrite(r) \/ RemoveWrite(r)
  BY <1>3, <1>4 DEF AddInsert, RoleWrite, RemoveWrite
<1>5. CASE CheckMember(r)
  BY <1>5, ContinueAlone DEF CheckMember
<1>6. ASSUME NEW v \in Users, StartCreate(r, v)
      PROVE  SerialInv'
  BY <1>6, StartAlone DEF StartCreate
<1>7. CASE CreateInsert(r) \/ CreateMember(r)
  <2>1. /\ request'[r].next \in {"create:insert", "create:member", "create:undo", "idle"}
        /\ UNCHANGED invitation
    <3>1. CASE CreateInsert(r)
      BY <3>1 DEF CreateInsert, Finish, Idle, TypeInv, TypeOK, RequestRecord
    <3>2. CASE CreateMember(r)
      BY <3>2 DEF CreateMember, Finish, Continue, Idle, TypeInv, TypeOK, RequestRecord
    <3> QED
      BY <1>7, <3>1, <3>2
  <2>2. ReadsHold(r)'
    BY <2>1 DEF ReadsHold, At
  <2> QED
    BY <2>1, <2>2, ReadAlone
<1>8. CASE DeleteWrite(r)
  <2>1. RowsStay
    BY <1>8, CascadeRowsStay DEF DeleteWrite, DeleteCampaign, TypeInv, SerialInv
  <2> QED
    BY <1>8, <2>1, WriteAlone DEF DeleteWrite
<1>9. ASSUME NEW a \in Users, NEW d \in Campaigns, StartDelete(r, a, d)
      PROVE  SerialInv'
  BY <1>9, StartAlone DEF StartDelete
<1>10. ASSUME NEW d \in Campaigns, StartAdminDelete(r, d)
       PROVE  SerialInv'
  <2>1. /\ Start(r, "delete:write", Admin, d, None, None, "none")
        /\ UNCHANGED <<tables, history>>
    BY <1>10 DEF StartAdminDelete
  <2>2. /\ Admin \in Users \cup {Admin, None} /\ d \in Campaigns \cup {None}
        /\ None \in Users \cup {None} /\ None \in Invitations \cup {None}
        /\ "none" \in Roles \cup {"none"} /\ "delete:write" \in NextCall
    OBVIOUS
  <2> QED
    BY <2>1, <2>2, StartAlone
<1> QED
  BY <1>1, <1>2, <1>4, <1>5, <1>6, <1>7, <1>8, <1>9, <1>10 DEF MemberHandlers

\* While the request waits, only deletions and the clock move: they take member
\* rows and invitations away, or let them expire, and change no status.
LEMMA OthersLeaveReads ==
    ASSUME TypeInv, SerialInv, NEW r \in Requests, UNCHANGED request, RowsStay,
           \A c \in Campaigns, u \in Users : IsMember(c, u)' => IsMember(c, u),
           \A i \in DOMAIN invitation' : invitation'[i].status = invitation[i].status
    PROVE  ReadsHold(r)'
<1>1. ReadsHold(r)
  BY DEF SerialInv
<1>2. \A c, u : FindActive(c, u)' \subseteq FindActive(c, u)
  BY RowsStayOneEach DEF SerialInv
<1>3. request[r].next \in {"send:active", "send:insert"} =>
        request[r].campaign \in Campaigns /\ request[r].target \in Users
  BY DEF TypeInv, FieldsAreSet
<1> QED
  BY <1>1, <1>2, <1>3 DEF ReadsHold, At, Exists, RowsStay

\* With one request at a time, what it has read holds until it writes.
THEOREM AloneInvariant ==
    ASSUME \A r, s \in Requests : r = s
    PROVE  Spec => []SerialInv
<1>1. Init => SerialInv
  BY DEF Init, StoreInit, SerialInv, OneEach, AllExpire, ReadsHold, At, Idle
<1>2. TypeInv /\ SerialInv /\ [Next]_vars => SerialInv'
  <2> SUFFICES ASSUME TypeInv, SerialInv, [Next]_vars PROVE SerialInv'
    OBVIOUS
  <2>1. ASSUME NEW r \in Requests, Abandon(r)
        PROVE  SerialInv'
    BY <2>1, UnchangedRowsStay, WriteAlone DEF Abandon, tables, SerialInv
  <2>2. ASSUME RowsStay, UNCHANGED request,
               \A c \in Campaigns, u \in Users : IsMember(c, u)' => IsMember(c, u),
               \A i \in DOMAIN invitation' : invitation'[i].status = invitation[i].status
        PROVE  SerialInv'
    BY <2>2, OthersLeaveReads, RowsStayOneEach DEF SerialInv
  <2>3. ASSUME NEW v \in Users, DeleteUser(v)
        PROVE  SerialInv'
    <3>1. Cascade({}, {v}) /\ UNCHANGED request /\ TypeOK /\ AllExpire
      BY <2>3 DEF DeleteUser, TypeInv, SerialInv
    <3>2. /\ \A p \in Pairs : role'[p] = IF p[1] \in {} \/ p[2] \in {v} THEN "none" ELSE role[p]
          /\ \A i \in DOMAIN invitation' : invitation'[i] = invitation[i]
      BY <3>1, CascadeTyped
    <3>3. RowsStay
      BY <3>1, CascadeRowsStay
    <3> QED
      BY <2>2, <3>1, <3>2, <3>3 DEF IsMember, Pairs
  <2>4. CASE Tick
    <3>1. TypeOK /\ AllExpire
      BY DEF TypeInv, SerialInv
    <3>2. \A i \in DOMAIN invitation' : invitation'[i].status = invitation[i].status
      BY <2>4, <3>1, TickTyped
    <3> QED
      BY <2>2, <2>4, <3>1, <3>2, TickRowsStay DEF Tick, IsMember
  <2>5. CASE AdminCreate \/ UNCHANGED vars
    BY <2>2, <2>5, UnchangedRowsStay
    DEF AdminCreate, vars, tables, SerialInv, IsMember
  <2> QED
    BY <2>1, <2>3, <2>4, <2>5, InvitationHandlersAlone, MemberHandlersAlone DEF Next
<1> QED
  BY <1>1, <1>2, TypeInvariant, PTL DEF Spec

\* As long as requests do not overlap, a user never has two active invitations to
\* a campaign: findActiveByCampaignAndInvitee is enough then, although deletions
\* and the clock still move while the request waits.
THEOREM AloneOneActive ==
    ASSUME \A r, s \in Requests : r = s
    PROVE  Spec => []OneActiveInvitation
<1>1. SerialInv => OneActiveInvitation
  <2> SUFFICES ASSUME SerialInv, NEW c \in Campaigns, NEW u \in Users
               PROVE  Cardinality(FindActive(c, u)) <= 1
    BY DEF OneActiveInvitation
  <2>1. \A i, j \in FindActive(c, u) : i = j
    BY DEF SerialInv, OneEach, FindActive
  <2>2. CASE FindActive(c, u) = {}
    BY <2>2, FS_EmptySet
  <2>3. CASE FindActive(c, u) # {}
    <3>1. PICK i : FindActive(c, u) = {i}
      BY <2>1, <2>3
    <3> QED
      BY <3>1, FS_Singleton
  <2> QED
    BY <2>2, <2>3
<1> QED
  BY <1>1, AloneInvariant, PTL
----------------------------------------------------------------------------
(* Invitations that overlapping requests send *)

\* The requests that have found no active invitation and will add one.
Sending(c, u) ==
    {r \in Requests : /\ At(r, "send:insert")
                      /\ request[r].campaign = c /\ request[r].target = u}

\* Each request in flight has added one at most to a list that was empty.
ActiveCounted ==
    \A c \in Campaigns, u \in Users :
        Cardinality(FindActive(c, u)) + Cardinality(Sending(c, u)) <= Cardinality(Requests)

SendInv == AllExpire /\ ActiveCounted

LEMMA SendCountsAreNaturals ==
    ASSUME TypeInv, NEW c \in Campaigns, NEW u \in Users
    PROVE  /\ IsFiniteSet(FindActive(c, u)) /\ Cardinality(FindActive(c, u)) \in Nat
           /\ IsFiniteSet(Sending(c, u)) /\ Cardinality(Sending(c, u)) \in Nat
           /\ Cardinality(Requests) \in Nat
           /\ Cardinality(Sending(c, u)) <= Cardinality(Requests)
<1>1. FindActive(c, u) \subseteq Invitations /\ Sending(c, u) \subseteq Requests
  BY DEF FindActive, Sending, TypeInv, TypeOK
<1>2. IsFiniteSet(Invitations) /\ IsFiniteSet(Requests)
  BY StoreAssumption
<1> QED
  BY <1>1, <1>2, FS_Subset, FS_CardinalityType

\* No request passes the check in this step.
NoneSends == \A s \in Requests : At(s, "send:insert")' => request'[s] = request[s]

LEMMA CalmKeepsActive ==
    ASSUME TypeInv, SendInv, RowsStay, NoneSends
    PROVE  SendInv'
<1>1. AllExpire'
  BY DEF RowsStay, AllExpire
<1>2. ASSUME NEW c \in Campaigns, NEW u \in Users
      PROVE  Cardinality(FindActive(c, u)') + Cardinality(Sending(c, u)')
               <= Cardinality(Requests)
  <2>1. FindActive(c, u)' \subseteq FindActive(c, u)
    BY DEF RowsStay, FindActive
  <2>2. Sending(c, u)' \subseteq Sending(c, u)
    BY DEF NoneSends, Sending, At
  <2>3. Cardinality(FindActive(c, u)) + Cardinality(Sending(c, u)) <= Cardinality(Requests)
    BY DEF SendInv, ActiveCounted
  <2>4. /\ IsFiniteSet(FindActive(c, u)) /\ IsFiniteSet(Sending(c, u))
        /\ Cardinality(Requests) \in Int
    BY SendCountsAreNaturals
  <2> QED
    BY <2>1, <2>2, <2>3, <2>4, CountsShrink
<1> QED
  BY <1>1, <1>2 DEF SendInv, ActiveCounted

\* Starts, answers and other checks.
LEMMA StartSendsNone ==
    ASSUME TypeInv, NEW r \in Requests, NEW n, n # "send:insert",
           NEW a, NEW c, NEW t, NEW i, NEW rl, Start(r, n, a, c, t, i, rl)
    PROVE  NoneSends
BY DEF TypeInv, TypeOK, Start, NoneSends, At

LEMMA FinishSendsNone ==
    ASSUME TypeInv, NEW r \in Requests, Finish(r)
    PROVE  NoneSends
BY DEF TypeInv, TypeOK, Finish, Idle, NoneSends, At

LEMMA ContinueSendsNone ==
    ASSUME TypeInv, NEW r \in Requests, NEW n, n # "send:insert", Continue(r, n)
    PROVE  NoneSends
<1>1. request[r] \in RequestRecord
  BY DEF TypeInv, TypeOK
<1>2. request'[r].next = n /\ \A s \in Requests \ {r} : request'[s] = request[s]
  BY <1>1 DEF TypeInv, TypeOK, Continue, RequestRecord
<1> QED
  BY <1>2 DEF NoneSends, At

LEMMA HandlersSendNone ==
    ASSUME TypeInv, NEW r \in Requests,
           InvitationHandlers(r) \/ MemberHandlers(r) \/ Abandon(r)
    PROVE  SendCheckActive(r) \/ NoneSends
<1>1. CASE Finish(r)
  BY <1>1, FinishSendsNone
<1>2. ASSUME NEW n, n # "send:insert", Continue(r, n)
      PROVE  NoneSends
  BY <1>2, ContinueSendsNone
<1>3. ASSUME NEW n, n # "send:insert", NEW a, NEW c, NEW t, NEW i, NEW rl,
             Start(r, n, a, c, t, i, rl)
      PROVE  NoneSends
  BY <1>3, StartSendsNone
<1>4. CASE CreateInsert(r)
  <2>1. ASSUME NEW d \in Campaigns,
               request' = [request EXCEPT ![r].next = "create:member", ![r].campaign = d]
        PROVE  NoneSends
    <3>1. request[r] \in RequestRecord
      BY DEF TypeInv, TypeOK
    <3>2. request'[r].next = "create:member" /\ \A s \in Requests \ {r} : request'[s] = request[s]
      BY <2>1, <3>1 DEF TypeInv, TypeOK, RequestRecord
    <3> QED
      BY <3>2 DEF NoneSends, At
  <2> QED
    BY <1>1, <1>4, <2>1 DEF CreateInsert
<1>5. CASE InvitationHandlers(r)
  <2>1. CASE \/ \E a \in Users, c \in Campaigns, u \in Users : StartSend(r, a, c, u)
             \/ \E a \in Users, c \in Campaigns, i \in Invitations : StartCancel(r, a, c, i)
             \/ \E u \in Users, i \in Invitations : StartAccept(r, u, i) \/ StartDecline(r, u, i)
    BY <1>3, <2>1 DEF StartSend, StartCancel, StartAccept, StartDecline
  <2>2. CASE SendCheckMember(r) \/ CancelRead(r)
    BY <1>1, <1>2, <2>2 DEF SendCheckMember, CancelRead
  <2>3. CASE SendInsert(r) \/ CancelWrite(r) \/ AcceptCommit(r) \/ DeclineWrite(r)
    BY <1>1, <2>3 DEF SendInsert, CancelWrite, AcceptCommit, DeclineWrite
  <2> QED
    BY <1>5, <2>1, <2>2, <2>3 DEF InvitationHandlers
<1>6. CASE MemberHandlers(r)
  <2>1. CASE \/ \E a \in Users, c \in Campaigns, u \in Users, rl \in Roles :
                   StartAdd(r, a, c, u, rl) \/ StartRole(r, a, c, u, rl)
             \/ \E a \in Users, c \in Campaigns, u \in Users : StartRemove(r, a, c, u)
             \/ \E u \in Users : StartCreate(r, u)
             \/ \E a \in Users, c \in Campaigns : StartDelete(r, a, c)
             \/ \E c \in Campaigns : StartAdminDelete(r, c)
    BY <1>3, <2>1 DEF StartAdd, StartRole, StartRemove, StartCreate, StartDelete,
                      StartAdminDelete
  <2>2. CASE CheckMember(r) \/ CreateMember(r)
    BY <1>1, <1>2, <2>2 DEF CheckMember, CreateMember
  <2>3. CASE AddInsert(r) \/ RoleWrite(r) \/ RemoveWrite(r) \/ DeleteWrite(r)
    BY <1>1, <2>3 DEF AddInsert, RoleWrite, RemoveWrite, DeleteWrite
  <2> QED
    BY <1>4, <1>6, <2>1, <2>2, <2>3 DEF MemberHandlers
<1>7. CASE Abandon(r)
  BY <1>1, <1>7 DEF Abandon
<1> QED
  BY <1>5, <1>6, <1>7

\* Only the INSERT of a send adds a row.
LEMMA HandlersRowsStay ==
    ASSUME TypeInv, AllExpire, NEW r \in Requests,
           InvitationHandlers(r) \/ MemberHandlers(r) \/ Abandon(r)
    PROVE  SendInsert(r) \/ RowsStay
<1>0. TypeOK
  BY DEF TypeInv
<1>1. CASE UNCHANGED invitation
  BY <1>1, UnchangedRowsStay
<1>2. ASSUME NEW s \in Statuses \ {"pending"}, UpdateStatus(request[r].invitation, s)
      PROVE  RowsStay
  BY <1>0, <1>2, StatusRowsStay
<1>3. CASE InvitationHandlers(r)
  <2>1. CASE CancelWrite(r) \/ AcceptCommit(r) \/ DeclineWrite(r)
    BY <1>1, <1>2, <2>1 DEF CancelWrite, AcceptCommit, DeclineWrite, Statuses
  <2> QED
    BY <1>1, <1>3, <2>1 DEF InvitationHandlers, StartSend, SendCheckMember, SendCheckActive,
       StartCancel, CancelRead, StartAccept, StartDecline, tables
<1>4. CASE MemberHandlers(r)
  <2>1. CASE DeleteWrite(r)
    BY <1>0, <2>1, CascadeRowsStay DEF DeleteWrite, DeleteCampaign
  <2> QED
    BY <1>1, <1>4, <2>1 DEF MemberHandlers, StartAdd, AddInsert, StartRole, StartRemove,
       CheckMember, RoleWrite, RemoveWrite, StartCreate, CreateInsert, CreateMember,
       StartDelete, StartAdminDelete, tables
<1>5. CASE Abandon(r)
  BY <1>1, <1>5 DEF Abandon, tables
<1> QED
  BY <1>3, <1>4, <1>5

\* The check has found nothing active: all requests together are the bound.
LEMMA SendCheckKeepsActive ==
    ASSUME TypeInv, TypeInv', SendInv, NEW r \in Requests, SendCheckActive(r)
    PROVE  SendInv'
<1>1. RowsStay /\ UNCHANGED invitation
  BY UnchangedRowsStay DEF SendCheckActive, tables, SendInv
<1>2. CASE Finish(r)
  BY <1>1, <1>2, FinishSendsNone, CalmKeepsActive
<1>3. CASE /\ FindActive(request[r].campaign, request[r].target) = {}
           /\ Continue(r, "send:insert")
  <2>1. request[r] \in RequestRecord
    BY DEF TypeInv, TypeOK
  <2>2. /\ request'[r].campaign = request[r].campaign /\ request'[r].target = request[r].target
        /\ \A s \in Requests \ {r} : request'[s] = request[s]
    BY <1>3, <2>1 DEF TypeInv, TypeOK, Continue, RequestRecord
  <2>3. AllExpire'
    BY <1>1 DEF AllExpire, RowsStay
  <2>4. ASSUME NEW c \in Campaigns, NEW u \in Users
        PROVE  Cardinality(FindActive(c, u)') + Cardinality(Sending(c, u)')
                 <= Cardinality(Requests)
    <3>1. FindActive(c, u)' = FindActive(c, u)
      BY <1>1 DEF FindActive, Active
    <3>2. CASE c = request[r].campaign /\ u = request[r].target
      <4>1. Cardinality(FindActive(c, u)') = 0
        BY <1>3, <3>1, <3>2, FS_EmptySet
      <4>2. Sending(c, u)' \subseteq Requests
        BY DEF Sending
      <4>3. /\ Cardinality(Sending(c, u)') \in Nat /\ Cardinality(Requests) \in Nat
            /\ Cardinality(Sending(c, u)') <= Cardinality(Requests)
        BY <4>2, StoreAssumption, FS_Subset, FS_CardinalityType
      <4> QED
        BY <4>1, <4>3
    <3>3. CASE ~(c = request[r].campaign /\ u = request[r].target)
      <4>1. Sending(c, u)' \subseteq Sending(c, u)
        BY <2>2, <3>3 DEF Sending, At
      <4>2. Cardinality(FindActive(c, u)) + Cardinality(Sending(c, u)) <= Cardinality(Requests)
        BY DEF SendInv, ActiveCounted
      <4>3. /\ IsFiniteSet(FindActive(c, u)) /\ IsFiniteSet(Sending(c, u))
            /\ Cardinality(Requests) \in Int
        BY SendCountsAreNaturals
      <4>4. FindActive(c, u)' \subseteq FindActive(c, u)
        BY <3>1
      <4> QED
        BY <4>1, <4>2, <4>3, <4>4, CountsShrink
    <3> QED
      BY <3>2, <3>3
  <2> QED
    BY <2>3, <2>4 DEF SendInv, ActiveCounted
<1> QED
  BY <1>2, <1>3 DEF SendCheckActive

\* The new row takes the place that the request held.
LEMMA SendInsertKeepsActive ==
    ASSUME TypeInv, SendInv, NEW r \in Requests, SendInsert(r)
    PROVE  SendInv'
<1> DEFINE d == request[r].campaign
           v == request[r].target
           a == request[r].actor
<1>1. /\ d \in Campaigns /\ v \in Users /\ r \in Sending(d, v) /\ Finish(r)
  BY DEF SendInsert, At, TypeInv, FieldsAreSet, Sending
<1>2. CASE InsertableInvitation(d, a, v)
  <2>1. PICK i \in Invitations \ usedInvitations :
           invitation' = [j \in DOMAIN invitation \cup {i} |->
             IF j = i THEN NewInvitation(d, a, v) ELSE invitation[j]]
    BY <1>2 DEF SendInsert, InsertInvitation
  <2>2. i \notin DOMAIN invitation
    BY DEF TypeInv, TypeOK
  <2>3. /\ DOMAIN invitation' = DOMAIN invitation \cup {i}
        /\ invitation'[i] = NewInvitation(d, a, v)
        /\ \A j \in DOMAIN invitation : invitation'[j] = invitation[j]
    BY <2>1, <2>2
  <2>4. AllExpire'
    BY <2>3, StoreAssumption DEF SendInv, AllExpire, NewInvitation
  <2>5. request'[r].next = "idle" /\ \A s \in Requests \ {r} : request'[s] = request[s]
    BY <1>1, FinishTyped DEF TypeInv, Idle
  <2>6. ASSUME NEW c \in Campaigns, NEW u \in Users
        PROVE  Cardinality(FindActive(c, u)') + Cardinality(Sending(c, u)')
                 <= Cardinality(Requests)
    <3>1. Sending(c, u)' \subseteq Sending(c, u) \ {r}
      BY <2>5 DEF Sending, At
    <3>2. Cardinality(FindActive(c, u)) + Cardinality(Sending(c, u)) <= Cardinality(Requests)
      BY DEF SendInv, ActiveCounted
    <3>3. /\ IsFiniteSet(FindActive(c, u)) /\ IsFiniteSet(Sending(c, u))
          /\ Cardinality(Requests) \in Int
      BY SendCountsAreNaturals
    <3>4. \A j \in DOMAIN invitation : Active(j)' <=> Active(j)
      BY <2>3 DEF Active
    <3>5. CASE c = d /\ u = v
      <4>1. FindActive(c, u)' \subseteq FindActive(c, u) \cup {i}
        BY <2>3, <3>4 DEF FindActive
      <4>2. /\ IsFiniteSet(FindActive(c, u) \cup {i}) /\ IsFiniteSet(Sending(c, u) \ {r})
            /\ Cardinality(FindActive(c, u) \cup {i}) + Cardinality(Sending(c, u) \ {r})
                 <= Cardinality(Requests)
        BY <1>1, <3>2, <3>3, <3>5, CountsMove
      <4> QED
        BY <3>1, <3>3, <4>1, <4>2, CountsShrink
    <3>6. CASE ~(c = d /\ u = v)
      <4>1. FindActive(c, u)' \subseteq FindActive(c, u)
        BY <2>3, <3>4, <3>6 DEF FindActive, NewInvitation
      <4>2. Sending(c, u)' \subseteq Sending(c, u)
        BY <3>1
      <4> QED
        BY <3>2, <3>3, <4>1, <4>2, CountsShrink
    <3> QED
      BY <3>5, <3>6
  <2> QED
    BY <2>4, <2>6 DEF SendInv, ActiveCounted
<1>3. CASE ~InsertableInvitation(d, a, v)
  <2>1. RowsStay
    BY <1>3, UnchangedRowsStay DEF SendInsert, SendInv
  <2> QED
    BY <1>1, <2>1, FinishSendsNone, CalmKeepsActive
<1> QED
  BY <1>2, <1>3

\* Sends that overlap leave several active invitations, but no more than requests
\* are in flight at once, whatever is cancelled, answered, deleted or sent again: the
\* check is always made on a list to which at most the others add one each.
THEOREM ActiveOvershootIsBounded == Spec => []ActiveOvershoot
<1>1. Init => SendInv
  <2> SUFFICES ASSUME Init
               PROVE  SendInv
    OBVIOUS
  <2>1. AllExpire
    BY DEF Init, StoreInit, AllExpire
  <2>2. ASSUME NEW c \in Campaigns, NEW u \in Users
        PROVE  Cardinality(FindActive(c, u)) + Cardinality(Sending(c, u))
                 <= Cardinality(Requests)
    <3>1. FindActive(c, u) = {} /\ Sending(c, u) = {}
      BY DEF Init, StoreInit, FindActive, Sending, At, Idle
    <3> QED
      BY <3>1, FS_EmptySet, FS_CardinalityType, StoreAssumption
  <2> QED
    BY <2>1, <2>2 DEF SendInv, ActiveCounted
<1>2. TypeInv /\ TypeInv' /\ SendInv /\ [Next]_vars => SendInv'
  <2> SUFFICES ASSUME TypeInv, TypeInv', SendInv, [Next]_vars
               PROVE  SendInv'
    OBVIOUS
  <2>0. TypeOK /\ AllExpire
    BY DEF TypeInv, SendInv
  <2>1. ASSUME NEW r \in Requests, InvitationHandlers(r) \/ MemberHandlers(r) \/ Abandon(r)
        PROVE  SendInv'
    BY <2>0, <2>1, HandlersSendNone, HandlersRowsStay, CalmKeepsActive,
       SendCheckKeepsActive, SendInsertKeepsActive
  <2>2. CASE (\E u \in Users : DeleteUser(u)) \/ AdminCreate \/ Tick \/ UNCHANGED vars
    <3>1. NoneSends
      BY <2>2 DEF DeleteUser, AdminCreate, Tick, vars, NoneSends
    <3>2. RowsStay
      BY <2>0, <2>2, CascadeRowsStay, TickRowsStay, UnchangedRowsStay
      DEF DeleteUser, AdminCreate, vars, tables
    <3> QED
      BY <3>1, <3>2, CalmKeepsActive
  <2> QED
    BY <2>1, <2>2 DEF Next
<1>3. TypeInv /\ SendInv => ActiveOvershoot
  <2> SUFFICES ASSUME TypeInv, SendInv, NEW c \in Campaigns, NEW u \in Users
               PROVE  Cardinality(FindActive(c, u)) <= Cardinality(Requests)
    BY DEF ActiveOvershoot
  <2>1. Cardinality(FindActive(c, u)) + Cardinality(Sending(c, u)) <= Cardinality(Requests)
    BY DEF SendInv, ActiveCounted
  <2> QED
    BY <2>1, SendCountsAreNaturals
<1> QED
  BY <1>1, <1>2, <1>3, TypeInvariant, PTL DEF Spec
----------------------------------------------------------------------------
(* The invitation contract *)

LEMMA ContractIsMember ==
    ASSUME NEW c, NEW u
    PROVE  Contract!IsMember(c, u) <=> IsMember(c, u)
BY DEF Contract!IsMember, IsMember

\* A member row that is written, whatever it says, is a step of the contract.
LEMMA SetRoleIsAllowed ==
    ASSUME NEW c \in Campaigns, NEW u \in Users, NEW rl \in Roles \cup {"none"},
           SetRole(c, u, rl), UNCHANGED invitation
    PROVE  Contract!Next
<1>1. <<c, u>> \in Campaigns \X Users /\ rl \in {"master", "player", "none"}
  BY DEF Roles
<1>2. role' = [role EXCEPT ![<<c, u>>] = rl]
  BY DEF SetRole
<1>3. Contract!ChangeMember
  BY <1>1, <1>2 DEF Contract!ChangeMember
<1> QED
  BY <1>3 DEF Contract!Next

\* So is a deletion, with what cascades from it.
LEMMA CascadeIsAllowed ==
    ASSUME NEW cs \in SUBSET Campaigns, NEW us \in SUBSET Users, Cascade(cs, us)
    PROVE  Contract!Next
<1>1. {j \in DOMAIN invitation :
         /\ invitation[j].campaign \notin cs
         /\ invitation[j].inviter \notin us
         /\ invitation[j].invitee \notin us}
      = {j \in DOMAIN invitation :
           /\ invitation[j].campaign \notin cs
           /\ {invitation[j].inviter, invitation[j].invitee} \cap us = {}}
  OBVIOUS
<1>2. Contract!Forget
  BY <1>1 DEF Cascade, Contract!Forget, Pairs
<1> QED
  BY <1>2 DEF Contract!Next

\* A status that replaces "pending" settles the row; a row that is gone is not touched.
LEMMA StatusSettles ==
    ASSUME TypeOK, NEW i, NEW s, UpdateStatus(i, s),
           Exists(i) => invitation[i].status = "pending"
    PROVE  /\ Exists(i) => Contract!Settle(i, s)
           /\ ~Exists(i) => UNCHANGED invitation
<1>1. invitation' = [j \in DOMAIN invitation |->
        IF j = i THEN [invitation[j] EXCEPT !.status = s] ELSE invitation[j]]
  BY DEF UpdateStatus
<1>2. invitation = [j \in DOMAIN invitation |-> invitation[j]]
  BY DEF TypeOK
<1>3. CASE Exists(i)
  <2>1. invitation' = [invitation EXCEPT ![i].status = s]
    BY <1>1, <1>2, <1>3 DEF Exists
  <2> QED
    BY <1>3, <2>1 DEF Contract!Settle
<1>4. CASE ~Exists(i)
  BY <1>1, <1>2, <1>4 DEF Exists
<1> QED
  BY <1>3, <1>4

\* The write of cancelInvitation and of declineInvitation.
LEMMA TurnDownIsAllowed ==
    ASSUME TypeOK, NEW i, NEW s \in {"declined", "cancelled"}, UpdateStatus(i, s),
           Exists(i) => invitation[i].status = "pending", UNCHANGED role
    PROVE  Contract!Next \/ UNCHANGED <<role, invitation>>
<1>1. CASE Exists(i)
  <2>1. i \in DOMAIN invitation /\ Contract!Settle(i, s)
    BY <1>1, StatusSettles DEF Exists
  <2> QED
    BY <2>1 DEF Contract!TurnDown, Contract!Next
<1>2. CASE ~Exists(i)
  BY <1>2, StatusSettles
<1> QED
  BY <1>1, <1>2

\* The INSERT of sendInvitation: nobody who is a member or has an open invitation
\* is invited.
LEMMA SendInsertIsAllowed ==
    ASSUME TypeInv, SerialInv, NEW r \in Requests, SendInsert(r)
    PROVE  Contract!Next \/ UNCHANGED <<role, invitation>>
<1> DEFINE c == request[r].campaign
           u == request[r].target
           a == request[r].actor
<1>1. /\ c \in Campaigns /\ u \in Users /\ a \in Users
      /\ ~IsMember(c, u) /\ FindActive(c, u) = {}
  BY DEF SendInsert, At, TypeInv, FieldsAreSet, SerialInv, ReadsHold
<1>2. CASE InsertableInvitation(c, a, u)
  <2>1. PICK i \in Invitations \ usedInvitations :
           invitation' = [j \in DOMAIN invitation \cup {i} |->
             IF j = i THEN NewInvitation(c, a, u) ELSE invitation[j]]
    BY <1>2 DEF SendInsert, InsertInvitation
  <2>2. i \in Invitations \ DOMAIN invitation
    BY DEF TypeInv, TypeOK
  <2>3. ~\E j \in DOMAIN invitation :
            Contract!IsOpen(j) /\ invitation[j].campaign = c /\ invitation[j].invitee = u
    BY <1>1 DEF Contract!IsOpen, FindActive, Active, NotExpiredSql
  <2>4. ~Contract!IsMember(c, u)
    BY <1>1, ContractIsMember
  <2>5. invitation' = [j \in DOMAIN invitation \cup {i} |->
          IF j = i THEN [campaign |-> c, inviter |-> a, invitee |-> u,
                         status |-> "pending", left |-> TTL]
                   ELSE invitation[j]]
    BY <2>1 DEF NewInvitation
  <2>6. UNCHANGED role
    BY DEF SendInsert
  <2>7. Contract!Invite
    BY <1>1, <2>2, <2>3, <2>4, <2>5, <2>6 DEF Contract!Invite
  <2> QED
    BY <2>7 DEF Contract!Next
<1>3. CASE ~InsertableInvitation(c, a, u)
  BY <1>3 DEF SendInsert
<1> QED
  BY <1>2, <1>3

\* The batch of acceptInvitation: it admits the invitee in the step that settles
\* his invitation.  When the inviter's account has gone, the invitation has gone
\* with it, and the batch adds a member row alone.
LEMMA AcceptIsAllowed ==
    ASSUME TypeInv, IInv, SerialInv, NEW r \in Requests, AcceptCommit(r)
    PROVE  Contract!Next \/ UNCHANGED <<role, invitation>>
<1> DEFINE c == request[r].campaign
           u == request[r].actor
           i == request[r].invitation
<1>1. /\ c \in Campaigns /\ u \in Users
      /\ Exists(i) => /\ invitation[i].campaign = c
                      /\ invitation[i].invitee = u
                      /\ invitation[i].status = "pending"
  BY DEF AcceptCommit, At, TypeInv, FieldsAreSet, SerialInv, ReadsHold, IInv, AccepterWasOffered
<1>2. CASE InsertableMember(c, u)
  <2>1. SetRole(c, u, "player") /\ UpdateStatus(i, "accepted") /\ TypeOK
    BY <1>2 DEF AcceptCommit, TypeInv
  <2>2. CASE Exists(i)
    <3>1. i \in DOMAIN invitation /\ Contract!Settle(i, "accepted")
      BY <1>1, <2>1, <2>2, StatusSettles DEF Exists
    <3>2. ~Contract!IsMember(invitation[i].campaign, invitation[i].invitee)
      BY <1>1, <1>2, <2>2, ContractIsMember DEF InsertableMember
    <3>3. role' = [role EXCEPT ![<<invitation[i].campaign, invitation[i].invitee>>] = "player"]
      BY <1>1, <2>1, <2>2 DEF SetRole
    <3>4. Contract!Admit
      BY <3>1, <3>2, <3>3 DEF Contract!Admit
    <3> QED
      BY <3>4 DEF Contract!Next
  <2>3. CASE ~Exists(i)
    <3>1. UNCHANGED invitation
      BY <2>1, <2>3, StatusSettles
    <3> QED
      BY <1>1, <2>1, <3>1, SetRoleIsAllowed DEF Roles
  <2> QED
    BY <2>2, <2>3
<1>3. CASE ~InsertableMember(c, u)
  BY <1>3 DEF AcceptCommit
<1> QED
  BY <1>2, <1>3

\* The clock.
LEMMA TickIsAllowed ==
    ASSUME TypeInv, SerialInv, Tick
    PROVE  Contract!Next
<1>1. \A i \in DOMAIN invitation :
        invitation[i].left \notin {-1, Never} <=> invitation[i].left > -1
  <2> SUFFICES ASSUME NEW i \in DOMAIN invitation
               PROVE  invitation[i].left \notin {-1, Never} <=> invitation[i].left > -1
    OBVIOUS
  <2>1. invitation[i].left \in -1..TTL
    BY DEF TypeInv, TypeOK, InvitationRow, SerialInv, AllExpire
  <2> QED
    BY <2>1, StoreAssumption
<1>2. Contract!Age
  BY <1>1 DEF Tick, Contract!Age
<1> QED
  BY <1>2 DEF Contract!Next

\* The handlers of invitations: each step is one of the contract, or none.
LEMMA InvitationHandlersAreAllowed ==
    ASSUME TypeInv, IInv, SerialInv, NEW r \in Requests, InvitationHandlers(r)
    PROVE  Contract!Next \/ UNCHANGED <<role, invitation>>
<1> DEFINE i == request[r].invitation
<1>1. CASE SendInsert(r)
  BY <1>1, SendInsertIsAllowed
<1>2. CASE AcceptCommit(r)
  BY <1>2, AcceptIsAllowed
<1>3. ASSUME NEW s \in {"declined", "cancelled"}, UpdateStatus(i, s), UNCHANGED role,
             request[r].next \in {"cancel:write", "decline:write"}
      PROVE  Contract!Next \/ UNCHANGED <<role, invitation>>
  <2>1. TypeOK /\ (Exists(i) => invitation[i].status = "pending")
    BY <1>3 DEF TypeInv, SerialInv, ReadsHold
  <2> QED
    BY <1>3, <2>1, TurnDownIsAllowed
<1>4. CASE CancelWrite(r)
  BY <1>3, <1>4 DEF CancelWrite, At
<1>5. CASE DeclineWrite(r)
  BY <1>3, <1>5 DEF DeclineWrite, At
<1>6. CASE \/ SendCheckMember(r) \/ SendCheckActive(r) \/ CancelRead(r)
           \/ \E a \in Users, c \in Campaigns, u \in Users : StartSend(r, a, c, u)
           \/ \E a \in Users, c \in Campaigns, j \in Invitations : StartCancel(r, a, c, j)
           \/ \E u \in Users, j \in Invitations : StartAccept(r, u, j) \/ StartDecline(r, u, j)
  BY <1>6 DEF SendCheckMember, SendCheckActive, CancelRead, StartSend, StartCancel,
     StartAccept, StartDecline, tables
<1> QED
  BY <1>1, <1>2, <1>4, <1>5, <1>6 DEF InvitationHandlers

\* The handlers of members and campaigns.
LEMMA MemberHandlersAreAllowed ==
    ASSUME TypeInv, NEW r \in Requests, MemberHandlers(r)
    PROVE  Contract!Next \/ UNCHANGED <<role, invitation>>
<1> DEFINE c == request[r].campaign
           t == request[r].target
           u == request[r].actor
           rl == request[r].role
<1>1. CASE AddInsert(r) \/ RoleWrite(r)
  <2>1. /\ c \in Campaigns /\ t \in Users /\ rl \in Roles \cup {"none"}
        /\ UNCHANGED invitation
        /\ SetRole(c, t, rl) \/ UNCHANGED role
    BY <1>1 DEF AddInsert, RoleWrite, At, TypeInv, FieldsAreSet
  <2> QED
    BY <2>1, SetRoleIsAllowed
<1>2. CASE RemoveWrite(r)
  <2>1. /\ c \in Campaigns /\ t \in Users /\ "none" \in Roles \cup {"none"}
        /\ UNCHANGED invitation
        /\ SetRole(c, t, "none")
    BY <1>2 DEF RemoveWrite, At, TypeInv, FieldsAreSet
  <2> QED
    BY <2>1, SetRoleIsAllowed
<1>3. CASE CreateMember(r)
  <2>1. /\ c \in Campaigns /\ u \in Users /\ "master" \in Roles \cup {"none"}
        /\ UNCHANGED invitation
        /\ SetRole(c, u, "master") \/ UNCHANGED role
    BY <1>3 DEF CreateMember, At, TypeInv, FieldsAreSet, Roles
  <2> QED
    BY <2>1, SetRoleIsAllowed
<1>4. CASE DeleteWrite(r)
  <2>1. /\ {c} \in SUBSET Campaigns /\ {} \in SUBSET Users
        /\ Cascade({c}, {})
    BY <1>4 DEF DeleteWrite, DeleteCampaign, TypeInv, FieldsAreSet
  <2> QED
    BY <2>1, CascadeIsAllowed
<1>5. CASE \/ CheckMember(r) \/ CreateInsert(r)
           \/ \E a \in Users, d \in Campaigns, v \in Users, x \in Roles :
                StartAdd(r, a, d, v, x) \/ StartRole(r, a, d, v, x)
           \/ \E a \in Users, d \in Campaigns, v \in Users : StartRemove(r, a, d, v)
           \/ \E v \in Users : StartCreate(r, v)
           \/ \E a \in Users, d \in Campaigns : StartDelete(r, a, d)
           \/ \E d \in Campaigns : StartAdminDelete(r, d)
  BY <1>5 DEF CheckMember, CreateInsert, StartAdd, StartRole, StartRemove, StartCreate,
     StartDelete, StartAdminDelete, tables
<1> QED
  BY <1>1, <1>2, <1>3, <1>4, <1>5 DEF MemberHandlers

\* The handlers implement the invitation contract as long as requests do not
\* overlap: initial states map to initial states, and every step on the tables,
\* deletions, the clock and abandoned requests included, is one step of the
\* contract or none.
THEOREM AloneKeepsContract ==
    ASSUME \A r, s \in Requests : r = s
    PROVE  Spec => KeepsContract
<1>1. Init => Contract!Init
  <2> SUFFICES ASSUME Init PROVE Contract!Init
    OBVIOUS
  <2>1. invitation = [i \in {} |-> 0]
    BY DEF Init, StoreInit
  <2>2. role \in [Campaigns \X Users -> {"master", "player", "none"}]
    BY DEF Init, StoreInit, Pairs
  <2> QED
    BY <2>1, <2>2 DEF Contract!Init
<1>2. TypeInv /\ IInv /\ SerialInv /\ [Next]_vars => [Contract!Next]_(Contract!vars)
  <2> SUFFICES ASSUME TypeInv, IInv, SerialInv, [Next]_vars
               PROVE  Contract!Next \/ UNCHANGED <<role, invitation>>
    BY DEF Contract!vars
  <2>1. ASSUME NEW u \in Users, DeleteUser(u)
        PROVE  Contract!Next
    <3>1. Cascade({}, {u}) /\ {} \in SUBSET Campaigns /\ {u} \in SUBSET Users
      BY <2>1 DEF DeleteUser
    <3> QED
      BY <3>1, CascadeIsAllowed
  <2>2. CASE (\E r \in Requests : Abandon(r)) \/ AdminCreate \/ UNCHANGED vars
    BY <2>2 DEF Abandon, AdminCreate, vars, tables
  <2> QED
    BY <2>1, <2>2, InvitationHandlersAreAllowed, MemberHandlersAreAllowed, TickIsAllowed
    DEF Next
<1> QED
  BY <1>1, <1>2, TypeInvariant, SafetyInvariant, AloneInvariant, PTL
  DEF Spec, KeepsContract, Contract!Spec

\* In particular a cancelled invitation stays cancelled then: the contract settles
\* pending invitations only.
THEOREM AloneCancelledIsFinal ==
    ASSUME \A r, s \in Requests : r = s
    PROVE  Spec => CancelledIsFinal
<1>1. [Contract!Next]_(Contract!vars) =>
        [\A i \in DOMAIN invitation \cap DOMAIN invitation' :
           invitation[i].status = "cancelled" => invitation'[i].status = "cancelled"]_vars
  <2> SUFFICES ASSUME Contract!Next \/ UNCHANGED <<role, invitation>>,
                      NEW i \in DOMAIN invitation \cap DOMAIN invitation',
                      invitation[i].status = "cancelled"
               PROVE  invitation'[i].status = "cancelled"
    BY DEF Contract!vars
  <2>1. ASSUME NEW j \in DOMAIN invitation, NEW s, Contract!Settle(j, s)
        PROVE  invitation'[i] = invitation[i]
    BY <2>1 DEF Contract!Settle
  <2>2. CASE Contract!TurnDown \/ Contract!Admit
    BY <2>1, <2>2 DEF Contract!TurnDown, Contract!Admit
  <2>3. CASE Contract!Invite \/ Contract!ChangeMember \/ Contract!Forget \/ Contract!Age
    BY <2>3 DEF Contract!Invite, Contract!ChangeMember, Contract!Forget, Contract!Age
  <2> QED
    BY <2>2, <2>3 DEF Contract!Next
<1>2. Spec => KeepsContract
  BY AloneKeepsContract
<1> QED
  BY <1>1, <1>2, PTL DEF KeepsContract, Contract!Spec, CancelledIsFinal

=============================================================================
