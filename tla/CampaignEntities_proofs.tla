----------------------- MODULE CampaignEntities_proofs -----------------------
(***************************************************************************)
(* Proofs about CampaignEntities, for any number of campaigns, masters,    *)
(* ids and requests that overlap: the types, that nothing outlives its     *)
(* campaign, what the global lists show, who edits what, that what is      *)
(* hidden from players stays hidden, and what the numbers of the home page *)
(* count.                                                                  *)
(***************************************************************************)
EXTENDS CampaignEntities, FiniteSetTheorems, TLAPS

----------------------------------------------------------------------------
(* Types *)

\* What a request that is not idle knows.
FieldsAreSet(q) ==
    /\ q.next # "idle" => q.actor \in Users /\ q.campaign \in Campaigns
    /\ q.next \in {"post:link", "patch:write", "patch:visible"} => q.entity \in Entities

TypeInv == TypeOK /\ \A r \in Requests : FieldsAreSet(request[r])

Others(r) == \A s \in Requests \ {r} : request'[s] = request[s]

\* One request moves.
LEMMA MoveEffect ==
    ASSUME TypeInv, NEW r \in Requests, NEW q \in RequestRecord,
           request' = [request EXCEPT ![r] = q]
    PROVE  /\ request' \in [Requests -> RequestRecord]
           /\ request'[r] = q
           /\ Others(r)
BY DEF TypeInv, TypeOK, Others

LEMMA IdleTyped ==
    /\ Idle \in RequestRecord
    /\ Idle.next = "idle"
    /\ FieldsAreSet(Idle)
BY EntitiesAssumption DEF Idle, RequestRecord, NextCall, Flags, FieldsAreSet

LEMMA FinishEffect ==
    ASSUME TypeInv, NEW r \in Requests, Finish(r)
    PROVE  /\ request' \in [Requests -> RequestRecord]
           /\ request'[r].next = "idle" /\ FieldsAreSet(request'[r])
           /\ Others(r)
BY IdleTyped, MoveEffect DEF Finish

\* What an UPDATE of a catalogue does.
LEMMA SetRowEffect ==
    ASSUME TypeInv, NEW e \in Entities, NEW k, NEW flag \in Flags, SetRow(e, k, flag)
    PROVE  /\ DOMAIN content' = DOMAIN content
           /\ e \in DOMAIN content => content'[e] = flag
           /\ \A x \in DOMAIN content \ {e} : content'[x] = content[x]
           /\ content' \in [DOMAIN content' -> Flags] /\ DOMAIN content' \subseteq Entities
BY DEF TypeInv, TypeOK, SetRow

\* The two outcomes of the INSERT of a POST.
LEMMA PostInsertEffect ==
    ASSUME TypeInv, NEW r \in Requests, PostInsert(r)
    PROVE  LET q == request[r] IN
           /\ q \in RequestRecord /\ q.next = "post:insert" /\ q.campaign \in Campaigns
           /\ UNCHANGED <<campaigns, kindOf, link, released, linked, apart, edited>>
           /\ \/ Finish(r) /\ UNCHANGED <<content, home, origin, writer>>
              \/ \E e \in Fresh, k \in Kinds, c \in Campaigns \cup {None} :
                    /\ AddRow(e, k, c, q.flag)
                    /\ k = "session" => c \in campaigns
                    /\ request' = [request EXCEPT
                                     ![r] = [q EXCEPT !.next = "post:link", !.entity = e]]
                    /\ origin' = [origin EXCEPT ![e] = q.campaign]
                    /\ writer' = [writer EXCEPT ![e] = q.campaign]
<1> DEFINE q == request[r]
<1>1. q \in RequestRecord /\ q.next = "post:insert" /\ q.campaign \in Campaigns
  BY DEF TypeInv, TypeOK, FieldsAreSet, PostInsert, At
<1>2. UNCHANGED <<campaigns, kindOf, link, released, linked, apart, edited>>
  BY DEF PostInsert
<1>3. ASSUME NEW e \in Fresh, InsertOfKind(q.kind, e, q.campaign, q.flag)
      PROVE  \E k \in Kinds, c \in Campaigns \cup {None} :
                AddRow(e, k, c, q.flag) /\ (k = "session" => c \in campaigns)
  BY <1>1, <1>3 DEF InsertOfKind, InsertNpc, InsertMonster, InsertItem, InsertLocation,
     InsertFaction, InsertSession, Kinds
<1>4. ASSUME NEW e \in Fresh,
             request' = [request EXCEPT ![r].next = "post:link", ![r].entity = e]
      PROVE  request' = [request EXCEPT ![r] = [q EXCEPT !.next = "post:link", !.entity = e]]
  BY <1>4 DEF TypeInv, TypeOK
<1> QED
  BY <1>1, <1>2, <1>3, <1>4 DEF PostInsert

----------------------------------------------------------------------------
(* The inductive invariant *)

\* Links and sessions belong to campaigns that exist.
NoGhosts ==
    /\ \A c \in Campaigns, e \in Entities : Linked(c, e) => c \in campaigns
    /\ \A e \in DOMAIN content : kindOf[e] = "session" => home[e] \in campaigns

\* An id that no INSERT has given out has no row; what is to be linked was inserted
\* by the same request.
Inserted ==
    /\ \A e \in Entities : origin[e] = None => ~RowExists(e) /\ writer[e] = None
    /\ \A r \in Requests : At(r, "post:link") => origin[request[r].entity] = request[r].campaign
    /\ \A r, s \in Requests :
          At(r, "post:link") /\ At(s, "post:link") /\ request[r].entity = request[s].entity
          => r = s

\* A row that its campaign does not link is on the way, or was released.
Accounted ==
    \A e \in DOMAIN content :
        origin[e] \in campaigns => Linked(origin[e], e) \/ Linking(e) \/ e \in released

\* Links are recorded, and who edits has seen one.
LinksSeen ==
    /\ \A c \in Campaigns, e \in Entities : Linked(c, e) => <<c, e>> \in linked
    /\ \A r \in Requests : request[r].next \in {"patch:write", "patch:visible"} =>
          /\ <<request[r].campaign, request[r].actor>> \in MasterOf
          /\ <<request[r].campaign, request[r].entity>> \in linked
    /\ EditsStayInCampaign

\* Pairs that were linked otherwise than by the POST of the row, and pairs that two
\* PATCHes are about, are set apart.
SetApart ==
    /\ \A x \in linked : x \in apart \/ origin[x[2]] = x[1]
    /\ \A r, s \in Requests, c \in Campaigns, e \in Entities :
          r # s /\ Patching(r, c, e) /\ Patching(s, c, e) => <<c, e>> \in apart

\* What a request is about to make visible, or to hide, is what it wrote.
WroteTheSame(r) ==
    LET q == request[r] IN
    RowExists(q.entity) /\ writer[q.entity] = q.campaign => content[q.entity] = q.flag

Agreed ==
    \A r \in Requests :
        LET x == <<request[r].campaign, request[r].entity>> IN
        /\ At(r, "post:link") => x \in apart \/ (x \notin linked /\ WroteTheSame(r))
        /\ At(r, "patch:visible") => x \in apart \/ WroteTheSame(r)

Shielded ==
    \A c \in Campaigns, e \in DOMAIN content :
        link[<<c, e>>] = "visible" /\ content[e] = "hidden" /\ writer[e] = c =>
            Hiding(c, e) \/ <<c, e>> \in apart

IInv == NoGhosts /\ Inserted /\ Accounted /\ LinksSeen /\ SetApart /\ Agreed /\ Shielded

----------------------------------------------------------------------------
(* Steps that write nothing *)

\* A request starts a POST, or ends without having written: what it was to link is
\* released or cannot be linked any more, what it was to show or hide is set apart.
Leave(r) ==
    /\ Others(r)
    /\ request' \in [Requests -> RequestRecord]
    /\ FieldsAreSet(request'[r])
    /\ request'[r].next \in {"idle", "post:insert"}
    /\ UNCHANGED <<store, origin, linked, writer, edited>>
    /\ apart \subseteq apart' /\ apart' \subseteq Campaigns \X Entities
    /\ released \subseteq released' /\ released' \subseteq Entities
    /\ At(r, "post:link") => \/ request[r].entity \in released'
                             \/ ~Linkable(request[r].campaign, request[r].entity)
    /\ At(r, "patch:visible") => <<request[r].campaign, request[r].entity>> \in apart'

LEMMA LeaveKeepsTypes ==
    ASSUME TypeInv, NEW r \in Requests, Leave(r)
    PROVE  TypeInv'
<1>1. \A s \in Requests : FieldsAreSet(request'[s])
  BY DEF TypeInv, Leave, Others
<1>2. (\A s \in Requests : FieldsAreSet(request[s]))'
  BY <1>1 DEF FieldsAreSet
<1> QED
  BY <1>2 DEF TypeInv, TypeOK, Leave, store

LEMMA LeaveKeepsIInv ==
    ASSUME TypeInv, IInv, NEW r \in Requests, Leave(r)
    PROVE  IInv'
<1>0. /\ UNCHANGED <<campaigns, kindOf, content, home, link, origin, linked, writer, edited>>
      /\ apart \subseteq apart' /\ released \subseteq released'
      /\ \A s \in Requests : request'[s].next \in {"post:link", "patch:write", "patch:visible"}
            => s # r /\ request'[s] = request[s]
      /\ \A s \in Requests \ {r} : request'[s] = request[s]
  BY DEF Leave, store, Others
<1>1. NoGhosts'
  BY <1>0 DEF IInv, NoGhosts, Linked
<1>2. Inserted'
  BY <1>0 DEF IInv, Inserted, At, RowExists
<1>3. Accounted'
  <2> SUFFICES ASSUME NEW e \in DOMAIN content, origin[e] \in campaigns
               PROVE  Linked(origin[e], e) \/ Linking(e)' \/ e \in released'
    BY <1>0 DEF Accounted, Linked
  <2>1. Linked(origin[e], e) \/ Linking(e) \/ e \in released
    BY DEF IInv, Accounted
  <2>2. ASSUME NEW s \in Requests, At(s, "post:link"), request[s].entity = e
        PROVE  Linked(origin[e], e) \/ Linking(e)' \/ e \in released'
    <3>1. CASE s = r
      <4>1. origin[e] = request[r].campaign
        BY <2>2, <3>1 DEF IInv, Inserted
      <4> QED
        BY <2>2, <3>1, <4>1 DEF Leave, Linkable
    <3>2. CASE s # r
      BY <1>0, <2>2, <3>2 DEF Linking, At
    <3> QED
      BY <3>1, <3>2
  <2> QED
    BY <1>0, <2>1, <2>2 DEF Linking
<1>4. LinksSeen'
  BY <1>0 DEF IInv, LinksSeen, Linked, EditsStayInCampaign
<1>5. SetApart'
  BY <1>0 DEF IInv, SetApart, Patching
<1>6. Agreed'
  BY <1>0 DEF IInv, Agreed, At, WroteTheSame, RowExists
<1>7. Shielded'
  <2> SUFFICES ASSUME NEW c \in Campaigns, NEW e \in DOMAIN content,
                      link[<<c, e>>] = "visible", content[e] = "hidden", writer[e] = c
               PROVE  Hiding(c, e)' \/ <<c, e>> \in apart'
    BY <1>0 DEF Shielded
  <2>1. Hiding(c, e) \/ <<c, e>> \in apart
    BY DEF IInv, Shielded
  <2>2. ASSUME NEW s \in Requests, At(s, "patch:visible"), Patching(s, c, e)
        PROVE  Hiding(c, e)' \/ <<c, e>> \in apart'
    <3>1. CASE s = r
      BY <2>2, <3>1 DEF Leave, Patching
    <3>2. CASE s # r
      BY <1>0, <2>2, <3>2 DEF Hiding, At, Patching
    <3> QED
      BY <3>1, <3>2
  <2> QED
    BY <1>0, <2>1, <2>2 DEF Hiding
<1> QED
  BY <1>1, <1>2, <1>3, <1>4, <1>5, <1>6, <1>7 DEF IInv

\* The handlers whose steps are of this kind.
LEMMA PostsLeave ==
    ASSUME TypeInv, NEW r \in Requests, NEW u \in Users, NEW c \in Campaigns,
           NEW flag \in Flags, Posts(r, u, c, flag)
    PROVE  Leave(r)
<1>1. PICK k \in Kinds : StartPost(r, u, c, k, flag)
  BY DEF Posts, PostNpc, PostMonster, PostItem, PostLocation, PostFaction, PostSession, Kinds
<1> DEFINE q == [next |-> "post:insert", actor |-> u, campaign |-> c, kind |-> k,
                 entity |-> None, flag |-> flag]
<1>2. q \in RequestRecord /\ q.next = "post:insert" /\ FieldsAreSet(q)
  BY DEF RequestRecord, NextCall, FieldsAreSet
<1>3. /\ request' = [request EXCEPT ![r] = q] /\ request[r] = Idle
      /\ UNCHANGED <<store, history>>
  BY <1>1 DEF StartPost, Start
<1> HIDE DEF q
<1> QED
  BY <1>2, <1>3, MoveEffect, IdleTyped DEF Leave, history, At, TypeInv, TypeOK

LEMMA FinishLeaves ==
    ASSUME TypeInv, NEW r \in Requests, Finish(r),
           UNCHANGED <<store, origin, linked, writer, edited>>,
           apart \subseteq apart', apart' \subseteq Campaigns \X Entities,
           released \subseteq released', released' \subseteq Entities,
           At(r, "post:link") => \/ request[r].entity \in released'
                                 \/ ~Linkable(request[r].campaign, request[r].entity),
           At(r, "patch:visible") => <<request[r].campaign, request[r].entity>> \in apart'
    PROVE  Leave(r)
BY FinishEffect DEF Leave

LEMMA AbandonLeaves ==
    ASSUME TypeInv, NEW r \in Requests, Abandon(r)
    PROVE  Leave(r)
<1>1. /\ request[r].next # "idle" /\ Finish(r)
      /\ UNCHANGED <<store, origin, linked, writer, edited>>
      /\ released' = IF At(r, "post:link") THEN released \cup {request[r].entity} ELSE released
      /\ apart' = IF At(r, "patch:visible")
                    THEN apart \cup {<<request[r].campaign, request[r].entity>>} ELSE apart
  BY DEF Abandon, At
<1>2. /\ At(r, "post:link") => request[r].entity \in Entities
      /\ At(r, "patch:visible") => /\ request[r].entity \in Entities
                                   /\ request[r].campaign \in Campaigns
  BY DEF TypeInv, FieldsAreSet, At
<1>3. apart' \subseteq Campaigns \X Entities /\ released' \subseteq Entities
  BY <1>1, <1>2 DEF TypeInv, TypeOK
<1> QED
  BY <1>1, <1>3, FinishLeaves

----------------------------------------------------------------------------
(* POST: the INSERT of the row *)

LEMMA AddedKeepsIInv ==
    ASSUME TypeInv, IInv, NEW r \in Requests, At(r, "post:insert"),
           NEW e \in Fresh, NEW k \in Kinds, NEW h \in Campaigns \cup {None},
           AddRow(e, k, h, request[r].flag), k = "session" => h \in campaigns,
           request' = [request EXCEPT
                         ![r] = [request[r] EXCEPT !.next = "post:link", !.entity = e]],
           origin' = [origin EXCEPT ![e] = request[r].campaign],
           writer' = [writer EXCEPT ![e] = request[r].campaign],
           UNCHANGED <<campaigns, kindOf, link, released, linked, apart, edited>>
    PROVE  TypeInv' /\ IInv'
<1> DEFINE q == request[r]
           c == request[r].campaign
           after == [request[r] EXCEPT !.next = "post:link", !.entity = e]
<1>0. /\ e \in Entities /\ origin[e] = None /\ ~RowExists(e) /\ writer[e] = None
      /\ q \in RequestRecord /\ q.next = "post:insert" /\ c \in Campaigns /\ q.flag \in Flags
      /\ FieldsAreSet(q) /\ c # None
  BY StoreAssumption
     DEF Fresh, IInv, Inserted, TypeInv, TypeOK, At, FieldsAreSet, RequestRecord
<1>1. after \in RequestRecord
  BY <1>0 DEF RequestRecord, NextCall
<1>2. /\ request' \in [Requests -> RequestRecord] /\ request'[r] = after /\ Others(r)
  BY <1>1, MoveEffect
<1>3. /\ request'[r].next = "post:link" /\ request'[r].entity = e
      /\ request'[r].campaign = c /\ request'[r].flag = q.flag
      /\ FieldsAreSet(request'[r])
  BY <1>0, <1>2 DEF RequestRecord, FieldsAreSet
<1>4. /\ DOMAIN content' = DOMAIN content \cup {e}
      /\ content'[e] = q.flag
      /\ \A x \in DOMAIN content : x # e /\ content'[x] = content[x]
      /\ content' \in [DOMAIN content' -> Flags] /\ DOMAIN content' \subseteq Entities
      /\ home' \in [Entities -> Campaigns \cup {None}]
      /\ home'[e] = h /\ kindOf[e] = k
      /\ \A x \in Entities \ {e} : home'[x] = home[x]
  BY <1>0 DEF TypeInv, TypeOK, RowExists, AddRow
<1>5. /\ origin'[e] = c /\ writer'[e] = c
      /\ \A x \in Entities \ {e} : origin'[x] = origin[x] /\ writer'[x] = writer[x]
      /\ origin' \in [Entities -> Campaigns \cup {"admin", None}]
      /\ writer' \in [Entities -> Campaigns \cup {None}]
  BY <1>0 DEF TypeInv, TypeOK
<1>6. TypeInv'
  <2>1. \A s \in Requests : FieldsAreSet(request'[s])
    BY <1>2, <1>3 DEF TypeInv, Others
  <2>2. (\A s \in Requests : FieldsAreSet(request[s]))'
    BY <2>1 DEF FieldsAreSet
  <2> QED
    BY <1>2, <1>4, <1>5, <2>2 DEF TypeInv, TypeOK
<1>7. DOMAIN content \subseteq Entities
  BY DEF TypeInv, TypeOK
<1>8. ASSUME NEW s \in Requests \ {r}
      PROVE  /\ request'[s] = request[s]
             /\ At(s, "post:link") => request[s].entity \in Entities \ {e}
             /\ At(s, "post:link") => origin[request[s].entity] = request[s].campaign
  <2>1. At(s, "post:link") => /\ request[s].entity \in Entities
                              /\ request[s].campaign \in Campaigns
                              /\ origin[request[s].entity] = request[s].campaign
    BY DEF TypeInv, FieldsAreSet, At, IInv, Inserted
  <2> QED
    BY <1>0, <1>2, <2>1, StoreAssumption DEF Others
<1>9. NoGhosts'
  <2>1. \A x \in DOMAIN content' : kindOf[x] = "session" => home'[x] \in campaigns
    BY <1>4, <1>7 DEF IInv, NoGhosts
  <2> QED
    BY <2>1 DEF IInv, NoGhosts, Linked
<1>10. Inserted'
  <2>1. \A x \in Entities : origin'[x] = None => x \notin DOMAIN content' /\ writer'[x] = None
    BY <1>0, <1>4, <1>5 DEF IInv, Inserted, RowExists
  <2>2. \A s \in Requests : request'[s].next = "post:link" =>
           origin'[request'[s].entity] = request'[s].campaign
    BY <1>3, <1>5, <1>8 DEF At
  <2>3. ASSUME NEW s \in Requests, NEW t \in Requests,
               request'[s].next = "post:link", request'[t].next = "post:link",
               request'[s].entity = request'[t].entity
        PROVE  s = t
    BY <1>3, <1>8, <2>3 DEF IInv, Inserted, At
  <2> QED
    BY <2>1, <2>2, <2>3 DEF Inserted, RowExists, At
<1>11. Accounted'
  <2> SUFFICES ASSUME NEW x \in DOMAIN content', origin'[x] \in campaigns
               PROVE  Linked(origin'[x], x) \/ Linking(x)' \/ x \in released
    BY DEF Accounted, Linked
  <2>1. CASE x = e
    BY <1>3, <2>1 DEF Linking, At
  <2>2. CASE x # e
    <3>1. x \in DOMAIN content /\ origin'[x] = origin[x]
      BY <1>4, <1>5, <1>7, <2>2
    <3>2. Linked(origin[x], x) \/ Linking(x) \/ x \in released
      BY <3>1 DEF IInv, Accounted
    <3>3. Linking(x) => Linking(x)'
      BY <1>0, <1>8 DEF Linking, At
    <3> QED
      BY <3>1, <3>2, <3>3
  <2> QED
    BY <2>1, <2>2
<1>12. LinksSeen'
  BY <1>3, <1>8 DEF IInv, LinksSeen, Linked, EditsStayInCampaign
<1>13. SetApart'
  <2>1. \A x \in linked : x \in apart \/ origin'[x[2]] = x[1]
    <3>1. linked \subseteq Campaigns \X Entities
      BY DEF TypeInv, TypeOK
    <3> QED
      BY <1>0, <1>5, <3>1, StoreAssumption DEF IInv, SetApart
  <2>2. ASSUME NEW s \in Requests, NEW t \in Requests, NEW d \in Campaigns, NEW x \in Entities,
               s # t, Patching(s, d, x)', Patching(t, d, x)'
        PROVE  <<d, x>> \in apart
    BY <1>3, <1>8, <2>2 DEF IInv, SetApart, Patching
  <2> QED
    BY <2>1, <2>2 DEF SetApart
<1>14. Agreed'
  <2>1. \A d \in Campaigns : <<d, e>> \in linked => <<d, e>> \in apart
    BY <1>0, StoreAssumption DEF IInv, SetApart
  <2>2. ASSUME NEW s \in Requests \ {r},
               request[s].next \in {"post:link", "patch:visible"}
        PROVE  \/ <<request[s].campaign, request[s].entity>> \in apart
               \/ request[s].entity \in Entities \ {e}
    <3>1. CASE request[s].next = "post:link"
      BY <1>8, <3>1 DEF At
    <3>2. CASE request[s].next = "patch:visible"
      <4>1. /\ request[s].entity \in Entities /\ request[s].campaign \in Campaigns
            /\ <<request[s].campaign, request[s].entity>> \in linked
        BY <3>2 DEF TypeInv, FieldsAreSet, IInv, LinksSeen
      <4> QED
        BY <2>1, <4>1
    <3> QED
      BY <2>2, <3>1, <3>2
  <2>3. ASSUME NEW x \in Entities \ {e}
        PROVE  /\ x \in DOMAIN content' <=> x \in DOMAIN content
               /\ x \in DOMAIN content => content'[x] = content[x]
               /\ writer'[x] = writer[x]
    BY <1>4, <1>5
  <2>4. ASSUME NEW s \in Requests \ {r}, request[s].entity \in Entities \ {e}
        PROVE  WroteTheSame(s)' <=> WroteTheSame(s)
    BY <1>8, <2>3, <2>4 DEF WroteTheSame, RowExists
  <2>5. ASSUME NEW s \in Requests \ {r}
        PROVE  LET x == <<request'[s].campaign, request'[s].entity>> IN
               /\ At(s, "post:link")' => x \in apart \/ (x \notin linked /\ WroteTheSame(s)')
               /\ At(s, "patch:visible")' => x \in apart \/ WroteTheSame(s)'
    BY <1>8, <2>2, <2>4 DEF IInv, Agreed, At
  <2>6. <<c, e>> \in apart \/ <<c, e>> \notin linked
    BY <1>0, <2>1
  <2>7. WroteTheSame(r)'
    BY <1>3, <1>4 DEF WroteTheSame
  <2>8. request'[r].next = "post:link" /\ <<request'[r].campaign, request'[r].entity>> = <<c, e>>
    BY <1>3
  <2> QED
    BY <2>5, <2>6, <2>7, <2>8 DEF Agreed, At
<1>15. Shielded'
  <2> SUFFICES ASSUME NEW d \in Campaigns, NEW x \in DOMAIN content',
                      link[<<d, x>>] = "visible", content'[x] = "hidden", writer'[x] = d
               PROVE  Hiding(d, x)' \/ <<d, x>> \in apart
    BY DEF Shielded
  <2>1. CASE x = e
    <3>1. <<d, e>> \in linked
      BY <1>0, <2>1 DEF IInv, LinksSeen, Linked
    <3> QED
      BY <1>0, <2>1, <3>1, StoreAssumption DEF IInv, SetApart
  <2>2. CASE x # e
    <3>1. Hiding(d, x) \/ <<d, x>> \in apart
      BY <1>4, <1>5, <1>7, <2>2 DEF IInv, Shielded
    <3>2. Hiding(d, x) => Hiding(d, x)'
      BY <1>0, <1>8 DEF Hiding, At, Patching
    <3> QED
      BY <3>1, <3>2
  <2> QED
    BY <2>1, <2>2
<1> QED
  BY <1>6, <1>9, <1>10, <1>11, <1>12, <1>13, <1>14, <1>15 DEF IInv

LEMMA PostInsertKeepsIInv ==
    ASSUME TypeInv, IInv, NEW r \in Requests, PostInsert(r)
    PROVE  TypeInv' /\ IInv'
<1>1. request[r].next = "post:insert"
  BY DEF PostInsert, At
<1>2. CASE Finish(r) /\ UNCHANGED <<content, home, origin, writer>>
  <2>1. Leave(r)
    BY <1>1, <1>2, PostInsertEffect, FinishLeaves DEF store, At, TypeInv, TypeOK
  <2> QED
    BY <2>1, LeaveKeepsTypes, LeaveKeepsIInv
<1> QED
  BY <1>1, <1>2, PostInsertEffect, AddedKeepsIInv DEF At

----------------------------------------------------------------------------
(* POST: the link *)

LEMMA PostLinkKeepsIInv ==
    ASSUME TypeInv, IInv, NEW r \in Requests, PostLink(r)
    PROVE  TypeInv' /\ IInv'
<1> DEFINE q == request[r]
           c == request[r].campaign
           e == request[r].entity
<1>0. /\ q \in RequestRecord /\ q.next = "post:link"
      /\ c \in Campaigns /\ e \in Entities /\ q.flag \in Flags /\ origin[e] = c
      /\ <<c, e>> \in apart \/ (<<c, e>> \notin linked /\ WroteTheSame(r))
      /\ Finish(r)
      /\ UNCHANGED <<campaigns, kindOf, content, home, origin, apart, writer, edited>>
  BY DEF TypeInv, TypeOK, FieldsAreSet, PostLink, At, RequestRecord, IInv, Inserted, Agreed
<1>1. CASE ~Linkable(c, e)
  <2>1. UNCHANGED <<link, released, linked>>
    BY <1>1 DEF PostLink
  <2>2. Leave(r)
    BY <1>0, <1>1, <2>1, FinishLeaves DEF store, At, TypeInv, TypeOK
  <2> QED
    BY <2>2, LeaveKeepsTypes, LeaveKeepsIInv
<1>2. CASE Linkable(c, e)
  <2>0. /\ c \in campaigns /\ link[<<c, e>>] = "none"
        /\ link' = [link EXCEPT ![<<c, e>>] = q.flag]
        /\ linked' = linked \cup {<<c, e>>} /\ UNCHANGED released
    BY <1>2 DEF PostLink, Linkable, Linked, InsertLink
  <2>1. /\ request' \in [Requests -> RequestRecord]
        /\ request'[r].next = "idle" /\ FieldsAreSet(request'[r])
        /\ \A s \in Requests \ {r} : request'[s] = request[s]
    BY <1>0, FinishEffect DEF Others
  <2>2. \A s \in Requests : request'[s].next \in {"post:link", "patch:write", "patch:visible"}
           => s # r /\ request'[s] = request[s]
    BY <2>1
  <2>3. /\ link' \in [Campaigns \X Entities -> Flags \cup {"none"}]
        /\ link'[<<c, e>>] = q.flag
        /\ \A d \in Campaigns, x \in Entities : <<d, x>> # <<c, e>> =>
              link'[<<d, x>>] = link[<<d, x>>]
    BY <1>0, <2>0 DEF TypeInv, TypeOK
  <2>4. DOMAIN content \subseteq Entities
    BY DEF TypeInv, TypeOK
  <2>5. TypeInv'
    <3>1. \A s \in Requests : FieldsAreSet(request'[s])
      BY <2>1 DEF TypeInv
    <3>2. (\A s \in Requests : FieldsAreSet(request[s]))'
      BY <3>1 DEF FieldsAreSet
    <3> QED
      BY <1>0, <2>0, <2>1, <2>3, <3>2 DEF TypeInv, TypeOK
  <2>6. NoGhosts'
    BY <1>0, <2>0, <2>3 DEF IInv, NoGhosts, Linked
  <2>7. Inserted'
    BY <1>0, <2>2 DEF IInv, Inserted, At, RowExists
  <2>8. Accounted'
    <3> SUFFICES ASSUME NEW x \in DOMAIN content, origin[x] \in campaigns
                 PROVE  link'[<<origin[x], x>>] # "none" \/ Linking(x)' \/ x \in released
      BY <1>0, <2>0 DEF Accounted, Linked
    <3>1. CASE x = e
      BY <1>0, <2>3, <3>1 DEF Flags
    <3>2. CASE x # e
      <4>1. origin[x] \in Campaigns
        BY DEF TypeInv, TypeOK
      <4>2. Linking(x) => Linking(x)'
        BY <2>1, <3>2 DEF Linking, At
      <4> QED
        BY <2>3, <2>4, <3>2, <4>1, <4>2 DEF IInv, Accounted, Linked
    <3> QED
      BY <3>1, <3>2
  <2>9. LinksSeen'
    <3>1. \A d \in Campaigns, x \in Entities : Linked(d, x)' => <<d, x>> \in linked'
      BY <2>0, <2>3 DEF IInv, LinksSeen, Linked
    <3>2. EditsStayInCampaign'
      BY <1>0, <2>0 DEF IInv, LinksSeen, EditsStayInCampaign
    <3> QED
      BY <2>0, <2>2, <3>1, <3>2 DEF IInv, LinksSeen
  <2>10. SetApart'
    <3>1. \A x \in linked' : x \in apart' \/ origin'[x[2]] = x[1]
      BY <1>0, <2>0 DEF IInv, SetApart
    <3>2. ASSUME NEW s \in Requests, NEW t \in Requests, NEW d \in Campaigns,
                 NEW x \in Entities, s # t, Patching(s, d, x)', Patching(t, d, x)'
          PROVE  <<d, x>> \in apart'
      BY <1>0, <2>2, <3>2 DEF IInv, SetApart, Patching
    <3> QED
      BY <3>1, <3>2 DEF SetApart
  <2>11. Agreed'
    <3> SUFFICES ASSUME NEW s \in Requests,
                        request'[s].next \in {"post:link", "patch:visible"}
                 PROVE  LET x == <<request[s].campaign, request[s].entity>> IN
                        /\ At(s, "post:link") => x \in apart \/ (x \notin linked' /\ WroteTheSame(s))
                        /\ At(s, "patch:visible") => x \in apart \/ WroteTheSame(s)
      BY <1>0, <2>2 DEF Agreed, At, WroteTheSame, RowExists
    <3>1. s # r /\ request'[s] = request[s]
      BY <2>2
    <3>2. At(s, "post:link") => request[s].entity # e
      BY <1>0, <3>1 DEF IInv, Inserted, At
    <3> QED
      BY <2>0, <3>2 DEF IInv, Agreed
  <2>12. Shielded'
    <3> SUFFICES ASSUME NEW d \in Campaigns, NEW x \in DOMAIN content,
                        link'[<<d, x>>] = "visible", content[x] = "hidden", writer[x] = d
                 PROVE  Hiding(d, x)' \/ <<d, x>> \in apart
      BY <1>0 DEF Shielded
    <3>1. CASE <<d, x>> = <<c, e>>
      BY <1>0, <2>3, <3>1 DEF WroteTheSame, RowExists
    <3>2. CASE <<d, x>> # <<c, e>>
      <4>1. Hiding(d, x) \/ <<d, x>> \in apart
        BY <2>3, <2>4, <3>2 DEF IInv, Shielded
      <4>2. Hiding(d, x) => Hiding(d, x)'
        BY <1>0, <2>1 DEF Hiding, At, Patching
      <4> QED
        BY <4>1, <4>2
    <3> QED
      BY <3>1, <3>2
  <2> QED
    BY <2>5, <2>6, <2>7, <2>8, <2>9, <2>10, <2>11, <2>12 DEF IInv
<1> QED
  BY <1>1, <1>2

----------------------------------------------------------------------------
(* PATCH: the look for the link *)

LEMMA StartPatchKeepsIInv ==
    ASSUME TypeInv, IInv, NEW r \in Requests, NEW u \in Users, NEW c \in Campaigns,
           NEW k \in Kinds, NEW e \in Entities, NEW flag \in Flags,
           StartPatch(r, u, c, k, e, flag)
    PROVE  TypeInv' /\ IInv'
<1> DEFINE q == [next |-> "patch:write", actor |-> u, campaign |-> c, kind |-> k,
                 entity |-> e, flag |-> flag]
<1>1. /\ q \in RequestRecord /\ q.next = "patch:write" /\ FieldsAreSet(q)
      /\ q.campaign = c /\ q.entity = e /\ q.actor = u
  BY DEF RequestRecord, NextCall, FieldsAreSet
<1>2. /\ <<c, u>> \in MasterOf /\ Linked(c, e)
      /\ request[r] = Idle /\ request' = [request EXCEPT ![r] = q]
      /\ apart' = IF \E s \in Requests : Patching(s, c, e)
                    THEN apart \cup {<<c, e>>} ELSE apart
      /\ UNCHANGED <<campaigns, kindOf, content, home, link, origin, released, linked,
                     writer, edited>>
  BY DEF StartPatch, Start, IsMaster, store
<1> HIDE DEF q
<1>3. /\ request' \in [Requests -> RequestRecord] /\ request'[r] = q
      /\ \A s \in Requests \ {r} : request'[s] = request[s]
      /\ request[r].next = "idle" /\ request'[r].next = "patch:write"
  BY <1>1, <1>2, MoveEffect, IdleTyped DEF Others
<1>4. apart \subseteq apart' /\ apart' \subseteq Campaigns \X Entities
  BY <1>2 DEF TypeInv, TypeOK
<1>5. TypeInv'
  <2>1. \A s \in Requests : FieldsAreSet(request'[s])
    BY <1>1, <1>3 DEF TypeInv
  <2>2. (\A s \in Requests : FieldsAreSet(request[s]))'
    BY <2>1 DEF FieldsAreSet
  <2> QED
    BY <1>2, <1>3, <1>4, <2>2 DEF TypeInv, TypeOK
<1>6. \A s \in Requests : request'[s].next \in {"post:link", "patch:visible"} =>
         s # r /\ request'[s] = request[s]
  BY <1>3
<1>7. NoGhosts'
  BY <1>2 DEF IInv, NoGhosts, Linked
<1>8. Inserted'
  BY <1>2, <1>6 DEF IInv, Inserted, At, RowExists
<1>9. Accounted'
  <2>1. \A x : Linking(x) => Linking(x)'
    BY <1>3 DEF Linking, At
  <2> QED
    BY <1>2, <2>1 DEF IInv, Accounted, Linked
<1>10. LinksSeen'
  <2>1. \A s \in Requests : request'[s].next \in {"patch:write", "patch:visible"} =>
           /\ <<request'[s].campaign, request'[s].actor>> \in MasterOf
           /\ <<request'[s].campaign, request'[s].entity>> \in linked
    BY <1>1, <1>2, <1>3 DEF IInv, LinksSeen
  <2> QED
    BY <1>2, <2>1 DEF IInv, LinksSeen, Linked, EditsStayInCampaign
<1>11. SetApart'
  <2>1. ASSUME NEW s \in Requests, NEW t \in Requests, NEW d \in Campaigns,
               NEW x \in Entities, s # t, Patching(s, d, x)', Patching(t, d, x)'
        PROVE  <<d, x>> \in apart'
    <3>1. CASE s # r /\ t # r
      BY <1>3, <1>4, <2>1, <3>1 DEF IInv, SetApart, Patching
    <3>2. CASE s = r \/ t = r
      <4>1. d = c /\ x = e /\ \E y \in Requests : Patching(y, c, e)
        BY <1>1, <1>3, <2>1, <3>2 DEF Patching
      <4> QED
        BY <1>2, <4>1
    <3> QED
      BY <3>1, <3>2
  <2>2. \A x \in linked' : x \in apart' \/ origin'[x[2]] = x[1]
    BY <1>2, <1>4 DEF IInv, SetApart
  <2> QED
    BY <2>1, <2>2 DEF SetApart
<1>12. Agreed'
  BY <1>2, <1>4, <1>6 DEF IInv, Agreed, At, WroteTheSame, RowExists
<1>13. Shielded'
  <2>1. \A d \in Campaigns, x \in Entities : Hiding(d, x) => Hiding(d, x)'
    BY <1>3 DEF Hiding, At, Patching
  <2>2. DOMAIN content \subseteq Entities
    BY DEF TypeInv, TypeOK
  <2> QED
    BY <1>2, <1>4, <2>1, <2>2 DEF IInv, Shielded
<1> QED
  BY <1>5, <1>7, <1>8, <1>9, <1>10, <1>11, <1>12, <1>13 DEF IInv

----------------------------------------------------------------------------
(* PATCH: the UPDATE, and the visibility of the link *)

LEMMA PatchWriteEffect ==
    ASSUME TypeInv, NEW r \in Requests, PatchWrite(r)
    PROVE  LET q == request[r] IN
           /\ q \in RequestRecord /\ q.next = "patch:write" /\ q.actor \in Users
           /\ q.campaign \in Campaigns /\ q.entity \in Entities /\ q.flag \in Flags
           /\ UNCHANGED <<campaigns, kindOf, home, link, origin, released, linked, apart>>
           /\ \/ Finish(r) /\ UNCHANGED <<content, edited, writer>>
              \/ /\ \E k \in Kinds : SetRow(q.entity, k, q.flag)
                 /\ request' = [request EXCEPT ![r] = [q EXCEPT !.next = "patch:visible"]]
                 /\ IF RowExists(q.entity)
                      THEN /\ edited' = edited \cup {<<q.actor, q.entity>>}
                           /\ writer' = [writer EXCEPT ![q.entity] = q.campaign]
                      ELSE UNCHANGED <<edited, writer>>
<1> DEFINE q == request[r]
<1>1. /\ q \in RequestRecord /\ q.next = "patch:write" /\ q.actor \in Users
      /\ q.campaign \in Campaigns /\ q.entity \in Entities /\ q.flag \in Flags
  BY DEF TypeInv, TypeOK, FieldsAreSet, PatchWrite, At, RequestRecord
<1>2. UpdateOfKind(q.kind, q.entity, q.flag) => \E k \in Kinds : SetRow(q.entity, k, q.flag)
  BY DEF UpdateOfKind, UpdateNpcRow, UpdateMonsterRow, UpdateItemRow, UpdateLocationRow,
     UpdateFactionRow, UpdateSessionRow, Kinds
<1>3. Continue(r, "patch:visible") =>
         request' = [request EXCEPT ![r] = [q EXCEPT !.next = "patch:visible"]]
  BY DEF Continue, TypeInv, TypeOK
<1> QED
  BY <1>1, <1>2, <1>3 DEF PatchWrite

LEMMA PatchWriteKeepsIInv ==
    ASSUME TypeInv, IInv, NEW r \in Requests, PatchWrite(r)
    PROVE  TypeInv' /\ IInv'
<1> DEFINE q == request[r]
           c == request[r].campaign
           e == request[r].entity
           after == [request[r] EXCEPT !.next = "patch:visible"]
<1>0. /\ q \in RequestRecord /\ q.next = "patch:write" /\ q.actor \in Users
      /\ c \in Campaigns /\ e \in Entities /\ q.flag \in Flags
      /\ UNCHANGED <<campaigns, kindOf, home, link, origin, released, linked, apart>>
      /\ <<c, q.actor>> \in MasterOf /\ <<c, e>> \in linked
  BY PatchWriteEffect DEF IInv, LinksSeen
<1>1. CASE Finish(r) /\ UNCHANGED <<content, edited, writer>>
  <2>1. Leave(r)
    BY <1>0, <1>1, FinishLeaves DEF store, At, TypeInv, TypeOK
  <2> QED
    BY <2>1, LeaveKeepsTypes, LeaveKeepsIInv
<1>2. ASSUME NEW k \in Kinds, SetRow(e, k, q.flag), request' = [request EXCEPT ![r] = after],
             IF RowExists(e)
               THEN /\ edited' = edited \cup {<<q.actor, e>>}
                    /\ writer' = [writer EXCEPT ![e] = c]
               ELSE UNCHANGED <<edited, writer>>
      PROVE  TypeInv' /\ IInv'
  <2>1. after \in RequestRecord
    BY <1>0 DEF RequestRecord, NextCall
  <2>2. /\ request' \in [Requests -> RequestRecord] /\ request'[r] = after
        /\ \A s \in Requests \ {r} : request'[s] = request[s]
    BY <1>2, <2>1, MoveEffect DEF Others
  <2>3. /\ request'[r].next = "patch:visible" /\ request'[r].campaign = c
        /\ request'[r].entity = e /\ request'[r].flag = q.flag /\ request'[r].actor = q.actor
    BY <1>0, <2>2 DEF RequestRecord
  <2>4. /\ DOMAIN content' = DOMAIN content
        /\ e \in DOMAIN content => content'[e] = q.flag
        /\ \A x \in DOMAIN content \ {e} : content'[x] = content[x]
        /\ content' \in [DOMAIN content' -> Flags] /\ DOMAIN content' \subseteq Entities
    BY <1>0, <1>2, SetRowEffect
  <2>5. /\ \A x \in Entities \ {e} : writer'[x] = writer[x]
        /\ RowExists(e) => writer'[e] = c
        /\ ~RowExists(e) => writer'[e] = writer[e]
        /\ writer' \in [Entities -> Campaigns \cup {None}]
        /\ edited \subseteq edited' /\ edited' \subseteq edited \cup {<<q.actor, e>>}
    BY <1>0, <1>2 DEF TypeInv, TypeOK
  <2>6. TypeInv'
    <3>1. \A s \in Requests : FieldsAreSet(request'[s])
      BY <1>0, <2>2, <2>3 DEF TypeInv, FieldsAreSet
    <3>2. (\A s \in Requests : FieldsAreSet(request[s]))'
      BY <3>1 DEF FieldsAreSet
    <3> QED
      BY <1>0, <2>2, <2>4, <2>5, <3>2 DEF TypeInv, TypeOK
  <2>7. NoGhosts'
    BY <1>0, <2>4 DEF IInv, NoGhosts, Linked
  <2>8. \A s \in Requests : request'[s].next \in {"post:link", "patch:write"} =>
           s # r /\ request'[s] = request[s]
    BY <2>2, <2>3
  <2>9. Inserted'
    <3>1. \A x \in Entities : origin[x] = None => x \notin DOMAIN content' /\ writer'[x] = None
      BY <2>4, <2>5 DEF IInv, Inserted, RowExists
    <3> QED
      BY <1>0, <2>8, <3>1 DEF IInv, Inserted, At, RowExists
  <2>10. Accounted'
    <3>1. \A x : Linking(x) => Linking(x)'
      BY <1>0, <2>2 DEF Linking, At
    <3> QED
      BY <1>0, <2>4, <3>1 DEF IInv, Accounted, Linked
  <2>11. LinksSeen'
    <3>1. \A s \in Requests : request'[s].next \in {"patch:write", "patch:visible"} =>
             /\ <<request'[s].campaign, request'[s].actor>> \in MasterOf
             /\ <<request'[s].campaign, request'[s].entity>> \in linked
      BY <1>0, <2>2, <2>3 DEF IInv, LinksSeen
    <3>2. EditsStayInCampaign'
      BY <1>0, <2>5 DEF IInv, LinksSeen, EditsStayInCampaign
    <3> QED
      BY <1>0, <3>1, <3>2 DEF IInv, LinksSeen, Linked
  <2>12. SetApart'
    <3>1. \A s \in Requests, d \in Campaigns, x \in Entities :
             Patching(s, d, x)' => Patching(s, d, x)
      BY <1>0, <2>2, <2>3 DEF Patching
    <3> QED
      BY <1>0, <3>1 DEF IInv, SetApart
  <2>13. Agreed'
    <3> SUFFICES ASSUME NEW s \in Requests,
                        request'[s].next \in {"post:link", "patch:visible"}
                 PROVE  LET x == <<request'[s].campaign, request'[s].entity>> IN
                        /\ At(s, "post:link")' =>
                              x \in apart \/ (x \notin linked /\ WroteTheSame(s)')
                        /\ At(s, "patch:visible")' => x \in apart \/ WroteTheSame(s)'
      BY <1>0 DEF Agreed, At
    <3>1. CASE s = r
      BY <1>0, <2>3, <2>4, <3>1 DEF WroteTheSame, RowExists, At
    <3>2. CASE s # r
      <4> DEFINE x == <<request[s].campaign, request[s].entity>>
      <4>0. /\ request'[s] = request[s] /\ request[s].entity \in Entities
            /\ request[s].campaign \in Campaigns
        BY <2>2, <3>2 DEF TypeInv, FieldsAreSet
      <4>1. CASE x = <<c, e>>
        <5>1. At(s, "patch:visible") => x \in apart
          BY <1>0, <3>2, <4>1 DEF IInv, SetApart, Patching, At
        <5>2. At(s, "post:link") => x \in apart
          BY <1>0, <4>1 DEF IInv, Agreed
        <5> QED
          BY <4>0, <5>1, <5>2 DEF At
      <4>2. CASE x # <<c, e>>
        <5>1. WroteTheSame(s) => WroteTheSame(s)'
          <6>1. CASE request[s].entity # e
            BY <2>4, <2>5, <4>0, <6>1 DEF WroteTheSame, RowExists
          <6>2. CASE request[s].entity = e
            <7>1. request[s].campaign # c
              BY <4>2, <6>2
            <7> QED
              BY <2>4, <2>5, <4>0, <6>2, <7>1 DEF WroteTheSame, RowExists
          <6> QED
            BY <6>1, <6>2
        <5> QED
          BY <4>0, <5>1 DEF IInv, Agreed, At
      <4> QED
        BY <4>1, <4>2
    <3> QED
      BY <3>1, <3>2
  <2>14. Shielded'
    <3> SUFFICES ASSUME NEW d \in Campaigns, NEW x \in DOMAIN content,
                        link[<<d, x>>] = "visible", content'[x] = "hidden", writer'[x] = d
                 PROVE  Hiding(d, x)' \/ <<d, x>> \in apart
      BY <1>0, <2>4 DEF Shielded
    <3>1. CASE x = e
      <4>1. d = c
        BY <2>5, <3>1 DEF RowExists
      <4> QED
        BY <2>3, <3>1, <4>1 DEF Hiding, At, Patching
    <3>2. CASE x # e
      <4>1. Hiding(d, x) \/ <<d, x>> \in apart
        BY <2>4, <2>5, <3>2 DEF IInv, Shielded, TypeInv, TypeOK
      <4>2. Hiding(d, x) => Hiding(d, x)'
        BY <1>0, <2>2 DEF Hiding, At, Patching
      <4> QED
        BY <4>1, <4>2
    <3> QED
      BY <3>1, <3>2
  <2> QED
    BY <2>6, <2>7, <2>9, <2>10, <2>11, <2>12, <2>13, <2>14 DEF IInv
<1> QED
  BY <1>1, <1>2, PatchWriteEffect

LEMMA PatchVisibleKeepsIInv ==
    ASSUME TypeInv, IInv, NEW r \in Requests, PatchVisible(r)
    PROVE  TypeInv' /\ IInv'
<1> DEFINE q == request[r]
           c == request[r].campaign
           e == request[r].entity
<1>0. /\ q \in RequestRecord /\ q.next = "patch:visible"
      /\ c \in Campaigns /\ e \in Entities /\ q.flag \in Flags
      /\ <<c, e>> \in apart \/ WroteTheSame(r)
      /\ Finish(r)
      /\ UNCHANGED <<campaigns, kindOf, content, home, history>>
  BY DEF TypeInv, TypeOK, FieldsAreSet, PatchVisible, At, RequestRecord, IInv, Agreed
<1>1. /\ request' \in [Requests -> RequestRecord]
      /\ request'[r].next = "idle" /\ FieldsAreSet(request'[r])
      /\ \A s \in Requests \ {r} : request'[s] = request[s]
  BY <1>0, FinishEffect DEF Others
<1>2. \A s \in Requests : request'[s].next \in {"post:link", "patch:write", "patch:visible"}
         => s # r /\ request'[s] = request[s]
  BY <1>1
<1>3. /\ link' \in [Campaigns \X Entities -> Flags \cup {"none"}]
      /\ link'[<<c, e>>] \in {"none", q.flag}
      /\ \A d \in Campaigns, x \in Entities : <<d, x>> # <<c, e>> =>
            link'[<<d, x>>] = link[<<d, x>>]
      /\ \A d \in Campaigns, x \in Entities : Linked(d, x)' <=> Linked(d, x)
  BY <1>0 DEF TypeInv, TypeOK, PatchVisible, UpdateVisibility, Linked, Flags
<1>4. /\ DOMAIN content \subseteq Entities /\ campaigns \subseteq Campaigns
  BY DEF TypeInv, TypeOK
<1>5. TypeInv'
  <2>1. \A s \in Requests : FieldsAreSet(request'[s])
    BY <1>1 DEF TypeInv
  <2>2. (\A s \in Requests : FieldsAreSet(request[s]))'
    BY <2>1 DEF FieldsAreSet
  <2> QED
    BY <1>0, <1>1, <1>3, <2>2 DEF TypeInv, TypeOK, history
<1>6. NoGhosts'
  BY <1>0, <1>3 DEF IInv, NoGhosts
<1>7. Inserted'
  BY <1>0, <1>2 DEF IInv, Inserted, At, RowExists, history
<1>8. Accounted'
  <2>1. \A x : Linking(x) => Linking(x)'
    BY <1>0, <1>1 DEF Linking, At
  <2> QED
    BY <1>0, <1>3, <1>4, <2>1 DEF IInv, Accounted, history
<1>9. LinksSeen'
  BY <1>0, <1>2, <1>3 DEF IInv, LinksSeen, EditsStayInCampaign, history
<1>10. SetApart'
  BY <1>0, <1>2 DEF IInv, SetApart, Patching, history
<1>11. Agreed'
  BY <1>0, <1>2 DEF IInv, Agreed, At, WroteTheSame, RowExists, history
<1>12. Shielded'
  <2> SUFFICES ASSUME NEW d \in Campaigns, NEW x \in DOMAIN content,
                      link'[<<d, x>>] = "visible", content[x] = "hidden", writer[x] = d
               PROVE  Hiding(d, x)' \/ <<d, x>> \in apart
    BY <1>0 DEF Shielded, history
  <2>1. CASE <<d, x>> = <<c, e>>
    BY <1>0, <1>3, <2>1 DEF WroteTheSame, RowExists
  <2>2. CASE <<d, x>> # <<c, e>>
    <3>1. Hiding(d, x) \/ <<d, x>> \in apart
      BY <1>3, <1>4, <2>2 DEF IInv, Shielded
    <3>2. Hiding(d, x) => Hiding(d, x)'
      BY <1>0, <1>1, <2>2 DEF Hiding, At, Patching
    <3> QED
      BY <3>1, <3>2
  <2> QED
    BY <2>1, <2>2
<1> QED
  BY <1>5, <1>6, <1>7, <1>8, <1>9, <1>10, <1>11, <1>12 DEF IInv

----------------------------------------------------------------------------
(* Links by hand *)

\* A link appears, changes or goes, and requests go on: what is linked by hand is set
\* apart, and what its own campaign unlinks is released.
LEMMA LinkByHandKeepsIInv ==
    ASSUME TypeInv, IInv, NEW c \in Campaigns, NEW e \in Entities,
           NEW v \in Flags \cup {"none"}, link' = [link EXCEPT ![<<c, e>>] = v],
           UNCHANGED <<campaigns, kindOf, content, home, request, origin, writer, edited>>,
           linked \subseteq linked', linked' \subseteq linked \cup {<<c, e>>},
           apart \subseteq apart', apart' \subseteq apart \cup {<<c, e>>},
           released \subseteq released', released' \subseteq released \cup {e},
           v # "none" => c \in campaigns /\ <<c, e>> \in linked' /\ <<c, e>> \in apart',
           linked' = linked \/ <<c, e>> \in apart',
           v = "none" => origin[e] # c \/ e \in released'
    PROVE  TypeInv' /\ IInv'
<1>1. /\ link' \in [Campaigns \X Entities -> Flags \cup {"none"}]
      /\ link'[<<c, e>>] = v
      /\ \A d \in Campaigns, x \in Entities : <<d, x>> # <<c, e>> =>
            link'[<<d, x>>] = link[<<d, x>>]
  BY DEF TypeInv, TypeOK
<1>2. /\ DOMAIN content \subseteq Entities /\ campaigns \subseteq Campaigns
      /\ linked \subseteq Campaigns \X Entities
  BY DEF TypeInv, TypeOK
<1>3. TypeInv'
  <2>1. (\A s \in Requests : FieldsAreSet(request[s]))'
    BY DEF TypeInv, FieldsAreSet
  <2> QED
    BY <1>1, <2>1 DEF TypeInv, TypeOK
<1>4. NoGhosts'
  BY <1>1 DEF IInv, NoGhosts, Linked
<1>5. Inserted'
  BY DEF IInv, Inserted, At, RowExists
<1>6. Accounted'
  <2> SUFFICES ASSUME NEW x \in DOMAIN content, origin[x] \in campaigns
               PROVE  link'[<<origin[x], x>>] # "none" \/ Linking(x)' \/ x \in released'
    BY DEF Accounted, Linked
  <2>1. link[<<origin[x], x>>] # "none" \/ Linking(x)' \/ x \in released
    BY DEF IInv, Accounted, Linked, Linking, At
  <2>2. CASE <<origin[x], x>> = <<c, e>>
    BY <1>1, <2>2
  <2>3. CASE <<origin[x], x>> # <<c, e>>
    BY <1>1, <1>2, <2>1, <2>3
  <2> QED
    BY <2>2, <2>3
<1>7. LinksSeen'
  <2>1. \A d \in Campaigns, x \in Entities : Linked(d, x)' => <<d, x>> \in linked'
    BY <1>1 DEF IInv, LinksSeen, Linked
  <2> QED
    BY <2>1 DEF IInv, LinksSeen, EditsStayInCampaign
<1>8. SetApart'
  <2>1. \A x \in linked' : x \in apart' \/ origin'[x[2]] = x[1]
    BY DEF IInv, SetApart
  <2>2. \A s, t \in Requests, d \in Campaigns, x \in Entities :
           s # t /\ Patching(s, d, x)' /\ Patching(t, d, x)' => <<d, x>> \in apart'
    BY DEF IInv, SetApart, Patching
  <2> QED
    BY <2>1, <2>2 DEF SetApart
<1>9. Agreed'
  <2> SUFFICES ASSUME NEW s \in Requests
               PROVE  LET x == <<request[s].campaign, request[s].entity>> IN
                      /\ At(s, "post:link") =>
                            x \in apart' \/ (x \notin linked' /\ WroteTheSame(s))
                      /\ At(s, "patch:visible") => x \in apart' \/ WroteTheSame(s)
    BY DEF Agreed, At, WroteTheSame, RowExists
  <2> QED
    BY DEF IInv, Agreed
<1>10. Shielded'
  <2> SUFFICES ASSUME NEW d \in Campaigns, NEW x \in DOMAIN content,
                      link'[<<d, x>>] = "visible", content[x] = "hidden", writer[x] = d
               PROVE  Hiding(d, x)' \/ <<d, x>> \in apart'
    BY DEF Shielded
  <2>1. CASE <<d, x>> = <<c, e>>
    BY <1>1, <2>1
  <2>2. CASE <<d, x>> # <<c, e>>
    <3>1. Hiding(d, x) \/ <<d, x>> \in apart
      BY <1>1, <1>2, <2>2 DEF IInv, Shielded
    <3> QED
      BY <3>1 DEF Hiding, At, Patching
  <2> QED
    BY <2>1, <2>2
<1> QED
  BY <1>3, <1>4, <1>5, <1>6, <1>7, <1>8, <1>9, <1>10 DEF IInv

LEMMA ByHandKeepsIInv ==
    ASSUME TypeInv, IInv, NEW u \in Users, NEW c \in Campaigns, NEW e \in Entities,
           ByHand(u, c, e)
    PROVE  TypeInv' /\ IInv'
<1>1. ASSUME NEW flag \in Flags, LinkEntity(u, c, e, flag)
      PROVE  TypeInv' /\ IInv'
  <2>1. /\ c \in campaigns /\ flag # "none"
        /\ link' = [link EXCEPT ![<<c, e>>] = flag]
        /\ linked' = linked \cup {<<c, e>>} /\ apart' = apart \cup {<<c, e>>}
        /\ UNCHANGED <<campaigns, kindOf, content, home, request, origin, released,
                       writer, edited>>
    BY <1>1 DEF LinkEntity, IsMaster, InsertLink, Flags
  <2> QED
    BY <2>1, LinkByHandKeepsIInv
<1>2. ASSUME NEW flag \in Flags, ShowEntity(u, c, e, flag)
      PROVE  TypeInv' /\ IInv'
  <2>1. /\ c \in campaigns /\ flag # "none" /\ <<c, e>> \in linked
        /\ link' = [link EXCEPT ![<<c, e>>] = flag]
        /\ apart' = apart \cup {<<c, e>>}
        /\ UNCHANGED <<campaigns, kindOf, content, home, request, origin, released, linked,
                       writer, edited>>
    BY <1>2 DEF ShowEntity, IsMaster, UpdateVisibility, Flags, IInv, LinksSeen
  <2> QED
    BY <2>1, LinkByHandKeepsIInv
<1>3. CASE UnlinkEntity(u, c, e)
  <2>1. /\ link' = [link EXCEPT ![<<c, e>>] = "none"]
        /\ released' = IF origin[e] = c THEN released \cup {e} ELSE released
        /\ UNCHANGED <<campaigns, kindOf, content, home, request, origin, linked, apart,
                       writer, edited>>
    BY <1>3 DEF UnlinkEntity, DeleteLink
  <2>2. released \subseteq released' /\ released' \subseteq released \cup {e}
    BY <2>1
  <2> QED
    BY <2>1, <2>2, LinkByHandKeepsIInv
<1> QED
  BY <1>1, <1>2, <1>3 DEF ByHand

----------------------------------------------------------------------------
(* The admin, and the end of a campaign *)

LEMMA AdminCreateKeepsIInv ==
    ASSUME TypeInv, IInv, NEW e \in Entities, AdminCreate(e)
    PROVE  TypeInv' /\ IInv'
<1>0. PICK k \in Kinds \ {"session"} : AddRow(e, k, None, "visible")
  BY DEF AdminCreate, InsertNpc, InsertMonster, InsertItem, InsertLocation, InsertFaction,
     InsertJob, InsertPower, InsertSpell, InsertArcana, Kinds
<1>1. /\ origin[e] = None /\ ~RowExists(e) /\ writer[e] = None
      /\ origin' = [origin EXCEPT ![e] = "admin"]
      /\ UNCHANGED <<campaigns, kindOf, link, request, released, linked, apart,
                     writer, edited>>
  BY DEF AdminCreate, Fresh, IInv, Inserted
<1>2. /\ DOMAIN content' = DOMAIN content \cup {e}
      /\ content'[e] = "visible"
      /\ \A x \in DOMAIN content : x # e /\ content'[x] = content[x]
      /\ content' \in [DOMAIN content' -> Flags] /\ DOMAIN content' \subseteq Entities
      /\ home' \in [Entities -> Campaigns \cup {None}]
      /\ kindOf[e] = k
      /\ \A x \in Entities \ {e} : home'[x] = home[x]
  BY <1>0, <1>1 DEF TypeInv, TypeOK, RowExists, Flags, AddRow
<1>3. /\ origin'[e] = "admin" /\ "admin" \notin Campaigns \cup {None}
      /\ \A x \in Entities \ {e} : origin'[x] = origin[x]
      /\ origin' \in [Entities -> Campaigns \cup {"admin", None}]
  BY <1>1, EntitiesAssumption DEF TypeInv, TypeOK
<1>4. /\ DOMAIN content \subseteq Entities /\ campaigns \subseteq Campaigns
      /\ linked \subseteq Campaigns \X Entities
  BY DEF TypeInv, TypeOK
<1>5. TypeInv'
  <2>1. (\A s \in Requests : FieldsAreSet(request[s]))'
    BY <1>1 DEF TypeInv, FieldsAreSet
  <2> QED
    BY <1>1, <1>2, <1>3, <2>1 DEF TypeInv, TypeOK
<1>6. NoGhosts'
  <2>1. \A x \in DOMAIN content' : kindOf[x] = "session" => home'[x] \in campaigns
    BY <1>2, <1>4 DEF IInv, NoGhosts
  <2> QED
    BY <1>1, <2>1 DEF IInv, NoGhosts, Linked
<1>7. \A s \in Requests : At(s, "post:link") =>
         request[s].entity \in Entities \ {e} /\ request[s].campaign \in Campaigns
  BY <1>1, StoreAssumption DEF IInv, Inserted, TypeInv, FieldsAreSet, At
<1>8. Inserted'
  <2>1. \A x \in Entities : origin'[x] = None => x \notin DOMAIN content' /\ writer[x] = None
    BY <1>2, <1>3 DEF IInv, Inserted, RowExists
  <2>2. \A s \in Requests : At(s, "post:link") =>
           origin'[request[s].entity] = request[s].campaign
    BY <1>3, <1>7 DEF IInv, Inserted
  <2> QED
    BY <1>1, <2>1, <2>2 DEF IInv, Inserted, RowExists, At
<1>9. Accounted'
  <2>1. \A x : Linking(x)' <=> Linking(x)
    BY <1>1 DEF Linking, At
  <2>2. ASSUME NEW x \in DOMAIN content', origin'[x] \in campaigns
        PROVE  x \in DOMAIN content /\ origin'[x] = origin[x]
    BY <1>2, <1>3, <1>4, <2>2
  <2> QED
    BY <1>1, <2>1, <2>2 DEF IInv, Accounted, Linked
<1>10. LinksSeen'
  BY <1>1 DEF IInv, LinksSeen, Linked, EditsStayInCampaign
<1>11. \A d \in Campaigns : <<d, e>> \in linked => <<d, e>> \in apart
  BY <1>1, StoreAssumption DEF IInv, SetApart
<1>12. SetApart'
  <2>1. \A x \in linked : x \in apart \/ origin'[x[2]] = x[1]
    BY <1>3, <1>4, <1>11 DEF IInv, SetApart
  <2> QED
    BY <1>1, <2>1 DEF IInv, SetApart, Patching
<1>13. Agreed'
  <2> SUFFICES ASSUME NEW s \in Requests
               PROVE  LET x == <<request[s].campaign, request[s].entity>> IN
                      /\ At(s, "post:link") =>
                            x \in apart \/ (x \notin linked /\ WroteTheSame(s)')
                      /\ At(s, "patch:visible") => x \in apart \/ WroteTheSame(s)'
    BY <1>1 DEF Agreed, At
  <2>1. ASSUME request[s].next \in {"post:link", "patch:visible"}
        PROVE  request[s].campaign \in Campaigns /\ request[s].entity \in Entities
    BY <2>1 DEF TypeInv, FieldsAreSet
  <2>2. ASSUME request[s].next \in {"post:link", "patch:visible"}, request[s].entity = e
        PROVE  WroteTheSame(s)'
    BY <1>1, <2>1, <2>2, StoreAssumption DEF WroteTheSame, RowExists
  <2>3. ASSUME request[s].entity \in Entities \ {e}, WroteTheSame(s)
        PROVE  WroteTheSame(s)'
    BY <1>1, <1>2, <2>3 DEF WroteTheSame, RowExists
  <2>4. request[s].next \in {"post:link", "patch:visible"} /\ WroteTheSame(s) =>
           WroteTheSame(s)'
    BY <2>1, <2>2, <2>3
  <2> QED
    BY <2>4 DEF IInv, Agreed, At
<1>14. Shielded'
  <2>1. \A d \in Campaigns, x \in Entities : Hiding(d, x)' <=> Hiding(d, x)
    BY <1>1 DEF Hiding, At, Patching
  <2>2. ASSUME NEW x \in DOMAIN content', content'[x] = "hidden"
        PROVE  x \in DOMAIN content /\ content[x] = "hidden"
    BY <1>2, <2>2
  <2> QED
    BY <1>1, <1>2, <2>1, <2>2 DEF IInv, Shielded
<1> QED
  BY <1>5, <1>6, <1>8, <1>9, <1>10, <1>12, <1>13, <1>14 DEF IInv

LEMMA DeleteCampaignKeepsIInv ==
    ASSUME TypeInv, IInv, NEW c \in Campaigns, DeleteCampaign(c)
    PROVE  TypeInv' /\ IInv'
<1>1. /\ campaigns' = campaigns \ {c}
      /\ link' = [x \in Campaigns \X Entities |-> IF x[1] = c THEN "none" ELSE link[x]]
      /\ content' = [e \in {x \in DOMAIN content : home[x] # c} |-> content[e]]
      /\ home' = [e \in Entities |-> IF home[e] = c THEN None ELSE home[e]]
      /\ UNCHANGED <<kindOf, request, origin, released, linked, apart, writer, edited>>
  BY DEF DeleteCampaign, DropCampaign, history
<1>2. /\ DOMAIN content \subseteq Entities /\ campaigns \subseteq Campaigns
  BY DEF TypeInv, TypeOK
<1>3. /\ link' \in [Campaigns \X Entities -> Flags \cup {"none"}]
      /\ \A d \in Campaigns, x \in Entities :
            link'[<<d, x>>] = IF d = c THEN "none" ELSE link[<<d, x>>]
  BY <1>1 DEF TypeInv, TypeOK
<1>4. /\ DOMAIN content' = {x \in DOMAIN content : home[x] # c}
      /\ \A x \in DOMAIN content' :
            x \in DOMAIN content /\ content'[x] = content[x] /\ home'[x] = home[x]
      /\ content' \in [DOMAIN content' -> Flags]
      /\ home' \in [Entities -> Campaigns \cup {None}]
  BY <1>1, <1>2 DEF TypeInv, TypeOK
<1>5. TypeInv'
  <2>1. (\A s \in Requests : FieldsAreSet(request[s]))'
    BY <1>1 DEF TypeInv, FieldsAreSet
  <2> QED
    BY <1>1, <1>2, <1>3, <1>4, <2>1 DEF TypeInv, TypeOK
<1>6. NoGhosts'
  <2>1. \A d \in Campaigns, x \in Entities : Linked(d, x)' => d \in campaigns'
    BY <1>1, <1>3 DEF IInv, NoGhosts, Linked
  <2>2. ASSUME NEW x \in DOMAIN content', kindOf[x] = "session"
        PROVE  home'[x] \in campaigns'
    <3>1. x \in DOMAIN content /\ home[x] # c /\ home'[x] = home[x]
      BY <1>4
    <3>2. home[x] \in campaigns
      BY <2>2, <3>1 DEF IInv, NoGhosts
    <3> QED
      BY <1>1, <3>1, <3>2
  <2> QED
    BY <1>1, <2>1, <2>2 DEF NoGhosts
<1>7. Inserted'
  BY <1>1, <1>4 DEF IInv, Inserted, At, RowExists
<1>8. Accounted'
  <2>1. \A x : Linking(x)' <=> Linking(x)
    BY <1>1 DEF Linking, At
  <2> SUFFICES ASSUME NEW x \in DOMAIN content', origin[x] \in campaigns'
               PROVE  link'[<<origin[x], x>>] # "none" \/ Linking(x)' \/ x \in released
    BY <1>1 DEF Accounted, Linked
  <2>2. x \in DOMAIN content /\ origin[x] \in campaigns /\ origin[x] # c
    BY <1>1, <1>4
  <2>3. link[<<origin[x], x>>] # "none" \/ Linking(x) \/ x \in released
    BY <2>2 DEF IInv, Accounted, Linked
  <2>4. link'[<<origin[x], x>>] = link[<<origin[x], x>>]
    BY <1>2, <1>3, <2>2
  <2> QED
    BY <2>1, <2>3, <2>4
<1>9. LinksSeen'
  <2>1. \A d \in Campaigns, x \in Entities : Linked(d, x)' => <<d, x>> \in linked
    BY <1>3 DEF IInv, LinksSeen, Linked
  <2> QED
    BY <1>1, <2>1 DEF IInv, LinksSeen, EditsStayInCampaign
<1>10. SetApart'
  BY <1>1 DEF IInv, SetApart, Patching
<1>11. Agreed'
  <2>1. \A s \in Requests : WroteTheSame(s) => WroteTheSame(s)'
    BY <1>1, <1>4 DEF WroteTheSame, RowExists
  <2> QED
    BY <1>1, <2>1 DEF IInv, Agreed, At
<1>12. Shielded'
  <2>1. \A d \in Campaigns, x \in Entities : Hiding(d, x)' <=> Hiding(d, x)
    BY <1>1 DEF Hiding, At, Patching
  <2>2. \A d \in Campaigns, x \in DOMAIN content' :
           link'[<<d, x>>] = "visible" => link[<<d, x>>] = "visible"
    BY <1>2, <1>3, <1>4
  <2> QED
    BY <1>1, <1>2, <1>4, <2>1, <2>2 DEF IInv, Shielded
<1> QED
  BY <1>5, <1>6, <1>7, <1>8, <1>9, <1>10, <1>11, <1>12 DEF IInv

----------------------------------------------------------------------------
(* The theorems *)

LEMMA HandlersKeepIInv ==
    ASSUME TypeInv, IInv, NEW r \in Requests, Handlers(r)
    PROVE  TypeInv' /\ IInv'
<1>1. ASSUME NEW u \in Users, NEW c \in Campaigns, NEW flag \in Flags, Posts(r, u, c, flag)
      PROVE  TypeInv' /\ IInv'
  BY <1>1, PostsLeave, LeaveKeepsTypes, LeaveKeepsIInv
<1>2. ASSUME NEW u \in Users, NEW c \in Campaigns, NEW e \in Entities, NEW flag \in Flags,
             Patches(r, u, c, e, flag)
      PROVE  TypeInv' /\ IInv'
  <2>1. PICK k \in Kinds : StartPatch(r, u, c, k, e, flag)
    BY <1>2 DEF Patches, PatchNpc, PatchMonster, PatchItem, PatchLocation, PatchFaction,
       PatchSession, Kinds
  <2> QED
    BY <2>1, StartPatchKeepsIInv
<1>3. CASE Abandon(r)
  BY <1>3, AbandonLeaves, LeaveKeepsTypes, LeaveKeepsIInv
<1> QED
  BY <1>1, <1>2, <1>3, PostInsertKeepsIInv, PostLinkKeepsIInv, PatchWriteKeepsIInv,
     PatchVisibleKeepsIInv DEF Handlers

\* The types, and how links, rows, requests and histories fit together.
THEOREM Invariance == Spec => [](TypeInv /\ IInv)
<1>1. Init => TypeInv /\ IInv
  <2> SUFFICES ASSUME Init
               PROVE  TypeInv /\ IInv
    OBVIOUS
  <2>1. \A r \in Requests : request[r] = Idle /\ request[r].next = "idle"
    BY IdleTyped DEF Init
  <2>2. /\ DOMAIN content = {} /\ linked = {} /\ edited = {} /\ released = {}
        /\ apart = {} /\ campaigns = Campaigns
        /\ \A c \in Campaigns, e \in Entities : link[<<c, e>>] = "none"
        /\ \A e \in Entities : origin[e] = None /\ writer[e] = None
    BY DEF Init
  <2>3. TypeInv
    BY <2>1, IdleTyped, StoreAssumption DEF Init, TypeInv, TypeOK
  <2>4. NoGhosts /\ Inserted /\ Accounted /\ LinksSeen
    BY <2>1, <2>2 DEF NoGhosts, Inserted, Accounted, LinksSeen, Linked, RowExists, At,
       EditsStayInCampaign
  <2>5. SetApart /\ Agreed /\ Shielded
    BY <2>1, <2>2 DEF SetApart, Agreed, Shielded, Patching, At
  <2> QED
    BY <2>3, <2>4, <2>5 DEF IInv
<1>2. TypeInv /\ IInv /\ [Next]_vars => (TypeInv /\ IInv)'
  <2> SUFFICES ASSUME TypeInv, IInv, [Next]_vars
               PROVE  TypeInv' /\ IInv'
    OBVIOUS
  <2>1. ASSUME UNCHANGED vars
        PROVE  TypeInv'
    <3>1. (\A s \in Requests : FieldsAreSet(request[s]))'
      BY <2>1 DEF TypeInv, FieldsAreSet, vars
    <3> QED
      BY <2>1, <3>1 DEF TypeInv, TypeOK, vars, store, history
  <2>2. ASSUME UNCHANGED vars
        PROVE  IInv'
    BY <2>2 DEF IInv, vars, store, history, NoGhosts, Inserted, Accounted, LinksSeen,
       SetApart, Agreed, Shielded, Linked, RowExists, At, Linking, Patching, Hiding,
       WroteTheSame, EditsStayInCampaign
  <2> QED
    BY <2>1, <2>2, HandlersKeepIInv, ByHandKeepsIInv, AdminCreateKeepsIInv,
       DeleteCampaignKeepsIInv DEF Next
<1> QED
  BY <1>1, <1>2, PTL DEF Spec

\* Every variable holds a value of its type.
THEOREM TypeCorrect == Spec => []TypeOK
<1>1. TypeInv => TypeOK
  BY DEF TypeInv
<1> QED
  BY <1>1, Invariance, PTL

\* No link and no session outlives its campaign, also when the campaign is deleted
\* between the calls of a POST.
THEOREM DeletionTakesAll == Spec => []NothingOfDeletedCampaigns
<1>1. TypeInv /\ IInv => NothingOfDeletedCampaigns
  BY DEF IInv, NoGhosts, NothingOfDeletedCampaigns, RowExists
<1> QED
  BY <1>1, Invariance, PTL

\* What a master creates is global only while its POST has not linked it, if that
\* never happened, or once the campaign or the link is gone.
THEOREM PrivateStaysPrivate == Spec => []GlobalListIsEarned
<1>1. TypeInv /\ IInv => GlobalListIsEarned
  <2> SUFFICES ASSUME TypeInv, IInv, NEW e \in GlobalLists, origin[e] \in campaigns
               PROVE  Linking(e) \/ e \in released
    BY DEF GlobalListIsEarned
  <2>1. e \in DOMAIN content /\ \A c \in Campaigns : ~Linked(c, e)
    BY DEF GlobalLists, GlobalNpcs, GlobalMonsters, GlobalItems, GlobalJobs, GlobalPowers,
       GlobalSpells, GlobalArcanas, Unlinked
  <2>2. origin[e] \in Campaigns
    BY DEF TypeInv, TypeOK
  <2> QED
    BY <2>1, <2>2 DEF IInv, Accounted
<1> QED
  BY <1>1, Invariance, PTL

\* A row is edited only by masters of campaigns that have linked it.
THEOREM MastersEditTheirOwn == Spec => []EditsStayInCampaign
<1>1. TypeInv /\ IInv => EditsStayInCampaign
  BY DEF IInv, LinksSeen
<1> QED
  BY <1>1, Invariance, PTL

\* What was written as hidden from players is not listed for them, but for the steps
\* between the UPDATE and the visibility, and for what HiddenStaysHidden names.
THEOREM PlayersDoNotSee == Spec => []HiddenStaysHidden
<1>1. TypeInv /\ IInv => HiddenStaysHidden
  <2> SUFFICES ASSUME TypeInv, IInv, NEW c \in Campaigns,
                      NEW e \in CampaignLists(c, "player"),
                      content[e] = "hidden", writer[e] = c
               PROVE  Hiding(c, e) \/ <<c, e>> \in apart
    BY DEF HiddenStaysHidden
  <2>1. e \in DOMAIN content /\ link[<<c, e>>] = "visible"
    BY DEF CampaignLists, ListSessions, ListNpcs, ListLocations, ListFactions, ListMonsters,
       ListItems, ListSpells, ListJobs, ListPowers, ListArcanas, Listed
  <2> QED
    BY <2>1 DEF IInv, Shielded
<1> QED
  BY <1>1, Invariance, PTL

----------------------------------------------------------------------------
(* The numbers of the home page *)

\* A session is of the campaign whose POST inserted it, so that the rows which go
\* with a campaign are the ones that it inserted; what a POST is about to link is
\* there, unless its campaign is gone; a link has a row, or was made by hand.
Rooted ==
    /\ \A e \in Entities : home[e] \in {None, origin[e]}
    /\ \A r \in Requests : At(r, "post:link") =>
          RowExists(request[r].entity) \/ request[r].campaign \notin campaigns
    /\ \A c \in Campaigns, e \in Entities :
          Linked(c, e) => RowExists(e) \/ <<c, e>> \in apart

\* No row goes, no link comes, and no request comes to its link.
LEMMA NothingNewKeepsRooted ==
    ASSUME TypeInv, Rooted,
           UNCHANGED <<campaigns, home, origin>>, DOMAIN content' = DOMAIN content,
           apart \subseteq apart',
           \A c \in Campaigns, e \in Entities :
              link'[<<c, e>>] # "none" => link[<<c, e>>] # "none" \/ <<c, e>> \in apart',
           \A r \in Requests : At(r, "post:link")' => request'[r] = request[r]
    PROVE  Rooted'
BY DEF Rooted, At, RowExists, Linked

LEMMA LeaveKeepsRooted ==
    ASSUME TypeInv, Rooted, NEW r \in Requests, Leave(r)
    PROVE  Rooted'
<1>1. \A s \in Requests : At(s, "post:link")' => request'[s] = request[s]
  BY DEF Leave, Others, At
<1> QED
  BY <1>1, NothingNewKeepsRooted DEF Leave, store

LEMMA PostInsertKeepsRooted ==
    ASSUME TypeInv, IInv, Rooted, NEW r \in Requests, PostInsert(r)
    PROVE  Rooted'
<1> DEFINE q == request[r]
<1>1. /\ q \in RequestRecord /\ q.next = "post:insert"
      /\ UNCHANGED <<campaigns, kindOf, link, released, linked, apart, edited>>
  BY PostInsertEffect
<1>2. CASE Finish(r) /\ UNCHANGED <<content, home, origin, writer>>
  <2>1. \A s \in Requests : At(s, "post:link")' => request'[s] = request[s]
    BY <1>2, FinishEffect DEF Others, At
  <2> QED
    BY <1>1, <1>2, <2>1, NothingNewKeepsRooted DEF Linked
<1>3. ASSUME NEW e \in Fresh, NEW k \in Kinds, NEW c \in Campaigns \cup {None},
             NEW flag \in Flags, AddRow(e, k, c, flag), c \in {q.campaign, None},
             request' = [request EXCEPT ![r].next = "post:link", ![r].entity = e],
             origin' = [origin EXCEPT ![e] = q.campaign]
      PROVE  Rooted'
  <2> DEFINE after == [q EXCEPT !.next = "post:link", !.entity = e]
  <2>1. /\ q.campaign \in Campaigns
        /\ e \in Entities /\ origin[e] = None
    BY <1>1 DEF TypeInv, FieldsAreSet, RequestRecord, Fresh
  <2>2. /\ after \in RequestRecord /\ after.entity = e
        /\ request' = [request EXCEPT ![r] = after]
    BY <1>1, <1>3, <2>1 DEF TypeInv, TypeOK, RequestRecord, NextCall
  <2> HIDE DEF after
  <2>3. request'[r] = after /\ \A s \in Requests \ {r} : request'[s] = request[s]
    BY <2>2, MoveEffect DEF Others
  <2>4. /\ DOMAIN content' = DOMAIN content \cup {e}
        /\ home'[e] = c /\ \A x \in Entities \ {e} : home'[x] = home[x]
    <3>1. AddRow(e, k, c, flag) /\ e \in Entities
      BY <1>3, <2>1
    <3> HIDE DEF q
    <3> QED
      BY <3>1 DEF TypeInv, TypeOK, AddRow
  <2>5. origin'[e] = q.campaign /\ \A x \in Entities \ {e} : origin'[x] = origin[x]
    BY <1>3, <2>1 DEF TypeInv, TypeOK
  <2>6. (\A x \in Entities : home[x] \in {None, origin[x]})'
    BY <1>3, <2>1, <2>4, <2>5 DEF Rooted
  <2>7. (\A s \in Requests : At(s, "post:link") =>
            RowExists(request[s].entity) \/ request[s].campaign \notin campaigns)'
    BY <1>1, <2>2, <2>3, <2>4 DEF Rooted, At, RowExists
  <2>8. (\A d \in Campaigns, x \in Entities :
            Linked(d, x) => RowExists(x) \/ <<d, x>> \in apart)'
    BY <1>1, <2>4 DEF Rooted, Linked, RowExists
  <2> QED
    BY <2>6, <2>7, <2>8 DEF Rooted
<1>4. ASSUME NEW e \in Fresh, InsertOfKind(q.kind, e, q.campaign, q.flag)
      PROVE  \E k \in Kinds, c \in Campaigns \cup {None}, flag \in Flags :
                AddRow(e, k, c, flag) /\ c \in {q.campaign, None}
  BY <1>1, <1>4 DEF TypeInv, FieldsAreSet, RequestRecord, Kinds, InsertOfKind, InsertNpc,
     InsertMonster, InsertItem, InsertLocation, InsertFaction, InsertSession
<1> QED
  BY <1>2, <1>3, <1>4 DEF PostInsert

LEMMA PostLinkKeepsRooted ==
    ASSUME TypeInv, IInv, Rooted, NEW r \in Requests, PostLink(r)
    PROVE  Rooted'
<1> DEFINE c == request[r].campaign
           e == request[r].entity
<1>1. /\ c \in Campaigns /\ e \in Entities /\ Finish(r)
      /\ RowExists(e) \/ c \notin campaigns
      /\ UNCHANGED <<campaigns, content, home, origin, apart>>
      /\ UNCHANGED link \/ (c \in campaigns /\ link' = [link EXCEPT ![<<c, e>>] = request[r].flag])
  BY DEF TypeInv, FieldsAreSet, PostLink, At, Rooted, Linkable, InsertLink
<1>2. \A s \in Requests : At(s, "post:link")' => request'[s] = request[s]
  BY <1>1, FinishEffect DEF Others, At
<1>3. \A d \in Campaigns, x \in Entities :
         link'[<<d, x>>] # "none" =>
            link[<<d, x>>] # "none" \/ (c \in campaigns /\ <<d, x>> = <<c, e>>)
  BY <1>1 DEF TypeInv, TypeOK
<1> HIDE DEF c, e
<1> QED
  BY <1>1, <1>2, <1>3 DEF Rooted, At, RowExists, Linked

LEMMA PatchKeepsRooted ==
    ASSUME TypeInv, Rooted, NEW r \in Requests,
           \/ \E u \in Users, c \in Campaigns, e \in Entities, flag \in Flags :
                 Patches(r, u, c, e, flag)
           \/ PatchWrite(r)
           \/ PatchVisible(r)
    PROVE  Rooted'
<1>1. ASSUME NEW u \in Users, NEW c \in Campaigns, NEW e \in Entities, NEW flag \in Flags,
             NEW k \in Kinds, StartPatch(r, u, c, k, e, flag)
      PROVE  Rooted'
  <2> DEFINE q == [next |-> "patch:write", actor |-> u, campaign |-> c, kind |-> k,
                   entity |-> e, flag |-> flag]
  <2>1. /\ q \in RequestRecord /\ q.next = "patch:write"
        /\ request' = [request EXCEPT ![r] = q]
        /\ apart \subseteq apart'
        /\ UNCHANGED <<campaigns, home, origin, content, link>>
    BY <1>1 DEF RequestRecord, NextCall, StartPatch, Start, store
  <2> HIDE DEF q
  <2>2. \A s \in Requests : At(s, "post:link")' => request'[s] = request[s]
    BY <2>1, MoveEffect DEF Others, At
  <2> QED
    BY <2>1, <2>2, NothingNewKeepsRooted DEF Linked
<1>2. CASE PatchWrite(r)
  <2> DEFINE q == request[r]
             after == [request[r] EXCEPT !.next = "patch:visible"]
  <2>1. /\ q \in RequestRecord /\ q.entity \in Entities /\ q.flag \in Flags
        /\ UNCHANGED <<campaigns, home, link, origin, apart>>
        /\ \/ Finish(r) /\ UNCHANGED content
           \/ /\ \E k \in Kinds : SetRow(q.entity, k, q.flag)
              /\ request' = [request EXCEPT ![r] = after]
    BY <1>2, PatchWriteEffect
  <2>2. after \in RequestRecord /\ after.next = "patch:visible"
    BY <2>1 DEF RequestRecord, NextCall
  <2>3. DOMAIN content' = DOMAIN content
    BY <2>1, SetRowEffect
  <2> HIDE DEF after
  <2>4. \A s \in Requests : At(s, "post:link")' => request'[s] = request[s]
    BY <2>1, <2>2, FinishEffect, MoveEffect DEF Others, At
  <2> QED
    BY <2>1, <2>3, <2>4, NothingNewKeepsRooted DEF Linked
<1>3. CASE PatchVisible(r)
  <2>1. /\ Finish(r) /\ UNCHANGED <<campaigns, content, home, origin, apart>>
        /\ UpdateVisibility(request[r].campaign, request[r].entity, request[r].flag)
    BY <1>3 DEF PatchVisible, history
  <2>2. \A s \in Requests : At(s, "post:link")' => request'[s] = request[s]
    BY <2>1, FinishEffect DEF Others, At
  <2>3. \A d \in Campaigns, x \in Entities :
           link'[<<d, x>>] # "none" => link[<<d, x>>] # "none"
    BY <2>1 DEF UpdateVisibility, Linked, TypeInv, TypeOK
  <2> QED
    BY <2>1, <2>2, <2>3, NothingNewKeepsRooted
<1> QED
  BY <1>1, <1>2, <1>3 DEF Patches, PatchNpc, PatchMonster, PatchItem, PatchLocation,
     PatchFaction, PatchSession, Kinds

LEMMA ByHandKeepsRooted ==
    ASSUME TypeInv, Rooted, NEW u \in Users, NEW c \in Campaigns, NEW e \in Entities,
           ByHand(u, c, e)
    PROVE  Rooted'
<1>1. /\ UNCHANGED <<campaigns, content, home, origin, request>>
      /\ apart \subseteq apart'
  BY DEF ByHand, LinkEntity, ShowEntity, UnlinkEntity
<1>2. \A d \in Campaigns, x \in Entities :
         link'[<<d, x>>] # "none" => link[<<d, x>>] # "none" \/ <<d, x>> \in apart'
  BY DEF ByHand, LinkEntity, InsertLink, ShowEntity, UpdateVisibility, UnlinkEntity,
     DeleteLink, TypeInv, TypeOK
<1> QED
  BY <1>1, <1>2, NothingNewKeepsRooted

LEMMA AdminCreateKeepsRooted ==
    ASSUME TypeInv, IInv, Rooted, NEW e \in Entities, AdminCreate(e)
    PROVE  Rooted'
<1>1. PICK k \in Kinds \ {"session"} : AddRow(e, k, None, "visible")
  BY DEF AdminCreate, InsertNpc, InsertMonster, InsertItem, InsertLocation, InsertFaction,
     InsertJob, InsertPower, InsertSpell, InsertArcana, Kinds
<1>2. /\ DOMAIN content' = DOMAIN content \cup {e}
      /\ home'[e] = None /\ \A x \in Entities \ {e} : home'[x] = home[x]
  BY <1>1 DEF TypeInv, TypeOK, Flags, AddRow
<1>3. /\ UNCHANGED <<campaigns, link, request, apart>>
      /\ \A x \in Entities \ {e} : origin'[x] = origin[x]
  BY DEF AdminCreate, TypeInv, TypeOK
<1> QED
  BY <1>2, <1>3 DEF Rooted, At, RowExists, Linked

\* A session that another campaign links was linked there by hand: its POST was of
\* the campaign that takes it along.
LEMMA DeleteCampaignKeepsRooted ==
    ASSUME TypeInv, IInv, Rooted, NEW c \in Campaigns, DeleteCampaign(c)
    PROVE  Rooted'
<1>1. /\ campaigns' = campaigns \ {c}
      /\ DOMAIN content' = {x \in DOMAIN content : home[x] # c}
      /\ \A x \in Entities : home'[x] \in {None, home[x]}
      /\ \A d \in Campaigns, x \in Entities :
            link'[<<d, x>>] = IF d = c THEN "none" ELSE link[<<d, x>>]
      /\ UNCHANGED <<request, origin, linked, apart>>
  BY DEF DeleteCampaign, DropCampaign, history
<1>2. (\A x \in Entities : home[x] \in {None, origin[x]})'
  BY <1>1 DEF Rooted
<1>3. ASSUME NEW r \in Requests, At(r, "post:link"), request[r].campaign \in campaigns'
      PROVE  request[r].entity \in DOMAIN content'
  <2>1. /\ request[r].entity \in Entities /\ request[r].campaign # c
        /\ request[r].entity \in DOMAIN content
        /\ origin[request[r].entity] = request[r].campaign
    BY <1>1, <1>3 DEF TypeInv, FieldsAreSet, At, IInv, Inserted, Rooted, RowExists
  <2> QED
    BY <1>1, <2>1, StoreAssumption DEF Rooted
<1>4. ASSUME NEW d \in Campaigns, NEW x \in Entities, link'[<<d, x>>] # "none",
             <<d, x>> \notin apart
      PROVE  x \in DOMAIN content'
  <2>1. d # c /\ x \in DOMAIN content /\ <<d, x>> \in linked
    BY <1>1, <1>4 DEF Rooted, Linked, RowExists, IInv, LinksSeen
  <2>2. origin[x] = d
    BY <1>4, <2>1 DEF IInv, SetApart
  <2> QED
    BY <1>1, <2>1, <2>2, StoreAssumption DEF Rooted
<1> QED
  BY <1>1, <1>2, <1>3, <1>4 DEF Rooted, At, RowExists, Linked

\* The numbers of the home page are those of the lists, and of the links by hand to
\* ids that have no row.
THEOREM HomeCountsTheLists == Spec => []HomeStatsMatchLists
<1>1. Init => Rooted
  BY IdleTyped DEF Init, Rooted, At, Linked
<1>2. TypeInv /\ IInv /\ Rooted /\ [Next]_vars => Rooted'
  <2> SUFFICES ASSUME TypeInv, IInv, Rooted, [Next]_vars
               PROVE  Rooted'
    OBVIOUS
  <2>1. CASE UNCHANGED vars
    BY <2>1 DEF Rooted, vars, store, history, At, RowExists, Linked
  <2>2. ASSUME NEW r \in Requests, Handlers(r)
        PROVE  Rooted'
    <3>1. ASSUME \/ Abandon(r)
                 \/ \E u \in Users, c \in Campaigns, flag \in Flags : Posts(r, u, c, flag)
          PROVE  Rooted'
      BY <3>1, AbandonLeaves, PostsLeave, LeaveKeepsRooted
    <3> QED
      BY <2>2, <3>1, PostInsertKeepsRooted, PostLinkKeepsRooted, PatchKeepsRooted
         DEF Handlers
  <2> QED
    BY <2>1, <2>2, ByHandKeepsRooted, AdminCreateKeepsRooted, DeleteCampaignKeepsRooted
       DEF Next
<1>3. TypeInv /\ Rooted => HomeStatsMatchLists
  <2> SUFFICES ASSUME TypeInv, Rooted, NEW c \in Campaigns, NEW k \in HomeKinds
               PROVE  HomeStats(c)[k] =
                        Cardinality({e \in CampaignLists(c, "master") : kindOf[e] = k})
                        + Cardinality({e \in Entities : /\ kindOf[e] = k /\ Linked(c, e)
                                                        /\ ~RowExists(e)
                                                        /\ <<c, e>> \in apart})
    BY DEF HomeStatsMatchLists
  <2> DEFINE counted == {e \in Entities : kindOf[e] = k /\ Linked(c, e)}
             listed  == {e \in CampaignLists(c, "master") : kindOf[e] = k}
             astray  == {e \in Entities : /\ kindOf[e] = k /\ Linked(c, e)
                                          /\ ~RowExists(e) /\ <<c, e>> \in apart}
  <2>1. HomeStats(c)[k] = Cardinality(counted)
    BY DEF HomeStats
  <2>2. listed = {e \in DOMAIN content : kindOf[e] = k /\ Linked(c, e)}
    BY DEF CampaignLists, ListSessions, ListNpcs, ListLocations, ListFactions, ListMonsters,
       ListItems, ListSpells, ListJobs, ListPowers, ListArcanas, Listed, HomeKinds
  <2>3. counted = listed \cup astray /\ listed \cap astray = {}
    BY <2>2 DEF Rooted, RowExists, TypeInv, TypeOK
  <2>4. IsFiniteSet(listed) /\ IsFiniteSet(astray)
    <3>1. listed \in SUBSET Entities /\ astray \in SUBSET Entities
      BY <2>2 DEF TypeInv, TypeOK
    <3> HIDE DEF listed, astray
    <3> QED
      BY <3>1, FS_Subset, StoreAssumption
  <2> HIDE DEF counted, listed, astray
  <2>5. Cardinality(counted) = Cardinality(listed) + Cardinality(astray) - 0
    BY <2>3, <2>4, FS_Union, FS_EmptySet
  <2>6. Cardinality(listed) \in Nat /\ Cardinality(astray) \in Nat
    BY <2>4, FS_CardinalityType
  <2>7. HomeStats(c)[k] = Cardinality(listed) + Cardinality(astray)
    BY <2>1, <2>5, <2>6
  <2> QED
    BY <2>7 DEF listed, astray
<1> QED
  BY <1>1, <1>2, <1>3, Invariance, PTL DEF Spec
=============================================================================
