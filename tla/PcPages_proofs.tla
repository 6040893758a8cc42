--------------------------- MODULE PcPages_proofs ---------------------------
(***************************************************************************)
(* Proofs about PcPages, for any number of accounts, campaigns, PCs and    *)
(* items, and for any sheets and rows of items of the types the code gives *)
(* them, with any number of jobs.                                          *)
(***************************************************************************)
EXTENDS PcPages, WellFoundedInduction, SequenceTheorems, TLAPS

----------------------------------------------------------------------------
(* Types *)

\* Every variable of PcPages keeps its type.
THEOREM TypeCorrect == Spec => []TypeOK
<1>1. Init => TypeOK
  BY DEF Init, TypeOK
<1>2. TypeOK /\ [Next]_vars => TypeOK'
  <2> SUFFICES ASSUME TypeOK, [Next]_vars
               PROVE  TypeOK'
    OBVIOUS
  <2>1. ASSUME NEW c \in Campaigns, NEW u \in Users, NEW r \in {"none", "player", "master"},
               SetRole(c, u, r)
        PROVE  TypeOK'
    BY <2>1 DEF SetRole, TypeOK
  <2>2. ASSUME NEW u \in Users, NEW p \in Pcs, CreatePc(u, p)
        PROVE  TypeOK'
    BY <2>2 DEF CreatePc, TypeOK
  <2>3. ASSUME NEW c \in Campaigns, NEW p \in Pcs, NEW flag \in Flags,
               LinkPc(c, p, flag) \/ \E u \in Users : UpdateCampaignPc(c, u, p, flag)
        PROVE  TypeOK'
    BY <2>3 DEF LinkPc, UpdateCampaignPc, TypeOK
  <2>4. ASSUME NEW c \in Campaigns, NEW u \in Users, NEW p \in Pcs, UnlinkPc(c, u, p)
        PROVE  TypeOK'
    BY <2>4 DEF UnlinkPc, TypeOK
  <2>5. ASSUME NEW u \in Users, NEW p \in Pcs, NEW t \in Pcs, BondPc(u, p, t)
        PROVE  TypeOK'
    <3>1. bonds[p] \cup {t} \in SUBSET Pcs
      BY DEF TypeOK
    <3> QED
      BY <2>5, <3>1 DEF BondPc, TypeOK
  <2>6. ASSUME NEW u \in Users, NEW p \in Pcs, NEW i \in Items, EquipPc(u, p, i)
        PROVE  TypeOK'
    BY <2>6 DEF EquipPc, TypeOK
  <2>7. ASSUME NEW i \in Items, NEW new \in ItemRows, EditItem(i, new)
        PROVE  TypeOK'
    BY <2>7 DEF EditItem, TypeOK
  <2>8. ASSUME NEW u \in Users, DeleteUser(u)
        PROVE  TypeOK'
    <3>1. /\ accounts' \subseteq Users
          /\ role' \in [Campaigns \X Users -> {"none", "player", "master"}]
          /\ shown' \in [Campaigns \X Pcs -> Flags \cup {"none"}]
      BY <2>8 DEF DeleteUser, TypeOK
    <3>2. /\ owner' \in [Pcs -> Users \cup {None}]
          /\ bonds' \in [Pcs -> SUBSET Pcs]
          /\ armor' \in [Pcs -> Items \cup {None}]
      BY <2>8 DEF DeleteUser, TypeOK
    <3> QED
      BY <2>8, <3>1, <3>2 DEF DeleteUser, TypeOK
  <2>9. ASSUME NEW c \in Campaigns, DeleteCampaign(c)
        PROVE  TypeOK'
    BY <2>9 DEF DeleteCampaign, TypeOK
  <2>10. CASE UNCHANGED vars
    BY <2>10 DEF vars, TypeOK
  <2> QED
    BY <2>1, <2>2, <2>3, <2>4, <2>5, <2>6, <2>7, <2>8, <2>9, <2>10 DEF Next
<1> QED
  BY <1>1, <1>2, PTL DEF Spec

----------------------------------------------------------------------------
(* What a deletion leaves *)

\* The part of NothingOfTheDeleted that is about members and PCs, and the part that is
\* about what hangs on a PC.
MembersLive ==
    /\ \A x \in Campaigns \X Users :
          role[x] # "none" => x[1] \in campaigns /\ x[2] \in accounts
    /\ \A p \in Pcs : owner[p] \in accounts \cup {None}

BelongingsLive ==
    /\ \A x \in Campaigns \X Pcs : shown[x] # "none" => x[1] \in campaigns /\ PcExists(x[2])
    /\ \A p \in Pcs : ~PcExists(p) => bonds[p] = {} /\ armor[p] = None

\* An account that is deleted takes what it owns along.
LEMMA DeleteUserTakesAll ==
    ASSUME TypeOK, NothingOfTheDeleted, NEW u \in Users, DeleteUser(u)
    PROVE  NothingOfTheDeleted'
<1>0. u # None
  BY PagesAssumption
<1>1. MembersLive'
  <2>1. ASSUME NEW x \in Campaigns \X Users, role'[x] # "none"
        PROVE  x[1] \in campaigns' /\ x[2] \in accounts'
    <3>1. role'[x] = role[x] /\ x[2] # u
      BY <2>1 DEF DeleteUser
    <3> QED
      BY <2>1, <3>1 DEF DeleteUser, NothingOfTheDeleted
  <2>2. ASSUME NEW p \in Pcs
        PROVE  owner'[p] \in accounts' \cup {None}
    BY <2>2 DEF DeleteUser, NothingOfTheDeleted
  <2> QED
    BY <2>1, <2>2 DEF MembersLive
<1>2. ASSUME NEW p \in Pcs
      PROVE  PcExists(p)' <=> PcExists(p) /\ owner[p] # u
  BY <1>0 DEF DeleteUser, PcExists
<1>3. BelongingsLive'
  <2>1. ASSUME NEW x \in Campaigns \X Pcs, shown'[x] # "none"
        PROVE  x[1] \in campaigns' /\ PcExists(x[2])'
    <3>1. shown'[x] = shown[x] /\ owner[x[2]] # u
      BY <2>1 DEF DeleteUser
    <3> QED
      BY <1>2, <2>1, <3>1 DEF DeleteUser, NothingOfTheDeleted
  <2>2. ASSUME NEW p \in Pcs, ~PcExists(p)'
        PROVE  bonds'[p] = {} /\ armor'[p] = None
    BY <1>2, <2>2 DEF DeleteUser, NothingOfTheDeleted
  <2> QED
    BY <2>1, <2>2 DEF BelongingsLive
<1> QED
  BY <1>1, <1>3 DEF MembersLive, BelongingsLive, NothingOfTheDeleted

\* Nothing outlives an account or a campaign, however links, bonds, items, roles and
\* deletions follow each other.
THEOREM DeletionIsComplete == Spec => []NothingOfTheDeleted
<1>1. Init => NothingOfTheDeleted
  BY DEF Init, NothingOfTheDeleted, PcExists
<1>2. TypeOK /\ NothingOfTheDeleted /\ [Next]_vars => NothingOfTheDeleted'
  <2> SUFFICES ASSUME TypeOK, NothingOfTheDeleted, [Next]_vars
               PROVE  NothingOfTheDeleted'
    OBVIOUS
  <2>0. MembersLive /\ BelongingsLive
    BY DEF MembersLive, BelongingsLive, NothingOfTheDeleted
  <2>1. ASSUME NEW c \in Campaigns, NEW u \in Users, NEW r \in {"none", "player", "master"},
               SetRole(c, u, r)
        PROVE  NothingOfTheDeleted'
    <3>1. MembersLive'
      <4>1. ASSUME NEW x \in Campaigns \X Users
            PROVE  role'[x] = role[x] \/ x = <<c, u>>
        BY <2>1 DEF SetRole, TypeOK
      <4> QED
        BY <2>0, <2>1, <4>1 DEF SetRole, MembersLive
    <3> QED
      BY <2>0, <2>1, <3>1 DEF SetRole, MembersLive, BelongingsLive,
                              NothingOfTheDeleted, PcExists
  <2>2. ASSUME NEW u \in Users, NEW p \in Pcs, CreatePc(u, p)
        PROVE  NothingOfTheDeleted'
    <3>1. \A q \in Pcs : owner'[q] = IF q = p THEN u ELSE owner[q]
      BY <2>2 DEF CreatePc, TypeOK
    <3>2. \A q \in Pcs : PcExists(q) => PcExists(q)'
      BY <2>2, <3>1, PagesAssumption DEF PcExists
    <3>3. MembersLive'
      BY <2>0, <2>2, <3>1 DEF CreatePc, MembersLive
    <3>4. BelongingsLive'
      BY <2>0, <2>2, <3>2 DEF CreatePc, BelongingsLive
    <3> QED
      BY <3>3, <3>4 DEF MembersLive, BelongingsLive, NothingOfTheDeleted
  <2>3. ASSUME NEW c \in Campaigns, NEW p \in Pcs, NEW flag \in Flags \cup {"none"},
               shown' = [shown EXCEPT ![<<c, p>>] = flag],
               flag = "none" \/ (c \in campaigns /\ PcExists(p)),
               UNCHANGED <<campaigns, accounts, role, issued, owner, bonds, armor, item>>
        PROVE  NothingOfTheDeleted'
    <3>1. ASSUME NEW x \in Campaigns \X Pcs
          PROVE  shown'[x] = shown[x] \/ (x = <<c, p>> /\ shown'[x] = flag)
      BY <2>3 DEF TypeOK
    <3>2. BelongingsLive'
      BY <2>0, <2>3, <3>1 DEF BelongingsLive, PcExists
    <3> QED
      BY <2>0, <2>3, <3>2 DEF MembersLive, BelongingsLive, NothingOfTheDeleted
  <2>4. ASSUME NEW c \in Campaigns, NEW p \in Pcs, NEW flag \in Flags,
               LinkPc(c, p, flag) \/ \E u \in Users : UpdateCampaignPc(c, u, p, flag)
        PROVE  NothingOfTheDeleted'
    <3>1. shown[<<c, p>>] # "none" => c \in campaigns /\ PcExists(p)
      BY <2>0 DEF BelongingsLive
    <3> QED
      BY <2>3, <2>4, <3>1 DEF LinkPc, UpdateCampaignPc
  <2>5. ASSUME NEW c \in Campaigns, NEW u \in Users, NEW p \in Pcs, UnlinkPc(c, u, p)
        PROVE  NothingOfTheDeleted'
    BY <2>3, <2>5 DEF UnlinkPc
  <2>6. ASSUME NEW u \in Users, NEW p \in Pcs, NEW t \in Pcs, BondPc(u, p, t)
        PROVE  NothingOfTheDeleted'
    <3>1. PcExists(p) /\ \A q \in Pcs \ {p} : bonds'[q] = bonds[q]
      BY <2>6, PagesAssumption DEF BondPc, PcExists, TypeOK
    <3> QED
      BY <2>0, <2>6, <3>1 DEF BondPc, MembersLive, BelongingsLive, NothingOfTheDeleted,
                              PcExists
  <2>7. ASSUME NEW u \in Users, NEW p \in Pcs, NEW i \in Items, EquipPc(u, p, i)
        PROVE  NothingOfTheDeleted'
    <3>1. PcExists(p) /\ \A q \in Pcs \ {p} : armor'[q] = armor[q]
      BY <2>7, PagesAssumption DEF EquipPc, PcExists, TypeOK
    <3> QED
      BY <2>0, <2>7, <3>1 DEF EquipPc, MembersLive, BelongingsLive, NothingOfTheDeleted,
                              PcExists
  <2>8. ASSUME NEW i \in Items, NEW new \in ItemRows, EditItem(i, new)
        PROVE  NothingOfTheDeleted'
    BY <2>8 DEF EditItem, NothingOfTheDeleted, PcExists
  <2>9. ASSUME NEW c \in Campaigns, DeleteCampaign(c)
        PROVE  NothingOfTheDeleted'
    <3>1. /\ \A x \in Campaigns \X Users : role'[x] # "none" => role[x] # "none" /\ x[1] # c
          /\ \A x \in Campaigns \X Pcs : shown'[x] # "none" => shown[x] # "none" /\ x[1] # c
      BY <2>9 DEF DeleteCampaign
    <3> QED
      BY <2>0, <2>9, <3>1 DEF DeleteCampaign, MembersLive, BelongingsLive,
                              NothingOfTheDeleted, PcExists
  <2>10. CASE UNCHANGED vars
    BY <2>10 DEF vars, NothingOfTheDeleted, PcExists
  <2> QED
    BY <2>1, <2>2, <2>4, <2>5, <2>6, <2>7, <2>8, <2>9, <2>10, DeleteUserTakesAll DEF Next
<1> QED
  BY <1>1, <1>2, TypeCorrect, PTL DEF Spec

----------------------------------------------------------------------------
(* The five queries *)

\* An account and what the queries answer to it.
LEMMA QueriesAgree ==
    ASSUME TypeOK, NothingOfTheDeleted, NEW u \in accounts
    PROVE  /\ Accessible(u) = {p \in Pcs : OpenPc(u, p) # "missing"}
           /\ \A p \in Pcs, c \in campaigns :
                 p \in FindPcSummaries(c, u) /\ role[<<c, u>>] # "none" => CanUserAccess(u, p)
           /\ \A p \in Pcs : CanUserAccess(u, p) =>
                 \/ owner[p] = u
                 \/ \E c \in campaigns : role[<<c, u>>] # "none" /\ p \in FindPcSummaries(c, u)
<1>0. u \in Users /\ u # None
  BY PagesAssumption DEF TypeOK
<1>1. ASSUME NEW p \in Pcs, CanUserAccess(u, p)
      PROVE  PcExists(p)
  <2>1. CASE owner[p] = u
    BY <1>0, <2>1 DEF PcExists
  <2>2. ASSUME NEW c \in Campaigns, shown[<<c, p>>] # "none"
        PROVE  PcExists(p)
    BY <2>2 DEF NothingOfTheDeleted
  <2> QED
    BY <1>1, <2>1, <2>2 DEF CanUserAccess
<1>2. ASSUME NEW p \in Pcs
      PROVE  OpenPc(u, p) # "missing" <=> CanUserAccess(u, p)
  BY <1>1, <1>2 DEF OpenPc, Page
<1>3. Accessible(u) = {p \in Pcs : OpenPc(u, p) # "missing"}
  BY <1>2 DEF Accessible, CanUserAccess
<1>4. ASSUME NEW p \in Pcs, NEW c \in campaigns, p \in FindPcSummaries(c, u),
             role[<<c, u>>] # "none"
      PROVE  CanUserAccess(u, p)
  <2>1. c \in Campaigns /\ role[<<c, u>>] \in {"none", "player", "master"}
    BY <1>0 DEF TypeOK
  <2> QED
    BY <1>4, <2>1 DEF FindPcSummaries, Sees, CanUserAccess
<1>5. ASSUME NEW p \in Pcs, CanUserAccess(u, p), owner[p] # u
      PROVE  \E c \in campaigns : role[<<c, u>>] # "none" /\ p \in FindPcSummaries(c, u)
  <2>1. PICK c \in Campaigns :
          /\ shown[<<c, p>>] # "none" /\ role[<<c, u>>] # "none"
          /\ shown[<<c, p>>] = "visible" \/ role[<<c, u>>] = "master"
    BY <1>5 DEF CanUserAccess
  <2>2. c \in campaigns
    BY <1>0, <2>1 DEF NothingOfTheDeleted
  <2>3. p \in FindPcSummaries(c, u)
    BY <2>1 DEF FindPcSummaries, Sees
  <2> QED
    BY <2>1, <2>2, <2>3
<1> QED
  BY <1>3, <1>4, <1>5

\* The rows without orphans make the five queries agree.
LEMMA NoOrphansAgree ==
    ASSUME TypeOK, NothingOfTheDeleted
    PROVE  ListsAgree
<1> SUFFICES ASSUME NEW u \in accounts
             PROVE  LET memberOf == {c \in campaigns : role[<<c, u>>] # "none"}
                        own == {p \in Pcs : owner[p] = u}
                    IN  /\ Accessible(u) = {p \in Pcs : OpenPc(u, p) # "missing"}
                        /\ Accessible(u)
                              = own \cup UNION {FindPcSummaries(c, u) : c \in memberOf}
                        /\ \A c \in memberOf :
                              /\ FindPcSummaries(c, u)
                                    = {p \in Pcs : OpenCampaignPc(c, u, p) \in {"ok", "error"}}
                              /\ \A p \in FindPcSummaries(c, u) :
                                    OpenCampaignPc(c, u, p) = OpenPc(u, p)
                        /\ GlobalPcs(u) \subseteq own
                        /\ \A c \in campaigns, v \in Users :
                              GlobalPcs(u) \cap FindPcSummaries(c, v) = {}
                        /\ own \ GlobalPcs(u)
                              \subseteq UNION {FindPcSummaries(c, u) : c \in campaigns}
  BY DEF ListsAgree
<1> DEFINE memberOf == {c \in campaigns : role[<<c, u>>] # "none"}
           own == {p \in Pcs : owner[p] = u}
<1>0. campaigns \subseteq Campaigns /\ u \in Users
  BY DEF TypeOK
<1>1. Accessible(u) = {p \in Pcs : OpenPc(u, p) # "missing"}
  BY QueriesAgree
<1>2. Accessible(u) = {p \in Pcs : CanUserAccess(u, p)}
  BY DEF Accessible, CanUserAccess
<1>3. Accessible(u) = own \cup UNION {FindPcSummaries(c, u) : c \in memberOf}
  <2>1. ASSUME NEW p \in Pcs, CanUserAccess(u, p)
        PROVE  p \in own \cup UNION {FindPcSummaries(c, u) : c \in memberOf}
    BY <2>1, QueriesAgree
  <2>2. ASSUME NEW p, p \in own \cup UNION {FindPcSummaries(c, u) : c \in memberOf}
        PROVE  p \in Pcs /\ CanUserAccess(u, p)
    <3>1. CASE p \in own
      BY <3>1 DEF CanUserAccess
    <3>2. ASSUME NEW c \in memberOf, p \in FindPcSummaries(c, u)
          PROVE  p \in Pcs /\ CanUserAccess(u, p)
      <4>1. p \in Pcs
        BY <3>2 DEF FindPcSummaries
      <4> QED
        BY <3>2, <4>1, QueriesAgree
    <3> QED
      BY <2>2, <3>1, <3>2
  <2> QED
    BY <1>2, <2>1, <2>2
<1>4. ASSUME NEW c \in memberOf
      PROVE  /\ FindPcSummaries(c, u)
                   = {p \in Pcs : OpenCampaignPc(c, u, p) \in {"ok", "error"}}
             /\ \A p \in FindPcSummaries(c, u) : OpenCampaignPc(c, u, p) = OpenPc(u, p)
  <2>1. ASSUME NEW p \in Pcs
        PROVE  p \in FindPcSummaries(c, u) <=> IsPcInCampaign(c, u, p)
    BY <2>1 DEF FindPcSummaries, IsPcInCampaign
  <2>2. ASSUME NEW p \in Pcs, IsPcInCampaign(c, u, p)
        PROVE  PcExists(p) /\ CanUserAccess(u, p)
    <3>1. PcExists(p)
      BY <1>0, <2>2 DEF IsPcInCampaign, NothingOfTheDeleted
    <3> QED
      BY <2>1, <2>2, <3>1, QueriesAgree
  <2>3. ASSUME NEW p \in Pcs, IsPcInCampaign(c, u, p)
        PROVE  /\ OpenCampaignPc(c, u, p) \in {"ok", "error"}
               /\ OpenCampaignPc(c, u, p) = OpenPc(u, p)
    BY <2>2, <2>3 DEF OpenCampaignPc, OpenPc, Page
  <2>4. ASSUME NEW p \in Pcs, ~IsPcInCampaign(c, u, p)
        PROVE  OpenCampaignPc(c, u, p) \notin {"ok", "error"}
    BY <2>4 DEF OpenCampaignPc
  <2>5. FindPcSummaries(c, u) \subseteq Pcs
    BY DEF FindPcSummaries
  <2> QED
    BY <2>1, <2>3, <2>4, <2>5
<1>5. GlobalPcs(u) \subseteq own
  BY DEF GlobalPcs
<1>6. ASSUME NEW c \in campaigns, NEW v \in Users
      PROVE  GlobalPcs(u) \cap FindPcSummaries(c, v) = {}
  BY <1>0, <1>6 DEF GlobalPcs, FindPcSummaries, InCampaign
<1>7. own \ GlobalPcs(u) \subseteq UNION {FindPcSummaries(c, u) : c \in campaigns}
  <2>1. ASSUME NEW p \in own, p \notin GlobalPcs(u)
        PROVE  \E c \in campaigns : p \in FindPcSummaries(c, u)
    <3>1. PICK c \in Campaigns : shown[<<c, p>>] # "none"
      BY <2>1 DEF GlobalPcs, InCampaign
    <3>2. c \in campaigns
      BY <3>1 DEF NothingOfTheDeleted
    <3> QED
      BY <3>1, <3>2 DEF FindPcSummaries, Sees
  <2> QED
    BY <2>1
<1> QED
  BY <1>1, <1>3, <1>4, <1>5, <1>6, <1>7

\* Every account lists exactly the PCs that it can open, at either address.
THEOREM QueriesAlwaysAgree == Spec => []ListsAgree
BY NoOrphansAgree, TypeCorrect, DeletionIsComplete, PTL

----------------------------------------------------------------------------
(* Recursion along the jobs *)

\* A set of naturals has a least element: < is well founded on Nat.
LEMMA LeastNat ==
    ASSUME NEW T, T \subseteq Nat, T # {}
    PROVE  \E x \in T : \A y \in T : x <= y
<1>1. PICK x \in T : \A y \in T : ~ (<<y, x>> \in OpToRel(<, Nat))
  BY NatLessThanWellFounded, WFMin
<1>2. \A y \in T : ~ (y < x)
  BY <1>1 DEF OpToRel
<1> QED
  BY <1>2

\* Induction along 0..n, over a set: the set of places where a fact holds, if it has 0
\* and is closed under the next place, is all of 0..n.
LEMMA Upward ==
    ASSUME NEW n \in Nat, NEW T, T \subseteq 0..n, 0 \in T,
           \A i \in 1..n : i - 1 \in T => i \in T
    PROVE  T = 0..n
<1> SUFFICES ASSUME 0..n \ T # {}
             PROVE  FALSE
  OBVIOUS
<1> DEFINE U == 0..n \ T
<1>1. U \subseteq Nat /\ U # {}
  OBVIOUS
<1>2. PICK i \in U : \A y \in U : i <= y
  <2> HIDE DEF U
  <2> QED
    BY <1>1, LeastNat
<1>3. i \in 1..n /\ i - 1 \in 0..n /\ ~(i <= i - 1)
  BY <1>2
<1> QED
  BY <1>2, <1>3

\* A loop of n rounds from s0, whose round i is next[<<i, _>>], has values in S.
HasLoop(n, S, s0, next) ==
    \E f \in [0..n -> S] :
        f[0] = s0 /\ \A i \in 1..n : f[i] = next[<<i, f[i - 1]>>]

\* Every loop whose rounds stay in S has such values, one place after the other.
LEMMA LoopExists ==
    ASSUME NEW n \in Nat, NEW S, NEW s0 \in S, NEW next \in [(1..n) \X S -> S]
    PROVE  HasLoop(n, S, s0, next)
<1> DEFINE Total(f, k) == /\ f \in [0..k -> S]
                          /\ f[0] = s0
                          /\ \A i \in 1..k : f[i] = next[<<i, f[i - 1]>>]
           T == {k \in 0..n : \E f : Total(f, k)}
<1>1. 0 \in T
  <2>1. Total([i \in 0..0 |-> s0], 0)
    OBVIOUS
  <2>2. 0 \in 0..n
    OBVIOUS
  <2> HIDE DEF Total
  <2> QED
    BY <2>1, <2>2
<1>2. ASSUME NEW k \in 1..n, k - 1 \in T
      PROVE  k \in T
  <2>1. PICK f : Total(f, k - 1)
    BY <1>2
  <2> DEFINE g == [i \in 0..k |-> IF i = k THEN next[<<k, f[k - 1]>>] ELSE f[i]]
  <2>2. g[0] = s0 /\ g[k] = next[<<k, f[k - 1]>>] /\ g[k - 1] = f[k - 1]
    BY <2>1
  <2>3. g \in [0..k -> S]
    BY <2>1
  <2>4. \A i \in 1..k - 1 : g[i] = f[i] /\ g[i - 1] = f[i - 1]
    OBVIOUS
  <2>5. \A i \in 1..k : i = k \/ i \in 1..k - 1
    OBVIOUS
  <2>6. Total(g, k)
    <3> HIDE DEF g
    <3> QED
      BY <2>1, <2>2, <2>3, <2>4, <2>5
  <2>7. k \in 0..n
    OBVIOUS
  <2> HIDE DEF Total, g
  <2> QED
    BY <2>6, <2>7
<1>3. n \in T
  <2>1. T \subseteq 0..n
    OBVIOUS
  <2> HIDE DEF T
  <2>2. \A i \in 1..n : i - 1 \in T => i \in T
    BY <1>2
  <2>3. T = 0..n
    BY <1>1, <2>1, <2>2, Upward
  <2> QED
    BY <2>3
<1>4. PICK f : Total(f, n)
  BY <1>3
<1> QED
  BY <1>4 DEF HasLoop

\* What calculateCapacities sums up.
Totals == [hp_bonus : Int, mp_bonus : Int, ip_bonus : Int, allows : SUBSET Permissions]

\* One round of calculateCapacities makes totals of totals.
LEMMA AddJobType ==
    ASSUME NEW total \in Totals, NEW job \in JobRecords
    PROVE  AddJob(total, job) \in Totals
<1>1. HpBonus(job) \in Int /\ MpBonus(job) \in Int /\ job.ip_bonus \in Int
  BY DEF JobRecords, HpBonus, MpBonus
<1>2. total.allows \cup job.allows \in SUBSET Permissions
  BY DEF JobRecords, Totals
<1> QED
  BY <1>1, <1>2 DEF AddJob, Totals

\* The function that CapacitiesAfter defines by recursion exists, is what reduce computes
\* round by round, and has totals in every place.
LEMMA CapacitiesEquation ==
    ASSUME NEW jobs \in Seq(JobRecords)
    PROVE  /\ CapacitiesAfter(jobs)[0] = NoCapacities
           /\ \A i \in 1..Len(jobs) :
                 CapacitiesAfter(jobs)[i] = AddJob(CapacitiesAfter(jobs)[i - 1], jobs[i])
           /\ \A i \in 0..Len(jobs) : CapacitiesAfter(jobs)[i] \in Totals
<1> DEFINE n == Len(jobs)
           next == [x \in (1..n) \X Totals |-> AddJob(x[2], jobs[x[1]])]
           c == CapacitiesAfter(jobs)
<1>1. n \in Nat /\ \A i \in 1..n : jobs[i] \in JobRecords
  OBVIOUS
<1> HIDE DEF n
<1>2. NoCapacities \in Totals
  BY DEF NoCapacities, Totals
<1>3. next \in [(1..n) \X Totals -> Totals]
  BY <1>1, AddJobType
<1>4. PICK f \in [0..n -> Totals] :
        f[0] = NoCapacities /\ \A i \in 1..n : f[i] = next[<<i, f[i - 1]>>]
  <2>1. HasLoop(n, Totals, NoCapacities, next)
    <3> HIDE DEF next
    <3> QED
      BY <1>1, <1>2, <1>3, LoopExists
  <2> HIDE DEF next
  <2> QED
    BY <2>1 DEF HasLoop
<1>5. f = [i \in 0..n |-> IF i = 0 THEN NoCapacities ELSE AddJob(f[i - 1], jobs[i])]
  <2>1. \A i \in 1..n : next[<<i, f[i - 1]>>] = AddJob(f[i - 1], jobs[i])
    <3>1. \A i \in 1..n : f[i - 1] \in Totals
      BY <1>1
    <3> HIDE DEF AddJob
    <3> QED
      BY <3>1
  <2>2. \A i \in 0..n : f[i] = IF i = 0 THEN NoCapacities ELSE AddJob(f[i - 1], jobs[i])
    <3> HIDE DEF next, AddJob, NoCapacities
    <3>1. \A i \in 1..n : f[i] = AddJob(f[i - 1], jobs[i])
      BY <1>4, <2>1
    <3>2. \A i \in 0..n : i = 0 \/ (i # 0 /\ i \in 1..n)
      BY <1>1
    <3> QED
      BY <1>4, <3>1, <3>2
  <2> HIDE DEF AddJob, NoCapacities
  <2> QED
    BY <2>2
<1>6. c = [i \in 0..n |-> IF i = 0 THEN NoCapacities ELSE AddJob(c[i - 1], jobs[i])]
  BY <1>5 DEF CapacitiesAfter, n
<1> HIDE DEF c
<1>7. /\ c[0] = NoCapacities
      /\ \A i \in 1..n : c[i] = AddJob(c[i - 1], jobs[i])
  <2>1. \A i \in 0..n : c[i] = IF i = 0 THEN NoCapacities ELSE AddJob(c[i - 1], jobs[i])
    <3> HIDE DEF AddJob, NoCapacities
    <3> QED
      BY <1>6
  <2> HIDE DEF AddJob, NoCapacities
  <2> QED
    BY <1>1, <2>1
<1>8. \A i \in 0..n : c[i] \in Totals
  <2> DEFINE T == {i \in 0..n : c[i] \in Totals}
  <2>1. 0 \in T
    BY <1>1, <1>2, <1>7
  <2>2. ASSUME NEW i \in 1..n, i - 1 \in T
        PROVE  i \in T
    <3>1. c[i - 1] \in Totals /\ jobs[i] \in JobRecords /\ i \in 0..n
      BY <1>1, <2>2
    <3> QED
      BY <1>7, <3>1, AddJobType
  <2>3. T \subseteq 0..n
    OBVIOUS
  <2>4. T = 0..n
    <3> HIDE DEF T
    <3> QED
      BY <1>1, <2>1, <2>2, <2>3, Upward
  <2> QED
    BY <2>4
<1> QED
  BY <1>7, <1>8 DEF c, n

\* The same of the levels.
LEMMA LevelEquation ==
    ASSUME NEW jobs \in Seq(JobRecords)
    PROVE  /\ LevelAfter(jobs)[0] = 0
           /\ \A i \in 1..Len(jobs) :
                 LevelAfter(jobs)[i] = LevelAfter(jobs)[i - 1] + jobs[i].level
           /\ \A i \in 0..Len(jobs) : LevelAfter(jobs)[i] \in Int
<1> DEFINE n == Len(jobs)
           none == 0
           next == [x \in (1..n) \X Int |-> x[2] + jobs[x[1]].level]
           c == LevelAfter(jobs)
<1>1. n \in Nat /\ \A i \in 1..n : jobs[i].level \in Int
  <2>1. \A i \in 1..n : jobs[i] \in JobRecords
    OBVIOUS
  <2> QED
    BY <2>1 DEF JobRecords
<1> HIDE DEF n
<1>2. next \in [(1..n) \X Int -> Int]
  BY <1>1
<1>3. PICK f \in [0..n -> Int] :
        f[0] = none /\ \A i \in 1..n : f[i] = next[<<i, f[i - 1]>>]
  <2>1. HasLoop(n, Int, none, next)
    <3>1. none \in Int
      OBVIOUS
    <3> HIDE DEF next, none
    <3> QED
      BY <1>1, <1>2, <3>1, LoopExists
  <2> HIDE DEF next, none
  <2> QED
    BY <2>1 DEF HasLoop
<1>4. f = [i \in 0..n |-> IF i = 0 THEN 0 ELSE f[i - 1] + jobs[i].level]
  <2>1. ASSUME NEW i \in 1..n
        PROVE  f[i] = f[i - 1] + jobs[i].level
    <3>1. i - 1 \in 0..n
      BY <1>1
    <3>2. f[i - 1] \in Int
      BY <3>1
    <3>3. next[<<i, f[i - 1]>>] = f[i - 1] + jobs[i].level
      BY <3>2
    <3>4. f[i] = next[<<i, f[i - 1]>>]
      <4> HIDE DEF next
      <4> QED
        BY <1>3
    <3> HIDE DEF next
    <3> QED
      BY <3>3, <3>4
  <2>2. \A i \in 0..n : i = 0 \/ i \in 1..n
    BY <1>1
  <2>3. \A i \in 0..n : f[i] = IF i = 0 THEN 0 ELSE f[i - 1] + jobs[i].level
    BY <1>3, <2>1, <2>2
  <2> QED
    BY <2>3
<1>5. c = [i \in 0..n |-> IF i = 0 THEN 0 ELSE c[i - 1] + jobs[i].level]
  BY <1>4 DEF LevelAfter, n
<1> HIDE DEF c
<1>6. c[0] = 0 /\ \A i \in 1..n : c[i] = c[i - 1] + jobs[i].level
  <2>1. \A i \in 0..n : c[i] = IF i = 0 THEN 0 ELSE c[i - 1] + jobs[i].level
    BY <1>5
  <2> QED
    BY <1>1, <2>1
<1>7. \A i \in 0..n : c[i] \in Int
  <2> DEFINE T == {i \in 0..n : c[i] \in Int}
  <2>1. 0 \in T
    BY <1>1, <1>6
  <2>2. ASSUME NEW i \in 1..n, i - 1 \in T
        PROVE  i \in T
    <3>1. c[i - 1] \in Int /\ jobs[i].level \in Int /\ i \in 0..n
      BY <1>1, <2>2
    <3> QED
      BY <1>6, <3>1
  <2>3. T \subseteq 0..n
    OBVIOUS
  <2>4. T = 0..n
    <3> HIDE DEF T
    <3> QED
      BY <1>1, <2>1, <2>2, <2>3, Upward
  <2> QED
    BY <2>4
<1> QED
  BY <1>6, <1>7 DEF c, n

\* Two lists of jobs that are the same from place k on, and whose totals up to k
\* are the same but for d levels, have the same totals but for d levels.
LEMMA SameFrom ==
    ASSUME NEW a \in Seq(JobRecords), NEW b \in Seq(JobRecords), Len(a) = Len(b),
           NEW k \in 0..Len(a), NEW d \in Int, \A i \in k + 1..Len(a) : a[i] = b[i],
           CapacitiesAfter(b)[k] = CapacitiesAfter(a)[k],
           LevelAfter(b)[k] = LevelAfter(a)[k] + d
    PROVE  Capacities(b) = Capacities(a) /\ Level(b) = Level(a) + d
<1> DEFINE n == Len(a)
           T == {i \in 0..n : i >= k => /\ CapacitiesAfter(b)[i] = CapacitiesAfter(a)[i]
                                        /\ LevelAfter(b)[i] = LevelAfter(a)[i] + d}
<1>1. n \in Nat
  OBVIOUS
<1>2. 0 \in T
  BY <1>1
<1>3. ASSUME NEW i \in 1..n, i - 1 \in T
      PROVE  i \in T
  <2>1. CASE i <= k
    BY <1>1, <2>1
  <2>2. CASE i > k
    <3>1. /\ CapacitiesAfter(b)[i - 1] = CapacitiesAfter(a)[i - 1]
          /\ LevelAfter(b)[i - 1] = LevelAfter(a)[i - 1] + d
          /\ a[i] = b[i] /\ i \in 0..n /\ i - 1 \in 0..n
      BY <1>1, <1>3, <2>2
    <3>2. CapacitiesAfter(b)[i] = CapacitiesAfter(a)[i]
      BY <3>1, CapacitiesEquation
    <3>3. a[i].level \in Int
      <4>1. a[i] \in JobRecords
        OBVIOUS
      <4> QED
        BY <4>1 DEF JobRecords
    <3>4. LevelAfter(b)[i] = LevelAfter(a)[i] + d
      <4>1. LevelAfter(a)[i - 1] \in Int
        BY <3>1, LevelEquation
      <4>2. /\ LevelAfter(a)[i] = LevelAfter(a)[i - 1] + a[i].level
            /\ LevelAfter(b)[i] = LevelAfter(b)[i - 1] + b[i].level
        BY LevelEquation
      <4> QED
        BY <3>1, <3>3, <4>1, <4>2
    <3> QED
      BY <3>1, <3>2, <3>4
  <2> QED
    BY <1>1, <2>1, <2>2
<1>4. T \subseteq 0..n
  OBVIOUS
<1>5. T = 0..n
  <2> HIDE DEF T
  <2> QED
    BY <1>1, <1>2, <1>3, <1>4, Upward
<1>6. n \in T
  <2> HIDE DEF T
  <2> QED
    BY <1>1, <1>5
<1> QED
  BY <1>6 DEF Capacities, Level

----------------------------------------------------------------------------
(* The statistics *)

\* The totals of a list of jobs, and the numbers that depend on the dice and the hands.
LEMMA NumbersAreInt ==
    ASSUME NEW sheet \in SheetRecords
    PROVE  /\ (IF IsItem(sheet.armor) THEN DiceValue(sheet.armor.defense_dice, sheet)
                                      ELSE sheet.dexterity_die) \in Int
           /\ (IF IsItem(sheet.armor) THEN DiceValue(sheet.armor.magic_defense_dice, sheet)
                                      ELSE sheet.insight_die) \in Int
           /\ Level(sheet.jobs) \in Int /\ Capacities(sheet.jobs) \in Totals
           /\ sheet.might_die \in Int /\ sheet.willpower_die \in Int
           /\ DefenseBonus(sheet) \in Int /\ MagicDefenseBonus(sheet) \in Int
<1>1. sheet.jobs \in Seq(JobRecords)
  BY DEF SheetRecords
<1>2. Level(sheet.jobs) \in Int /\ Capacities(sheet.jobs) \in Totals
  <2>1. Len(sheet.jobs) \in 0..Len(sheet.jobs)
    BY <1>1
  <2> QED
    BY <1>1, <2>1, CapacitiesEquation, LevelEquation DEF Level, Capacities
<1>3. /\ sheet.dexterity_die \in Int /\ sheet.insight_die \in Int
      /\ sheet.might_die \in Int /\ sheet.willpower_die \in Int
  BY DEF SheetRecords
<1>4. DefenseBonus(sheet) \in Int /\ MagicDefenseBonus(sheet) \in Int
  BY DEF SheetRecords, ItemRecords, DefenseBonus, MagicDefenseBonus
<1>5. \A dice \in Dice : DiceValue(dice, sheet) \in Int
  <2>1. \A a \in Attributes : Die(sheet, a) \in Int
    BY <1>3 DEF Attributes, Die
  <2>2. \A dice \in Dice : /\ dice[1] = "attribute" => dice[2] \in Attributes
                           /\ dice[1] # "attribute" => dice[2] \in Int
    BY DEF Dice, Modifiers
  <2> QED
    BY <2>1, <2>2 DEF DiceValue
<1>6. sheet.armor.defense_dice \in Dice /\ sheet.armor.magic_defense_dice \in Dice
  BY DEF SheetRecords, ItemRecords
<1> QED
  BY <1>2, <1>3, <1>4, <1>5, <1>6

\* The jobs of a sheet count by their totals alone.
LEMMA JobsCountByTotals ==
    ASSUME NEW sheet \in SheetRecords, NEW jobs \in Seq(JobRecords), NEW d \in Int,
           Capacities(jobs) = Capacities(sheet.jobs), Level(jobs) = Level(sheet.jobs) + d
    PROVE  Stats([sheet EXCEPT !.jobs = jobs])
              = [Stats(sheet) EXCEPT !.level = @ + d, !.hp = @ + d, !.mp = @ + d]
<1> DEFINE other == [sheet EXCEPT !.jobs = jobs]
<1>1. /\ other.jobs = jobs
      /\ other.dexterity_die = sheet.dexterity_die /\ other.insight_die = sheet.insight_die
      /\ other.might_die = sheet.might_die /\ other.willpower_die = sheet.willpower_die
      /\ other.main_hand = sheet.main_hand /\ other.off_hand = sheet.off_hand
      /\ other.armor = sheet.armor /\ other.accessory = sheet.accessory
  BY DEF SheetRecords
<1> HIDE DEF other
<1>2. /\ DefenseBonus(other) = DefenseBonus(sheet)
      /\ MagicDefenseBonus(other) = MagicDefenseBonus(sheet)
      /\ Shield(other) = Shield(sheet)
  BY <1>1 DEF DefenseBonus, MagicDefenseBonus, Shield
<1>3. \A dice : DiceValue(dice, other) = DiceValue(dice, sheet)
  BY <1>1 DEF DiceValue, Die
<1>4. Defense(other) = Defense(sheet) /\ MagicDefense(other) = MagicDefense(sheet)
  BY <1>1, <1>2, <1>3 DEF Defense, MagicDefense
<1>5. /\ Level(sheet.jobs) \in Int
      /\ Capacities(sheet.jobs).hp_bonus \in Int /\ Capacities(sheet.jobs).mp_bonus \in Int
      /\ sheet.might_die \in Int /\ sheet.willpower_die \in Int
  BY NumbersAreInt DEF Totals
<1>6. Stats(other) = [Stats(sheet) EXCEPT !.level = @ + d, !.hp = @ + d, !.mp = @ + d]
  <2> DEFINE st == Stats(sheet)  ot == Stats(other)
  <2>1. /\ ot.level = st.level + d /\ ot.hp = st.hp + d /\ ot.mp = st.mp + d
        /\ ot.ip = st.ip /\ ot.initiative = st.initiative
        /\ ot.defense = st.defense /\ ot.magic_defense = st.magic_defense
    <3> DEFINE L == Level(sheet.jobs)  C == Capacities(sheet.jobs)
               might == sheet.might_die  will == sheet.willpower_die
    <3>1. /\ st.level = L /\ st.hp = L + 5 * might + C.hp_bonus
          /\ st.mp = L + 5 * will + C.mp_bonus
      BY DEF Stats
    <3>2. /\ ot.level = L + d /\ ot.hp = (L + d) + 5 * might + C.hp_bonus
          /\ ot.mp = (L + d) + 5 * will + C.mp_bonus
      BY <1>1 DEF Stats
    <3>3. /\ ot.ip = st.ip /\ ot.initiative = st.initiative
          /\ ot.defense = st.defense /\ ot.magic_defense = st.magic_defense
      BY <1>1, <1>2, <1>4 DEF Stats
    <3>4. L \in Int /\ C.hp_bonus \in Int /\ C.mp_bonus \in Int /\ might \in Int /\ will \in Int
      BY <1>5
    <3> HIDE DEF L, C, might, will, st, ot
    <3> QED
      BY <3>1, <3>2, <3>3, <3>4
  <2>2. /\ st = [level |-> st.level, hp |-> st.hp, mp |-> st.mp, ip |-> st.ip,
                initiative |-> st.initiative, defense |-> st.defense,
                magic_defense |-> st.magic_defense]
        /\ ot = [level |-> ot.level, hp |-> ot.hp, mp |-> ot.mp, ip |-> ot.ip,
                initiative |-> ot.initiative, defense |-> ot.defense,
                magic_defense |-> ot.magic_defense]
    BY DEF Stats
  <2> HIDE DEF st, ot
  <2>3. ot = [st EXCEPT !.level = @ + d, !.hp = @ + d, !.mp = @ + d]
    BY <2>1, <2>2
  <2> QED
    BY <2>3 DEF st, ot
<1> QED
  BY <1>6 DEF other

\* An item in the main hand adds its two bonuses.
LEMMA MainHandAlwaysAdds ==
    ASSUME NEW sheet \in SheetRecords
    PROVE  MainHandAdds(sheet)
<1> DEFINE other == [sheet EXCEPT !.main_hand = NoItem]
<1>1. /\ other.jobs = sheet.jobs
      /\ other.dexterity_die = sheet.dexterity_die /\ other.insight_die = sheet.insight_die
      /\ other.might_die = sheet.might_die /\ other.willpower_die = sheet.willpower_die
      /\ other.main_hand = NoItem /\ other.off_hand = sheet.off_hand
      /\ other.armor = sheet.armor /\ other.accessory = sheet.accessory
  BY DEF SheetRecords
<1> HIDE DEF other
<1>2. /\ sheet.main_hand \in ItemRecords /\ sheet.off_hand \in ItemRecords
      /\ sheet.armor \in ItemRecords /\ sheet.accessory \in ItemRecords
  BY DEF SheetRecords
<1>3. /\ DefenseBonus(other) = DefenseBonus(sheet) - sheet.main_hand.defense_bonus
      /\ MagicDefenseBonus(other)
            = MagicDefenseBonus(sheet) - sheet.main_hand.magic_defense_bonus
      /\ Shield(other) = Shield(sheet)
  BY <1>1, <1>2 DEF ItemRecords, NoItem, DefenseBonus, MagicDefenseBonus, Shield
<1>4. \A dice : DiceValue(dice, other) = DiceValue(dice, sheet)
  BY <1>1 DEF DiceValue, Die
<1>5. /\ Defense(other) = Defense(sheet) - sheet.main_hand.defense_bonus
      /\ MagicDefense(other) = MagicDefense(sheet) - sheet.main_hand.magic_defense_bonus
  <2>1. DefenseBonus(sheet) \in Int /\ MagicDefenseBonus(sheet) \in Int
    BY NumbersAreInt
  <2>3. sheet.main_hand.defense_bonus \in Int /\ sheet.main_hand.magic_defense_bonus \in Int
    BY <1>2 DEF ItemRecords
  <2> DEFINE base(s) == IF IsItem(s.armor) THEN DiceValue(s.armor.defense_dice, s)
                                           ELSE s.dexterity_die
             magic(s) == IF IsItem(s.armor) THEN DiceValue(s.armor.magic_defense_dice, s)
                                            ELSE s.insight_die
  <2>4. base(other) = base(sheet) /\ magic(other) = magic(sheet)
    BY <1>1, <1>4
  <2>5. base(sheet) \in Int /\ magic(sheet) \in Int
    BY NumbersAreInt
  <2>6. /\ Defense(sheet) = base(sheet) + DefenseBonus(sheet)
        /\ Defense(other) = base(other) + DefenseBonus(other)
        /\ MagicDefense(sheet) = magic(sheet) + MagicDefenseBonus(sheet)
        /\ MagicDefense(other) = magic(other) + MagicDefenseBonus(other)
    BY DEF Defense, MagicDefense
  <2> HIDE DEF base, magic
  <2> QED
    BY <1>3, <2>1, <2>3, <2>4, <2>5, <2>6
<1>6. Stats(other) = [Stats(sheet) EXCEPT
                         !.defense = @ - sheet.main_hand.defense_bonus,
                         !.magic_defense = @ - sheet.main_hand.magic_defense_bonus]
  <2> DEFINE st == Stats(sheet)  ot == Stats(other)
             m == sheet.main_hand
  <2>1. /\ ot.level = st.level /\ ot.hp = st.hp /\ ot.mp = st.mp
        /\ ot.ip = st.ip /\ ot.initiative = st.initiative
        /\ ot.defense = st.defense - m.defense_bonus
        /\ ot.magic_defense = st.magic_defense - m.magic_defense_bonus
    BY <1>1, <1>3, <1>5 DEF Stats
  <2>2. /\ st = [level |-> st.level, hp |-> st.hp, mp |-> st.mp, ip |-> st.ip,
                initiative |-> st.initiative, defense |-> st.defense,
                magic_defense |-> st.magic_defense]
        /\ ot = [level |-> ot.level, hp |-> ot.hp, mp |-> ot.mp, ip |-> ot.ip,
                initiative |-> ot.initiative, defense |-> ot.defense,
                magic_defense |-> ot.magic_defense]
    BY DEF Stats
  <2> HIDE DEF st, ot, m
  <2>3. ot = [st EXCEPT !.defense = @ - m.defense_bonus,
                        !.magic_defense = @ - m.magic_defense_bonus]
    BY <2>1, <2>2
  <2> QED
    BY <2>3 DEF st, ot, m
<1> QED
  BY <1>6 DEF other, MainHandAdds

\* The order of the first two jobs makes no difference.
LEMMA SwapKeepsStats ==
    ASSUME NEW sheet \in SheetRecords
    PROVE  Stats([sheet EXCEPT !.jobs = Swapped(@)]) = Stats(sheet)
<1> DEFINE a == sheet.jobs  b == Swapped(a)
<1>1. a \in Seq(JobRecords)
  BY DEF SheetRecords
<1>2. CASE Len(a) < 2
  <2>1. b = a
    BY <1>2 DEF Swapped
  <2> QED
    BY <2>1 DEF SheetRecords
<1>3. CASE Len(a) >= 2
  <2> HIDE DEF a
  <2>1. b = <<a[2], a[1]>> \o SubSeq(a, 3, Len(a))
    BY <1>1, <1>3 DEF Swapped
  <2>2. a[1] \in JobRecords /\ a[2] \in JobRecords
    BY <1>1, <1>3
  <2>3. /\ b \in Seq(JobRecords) /\ Len(b) = Len(a) /\ b[1] = a[2] /\ b[2] = a[1]
        /\ \A i \in 3..Len(a) : a[i] = b[i]
    <3> DEFINE t == SubSeq(a, 3, Len(a))  h == <<a[2], a[1]>>
    <3>1. /\ t \in Seq(JobRecords) /\ Len(t) = Len(a) - 2
          /\ \A i \in 1..Len(a) - 2 : t[i] = a[i + 2]
      <4>1. 3 \in Int /\ Len(a) \in Int /\ \A i \in 3..Len(a) : a[i] \in JobRecords
        BY <1>1
      <4>2. /\ SubSeq(a, 3, Len(a)) \in Seq(JobRecords)
            /\ Len(SubSeq(a, 3, Len(a))) = IF 3 <= Len(a) THEN Len(a) - 3 + 1 ELSE 0
            /\ \A i \in 1..Len(a) - 3 + 1 : SubSeq(a, 3, Len(a))[i] = a[3 + i - 1]
        BY <4>1, SubSeqProperties
      <4> HIDE DEF t
      <4>3. /\ t \in Seq(JobRecords)
            /\ Len(t) = IF 3 <= Len(a) THEN Len(a) - 3 + 1 ELSE 0
            /\ \A i \in 1..Len(a) - 3 + 1 : t[i] = a[3 + i - 1]
        BY <4>2 DEF t
      <4>4. Len(a) \in Nat /\ Len(a) >= 2
        BY <1>1, <1>3
      <4>5. Len(t) = Len(a) - 2
        <5>1. Len(t) = IF 3 <= Len(a) THEN Len(a) - 3 + 1 ELSE 0
          BY <4>3
        <5> DEFINE n == Len(a)
        <5> SUFFICES Len(t) = n - 2
          OBVIOUS
        <5>2. n \in Nat /\ n >= 2 /\ Len(t) = IF 3 <= n THEN n - 3 + 1 ELSE 0
          BY <4>4, <5>1
        <5> HIDE DEF n
        <5> QED
          BY <5>2
      <4>6. ASSUME NEW i \in 1..Len(a) - 2
            PROVE  t[i] = a[i + 2]
        <5>1. i \in 1..Len(a) - 3 + 1 /\ 3 + i - 1 = i + 2
          BY <4>4
        <5> QED
          BY <4>3, <5>1
      <4> QED
        BY <4>3, <4>5, <4>6
    <3>2. h \in Seq(JobRecords) /\ Len(h) = 2 /\ h[1] = a[2] /\ h[2] = a[1]
      BY <2>2
    <3> HIDE DEF t, h
    <3>3. /\ h \o t \in Seq(JobRecords) /\ Len(h \o t) = Len(a)
          /\ \A i \in 1..Len(a) : (h \o t)[i] = IF i <= 2 THEN h[i] ELSE t[i - 2]
      <4>1. /\ h \o t \in Seq(JobRecords)
            /\ Len(h \o t) = Len(h) + Len(t)
            /\ \A i \in 1..Len(h) + Len(t) :
                  (h \o t)[i] = IF i <= Len(h) THEN h[i] ELSE t[i - Len(h)]
        <5>1. h \in Seq(JobRecords)
          BY <3>2
        <5>2. t \in Seq(JobRecords)
          BY <3>1
        <5> QED
          BY <5>1, <5>2, ConcatProperties
      <4>2. Len(h) = 2 /\ Len(h) + Len(t) = Len(a)
        BY <1>1, <3>1, <3>2
      <4> QED
        BY <4>1, <4>2
    <3>4. \A i \in 3..Len(a) : (h \o t)[i] = a[i]
      <4> SUFFICES ASSUME NEW i \in 3..Len(a)
                   PROVE  (h \o t)[i] = a[i]
        OBVIOUS
      <4>1. i - 2 \in 1..Len(a) - 2 /\ (i - 2) + 2 = i /\ i \in 1..Len(a) /\ ~(i <= 2)
        BY <1>1
      <4> QED
        BY <3>1, <3>3, <4>1
    <3>5. b = h \o t
      BY <2>1 DEF h, t
    <3> HIDE DEF b
    <3> QED
      BY <1>1, <1>3, <3>2, <3>3, <3>4, <3>5
  <2> HIDE DEF b
  <2>4. CapacitiesAfter(b)[2] = CapacitiesAfter(a)[2]
    <3>1. /\ CapacitiesAfter(a)[2] = AddJob(AddJob(NoCapacities, a[1]), a[2])
          /\ CapacitiesAfter(b)[2] = AddJob(AddJob(NoCapacities, a[2]), a[1])
      <4>1. 1 \in 1..Len(a) /\ 2 \in 1..Len(a) /\ 2 - 1 = 1 /\ 1 - 1 = 0
        BY <1>1, <1>3
      <4>2. /\ CapacitiesAfter(a)[1] = AddJob(NoCapacities, a[1])
            /\ CapacitiesAfter(b)[1] = AddJob(NoCapacities, a[2])
        BY <1>1, <2>3, <4>1, CapacitiesEquation
      <4>3. /\ CapacitiesAfter(a)[2] = AddJob(CapacitiesAfter(a)[1], a[2])
            /\ CapacitiesAfter(b)[2] = AddJob(CapacitiesAfter(b)[1], a[1])
        BY <1>1, <2>3, <4>1, CapacitiesEquation
      <4> QED
        BY <4>2, <4>3
    <3>2. \A job \in JobRecords :
             HpBonus(job) \in Int /\ MpBonus(job) \in Int /\ job.ip_bonus \in Int
      BY DEF JobRecords, HpBonus, MpBonus
    <3>3. ASSUME NEW x \in JobRecords, NEW y \in JobRecords
          PROVE  AddJob(AddJob(NoCapacities, x), y)
                    = [hp_bonus |-> HpBonus(x) + HpBonus(y), mp_bonus |-> MpBonus(x) + MpBonus(y),
                       ip_bonus |-> x.ip_bonus + y.ip_bonus, allows |-> x.allows \cup y.allows]
      <4>1. /\ 0 + HpBonus(x) = HpBonus(x) /\ 0 + MpBonus(x) = MpBonus(x)
            /\ 0 + x.ip_bonus = x.ip_bonus /\ {} \cup x.allows = x.allows
        BY <3>2
      <4>2. AddJob(NoCapacities, x)
               = [hp_bonus |-> HpBonus(x), mp_bonus |-> MpBonus(x),
                  ip_bonus |-> x.ip_bonus, allows |-> x.allows]
        BY <4>1 DEF AddJob, NoCapacities
      <4> QED
        BY <4>2 DEF AddJob
    <3>4. /\ HpBonus(a[1]) + HpBonus(a[2]) = HpBonus(a[2]) + HpBonus(a[1])
          /\ MpBonus(a[1]) + MpBonus(a[2]) = MpBonus(a[2]) + MpBonus(a[1])
          /\ a[1].ip_bonus + a[2].ip_bonus = a[2].ip_bonus + a[1].ip_bonus
          /\ a[1].allows \cup a[2].allows = a[2].allows \cup a[1].allows
      BY <2>2, <3>2
    <3>5. AddJob(AddJob(NoCapacities, a[1]), a[2])
             = [hp_bonus |-> HpBonus(a[1]) + HpBonus(a[2]),
                mp_bonus |-> MpBonus(a[1]) + MpBonus(a[2]),
                ip_bonus |-> a[1].ip_bonus + a[2].ip_bonus,
                allows |-> a[1].allows \cup a[2].allows]
      BY <2>2, <3>3
    <3>6. AddJob(AddJob(NoCapacities, a[2]), a[1])
             = [hp_bonus |-> HpBonus(a[2]) + HpBonus(a[1]),
                mp_bonus |-> MpBonus(a[2]) + MpBonus(a[1]),
                ip_bonus |-> a[2].ip_bonus + a[1].ip_bonus,
                allows |-> a[2].allows \cup a[1].allows]
      BY <2>2, <3>3
    <3> QED
      BY <3>1, <3>4, <3>5, <3>6
  <2>5. LevelAfter(b)[2] = LevelAfter(a)[2] + 0
    <3>1. a[1].level \in Int /\ a[2].level \in Int
      BY <2>2 DEF JobRecords
    <3>2. 1 \in 1..Len(a) /\ 2 \in 1..Len(a) /\ 2 - 1 = 1 /\ 1 - 1 = 0
      BY <1>1, <1>3
    <3>3. /\ LevelAfter(a)[1] = 0 + a[1].level /\ LevelAfter(b)[1] = 0 + a[2].level
      BY <1>1, <2>3, <3>2, LevelEquation
    <3>4. /\ LevelAfter(a)[2] = LevelAfter(a)[1] + a[2].level
          /\ LevelAfter(b)[2] = LevelAfter(b)[1] + a[1].level
      BY <1>1, <2>3, <3>2, LevelEquation
    <3> QED
      BY <3>1, <3>3, <3>4
  <2>6. Capacities(b) = Capacities(a) /\ Level(b) = Level(a) + 0
    <3>1. 2 \in 0..Len(a) /\ 0 \in Int /\ \A i \in 2 + 1..Len(a) : a[i] = b[i]
      BY <1>1, <1>3, <2>3
    <3> QED
      BY <1>1, <2>3, <2>4, <2>5, <3>1, SameFrom
  <2>7. Stats([sheet EXCEPT !.jobs = b])
           = [Stats(sheet) EXCEPT !.level = @ + 0, !.hp = @ + 0, !.mp = @ + 0]
    <3>1. 0 \in Int /\ b \in Seq(JobRecords)
      BY <2>3
    <3>2. Capacities(b) = Capacities(sheet.jobs) /\ Level(b) = Level(sheet.jobs) + 0
      BY <2>6 DEF a
    <3> QED
      BY <3>1, <3>2, JobsCountByTotals, Zenon
  <2>8. [Stats(sheet) EXCEPT !.level = @ + 0, !.hp = @ + 0, !.mp = @ + 0] = Stats(sheet)
    <3>1. Stats(sheet).level \in Int /\ Stats(sheet).hp \in Int /\ Stats(sheet).mp \in Int
      BY NumbersAreInt DEF Stats, Totals
    <3>2. /\ Stats(sheet).level + 0 = Stats(sheet).level /\ Stats(sheet).hp + 0 = Stats(sheet).hp
          /\ Stats(sheet).mp + 0 = Stats(sheet).mp
      BY <3>1
    <3>3. [Stats(sheet) EXCEPT !.level = Stats(sheet).level, !.hp = Stats(sheet).hp,
                               !.mp = Stats(sheet).mp] = Stats(sheet)
      BY DEF Stats
    <3> QED
      BY <3>2, <3>3
  <2> QED
    BY <2>7, <2>8 DEF a, b
<1> QED
  BY <1>1, <1>2, <1>3

\* What one job allows stays allowed.
LEMMA PermissionsStay ==
    ASSUME NEW jobs \in Seq(JobRecords), NEW k \in DOMAIN jobs
    PROVE  jobs[k].allows \subseteq Capacities(jobs).allows
<1> DEFINE n == Len(jobs)
           T == {i \in 0..n : i >= k => jobs[k].allows \subseteq CapacitiesAfter(jobs)[i].allows}
<1>1. n \in Nat /\ k \in 1..n
  OBVIOUS
<1>2. 0 \in T
  BY <1>1
<1>3. ASSUME NEW i \in 1..n, i - 1 \in T
      PROVE  i \in T
  <2>1. CapacitiesAfter(jobs)[i] = AddJob(CapacitiesAfter(jobs)[i - 1], jobs[i])
    BY CapacitiesEquation
  <2>2. CapacitiesAfter(jobs)[i].allows
           = CapacitiesAfter(jobs)[i - 1].allows \cup jobs[i].allows
    BY <2>1 DEF AddJob
  <2>3. i = k \/ i < k \/ i - 1 >= k
    BY <1>1
  <2>4. i \in 0..n
    BY <1>1
  <2> QED
    BY <1>1, <1>3, <2>2, <2>3, <2>4
<1>4. T \subseteq 0..n
  OBVIOUS
<1>5. T = 0..n
  <2> HIDE DEF T
  <2> QED
    BY <1>1, <1>2, <1>3, <1>4, Upward
<1>6. n \in T
  <2> HIDE DEF T
  <2> QED
    BY <1>1, <1>5
<1> QED
  BY <1>1, <1>6 DEF Capacities

\* A level gained is a level, a hit point and a mind point more.
LEMMA LevelsAlwaysCountOnce ==
    ASSUME NEW sheet \in SheetRecords
    PROVE  LevelsCountOnce(sheet)
<1> DEFINE a == sheet.jobs
           job == [a[1] EXCEPT !.level = @ + 1]
           b == [a EXCEPT ![1] = job]
<1> SUFFICES ASSUME a # <<>>
             PROVE  Stats([sheet EXCEPT !.jobs[1].level = @ + 1])
                       = [Stats(sheet) EXCEPT !.level = @ + 1, !.hp = @ + 1, !.mp = @ + 1]
  BY DEF LevelsCountOnce
<1>1. a \in Seq(JobRecords)
  BY DEF SheetRecords
<1>2. [sheet EXCEPT !.jobs[1].level = @ + 1] = [sheet EXCEPT !.jobs = b]
  OBVIOUS
<1> HIDE DEF a
<1>3. Len(a) \in Nat /\ Len(a) >= 1 /\ a[1] \in JobRecords
  BY <1>1
<1>4. job \in JobRecords
  BY <1>3 DEF JobRecords
<1>5. /\ job.level = a[1].level + 1 /\ HpBonus(job) = HpBonus(a[1])
      /\ MpBonus(job) = MpBonus(a[1]) /\ job.ip_bonus = a[1].ip_bonus
      /\ job.allows = a[1].allows /\ a[1].level \in Int
  BY <1>3 DEF JobRecords, HpBonus, MpBonus
<1> HIDE DEF job
<1>6. /\ b \in Seq(JobRecords) /\ Len(b) = Len(a) /\ b[1] = job
      /\ \A i \in 2..Len(a) : a[i] = b[i]
  BY <1>1, <1>3, <1>4
<1> HIDE DEF b
<1>7. 1 \in 1..Len(a) /\ 1 - 1 = 0
  BY <1>3
<1>8. CapacitiesAfter(b)[1] = CapacitiesAfter(a)[1]
  <2>1. /\ CapacitiesAfter(a)[1] = AddJob(NoCapacities, a[1])
        /\ CapacitiesAfter(b)[1] = AddJob(NoCapacities, job)
    BY <1>1, <1>6, <1>7, CapacitiesEquation
  <2> QED
    BY <1>5, <2>1 DEF AddJob
<1>9. LevelAfter(b)[1] = LevelAfter(a)[1] + 1
  <2>1. LevelAfter(a)[1] = 0 + a[1].level /\ LevelAfter(b)[1] = 0 + job.level
    BY <1>1, <1>6, <1>7, LevelEquation
  <2> QED
    BY <1>5, <2>1
<1>10. Capacities(b) = Capacities(a) /\ Level(b) = Level(a) + 1
  <2>1. 1 \in 0..Len(a) /\ 1 \in Int /\ \A i \in 1 + 1..Len(a) : a[i] = b[i]
    BY <1>3, <1>6
  <2> QED
    BY <1>1, <1>6, <1>8, <1>9, <2>1, SameFrom
<1>11. Stats([sheet EXCEPT !.jobs = b])
          = [Stats(sheet) EXCEPT !.level = @ + 1, !.hp = @ + 1, !.mp = @ + 1]
  <2>1. 1 \in Int /\ b \in Seq(JobRecords)
    BY <1>6
  <2>2. Capacities(b) = Capacities(sheet.jobs) /\ Level(b) = Level(sheet.jobs) + 1
    BY <1>10 DEF a
  <2> QED
    BY <2>1, <2>2, JobsCountByTotals, Zenon
<1> QED
  BY <1>2, <1>11

\* The four facts, of any sheet.
LEMMA EverySheetBehaves ==
    ASSUME NEW sheet \in SheetRecords
    PROVE  Behaves(sheet)
<1>1. sheet.jobs \in Seq(JobRecords)
  BY DEF SheetRecords
<1>2. \A i \in DOMAIN sheet.jobs : sheet.jobs[i].allows \subseteq Capacities(sheet.jobs).allows
  BY <1>1, PermissionsStay
<1> QED
  BY <1>2, SwapKeepsStats, LevelsAlwaysCountOnce, MainHandAlwaysAdds DEF Behaves

\* The statistics of every page that opens, whatever is edited, worn or deleted.
THEOREM StatsAlwaysBehave == Spec => []StatsBehave
<1>1. NoItem \in ItemRecords
  BY DEF NoItem, ItemRecords, Modifiers, Dice
<1>2. TypeOK => StatsBehave
  <2> SUFFICES ASSUME TypeOK
               PROVE  StatsBehave
    OBVIOUS
  <2>1. ASSUME NEW p \in Pcs
        PROVE  Sheet(p) \in SheetRecords
    <3> DEFINE worn == IF armor[p] = None THEN NoItem ELSE item[armor[p]]
    <3>1. worn \in ItemRecords
      BY <1>1, PagesAssumption DEF TypeOK
    <3> HIDE DEF worn
    <3>2. [BaseSheet EXCEPT !.armor = worn] \in SheetRecords
      BY <3>1, PagesAssumption DEF SheetRecords
    <3> QED
      BY <3>2 DEF worn, Sheet
  <2>2. \A sheet \in {Sheet(p) : p \in {q \in Pcs : Page(q) = "ok"}} : Behaves(sheet)
    BY <2>1, EverySheetBehaves
  <2>3. SamplesBehave
    BY EverySheetBehaves, PagesAssumption DEF SamplesBehave
  <2> QED
    BY <2>2, <2>3 DEF StatsBehave
<1> QED
  BY <1>2, TypeCorrect, PTL
=============================================================================
