-------------------------- MODULE Accounts_proofs --------------------------
(***************************************************************************)
(* Proofs about Accounts: an id means one account for ever, and a login    *)
(* whose accounts nobody touches reads the same account twice.             *)
(***************************************************************************)
EXTENDS Accounts, TLAPS

\* A token whose account is still there was issued for that very row.
Remembered ==
    \A t \in tokens :
        /\ t.sub <= lastId
        /\ t.sub \in DOMAIN users => users[t.sub] = t.row

\* Whoever is found under the identifier of an undisturbed login has the
\* password that was checked.
Steady ==
    \A r \in Requests, x \in Names :
        At(r, "login:user") /\ request[r].identifier = x /\ ~request[r].disturbed =>
            \A i \in Matches(x) : users[i].password = request[r].password

\* A login that is about to read the row was given an identifier and a password.
Given ==
    \A r \in Requests :
        At(r, "login:user") => /\ request[r].identifier \in Names
                               /\ request[r].password \in Passwords

IInv == Remembered /\ Steady /\ Given /\ LoginProvesPassword

Inv == TypeOK /\ IInv

USE AccountsAssumption

----------------------------------------------------------------------------
(* Lemmas about the rows *)

\* At most one account is found under an identifier.
LEMMA OneMatch ==
    ASSUME TypeOK, NEW x, NEW i \in Matches(x), NEW j \in Matches(x)
    PROVE  i = j
BY DEF TypeOK, Matches, ByEmail, ByNickname

\* A row and the request that is history of it keep their types.
LEMMA IdleIsRecord == Idle \in RequestRecord
BY DEF Idle, RequestRecord, Ids

\* Marking the logins as disturbed keeps the type of the requests.
LEMMA DisturbedType ==
    ASSUME TypeOK, NEW names
    PROVE  /\ Disturbed(names) \in [Requests -> RequestRecord]
           /\ \A r \in Requests :
                 /\ Disturbed(names)[r].next = request[r].next
                 /\ Disturbed(names)[r].identifier = request[r].identifier
                 /\ Disturbed(names)[r].password = request[r].password
                 /\ Disturbed(names)[r].disturbed \in BOOLEAN
                 /\ request[r].disturbed => Disturbed(names)[r].disturbed
                 /\ request[r].next = "login:user" /\ request[r].identifier \in names
                       => Disturbed(names)[r].disturbed
<1>1. ASSUME NEW r \in Requests
      PROVE  LET q == Disturbed(names)[r] IN
             /\ q \in RequestRecord
             /\ q.next = request[r].next /\ q.identifier = request[r].identifier
             /\ q.password = request[r].password /\ q.disturbed \in BOOLEAN
             /\ request[r].disturbed => q.disturbed
             /\ request[r].next = "login:user" /\ request[r].identifier \in names => q.disturbed
  <2> DEFINE q == Disturbed(names)[r]
  <2>1. request[r] \in RequestRecord
    BY DEF TypeOK
  <2>2. CASE request[r].next = "login:user" /\ request[r].identifier \in names
    <3>1. q = [request[r] EXCEPT !.disturbed = TRUE]
      BY <2>2 DEF Disturbed
    <3>. QED  BY <2>1, <3>1 DEF RequestRecord
  <2>3. CASE ~(request[r].next = "login:user" /\ request[r].identifier \in names)
    <3>1. q = request[r]
      BY <2>3 DEF Disturbed
    <3>. QED  BY <2>1, <2>3, <3>1 DEF RequestRecord
  <2>. QED  BY <2>2, <2>3
<1>2. Disturbed(names) = [r \in Requests |-> Disturbed(names)[r]]
  BY DEF Disturbed
<1>. QED  BY <1>1, <1>2

----------------------------------------------------------------------------
(* The invariant is inductive *)

\* In the empty database there is nothing to get wrong.
LEMMA InitInv == Init => Inv
BY IdleIsRecord
DEF Init, Inv, IInv, TypeOK, Remembered, Steady, Given, LoginProvesPassword, Account, Token, At, Idle

\* INSERT INTO users: the new id was never used, and a login that the new row
\* could have confused is marked.
LEMMA InsertInv ==
    ASSUME Inv, NEW e \in Emails, NEW n \in Names, NEW p \in Passwords, NEW super \in BOOLEAN,
           InsertUser(e, n, p, super)
    PROVE  Inv'
<1> DEFINE new == [email |-> e, nickname |-> n, password |-> p, is_super_user |-> super]
<1> USE DEF Inv
<1>1. /\ lastId' = lastId + 1 /\ lastId' \in Ids
      /\ DOMAIN users' = DOMAIN users \cup {lastId'}
      /\ lastId' \notin DOMAIN users
      /\ \A i \in DOMAIN users : users'[i] = users[i]
      /\ users'[lastId'] = new
      /\ now' = now /\ tokens' = tokens /\ request' = Disturbed({e, n})
  BY DEF InsertUser, NewId, TypeOK, Ids
<1>2. /\ \A i \in DOMAIN users : users[i].email # e /\ users[i].nickname # n
  BY DEF InsertUser, Insertable, ByEmail, ByNickname
<1>3. new \in Account
  BY DEF Account
<1>4. TypeOK'
  <2>1. users' \in [DOMAIN users' -> Account]
    <3>1. users' = [i \in DOMAIN users' |-> users'[i]]
      BY DEF InsertUser
    <3>2. \A i \in DOMAIN users' : users'[i] \in Account
      BY <1>1, <1>3 DEF TypeOK
    <3>. QED  BY <3>1, <3>2
  <2>2. DOMAIN users' \subseteq 1..lastId' /\ lastId' \in 0..MaxId
    BY <1>1 DEF TypeOK, Ids
  <2>3. request' \in [Requests -> RequestRecord]
    BY <1>1, DisturbedType
  <2>4. \A i, j \in DOMAIN users' :
            users'[i].email = users'[j].email \/ users'[i].nickname = users'[j].nickname => i = j
    BY <1>1, <1>2 DEF TypeOK
  <2>. QED  BY <1>1, <2>1, <2>2, <2>3, <2>4 DEF TypeOK
<1>5. Remembered'
  BY <1>1 DEF Remembered, IInv, TypeOK, Token, Ids
<1>6. Steady'
  <2> SUFFICES ASSUME NEW r \in Requests, NEW x \in Names, request'[r].next = "login:user",
                      request'[r].identifier = x, ~request'[r].disturbed,
                      NEW i \in Matches(x)'
               PROVE  users'[i].password = request'[r].password
    BY DEF Steady, At
  <2>1. /\ request[r].next = "login:user" /\ ~request[r].disturbed
        /\ request[r].identifier = x /\ request'[r].password = request[r].password
        /\ x # e /\ x # n
    BY <1>1, DisturbedType
  <2>2. ByEmail(x)' = ByEmail(x) /\ ByNickname(x)' = ByNickname(x)
    BY <1>1, <2>1 DEF ByEmail, ByNickname
  <2>3. i \in Matches(x) /\ i \in DOMAIN users
    BY <2>1, <2>2 DEF Matches, ByEmail, ByNickname
  <2>. QED  BY <1>1, <2>1, <2>3 DEF IInv, Steady, At
<1>7. LoginProvesPassword'
  BY <1>1 DEF IInv, LoginProvesPassword
<1>8. Given'
  BY <1>1, DisturbedType DEF IInv, Given, At
<1>. QED  BY <1>4, <1>5, <1>6, <1>7, <1>8 DEF IInv

\* The first read of a login: the hash belongs to the only account under the
\* identifier.
LEMMA LoginHashInv ==
    ASSUME Inv, NEW r \in Requests, NEW x \in Names, NEW p \in Passwords, LoginHash(r, x, p)
    PROVE  Inv'
<1> USE DEF Inv
<1> DEFINE q == [next |-> "login:user", identifier |-> x, password |-> p, id |-> 0,
                 disturbed |-> FALSE]
<1>1. /\ request' = [request EXCEPT ![r] = q]
      /\ users' = users /\ lastId' = lastId /\ now' = now /\ tokens' = tokens
      /\ p \in FindPasswordHashByIdentifier(x)
  BY DEF LoginHash, VerifyPassword, Start
<1>2. q \in RequestRecord
  BY DEF RequestRecord
<1>3. TypeOK'
  BY <1>1, <1>2 DEF TypeOK
<1>4. Remembered' /\ LoginProvesPassword'
  BY <1>1 DEF IInv, Remembered, LoginProvesPassword
<1>5. Matches(x)' = Matches(x) /\ \A y : Matches(y)' = Matches(y)
  BY <1>1 DEF Matches, ByEmail, ByNickname
<1>6. \A i \in Matches(x) : users[i].password = p
  BY <1>1, OneMatch DEF FindPasswordHashByIdentifier
<1>7. Steady'
  <2> SUFFICES ASSUME NEW s \in Requests, NEW y \in Names, request'[s].next = "login:user",
                      request'[s].identifier = y, ~request'[s].disturbed,
                      NEW i \in Matches(y)'
               PROVE  users'[i].password = request'[s].password
    BY DEF Steady, At
  <2>1. CASE s = r
    <3>1. y = x /\ request'[s].password = p
      BY <1>1, <2>1 DEF TypeOK
    <3>2. i \in Matches(x)
      BY <1>5, <3>1
    <3>. QED  BY <1>1, <1>6, <3>1, <3>2
  <2>2. CASE s # r
    <3>1. request'[s] = request[s]
      BY <1>1, <2>2 DEF TypeOK
    <3>2. i \in Matches(y)
      BY <1>5, <3>1
    <3>. QED  BY <1>1, <3>1, <3>2 DEF IInv, Steady, At
  <2>. QED  BY <2>1, <2>2
<1>8. Given'
  BY <1>1 DEF TypeOK, IInv, Given, At
<1>. QED  BY <1>3, <1>4, <1>7, <1>8 DEF IInv

\* A request that ends, or starts something other than a login, leaves the
\* promises about the others alone.
LEMMA OthersStaySteady ==
    ASSUME TypeOK, Steady, Given, NEW r \in Requests, NEW q \in RequestRecord,
           request' = [request EXCEPT ![r] = q], q.next # "login:user", users' = users
    PROVE  Steady' /\ Given' /\ request' \in [Requests -> RequestRecord]
<1>1. request' \in [Requests -> RequestRecord]
  BY DEF TypeOK
<1>2. Steady'
  <2> SUFFICES ASSUME NEW s \in Requests, NEW x \in Names, request'[s].next = "login:user",
                      request'[s].identifier = x, ~request'[s].disturbed,
                      NEW i \in Matches(x)'
               PROVE  users'[i].password = request'[s].password
    BY DEF Steady, At
  <2>1. s # r /\ request'[s] = request[s]
    BY DEF TypeOK
  <2>2. i \in Matches(x)
    BY DEF Matches, ByEmail, ByNickname
  <2>. QED  BY <2>1, <2>2 DEF Steady, At
<1>3. Given'
  BY DEF TypeOK, Given, At
<1>. QED  BY <1>1, <1>2, <1>3

\* The second read: the token is for the row that is there now.
LEMMA LoginUserInv ==
    ASSUME Inv, NEW r \in Requests, LoginUser(r)
    PROVE  Inv'
<1> USE DEF Inv
<1> DEFINE q == request[r]
<1>1. /\ request' = [request EXCEPT ![r] = Idle] /\ q.next = "login:user"
      /\ users' = users /\ lastId' = lastId /\ now' = now
      /\ q \in RequestRecord /\ now \in 0..MaxTime
  BY DEF LoginUser, Finish, At, TypeOK
<1>2. Steady' /\ Given' /\ request' \in [Requests -> RequestRecord]
  BY <1>1, IdleIsRecord, OthersStaySteady DEF IInv, Idle
<1>3. CASE tokens' = tokens
  BY <1>1, <1>2, <1>3 DEF TypeOK, IInv, Remembered, LoginProvesPassword
<1>4. ASSUME NEW id \in FindByIdentifier(q.identifier),
             tokens' = tokens \cup {SignJwt(id, q.password, q.disturbed)}
      PROVE  Inv'
  <2> DEFINE t == SignJwt(id, q.password, q.disturbed)
  <2>1. id \in DOMAIN users /\ id \in Matches(q.identifier)
    BY DEF FindByIdentifier, Matches, ByEmail, ByNickname
  <2>2. id \in Ids /\ id <= lastId /\ users[id] \in Account
    BY <2>1 DEF TypeOK, Ids
  <2>3. /\ t.sub = id /\ t.row = users[id] /\ t.password = q.password
        /\ t.disturbed = q.disturbed
    BY DEF SignJwt
  <2>4. q.password \in Passwords
    BY <1>1 DEF IInv, Given, At
  <2>5. t \in Token
    BY <1>1, <2>2, <2>4 DEF SignJwt, Token, RequestRecord
  <2>6. ~q.disturbed => users[id].password = q.password
    BY <1>1, <2>1 DEF IInv, Steady, Given, At
  <2>7. TypeOK'
    BY <1>1, <1>2, <1>4, <2>5 DEF TypeOK
  <2>8. Remembered'
    BY <1>1, <1>4, <2>2, <2>3 DEF IInv, Remembered
  <2>9. LoginProvesPassword'
    BY <1>4, <2>3, <2>6 DEF IInv, LoginProvesPassword
  <2>. QED  BY <1>2, <2>7, <2>8, <2>9 DEF IInv
<1>. QED  BY <1>3, <1>4 DEF LoginUser

\* DELETE FROM users: a login by one of its identifiers is marked, and no id
\* comes back.
LEMMA DeleteInv ==
    ASSUME Inv, NEW r \in Requests, DeleteWrite(r)
    PROVE  Inv'
<1> USE DEF Inv
<1> DEFINE gone == request[r].id
           names == UNION {{users[i].email, users[i].nickname} : i \in DOMAIN users \cap {gone}}
<1>1. /\ request' = [Disturbed(names) EXCEPT ![r] = Idle]
      /\ lastId' = lastId /\ now' = now /\ tokens' = tokens
      /\ users' = [i \in DOMAIN users \ {gone} |-> users[i]]
  BY DEF DeleteWrite
<1>2. /\ DOMAIN users' = DOMAIN users \ {gone}
      /\ \A i \in DOMAIN users' : users'[i] = users[i]
  BY <1>1
<1>3. TypeOK'
  <2>1. users' \in [DOMAIN users' -> Account]
    BY <1>1, <1>2 DEF TypeOK
  <2>2. request' \in [Requests -> RequestRecord]
    BY <1>1, DisturbedType, IdleIsRecord
  <2>. QED  BY <1>1, <1>2, <2>1, <2>2 DEF TypeOK
<1>4. Remembered' /\ LoginProvesPassword'
  BY <1>1, <1>2 DEF IInv, Remembered, LoginProvesPassword
<1>5. ASSUME NEW s \in Requests, request'[s].next = "login:user"
      PROVE  /\ request'[s] = Disturbed(names)[s] /\ request[s].next = "login:user"
             /\ request'[s].identifier = request[s].identifier
             /\ request'[s].password = request[s].password
             /\ request[s].disturbed => request'[s].disturbed
             /\ request[s].identifier \in names => request'[s].disturbed
  <2>1. s # r /\ request'[s] = Disturbed(names)[s]
    BY <1>1, <1>5, DisturbedType DEF Idle
  <2>. QED  BY <1>5, <2>1, DisturbedType
<1>6. Steady'
  <2> SUFFICES ASSUME NEW s \in Requests, NEW x \in Names, request'[s].next = "login:user",
                      request'[s].identifier = x, ~request'[s].disturbed,
                      NEW i \in Matches(x)'
               PROVE  users'[i].password = request'[s].password
    BY DEF Steady, At
  <2>1. /\ request[s].next = "login:user" /\ ~request[s].disturbed /\ x \notin names
        /\ request[s].identifier = x /\ request'[s].password = request[s].password
    <3>1. request[s].disturbed \in BOOLEAN
      BY DEF TypeOK, RequestRecord
    <3>. QED  BY <1>5, <3>1
  <2>2. gone \in DOMAIN users => users[gone].email # x /\ users[gone].nickname # x
    BY <2>1
  <2>3. ByEmail(x)' = ByEmail(x) /\ ByNickname(x)' = ByNickname(x)
    BY <1>2, <2>2 DEF ByEmail, ByNickname
  <2>4. i \in Matches(x) /\ i \in DOMAIN users'
    <3>1. i \in Matches(x)
      BY <2>1, <2>3 DEF Matches
    <3>2. i \in ByEmail(x)' \/ i \in ByNickname(x)'
      BY <3>1, <2>3 DEF Matches
    <3>. QED  BY <3>1, <3>2 DEF ByEmail, ByNickname
  <2>. QED  BY <1>2, <2>1, <2>4 DEF IInv, Steady, At
<1>7. Given'
  BY <1>5 DEF IInv, Given, At
<1>. QED  BY <1>3, <1>4, <1>6, <1>7 DEF IInv

\* The invariant holds in every reachable state.
THEOREM Invariance == Spec => []Inv
<1>1. Inv /\ [Next]_vars => Inv'
  <2> SUFFICES ASSUME Inv, [Next]_vars PROVE Inv'
    OBVIOUS
  <2>1. ASSUME NEW e \in Emails, NEW n \in Names, NEW p \in Passwords, Register(e, n, p)
        PROVE  Inv'
    BY <2>1, InsertInv DEF Register
  <2>2. ASSUME NEW e \in Emails, NEW n \in Names, NEW p \in Passwords, NEW super \in BOOLEAN,
               CreateUser(e, n, p, super)
        PROVE  Inv'
    BY <2>2, InsertInv DEF CreateUser
  <2>3. ASSUME NEW r \in Requests, NEW x \in Names, NEW p \in Passwords, LoginHash(r, x, p)
        PROVE  Inv'
    BY <2>3, LoginHashInv
  <2>4. ASSUME NEW r \in Requests, LoginUser(r) PROVE Inv'
    BY <2>4, LoginUserInv
  <2>5. ASSUME NEW r \in Requests, NEW id \in Ids, StartDelete(r, id) PROVE Inv'
    <3> DEFINE q == [Idle EXCEPT !.next = "delete:write", !.id = id]
    <3>1. q \in RequestRecord /\ q.next # "login:user"
      BY DEF Idle, RequestRecord
    <3>2. /\ request' = [request EXCEPT ![r] = q]
          /\ users' = users /\ lastId' = lastId /\ now' = now /\ tokens' = tokens
      BY <2>5 DEF StartDelete, FindById, Start
    <3>3. Steady' /\ Given' /\ request' \in [Requests -> RequestRecord]
      BY <3>1, <3>2, OthersStaySteady DEF Inv, IInv
    <3>. QED  BY <3>2, <3>3 DEF Inv, TypeOK, IInv, Remembered, LoginProvesPassword
  <2>6. ASSUME NEW r \in Requests, DeleteWrite(r) PROVE Inv'
    BY <2>6, DeleteInv
  <2>7. ASSUME NEW r \in Requests, Abandon(r) PROVE Inv'
    <3>1. /\ request' = [request EXCEPT ![r] = Idle]
          /\ users' = users /\ lastId' = lastId /\ now' = now /\ tokens' = tokens
      BY <2>7 DEF Abandon, Finish
    <3>2. Steady' /\ Given' /\ request' \in [Requests -> RequestRecord]
      BY <3>1, IdleIsRecord, OthersStaySteady DEF Inv, IInv, Idle
    <3>. QED  BY <3>1, <3>2 DEF Inv, TypeOK, IInv, Remembered, LoginProvesPassword
  <2>8. CASE Tick
    BY <2>8 DEF Tick, Inv, TypeOK, IInv, Remembered, Steady, Given, LoginProvesPassword,
                At, Matches, ByEmail, ByNickname
  <2>9. CASE UNCHANGED vars
    BY <2>9 DEF vars, Inv, TypeOK, IInv, Remembered, Steady, Given, LoginProvesPassword,
                At, Matches, ByEmail, ByNickname
  <2>. QED  BY <2>1, <2>2, <2>3, <2>4, <2>5, <2>6, <2>7, <2>8, <2>9 DEF Next
<1>. QED  BY InitInv, <1>1, PTL DEF Spec

----------------------------------------------------------------------------
(* The properties *)

\* Every variable keeps its type, and no two accounts share a name.
THEOREM TypeCorrect == Spec => []TypeOK
BY Invariance, PTL DEF Inv

\* A token never comes to stand for an account registered later, for ids are
\* never given twice.
THEOREM TokensStandForOneAccount == Spec => []TokensKeepTheirMeaning
<1>1. Inv => TokensKeepTheirMeaning
  BY DEF Inv, IInv, Remembered, TokensKeepTheirMeaning, UserOf, VerifyJwt, FindById
<1>. QED  BY Invariance, <1>1, PTL

\* The two reads of a login find the same account, unless the accounts under the
\* identifier changed between them.
THEOREM LoginsReadOneAccount == Spec => []LoginProvesPassword
BY Invariance, PTL DEF Inv, IInv

\* The unique indexes and the order of the two parts of the condition make every
\* account reachable, a nickname that is somebody's e-mail apart.
THEOREM EveryoneCanLogIn == Spec => []EveryoneLogsInAsThemselves
<1>1. ASSUME TypeOK PROVE EveryoneLogsInAsThemselves
  <2> SUFFICES ASSUME NEW i \in DOMAIN users
               PROVE  LET u == users[i] IN
                      /\ FindByIdentifier(u.email) = {i}
                      /\ FindPasswordHashByIdentifier(u.email) = {u.password}
                      /\ ByEmail(u.nickname) \subseteq {i} =>
                            /\ FindByIdentifier(u.nickname) = {i}
                            /\ FindPasswordHashByIdentifier(u.nickname) = {u.password}
    BY DEF EveryoneLogsInAsThemselves
  <2> DEFINE u == users[i]
  <2>1. ByEmail(u.email) = {i} /\ ByNickname(u.nickname) = {i}
    BY <1>1 DEF ByEmail, ByNickname, TypeOK
  <2>2. Matches(u.email) = {i}
    BY <2>1 DEF Matches
  <2>3. ByEmail(u.nickname) \subseteq {i} => Matches(u.nickname) = {i}
    BY <2>1 DEF Matches
  <2>. QED  BY <2>2, <2>3 DEF FindByIdentifier, FindPasswordHashByIdentifier
<1>. QED  BY TypeCorrect, <1>1, PTL
=============================================================================
