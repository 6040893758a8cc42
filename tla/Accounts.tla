------------------------------ MODULE Accounts ------------------------------
(***************************************************************************)
(* Accounts: how they come and go, how somebody logs in, and whom a token  *)
(* stands for later.                                                       *)
(*                                                                         *)
(* A login reads twice by the identifier that was typed in, an e-mail or a *)
(* nickname: the hash of the password, then the row.  Accounts may be      *)
(* registered and deleted in between.  A token is a record that nobody can *)
(* forge; what is in it is not read again but for its subject and expiry.  *)
(* A password stands for its hash, and the clock counts a few instants.    *)
(***************************************************************************)
EXTENDS Integers, FiniteSets

CONSTANTS
    Names,      \* what people type as e-mail or nickname
    Emails,     \* those that are e-mails; one may be taken as a nickname, too
    Passwords,
    Requests,   \* slots for requests in flight at the same time
    TokenLife,  \* EXPIRY_SECONDS
    MaxId,      \* bound: accounts
    MaxTime,    \* bound: the last instant of the clock
    MaxTokens,  \* bound: tokens
    None

VARIABLES
    users,     \* the rows of users, by id
    lastId,    \* sqlite_sequence: AUTOINCREMENT never gives an id twice
    now,       \* the clock
    tokens,    \* the tokens issued; "row", "password" and "disturbed" are history
    request    \* what each request in flight is about to do, and has read

vars == <<users, lastId, now, tokens, request>>

Ids == 1..MaxId

Account == [email : Emails, nickname : Names, password : Passwords,
            is_super_user : BOOLEAN]

\* row: the account that it was issued for; password: the one that was given;
\* disturbed: between the two reads of the login somebody registered under the
\* identifier, or the account that had it was deleted.
Token == [sub : Ids, exp : 0..(MaxTime + TokenLife), row : Account,
          password : Passwords, disturbed : BOOLEAN]

ASSUME AccountsAssumption ==
    /\ Emails \subseteq Names
    /\ MaxId \in Nat /\ MaxTime \in Nat /\ TokenLife \in Nat /\ MaxTokens \in Nat
    /\ None \notin Names \cup Passwords

----------------------------------------------------------------------------
(* The rows of users *)

\* email = ?1 OR nickname = ?1 LIMIT 1: one index after the other.
ByEmail(x)    == {i \in DOMAIN users : users[i].email = x}
ByNickname(x) == {i \in DOMAIN users : users[i].nickname = x}

Matches(x) == IF ByEmail(x) # {} THEN ByEmail(x) ELSE ByNickname(x)

FindPasswordHashByIdentifier(x) == {users[i].password : i \in Matches(x)}

FindByIdentifierNicknameFirst(x) == IF ByNickname(x) # {} THEN ByNickname(x) ELSE ByEmail(x)
FindByIdentifier(x) == Matches(x)

\* Refused by UNIQUE (email) and UNIQUE (nickname).
InsertableAnyNickname(e, n) == ByEmail(e) = {}
Insertable(e, n) == ByEmail(e) = {} /\ ByNickname(n) = {}

NewIdReusing == Cardinality(DOMAIN users) + 1
NewId == lastId + 1

\* History: the logins between their two reads by one of these identifiers.
Disturbed(names) ==
    [r \in Requests |->
       IF request[r].next = "login:user" /\ request[r].identifier \in names
         THEN [request[r] EXCEPT !.disturbed = TRUE] ELSE request[r]]

InsertUser(e, n, p, super) ==
    /\ Insertable(e, n)
    /\ NewId \in Ids
    /\ users' = [i \in DOMAIN users \cup {NewId} |->
                   IF i = NewId THEN [email |-> e, nickname |-> n, password |-> p,
                                      is_super_user |-> super]
                                ELSE users[i]]
    /\ lastId' = NewId
    /\ request' = Disturbed({e, n})
    /\ UNCHANGED <<now, tokens>>

----------------------------------------------------------------------------
(* The handlers *)

RequestRecord ==
    [next : {"idle", "login:user", "delete:write"}, identifier : Names \cup {None},
     password : Passwords \cup {None}, id : Ids \cup {0}, disturbed : BOOLEAN]

Idle == [next |-> "idle", identifier |-> None, password |-> None, id |-> 0,
         disturbed |-> FALSE]

At(r, n)    == request[r].next = n
Start(r, q) == request[r] = Idle /\ request' = [request EXCEPT ![r] = q]
Finish(r)   == request' = [request EXCEPT ![r] = Idle]

\* POST /auth/register: an ordinary account, whatever the body says.
Register(e, n, p) == InsertUser(e, n, p, FALSE)

\* POST /users, by the administrator.
CreateUser(e, n, p, super) == InsertUser(e, n, p, super)

\* A row holds the hash of its password, which only that password matches.
VerifyPassword(p, stored) == stored = p

\* POST /auth/login: the hash first; 401 unless it is that of the password.
LoginHash(r, x, p) ==
    /\ \E stored \in FindPasswordHashByIdentifier(x) : VerifyPassword(p, stored)
    /\ Start(r, [next |-> "login:user", identifier |-> x, password |-> p, id |-> 0,
                 disturbed |-> FALSE])
    /\ UNCHANGED <<users, lastId, now, tokens>>

SignJwt(id, p, disturbed) ==
    [sub |-> id, exp |-> now + TokenLife, row |-> users[id], password |-> p,
     disturbed |-> disturbed]

\* Then the row; 401 when there is none any more.
LoginUser(r) ==
    LET q == request[r] IN
    /\ At(r, "login:user")
    /\ \/ \E id \in FindByIdentifier(q.identifier) :
            tokens' = tokens \cup {SignJwt(id, q.password, q.disturbed)}
       \/ FindByIdentifier(q.identifier) = {} /\ UNCHANGED tokens
    /\ Cardinality(tokens') <= MaxTokens
    /\ Finish(r)
    /\ UNCHANGED <<users, lastId, now>>

\* The signature is the program's own: no client makes a token.
VerifyJwt(t) == t.exp >= now

FindById(id) == {id} \cap DOMAIN users

\* userAuthMiddleware: the account that a request acts for, none when the token has
\* expired or the account is gone.
UserOf(t) == IF VerifyJwt(t) THEN FindById(t.sub) ELSE {}

\* DELETE /users/:id, by the administrator: a look for the row, then DELETE.
StartDelete(r, id) ==
    /\ FindById(id) # {}
    /\ Start(r, [Idle EXCEPT !.next = "delete:write", !.id = id])
    /\ UNCHANGED <<users, lastId, now, tokens>>

DeleteWrite(r) ==
    /\ At(r, "delete:write")
    /\ users' = [i \in DOMAIN users \ {request[r].id} |-> users[i]]
    /\ request' = [Disturbed(UNION {{users[i].email, users[i].nickname} :
                                     i \in DOMAIN users \cap {request[r].id}})
                     EXCEPT ![r] = Idle]
    /\ UNCHANGED <<lastId, now, tokens>>

\* An uncaught error, or the eviction of the Worker.
Abandon(r) ==
    /\ ~At(r, "idle")
    /\ Finish(r)
    /\ UNCHANGED <<users, lastId, now, tokens>>

Tick ==
    /\ now < MaxTime
    /\ now' = now + 1
    /\ UNCHANGED <<users, lastId, tokens, request>>

Init ==
    /\ users = [i \in {} |-> {}]
    /\ lastId = 0
    /\ now = 0
    /\ tokens = {}
    /\ request = [r \in Requests |-> Idle]

Next ==
    \/ \E e \in Emails, n \in Names, p \in Passwords :
          Register(e, n, p) \/ \E super \in BOOLEAN : CreateUser(e, n, p, super)
    \/ \E r \in Requests :
          \/ \E x \in Names, p \in Passwords : LoginHash(r, x, p)
          \/ LoginUser(r)
          \/ \E id \in Ids : StartDelete(r, id)
          \/ DeleteWrite(r)
          \/ Abandon(r)
    \/ Tick

Spec == Init /\ [][Next]_vars

----------------------------------------------------------------------------
(* Properties *)

\* Every variable holds a value of its type, no two accounts share an e-mail or a
\* nickname, and no id is ahead of its sequence.
TypeOK ==
    /\ DOMAIN users \subseteq 1..lastId
    /\ users \in [DOMAIN users -> Account]
    /\ lastId \in 0..MaxId
    /\ now \in 0..MaxTime
    /\ tokens \subseteq Token
    /\ request \in [Requests -> RequestRecord]
    /\ \A i, j \in DOMAIN users :
          users[i].email = users[j].email \/ users[i].nickname = users[j].nickname => i = j

\* Whom a token stands for is the account that it was issued for, never one that
\* was registered after that account was deleted.
TokensKeepTheirMeaning ==
    \A t \in tokens : \A id \in UserOf(t) : users[id] = t.row

\* A token is for an account with the password that was given, although the two
\* reads of the login are calls of their own: unless the accounts under that
\* identifier changed between them.
LoginProvesPassword ==
    \A t \in tokens : t.disturbed \/ t.row.password = t.password

\* Everybody can log in: by e-mail always, by nickname unless it is the e-mail of
\* somebody else; and both reads of a login find the same.
EveryoneLogsInAsThemselves ==
    \A i \in DOMAIN users :
        LET u == users[i] IN
        /\ FindByIdentifier(u.email) = {i}
        /\ FindPasswordHashByIdentifier(u.email) = {u.password}
        /\ ByEmail(u.nickname) \subseteq {i} =>
              /\ FindByIdentifier(u.nickname) = {i}
              /\ FindPasswordHashByIdentifier(u.nickname) = {u.password}
=============================================================================
