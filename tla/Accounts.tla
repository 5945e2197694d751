------------------------------- MODULE Accounts -------------------------------
(***************************************************************************)
(* Users, organizations and tokens: src/auth, src/users,                    *)
(* src/organizations over the tables User and Organization.                 *)
(*                                                                         *)
(* A request is cut at its awaits.  An organization is made in one way      *)
(* only, by a registration, together with its first user, in a transaction  *)
(* that hashes a password on the way and signs the token before it commits. *)
(***************************************************************************)
EXTENDS Naturals

CONSTANTS
    Emails,     \* addresses (a bound)
    Ids,        \* ids of users (a bound)
    Orgs,       \* ids of organizations (a bound)
    Edits,      \* what an update may set, None for what it leaves (a bound)
    Requests,   \* requests that may be in flight together (a bound)
    None        \* no value

Roles == {"ADMIN", "USER"}

User == [email : Emails, org : Orgs, role : Roles]

ASSUME AccountsAssumption ==
    /\ None \notin Emails \cup Ids \cup Orgs \cup User
    /\ Edits \subseteq [email : Emails \cup {None}, role : Roles \cup {None},
                        org : Orgs \cup {None}, id : Ids \cup {None}]

VARIABLES
    users,      \* table User
    orgs,       \* table Organization
    requests,   \* requests, each at an await
    tokens,     \* tokens that clients were given
    drawn,      \* ids that the sequence of the table has drawn
    left,       \* history: users, as a token names them, that were deleted, moved or renumbered
    late        \* history: requests in flight, sent when their token named nobody any more

vars == <<users, orgs, requests, tokens, drawn, left, late>>

-----------------------------------------------------------------------------
Token == [id : Ids, org : Orgs, role : Roles]

Idle == [step |-> "idle"]

(* The call a request awaits: look-ups of an address ("check") and of a user *)
(* ("find"), bcrypt ("hash", "compare"), inserts, the commit, an update or a *)
(* deletion ("write").                                                      *)
Wish ==
    [kind : {"add"}, step : {"check", "hash", "create"}, email : Emails, role : Roles, org : Orgs]
    \cup [kind : {"edit"}, step : {"find", "check", "write"}, id : Ids, set : Edits]
    \cup [kind : {"remove"}, step : {"find", "write"}, id : Ids]

Request ==
    Wish
    \cup [step : {"guard"}, by : Token, wish : Wish]
    \cup [kind : {"login"}, step : {"check"}, email : Emails]
    \cup [kind : {"login"}, step : {"compare"}, user : Token]
    \cup [kind : {"register"}, step : {"check", "organization"}, email : Emails]
    \cup [kind : {"register"}, step : {"hash", "user"}, email : Emails, org : Orgs]
    \cup [kind : {"register"}, step : {"commit"}, email : Emails, org : Orgs, id : Ids]

Exists(id) == users[id] # None

TypeOK ==
    /\ users \in [Ids -> User \cup {None}]
    /\ orgs \subseteq Orgs
    /\ requests \in [Requests -> Request \cup {Idle}]
    /\ tokens \subseteq Token
    /\ drawn \subseteq Ids /\ left \subseteq Ids \X Orgs
    /\ late \subseteq Requests
    /\ \A i, j \in Ids : Exists(i) /\ Exists(j) /\ users[i].email = users[j].email => i = j
    /\ \A i \in Ids : Exists(i) => users[i].org \in orgs

Init ==
    /\ users = [i \in Ids |-> None]
    /\ orgs = {}
    /\ requests = [r \in Requests |-> Idle]
    /\ tokens = {} /\ drawn = {} /\ left = {} /\ late = {}

-----------------------------------------------------------------------------
At(r, step) == requests[r].step = step

Of(r, kind, step) == At(r, step) /\ requests[r].kind = kind

GoOn(r, request) == requests' = [requests EXCEPT ![r] = request]

Pass(r, request) == GoOn(r, request) /\ UNCHANGED late

GoTo(r, step) == requests' = [requests EXCEPT ![r].step = step] /\ UNCHANGED late

End(r) == GoOn(r, Idle) /\ late' = late \ {r}

(* A request ends, having given the id to a user: no token with it is late.  *)
EndWith(r, id) == GoOn(r, Idle) /\ late' = {q \in late \ {r} : requests[q].by.id # id}

InTransaction(r) == Of(r, "register", "hash") \/ Of(r, "register", "user") \/ At(r, "commit")

(* An open transaction has inserted a user with this id. *)
Inserted(id) == \E q \in Requests : At(q, "commit") /\ requests[q].id = id

(* Ids that the sequence may draw, and that nobody was given by hand. *)
FreeIds == {i \in Ids \ drawn : ~ Exists(i) /\ ~ Inserted(i)}
FreeOrgs == {o \in Orgs \ orgs : \A q \in Requests : InTransaction(q) => requests[q].org # o}

Holders(email) == {i \in Ids : Exists(i) /\ users[i].email = email}

(* An insert waits for a transaction that has inserted the same address and  *)
(* is still open.                                                           *)
Waits(r, email) == \E q \in Requests \ {r} : At(q, "commit") /\ requests[q].email = email

(* Mutant of Unique: the address is checked before, and by nobody else. *)
UniqueUnchecked(email, id) == TRUE

(* User.email @unique. *)
Unique(email, id) == Holders(email) \subseteq {id}

TokenOf(id, user) == [id |-> id, org |-> user.org, role |-> user.role]

-----------------------------------------------------------------------------
(* Requests arrive; all but registration and login carry a token. *)

Ask(r, request) ==
    /\ At(r, "idle")
    /\ GoOn(r, request)
    /\ late' = IF request.step = "guard" /\ ~ Exists(request.by.id)
               THEN late \cup {r} ELSE late
    /\ UNCHANGED <<users, orgs, tokens, drawn, left>>

Register(r) == \E e \in Emails : Ask(r, [kind |-> "register", step |-> "check", email |-> e])

Login(r) == \E e \in Emails : Ask(r, [kind |-> "login", step |-> "check", email |-> e])

WithToken(r, by, wish) == Ask(r, [step |-> "guard", by |-> by, wish |-> wish])

AddUser(r) ==
    \E t \in tokens, e \in Emails, role \in Roles :
        WithToken(r, t, [kind |-> "add", step |-> "check", email |-> e, role |-> role, org |-> t.org])

EditUser(r) ==
    \E t \in tokens, i \in Ids, s \in Edits :
        WithToken(r, t, [kind |-> "edit", step |-> "find", id |-> i, set |-> s])

RemoveUser(r) ==
    \E t \in tokens, i \in Ids : WithToken(r, t, [kind |-> "remove", step |-> "find", id |-> i])

(* Mutant of Validate: the signature of the token is enough. *)
ValidateSignature(r) ==
    LET by == requests[r].by
        wish == requests[r].wish IN
    /\ At(r, "guard")
    /\ IF wish.kind = "add" => by.role = "ADMIN" THEN Pass(r, wish) ELSE End(r)
    /\ UNCHANGED <<users, orgs, tokens, drawn, left>>

(* The guard looks the user up, and for "add" the controller the role in the *)
(* token.                                                                   *)
Validate(r) ==
    LET by == requests[r].by
        wish == requests[r].wish IN
    /\ At(r, "guard")
    /\ IF Exists(by.id) /\ (wish.kind = "add" => by.role = "ADMIN") THEN Pass(r, wish) ELSE End(r)
    /\ UNCHANGED <<users, orgs, tokens, drawn, left>>

-----------------------------------------------------------------------------
(* Look-ups and bcrypt, which change no table. *)

(* findUnique of an address; a user may keep his own. *)
Check(r) ==
    LET q == requests[r] IN
    /\ At(r, "check")
    /\ \/ /\ q.kind = "login"
          /\ \/ \E i \in Holders(q.email) :
                   Pass(r, [kind |-> "login", step |-> "compare", user |-> TokenOf(i, users[i])])
             \/ Holders(q.email) = {} /\ End(r)
       \/ /\ q.kind = "register"
          /\ IF Holders(q.email) = {} THEN GoTo(r, "organization") ELSE End(r)
       \/ /\ q.kind = "add"
          /\ IF Holders(q.email) = {} THEN GoTo(r, "hash") ELSE End(r)
       \/ /\ q.kind = "edit"
          /\ IF Holders(q.set.email) \subseteq {q.id} THEN GoTo(r, "write") ELSE End(r)
    /\ UNCHANGED <<users, orgs, tokens, drawn, left>>

Find(r) ==
    LET q == requests[r] IN
    /\ At(r, "find")
    /\ IF ~ Exists(q.id) THEN End(r)
       ELSE GoTo(r, IF q.kind = "edit" /\ q.set.email # None THEN "check" ELSE "write")
    /\ UNCHANGED <<users, orgs, tokens, drawn, left>>

Hash(r) ==
    /\ At(r, "hash")
    /\ GoTo(r, IF requests[r].kind = "add" THEN "create" ELSE "user")
    /\ UNCHANGED <<users, orgs, tokens, drawn, left>>

(* The password is right, or it is not. *)
Compare(r) ==
    /\ At(r, "compare")
    /\ End(r)
    /\ tokens' \in {tokens, tokens \cup {requests[r].user}}
    /\ UNCHANGED <<users, orgs, drawn, left>>

-----------------------------------------------------------------------------
(* Registration, in a transaction: nobody sees its rows before the commit. *)

(* Mutant of CreateOrganization: written by another client than that of the  *)
(* transaction.                                                             *)
CreateOrganizationOutside(r) ==
    LET q == requests[r] IN
    /\ At(r, "organization")
    /\ \E o \in FreeOrgs :
          /\ Pass(r, [kind |-> "register", step |-> "hash", email |-> q.email, org |-> o])
          /\ orgs' = orgs \cup {o}
    /\ UNCHANGED <<users, tokens, drawn, left>>

CreateOrganization(r) ==
    LET q == requests[r] IN
    /\ At(r, "organization")
    /\ \E o \in FreeOrgs :
          Pass(r, [kind |-> "register", step |-> "hash", email |-> q.email, org |-> o])
    /\ UNCHANGED <<users, orgs, tokens, drawn, left>>

(* The token is signed in the transaction, and kept until the commit. *)
InsertAdmin(r) ==
    LET q == requests[r] IN
    /\ At(r, "user")
    /\ ~ Waits(r, q.email)
    /\ IF Unique(q.email, None)
       THEN \E i \in FreeIds :
               Pass(r, [kind |-> "register", step |-> "commit", email |-> q.email, org |-> q.org, id |-> i])
       ELSE End(r)
    /\ UNCHANGED <<users, orgs, tokens, drawn, left>>

(* Mutant of Commit: the answer does not wait for the database. *)
CommitNotAwaited(r) ==
    LET q == requests[r]
        admin == [email |-> q.email, org |-> q.org, role |-> "ADMIN"] IN
    /\ At(r, "commit")
    /\ EndWith(r, q.id)
    /\ \/ orgs' = orgs \cup {q.org} /\ users' = [users EXCEPT ![q.id] = admin]
       \/ UNCHANGED <<orgs, users>>
    /\ tokens' = tokens \cup {TokenOf(q.id, admin)}
    /\ drawn' = drawn \cup {q.id}
    /\ UNCHANGED left

(* The answer may be lost on the way from the database. *)
Commit(r) ==
    LET q == requests[r]
        admin == [email |-> q.email, org |-> q.org, role |-> "ADMIN"] IN
    /\ At(r, "commit")
    /\ EndWith(r, q.id)
    /\ orgs' = orgs \cup {q.org}
    /\ users' = [users EXCEPT ![q.id] = admin]
    /\ tokens' \in {tokens, tokens \cup {TokenOf(q.id, admin)}}
    /\ drawn' = drawn \cup {q.id}
    /\ UNCHANGED left

-----------------------------------------------------------------------------
(* Writes outside of transactions. *)

CreateUser(r) ==
    LET q == requests[r] IN
    /\ At(r, "create")
    /\ ~ Waits(r, q.email)
    /\ IF Unique(q.email, None)
       THEN \E i \in FreeIds :
               /\ users' = [users EXCEPT ![i] = [email |-> q.email, org |-> q.org, role |-> q.role]]
               /\ drawn' = drawn \cup {i}
               /\ EndWith(r, i)
       ELSE End(r) /\ UNCHANGED <<users, drawn>>
    /\ UNCHANGED <<orgs, tokens, left>>

Given(value, old) == IF value = None THEN old ELSE value

Leaves(id) == left' = left \cup {<<id, users[id].org>>}

(* The body is written as it is: it may name any column, the id and the       *)
(* organization among them.                                                 *)
Updated(q) == [email |-> Given(q.set.email, users[q.id].email),
               org   |-> Given(q.set.org, users[q.id].org),
               role  |-> Given(q.set.role, users[q.id].role)]

(* The row is there, and its indexes and its foreign key allow what is set.  *)
Fitting(q) ==
    /\ Exists(q.id)
    /\ Unique(q.set.email, q.id)
    /\ q.set.id \in {None, q.id} \/ ~ Exists(q.set.id)
    /\ q.set.org \in orgs \cup {None}

UpdateUser(r) ==
    LET q  == requests[r]
        id == Given(q.set.id, q.id) IN
    /\ Of(r, "edit", "write")
    /\ ~ Waits(r, q.set.email) /\ ~ Inserted(q.set.id)
    /\ IF Fitting(q)
       THEN /\ users' = [users EXCEPT ![q.id] = None, ![id] = Updated(q)]
            /\ IF q.set.id = None /\ q.set.org = None THEN UNCHANGED left ELSE Leaves(q.id)
            /\ EndWith(r, id)
       ELSE End(r) /\ UNCHANGED <<users, left>>
    /\ UNCHANGED <<orgs, tokens, drawn>>

DeleteUser(r) ==
    LET q == requests[r] IN
    /\ Of(r, "remove", "write")
    /\ End(r)
    /\ users' = [users EXCEPT ![q.id] = None]
    /\ IF Exists(q.id) THEN Leaves(q.id) ELSE UNCHANGED left
    /\ UNCHANGED <<orgs, tokens, drawn>>

(* Any call fails, a transaction takes too long, a code or a shipment is in  *)
(* the way: what a transaction has done is undone.                          *)
Fails(r) ==
    /\ ~ At(r, "idle")
    /\ End(r)
    /\ UNCHANGED <<users, orgs, tokens, drawn, left>>

(* The process ends, and with it the sessions of its transactions. *)
Crash ==
    /\ requests' = [r \in Requests |-> Idle]
    /\ late' = {}
    /\ UNCHANGED <<users, orgs, tokens, drawn, left>>

Step(r) ==
    \/ Register(r) \/ Login(r) \/ AddUser(r) \/ EditUser(r) \/ RemoveUser(r)
    \/ Validate(r) \/ Check(r) \/ Find(r) \/ Hash(r) \/ Compare(r)
    \/ CreateOrganization(r) \/ InsertAdmin(r) \/ Commit(r)
    \/ CreateUser(r) \/ UpdateUser(r) \/ DeleteUser(r) \/ Fails(r)

Next == Crash \/ \E r \in Requests : Step(r)

Spec == Init /\ [][Next]_vars

-----------------------------------------------------------------------------
(* Properties. *)

(* "Use a transaction to ensure both organization and user are created or    *)
(* neither" (auth.service.ts, line 79): an organization comes into being     *)
(* together with an administrator, and alone, whatever fails and however     *)
(* long the password takes to hash.                                         *)
BothOrNeither ==
    [][\A o \in orgs' \ orgs : \E i \in Ids :
          ~ Exists(i) /\ users'[i] # None /\ users'[i].org = o /\ users'[i].role = "ADMIN"]_vars

(* An answer is kept: a token that a client was given names a user who is     *)
(* there, in the organization it speaks for, although it is signed before the *)
(* commit (auth.service.ts, lines 80-119) - or who was, and has been deleted   *)
(* since, or given another organization or id by an update that says so        *)
(* (users.repository.ts, lines 42-46): the token goes on speaking for what he  *)
(* was.  Nothing else ever takes a user from under a token.                   *)
TokensNameUsers ==
    \A t \in tokens :
        \/ Exists(t.id) /\ users[t.id].org = t.org
        \/ <<t.id, t.org>> \in left

(* "User no longer exists" (jwt.strategy.ts, line 26): a request sent when     *)
(* nobody had the id of its token any more does not get past the guard, though *)
(* the token is valid and requests sent before still run - unless the id has   *)
(* been given to another in the meantime.                                     *)
LateAreRefused ==
    \A r \in late : At(r, "guard")
=============================================================================
