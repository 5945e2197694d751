---------------------------- MODULE AccountsProofs ----------------------------
(* Theorems about Accounts, for any number of users, organizations, addresses  *)
(* and requests in flight.                                                    *)
EXTENDS Accounts, TLAPS

(* A token, or what login is about to make one of. *)
Good(t) ==
    /\ t.org \in orgs
    /\ \/ Exists(t.id) /\ users[t.id].org = t.org
       \/ <<t.id, t.org>> \in left

(* What a request knows at its step.  A transaction that has inserted its     *)
(* user holds his id and his address.                                         *)
Fits(q) ==
    /\ q.step = "guard" => (q.wish.kind = "add" => q.wish.org \in orgs)
    /\ q.step \in {"check", "hash", "create"} => (q.kind = "add" => q.org \in orgs)
    /\ q.step = "compare" => Good(q.user)
    /\ q.step = "commit" => ~ Exists(q.id) /\ Holders(q.email) = {}

Apart ==
    \A p, q \in Requests : p # q /\ At(p, "commit") /\ At(q, "commit") =>
        requests[p].id # requests[q].id /\ requests[p].email # requests[q].email

LateInv == \A r \in late : At(r, "guard") /\ ~ Exists(requests[r].by.id)

Inv ==
    /\ TypeOK
    /\ \A t \in tokens : Good(t)
    /\ \A r \in Requests : Fits(requests[r])
    /\ Apart
    /\ LateInv

LEMMA InitInv == Init => Inv
  BY DEF Init, Inv, TypeOK, Good, Fits, Apart, LateInv, Exists, At, Idle

(* A step of one request that changes no table but may hand out a token. *)
LEMMA Quiet ==
    ASSUME Inv, NEW r \in Requests, NEW q \in Request \cup {Idle}, Fits(q),
           q.step = "commit" =>
              \A p \in Requests : p # r /\ At(p, "commit") =>
                  requests[p].id # q.id /\ requests[p].email # q.email,
           requests' = [requests EXCEPT ![r] = q],
           UNCHANGED <<users, orgs, drawn, left>>,
           tokens' \subseteq Token, \A t \in tokens' : Good(t),
           late' \subseteq late \cup {r},
           r \in late' => q.step = "guard" /\ ~ Exists(q.by.id)
    PROVE  Inv'
<1>1. TypeOK'
  BY DEF Inv, TypeOK, Exists
<1>2. (\A t \in tokens : Good(t))'
  BY DEF Inv, Good, Exists
<1>3. (\A p \in Requests : Fits(requests[p]))'
  BY DEF Inv, TypeOK, Fits, Good, Exists, Holders
<1>4. Apart'
  BY DEF Inv, TypeOK, Apart, At
<1>5. LateInv'
  BY DEF Inv, TypeOK, LateInv, At, Exists
<1> QED
  BY <1>1, <1>2, <1>3, <1>4, <1>5 DEF Inv

(* A request ends by a write that takes no user from under a token but one it  *)
(* says has left, and leaves open transactions what they hold; tokens with an  *)
(* id it has given are late no more.                                           *)
LEMMA Written ==
    ASSUME Inv, NEW r \in Requests,
           requests' = [requests EXCEPT ![r] = Idle], late' \subseteq late \ {r},
           users' \in [Ids -> User \cup {None}],
           orgs \subseteq orgs', orgs' \subseteq Orgs,
           drawn' \subseteq Ids, left \subseteq left', left' \subseteq Ids \X Orgs,
           \A i \in Ids : Exists(i) =>
              (users'[i] # None /\ users'[i].org = users[i].org) \/ <<i, users[i].org>> \in left',
           \A p \in late' : users'[requests[p].by.id] = None,
           \A i, j \in Ids : users'[i] # None /\ users'[j] # None /\ users'[i].email = users'[j].email => i = j,
           \A i \in Ids : users'[i] # None => users'[i].org \in orgs',
           \A p \in Requests : p # r /\ At(p, "commit") =>
              /\ users'[requests[p].id] = None
              /\ \A i \in Ids : users'[i] # None => users'[i].email # requests[p].email,
           tokens' \subseteq Token,
           \A t \in tokens' : t \in tokens \/ Good(t)'
    PROVE  Inv'
<1>2. TypeOK'
  BY DEF Inv, TypeOK, Exists
<1>3. \A t \in Token : Good(t) => Good(t)'
  BY DEF Inv, TypeOK, Good, Exists, Token
<1>4. (\A t \in tokens : Good(t))'
  BY <1>3 DEF Inv, TypeOK
<1>5. ASSUME NEW p \in Requests
      PROVE  Fits(requests[p])'
  <2>1. CASE p = r
    BY <2>1 DEF Inv, TypeOK, Fits, Idle
  <2>2. CASE p # r
    <3>1. requests'[p] = requests[p] /\ requests[p] \in Request \cup {Idle} /\ Fits(requests[p])
      BY <2>2 DEF Inv, TypeOK
    <3>2. requests[p].step = "compare" => requests[p].user \in Token
      BY <3>1 DEF Request, Wish, Idle
    <3>3. requests[p].step = "compare" => Good(requests[p].user)'
      BY <3>1, <3>2, <1>3 DEF Fits
    <3>4. requests[p].step = "commit" =>
            /\ users'[requests[p].id] = None
            /\ {i \in Ids : users'[i] # None /\ users'[i].email = requests[p].email} = {}
      BY <2>2 DEF At
    <3> QED
      BY <3>1, <3>3, <3>4 DEF Fits, Exists, Holders, Good
  <2> QED
    BY <2>1, <2>2
<1>6. Apart'
  BY DEF Inv, TypeOK, Apart, At, Idle
<1>7. LateInv'
  BY DEF Inv, TypeOK, LateInv, At, Exists
<1> QED
  BY <1>2, <1>4, <1>5, <1>6, <1>7 DEF Inv

(* The shapes of a request by its step. *)
LEMMA Shapes ==
    ASSUME Inv, NEW r \in Requests
    PROVE  LET q == requests[r] IN
           /\ q \in Request \cup {Idle} /\ Fits(q)
           /\ q.step = "guard" => q.by \in Token /\ q.wish \in Wish
           /\ q.step = "compare" => q.user \in Token
           /\ q.step = "check" =>
                \/ q.kind \in {"login", "register"} /\ q.email \in Emails
                \/ q.kind = "add" /\ q.email \in Emails /\ q.role \in Roles /\ q.org \in Orgs
                \/ q.kind = "edit" /\ q.id \in Ids /\ q.set \in Edits
           /\ q.step \in {"organization", "user", "commit"} => q.kind = "register" /\ q.email \in Emails
           /\ q.step \in {"user", "commit"} => q.org \in Orgs
           /\ q.step = "commit" => q.id \in Ids
           /\ q.step = "create" => q.email \in Emails /\ q.role \in Roles /\ q.org \in orgs
  BY DEF Inv, TypeOK, Request, Wish, Idle, Fits

LEMMA LateFacts ==
    ASSUME Inv, NEW p \in late
    PROVE  requests[p].by.id \in Ids /\ ~ Exists(requests[p].by.id)
<1>1. p \in Requests /\ At(p, "guard") /\ ~ Exists(requests[p].by.id)
  BY DEF Inv, TypeOK, LateInv
<1>2. requests[p].by \in Token
  BY <1>1, Shapes DEF At
<1> QED
  BY <1>1, <1>2 DEF Token

(* A request goes on, or ends, and no table changes. *)
LEMMA PassInv ==
    ASSUME Inv, NEW r \in Requests, NEW q \in Request, Fits(q), q.step # "commit",
           ~ At(r, "guard"),
           requests' = [requests EXCEPT ![r] = q],
           UNCHANGED <<users, orgs, tokens, drawn, left, late>>
    PROVE  Inv'
<1>1. r \notin late'
  BY DEF Inv, LateInv
<1>2. tokens' \subseteq Token /\ \A t \in tokens' : Good(t)
  BY DEF Inv, TypeOK
<1> QED
  BY <1>1, <1>2, Quiet

LEMMA EndInv ==
    ASSUME Inv, NEW r \in Requests, End(r), UNCHANGED <<users, orgs, drawn, left>>,
           tokens' \subseteq Token, \A t \in tokens' : Good(t)
    PROVE  Inv'
<1> DEFINE q == Idle
<1>1. requests' = [requests EXCEPT ![r] = q] /\ late' = late \ {r}
  BY DEF End, GoOn
<1>2. q \in Request \cup {Idle} /\ Fits(q) /\ q.step # "commit"
  BY DEF Idle, Fits
<1> HIDE DEF q
<1> QED
  BY <1>1, <1>2, Quiet

LEMMA TokensGood == ASSUME Inv PROVE tokens \subseteq Token /\ \A t \in tokens : Good(t)
  BY DEF Inv, TypeOK

(* A request arrives. *)
LEMMA AskInv ==
    ASSUME Inv, NEW r \in Requests, NEW q \in Request, Fits(q), q.step # "commit", Ask(r, q)
    PROVE  Inv'
<1>1. /\ requests' = [requests EXCEPT ![r] = q]
      /\ UNCHANGED <<users, orgs, tokens, drawn, left>>
      /\ late' = IF q.step = "guard" /\ ~ Exists(q.by.id) THEN late \cup {r} ELSE late
      /\ At(r, "idle")
  BY DEF Ask, GoOn
<1>2. r \notin late
  BY <1>1 DEF Inv, LateInv, At
<1> QED
  BY <1>1, <1>2, TokensGood, Quiet

LEMMA AskStep ==
    ASSUME Inv, NEW r \in Requests,
           Register(r) \/ Login(r) \/ AddUser(r) \/ EditUser(r) \/ RemoveUser(r)
    PROVE  Inv'
<1>1. ASSUME NEW e \in Emails, NEW kind \in {"register", "login"},
             Ask(r, [kind |-> kind, step |-> "check", email |-> e])
      PROVE  Inv'
  <2> DEFINE q == [kind |-> kind, step |-> "check", email |-> e]
  <2>1. q \in Request /\ Fits(q) /\ q.step # "commit"
    BY DEF Request, Fits
  <2> HIDE DEF q
  <2> QED
    BY <1>1, <2>1, AskInv DEF q
<1>2. ASSUME NEW t \in tokens, NEW w \in Wish, w.kind = "add" => w.org = t.org, WithToken(r, t, w)
      PROVE  Inv'
  <2> DEFINE q == [step |-> "guard", by |-> t, wish |-> w]
  <2>1. q \in Request /\ q.step # "commit"
    BY TokensGood DEF Request
  <2>2. Fits(q)
    BY <1>2, TokensGood DEF Fits, Good
  <2>3. Ask(r, q)
    BY <1>2 DEF WithToken
  <2> HIDE DEF q
  <2> QED
    BY <2>1, <2>2, <2>3, AskInv
<1>3. CASE AddUser(r)
  <2>1. PICK t \in tokens, e \in Emails, role \in Roles :
          WithToken(r, t, [kind |-> "add", step |-> "check", email |-> e, role |-> role, org |-> t.org])
    BY <1>3 DEF AddUser
  <2> DEFINE w == [kind |-> "add", step |-> "check", email |-> e, role |-> role, org |-> t.org]
  <2>2. w \in Wish /\ w.org = t.org
    BY TokensGood DEF Wish, Token
  <2>3. WithToken(r, t, w)
    BY <2>1
  <2> HIDE DEF w
  <2> QED
    BY <2>2, <2>3, <1>2
<1>4. CASE EditUser(r)
  <2>1. PICK t \in tokens, i \in Ids, s \in Edits :
          WithToken(r, t, [kind |-> "edit", step |-> "find", id |-> i, set |-> s])
    BY <1>4 DEF EditUser
  <2> DEFINE w == [kind |-> "edit", step |-> "find", id |-> i, set |-> s]
  <2>2. w \in Wish /\ w.kind # "add"
    BY DEF Wish
  <2>3. WithToken(r, t, w)
    BY <2>1
  <2> HIDE DEF w
  <2> QED
    BY <2>2, <2>3, <1>2
<1>5. CASE RemoveUser(r)
  <2>1. PICK t \in tokens, i \in Ids : WithToken(r, t, [kind |-> "remove", step |-> "find", id |-> i])
    BY <1>5 DEF RemoveUser
  <2> DEFINE w == [kind |-> "remove", step |-> "find", id |-> i]
  <2>2. w \in Wish /\ w.kind # "add"
    BY DEF Wish
  <2>3. WithToken(r, t, w)
    BY <2>1
  <2> HIDE DEF w
  <2> QED
    BY <2>2, <2>3, <1>2
<1> QED
  BY <1>1, <1>3, <1>4, <1>5 DEF Register, Login

(* The guard lets through no request whose token names nobody. *)
LEMMA ValidateInv ==
    ASSUME Inv, NEW r \in Requests, Validate(r)
    PROVE  Inv'
<1> DEFINE by == requests[r].by
           wish == requests[r].wish
<1>1. At(r, "guard") /\ UNCHANGED <<users, orgs, tokens, drawn, left>>
  BY DEF Validate
<1>2. by \in Token /\ wish \in Wish /\ (wish.kind = "add" => wish.org \in orgs)
  BY <1>1, Shapes DEF At, Fits
<1>3. CASE Exists(by.id) /\ Pass(r, wish)
  <2>1. r \notin late
    BY <1>3 DEF Inv, LateInv
  <2>2. requests' = [requests EXCEPT ![r] = wish] /\ late' = late
    BY <1>3 DEF Pass, GoOn
  <2>3. wish \in Request /\ wish.step \in {"check", "hash", "create", "find", "write"}
    BY <1>2 DEF Request, Wish
  <2>4. Fits(wish) /\ wish.step # "commit"
    BY <1>2, <2>3 DEF Fits
  <2> HIDE DEF wish
  <2> QED
    BY <1>1, <2>1, <2>2, <2>3, <2>4, TokensGood, Quiet
<1>4. CASE End(r)
  BY <1>1, <1>4, EndInv, TokensGood
<1> QED
  BY <1>3, <1>4 DEF Validate

(* Look-ups and bcrypt. *)
LEMMA CheckInv ==
    ASSUME Inv, NEW r \in Requests, Check(r)
    PROVE  Inv'
<1> DEFINE q == requests[r]
<1>1. q.step = "check" /\ UNCHANGED <<users, orgs, tokens, drawn, left>> /\ requests \in [Requests -> Request \cup {Idle}]
  BY DEF Check, At, Inv, TypeOK
<1>2. CASE End(r)
  BY <1>1, <1>2, EndInv, TokensGood
<1>3. ASSUME q.kind = "login", NEW i \in Holders(q.email),
             Pass(r, [kind |-> "login", step |-> "compare", user |-> TokenOf(i, users[i])])
      PROVE  Inv'
  <2> DEFINE n == [kind |-> "login", step |-> "compare", user |-> TokenOf(i, users[i])]
  <2>1. i \in Ids /\ Exists(i) /\ users[i] \in User
    BY DEF Holders, Exists, Inv, TypeOK
  <2>2. users[i].org \in orgs
    BY <2>1 DEF Inv, TypeOK
  <2>3. n.user \in Token /\ Good(n.user)
    BY <2>1, <2>2 DEF TokenOf, Token, User, Good
  <2>4. n \in Request /\ Fits(n) /\ n.step # "commit"
    BY <2>3 DEF Request, Fits
  <2>5. requests' = [requests EXCEPT ![r] = n] /\ late' = late
    BY <1>3 DEF Pass, GoOn
  <2> HIDE DEF n
  <2> QED
    BY <1>1, <2>4, <2>5, PassInv DEF At
<1>4. CASE q.kind = "register" /\ GoTo(r, "organization")
  <2> DEFINE n == [q EXCEPT !.step = "organization"]
  <2>1. q \in [kind : {"register"}, step : {"check", "organization"}, email : Emails]
    BY <1>1, <1>4, Shapes DEF Request, Wish, Idle
  <2>2. n \in Request /\ Fits(n) /\ n.step # "commit"
    BY <2>1 DEF Request, Fits
  <2>3. requests' = [requests EXCEPT ![r] = n] /\ late' = late
    BY <1>1, <1>4 DEF GoTo
  <2> HIDE DEF n
  <2> QED
    BY <1>1, <2>2, <2>3, PassInv DEF At
<1>5. CASE q.kind = "add" /\ GoTo(r, "hash")
  <2> DEFINE n == [q EXCEPT !.step = "hash"]
  <2>1. /\ q \in [kind : {"add"}, step : {"check", "hash", "create"}, email : Emails, role : Roles, org : Orgs]
        /\ q.org \in orgs
    BY <1>1, <1>5, Shapes DEF Request, Wish, Idle, Fits
  <2>2. n \in Wish /\ n.step = "hash" /\ n.org \in orgs
    BY <2>1 DEF Wish
  <2>3. n \in Request /\ Fits(n) /\ n.step # "commit"
    BY <2>2 DEF Request, Fits
  <2>4. requests' = [requests EXCEPT ![r] = n] /\ late' = late
    BY <1>1, <1>5 DEF GoTo
  <2> HIDE DEF n
  <2> QED
    BY <1>1, <2>3, <2>4, PassInv DEF At
<1>6. CASE q.kind = "edit" /\ GoTo(r, "write")
  <2> DEFINE n == [q EXCEPT !.step = "write"]
  <2>1. q \in [kind : {"edit"}, step : {"find", "check", "write"}, id : Ids, set : Edits]
    BY <1>1, <1>6, Shapes DEF Request, Wish, Idle
  <2>2. n \in Wish /\ n.step = "write"
    BY <2>1 DEF Wish
  <2>3. n \in Request /\ Fits(n) /\ n.step # "commit"
    BY <2>2 DEF Request, Fits
  <2>4. requests' = [requests EXCEPT ![r] = n] /\ late' = late
    BY <1>1, <1>6 DEF GoTo
  <2> HIDE DEF n
  <2> QED
    BY <1>1, <2>3, <2>4, PassInv DEF At
<1> QED
  BY <1>2, <1>3, <1>4, <1>5, <1>6 DEF Check

LEMMA FindInv ==
    ASSUME Inv, NEW r \in Requests, Find(r)
    PROVE  Inv'
<1> DEFINE q == requests[r]
<1>1. q.step = "find" /\ UNCHANGED <<users, orgs, tokens, drawn, left>> /\ requests \in [Requests -> Request \cup {Idle}]
  BY DEF Find, At, Inv, TypeOK
<1>2. CASE End(r)
  BY <1>1, <1>2, EndInv, TokensGood
<1>3. ASSUME NEW step \in {"check", "write"}, step = "check" => q.kind = "edit", GoTo(r, step)
      PROVE  Inv'
  <2> DEFINE n == [q EXCEPT !.step = step]
  <2>1. \/ q \in [kind : {"edit"}, step : {"find", "check", "write"}, id : Ids, set : Edits]
        \/ q \in [kind : {"remove"}, step : {"find", "write"}, id : Ids] /\ step = "write"
    BY <1>1, <1>3, Shapes DEF Request, Wish, Idle
  <2>2. n \in Wish /\ n.step = step /\ n.kind # "add"
    BY <2>1 DEF Wish
  <2>3. n \in Request /\ Fits(n) /\ n.step # "commit"
    BY <2>2 DEF Request, Fits
  <2>4. requests' = [requests EXCEPT ![r] = n] /\ late' = late
    BY <1>1, <1>3 DEF GoTo
  <2> HIDE DEF n
  <2> QED
    BY <1>1, <2>3, <2>4, PassInv DEF At
<1> QED
  BY <1>2, <1>3 DEF Find

LEMMA HashInv ==
    ASSUME Inv, NEW r \in Requests, Hash(r)
    PROVE  Inv'
<1> DEFINE q == requests[r]
           n(step) == [q EXCEPT !.step = step]
<1>1. q.step = "hash" /\ UNCHANGED <<users, orgs, tokens, drawn, left>> /\ requests \in [Requests -> Request \cup {Idle}]
  BY DEF Hash, At, Inv, TypeOK
<1>2. \/ /\ q \in [kind : {"add"}, step : {"check", "hash", "create"}, email : Emails, role : Roles, org : Orgs]
         /\ q.org \in orgs
      \/ q \in [kind : {"register"}, step : {"hash", "user"}, email : Emails, org : Orgs]
  BY <1>1, Shapes DEF Request, Wish, Idle, Fits
<1>3. PICK step \in {"create", "user"} :
        /\ GoTo(r, step)
        /\ step = IF q.kind = "add" THEN "create" ELSE "user"
  BY DEF Hash
<1>4. n(step) \in Request /\ n(step).step = step /\ (step = "create" => n(step).org \in orgs)
  BY <1>2, <1>3 DEF Request, Wish
<1>5. Fits(n(step)) /\ n(step).step # "commit"
  BY <1>4 DEF Fits
<1>6. requests' = [requests EXCEPT ![r] = n(step)] /\ late' = late
  BY <1>1, <1>3 DEF GoTo
<1> HIDE DEF n
<1> QED
  BY <1>1, <1>4, <1>5, <1>6, PassInv DEF At

LEMMA CompareInv ==
    ASSUME Inv, NEW r \in Requests, Compare(r)
    PROVE  Inv'
<1>1. End(r) /\ UNCHANGED <<users, orgs, drawn, left>> /\ tokens' \subseteq tokens \cup {requests[r].user}
  BY DEF Compare
<1>2. requests[r].user \in Token /\ Good(requests[r].user)
  BY Shapes DEF Compare, At, Fits
<1> QED
  BY <1>1, <1>2, TokensGood, EndInv

(* Registration. *)
LEMMA CreateOrganizationInv ==
    ASSUME Inv, NEW r \in Requests, CreateOrganization(r)
    PROVE  Inv'
<1> DEFINE q == requests[r]
<1>1. PICK o \in FreeOrgs : Pass(r, [kind |-> "register", step |-> "hash", email |-> q.email, org |-> o])
  BY DEF CreateOrganization
<1> DEFINE n == [kind |-> "register", step |-> "hash", email |-> q.email, org |-> o]
<1>2. q.step = "organization" /\ UNCHANGED <<users, orgs, tokens, drawn, left>>
  BY DEF CreateOrganization, At
<1>3. q.email \in Emails /\ o \in Orgs
  BY <1>2, Shapes DEF FreeOrgs
<1>4. n \in Request /\ Fits(n) /\ n.step # "commit"
  BY <1>3 DEF Request, Fits
<1>5. requests' = [requests EXCEPT ![r] = n] /\ late' = late
  BY <1>1 DEF Pass, GoOn
<1> HIDE DEF n
<1> QED
  BY <1>2, <1>4, <1>5, PassInv DEF At

LEMMA InsertAdminInv ==
    ASSUME Inv, NEW r \in Requests, InsertAdmin(r)
    PROVE  Inv'
<1> DEFINE q == requests[r]
<1>1. q.step = "user" /\ ~ Waits(r, q.email) /\ UNCHANGED <<users, orgs, tokens, drawn, left>>
  BY DEF InsertAdmin, At
<1>2. CASE End(r)
  BY <1>1, <1>2, EndInv, TokensGood
<1>3. ASSUME Unique(q.email, None), NEW i \in FreeIds,
             Pass(r, [kind |-> "register", step |-> "commit", email |-> q.email, org |-> q.org, id |-> i])
      PROVE  Inv'
  <2> DEFINE n == [kind |-> "register", step |-> "commit", email |-> q.email, org |-> q.org, id |-> i]
  <2>1. q.email \in Emails /\ q.org \in Orgs /\ i \in Ids /\ ~ Exists(i)
    BY <1>1, Shapes DEF FreeIds
  <2>2. Holders(q.email) = {}
    BY <1>3, <2>1, AccountsAssumption DEF Unique, Holders, Exists, FreeIds, Inv, TypeOK
  <2>3. n \in Request /\ Fits(n)
    BY <2>1, <2>2 DEF Request, Fits
  <2>4. \A p \in Requests : p # r /\ At(p, "commit") =>
            requests[p].id # n.id /\ requests[p].email # n.email
    BY <1>1, <1>3 DEF Waits, FreeIds, Inserted
  <2>5. requests' = [requests EXCEPT ![r] = n] /\ late' = late
    BY <1>3 DEF Pass, GoOn
  <2>6. r \notin late
    BY <1>1 DEF Inv, LateInv, At
  <2> HIDE DEF n
  <2> QED
    BY <1>1, <2>3, <2>4, <2>5, <2>6, TokensGood, Quiet
<1> QED
  BY <1>2, <1>3 DEF InsertAdmin

LEMMA CommitInv ==
    ASSUME Inv, NEW r \in Requests, Commit(r)
    PROVE  Inv'
<1> DEFINE q == requests[r]
           admin == [email |-> q.email, org |-> q.org, role |-> "ADMIN"]
<1>1. /\ q.step = "commit" /\ EndWith(r, q.id) /\ UNCHANGED left /\ drawn' = drawn \cup {q.id}
      /\ orgs' = orgs \cup {q.org}
      /\ users' = [users EXCEPT ![q.id] = admin]
      /\ tokens' \subseteq tokens \cup {TokenOf(q.id, admin)}
  BY DEF Commit, At
<1>2. q.email \in Emails /\ q.org \in Orgs /\ q.id \in Ids
  BY <1>1, Shapes
<1>3. ~ Exists(q.id) /\ Holders(q.email) = {}
  BY <1>1, Shapes DEF Fits
<1>4. admin \in User /\ admin # None /\ admin.org = q.org /\ admin.email = q.email
  BY <1>2, AccountsAssumption DEF User, Roles
<1> HIDE DEF admin
<1>5. /\ users' \in [Ids -> User \cup {None}]
      /\ users'[q.id] = admin
      /\ \A i \in Ids : i # q.id => users'[i] = users[i]
  BY <1>1, <1>2, <1>4 DEF Inv, TypeOK
<1>6. \A i \in Ids : Exists(i) => users'[i] # None /\ users'[i].org = users[i].org
  BY <1>3, <1>5 DEF Exists
<1>7. ASSUME NEW p \in late' PROVE users'[requests[p].by.id] = None
  <2>1. p \in late /\ requests[p].by.id # q.id
    BY <1>1, <1>7 DEF EndWith
  <2>2. requests[p].by.id \in Ids /\ ~ Exists(requests[p].by.id)
    BY <2>1, LateFacts
  <2> QED
    BY <1>5, <2>1, <2>2 DEF Exists
<1>8. \A i, j \in Ids : users'[i] # None /\ users'[j] # None /\ users'[i].email = users'[j].email => i = j
  BY <1>3, <1>4, <1>5 DEF Inv, TypeOK, Exists, Holders
<1>9. \A i \in Ids : users'[i] # None => users'[i].org \in orgs'
  BY <1>1, <1>4, <1>5 DEF Inv, TypeOK, Exists
<1>10. ASSUME NEW p \in Requests, p # r, At(p, "commit")
       PROVE  /\ users'[requests[p].id] = None
              /\ \A i \in Ids : users'[i] # None => users'[i].email # requests[p].email
  <2>1. requests[p].id # q.id /\ requests[p].email # q.email
    BY <1>1, <1>10 DEF Inv, Apart, At
  <2>2. /\ requests[p].id \in Ids /\ ~ Exists(requests[p].id)
        /\ Holders(requests[p].email) = {}
    BY <1>10, Shapes DEF At, Fits
  <2> QED
    BY <1>1, <1>4, <1>5, <2>1, <2>2 DEF Exists, Holders
<1>11. tokens' \subseteq Token /\ \A t \in tokens' : t \in tokens \/ Good(t)'
  BY <1>1, <1>2, <1>4, <1>5, TokensGood DEF TokenOf, Token, Good, Exists, User
<1>12. /\ orgs \subseteq orgs' /\ orgs' \subseteq Orgs /\ drawn' \subseteq Ids
       /\ left \subseteq left' /\ left' \subseteq Ids \X Orgs
  <2>1. left' = left /\ left \subseteq Ids \X Orgs
    BY <1>1 DEF Inv, TypeOK
  <2> QED
    BY <1>1, <1>2, <2>1 DEF Inv, TypeOK
<1>13. requests' = [requests EXCEPT ![r] = Idle] /\ late' \subseteq late \ {r}
  BY <1>1 DEF EndWith, GoOn
<1>14. \A i \in Ids : Exists(i) =>
          (users'[i] # None /\ users'[i].org = users[i].org) \/ <<i, users[i].org>> \in left'
  BY <1>6
<1> QED
  BY <1>5, <1>7, <1>8, <1>9, <1>10, <1>11, <1>12, <1>13, <1>14, Written, Zenon

(* Writes outside of transactions. *)
LEMMA CreateUserInv ==
    ASSUME Inv, NEW r \in Requests, CreateUser(r)
    PROVE  Inv'
<1> DEFINE q == requests[r]
<1>1. q.step = "create" /\ ~ Waits(r, q.email) /\ UNCHANGED <<orgs, tokens, left>>
  BY DEF CreateUser, At
<1>2. q.email \in Emails /\ q.org \in orgs /\ q.role \in Roles
  BY <1>1, Shapes
<1>3. CASE End(r) /\ UNCHANGED <<users, drawn>>
  BY <1>1, <1>3, EndInv, TokensGood
<1>4. ASSUME Unique(q.email, None), NEW i \in FreeIds,
             EndWith(r, i), drawn' = drawn \cup {i},
             users' = [users EXCEPT ![i] = [email |-> q.email, org |-> q.org, role |-> q.role]]
      PROVE  Inv'
  <2> DEFINE user == [email |-> q.email, org |-> q.org, role |-> q.role]
  <2>1. i \in Ids /\ ~ Exists(i)
        /\ \A p \in Requests : At(p, "commit") => requests[p].id # i
    BY DEF FreeIds, Inserted
  <2>2. Holders(q.email) = {}
    BY <1>4, AccountsAssumption DEF Unique, Holders
  <2>3. user \in User /\ user # None /\ user.org \in orgs /\ user.email = q.email
    BY <1>2, AccountsAssumption DEF User, Inv, TypeOK
  <2>4. users' = [users EXCEPT ![i] = user]
    BY <1>4
  <2> HIDE DEF user
  <2>5. /\ users' \in [Ids -> User \cup {None}]
        /\ users'[i] = user
        /\ \A j \in Ids : j # i => users'[j] = users[j]
    BY <2>1, <2>3, <2>4 DEF Inv, TypeOK
  <2>6. \A j \in Ids : Exists(j) => users'[j] # None /\ users'[j].org = users[j].org
    BY <2>1, <2>5 DEF Exists
  <2>7. ASSUME NEW p \in late' PROVE users'[requests[p].by.id] = None
    <3>1. p \in late /\ requests[p].by.id # i
      BY <1>4, <2>7 DEF EndWith
    <3>2. requests[p].by.id \in Ids /\ ~ Exists(requests[p].by.id)
      BY <3>1, LateFacts
    <3> QED
      BY <2>5, <3>1, <3>2 DEF Exists
  <2>8. \A j, k \in Ids : users'[j] # None /\ users'[k] # None /\ users'[j].email = users'[k].email => j = k
    BY <2>2, <2>3, <2>5 DEF Inv, TypeOK, Exists, Holders
  <2>9. \A j \in Ids : users'[j] # None => users'[j].org \in orgs'
    BY <1>1, <2>3, <2>5 DEF Inv, TypeOK, Exists
  <2>10. ASSUME NEW p \in Requests, p # r, At(p, "commit")
         PROVE  /\ users'[requests[p].id] = None
                /\ \A j \in Ids : users'[j] # None => users'[j].email # requests[p].email
    <3>1. requests[p].id # i /\ requests[p].email # q.email
      BY <1>1, <2>1, <2>10 DEF Waits
    <3>2. /\ requests[p].id \in Ids /\ ~ Exists(requests[p].id)
          /\ Holders(requests[p].email) = {}
      BY <2>10, Shapes DEF At, Fits
    <3> QED
      BY <1>1, <2>3, <2>5, <3>1, <3>2 DEF Exists, Holders
  <2>11. /\ orgs \subseteq orgs' /\ orgs' \subseteq Orgs /\ drawn' \subseteq Ids
         /\ left' = left /\ left \subseteq Ids \X Orgs
         /\ requests' = [requests EXCEPT ![r] = Idle] /\ late' \subseteq late \ {r}
    BY <1>1, <1>4, <2>1 DEF Inv, TypeOK, EndWith, GoOn
  <2> QED
    BY <1>1, <2>5, <2>6, <2>7, <2>8, <2>9, <2>10, <2>11, TokensGood, Written
<1> QED
  BY <1>3, <1>4 DEF CreateUser

(* What an update sets fits the columns.                                      *)
LEMMA EditFacts ==
    ASSUME Inv, NEW r \in Requests, Of(r, "edit", "write")
    PROVE  LET q == requests[r] IN
           /\ q.id \in Ids /\ q.set.email \in Emails \cup {None} /\ q.set.role \in Roles \cup {None}
           /\ q.set.org \in Orgs \cup {None} /\ q.set.id \in Ids \cup {None}
           /\ Given(q.set.id, q.id) \in Ids
<1> DEFINE q == requests[r]
<1>1. q \in [kind : {"edit"}, step : {"find", "check", "write"}, id : Ids, set : Edits]
  BY Shapes DEF Of, At, Request, Wish, Idle
<1> QED
  BY <1>1, AccountsAssumption DEF Given

LEMMA UpdatedFacts ==
    ASSUME Inv, NEW r \in Requests, Of(r, "edit", "write"), Fitting(requests[r])
    PROVE  LET q == requests[r] IN
           /\ Updated(q) \in User /\ Updated(q) # None
           /\ Updated(q).org \in orgs
           /\ q.set.org = None => Updated(q).org = users[q.id].org
           /\ Updated(q).email = Given(q.set.email, users[q.id].email)
<1> DEFINE q == requests[r]
<1>1. /\ q.id \in Ids /\ q.set.email \in Emails \cup {None} /\ q.set.role \in Roles \cup {None}
      /\ q.set.org \in orgs \cup {None} /\ Exists(q.id)
  BY EditFacts DEF Fitting
<1>2. users[q.id] \in User /\ users[q.id].org \in orgs /\ orgs \subseteq Orgs
  BY <1>1 DEF Inv, TypeOK, Exists
<1>3. /\ Given(q.set.email, users[q.id].email) \in Emails
      /\ Given(q.set.org, users[q.id].org) \in orgs
      /\ Given(q.set.role, users[q.id].role) \in Roles
      /\ q.set.org = None => Given(q.set.org, users[q.id].org) = users[q.id].org
  BY <1>1, <1>2 DEF Given, User
<1>4. Updated(q) \in User
  BY <1>2, <1>3 DEF Updated, User
<1> QED
  BY <1>3, <1>4, AccountsAssumption DEF Updated

LEMMA UpdateUserInv ==
    ASSUME Inv, NEW r \in Requests, UpdateUser(r)
    PROVE  Inv'
<1> DEFINE q == requests[r]
           old == q.id
           id == Given(q.set.id, q.id)
           row == Updated(q)
<1>1. /\ ~ Waits(r, q.set.email) /\ ~ Inserted(q.set.id) /\ UNCHANGED <<orgs, tokens, drawn>>
      /\ Of(r, "edit", "write")
  BY DEF UpdateUser
<1>2. CASE End(r) /\ UNCHANGED <<users, left>>
  BY <1>1, <1>2, EndInv, TokensGood
<1>3. ASSUME Fitting(q),
             users' = [users EXCEPT ![old] = None, ![id] = row],
             IF q.set.id = None /\ q.set.org = None THEN UNCHANGED left ELSE Leaves(old),
             EndWith(r, id)
      PROVE  Inv'
  <2>1. /\ old \in Ids /\ id \in Ids /\ Exists(old) /\ users \in [Ids -> User \cup {None}]
        /\ id = old \/ ~ Exists(id)
    BY <1>1, <1>3, EditFacts DEF Fitting, Given, Inv, TypeOK
  <2>2. /\ row \in User /\ row # None /\ row.org \in orgs
        /\ q.set.org = None => row.org = users[old].org
        /\ row.email = Given(q.set.email, users[old].email)
    BY <1>1, <1>3, UpdatedFacts
  <2>3. id # old => q.set.id # None
    BY DEF Given
  <2>4. /\ old = q.id
        /\ q.set.id # None => id = q.set.id
    BY DEF Given
  <2> HIDE DEF row, id, old
  <2>5. \A j \in Ids : users'[j] = IF j = id THEN row ELSE IF j = old THEN None ELSE users[j]
    BY <1>3, <2>1
  <2>6. users' \in [Ids -> User \cup {None}]
    BY <1>3, <2>1, <2>2
  <2>7. users[old] \in User /\ users[old].org \in Orgs
    BY <2>1 DEF Exists, User
  <2>8. ASSUME NEW j \in Ids, Exists(j)
        PROVE  (users'[j] # None /\ users'[j].org = users[j].org) \/ <<j, users[j].org>> \in left'
    <3>1. CASE j # old
      BY <2>1, <2>5, <2>8, <3>1 DEF Exists
    <3>2. CASE j = old /\ q.set.id = None /\ q.set.org = None
      BY <2>2, <2>3, <2>5, <3>2
    <3>3. CASE j = old /\ ~ (q.set.id = None /\ q.set.org = None)
      BY <1>3, <3>3 DEF Leaves
    <3> QED
      BY <3>1, <3>2, <3>3
  <2>9. ASSUME NEW p \in late' PROVE users'[requests[p].by.id] = None
    <3>1. p \in late /\ requests[p].by.id # id
      BY <1>3, <2>9 DEF EndWith
    <3>2. requests[p].by.id \in Ids /\ ~ Exists(requests[p].by.id)
      BY <3>1, LateFacts
    <3> QED
      BY <2>5, <3>1, <3>2 DEF Exists
  <2>10. ASSUME NEW j \in Ids, j # id, users'[j] # None
         PROVE  j # old /\ Exists(j) /\ users'[j] = users[j] /\ users'[j].email # row.email
    <3>1. j # old /\ users'[j] = users[j] /\ Exists(j)
      BY <2>5, <2>10, Zenon DEF Exists
    <3>2. users[j].email # users[old].email
      BY <2>1, <3>1, Zenon DEF Inv, TypeOK
    <3>3. users[j].email # q.set.email
      BY <1>3, <3>1, <2>4, Zenon DEF Fitting, Unique, Holders
    <3> QED
      BY <2>2, <3>1, <3>2, <3>3, Zenon DEF Given
  <2>11. users'[id] = row
    BY <2>1, <2>5
  <2>12. ASSUME NEW j \in Ids, NEW k \in Ids, users'[j] # None, users'[k] # None,
                users'[j].email = users'[k].email
         PROVE  j = k
    <3>1. CASE j = id \/ k = id
      BY <2>10, <2>11, <2>12, <3>1, Zenon
    <3>2. CASE j # id /\ k # id
      <4>1. users'[j] = users[j] /\ users'[k] = users[k] /\ Exists(j) /\ Exists(k)
        BY <2>10, <2>12, <3>2, Zenon
      <4>2. users[j].email = users[k].email
        BY <2>12, <4>1, Zenon
      <4> QED
        BY <4>1, <4>2, Zenon DEF Inv, TypeOK
    <3> QED
      BY <3>1, <3>2
  <2>13. ASSUME NEW j \in Ids, users'[j] # None PROVE users'[j].org \in orgs'
    <3>1. CASE j = id
      BY <1>1, <2>2, <2>11, <3>1
    <3>2. CASE j # id
      <4>1. Exists(j) /\ users'[j] = users[j]
        BY <2>10, <2>13, <3>2
      <4> QED
        BY <1>1, <4>1, Zenon DEF Inv, TypeOK
    <3> QED
      BY <3>1, <3>2
  <2>14. ASSUME NEW p \in Requests, p # r, At(p, "commit")
         PROVE  /\ users'[requests[p].id] = None
                /\ \A j \in Ids : users'[j] # None => users'[j].email # requests[p].email
    <3>1. requests[p].email # q.set.email /\ requests[p].id # q.set.id
      BY <1>1, <2>14 DEF Waits, Inserted
    <3>2. /\ requests[p].id \in Ids /\ ~ Exists(requests[p].id)
          /\ Holders(requests[p].email) = {}
      BY <2>14, Shapes DEF At, Fits
    <3>3. requests[p].id # id
      BY <2>1, <2>3, <2>4, <3>1, <3>2
    <3>4. users'[requests[p].id] = None
      BY <2>5, <3>2, <3>3 DEF Exists
    <3>5. row.email # requests[p].email
      BY <2>1, <2>2, <3>1, <3>2 DEF Given, Holders
    <3>6. ASSUME NEW j \in Ids, users'[j] # None PROVE users'[j].email # requests[p].email
      <4>1. CASE j = id
        BY <2>11, <3>5, <4>1
      <4>2. CASE j # id
        <5>1. Exists(j) /\ users'[j] = users[j]
          BY <2>10, <3>6, <4>2
        <5> QED
          BY <3>2, <5>1 DEF Holders
      <4> QED
        BY <4>1, <4>2
    <3> QED
      BY <3>4, <3>6
  <2>15. /\ orgs \subseteq orgs' /\ orgs' \subseteq Orgs /\ drawn' \subseteq Ids
         /\ left \subseteq left' /\ left' \subseteq Ids \X Orgs
         /\ requests' = [requests EXCEPT ![r] = Idle] /\ late' \subseteq late \ {r}
    <3>1. left \subseteq left' /\ left' \subseteq Ids \X Orgs
      BY <1>3, <2>1, <2>7 DEF Inv, TypeOK, Leaves
    <3> QED
      BY <1>1, <1>3, <3>1 DEF Inv, TypeOK, EndWith, GoOn
  <2> QED
    BY <1>1, <2>6, <2>8, <2>9, <2>12, <2>13, <2>14, <2>15, TokensGood, Written
<1> QED
  BY <1>2, <1>3 DEF UpdateUser

LEMMA DeleteUserInv ==
    ASSUME Inv, NEW r \in Requests, DeleteUser(r)
    PROVE  Inv'
<1> DEFINE id == requests[r].id
<1>1. /\ End(r) /\ UNCHANGED <<orgs, tokens, drawn>> /\ requests[r].kind = "remove" /\ requests[r].step = "write"
      /\ users' = [users EXCEPT ![id] = None]
      /\ IF Exists(id) THEN Leaves(id) ELSE UNCHANGED left
  BY DEF DeleteUser, Of, At
<1>2. id \in Ids
  BY <1>1, Shapes DEF Request, Wish, Idle
<1>3. /\ users' \in [Ids -> User \cup {None}]
      /\ users'[id] = None
      /\ \A j \in Ids : j # id => users'[j] = users[j]
  BY <1>1, <1>2 DEF Inv, TypeOK
<1>4. /\ left \subseteq left' /\ left' \subseteq Ids \X Orgs /\ drawn' \subseteq Ids
      /\ orgs' = orgs /\ orgs \subseteq Orgs
      /\ requests' = [requests EXCEPT ![r] = Idle] /\ late' \subseteq late \ {r}
  <2>1. Exists(id) => users[id].org \in Orgs
    BY <1>2 DEF Inv, TypeOK
  <2>2. left \subseteq left' /\ left' \subseteq Ids \X Orgs
    BY <1>1, <1>2, <2>1 DEF Inv, TypeOK, Leaves
  <2> QED
    BY <1>1, <2>2 DEF Inv, TypeOK, End, GoOn
<1>5. \A j \in Ids : Exists(j) => (users'[j] # None /\ users'[j].org = users[j].org) \/ <<j, users[j].org>> \in left'
  BY <1>1, <1>3 DEF Exists, Leaves
<1>6. ASSUME NEW p \in late' PROVE users'[requests[p].by.id] = None
  <2>1. requests[p].by.id \in Ids /\ ~ Exists(requests[p].by.id)
    BY <1>4, <1>6, LateFacts
  <2> QED
    BY <1>3, <2>1 DEF Exists
<1>7. \A j, k \in Ids : users'[j] # None /\ users'[k] # None /\ users'[j].email = users'[k].email => j = k
  BY <1>3 DEF Inv, TypeOK, Exists
<1>8. \A j \in Ids : users'[j] # None => users'[j].org \in orgs'
  BY <1>1, <1>3 DEF Inv, TypeOK, Exists
<1>9. ASSUME NEW p \in Requests, p # r, At(p, "commit")
      PROVE  /\ users'[requests[p].id] = None
             /\ \A j \in Ids : users'[j] # None => users'[j].email # requests[p].email
  <2>1. /\ requests[p].id \in Ids /\ ~ Exists(requests[p].id)
        /\ Holders(requests[p].email) = {}
    BY <1>9, Shapes DEF At, Fits
  <2> QED
    BY <1>1, <1>3, <2>1 DEF Exists, Holders
<1>10. /\ tokens' \subseteq Token /\ \A t \in tokens' : t \in tokens \/ Good(t)'
       /\ orgs \subseteq orgs' /\ orgs' \subseteq Orgs
  BY <1>1, <1>4, TokensGood
<1> QED
  BY <1>3, <1>4, <1>5, <1>6, <1>7, <1>8, <1>9, <1>10, Written, Zenon

LEMMA CrashInv == Inv /\ Crash => Inv'
<1> SUFFICES ASSUME Inv, Crash PROVE Inv'
  OBVIOUS
<1>1. requests' = [p \in Requests |-> Idle] /\ late' = {} /\ UNCHANGED <<users, orgs, tokens, drawn, left>>
  BY DEF Crash
<1>2. TypeOK'
  BY <1>1 DEF Inv, TypeOK, Exists
<1>3. (\A t \in tokens : Good(t))'
  BY <1>1 DEF Inv, Good, Exists
<1>4. (\A p \in Requests : Fits(requests[p]))' /\ Apart' /\ LateInv'
  BY <1>1 DEF Fits, Apart, LateInv, At, Idle
<1> QED
  BY <1>2, <1>3, <1>4 DEF Inv

LEMMA StepInv == Inv /\ [Next]_vars => Inv'
<1> SUFFICES ASSUME Inv, [Next]_vars PROVE Inv'
  OBVIOUS
<1>1. ASSUME NEW r \in Requests, Fails(r)
      PROVE  Inv'
  BY <1>1, EndInv, TokensGood DEF Fails
<1>2. ASSUME NEW r \in Requests, Step(r)
      PROVE  Inv'
  BY <1>1, <1>2, AskStep, ValidateInv, CheckInv, FindInv, HashInv, CompareInv, CreateOrganizationInv,
     InsertAdminInv, CommitInv, CreateUserInv, UpdateUserInv, DeleteUserInv DEF Step
<1>3. CASE UNCHANGED vars
  BY <1>3 DEF vars, Inv, TypeOK, Good, Fits, Apart, LateInv, At, Exists, Holders
<1> QED
  BY <1>2, <1>3, CrashInv DEF Next

(* Types, the unique address and the reference to the organization hold in     *)
(* every state (users.repository.ts, auth.service.ts, schema.prisma).          *)
THEOREM TypeCorrect == Spec => []TypeOK
<1>1. Inv => TypeOK
  BY DEF Inv
<1> QED
  BY InitInv, StepInv, <1>1, PTL DEF Spec

(* A token that was given names a user of the organization it speaks for, or   *)
(* one who was and has been deleted, moved or renumbered since by a request    *)
(* that asked for it (auth.service.ts, lines 29-58 and 80-119;                  *)
(* users.repository.ts, lines 42-46).                                          *)
THEOREM TokensKept == Spec => []TokensNameUsers
<1>1. Inv => TokensNameUsers
  BY DEF Inv, Good, TokensNameUsers
<1> QED
  BY InitInv, StepInv, <1>1, PTL DEF Spec

(* A request sent when its token named nobody stays before the guard, unless   *)
(* the id is given to another (jwt.strategy.ts, lines 20-35).                  *)
THEOREM LateRefused == Spec => []LateAreRefused
<1>1. Inv => LateAreRefused
  BY DEF Inv, LateInv, LateAreRefused
<1> QED
  BY InitInv, StepInv, <1>1, PTL DEF Spec

(* An organization is never made without its administrator                     *)
(* (auth.service.ts, lines 79-119).                                            *)
THEOREM OrganizationWithAdmin == Spec => BothOrNeither
<1> DEFINE Founded ==
      \A o \in orgs' \ orgs : \E i \in Ids :
          ~ Exists(i) /\ users'[i] # None /\ users'[i].org = o /\ users'[i].role = "ADMIN"
<1>1. ASSUME Inv, NEW r \in Requests, Commit(r)
      PROVE  Founded
  <2> DEFINE q == requests[r]
             admin == [email |-> q.email, org |-> q.org, role |-> "ADMIN"]
  <2>1. /\ q.step = "commit" /\ orgs' = orgs \cup {q.org}
        /\ users' = [users EXCEPT ![q.id] = admin]
    BY <1>1 DEF Commit, At
  <2>2. q.id \in Ids /\ ~ Exists(q.id) /\ q.email \in Emails /\ q.org \in Orgs
    BY <1>1, <2>1, Shapes DEF Fits
  <2>3. admin # None /\ admin.org = q.org /\ admin.role = "ADMIN"
    BY <2>2, AccountsAssumption DEF User, Roles
  <2> HIDE DEF admin
  <2>4. users'[q.id] = admin
    BY <1>1, <2>1, <2>2 DEF Inv, TypeOK
  <2> QED
    BY <2>1, <2>2, <2>3, <2>4
<1>2. ASSUME Inv, [Next]_vars
      PROVE  Founded
  <2>1. CASE \E r \in Requests : Commit(r)
    BY <1>1, <1>2, <2>1
  <2>2. CASE ~ \E r \in Requests : Commit(r)
    <3>1. ASSUME NEW r \in Requests, Step(r)
          PROVE  orgs' = orgs
      <4>1. CASE Register(r) \/ Login(r) \/ AddUser(r) \/ EditUser(r) \/ RemoveUser(r)
        <5>1. \E q : Ask(r, q)
          BY <4>1 DEF Register, Login, AddUser, EditUser, RemoveUser, WithToken
        <5> QED
          BY <5>1 DEF Ask
      <4>2. CASE Validate(r) \/ Check(r) \/ Find(r) \/ Hash(r) \/ Compare(r) \/ Fails(r)
        BY <4>2 DEF Validate, Check, Find, Hash, Compare, Fails
      <4>3. CASE CreateOrganization(r) \/ InsertAdmin(r)
        BY <4>3 DEF CreateOrganization, InsertAdmin
      <4>4. CASE CreateUser(r) \/ UpdateUser(r) \/ DeleteUser(r)
        BY <4>4 DEF CreateUser, UpdateUser, DeleteUser
      <4> QED
        BY <2>2, <3>1, <4>1, <4>2, <4>3, <4>4 DEF Step
    <3>2. orgs' = orgs
      BY <1>2, <3>1 DEF Next, Crash, vars
    <3> QED
      BY <3>2
  <2> QED
    BY <2>1, <2>2
<1>3. Inv /\ [Next]_vars => [Founded]_vars
  BY <1>2
<1> QED
  BY InitInv, StepInv, <1>3, PTL DEF Spec, BothOrNeither
=============================================================================
