------------------------------ MODULE Accounts -------------------------------
(***************************************************************************)
(* Registration, login and the token that follows (app/routers/auth.py,    *)
(* app/security.py, get_current_user), as concurrent requests over the     *)
(* users table, together with runs of scripts/seed.py.  The UNIQUE         *)
(* constraint on users.email decides races: an INSERT waits for an         *)
(* uncommitted one of the same address.                                    *)
(*                                                                         *)
(* An address is stored as EmailStr normalises it and compared as it is.   *)
(* A hash stands for the password it was made from, a token for the row    *)
(* it was minted for, of which it carries the id.  bcrypt takes 72 bytes   *)
(* and what it wrote itself: verify_password answers for a longer password *)
(* or a spoilt hash without computing one.                                 *)
(***************************************************************************)
EXTENDS Integers, FiniteSets

CONSTANTS
  Ids,        \* ids of accounts, each given out once
  Addresses,  \* e-mail addresses as clients spell them
  Canonical,  \* what EmailStr makes of each: the domain in lower case
  SeedEmail,  \* the address of the account that the seed script creates
  Passwords,
  TooLong,    \* those over 72 bytes
  Requests,   \* requests being served, and seed scripts running, at once
  None,       \* no address, no password
  MaxErrors,  \* bound: database errors and kills
  MaxSpoilt   \* bound: rows whose hash is overwritten

ASSUME CanonicalAssumption ==
  /\ Canonical \in [Addresses -> Addresses]
  /\ \A a \in Addresses : Canonical[Canonical[a]] = Canonical[a]
ASSUME SeedAssumption ==
  SeedEmail \in Addresses /\ Canonical[SeedEmail] = SeedEmail
ASSUME ErrorsAssumption == MaxErrors \in Nat
ASSUME PasswordsAssumption == TooLong \subseteq Passwords

VARIABLES
  users,   \* the committed table
  parents, \* ids of the users with the two children that the seed adds
  known,   \* every row it ever held: ids and tokens outlive their accounts
  spoilt,  \* ids of the users whose stored hash is no bcrypt string
  tokens,  \* the tokens minted so far
  req,     \* the requests: what was sent, the handler's state, the answer
  errors   \* errors so far

vars == <<users, parents, known, spoilt, tokens, req, errors>>

(* `typed` and `by` are not stored: how the owner spelled the address, and *)
(* who inserted the row.                                                   *)
Rows == [id : Ids, email : Addresses, password : Passwords,
         typed : Addresses, by : {"register", "seed"}]

Endpoints == {"register", "login", "me", "seed"}
Steps ==
  {"idle", "limit", "find", "insert", "commit", "refresh", "verify", "record", "lookup"}
Statuses == {0, 200, 201, 401, 409, 429, 500}

-----------------------------------------------------------------------------
Answer(r, status, row) ==
  req' = [req EXCEPT ![r].pc = "idle", ![r].status = status, ![r].row = row]

(* The address a registration stores.                                      *)
Email(r) == Canonical[req[r].address]

(* Rows inserted by others and not yet committed: only the index sees them.*)
Pending(r) ==
  UNION {req[s].row : s \in {t \in Requests \ {r} : req[t].pc = "commit"}}

(* Mistakes the runs must notice: taking a registration that may yet fail  *)
(* for an account, and a SELECT in the place of the unique index.          *)
TakenOrPending(r) == \E u \in users \cup Pending(r) : u.email = Email(r)
FreeInTable(r) == \A u \in users : u.email # Email(r)

(* IntegrityError, or room in the index.  Neither while another INSERT of  *)
(* the address is uncommitted: then PostgreSQL waits for it.               *)
Taken(r) == \E u \in users : u.email = Email(r)
Free(r) == \A u \in users \cup Pending(r) : u.email # Email(r)

(* A mistake the runs must notice: a token that names an address.          *)
NamedByAddress(token) == {u \in users : u.email = token.email}

(* db.get(User, user_id), with the subject of a token.                     *)
Named(token) == {u \in users : u.id = token.id}

(* bcrypt.checkpw raises a ValueError, and spends no time, for a password  *)
(* that is too long and for a hash that it cannot read.                    *)
Hashes(r) == req[r].password \notin TooLong /\ ~ req[r].unreadable

(* verify_password: does it match the hash of the row, if there is one?    *)
Matches(r) == Hashes(r) /\ \E u \in req[r].row : u.password = req[r].password

-----------------------------------------------------------------------------
Init ==
  /\ users = {}
  /\ parents = {}
  /\ known = {}
  /\ spoilt = {}
  /\ tokens = {}
  /\ req = [r \in Requests |->
       [pc |-> "idle", op |-> "me", address |-> None, password |-> None,
        token |-> {}, row |-> {}, hashes |-> 0, counted |-> 0, status |-> 0,
        mine |-> {}, unreadable |-> FALSE, expired |-> FALSE]]
  /\ errors = 0

(* A request arrives.  For the properties, `mine`: the accounts whose owner*)
(* would be logging in like this; `unreadable`: it has read a spoilt hash; *)
(* `expired`: its token was refused for its age.                           *)
Arrive(r, o, a, p, t) ==
  /\ req[r].pc = "idle"
  /\ req' = [req EXCEPT ![r] =
       [pc |-> CASE o = "me" -> "lookup" [] o = "seed" -> "find" [] OTHER -> "limit",
        op |-> o,
        address |-> a, password |-> p, token |-> t, row |-> {},
        hashes |-> 0, counted |-> 0, status |-> 0,
        mine |-> {u \in users : o = "login" /\ u.typed = a /\ u.password = p},
        unreadable |-> FALSE, expired |-> FALSE]]
  /\ UNCHANGED <<users, parents, known, spoilt, tokens, errors>>

(* Bound: an id is left for every registration under way.                  *)
IdsLeft ==
  Cardinality({r \in Requests :
                 /\ req[r].op \in {"register", "seed"}
                 /\ req[r].pc \in {"limit", "find", "insert", "commit"}})
    < Cardinality(Ids \ {u.id : u \in known})

(* The limit on the IP, or on the address at a login: which requests it    *)
(* refuses is RateLimiter's subject.                                       *)
TooMany(r) ==
  /\ req[r].pc = "limit"
  /\ Answer(r, 429, {})
  /\ UNCHANGED <<users, parents, known, spoilt, tokens, errors>>

(* register hashes the password before it looks at the database.           *)
HashPassword(r) ==
  /\ req[r].pc = "limit" /\ req[r].op = "register"
  /\ req' = [req EXCEPT ![r].pc = "insert", ![r].hashes = @ + 1]
  /\ UNCHANGED <<users, parents, known, spoilt, tokens, errors>>

(* The seed looks for its account, and is done if there is one.            *)
FindSeed(r) ==
  /\ req[r].pc = "find"
  /\ IF Taken(r)
       THEN Answer(r, 200, {})
       ELSE req' = [req EXCEPT ![r].pc = "insert", ![r].hashes = @ + 1]
  /\ UNCHANGED <<users, parents, known, spoilt, tokens, errors>>

(* The INSERT that db.commit() flushes, or the flush of the seed.  An      *)
(* IntegrityError becomes a 409, or the end of the seed.                   *)
Insert(r) ==
  /\ req[r].pc = "insert"
  /\ \/ Taken(r) /\ Answer(r, IF req[r].op = "seed" THEN 500 ELSE 409, {})
     \/ /\ Free(r)
        /\ \E i \in Ids :
             /\ \A u \in known \cup Pending(r) : u.id # i
             /\ req' = [req EXCEPT ![r].pc = "commit", ![r].row =
                  {[id |-> i, email |-> Email(r), password |-> req[r].password,
                    typed |-> req[r].address, by |-> req[r].op]}]
  /\ UNCHANGED <<users, parents, known, spoilt, tokens, errors>>

(* A mistake the runs must notice: the seed commits before it adds the     *)
(* children, and closing the session rolls them back.                      *)
StoreUserOnly(r) ==
  /\ users' = users \cup req[r].row
  /\ known' = known \cup req[r].row
  /\ UNCHANGED parents

(* What COMMIT stores: the user, and if it is the seed's its two children, *)
(* which are inserted in the same transaction.                             *)
Store(r) ==
  /\ users' = users \cup req[r].row
  /\ known' = known \cup req[r].row
  /\ parents' = IF req[r].op = "seed"
                  THEN parents \cup {u.id : u \in req[r].row} ELSE parents

(* COMMIT: register reads its row back, the seed is done.                  *)
Commit(r) ==
  /\ req[r].pc = "commit"
  /\ Store(r)
  /\ IF req[r].op = "seed"
       THEN Answer(r, 200, {})
       ELSE req' = [req EXCEPT ![r].pc = "refresh"]
  /\ UNCHANGED <<spoilt, tokens, errors>>

(* db.refresh raises if the account has gone already.                      *)
Refresh(r) ==
  /\ req[r].pc = "refresh"
  /\ IF req[r].row \subseteq users
       THEN Answer(r, 201, req[r].row)
       ELSE Answer(r, 500, {})
  /\ UNCHANGED <<users, parents, known, spoilt, tokens, errors>>

(* login looks the address up as it was typed.                             *)
FindAccount(r) ==
  /\ req[r].pc = "limit" /\ req[r].op = "login"
  /\ req' = [req EXCEPT ![r].pc = "verify",
       ![r].row = {u \in users : u.email = req[r].address},
       ![r].unreadable =
         \E u \in users : u.email = req[r].address /\ u.id \in spoilt]
  /\ UNCHANGED <<users, parents, known, spoilt, tokens, errors>>

(* The password is right: a token for the row that was read.               *)
MintToken(r) ==
  /\ req[r].pc = "verify"
  /\ Matches(r)
  /\ tokens' = tokens \cup req[r].row
  /\ req' = [req EXCEPT ![r].pc = "idle", ![r].status = 200, ![r].hashes = @ + 1]
  /\ UNCHANGED <<users, parents, known, spoilt, errors>>

(* A mistake the runs must notice: no bcrypt for an unknown address.       *)
RejectWithoutHash(r) ==
  /\ req[r].pc = "verify"
  /\ ~ Matches(r)
  /\ req' = [req EXCEPT ![r].pc = "record",
       ![r].hashes = IF req[r].row # {} /\ Hashes(r) THEN @ + 1 ELSE @]
  /\ UNCHANGED <<users, parents, known, spoilt, tokens, errors>>

(* It does not, or nobody has the address: then the dummy hash is checked. *)
(* bcrypt's ValueError is a wrong password like any other.                 *)
RejectPassword(r) ==
  /\ req[r].pc = "verify"
  /\ ~ Matches(r)
  /\ req' = [req EXCEPT ![r].pc = "record",
                        ![r].hashes = IF Hashes(r) THEN @ + 1 ELSE @]
  /\ UNCHANGED <<users, parents, known, spoilt, tokens, errors>>

(* _record_failure, and the 401.                                           *)
RecordFailure(r) ==
  /\ req[r].pc = "record"
  /\ req' = [req EXCEPT ![r].pc = "idle", ![r].status = 401, ![r].row = {},
                        ![r].counted = @ + 1]
  /\ UNCHANGED <<users, parents, known, spoilt, tokens, errors>>

(* get_current_user: the token has not expired, its account is looked up.  *)
Lookup(r) ==
  /\ req[r].pc = "lookup"
  /\ \E token \in req[r].token :
       IF Named(token) # {} THEN Answer(r, 200, Named(token)) ELSE Answer(r, 401, {})
  /\ UNCHANGED <<users, parents, known, spoilt, tokens, errors>>

(* ... or it has expired by now.                                           *)
TokenExpired(r) ==
  /\ req[r].pc = "lookup"
  /\ req' = [req EXCEPT ![r].pc = "idle", ![r].status = 401, ![r].row = {},
                        ![r].expired = TRUE]
  /\ UNCHANGED <<users, parents, known, spoilt, tokens, errors>>

(* The connection breaks or Lambda kills the request: rolled back, unless  *)
(* COMMIT had got through (the second disjunct).                           *)
Fail(r) ==
  /\ req[r].pc # "idle"
  /\ errors < MaxErrors
  /\ errors' = errors + 1
  /\ Answer(r, 500, {})
  /\ \/ UNCHANGED <<users, parents, known>>
     \/ req[r].pc = "commit" /\ Store(r)
  /\ UNCHANGED <<spoilt, tokens>>

(* An account is deleted by hand, and its children with it: no endpoint    *)
(* does.                                                                   *)
Remove(u) ==
  /\ users' = users \ {u}
  /\ parents' = parents \ {u.id}
  /\ UNCHANGED <<known, spoilt, tokens, req, errors>>

(* A stored hash is overwritten by hand or by a bad migration.             *)
Spoil(u) ==
  /\ Cardinality(spoilt) < MaxSpoilt
  /\ spoilt' = spoilt \cup {u.id}
  /\ UNCHANGED <<users, parents, known, tokens, req, errors>>

Step(r) ==
  \/ TooMany(r)
  \/ HashPassword(r)
  \/ FindSeed(r)
  \/ Insert(r)
  \/ Commit(r)
  \/ Refresh(r)
  \/ FindAccount(r)
  \/ MintToken(r)
  \/ RejectPassword(r)
  \/ RecordFailure(r)
  \/ Lookup(r)
  \/ TokenExpired(r)

Next ==
  \/ \E r \in Requests, a \in Addresses, p \in Passwords :
       \/ /\ IdsLeft /\ p \notin TooLong
          /\ \/ Arrive(r, "register", a, p, {})
             \/ a = SeedEmail /\ Arrive(r, "seed", a, p, {})
       \/ Arrive(r, "login", a, p, {})
  \/ \E r \in Requests :
       \/ \E t \in tokens : Arrive(r, "me", None, None, {t})
       \/ Step(r)
       \/ Fail(r)
  \/ \E u \in users : Remove(u) \/ Spoil(u)

Spec == Init /\ [][Next]_vars

-----------------------------------------------------------------------------
(* Properties.                                                             *)

TypeOK ==
  /\ users \subseteq known
  /\ parents \subseteq {u.id : u \in users}
  /\ known \subseteq Rows
  /\ spoilt \subseteq {u.id : u \in known}
  /\ tokens \subseteq known
  /\ req \in [Requests ->
       [pc : Steps, op : Endpoints, address : Addresses \cup {None},
        password : Passwords \cup {None}, token : SUBSET known,
        row : SUBSET Rows, hashes : 0 .. 1, counted : 0 .. 1,
        status : Statuses, mine : SUBSET known,
        unreadable : BOOLEAN, expired : BOOLEAN]]
  /\ errors \in 0 .. MaxErrors

(* The UNIQUE constraint "cannot be raced": concurrent registrations of    *)
(* one address, whatever the case of its domain, leave one account.        *)
OneAccountPerAddress ==
  \A u, v \in users : u.email = v.email => u = v

(* A 409 says the address is registered, and a registration of it has been *)
(* committed, whose account may have gone since: it is never the work of   *)
(* one that failed in the end.                                             *)
ConflictWasReal ==
  \A r \in Requests : req[r].status = 409 =>
    \E u \in known : u.email = Email(r)

(* "No such user" and "wrong password" are one answer: whichever the case, *)
(* whoever registers or goes meanwhile, a 401 has recorded one failure, and*)
(* cost one bcrypt or, for a password over 72 bytes, none.  The only       *)
(* account to tell apart is one whose stored hash bcrypt cannot read: none *)
(* is computed for it (security.py:97-104).                                *)
FailuresLookAlike ==
  \A r \in Requests : req[r].op = "login" /\ req[r].status = 401 =>
    /\ req[r].counted = 1
    /\ ~ req[r].unreadable =>
         req[r].hashes = IF req[r].password \in TooLong THEN 0 ELSE 1

(* A seed that is killed, or meets another seed or a registration of its   *)
(* address, never leaves an account without its children, which no other   *)
(* run would add: it finds the account and stops.                          *)
SeedIsWhole == \A u \in users : u.by = "seed" => u.id \in parents

(* A token opens the account it was minted for or none: not the one that   *)
(* registers the same address after the first has gone.                    *)
TokenOpensItsAccount ==
  \A r \in Requests : req[r].op = "me" /\ req[r].status = 200 =>
    req[r].row = req[r].token

(* README.md:1527, "Expiry is the only revocation mechanism": a token is   *)
(* refused when it has expired and never before, not even when its account *)
(* has been deleted.                                                       *)
OnlyExpiryRevokes ==
  \A r \in Requests : req[r].op = "me" /\ req[r].status = 401 => req[r].expired

(* tests/test_auth.py:155, "The whole flow, end to end, as a client would  *)
(* actually do it": who registers can log in with the same credentials.    *)
RegisteredCanLogIn ==
  \A r \in Requests : req[r].op = "login" /\ req[r].status = 401 =>
    req[r].mine \cap users = {}

=============================================================================
