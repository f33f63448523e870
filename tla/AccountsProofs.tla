--------------------------- MODULE AccountsProofs ----------------------------
(***************************************************************************)
(* What TLAPS proves of Accounts, for every number of requests and seeds,  *)
(* every set of addresses and spellings, and every number of failures.     *)
(***************************************************************************)
EXTENDS Accounts, TLAPS

(* ---- The inductive invariant ------------------------------------------ *)

Request ==
  [pc : Steps, op : Endpoints, address : Addresses \cup {None},
   password : Passwords \cup {None}, token : SUBSET Rows, row : SUBSET Rows,
   hashes : 0 .. 1, counted : 0 .. 1, status : Statuses, mine : SUBSET Rows,
   unreadable : BOOLEAN, expired : BOOLEAN]

(* The endpoint that each step belongs to.                                 *)
StepOfEndpoint(q) ==
  /\ q.pc = "limit" => q.op \in {"register", "login"}
  /\ q.pc = "find" => q.op = "seed"
  /\ q.pc \in {"insert", "commit"} => q.op \in {"register", "seed"}
  /\ q.pc = "refresh" => q.op = "register"
  /\ q.pc \in {"verify", "record"} => q.op = "login"
  /\ q.pc = "lookup" => q.op = "me"

(* The bcrypts that a refused login has cost.                              *)
Cost(q) == IF q.password \notin TooLong /\ ~ q.unreadable THEN 1 ELSE 0

(* What a request knows, may still rely on or has been answered, when k are*)
(* the rows that there have ever been.                                     *)
Handling(q, k) ==
  /\ StepOfEndpoint(q)
  /\ q.pc # "idle" => q.status = 0
  /\ q.pc \notin {"idle", "lookup"} =>
       q.address \in Addresses /\ q.password \in Passwords
  /\ q.pc \in {"limit", "find", "verify"} => q.hashes = 0 /\ q.counted = 0
  /\ q.pc = "record" => q.hashes = Cost(q) /\ q.counted = 0
  /\ q.token \subseteq k /\ q.mine \subseteq k
  /\ q.pc = "lookup" => \E t \in k : q.token = {t}
  /\ q.pc = "verify" => q.row \subseteq k
  /\ q.pc = "commit" => \E p \in Rows : q.row = {p} /\ p.by = q.op
  /\ q.status = 409 => \E u \in k : u.email = Canonical[q.address]
  /\ q.op = "login" /\ q.status = 401 => q.hashes = Cost(q) /\ q.counted = 1
  /\ q.op = "me" /\ q.status = 200 => q.row = q.token

RequestsInv ==
  req \in [Requests -> Request] /\ \A r \in Requests : Handling(req[r], known)

TablesInv ==
  /\ users \subseteq known /\ known \subseteq Rows /\ tokens \subseteq known
  /\ parents \subseteq {u.id : u \in users}
  /\ spoilt \subseteq {u.id : u \in known}
  /\ \A u, v \in known : u.id = v.id => u = v
  /\ errors \in 0 .. MaxErrors

(* The unique index: a row that is being inserted clashes with no row that *)
(* is stored and with no other that is being inserted.                     *)
IndexInv ==
  \A r \in Requests : req[r].pc = "commit" => \A p \in req[r].row :
    /\ \A u \in users : u.email # p.email
    /\ \A u \in known : u.id # p.id
    /\ \A s \in Requests \ {r} : req[s].pc = "commit" =>
         \A q \in req[s].row : q.email # p.email /\ q.id # p.id

IInv ==
  RequestsInv /\ TablesInv /\ IndexInv /\ OneAccountPerAddress /\ SeedIsWhole

LEMMA IInvInit == Init => IInv
BY ErrorsAssumption
   DEF Init, IInv, RequestsInv, TablesInv, IndexInv, OneAccountPerAddress,
       SeedIsWhole, Request, Handling, StepOfEndpoint, Steps, Endpoints, Statuses

(* ---- One request changes ---------------------------------------------- *)

(* A step that stores nothing and inserts nothing.                         *)
LEMMA QuietKeeps ==
  ASSUME IInv, NEW r \in Requests, NEW q \in Request,
         req' = [req EXCEPT ![r] = q], Handling(q, known), q.pc # "commit",
         UNCHANGED <<users, parents, known, spoilt>>, tokens' \subseteq known,
         errors' \in 0 .. MaxErrors
  PROVE  IInv'
<1>1. RequestsInv'
  BY DEF IInv, RequestsInv
<1>2. TablesInv'
  BY DEF IInv, TablesInv
<1>3. IndexInv'
  BY DEF IInv, RequestsInv, IndexInv
<1> QED
  BY <1>1, <1>2, <1>3 DEF IInv, OneAccountPerAddress, SeedIsWhole

(* What is known only grows, and what a request knows stays true.          *)
LEMMA HandlingGrows ==
  ASSUME NEW k, NEW l, k \subseteq l, NEW q, Handling(q, k)
  PROVE  Handling(q, l)
BY DEF Handling

(* A COMMIT that gets through, whatever the request is told.               *)
LEMMA StoreKeeps ==
  ASSUME IInv, NEW r \in Requests, req[r].pc = "commit", Store(r),
         NEW q \in Request, req' = [req EXCEPT ![r] = q], q.pc # "commit",
         Handling(q, known), UNCHANGED <<spoilt, tokens>>, errors' \in 0 .. MaxErrors
  PROVE  IInv'
<1>1. PICK p \in Rows : req[r].row = {p} /\ p.by = req[r].op
  BY DEF IInv, RequestsInv, Handling
<1>2. users' = users \cup {p} /\ known' = known \cup {p}
  BY <1>1 DEF Store
<1>3. parents' = IF req[r].op = "seed" THEN parents \cup {p.id} ELSE parents
  BY <1>1 DEF Store
<1>4. (\A u \in users : u.email # p.email) /\ \A u \in known : u.id # p.id
  BY <1>1 DEF IInv, IndexInv
<1>5. RequestsInv'
  BY <1>2, HandlingGrows DEF IInv, RequestsInv
<1>6. TablesInv'
  BY <1>2, <1>3, <1>4 DEF IInv, TablesInv
<1>7. IndexInv'
  BY <1>1, <1>2 DEF IInv, RequestsInv, IndexInv
<1>8. OneAccountPerAddress'
  BY <1>2, <1>4 DEF IInv, OneAccountPerAddress
<1>9. SeedIsWhole'
  BY <1>1, <1>2, <1>3 DEF IInv, SeedIsWhole
<1> QED
  BY <1>5, <1>6, <1>7, <1>8, <1>9 DEF IInv


(* ---- The steps -------------------------------------------------------- *)

(* What Answer makes of a request.                                         *)
Answered(q, s, rows) == [q EXCEPT !.pc = "idle", !.status = s, !.row = rows]

LEMMA AnswerType ==
  ASSUME NEW q \in Request, NEW s \in Statuses, NEW rows \in SUBSET Rows
  PROVE  /\ Answered(q, s, rows) \in Request
         /\ Answered(q, s, rows).pc = "idle"
         /\ Answered(q, s, rows).status = s
         /\ Answered(q, s, rows).row = rows
         /\ \A f \in {"op", "address", "password", "token", "mine", "hashes",
                     "counted", "unreadable", "expired"} :
              Answered(q, s, rows)[f] = q[f]
BY DEF Request, Steps, Answered

LEMMA ArriveKeeps ==
  ASSUME IInv, NEW r \in Requests, NEW o \in Endpoints,
         NEW a \in Addresses \cup {None}, NEW p \in Passwords \cup {None},
         NEW t \in SUBSET tokens,
         o # "me" => a \in Addresses /\ p \in Passwords,
         o = "me" => \E token \in tokens : t = {token},
         Arrive(r, o, a, p, t)
  PROVE  IInv'
<1> DEFINE mine == {u \in users : o = "login" /\ u.typed = a /\ u.password = p}
           step == CASE o = "me" -> "lookup" [] o = "seed" -> "find" [] OTHER -> "limit"
           q == [pc |-> step, op |-> o, address |-> a, password |-> p,
                 token |-> t, row |-> {}, hashes |-> 0, counted |-> 0,
                 status |-> 0, mine |-> mine, unreadable |-> FALSE,
                 expired |-> FALSE]
<1>1. /\ req' = [req EXCEPT ![r] = q]
      /\ UNCHANGED <<users, parents, known, spoilt, tokens, errors>>
  BY DEF Arrive
<1>2. mine \subseteq known /\ known \subseteq Rows /\ t \subseteq known
  BY DEF IInv, TablesInv
<1>3. /\ step \in {"lookup", "find", "limit"}
      /\ step = "lookup" <=> o = "me"
      /\ step = "find" <=> o = "seed"
  BY DEF Endpoints
<1> HIDE DEF mine, step
<1>4. q \in Request /\ q.pc # "commit"
  BY <1>2, <1>3 DEF Request, Steps, Statuses
<1>5. Handling(q, known)
  BY <1>2, <1>3 DEF Handling, StepOfEndpoint, Endpoints
<1> HIDE DEF q
<1> QED
  BY <1>1, <1>4, <1>5, QuietKeeps DEF IInv, TablesInv

LEMMA TooManyKeeps ==
  ASSUME IInv, NEW r \in Requests, TooMany(r)
  PROVE  IInv'
<1> DEFINE q == Answered(req[r], 429, {})
<1>1. req[r] \in Request /\ Handling(req[r], known)
  BY DEF IInv, RequestsInv
<1>2. /\ q \in Request
      /\ q.pc = "idle" /\ q.status = 429 /\ q.row = {} /\ q.op = req[r].op
      /\ q.token = req[r].token /\ q.mine = req[r].mine
  <2>1. 429 \in Statuses /\ {} \in SUBSET Rows
    BY DEF Statuses
  <2> QED
    BY <1>1, <2>1, AnswerType
<1>3. /\ req' = [req EXCEPT ![r] = q]
      /\ UNCHANGED <<users, parents, known, spoilt, tokens, errors>>
  BY DEF TooMany, Answer, Answered, IInv, RequestsInv
<1> HIDE DEF q
<1>4. Handling(q, known)
  BY <1>1, <1>2 DEF TooMany, Handling, StepOfEndpoint
<1> QED
  BY <1>2, <1>3, <1>4, QuietKeeps DEF IInv, TablesInv

LEMMA HashPasswordKeeps ==
  ASSUME IInv, NEW r \in Requests, HashPassword(r)
  PROVE  IInv'
<1> DEFINE q == [req[r] EXCEPT !.pc = "insert", !.hashes = @ + 1]
<1>1. /\ req' = [req EXCEPT ![r] = q]
      /\ UNCHANGED <<users, parents, known, spoilt, tokens, errors>>
  BY DEF HashPassword, Answer, IInv, RequestsInv
<1>2. q \in Request /\ Handling(q, known) /\ q.pc # "commit"
  BY DEF HashPassword, IInv, RequestsInv, Request, Handling, StepOfEndpoint,
         Steps, Endpoints, Statuses
<1> HIDE DEF q
<1> QED
  BY <1>1, <1>2, QuietKeeps DEF IInv, TablesInv

LEMMA RejectPasswordKeeps ==
  ASSUME IInv, NEW r \in Requests, RejectPassword(r)
  PROVE  IInv'
<1> DEFINE q == [req[r] EXCEPT !.pc = "record", !.hashes = Cost(req[r])]
<1>1. req[r] \in Request /\ Handling(req[r], known) /\ req[r].pc = "verify"
  BY DEF RejectPassword, IInv, RequestsInv
<1>2. (IF Hashes(r) THEN req[r].hashes + 1 ELSE req[r].hashes) = Cost(req[r])
  BY <1>1 DEF Handling, Hashes, Cost
<1>3. /\ req' = [req EXCEPT ![r] = q]
      /\ UNCHANGED <<users, parents, known, spoilt, tokens, errors>>
  BY <1>2 DEF RejectPassword, IInv, RequestsInv
<1>4. Cost(req[r]) \in 0 .. 1
  BY DEF Cost
<1>5. Cost(q) = Cost(req[r])
  BY <1>1 DEF Cost, Request
<1>6. q \in Request /\ Handling(q, known) /\ q.pc # "commit"
  BY <1>1, <1>4, <1>5 DEF Request, Handling, StepOfEndpoint, Steps
<1> HIDE DEF q
<1> QED
  BY <1>6, <1>3, QuietKeeps DEF IInv, TablesInv

LEMMA RecordFailureKeeps ==
  ASSUME IInv, NEW r \in Requests, RecordFailure(r)
  PROVE  IInv'
<1> DEFINE q == [req[r] EXCEPT !.pc = "idle", !.status = 401, !.row = {},
                            !.counted = 1]
<1>1. /\ req[r] \in Request /\ Handling(req[r], known)
      /\ req[r].pc = "record" /\ req[r].counted + 1 = 1
  BY DEF RecordFailure, IInv, RequestsInv, Handling
<1>2. /\ req' = [req EXCEPT ![r] = q]
      /\ UNCHANGED <<users, parents, known, spoilt, tokens, errors>>
  BY <1>1 DEF RecordFailure, IInv, RequestsInv
<1>3. q \in Request /\ q.pc = "idle"
  <2> DEFINE a == Answered(req[r], 401, {})
  <2>1. 401 \in Statuses /\ {} \in SUBSET Rows
    BY DEF Statuses
  <2>2. a \in Request /\ a.pc = "idle"
    BY <1>1, <2>1, AnswerType
  <2>3. q = [a EXCEPT !.counted = 1]
    BY <1>1 DEF Answered, Request
  <2> HIDE DEF a, q
  <2> QED
    BY <2>2, <2>3 DEF Request
<1>4. Cost(q) = Cost(req[r])
  BY <1>1 DEF Cost, Request
<1>5. Handling(q, known)
  BY <1>1, <1>4 DEF Request, Handling, StepOfEndpoint
<1> HIDE DEF q
<1> QED
  BY <1>2, <1>3, <1>5, QuietKeeps DEF IInv, TablesInv

LEMMA TokenExpiredKeeps ==
  ASSUME IInv, NEW r \in Requests, TokenExpired(r)
  PROVE  IInv'
<1> DEFINE q == [req[r] EXCEPT !.pc = "idle", !.status = 401, !.row = {},
                            !.expired = TRUE]
<1>1. /\ req' = [req EXCEPT ![r] = q]
      /\ UNCHANGED <<users, parents, known, spoilt, tokens, errors>>
  BY DEF TokenExpired, IInv, RequestsInv
<1>2. q \in Request /\ Handling(q, known) /\ q.pc # "commit"
  BY DEF TokenExpired, IInv, RequestsInv, Request, Handling, StepOfEndpoint,
         Steps, Endpoints, Statuses
<1> HIDE DEF q
<1> QED
  BY <1>1, <1>2, QuietKeeps DEF IInv, TablesInv

LEMMA FindAccountKeeps ==
  ASSUME IInv, NEW r \in Requests, FindAccount(r)
  PROVE  IInv'
<1> DEFINE found == {u \in users : u.email = req[r].address}
           spoiled == \E u \in users : u.email = req[r].address /\ u.id \in spoilt
           q == [req[r] EXCEPT !.pc = "verify", !.row = found,
                               !.unreadable = spoiled]
<1>1. /\ req' = [req EXCEPT ![r] = q]
      /\ UNCHANGED <<users, parents, known, spoilt, tokens, errors>>
  BY DEF FindAccount, IInv, RequestsInv
<1>2. found \subseteq known /\ found \subseteq Rows /\ spoiled \in BOOLEAN
  BY DEF IInv, TablesInv
<1> HIDE DEF found, spoiled
<1>3. q \in Request /\ q.pc # "commit"
  <2>1. req[r] \in Request /\ "verify" \in Steps /\ found \in SUBSET Rows
    BY <1>2 DEF IInv, RequestsInv, Steps
  <2> QED
    BY <1>2, <2>1 DEF Request
<1>4. Handling(q, known)
  <2>1. /\ Handling(req[r], known) /\ req[r] \in Request
        /\ req[r].pc = "limit" /\ req[r].op = "login"
    BY DEF FindAccount, IInv, RequestsInv
  <2>2. /\ q.pc = "verify" /\ q.row = found
        /\ \A f \in {"op", "address", "password", "token", "mine", "hashes",
                     "counted", "status"} : q[f] = req[r][f]
    BY <2>1 DEF Request
  <2> HIDE DEF q
  <2> QED
    BY <1>2, <2>1, <2>2 DEF Handling, StepOfEndpoint
<1> HIDE DEF q
<1> QED
  BY <1>1, <1>3, <1>4, QuietKeeps DEF IInv, TablesInv

(* An answer other than a conflict, or one to login or me.                 *)
LEMMA AnswerHandled ==
  ASSUME NEW k, NEW q \in Request, Handling(q, k), q.pc # "idle",
         NEW s \in Statuses, NEW rows \in SUBSET Rows,
         q.op = "me" /\ s = 200 => rows = q.token,
         q.op = "login" => s # 401,
         s = 409 => \E u \in k : u.email = Canonical[q.address]
  PROVE  Handling(Answered(q, s, rows), k)
<1> DEFINE a == Answered(q, s, rows)
<1>1. /\ a.pc = "idle" /\ a.status = s /\ a.row = rows /\ a.op = q.op
      /\ a.address = q.address /\ a.password = q.password
      /\ a.token = q.token /\ a.mine = q.mine
  BY AnswerType
<1> HIDE DEF a
<1>2. StepOfEndpoint(a)
  BY <1>1 DEF StepOfEndpoint
<1>3. a.token \subseteq k /\ a.mine \subseteq k
  BY <1>1 DEF Handling
<1>4. a.status = 409 => \E u \in k : u.email = Canonical[a.address]
  BY <1>1
<1>5. Handling(a, k)
  BY <1>1, <1>2, <1>3, <1>4 DEF Handling
<1> QED
  BY <1>5 DEF a

LEMMA AnswerKeeps ==
  ASSUME IInv, NEW r \in Requests, req[r].pc # "idle",
         NEW s \in Statuses, NEW rows \in SUBSET Rows, Answer(r, s, rows),
         req[r].op = "me" /\ s = 200 => rows = req[r].token,
         req[r].op = "login" => s # 401,
         s = 409 => \E u \in known : u.email = Canonical[req[r].address],
         UNCHANGED <<spoilt, tokens>>, errors' \in 0 .. MaxErrors,
         \/ UNCHANGED <<users, parents, known>>
         \/ req[r].pc = "commit" /\ Store(r)
  PROVE  IInv'
<1> DEFINE q == Answered(req[r], s, rows)
<1>1. req[r] \in Request /\ Handling(req[r], known)
  BY DEF IInv, RequestsInv
<1>2. q \in Request /\ q.pc = "idle" /\ Handling(q, known)
  BY <1>1, AnswerType, AnswerHandled
<1>3. req' = [req EXCEPT ![r] = q]
  BY DEF Answer, Answered, IInv, RequestsInv
<1> HIDE DEF q
<1>4. CASE UNCHANGED <<users, parents, known>>
  BY <1>2, <1>3, <1>4, QuietKeeps DEF IInv, TablesInv
<1>5. CASE req[r].pc = "commit" /\ Store(r)
  BY <1>2, <1>3, <1>5, StoreKeeps
<1> QED
  BY <1>4, <1>5

LEMMA FindSeedKeeps ==
  ASSUME IInv, NEW r \in Requests, FindSeed(r)
  PROVE  IInv'
<1>1. /\ req[r] \in Request /\ Handling(req[r], known)
      /\ req[r].pc = "find" /\ req[r].op = "seed"
      /\ UNCHANGED <<users, parents, known, spoilt, tokens, errors>>
  BY DEF FindSeed, IInv, RequestsInv, Handling, StepOfEndpoint
<1>2. CASE Taken(r)
  <2>1. Answer(r, 200, {}) /\ 200 \in Statuses /\ {} \in SUBSET Rows
    BY <1>2 DEF FindSeed, Statuses
  <2> QED
    BY <1>1, <2>1, AnswerKeeps DEF IInv, TablesInv
<1>3. CASE ~ Taken(r)
  <2> DEFINE q == [req[r] EXCEPT !.pc = "insert", !.hashes = 1]
  <2>1. req[r].hashes + 1 = 1
    BY <1>1 DEF Handling
  <2>2. req' = [req EXCEPT ![r] = q]
    BY <1>3, <2>1 DEF FindSeed, IInv, RequestsInv
  <2>3. q \in Request /\ q.pc = "insert"
    <3>1. 1 \in 0 .. 1 /\ "insert" \in Steps
      BY DEF Steps
    <3> QED
      BY <1>1, <3>1 DEF Request
  <2>4. Handling(q, known)
    BY <1>1 DEF Request, Handling, StepOfEndpoint
  <2> HIDE DEF q
  <2> QED
    BY <1>1, <2>2, <2>3, <2>4, QuietKeeps DEF IInv, TablesInv
<1> QED
  BY <1>2, <1>3

(* An INSERT that gets into the index clashes with nothing.                *)
LEMMA InsertKeeps ==
  ASSUME IInv, NEW r \in Requests, Insert(r)
  PROVE  IInv'
<1>1. /\ req[r] \in Request /\ Handling(req[r], known)
      /\ req[r].pc = "insert" /\ req[r].op \in {"register", "seed"}
      /\ req[r].address \in Addresses /\ req[r].password \in Passwords
      /\ req[r].status = 0
      /\ UNCHANGED <<users, parents, known, spoilt, tokens, errors>>
  BY DEF Insert, IInv, RequestsInv, Handling, StepOfEndpoint
<1>2. CASE Taken(r) /\ Answer(r, IF req[r].op = "seed" THEN 500 ELSE 409, {})
  <2> DEFINE s == IF req[r].op = "seed" THEN 500 ELSE 409
  <2>1. s \in Statuses /\ s \notin {200, 401} /\ {} \in SUBSET Rows
    BY DEF Statuses
  <2>2. Answer(r, s, {})
    BY <1>2
  <2>3. \E u \in known : u.email = Canonical[req[r].address]
    BY <1>2 DEF Taken, Email, IInv, TablesInv
  <2> HIDE DEF s
  <2> QED
    BY <1>1, <2>1, <2>2, <2>3, AnswerKeeps DEF IInv, TablesInv
<1>3. ASSUME NEW i \in Ids, Free(r),
             \A u \in known \cup Pending(r) : u.id # i,
             req' = [req EXCEPT ![r].pc = "commit", ![r].row =
               {[id |-> i, email |-> Email(r), password |-> req[r].password,
                 typed |-> req[r].address, by |-> req[r].op]}]
      PROVE  IInv'
  <2> DEFINE p == [id |-> i, email |-> Email(r), password |-> req[r].password,
                   typed |-> req[r].address, by |-> req[r].op]
             q == [req[r] EXCEPT !.pc = "commit", !.row = {p}]
  <2>1. p \in Rows /\ p.by = req[r].op
    BY <1>1, CanonicalAssumption DEF Rows, Email
  <2>2. req' = [req EXCEPT ![r] = q]
    BY <1>3 DEF IInv, RequestsInv
  <2>3. /\ \A u \in users \cup Pending(r) : u.email # p.email
        /\ \A u \in known \cup Pending(r) : u.id # p.id
    BY <1>3 DEF Free
  <2>4. \A s \in Requests \ {r} : req[s].pc = "commit" => req[s].row \subseteq Pending(r)
    BY DEF Pending
  <2> HIDE DEF p
  <2>5. q \in Request /\ q.pc = "commit" /\ q.row = {p} /\ q.op = req[r].op
    BY <1>1, <2>1 DEF Request, Steps
  <2>6. Handling(q, known)
    BY <1>1, <2>1 DEF Request, Handling, StepOfEndpoint
  <2> HIDE DEF q
  <2>7. RequestsInv'
    BY <1>1, <2>2, <2>5, <2>6 DEF IInv, RequestsInv
  <2>8. IndexInv'
    <3> SUFFICES ASSUME NEW s \in Requests, req'[s].pc = "commit",
                        NEW x \in req'[s].row
                 PROVE  /\ \A u \in users : u.email # x.email
                        /\ \A u \in known : u.id # x.id
                        /\ \A z \in Requests \ {s} : req'[z].pc = "commit" =>
                             \A y \in req'[z].row : y.email # x.email /\ y.id # x.id
      BY <1>1 DEF IndexInv
    <3>1. \A z \in Requests \ {r} : req'[z] = req[z]
      BY <2>2 DEF IInv, RequestsInv
    <3>2. req'[r] = q
      BY <2>2 DEF IInv, RequestsInv
    <3>3. CASE s = r
      BY <2>3, <2>4, <2>5, <3>1, <3>2, <3>3
    <3>4. CASE s # r
      BY <2>3, <2>4, <2>5, <3>1, <3>2, <3>4 DEF IInv, IndexInv
    <3> QED
      BY <3>3, <3>4
  <2> QED
    BY <1>1, <2>7, <2>8 DEF IInv, TablesInv, OneAccountPerAddress, SeedIsWhole
<1> QED
  BY <1>2, <1>3 DEF Insert

LEMMA CommitKeeps ==
  ASSUME IInv, NEW r \in Requests, Commit(r)
  PROVE  IInv'
<1>1. /\ req[r] \in Request /\ Handling(req[r], known)
      /\ req[r].pc = "commit" /\ Store(r) /\ UNCHANGED <<spoilt, tokens, errors>>
  BY DEF Commit, IInv, RequestsInv
<1>2. CASE req[r].op = "seed"
  <2>1. Answer(r, 200, {}) /\ 200 \in Statuses /\ {} \in SUBSET Rows
    BY <1>2 DEF Commit, Statuses
  <2> QED
    BY <1>1, <1>2, <2>1, AnswerKeeps DEF IInv, TablesInv
<1>3. CASE req[r].op # "seed"
  <2> DEFINE q == [req[r] EXCEPT !.pc = "refresh"]
  <2>1. req' = [req EXCEPT ![r] = q]
    BY <1>3 DEF Commit, IInv, RequestsInv
  <2>2. q \in Request /\ Handling(q, known) /\ q.pc # "commit"
    BY <1>1, <1>3 DEF Request, Handling, StepOfEndpoint, Steps
  <2> HIDE DEF q
  <2> QED
    BY <1>1, <2>1, <2>2, StoreKeeps DEF IInv, TablesInv
<1> QED
  BY <1>2, <1>3

LEMMA RefreshKeeps ==
  ASSUME IInv, NEW r \in Requests, Refresh(r)
  PROVE  IInv'
<1>1. /\ req[r].row \in SUBSET Rows /\ {} \in SUBSET Rows
      /\ req[r].pc = "refresh" /\ req[r].op = "register"
      /\ UNCHANGED <<users, parents, known, spoilt, tokens, errors>>
      /\ 201 \in Statuses /\ 500 \in Statuses
  BY DEF Refresh, IInv, RequestsInv, Request, Handling, StepOfEndpoint, Statuses
<1>2. Answer(r, 201, req[r].row) \/ Answer(r, 500, {})
  BY DEF Refresh
<1> QED
  BY <1>1, <1>2, AnswerKeeps DEF IInv, TablesInv

(* The subject of a token names the row that the token was minted for.     *)
LEMMA LookupKeeps ==
  ASSUME IInv, NEW r \in Requests, Lookup(r)
  PROVE  IInv'
<1>1. /\ req[r].pc = "lookup" /\ req[r].op = "me"
      /\ UNCHANGED <<users, parents, known, spoilt, tokens, errors>>
  BY DEF Lookup, IInv, RequestsInv, Handling, StepOfEndpoint
<1>2. PICK t \in known : req[r].token = {t}
  BY <1>1 DEF IInv, RequestsInv, Handling
<1>3. \/ Named(t) # {} /\ Answer(r, 200, Named(t))
      \/ Answer(r, 401, {})
  BY <1>2 DEF Lookup
<1>4. Named(t) # {} => Named(t) = {t}
  BY DEF Named, IInv, TablesInv
<1>5. /\ 200 \in Statuses /\ 401 \in Statuses
      /\ {t} \in SUBSET Rows /\ {} \in SUBSET Rows
  BY DEF Statuses, IInv, TablesInv
<1>6. errors' \in 0 .. MaxErrors
  BY <1>1 DEF IInv, TablesInv
<1>7. CASE Named(t) # {} /\ Answer(r, 200, Named(t))
  BY <1>1, <1>2, <1>4, <1>5, <1>6, <1>7, AnswerKeeps
<1>8. CASE Answer(r, 401, {})
  BY <1>1, <1>5, <1>6, <1>8, AnswerKeeps
<1> QED
  BY <1>3, <1>7, <1>8

LEMMA MintTokenKeeps ==
  ASSUME IInv, NEW r \in Requests, MintToken(r)
  PROVE  IInv'
<1> DEFINE q == [req[r] EXCEPT !.pc = "idle", !.status = 200, !.hashes = 1]
<1>1. req[r] \in Request /\ Handling(req[r], known) /\ req[r].pc = "verify"
  BY DEF MintToken, IInv, RequestsInv
<1>2. req[r].hashes + 1 = 1
  BY <1>1 DEF Handling
<1>3. /\ req' = [req EXCEPT ![r] = q] /\ tokens' = tokens \cup req[r].row
      /\ UNCHANGED <<users, parents, known, spoilt, errors>>
  BY <1>2 DEF MintToken, IInv, RequestsInv
<1>4. q \in Request
  <2>1. 1 \in 0 .. 1 /\ "idle" \in Steps /\ 200 \in Statuses
    BY DEF Steps, Statuses
  <2> QED
    BY <1>1, <2>1 DEF Request
<1>5. Handling(q, known) /\ q.pc # "commit"
  BY <1>1 DEF Request, Handling, StepOfEndpoint
<1>6. tokens' \subseteq known
  BY <1>1, <1>3 DEF Handling, IInv, TablesInv
<1> HIDE DEF q
<1> QED
  BY <1>3, <1>4, <1>5, <1>6, QuietKeeps DEF IInv, TablesInv

LEMMA FailKeeps ==
  ASSUME IInv, NEW r \in Requests, Fail(r)
  PROVE  IInv'
<1>1. /\ req[r].pc # "idle" /\ Answer(r, 500, {}) /\ UNCHANGED <<spoilt, tokens>>
      /\ \/ UNCHANGED <<users, parents, known>>
         \/ req[r].pc = "commit" /\ Store(r)
  BY DEF Fail
<1>2. errors' \in 0 .. MaxErrors
  BY ErrorsAssumption DEF Fail, IInv, TablesInv
<1>3. 500 \in Statuses /\ {} \in SUBSET Rows
  BY DEF Statuses
<1> QED
  BY <1>1, <1>2, <1>3, AnswerKeeps

LEMMA RemoveKeeps ==
  ASSUME IInv, NEW u \in users, Remove(u)
  PROVE  IInv'
<1>1. /\ users' = users \ {u} /\ parents' = parents \ {u.id}
      /\ UNCHANGED <<known, spoilt, tokens, req, errors>>
  BY DEF Remove
<1>2. \A v \in users : v.id = u.id => v = u
  BY DEF IInv, TablesInv
<1>3. RequestsInv'
  BY <1>1 DEF IInv, RequestsInv
<1>4. TablesInv'
  BY <1>1 DEF IInv, TablesInv
<1>5. IndexInv' /\ OneAccountPerAddress'
  BY <1>1 DEF IInv, IndexInv, OneAccountPerAddress
<1>6. SeedIsWhole'
  BY <1>1, <1>2 DEF IInv, SeedIsWhole
<1> QED
  BY <1>3, <1>4, <1>5, <1>6 DEF IInv

LEMMA SpoilKeeps ==
  ASSUME IInv, NEW u \in users, Spoil(u)
  PROVE  IInv'
<1>1. /\ spoilt' = spoilt \cup {u.id}
      /\ UNCHANGED <<users, parents, known, tokens, req, errors>>
  BY DEF Spoil
<1>2. TablesInv'
  BY <1>1 DEF IInv, TablesInv
<1> QED
  BY <1>1, <1>2
     DEF IInv, RequestsInv, IndexInv, OneAccountPerAddress, SeedIsWhole

(* ---- The theorems ----------------------------------------------------- *)

LEMMA IInvStep == IInv /\ [Next]_vars => IInv'
<1> SUFFICES ASSUME IInv, [Next]_vars PROVE IInv'
  OBVIOUS
<1>1. ASSUME NEW r \in Requests, NEW a \in Addresses, NEW p \in Passwords,
             NEW o \in Endpoints \ {"me"}, Arrive(r, o, a, p, {})
      PROVE  IInv'
  BY <1>1, ArriveKeeps
<1>2. ASSUME NEW r \in Requests, NEW t \in tokens, Arrive(r, "me", None, None, {t})
      PROVE  IInv'
  <2>1. "me" \in Endpoints /\ {t} \in SUBSET tokens
    BY DEF Endpoints
  <2> QED
    BY <1>2, <2>1, ArriveKeeps
<1>3. ASSUME NEW r \in Requests, Step(r) PROVE IInv'
  BY <1>3, TooManyKeeps, HashPasswordKeeps, FindSeedKeeps, InsertKeeps,
     CommitKeeps, RefreshKeeps, FindAccountKeeps, MintTokenKeeps,
     RejectPasswordKeeps, RecordFailureKeeps, LookupKeeps, TokenExpiredKeeps
     DEF Step
<1>4. ASSUME NEW r \in Requests, Fail(r) PROVE IInv'
  BY <1>4, FailKeeps
<1>5. ASSUME NEW u \in users, Remove(u) \/ Spoil(u) PROVE IInv'
  BY <1>5, RemoveKeeps, SpoilKeeps
<1>6. CASE UNCHANGED vars
  BY <1>6 DEF vars, IInv, RequestsInv, TablesInv, IndexInv,
              OneAccountPerAddress, SeedIsWhole
<1>7. {"register", "seed", "login"} = Endpoints \ {"me"}
  BY DEF Endpoints
<1> QED
  BY <1>1, <1>2, <1>3, <1>4, <1>5, <1>6, <1>7 DEF Next

LEMMA IInvInvariant == Spec => []IInv
BY IInvInit, IInvStep, PTL DEF Spec

(* The variables of Accounts keep their types.                             *)
THEOREM TypeCorrect == Spec => []TypeOK
<1>1. IInv => TypeOK
  BY DEF IInv, RequestsInv, TablesInv, Request, Handling, TypeOK
<1> QED
  BY <1>1, IInvInvariant, PTL

(* No race of registrations and seeds, whatever the case of the domain,    *)
(* leaves two accounts of one address.                                     *)
THEOREM AddressesAreUnique == Spec => []OneAccountPerAddress
<1>1. IInv => OneAccountPerAddress
  BY DEF IInv
<1> QED
  BY <1>1, IInvInvariant, PTL

(* A 409 is never the work of a registration that failed in the end.       *)
THEOREM ConflictsAreReal == Spec => []ConflictWasReal
<1>1. IInv => ConflictWasReal
  BY DEF IInv, RequestsInv, Handling, ConflictWasReal, Email
<1> QED
  BY <1>1, IInvInvariant, PTL

(* A refused login records one failure, and the bcrypts it costs depend on *)
(* nothing but the length of the password, unless the account that was read*)
(* has a hash that bcrypt cannot read.                                     *)
THEOREM FailuresAreAlike == Spec => []FailuresLookAlike
<1>1. IInv => FailuresLookAlike
  BY DEF IInv, RequestsInv, Request, Handling, Cost, FailuresLookAlike
<1> QED
  BY <1>1, IInvInvariant, PTL

(* No seed, however it ends, leaves an account that has no children.       *)
THEOREM SeedsAreWhole == Spec => []SeedIsWhole
<1>1. IInv => SeedIsWhole
  BY DEF IInv
<1> QED
  BY <1>1, IInvInvariant, PTL

(* Whoever registers its address later: a token opens the account that it  *)
(* was minted for, or none.                                                *)
THEOREM TokensOpenTheirAccount == Spec => []TokenOpensItsAccount
<1>1. IInv => TokenOpensItsAccount
  BY DEF IInv, RequestsInv, Handling, TokenOpensItsAccount
<1> QED
  BY <1>1, IInvInvariant, PTL

=============================================================================
