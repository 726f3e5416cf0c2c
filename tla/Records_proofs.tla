--------------------------- MODULE Records_proofs ---------------------------
(***************************************************************************)
(* The records for any number of callers, accounts, suites and workloads,  *)
(* and their listing in pages.                                             *)
(***************************************************************************)
EXTENDS Records, Pagination, FiniteSetTheorems, TLAPS

Codes == {0, 200, 201, 204, 401, 403, 404, 409, 500}

LEMMA IdleCalls == \A code \in Codes : Idle(code) \in Call
<1> SUFFICES ASSUME NEW code \in Codes
             PROVE  Idle(code) \in Call
  OBVIOUS
<1>1. code \div 100 \in Nat
  BY DEF Codes
<1> QED
  BY <1>1 DEF Idle, Call

\* A caller's slot is all that changes in "call".
LEMMA SlotMoves ==
    ASSUME call \in [Callers -> Call], NEW c \in Callers, NEW next \in Call,
           call' = [call EXCEPT ![c] = next]
    PROVE  call' \in [Callers -> Call]
OBVIOUS

LEMMA Answered ==
    ASSUME call \in [Callers -> Call], NEW c \in Callers, NEW code \in Codes, Answer(c, code)
    PROVE  call' \in [Callers -> Call]
BY IdleCalls, SlotMoves DEF Answer

LEMMA FreshId == \A S : S # {} => Fresh(S) \in S
BY DEF Fresh

(* What a task remembers, by its operation: how such a record is made, and *)
(* what a record of the operation holds.                                   *)

LEMMA StoredCalls ==
    ASSUME NEW x \in Suites, NEW op \in {"create_suite", "update_suite"}
    PROVE  [op |-> op, at |-> "stored", suite |-> x] \in Call
<1>1. [op |-> op, at |-> "stored", suite |-> x]
        \in [op : {"create_suite", "update_suite"}, at : {"stored"}, suite : Suites]
  OBVIOUS
<1> QED
  BY <1>1 DEF Call

LEMMA CreatingCalls ==
    ASSUME NEW u \in Users, NEW slug \in Slugs
    PROVE  [op |-> "create_suite", at |-> "begin", slug |-> slug, owner |-> u] \in Call
<1>1. [op |-> "create_suite", at |-> "begin", slug |-> slug, owner |-> u]
        \in [op : {"create_suite"}, at : {"begin", "free"}, slug : Slugs, owner : Users]
  OBVIOUS
<1> QED
  BY <1>1 DEF Call

LEMMA UpdatingCalls ==
    ASSUME NEW u \in Users, NEW x \in Suites, NEW seen \in [Field -> Text \cup {Null}],
           NEW patch \in Patches
    PROVE  [op |-> "update_suite", at |-> "loaded", actor |-> u, suite |-> x,
            seen |-> seen, patch |-> patch] \in Call
<1>1. [op |-> "update_suite", at |-> "loaded", actor |-> u, suite |-> x,
       seen |-> seen, patch |-> patch]
        \in [op : {"update_suite"}, at : {"loaded"}, actor : Users, suite : Suites,
             seen : [Field -> Text \cup {Null}], patch : Patches]
  OBVIOUS
<1> QED
  BY <1>1 DEF Call

LEMMA DeletingCalls ==
    ASSUME NEW u \in Users, NEW x \in Suites, NEW seen \in SUBSET Cases
    PROVE  [op |-> "delete_suite", at |-> "loaded", actor |-> u, suite |-> x,
            seen |-> seen] \in Call
<1>1. [op |-> "delete_suite", at |-> "loaded", actor |-> u, suite |-> x, seen |-> seen]
        \in [op : {"delete_suite"}, at : {"loaded"}, actor : Users, suite : Suites,
             seen : SUBSET Cases]
  OBVIOUS
<1> QED
  BY <1>1 DEF Call

LEMMA AddingCalls ==
    ASSUME NEW u \in Users, NEW x \in Suites
    PROVE  [op |-> "add_case", at |-> "loaded", actor |-> u, suite |-> x] \in Call
<1>1. [op |-> "add_case", at |-> "loaded", actor |-> u, suite |-> x]
        \in [op : {"add_case"}, at : {"loaded"}, actor : Users, suite : Suites]
  OBVIOUS
<1> QED
  BY <1>1 DEF Call

LEMMA ReviewingCalls ==
    ASSUME NEW e \in Events, NEW seen \in Review, NEW want \in Review
    PROVE  [op |-> "review", at |-> "loaded", event |-> e, seen |-> seen,
            want |-> want] \in Call
<1>1. [op |-> "review", at |-> "loaded", event |-> e, seen |-> seen, want |-> want]
        \in [op : {"review"}, at : {"loaded"}, event : Events, seen : Review,
             want : Review]
  OBVIOUS
<1> QED
  BY <1>1 DEF Call

LEMMA LoadedCalls ==
    ASSUME NEW r \in Call, r.at = "loaded"
    PROVE  /\ r.op = "update_suite" =>
                 r \in [op : {"update_suite"}, at : {"loaded"}, actor : Users, suite : Suites,
                        seen : [Field -> Text \cup {Null}], patch : Patches]
           /\ r.op = "delete_suite" =>
                 r \in [op : {"delete_suite"}, at : {"loaded"}, actor : Users,
                        suite : Suites, seen : SUBSET Cases]
           /\ r.op = "add_case" =>
                 r \in [op : {"add_case"}, at : {"loaded"}, actor : Users, suite : Suites]
           /\ r.op = "review" =>
                 r \in [op : {"review"}, at : {"loaded"}, event : Events, seen : Review,
                        want : Review]
<1>1. r.op = "update_suite" =>
        r \in [op : {"update_suite"}, at : {"loaded"}, actor : Users, suite : Suites,
               seen : [Field -> Text \cup {Null}], patch : Patches]
  BY DEF Call
<1>2. r.op = "delete_suite" =>
        r \in [op : {"delete_suite"}, at : {"loaded"}, actor : Users, suite : Suites,
               seen : SUBSET Cases]
  BY DEF Call
<1>3. r.op = "add_case" =>
        r \in [op : {"add_case"}, at : {"loaded"}, actor : Users, suite : Suites]
  BY DEF Call
<1>4. r.op = "review" =>
        r \in [op : {"review"}, at : {"loaded"}, event : Events, seen : Review,
               want : Review]
  BY DEF Call
<1> QED
  BY <1>1, <1>2, <1>3, <1>4

LEMMA SchemaType ==
    ASSUME RecordsTypeOK, SchemaNext
    PROVE  RecordsTypeOK'
<1>1. PICK c \in Callers : Boot(c) \/ Upgrade(c) \/ SendDdl(c) \/ EndDdl(c)
  BY DEF SchemaNext
<1>2. Missing \in Statements /\ DOMAIN Ddl \in Statements /\ {} \in Statements
  BY DEF Missing, Statements
<1>3. CASE Boot(c)
  <2>1. \E todo \in Statements :
          call' = [call EXCEPT ![c] = [op |-> "boot", at |-> "ddl", todo |-> todo]]
    BY <1>2, <1>3 DEF Boot, Begin, MayCall
  <2>2. call' \in [Callers -> Call]
    BY <2>1, SlotMoves DEF Call, RecordsTypeOK
  <2> QED
    BY <1>3, <2>2 DEF Boot, RecordsTypeOK, schema, rows
<1>4. CASE Upgrade(c)
  <2>1. \E todo \in Statements :
          call' = [call EXCEPT ![c] = [op |-> "upgrade", at |-> "ddl", todo |-> todo]]
    BY <1>2, <1>4 DEF Upgrade, Begin, MayCall
  <2>2. call' \in [Callers -> Call]
    BY <2>1, SlotMoves DEF Call, RecordsTypeOK
  <2> QED
    BY <1>4, <2>2 DEF Upgrade, RecordsTypeOK, schema, rows
<1>5. CASE SendDdl(c)
  <2>0. call[c] \in Call /\ call[c].op # "idle" /\ call[c].at = "ddl"
    BY <1>5 DEF SendDdl, WithDdl, RecordsTypeOK
  <2>1. PICK part \in SUBSET call[c].todo : Send(c, part)
    BY <1>5 DEF SendDdl
  <2>2. call[c].todo \in Statements
    BY <2>0 DEF Call
  <2>3. [call[c] EXCEPT !.todo = @ \ part] \in Call
    <3>1. CASE call[c] \in [op : {"boot", "upgrade"}, at : {"ddl"}, todo : Statements]
      BY <3>1, <2>2 DEF Call, Statements
    <3>2. CASE call[c] \in [op : {"create_user", "seed"}, at : {"ddl", "begin", "free"},
                            todo : Statements, email : Emails, role : Role, cli : {TRUE}]
      BY <3>2, <2>2 DEF Call, Statements
    <3> QED
      BY <2>0, <3>1, <3>2 DEF Call
  <2>4. call' \in [Callers -> Call]
    <3>1. \/ call' = [call EXCEPT ![c] = [call[c] EXCEPT !.todo = @ \ part]]
          \/ Answer(c, 500)
      BY <2>1 DEF Send, Goto
    <3>2. call \in [Callers -> Call] /\ 500 \in Codes
      BY DEF RecordsTypeOK, Codes
    <3>3. CASE Answer(c, 500)
      BY <3>2, <3>3, Answered
    <3>4. CASE call' = [call EXCEPT ![c] = [call[c] EXCEPT !.todo = @ \ part]]
      BY <2>3, <3>2, <3>4, SlotMoves
    <3> QED
      BY <3>1, <3>3, <3>4
  <2>5. made' \subseteq Objects /\ stamped' \in BOOLEAN
    <3>1. \A i \in part : Ddl[i] \in Objects
      BY <2>1, <2>2 DEF Objects, Statements
    <3>2. made \subseteq Objects /\ stamped \in BOOLEAN
      BY DEF RecordsTypeOK
    <3>3. CASE /\ made' = made \cup {Ddl[i] : i \in part}
               /\ stamped' = (stamped \/ (Transactional /\ call[c].op = "upgrade"))
      BY <3>1, <3>2, <3>3
    <3>4. CASE UNCHANGED <<made, stamped>>
      BY <3>2, <3>4
    <3> QED
      BY <2>1, <3>3, <3>4 DEF Send
  <2> QED
    BY <1>5, <2>4, <2>5 DEF SendDdl, RecordsTypeOK, rows
<1>6. CASE EndDdl(c)
  <2>0. call[c] \in Call /\ call[c].op # "idle" /\ call[c].at = "ddl"
    BY <1>6 DEF EndDdl, WithDdl, RecordsTypeOK
  <2>1. [call[c] EXCEPT !.at = "begin"] \in Call \/ call[c].op \in {"boot", "upgrade"}
    <3>1. CASE call[c] \in [op : {"create_user", "seed"}, at : {"ddl", "begin", "free"},
                            todo : Statements, email : Emails, role : Role, cli : {TRUE}]
      BY <3>1 DEF Call
    <3> QED
      BY <2>0, <3>1 DEF Call
  <2>2. call' \in [Callers -> Call]
    BY <1>6, <2>1, SlotMoves, Answered DEF EndDdl, Goto, RecordsTypeOK, Codes
  <2> QED
    BY <1>6, <2>2 DEF EndDdl, RecordsTypeOK, rows
<1> QED
  BY <1>1, <1>3, <1>4, <1>5, <1>6

LEMMA AccountsType ==
    ASSUME RecordsTypeOK, AccountsNext
    PROVE  RecordsTypeOK'
<1>0. /\ call \in [Callers -> Call]
      /\ users \in [Users -> UserRow \cup {Absent}]
      /\ tokens \subseteq Users \X TokenType
      /\ Accounts \subseteq Users
  BY DEF RecordsTypeOK, Accounts
<1>1. ASSUME NEW c \in Callers, Register(c)
      PROVE  RecordsTypeOK'
  <2>1. PICK email \in Typed, role \in Roles :
          call' = [call EXCEPT ![c] =
                     IF role = "admin" THEN Idle(403)
                     ELSE [op |-> "register", at |-> "begin", email |-> email,
                           role |-> role, cli |-> FALSE]]
    BY <1>1 DEF Register, Begin, MayCall
  <2>2. email \in Emails /\ role \in Role
    BY RecordAssumption DEF Role
  <2>3. [op |-> "register", at |-> "begin", email |-> email, role |-> role,
         cli |-> FALSE] \in Call
    BY <2>2 DEF Call
  <2>4. call' \in [Callers -> Call]
    BY <1>0, <2>1, <2>3, IdleCalls, SlotMoves DEF Codes
  <2> QED
    BY <1>1, <2>4 DEF Register, RecordsTypeOK, schema, rows
<1>2. ASSUME NEW c \in Callers, CreateUser(c)
      PROVE  RecordsTypeOK'
  <2>1. PICK email \in Typed, role \in Roles :
          call' = [call EXCEPT ![c] =
                     [op |-> "create_user", at |-> "ddl", todo |-> Missing,
                      email |-> email, role |-> role, cli |-> TRUE]]
    BY <1>2 DEF CreateUser, Begin, MayCall
  <2>2. email \in Emails /\ role \in Role /\ Missing \in Statements
    BY RecordAssumption DEF Role, Missing, Statements
  <2>3. [op |-> "create_user", at |-> "ddl", todo |-> Missing,
         email |-> email, role |-> role, cli |-> TRUE] \in Call
    BY <2>2 DEF Call
  <2>4. call' \in [Callers -> Call]
    BY <1>0, <2>1, <2>3, SlotMoves
  <2> QED
    BY <1>2, <2>4 DEF CreateUser, RecordsTypeOK, schema, rows
<1>3. ASSUME NEW c \in Callers, Seed(c)
      PROVE  RecordsTypeOK'
  <2>1. [op |-> "seed", at |-> "ddl", todo |-> Missing,
         email |-> AdminEmail, role |-> "admin", cli |-> TRUE] \in Call
    BY AccountAssumption DEF Call, Role, Missing, Statements
  <2>2. call' \in [Callers -> Call]
    BY <1>0, <1>3, <2>1, SlotMoves DEF Seed, Begin, MayCall
  <2> QED
    BY <1>3, <2>2 DEF Seed, RecordsTypeOK, schema, rows
<1>4. \A u \in Users : WantsSuite(u) \in Call
  BY DEF WantsSuite, Call
<1>5. ASSUME NEW c \in Callers, LookUpEmail(c)
      PROVE  RecordsTypeOK'
  <2>1. call[c] \in Call /\ call[c].op \in Registers /\ call[c].at = "begin"
    BY <1>0, <1>5 DEF LookUpEmail
  <2>2. [call[c] EXCEPT !.at = "free"] \in Call
    <3>1. CASE call[c] \in [op : {"register"}, at : {"begin", "free"}, email : Emails,
                            role : Role, cli : {FALSE}]
      BY <3>1 DEF Call
    <3>2. CASE call[c] \in [op : {"create_user", "seed"}, at : {"ddl", "begin", "free"},
                            todo : Statements, email : Emails, role : Role, cli : {TRUE}]
      BY <3>2 DEF Call
    <3> QED
      BY <2>1, <3>1, <3>2 DEF Call, Registers
  <2>3. AccountsWith(call[c].email) \subseteq Users
    BY <1>0 DEF AccountsWith
  <2>4. call' \in [Callers -> Call]
    BY <1>0, <1>4, <1>5, <2>2, <2>3, SlotMoves, Answered DEF LookUpEmail, Goto, Codes
  <2> QED
    BY <1>5, <2>4 DEF LookUpEmail, RecordsTypeOK, schema, rows
<1>6. ASSUME NEW c \in Callers, InsertUser(c)
      PROVE  RecordsTypeOK'
  <2>1. call[c] \in Call /\ call[c].op \in Registers /\ call[c].at = "free"
    BY <1>0, <1>6 DEF InsertUser
  <2>2. call[c].email \in Emails /\ call[c].role \in Role /\ call[c].cli \in BOOLEAN
    BY <2>1 DEF Call, Registers
  <2>3. Stored(call[c].email) \in Emails
    BY <2>2, RecordAssumption DEF Stored
  <2>4. CASE UNCHANGED users /\ Answer(c, 500)
    <3>1. call' \in [Callers -> Call]
      BY <1>0, <2>4, Answered DEF Codes
    <3> QED
      BY <1>6, <2>4, <3>1 DEF InsertUser, RecordsTypeOK, schema
  <2>5. CASE Accounts # Users /\ ~(UNCHANGED users /\ Answer(c, 500))
    <3>1. PICK u \in Users :
            /\ users' = [users EXCEPT ![u] = [email |-> Stored(call[c].email),
                                              role |-> call[c].role, cli |-> call[c].cli]]
            /\ IF call[c].op = "seed" THEN Goto(c, WantsSuite(u)) ELSE Answer(c, 201)
      <4>1. Fresh(Users \ Accounts) \in Users
        BY <1>0, <2>5, FreshId
      <4> QED
        BY <1>6, <2>5, <4>1 DEF InsertUser
    <3>2. users' \in [Users -> UserRow \cup {Absent}]
      BY <1>0, <2>2, <2>3, <3>1 DEF UserRow
    <3>3. call' \in [Callers -> Call]
      BY <1>0, <1>4, <3>1, SlotMoves, Answered DEF Goto, Codes
    <3> QED
      BY <1>6, <3>2, <3>3 DEF InsertUser, RecordsTypeOK, schema
  <2> QED
    BY <1>6, <2>4, <2>5 DEF InsertUser
<1>7. \A u \in Users : Issue(u) => tokens' \subseteq Users \X TokenType
  BY <1>0 DEF Issue
<1>8. ASSUME NEW c \in Callers, Login(c)
      PROVE  RecordsTypeOK'
  <2>1. tokens' \subseteq Users \X TokenType
    BY <1>0, <1>7, <1>8 DEF Login, AccountsWith
  <2>2. call' \in [Callers -> Call]
    BY <1>0, <1>8, IdleCalls, SlotMoves DEF Login, Begin, MayCall, Codes
  <2> QED
    BY <1>8, <2>1, <2>2 DEF Login, RecordsTypeOK, schema, rows
<1>9. ASSUME NEW c \in Callers, Refresh(c)
      PROVE  RecordsTypeOK'
  <2>1. tokens' \subseteq Users \X TokenType
    BY <1>0, <1>7, <1>9 DEF Refresh
  <2>2. call' \in [Callers -> Call]
    BY <1>0, <1>9, IdleCalls, SlotMoves DEF Refresh, Begin, MayCall, Codes
  <2> QED
    BY <1>9, <2>1, <2>2 DEF Refresh, RecordsTypeOK, schema, rows
<1>10. ASSUME NEW u \in Users, NEW type \in TokenType, Expire(u, type)
       PROVE  RecordsTypeOK'
  BY <1>0, <1>10 DEF Expire, RecordsTypeOK, schema, rows
<1> QED
  BY <1>1, <1>2, <1>3, <1>5, <1>6, <1>8, <1>9, <1>10 DEF AccountsNext

\* An operation that begins by loading a suite.
LEMMA LoadMoves ==
    ASSUME NEW c, NEW op, NEW u, NEW x, NEW args, Load(c, op, u, x, args)
    PROVE  Answer(c, 404) \/ Answer(c, 403) \/ call' = [call EXCEPT ![c] = args]
<1>1. CASE ~Present(suites[x])
  BY <1>1 DEF Load, Begin, MayCall, Answer
<1>2. CASE Present(suites[x])
  BY <1>2 DEF Load, Begin, MayCall, Answer
<1> QED
  BY <1>1, <1>2

LEMMA LoadType ==
    ASSUME RecordsTypeOK, NEW c \in Callers, NEW op, NEW u, NEW x, NEW args \in Call,
           Load(c, op, u, x, args)
    PROVE  RecordsTypeOK'
<1>1. \/ Answer(c, 404) \/ Answer(c, 403) \/ call' = [call EXCEPT ![c] = args]
  BY LoadMoves
<1>2. call \in [Callers -> Call] /\ 404 \in Codes /\ 403 \in Codes
  BY DEF RecordsTypeOK, Codes
<1>3. call' \in [Callers -> Call]
  BY <1>1, <1>2, Answered, SlotMoves
<1> QED
  BY <1>3 DEF Load, RecordsTypeOK, schema, rows

LEMMA CatalogType ==
    ASSUME RecordsTypeOK, CatalogNext
    PROVE  RecordsTypeOK'
<1>0. /\ call \in [Callers -> Call]
      /\ suites \in [Suites -> SuiteRow \cup {Absent, Deleted}]
      /\ cases \in [Cases -> Suites \cup {NoSuite, Erased}]
      /\ reviews \in [Events -> Review]
      /\ Engineers \subseteq Users
      /\ {200, 201, 204, 404, 409, 500} \subseteq Codes
  BY DEF RecordsTypeOK, Engineers, Accounts, Codes
<1>1. ASSUME NEW c \in Callers, CreateSuite(c)
      PROVE  RecordsTypeOK'
  <2>1. PICK u \in Users, slug \in Slugs :
          call' = [call EXCEPT ![c] = [op |-> "create_suite", at |-> "begin",
                                       slug |-> slug, owner |-> u]]
    BY <1>0, <1>1 DEF CreateSuite, Begin, MayCall
  <2>2. [op |-> "create_suite", at |-> "begin", slug |-> slug, owner |-> u] \in Call
    BY <1>0, CreatingCalls
  <2>3. call' \in [Callers -> Call]
    BY <1>0, <2>1, <2>2, SlotMoves
  <2> QED
    BY <1>1, <2>3 DEF CreateSuite, RecordsTypeOK, schema, rows
<1>2. ASSUME NEW c \in Callers, LookUpSlug(c)
      PROVE  RecordsTypeOK'
  <2>1. call[c] \in Call
    BY <1>0
  <2>2. [call[c] EXCEPT !.at = IF @ = "owned" THEN "unlisted" ELSE "free"] \in Call
    <3>1. CASE HasOp(c, "create_suite", "begin")
      <4>1. call[c] \in [op : {"create_suite"}, at : {"begin", "free"}, slug : Slugs,
                         owner : Users]
        BY <2>1, <3>1 DEF HasOp, Call
      <4> QED
        BY <3>1, <4>1 DEF HasOp, Call
    <3>2. CASE HasOp(c, "seed", "owned")
      <4>1. call[c] \in [op : {"seed"}, at : {"owned", "unlisted"}, owner : Users]
        BY <2>1, <3>2 DEF HasOp, Call
      <4> QED
        BY <3>2, <4>1 DEF HasOp, Call
    <3> QED
      BY <1>2, <3>1, <3>2 DEF LookUpSlug, Creating
  <2>3. call' \in [Callers -> Call]
    BY <1>0, <1>2, <2>2, SlotMoves, Answered DEF LookUpSlug, Goto
  <2> QED
    BY <1>2, <2>3 DEF LookUpSlug, RecordsTypeOK, schema, rows
<1>3. ASSUME NEW c \in Callers, InsertSuite(c)
      PROVE  RecordsTypeOK'
  <2>1. call[c] \in Call /\ Inserting(c)
    BY <1>0, <1>3 DEF InsertSuite
  <2>2. call[c].owner \in Users /\ SlugOf(c) \in Slugs
    BY <2>1, CatalogAssumption DEF Inserting, HasOp, SlugOf, Call
  <2>3. CASE UNCHANGED <<suites, cases>> /\ Answer(c, 500)
    <3>1. call' \in [Callers -> Call]
      BY <1>0, <2>3, Answered
    <3> QED
      BY <1>3, <2>3, <3>1 DEF InsertSuite, RecordsTypeOK, schema
  <2>4. CASE ~(UNCHANGED <<suites, cases>> /\ Answer(c, 500))
    <3>1. PICK x \in Suites :
            /\ suites' = [suites EXCEPT ![x] = [slug |-> SlugOf(c), owner |-> call[c].owner,
                                                name |-> "a", description |-> "a"]]
            /\ cases' \in [Cases -> Suites \cup {NoSuite, Erased}]
            /\ IF call[c].op = "seed" THEN Answer(c, 200)
               ELSE Goto(c, [op |-> "create_suite", at |-> "stored", suite |-> x])
      <4>1. Fresh({y \in Suites : suites[y] = Absent}) \in Suites
            \/ {y \in Suites : suites[y] = Absent} = {}
        BY FreshId
      <4> DEFINE new == Fresh({y \in Suites : suites[y] = Absent})
      <4>2. /\ \E y \in Suites : suites[y] = Absent
            /\ suites' = [suites EXCEPT ![new] = [slug |-> SlugOf(c), owner |-> call[c].owner,
                                                  name |-> "a", description |-> "a"]]
            /\ \E k \in SUBSET {k \in Cases : cases[k] = NoSuite} :
                  cases' = [j \in Cases |-> IF j \in k THEN new ELSE cases[j]]
            /\ IF call[c].op = "seed" THEN Answer(c, 200)
               ELSE Goto(c, [op |-> "create_suite", at |-> "stored", suite |-> new])
        BY <1>3, <2>4 DEF InsertSuite
      <4>3. new \in Suites
        BY <4>1, <4>2
      <4> HIDE DEF new
      <4>4. cases' \in [Cases -> Suites \cup {NoSuite, Erased}]
        BY <1>0, <4>2, <4>3
      <4> QED
        BY <4>2, <4>3, <4>4
    <3>2. suites' \in [Suites -> SuiteRow \cup {Absent, Deleted}]
      BY <1>0, <2>2, <3>1 DEF SuiteRow, Text
    <3>3. [op |-> "create_suite", at |-> "stored", suite |-> x] \in Call
      BY StoredCalls
    <3>4. call' \in [Callers -> Call]
      BY <1>0, <3>1, <3>3, SlotMoves, Answered DEF Goto
    <3> QED
      BY <1>3, <3>1, <3>2, <3>4 DEF InsertSuite, RecordsTypeOK, schema
  <2> QED
    BY <2>3, <2>4
<1>4. ASSUME NEW c \in Callers, Reload(c)
      PROVE  RecordsTypeOK'
  <2>1. call' \in [Callers -> Call]
    BY <1>0, <1>4, Answered DEF Reload
  <2> QED
    BY <1>4, <2>1 DEF Reload, RecordsTypeOK, schema, rows
<1>5. ASSUME NEW c \in Callers, UpdateSuite(c)
      PROVE  RecordsTypeOK'
  <2>1. PICK u \in Engineers, x \in Suites, patch \in Patches :
          Load(c, "update_suite", u, x,
               [op |-> "update_suite", at |-> "loaded", actor |-> u, suite |-> x,
                seen |-> [f \in Field |-> suites[x][f]], patch |-> patch])
    BY <1>5 DEF UpdateSuite
  <2>2. CASE suites[x] \in SuiteRow
    <3>1. [f \in Field |-> suites[x][f]] \in [Field -> Text \cup {Null}]
      BY <2>2 DEF SuiteRow, Field
    <3>2. [op |-> "update_suite", at |-> "loaded", actor |-> u, suite |-> x,
           seen |-> [f \in Field |-> suites[x][f]], patch |-> patch] \in Call
      BY <1>0, <3>1, UpdatingCalls
    <3> QED
      BY <2>1, <3>2, LoadType
  <2>3. CASE suites[x] \notin SuiteRow
    <3>0. ~Present(suites[x])
      BY <1>0, <2>3 DEF Present
    <3>1. Answer(c, 404)
      BY <2>1, <3>0 DEF Load, Begin, MayCall, Answer
    <3>2. call' \in [Callers -> Call]
      BY <1>0, <3>1, Answered
    <3> QED
      BY <2>1, <3>2 DEF Load, RecordsTypeOK, schema, rows
  <2> QED
    BY <2>2, <2>3
<1>6. ASSUME NEW c \in Callers, WriteSuite(c)
      PROVE  RecordsTypeOK'
  <2>1. call[c] \in [op : {"update_suite"}, at : {"loaded"}, actor : Users, suite : Suites,
                     seen : [Field -> Text \cup {Null}], patch : Patches]
    BY <1>0, <1>6, LoadedCalls DEF WriteSuite, HasOp
  <2>2. \A f \in DOMAIN call[c].patch : call[c].patch[f] \in Text \cup {Null}
    BY <2>1, CatalogAssumption
  <2>3. [op |-> "update_suite", at |-> "stored", suite |-> call[c].suite] \in Call
    BY <2>1, StoredCalls
  <2>4. call' \in [Callers -> Call]
    BY <1>0, <1>6, <2>3, SlotMoves, Answered DEF WriteSuite, Goto
  <2>5. suites' \in [Suites -> SuiteRow \cup {Absent, Deleted}]
    <3>1. CASE UNCHANGED suites
      BY <1>0, <3>1
    <3>2. CASE ~UNCHANGED suites
      <4> DEFINE x == call[c].suite
                 fields == Changed(c)
                 row == Merged(suites[x], call[c].seen, call[c].patch, fields)
      <4>1. /\ Present(suites[x])
            /\ ~\E f \in fields \cap NotNull : call[c].patch[f] = Null
            /\ suites' = [suites EXCEPT ![x] = row]
        BY <1>6, <3>2 DEF WriteSuite
      <4>2. suites[x] \in SuiteRow
        BY <1>0, <2>1, <4>1 DEF Present
      <4>3. \A f \in fields : call[c].patch[f] \in Text \cup {Null}
        BY <2>2 DEF Changed
      <4>4. row \in SuiteRow
        BY <4>1, <4>2, <4>3 DEF Merged, SuiteRow, NotNull
      <4> QED
        BY <1>0, <2>1, <4>1, <4>4
    <3> QED
      BY <3>1, <3>2
  <2> QED
    BY <1>6, <2>4, <2>5 DEF WriteSuite, RecordsTypeOK, schema
<1>7. ASSUME NEW c \in Callers, DeleteSuite(c)
      PROVE  RecordsTypeOK'
  <2>1. PICK u \in Engineers, x \in Suites :
          Load(c, "delete_suite", u, x,
               [op |-> "delete_suite", at |-> "loaded", actor |-> u, suite |-> x,
                seen |-> CasesOf(x)])
    BY <1>7 DEF DeleteSuite
  <2>2. [op |-> "delete_suite", at |-> "loaded", actor |-> u, suite |-> x,
         seen |-> CasesOf(x)] \in Call
    BY <1>0, DeletingCalls DEF CasesOf
  <2> QED
    BY <2>1, <2>2, LoadType
<1>8. ASSUME NEW c \in Callers, EraseSuite(c)
      PROVE  RecordsTypeOK'
  <2>1. suites' \in [Suites -> SuiteRow \cup {Absent, Deleted}]
    BY <1>0, <1>8 DEF EraseSuite
  <2>2. cases' \in [Cases -> Suites \cup {NoSuite, Erased}]
        /\ reviews' \in [Events -> Review]
    BY <1>0, <1>8 DEF EraseSuite, Review
  <2>3. call' \in [Callers -> Call]
    BY <1>0, <1>8, Answered DEF EraseSuite
  <2> QED
    BY <1>8, <2>1, <2>2, <2>3 DEF EraseSuite, RecordsTypeOK, schema
<1>9. ASSUME NEW c \in Callers, AddCase(c)
      PROVE  RecordsTypeOK'
  <2>1. PICK u \in Engineers, x \in Suites :
          Load(c, "add_case", u, x,
               [op |-> "add_case", at |-> "loaded", actor |-> u, suite |-> x])
    BY <1>9 DEF AddCase
  <2>2. [op |-> "add_case", at |-> "loaded", actor |-> u, suite |-> x] \in Call
    BY <1>0, AddingCalls
  <2> QED
    BY <2>1, <2>2, LoadType
<1>10. ASSUME NEW c \in Callers, InsertCase(c)
       PROVE  RecordsTypeOK'
  <2>1. call[c].suite \in Suites
    BY <1>0, <1>10, LoadedCalls DEF InsertCase, HasOp
  <2>2. cases' \in [Cases -> Suites \cup {NoSuite, Erased}]
    BY <1>0, <1>10, <2>1 DEF InsertCase
  <2>3. call' \in [Callers -> Call]
    BY <1>0, <1>10, Answered DEF InsertCase
  <2> QED
    BY <1>10, <2>2, <2>3 DEF InsertCase, RecordsTypeOK, schema
<1> QED
  BY <1>1, <1>2, <1>3, <1>4, <1>5, <1>6, <1>7, <1>8, <1>9, <1>10 DEF CatalogNext

LEMMA ReviewType ==
    ASSUME RecordsTypeOK, ReviewNext
    PROVE  RecordsTypeOK'
<1>0. /\ call \in [Callers -> Call]
      /\ reviews \in [Events -> Review]
      /\ 404 \in Codes /\ 200 \in Codes /\ 500 \in Codes
  BY DEF RecordsTypeOK, Codes
<1>1. ASSUME NEW c \in Callers, ReviewEvent(c)
      PROVE  RecordsTypeOK'
  <2>1. PICK e \in Events, want \in {"accepted", "rejected"} :
          \/ Answer(c, 404)
          \/ call' = [call EXCEPT ![c] = [op |-> "review", at |-> "loaded", event |-> e,
                                          seen |-> reviews[e], want |-> want]]
    BY <1>1 DEF ReviewEvent, Begin, MayCall, Answer
  <2>2. [op |-> "review", at |-> "loaded", event |-> e, seen |-> reviews[e],
         want |-> want] \in Call
    BY <1>0, ReviewingCalls DEF Review
  <2>3. call' \in [Callers -> Call]
    BY <1>0, <2>1, <2>2, SlotMoves, Answered
  <2> QED
    BY <1>1, <2>3 DEF ReviewEvent, RecordsTypeOK, schema, rows
<1>2. ASSUME NEW c \in Callers, WriteReview(c)
      PROVE  RecordsTypeOK'
  <2>1. call[c].event \in Events /\ call[c].want \in Review
    BY <1>0, <1>2, LoadedCalls DEF WriteReview, HasOp
  <2>2. reviews' \in [Events -> Review]
    BY <1>0, <1>2, <2>1 DEF WriteReview
  <2>3. call' \in [Callers -> Call]
    BY <1>0, <1>2, Answered DEF WriteReview
  <2> QED
    BY <1>2, <2>2, <2>3 DEF WriteReview, RecordsTypeOK, schema
<1> QED
  BY <1>1, <1>2 DEF ReviewNext

LEMMA InitType == RecordsInit => RecordsTypeOK
<1> SUFFICES ASSUME RecordsInit
             PROVE  RecordsTypeOK
  OBVIOUS
<1>1. call \in [Callers -> Call]
  BY IdleCalls DEF RecordsInit, Codes
<1>2. /\ made \subseteq Objects /\ stamped \in BOOLEAN /\ serving \in BOOLEAN
      /\ users \in [Users -> UserRow \cup {Absent}]
      /\ tokens \subseteq Users \X TokenType
      /\ suites \in [Suites -> SuiteRow \cup {Absent, Deleted}]
  <2>1. CASE Empty
    BY <2>1 DEF Empty
  <2>2. CASE InService
    <3>1. Population.tokens \subseteq Users \X TokenType
      BY PopulationAssumption
    <3>2. Population.suites \in [Suites -> SuiteRow \cup {Absent, Deleted}]
      BY PopulationAssumption
    <3>3. Population.users \in [Users -> UserRow \cup {Absent}]
      BY PopulationAssumption
    <3> QED
      BY <2>2, <3>1, <3>2, <3>3 DEF InService
  <2> QED
    BY <2>1, <2>2 DEF RecordsInit
<1>3. reviews \in [Events -> Review]
  BY DEF RecordsInit, Review
<1>4. cases \in [Cases -> Suites \cup {NoSuite, Erased}]
  BY DEF RecordsInit
<1> QED
  BY <1>1, <1>2, <1>3, <1>4 DEF RecordsInit, RecordsTypeOK

LEMMA StepType == RecordsTypeOK /\ [RecordsNext]_recordVars => RecordsTypeOK'
<1> SUFFICES ASSUME RecordsTypeOK, [RecordsNext]_recordVars
             PROVE  RecordsTypeOK'
  OBVIOUS
<1>1. ASSUME NEW c \in Callers, Die(c)
      PROVE  RecordsTypeOK'
  <2>1. call' \in [Callers -> Call]
    BY <1>1, Answered DEF Die, RecordsTypeOK, Codes
  <2> QED
    BY <1>1, <2>1 DEF Die, RecordsTypeOK, schema, rows
<1>2. CASE UNCHANGED recordVars
  BY <1>2 DEF recordVars, schema, rows, RecordsTypeOK
<1> QED
  BY <1>1, <1>2, SchemaType, AccountsType, CatalogType, ReviewType DEF RecordsNext

\* Every row, token and call of the records stays of its kind.
THEOREM RecordsAreTyped == RecordsSpec => []RecordsTypeOK
BY InitType, StepType, PTL DEF RecordsSpec

-----------------------------------------------------------------------------
(* Accounts: rows of users are only ever added, by InsertUser; statements of  *)
(* DDL only ever add objects.                                                 *)

NewAccount(c, u) ==
    /\ call[c].op \in Registers /\ call[c].at = "free"
    /\ users' = [users EXCEPT ![u] = [email |-> Lower[call[c].email], role |-> call[c].role,
                                      cli |-> call[c].cli]]
    /\ UNCHANGED <<schema, tokens>>
    /\ "ix_users_email" \in made => \A v \in Accounts : users[v].email # Lower[call[c].email]

LEMMA CatalogKeeps == CatalogNext => UNCHANGED <<schema, users, tokens>>
<1> SUFFICES ASSUME NEW c \in Callers,
                    \/ CreateSuite(c) \/ LookUpSlug(c) \/ InsertSuite(c) \/ Reload(c)
                    \/ UpdateSuite(c) \/ WriteSuite(c) \/ DeleteSuite(c) \/ EraseSuite(c)
                    \/ AddCase(c) \/ InsertCase(c)
             PROVE  UNCHANGED <<schema, users, tokens>>
  BY DEF CatalogNext
<1>1. CASE CreateSuite(c) \/ LookUpSlug(c) \/ Reload(c)
  BY <1>1 DEF CreateSuite, LookUpSlug, Reload, rows
<1>2. CASE UpdateSuite(c) \/ DeleteSuite(c) \/ AddCase(c)
  BY <1>2 DEF UpdateSuite, DeleteSuite, AddCase, Load, rows
<1>3. CASE InsertSuite(c) \/ WriteSuite(c) \/ EraseSuite(c) \/ InsertCase(c)
  BY <1>3 DEF InsertSuite, WriteSuite, EraseSuite, InsertCase
<1> QED
  BY <1>1, <1>2, <1>3

LEMMA InsertedAccount ==
    ASSUME NEW c \in Callers, InsertUser(c)
    PROVE  UNCHANGED <<schema, tokens>> /\ (UNCHANGED users \/ \E u \in Users \ Accounts : NewAccount(c, u))
<1>1. UNCHANGED <<schema, tokens>>
  BY DEF InsertUser
<1>2. CASE Accounts # Users /\ ~UNCHANGED users
  <2>1. Accounts \subseteq Users
    BY DEF Accounts
  <2>2. Fresh(Users \ Accounts) \in Users \ Accounts
    BY <1>2, <2>1, FreshId
  <2>3. NewAccount(c, Fresh(Users \ Accounts))
    BY <1>1, <1>2 DEF InsertUser, NewAccount, Stored
  <2> QED
    BY <1>1, <2>2, <2>3
<1> QED
  BY <1>1, <1>2 DEF InsertUser

\* What a step does to the schema and the accounts.
LEMMA AccountStep ==
    ASSUME [RecordsNext]_recordVars
    PROVE  \/ UNCHANGED <<made, users>>
           \/ UNCHANGED users /\ ("ix_users_email" \in made' \ made => UniqueEmails)
           \/ \E c \in Callers, u \in Users \ Accounts : NewAccount(c, u)
<1>1. CASE SchemaNext
  <2>1. PICK c \in Callers : Boot(c) \/ Upgrade(c) \/ SendDdl(c) \/ EndDdl(c)
    BY <1>1 DEF SchemaNext
  <2>2. CASE SendDdl(c)
    <3>1. PICK part \in SUBSET call[c].todo : Send(c, part)
      BY <2>2 DEF SendDdl
    <3>2. "ix_users_email" \in made' \ made => UniqueEmails
      BY <3>1 DEF Send, Accepts
    <3> QED
      BY <2>2, <3>2 DEF SendDdl, rows
  <2> QED
    BY <2>1, <2>2 DEF Boot, Upgrade, EndDdl, schema, rows
<1>2. CASE AccountsNext
  <2>1. ASSUME NEW c \in Callers, Register(c) \/ CreateUser(c) \/ Seed(c) \/ LookUpEmail(c)
                                  \/ Login(c) \/ Refresh(c)
        PROVE  UNCHANGED <<made, users>>
    BY <2>1 DEF Register, CreateUser, Seed, LookUpEmail, Login, Refresh, schema, rows
  <2>2. ASSUME NEW u \in Users, NEW type \in TokenType, Expire(u, type)
        PROVE  UNCHANGED <<made, users>>
    BY <2>2 DEF Expire, schema, rows
  <2>3. ASSUME NEW c \in Callers, InsertUser(c)
        PROVE  UNCHANGED <<made, users>> \/ \E u \in Users \ Accounts : NewAccount(c, u)
    BY <2>3, InsertedAccount DEF schema
  <2> QED
    BY <1>2, <2>1, <2>2, <2>3 DEF AccountsNext
<1>3. CASE CatalogNext
  BY <1>3, CatalogKeeps DEF schema
<1>4. CASE ReviewNext \/ (\E c \in Callers : Die(c)) \/ UNCHANGED recordVars
  BY <1>4 DEF ReviewNext, ReviewEvent, WriteReview, Die, recordVars, schema, rows
<1> QED
  BY <1>1, <1>2, <1>3, <1>4 DEF RecordsNext

\* What the rows hold is what the look-up asks for: without it the index, which
\* compares what is stored, would not tell two spellings apart.
AccountsInv ==
    /\ \A u \in Accounts : Lower[users[u].email] = users[u].email
    /\ OneAccountPerEmail

LEMMA AccountsInvInit == RecordsInit => AccountsInv
<1> SUFFICES ASSUME RecordsInit
             PROVE  AccountsInv
  OBVIOUS
<1>1. CASE Empty
  BY <1>1 DEF Empty, AccountsInv, OneAccountPerEmail, UniqueEmails, Accounts, Present
<1>2. CASE InService
  BY <1>2, PopulationAssumption
     DEF InService, AccountsInv, OneAccountPerEmail, UniqueEmails, Accounts, Present
<1> QED
  BY <1>1, <1>2 DEF RecordsInit

LEMMA AccountsInvStep ==
    RecordsTypeOK /\ AccountsInv /\ [RecordsNext]_recordVars => AccountsInv'
<1> SUFFICES ASSUME RecordsTypeOK, AccountsInv, [RecordsNext]_recordVars
             PROVE  AccountsInv'
  OBVIOUS
<1>1. CASE UNCHANGED <<made, users>>
  BY <1>1 DEF AccountsInv, OneAccountPerEmail, UniqueEmails, Accounts
<1>2. CASE UNCHANGED users /\ ("ix_users_email" \in made' \ made => UniqueEmails)
  BY <1>2 DEF AccountsInv, OneAccountPerEmail, UniqueEmails, Accounts
<1>3. ASSUME NEW c \in Callers, NEW u \in Users \ Accounts, NewAccount(c, u)
      PROVE  AccountsInv'
  <2>1. call[c].email \in Emails
    BY <1>3 DEF NewAccount, RecordsTypeOK, Call, Registers
  <2>2. Lower[Lower[call[c].email]] = Lower[call[c].email]
    BY <2>1, RecordAssumption
  <2>3. /\ Accounts' \subseteq Accounts \cup {u}
        /\ \A v \in Users : v # u => users'[v] = users[v]
        /\ users'[u].email = Lower[call[c].email]
        /\ made' = made
    BY <1>3 DEF NewAccount, RecordsTypeOK, Accounts, schema
  <2>4. \A v \in Accounts : users'[v] = users[v]
    BY <2>3 DEF Accounts
  <2>5. \A v \in Accounts' : Lower[users'[v].email] = users'[v].email
    BY <2>2, <2>3, <2>4 DEF AccountsInv
  <2>6. ASSUME "ix_users_email" \in made
        PROVE  UniqueEmails'
    <3>1. \A v \in Accounts : users[v].email # Lower[call[c].email]
      BY <1>3, <2>6 DEF NewAccount
    <3>2. \A v, w \in Accounts : users[v].email = users[w].email => v = w
      BY <2>6 DEF AccountsInv, OneAccountPerEmail, UniqueEmails
    <3>3. \A v, w \in Accounts' : users'[v].email = users'[w].email => v = w
      BY <2>3, <2>4, <3>1, <3>2
    <3> QED
      BY <2>5, <3>3 DEF UniqueEmails
  <2> QED
    BY <2>3, <2>5, <2>6 DEF AccountsInv, OneAccountPerEmail
<1> QED
  BY <1>1, <1>2, <1>3, AccountStep

\* However registrations, create-user, seeds and the creation of the schema
\* overlap, and whoever dies on the way, a database with its index has one account
\* for an address.
THEOREM AccountsAreUnique == RecordsSpec => []OneAccountPerEmail
<1>1. RecordsInit => RecordsTypeOK /\ AccountsInv
  BY InitType, AccountsInvInit
<1>2. RecordsTypeOK /\ AccountsInv /\ [RecordsNext]_recordVars
        => RecordsTypeOK' /\ AccountsInv'
  BY StepType, AccountsInvStep
<1>3. AccountsInv => OneAccountPerEmail
  BY DEF AccountsInv
<1> QED
  BY <1>1, <1>2, <1>3, PTL DEF RecordsSpec

-----------------------------------------------------------------------------
(* Admins: the role a request may ask for is settled when it begins.          *)

Modest(r) == r.op = "register" => r.role # "admin"

LEMMA SlotsStayModest ==
    ASSUME call \in [Callers -> Call], \A d \in Callers : Modest(call[d]),
           NEW c \in Callers, NEW next, Modest(next), call' = [call EXCEPT ![c] = next]
    PROVE  \A d \in Callers : Modest(call'[d])
OBVIOUS

LEMMA AnswersAreModest == \A code : Modest(Idle(code))
BY DEF Modest, Idle

\* A call that goes on keeps its operation and its role.
LEMMA GoesOn ==
    ASSUME NEW r \in Call, NEW at, Modest(r)
    PROVE  Modest([r EXCEPT !.at = at])
<1>1. CASE r.op = "register"
  <2>1. r \in [op : {"register"}, at : {"begin", "free"}, email : Emails, role : Role,
               cli : {FALSE}]
    BY <1>1 DEF Call
  <2> QED
    BY <1>1, <2>1 DEF Modest
<1>2. CASE r.op # "register"
  <2>1. [r EXCEPT !.at = at].op = r.op
    BY DEF Call
  <2> QED
    BY <1>2, <2>1 DEF Modest
<1> QED
  BY <1>1, <1>2

LEMMA ModestStep ==
    ASSUME RecordsTypeOK, \A d \in Callers : Modest(call[d]), [RecordsNext]_recordVars
    PROVE  \A d \in Callers : Modest(call'[d])
<1>0. call \in [Callers -> Call]
  BY DEF RecordsTypeOK
<1>1. CASE SchemaNext
  <2>1. PICK c \in Callers : Boot(c) \/ Upgrade(c) \/ SendDdl(c) \/ EndDdl(c)
    BY <1>1 DEF SchemaNext
  <2>2. CASE Boot(c) \/ Upgrade(c)
    BY <1>0, <2>2, SlotsStayModest DEF Boot, Upgrade, Begin, MayCall, Modest
  <2>3. CASE SendDdl(c)
    <3>1. PICK part \in SUBSET call[c].todo : Send(c, part)
      BY <2>3 DEF SendDdl
    <3>2. call[c].op # "register"
      BY <1>0, <2>3 DEF SendDdl, WithDdl, Call
    <3>3. Modest([call[c] EXCEPT !.todo = @ \ part])
      <4>1. \A r \in Call : \A todo : [r EXCEPT !.todo = todo].op = r.op
        BY DEF Call
      <4>2. [call[c] EXCEPT !.todo = @ \ part].op = call[c].op
        BY <1>0, <4>1
      <4> QED
        BY <3>2, <4>2 DEF Modest
    <3>4. (\E code : Answer(c, code)) \/ Goto(c, [call[c] EXCEPT !.todo = @ \ part])
      BY <3>1 DEF Send
    <3> QED
      BY <1>0, <3>3, <3>4, SlotsStayModest, AnswersAreModest DEF Goto, Answer
  <2>4. CASE EndDdl(c)
    <3>1. Modest([call[c] EXCEPT !.at = "begin"])
      BY <1>0, GoesOn
    <3>2. (\E code : Answer(c, code)) \/ Goto(c, [call[c] EXCEPT !.at = "begin"])
      BY <2>4 DEF EndDdl
    <3> QED
      BY <1>0, <3>1, <3>2, SlotsStayModest, AnswersAreModest DEF Goto, Answer
  <2> QED
    BY <2>1, <2>2, <2>3, <2>4
<1>2. CASE AccountsNext
  <2>1. ASSUME NEW c \in Callers, Register(c)
        PROVE  \A d \in Callers : Modest(call'[d])
    <3>1. PICK email \in Typed, role \in Roles :
            call' = [call EXCEPT ![c] =
                       IF role = "admin" THEN Idle(403)
                       ELSE [op |-> "register", at |-> "begin", email |-> email,
                             role |-> role, cli |-> FALSE]]
      BY <2>1 DEF Register, Begin, MayCall
    <3> QED
      BY <1>0, <3>1, SlotsStayModest, AnswersAreModest DEF Modest
  <2>2. ASSUME NEW c \in Callers, CreateUser(c) \/ Seed(c)
        PROVE  \A d \in Callers : Modest(call'[d])
    BY <1>0, <2>2, SlotsStayModest DEF CreateUser, Seed, Begin, MayCall, Modest
  <2>3. ASSUME NEW c \in Callers, LookUpEmail(c) \/ InsertUser(c)
        PROVE  \A d \in Callers : Modest(call'[d])
    <3>1. Modest([call[c] EXCEPT !.at = "free"])
      BY <1>0, GoesOn
    <3>2. \A u : Modest(WantsSuite(u))
      BY DEF Modest, WantsSuite
    <3>3. \/ \E code : Answer(c, code)
          \/ Goto(c, [call[c] EXCEPT !.at = "free"])
          \/ \E u : Goto(c, WantsSuite(u))
      BY <2>3 DEF LookUpEmail, InsertUser
    <3> QED
      BY <1>0, <3>1, <3>2, <3>3, SlotsStayModest, AnswersAreModest DEF Goto, Answer
  <2>4. ASSUME NEW c \in Callers, Login(c) \/ Refresh(c)
        PROVE  \A d \in Callers : Modest(call'[d])
    <3>1. \E code : call' = [call EXCEPT ![c] = Idle(code)]
      BY <2>4 DEF Login, Refresh, Begin, MayCall
    <3> QED
      BY <1>0, <3>1, SlotsStayModest, AnswersAreModest
  <2>5. ASSUME NEW u \in Users, NEW type \in TokenType, Expire(u, type)
        PROVE  \A d \in Callers : Modest(call'[d])
    BY <2>5 DEF Expire
  <2> QED
    BY <1>2, <2>1, <2>2, <2>3, <2>4, <2>5 DEF AccountsNext
<1>3. CASE CatalogNext
  <2>1. PICK c \in Callers :
          \/ CreateSuite(c) \/ LookUpSlug(c) \/ InsertSuite(c) \/ Reload(c)
          \/ UpdateSuite(c) \/ WriteSuite(c) \/ DeleteSuite(c) \/ EraseSuite(c)
          \/ AddCase(c) \/ InsertCase(c)
    BY <1>3 DEF CatalogNext
  <2>2. CASE CreateSuite(c)
    BY <1>0, <2>2, SlotsStayModest DEF CreateSuite, Begin, MayCall, Modest
  <2>3. CASE LookUpSlug(c)
    <3>1. \A at : Modest([call[c] EXCEPT !.at = at])
      BY <1>0, GoesOn
    <3>2. (\E code : Answer(c, code)) \/ \E at : Goto(c, [call[c] EXCEPT !.at = at])
      BY <2>3 DEF LookUpSlug
    <3> QED
      BY <1>0, <3>1, <3>2, SlotsStayModest, AnswersAreModest DEF Goto, Answer
  <2>4. CASE InsertSuite(c) \/ WriteSuite(c)
    <3>1. \/ \E code : Answer(c, code)
          \/ \E x : Goto(c, [op |-> "create_suite", at |-> "stored", suite |-> x])
          \/ \E x : Goto(c, [op |-> "update_suite", at |-> "stored", suite |-> x])
      BY <2>4 DEF InsertSuite, WriteSuite
    <3>2. \A x : /\ Modest([op |-> "create_suite", at |-> "stored", suite |-> x])
                 /\ Modest([op |-> "update_suite", at |-> "stored", suite |-> x])
      BY DEF Modest
    <3> QED
      BY <1>0, <3>1, <3>2, SlotsStayModest, AnswersAreModest DEF Goto, Answer
  <2>5. CASE Reload(c) \/ EraseSuite(c) \/ InsertCase(c)
    <3>1. \E code : Answer(c, code)
      BY <2>5 DEF Reload, EraseSuite, InsertCase
    <3> QED
      BY <1>0, <3>1, SlotsStayModest, AnswersAreModest DEF Answer
  <2>6. CASE UpdateSuite(c) \/ DeleteSuite(c) \/ AddCase(c)
    <3>1. \E args : Modest(args) /\ call' = [call EXCEPT ![c] = args]
      <4>1. ASSUME NEW op, NEW u, NEW x, NEW args, Load(c, op, u, x, args), Modest(args)
            PROVE  \E next : Modest(next) /\ call' = [call EXCEPT ![c] = next]
        <5>1. \/ call' = [call EXCEPT ![c] = args]
              \/ \E code : call' = [call EXCEPT ![c] = Idle(code)]
          BY <4>1, LoadMoves DEF Answer
        <5> QED
          BY <4>1, <5>1, AnswersAreModest
      <4>2. CASE UpdateSuite(c)
        <5>1. PICK u, x, patch :
                Load(c, "update_suite", u, x,
                     [op |-> "update_suite", at |-> "loaded", actor |-> u, suite |-> x,
                      seen |-> [f \in Field |-> suites[x][f]], patch |-> patch])
          BY <4>2 DEF UpdateSuite
        <5>2. Modest([op |-> "update_suite", at |-> "loaded", actor |-> u, suite |-> x,
                      seen |-> [f \in Field |-> suites[x][f]], patch |-> patch])
          BY DEF Modest
        <5> QED
          BY <4>1, <5>1, <5>2
      <4>3. CASE DeleteSuite(c)
        <5>1. PICK u, x :
                Load(c, "delete_suite", u, x,
                     [op |-> "delete_suite", at |-> "loaded", actor |-> u, suite |-> x,
                      seen |-> CasesOf(x)])
          BY <4>3 DEF DeleteSuite
        <5>2. Modest([op |-> "delete_suite", at |-> "loaded", actor |-> u, suite |-> x,
                      seen |-> CasesOf(x)])
          BY DEF Modest
        <5> QED
          BY <4>1, <5>1, <5>2
      <4>4. CASE AddCase(c)
        <5>1. PICK u, x :
                Load(c, "add_case", u, x,
                     [op |-> "add_case", at |-> "loaded", actor |-> u, suite |-> x])
          BY <4>4 DEF AddCase
        <5>2. Modest([op |-> "add_case", at |-> "loaded", actor |-> u, suite |-> x])
          BY DEF Modest
        <5> QED
          BY <4>1, <5>1, <5>2
      <4> QED
        BY <2>6, <4>2, <4>3, <4>4
    <3> QED
      BY <1>0, <3>1, SlotsStayModest
  <2> QED
    BY <2>1, <2>2, <2>3, <2>4, <2>5, <2>6
<1>4. CASE ReviewNext
  <2>1. PICK c \in Callers : ReviewEvent(c) \/ WriteReview(c)
    BY <1>4 DEF ReviewNext
  <2>2. CASE ReviewEvent(c)
    BY <1>0, <2>2, SlotsStayModest, AnswersAreModest DEF ReviewEvent, Begin, MayCall, Modest
  <2>3. CASE WriteReview(c)
    BY <1>0, <2>3, SlotsStayModest, AnswersAreModest DEF WriteReview, Answer
  <2> QED
    BY <2>1, <2>2, <2>3
<1>5. CASE \E c \in Callers : Die(c)
  BY <1>0, <1>5, SlotsStayModest, AnswersAreModest DEF Die, Answer
<1>6. CASE UNCHANGED recordVars
  BY <1>6 DEF recordVars
<1> QED
  BY <1>1, <1>2, <1>3, <1>4, <1>5, <1>6 DEF RecordsNext

LEMMA TokenStep ==
    ASSUME [RecordsNext]_recordVars
    PROVE  \A t \in tokens' : t \in tokens \/ t[1] \in Accounts
<1>1. CASE SchemaNext \/ CatalogNext \/ ReviewNext \/ (\E c \in Callers : Die(c))
           \/ UNCHANGED recordVars
  BY <1>1, CatalogKeeps
     DEF SchemaNext, Boot, Upgrade, SendDdl, EndDdl, ReviewNext, ReviewEvent, WriteReview,
         Die, recordVars
<1>2. ASSUME NEW u \in Accounts, Issue(u)
      PROVE  \A t \in tokens' : t \in tokens \/ t[1] \in Accounts
  BY <1>2 DEF Issue
<1>3. ASSUME NEW c \in Callers, Login(c)
      PROVE  \A t \in tokens' : t \in tokens \/ t[1] \in Accounts
  <2>1. UNCHANGED tokens \/ \E u \in Accounts : Issue(u)
    BY <1>3 DEF Login, AccountsWith
  <2> QED
    BY <1>2, <2>1
<1>4. ASSUME NEW c \in Callers, Refresh(c)
      PROVE  \A t \in tokens' : t \in tokens \/ t[1] \in Accounts
  <2>1. UNCHANGED tokens \/ \E u \in Accounts : Issue(u)
    BY <1>4 DEF Refresh, Admits, Accounts
  <2> QED
    BY <1>2, <2>1
<1>5. ASSUME NEW c \in Callers, Register(c) \/ CreateUser(c) \/ Seed(c) \/ LookUpEmail(c)
                                \/ InsertUser(c)
      PROVE  UNCHANGED tokens
  BY <1>5 DEF Register, CreateUser, Seed, LookUpEmail, InsertUser
<1>6. ASSUME NEW u \in Users, NEW type \in TokenType, Expire(u, type)
      PROVE  tokens' \subseteq tokens
  BY <1>6 DEF Expire
<1> QED
  BY <1>1, <1>3, <1>4, <1>5, <1>6 DEF RecordsNext, AccountsNext

AdminsInv ==
    /\ AdminsComeFromCli
    /\ \A c \in Callers : Modest(call[c])

LEMMA AdminsInvInit == RecordsInit => AdminsInv
<1> SUFFICES ASSUME RecordsInit
             PROVE  AdminsInv
  OBVIOUS
<1>1. \A c \in Callers : Modest(call[c])
  BY AnswersAreModest DEF RecordsInit
<1>2. CASE Empty
  BY <1>1, <1>2 DEF Empty, AdminsInv, AdminsComeFromCli, Accounts, Present
<1>3. CASE InService
  <2>1. \A u \in Users : users[u] # Absent <=> u \in Accounts
    <3>1. \A row \in UserRow : row # Deleted
      BY DEF UserRow, Deleted
    <3>2. Absent # Deleted
      BY DEF Absent, Deleted
    <3>3. \A u \in Users : users[u] \in UserRow \cup {Absent}
      BY <1>3, PopulationAssumption DEF InService
    <3> QED
      BY <3>1, <3>2, <3>3 DEF Accounts, Present
  <2>2. \A t \in tokens : t[1] \in Accounts
    BY <1>3, <2>1, PopulationAssumption DEF InService
  <2>3. \A u \in Accounts : users[u].role = "admin" => users[u].cli
    BY <1>3, <2>1, PopulationAssumption DEF InService, Accounts
  <2> QED
    BY <1>1, <2>2, <2>3 DEF AdminsInv, AdminsComeFromCli
<1> QED
  BY <1>2, <1>3 DEF RecordsInit

LEMMA AdminsInvStep ==
    RecordsTypeOK /\ AdminsInv /\ [RecordsNext]_recordVars => AdminsInv'
<1> SUFFICES ASSUME RecordsTypeOK, AdminsInv, [RecordsNext]_recordVars
             PROVE  AdminsInv'
  OBVIOUS
<1>1. \A c \in Callers : Modest(call'[c])
  BY ModestStep DEF AdminsInv
<1>2. CASE UNCHANGED users
  <2>1. Accounts' = Accounts
    BY <1>2 DEF Accounts
  <2> QED
    BY <1>1, <1>2, <2>1, TokenStep DEF AdminsInv, AdminsComeFromCli, Modest
<1>3. ASSUME NEW c \in Callers, NEW u \in Users \ Accounts, NewAccount(c, u)
      PROVE  AdminsInv'
  <2>1. call[c].role = "admin" => call[c].cli
    <3>1. CASE call[c].op = "register"
      BY <3>1 DEF AdminsInv, Modest
    <3>2. CASE call[c].op # "register"
      BY <1>3, <3>2 DEF NewAccount, RecordsTypeOK, Call, Registers
    <3> QED
      BY <3>1, <3>2
  <2>2. /\ Accounts' \subseteq Accounts \cup {u}
        /\ \A v \in Accounts : users'[v] = users[v]
        /\ users'[u] = [email |-> Lower[call[c].email], role |-> call[c].role,
                        cli |-> call[c].cli]
        /\ tokens' = tokens
    BY <1>3 DEF NewAccount, RecordsTypeOK, Accounts
  <2>3. Accounts \subseteq Accounts'
    BY <2>2 DEF Accounts
  <2>4. \A v \in Accounts' : users'[v].role = "admin" => users'[v].cli
    BY <2>1, <2>2 DEF AdminsInv, AdminsComeFromCli
  <2>5. \A t \in tokens' : t[1] \in Accounts'
    BY <2>2, <2>3 DEF AdminsInv, AdminsComeFromCli
  <2> QED
    BY <1>1, <2>4, <2>5 DEF AdminsInv, AdminsComeFromCli, Modest
<1> QED
  BY <1>2, <1>3, AccountStep

\* Nobody who came in through the API is ever an admin, and no token outlives or
\* precedes its account.
THEOREM AdminsAreAppointed == RecordsSpec => []AdminsComeFromCli
<1>1. RecordsInit => RecordsTypeOK /\ AdminsInv
  BY InitType, AdminsInvInit
<1>2. RecordsTypeOK /\ AdminsInv /\ [RecordsNext]_recordVars => RecordsTypeOK' /\ AdminsInv'
  BY StepType, AdminsInvStep
<1>3. AdminsInv => AdminsComeFromCli
  BY DEF AdminsInv
<1> QED
  BY <1>1, <1>2, <1>3, PTL DEF RecordsSpec

-----------------------------------------------------------------------------
(* Suites: a slug is given once, by InsertSuite.                             *)

LEMMA CatalogueSlugs ==
    ASSUME RecordsTypeOK
    PROVE  \A x \in Catalogue : suites[x] \in SuiteRow
BY DEF RecordsTypeOK, Catalogue, Present

\* What a step does to the slugs.
LEMMA SlugStep ==
    ASSUME RecordsTypeOK, [RecordsNext]_recordVars
    PROVE  \/ /\ Catalogue' \subseteq Catalogue
              /\ \A x \in Catalogue' : suites'[x].slug = suites[x].slug
              /\ "ix_test_suites_slug" \in made' \ made => UniqueSlugs
           \/ \E x \in Suites \ Catalogue :
              /\ Catalogue' \subseteq Catalogue \cup {x}
              /\ \A y \in Catalogue : suites'[y] = suites[y]
              /\ made' = made
              /\ "ix_test_suites_slug" \in made =>
                   \A y \in Catalogue : suites[y].slug # suites'[x].slug
<1>1. CASE SchemaNext
  <2>1. PICK c \in Callers : Boot(c) \/ Upgrade(c) \/ SendDdl(c) \/ EndDdl(c)
    BY <1>1 DEF SchemaNext
  <2>2. UNCHANGED suites
    BY <2>1 DEF Boot, Upgrade, SendDdl, EndDdl, rows
  <2>3. CASE SendDdl(c)
    <3>1. PICK part \in SUBSET call[c].todo : Send(c, part)
      BY <2>3 DEF SendDdl
    <3>2. "ix_test_suites_slug" \in made' \ made => UniqueSlugs
      BY <3>1 DEF Send, Accepts
    <3> QED
      BY <2>2, <3>2 DEF Catalogue
  <2>4. CASE Boot(c) \/ Upgrade(c) \/ EndDdl(c)
    BY <2>2, <2>4 DEF Boot, Upgrade, EndDdl, schema, Catalogue
  <2> QED
    BY <2>1, <2>3, <2>4
<1>2. CASE AccountsNext
  <2>1. UNCHANGED <<made, suites>>
    BY <1>2 DEF AccountsNext, Register, CreateUser, Seed, LookUpEmail, InsertUser, Login,
                Refresh, Expire, schema, rows
  <2> QED
    BY <2>1 DEF Catalogue
<1>3. CASE CatalogNext
  <2>0. UNCHANGED made
    BY <1>3, CatalogKeeps DEF schema
  <2>1. PICK c \in Callers :
          \/ CreateSuite(c) \/ LookUpSlug(c) \/ InsertSuite(c) \/ Reload(c)
          \/ UpdateSuite(c) \/ WriteSuite(c) \/ DeleteSuite(c) \/ EraseSuite(c)
          \/ AddCase(c) \/ InsertCase(c)
    BY <1>3 DEF CatalogNext
  <2>2. CASE UNCHANGED suites
    BY <2>0, <2>2 DEF Catalogue
  <2>3. CASE InsertSuite(c) /\ ~UNCHANGED suites
    <3>1. PICK x \in Suites :
            /\ suites[x] = Absent
            /\ suites' = [suites EXCEPT ![x] = [slug |-> SlugOf(c), owner |-> call[c].owner,
                                                name |-> "a", description |-> "a"]]
      <4>1. Fresh({y \in Suites : suites[y] = Absent}) \in {y \in Suites : suites[y] = Absent}
        BY <2>3, FreshId DEF InsertSuite
      <4> QED
        BY <2>3, <4>1 DEF InsertSuite
    <3>2. "ix_test_suites_slug" \in made => \A y \in Catalogue : suites[y].slug # SlugOf(c)
      BY <2>3 DEF InsertSuite
    <3>3. suites'[x].slug = SlugOf(c) /\ x \notin Catalogue
      BY <3>1 DEF RecordsTypeOK, Catalogue, Present
    <3>4. Catalogue' \subseteq Catalogue \cup {x} /\ \A y \in Catalogue : suites'[y] = suites[y]
      BY <3>1, <3>3 DEF RecordsTypeOK, Catalogue
    <3> QED
      BY <2>0, <3>2, <3>3, <3>4
  <2>4. CASE WriteSuite(c) /\ ~UNCHANGED suites
    <3>1. PICK seen, patch, fields :
            /\ suites' = [suites EXCEPT ![call[c].suite] = Merged(@, seen, patch, fields)]
            /\ call[c].suite \in Suites /\ Present(suites[call[c].suite])
      <4>1. call[c].suite \in Suites
        BY <2>4 DEF WriteSuite, HasOp, RecordsTypeOK, Call
      <4> QED
        BY <2>4, <4>1 DEF WriteSuite
    <3>2. suites'[call[c].suite].slug = suites[call[c].suite].slug
      <4>1. suites[call[c].suite] \in SuiteRow
        BY <3>1, CatalogueSlugs DEF Catalogue
      <4>2. Merged(suites[call[c].suite], seen, patch, fields).slug
              = suites[call[c].suite].slug
        BY <4>1 DEF Merged, SuiteRow
      <4> QED
        BY <3>1, <4>2 DEF RecordsTypeOK
    <3>3. Catalogue' \subseteq Catalogue /\ \A x \in Catalogue' : suites'[x].slug = suites[x].slug
      BY <3>1, <3>2 DEF RecordsTypeOK, Catalogue
    <3> QED
      BY <2>0, <3>3
  <2>5. CASE EraseSuite(c)
    <3>1. suites' = [suites EXCEPT ![call[c].suite] = Deleted]
      BY <2>5 DEF EraseSuite
    <3>2. \A x \in Suites : x \in Catalogue' => suites'[x] = suites[x] /\ x \in Catalogue
      BY <3>1 DEF RecordsTypeOK, Catalogue, Present
    <3> QED
      BY <2>0, <3>2 DEF Catalogue
  <2>6. CASE CreateSuite(c) \/ LookUpSlug(c) \/ Reload(c) \/ UpdateSuite(c) \/ DeleteSuite(c)
             \/ AddCase(c) \/ InsertCase(c)
    BY <2>2, <2>6 DEF CreateSuite, LookUpSlug, Reload, UpdateSuite, DeleteSuite, AddCase, Load,
                      InsertCase, rows
  <2> QED
    BY <2>1, <2>2, <2>3, <2>4, <2>5, <2>6
<1>4. CASE ReviewNext \/ (\E c \in Callers : Die(c)) \/ UNCHANGED recordVars
  <2>1. UNCHANGED <<made, suites>>
    BY <1>4 DEF ReviewNext, ReviewEvent, WriteReview, Die, recordVars, schema, rows
  <2> QED
    BY <2>1 DEF Catalogue
<1> QED
  BY <1>1, <1>2, <1>3, <1>4 DEF RecordsNext

LEMMA SlugsInit == RecordsInit => OneSuitePerSlug
<1> SUFFICES ASSUME RecordsInit
             PROVE  OneSuitePerSlug
  OBVIOUS
<1>1. CASE Empty
  BY <1>1 DEF Empty, OneSuitePerSlug
<1>2. CASE InService
  BY <1>2, PopulationAssumption DEF InService, OneSuitePerSlug, UniqueSlugs, Catalogue, Present
<1> QED
  BY <1>1, <1>2 DEF RecordsInit

LEMMA SlugsStep ==
    RecordsTypeOK /\ OneSuitePerSlug /\ [RecordsNext]_recordVars => OneSuitePerSlug'
<1> SUFFICES ASSUME RecordsTypeOK, OneSuitePerSlug, [RecordsNext]_recordVars,
                    "ix_test_suites_slug" \in made'
             PROVE  UniqueSlugs'
  BY DEF OneSuitePerSlug
<1>1. CASE /\ Catalogue' \subseteq Catalogue
           /\ \A x \in Catalogue' : suites'[x].slug = suites[x].slug
           /\ "ix_test_suites_slug" \in made' \ made => UniqueSlugs
  BY <1>1 DEF OneSuitePerSlug, UniqueSlugs
<1>2. ASSUME NEW x \in Suites \ Catalogue,
             Catalogue' \subseteq Catalogue \cup {x},
             \A y \in Catalogue : suites'[y] = suites[y],
             made' = made,
             "ix_test_suites_slug" \in made =>
               \A y \in Catalogue : suites[y].slug # suites'[x].slug
      PROVE  UniqueSlugs'
  BY <1>2 DEF OneSuitePerSlug, UniqueSlugs
<1> QED
  BY <1>1, <1>2, SlugStep

\* However creations of suites and seeds overlap, a slug has one suite.
THEOREM SuitesAreUnique == RecordsSpec => []OneSuitePerSlug
<1>1. RecordsInit => RecordsTypeOK /\ OneSuitePerSlug
  BY InitType, SlugsInit
<1>2. RecordsTypeOK /\ OneSuitePerSlug /\ [RecordsNext]_recordVars
        => RecordsTypeOK' /\ OneSuitePerSlug'
  BY StepType, SlugsStep
<1> QED
  BY <1>1, <1>2, PTL DEF RecordsSpec

-----------------------------------------------------------------------------
(* Cases: they come with a suite that is there, and go with it.              *)

LEMMA RowsArePresent == \A row \in SuiteRow : Present(row)
BY DEF SuiteRow, Present, Absent, Deleted

\* The settings a process was started with stay.
LEMMA SettingStays == [RecordsNext]_recordVars => setting' = setting
<1> SUFFICES ASSUME [RecordsNext]_recordVars
             PROVE  setting' = setting
  OBVIOUS
<1>1. SchemaNext => setting' = setting
  BY DEF SchemaNext, Boot, Upgrade, SendDdl, EndDdl
<1>2. AccountsNext => setting' = setting
  BY DEF AccountsNext, Register, CreateUser, Seed, LookUpEmail, InsertUser, Login, Refresh,
         Expire
<1>3. CatalogNext => setting' = setting
  <2>1. \A c \in Callers : UpdateSuite(c) \/ DeleteSuite(c) \/ AddCase(c)
                           => setting' = setting
    BY DEF UpdateSuite, DeleteSuite, AddCase, Load
  <2>2. \A c \in Callers : CreateSuite(c) \/ LookUpSlug(c) \/ InsertSuite(c) \/ Reload(c)
                           => setting' = setting
    BY DEF CreateSuite, LookUpSlug, InsertSuite, Reload
  <2>3. \A c \in Callers : WriteSuite(c) \/ EraseSuite(c) \/ InsertCase(c)
                           => setting' = setting
    BY DEF WriteSuite, EraseSuite, InsertCase
  <2> QED
    BY <2>1, <2>2, <2>3 DEF CatalogNext
<1>4. ReviewNext => setting' = setting
  BY DEF ReviewNext, ReviewEvent, WriteReview
<1> QED
  BY <1>1, <1>2, <1>3, <1>4 DEF RecordsNext, Die, recordVars

LEMMA CasesStep ==
    RecordsTypeOK /\ CasesHaveSuites /\ [RecordsNext]_recordVars => CasesHaveSuites'
<1> SUFFICES ASSUME RecordsTypeOK, CasesHaveSuites, [RecordsNext]_recordVars,
                    EnforcesFK', NEW k \in Cases, cases'[k] \in Suites
             PROVE  Present(suites'[cases'[k]])
  BY DEF CasesHaveSuites
<1>0. setting' = setting
  BY SettingStays
<1>1. /\ EnforcesFK
      /\ cases[k] \in Suites => Present(suites[cases[k]])
      /\ suites \in [Suites -> SuiteRow \cup {Absent, Deleted}]
      /\ cases \in [Cases -> Suites \cup {NoSuite, Erased}]
      /\ call \in [Callers -> Call]
  BY <1>0 DEF CasesHaveSuites, EnforcesFK, RecordsTypeOK
<1>2. CASE UNCHANGED <<suites, cases>>
  BY <1>1, <1>2
<1>3. CASE SchemaNext \/ AccountsNext \/ ReviewNext \/ (\E c \in Callers : Die(c))
           \/ UNCHANGED recordVars
  <2>1. UNCHANGED <<suites, cases>>
    BY <1>3 DEF SchemaNext, Boot, Upgrade, SendDdl, EndDdl, AccountsNext, Register,
       CreateUser, Seed, LookUpEmail, InsertUser, Login, Refresh, Expire, ReviewNext,
       ReviewEvent, WriteReview, Die, recordVars, rows
  <2> QED
    BY <1>2, <2>1
<1>4. ASSUME NEW c \in Callers, InsertSuite(c)
      PROVE  Present(suites'[cases'[k]])
  <2>1. CASE ~UNCHANGED <<suites, cases>>
    <3>1. PICK x \in Suites, new \in SUBSET Cases :
            /\ suites[x] = Absent
            /\ suites' = [suites EXCEPT ![x] = [slug |-> SlugOf(c), owner |-> call[c].owner,
                                                name |-> "a", description |-> "a"]]
            /\ cases' = [j \in Cases |-> IF j \in new THEN x ELSE cases[j]]
      <4>1. Fresh({y \in Suites : suites[y] = Absent}) \in {y \in Suites : suites[y] = Absent}
        BY <1>4, <2>1, FreshId DEF InsertSuite
      <4> QED
        BY <1>4, <2>1, <4>1 DEF InsertSuite
    <3>2. call[c].owner \in Users /\ SlugOf(c) \in Slugs
      BY <1>1, <1>4, CatalogAssumption DEF InsertSuite, Inserting, HasOp, SlugOf, Call
    <3>3. Present(suites'[x])
      <4>1. suites'[x] \in SuiteRow
        BY <1>1, <3>1, <3>2 DEF SuiteRow, Text
      <4> QED
        BY <4>1, RowsArePresent
    <3>4. CASE k \in new
      BY <3>1, <3>3, <3>4
    <3>5. CASE k \notin new
      <4>1. cases[k] \in Suites /\ cases'[k] = cases[k]
        BY <3>1, <3>5
      <4>2. suites'[cases[k]] = suites[cases[k]] \/ cases[k] = x
        BY <1>1, <3>1, <4>1
      <4> QED
        BY <1>1, <3>3, <4>1, <4>2
    <3> QED
      BY <3>4, <3>5
  <2> QED
    BY <1>2, <2>1
<1>5. ASSUME NEW c \in Callers, WriteSuite(c)
      PROVE  Present(suites'[cases'[k]])
  <2>1. UNCHANGED cases
    BY <1>5 DEF WriteSuite
  <2>2. CASE ~UNCHANGED suites
    <3>1. PICK seen, patch, fields :
            /\ suites' = [suites EXCEPT ![call[c].suite] = Merged(@, seen, patch, fields)]
            /\ call[c].suite \in Suites /\ Present(suites[call[c].suite])
      <4>1. call[c].suite \in Suites
        BY <1>1, <1>5 DEF WriteSuite, HasOp, Call
      <4> QED
        BY <1>5, <2>2, <4>1 DEF WriteSuite
    <3>2. suites'[call[c].suite] \in SuiteRow
      <4>1. suites[call[c].suite] \in SuiteRow
        BY <1>1, <3>1 DEF Present
      <4>2. suites' \in [Suites -> SuiteRow \cup {Absent, Deleted}]
        BY StepType DEF RecordsTypeOK
      <4>3. suites'[call[c].suite] = Merged(suites[call[c].suite], seen, patch, fields)
        BY <1>1, <3>1
      <4>4. suites'[call[c].suite] \notin {Absent, Deleted}
        BY <4>1, <4>3 DEF Merged, SuiteRow, Absent, Deleted
      <4> QED
        BY <3>1, <4>2, <4>4
    <3> QED
      BY <1>1, <2>1, <3>1, <3>2, RowsArePresent
  <2> QED
    BY <1>2, <2>1, <2>2
<1>6. ASSUME NEW c \in Callers, EraseSuite(c)
      PROVE  Present(suites'[cases'[k]])
  <2>1. /\ suites' = [suites EXCEPT ![call[c].suite] = Deleted]
        /\ cases' = [j \in Cases |-> IF j \in GoneCases(c) THEN Erased ELSE cases[j]]
    BY <1>6 DEF EraseSuite
  <2>2. Erased \notin Suites
    BY RecordAssumption DEF Erased
  <2>3. k \notin GoneCases(c) /\ cases'[k] = cases[k]
    BY <2>1, <2>2
  <2>4. cases[k] # call[c].suite
    BY <1>1, <2>3 DEF GoneCases, CasesOf
  <2> QED
    BY <1>1, <2>1, <2>3, <2>4
<1>7. ASSUME NEW c \in Callers, InsertCase(c)
      PROVE  Present(suites'[cases'[k]])
  <2>1. CASE ~UNCHANGED cases
    <3>1. PICK j \in Cases : cases' = [cases EXCEPT ![j] = call[c].suite]
      <4>1. Fresh({i \in Cases : cases[i] = NoSuite}) \in Cases
        BY <1>7, <2>1, FreshId DEF InsertCase
      <4> QED
        BY <1>7, <2>1, <4>1 DEF InsertCase
    <3>2. Present(suites[call[c].suite]) /\ suites' = suites
      BY <1>1, <1>7, <2>1 DEF InsertCase
    <3> QED
      BY <1>1, <3>1, <3>2
  <2> QED
    BY <1>2, <1>7, <2>1 DEF InsertCase
<1>8. ASSUME NEW c \in Callers,
             \/ CreateSuite(c) \/ LookUpSlug(c) \/ Reload(c) \/ UpdateSuite(c)
             \/ DeleteSuite(c) \/ AddCase(c)
      PROVE  Present(suites'[cases'[k]])
  BY <1>2, <1>8 DEF CreateSuite, LookUpSlug, Reload, UpdateSuite, DeleteSuite, AddCase, Load,
                    rows
<1> QED
  BY <1>3, <1>4, <1>5, <1>6, <1>7, <1>8 DEF RecordsNext, CatalogNext

\* On PostgreSQL a case never outlives its suite, whatever is deleted while it is
\* added.
THEOREM CasesFollowSuites == RecordsSpec => []CasesHaveSuites
<1>1. RecordsInit => RecordsTypeOK /\ CasesHaveSuites
  <2>1. RecordsInit => CasesHaveSuites
    BY RecordAssumption DEF RecordsInit, CasesHaveSuites, NoSuite
  <2> QED
    BY <2>1, InitType
<1>2. RecordsTypeOK /\ CasesHaveSuites /\ [RecordsNext]_recordVars
        => RecordsTypeOK' /\ CasesHaveSuites'
  BY StepType, CasesStep
<1> QED
  BY <1>1, <1>2, PTL DEF RecordsSpec

-----------------------------------------------------------------------------
(* Changes: who writes the rows of suites, cases and reviews.                *)

LEMMA RowWriters ==
    ASSUME [RecordsNext]_recordVars
    PROVE  \/ UNCHANGED <<suites, cases, reviews>>
           \/ \E c \in Callers : \/ InsertSuite(c) \/ WriteSuite(c) \/ EraseSuite(c)
                                 \/ InsertCase(c) \/ WriteReview(c)
<1>1. CASE SchemaNext \/ (\E c \in Callers : Die(c)) \/ UNCHANGED recordVars
  BY <1>1 DEF SchemaNext, Boot, Upgrade, SendDdl, EndDdl, Die, recordVars, rows
<1>4. CASE AccountsNext
  <2>1. \A c \in Callers : Register(c) \/ CreateUser(c) \/ Seed(c) \/ LookUpEmail(c)
                           => UNCHANGED <<suites, cases, reviews>>
    BY DEF Register, CreateUser, Seed, LookUpEmail, rows
  <2>2. \A c \in Callers : InsertUser(c) \/ Login(c) \/ Refresh(c)
                           => UNCHANGED <<suites, cases, reviews>>
    BY DEF InsertUser, Login, Refresh, rows
  <2>3. \A u \in Users, type \in TokenType : Expire(u, type)
                           => UNCHANGED <<suites, cases, reviews>>
    BY DEF Expire, rows
  <2> QED
    BY <1>4, <2>1, <2>2, <2>3 DEF AccountsNext
<1>2. CASE CatalogNext
  <2>1. \A c \in Callers : UpdateSuite(c) \/ DeleteSuite(c) \/ AddCase(c)
                           => UNCHANGED <<suites, cases, reviews>>
    BY DEF UpdateSuite, DeleteSuite, AddCase, Load, rows
  <2>2. \A c \in Callers : CreateSuite(c) \/ LookUpSlug(c) \/ Reload(c)
                           => UNCHANGED <<suites, cases, reviews>>
    BY DEF CreateSuite, LookUpSlug, Reload, rows
  <2> QED
    BY <1>2, <2>1, <2>2 DEF CatalogNext
<1>3. CASE ReviewNext
  BY <1>3 DEF ReviewNext, ReviewEvent, rows
<1> QED
  BY <1>1, <1>2, <1>3, <1>4 DEF RecordsNext

LEMMA InsertedSuite ==
    ASSUME NEW c \in Callers, InsertSuite(c)
    PROVE  \/ UNCHANGED <<suites, cases>>
           \/ \E x \in Suites, new \in SUBSET {k \in Cases : cases[k] = NoSuite} :
                /\ suites[x] = Absent
                /\ suites' = [suites EXCEPT ![x] = [slug |-> SlugOf(c), owner |-> call[c].owner,
                                                    name |-> "a", description |-> "a"]]
                /\ cases' = [k \in Cases |-> IF k \in new THEN x ELSE cases[k]]
<1>1. CASE ~UNCHANGED <<suites, cases>>
  <2>1. Fresh({y \in Suites : suites[y] = Absent}) \in {y \in Suites : suites[y] = Absent}
    BY <1>1, FreshId DEF InsertSuite
  <2> QED
    BY <1>1, <2>1 DEF InsertSuite
<1> QED
  BY <1>1

\* An UPDATE touches the columns of its body, and only where it asks for something
\* else than it has read.
LEMMA WrittenSuite ==
    ASSUME RecordsTypeOK, NEW c \in Callers, WriteSuite(c), ~UNCHANGED suites
    PROVE  /\ call[c].suite \in Suites /\ Present(suites[call[c].suite])
           /\ \A y \in Suites : y # call[c].suite => suites'[y] = suites[y]
           /\ suites'[call[c].suite].slug = suites[call[c].suite].slug
           /\ suites'[call[c].suite].owner = suites[call[c].suite].owner
           /\ \A f \in {"slug", "owner"} \cup Field :
                suites'[call[c].suite][f] # suites[call[c].suite][f] =>
                  f \in DOMAIN call[c].patch /\ call[c].patch[f] = suites'[call[c].suite][f]
<1> DEFINE x == call[c].suite
           seen == call[c].seen
           patch == call[c].patch
           fields == Changed(c)
<1>1. x \in Suites
  BY LoadedCalls DEF WriteSuite, HasOp, RecordsTypeOK
<1>2. Present(suites[x]) /\ suites' = [suites EXCEPT ![x] = Merged(@, seen, patch, fields)]
  BY DEF WriteSuite
<1>3. suites \in [Suites -> SuiteRow \cup {Absent, Deleted}]
  BY DEF RecordsTypeOK
<1>4. suites[x] \in SuiteRow
  BY <1>1, <1>2, <1>3 DEF Present
<1>5. suites'[x] = Merged(suites[x], seen, patch, fields)
  BY <1>1, <1>2, <1>3
<1>6. fields \subseteq DOMAIN patch
  BY DEF Changed
<1> HIDE DEF x, seen, patch, fields
<1> DEFINE name == IF "name" \in fields THEN patch["name"] ELSE suites[x].name
           description == IF "description" \in fields THEN patch["description"]
                          ELSE suites[x].description
<1>7. suites'[x] = [slug |-> suites[x].slug, owner |-> suites[x].owner,
                    name |-> name, description |-> description]
  BY <1>4, <1>5 DEF Merged, SuiteRow
<1> HIDE DEF name, description
<1>8. /\ suites'[x]["slug"] = suites[x]["slug"] /\ suites'[x]["owner"] = suites[x]["owner"]
      /\ suites'[x]["name"] = name /\ suites'[x]["description"] = description
  BY <1>7
<1>9. \A f \in {"slug", "owner"} \cup Field :
        suites'[x][f] # suites[x][f] => f \in DOMAIN patch /\ patch[f] = suites'[x][f]
  BY <1>6, <1>8 DEF Field, name, description
<1>10. \A y \in Suites : y # x => suites'[y] = suites[y]
  BY <1>2, <1>3
<1> QED
  BY <1>1, <1>2, <1>8, <1>9, <1>10 DEF x, patch

LEMMA AbsentRows == ~Present(Absent) /\ ~Present(Deleted)
BY DEF Present

\* Two updates of one suite do not undo each other: a field of a suite that stays
\* changes only to what a body in flight asks for that field.
THEOREM UpdatesDoNotUndo == RecordsSpec => UpdatesMerge
<1> DEFINE Holds ==
      \A x \in Suites : Present(suites[x]) /\ Present(suites'[x]) =>
         \A f \in {"slug", "owner"} \cup Field : suites'[x][f] # suites[x][f] =>
            \E c \in Callers : /\ HasOp(c, "update_suite", "loaded")
                               /\ call[c].suite = x
                               /\ f \in DOMAIN call[c].patch
                               /\ call[c].patch[f] = suites'[x][f]
<1>1. RecordsTypeOK /\ [RecordsNext]_recordVars => Holds
  <2> SUFFICES ASSUME RecordsTypeOK, [RecordsNext]_recordVars, NEW x \in Suites,
                      Present(suites[x]), Present(suites'[x]),
                      NEW f \in {"slug", "owner"} \cup Field, suites'[x][f] # suites[x][f]
               PROVE  \E c \in Callers : /\ HasOp(c, "update_suite", "loaded")
                                         /\ call[c].suite = x
                                         /\ f \in DOMAIN call[c].patch
                                         /\ call[c].patch[f] = suites'[x][f]
    OBVIOUS
  <2>1. suites'[x] # suites[x]
    OBVIOUS
  <2>2. suites \in [Suites -> SuiteRow \cup {Absent, Deleted}]
    BY DEF RecordsTypeOK
  <2>3. ASSUME NEW c \in Callers, InsertSuite(c)
        PROVE  FALSE
    BY <2>1, <2>2, <2>3, InsertedSuite, AbsentRows
  <2>4. ASSUME NEW c \in Callers, EraseSuite(c)
        PROVE  FALSE
    <3>1. suites' = [suites EXCEPT ![call[c].suite] = Deleted]
      BY <2>4 DEF EraseSuite
    <3> QED
      BY <2>1, <2>2, <3>1, AbsentRows
  <2>5. \A c \in Callers : ~InsertCase(c) /\ ~WriteReview(c)
    BY <2>1 DEF InsertCase, WriteReview
  <2>6. PICK c \in Callers : WriteSuite(c)
    BY <2>1, <2>3, <2>4, <2>5, RowWriters
  <2>7. HasOp(c, "update_suite", "loaded")
    BY <2>6 DEF WriteSuite
  <2>8. ~UNCHANGED suites
    BY <2>1
  <2> QED
    BY <2>1, <2>6, <2>7, <2>8, WrittenSuite
<1>2. RecordsTypeOK /\ [RecordsNext]_recordVars => [Holds]_recordVars
  BY <1>1
<1>3. RecordsSpec => [][Holds]_recordVars
  BY <1>2, RecordsAreTyped, PTL DEF RecordsSpec
<1> QED
  BY <1>3 DEF UpdatesMerge
-----------------------------------------------------------------------------
(* Reviews: only WriteReview answers one with 200.                           *)

\* A step changes the slot of one caller.
LEMMA OneSlot ==
    ASSUME RecordsTypeOK, NEW c \in Callers, NEW d \in Callers, NEW next,
           call' = [call EXCEPT ![d] = next], call'[c] # call[c]
    PROVE  c = d
BY DEF RecordsTypeOK

\* Steps that leave alone what waits to review.
LEMMA OthersReview ==
    ASSUME RecordsTypeOK, [RecordsNext]_recordVars, NEW c \in Callers,
           HasOp(c, "review", "loaded"), call'[c] # call[c]
    PROVE  WriteReview(c) \/ Answer(c, 500)
<1>0. call[c].op = "review" /\ call[c].at = "loaded" /\ call \in [Callers -> Call]
  BY DEF HasOp, RecordsTypeOK
<1>1. CASE SchemaNext
  <2>1. PICK d \in Callers : Boot(d) \/ Upgrade(d) \/ SendDdl(d) \/ EndDdl(d)
    BY <1>1 DEF SchemaNext
  <2>2. \E next : call' = [call EXCEPT ![d] = next]
    BY <2>1 DEF Boot, Upgrade, Begin, MayCall, SendDdl, Send, EndDdl, Goto, Answer
  <2>3. c = d
    BY <2>2, OneSlot
  <2> QED
    BY <1>0, <2>1, <2>3 DEF Boot, Upgrade, Begin, MayCall, SendDdl, EndDdl, WithDdl
<1>2. CASE AccountsNext
  <2>1. PICK d \in Callers : \/ Register(d) \/ CreateUser(d) \/ Seed(d) \/ LookUpEmail(d)
                             \/ InsertUser(d) \/ Login(d) \/ Refresh(d)
    BY <1>2 DEF AccountsNext, Expire
  <2>2. \E next : call' = [call EXCEPT ![d] = next]
    <3>1. CASE Register(d) \/ CreateUser(d) \/ Seed(d)
      BY <3>1 DEF Register, CreateUser, Seed, Begin, MayCall
    <3>2. CASE LookUpEmail(d) \/ InsertUser(d)
      BY <3>2 DEF LookUpEmail, InsertUser, Goto, Answer
    <3>3. CASE Login(d) \/ Refresh(d)
      BY <3>3 DEF Login, Refresh, Begin, MayCall
    <3> QED
      BY <2>1, <3>1, <3>2, <3>3
  <2>3. c = d
    BY <2>2, OneSlot
  <2> QED
    BY <1>0, <2>1, <2>3 DEF Register, CreateUser, Seed, LookUpEmail, InsertUser, Login,
                            Refresh, Begin, MayCall, Registers
<1>3. CASE CatalogNext
  <2>1. PICK d \in Callers :
          \/ CreateSuite(d) \/ LookUpSlug(d) \/ InsertSuite(d) \/ Reload(d)
          \/ UpdateSuite(d) \/ WriteSuite(d) \/ DeleteSuite(d) \/ EraseSuite(d)
          \/ AddCase(d) \/ InsertCase(d)
    BY <1>3 DEF CatalogNext
  <2>2. CASE UpdateSuite(d) \/ DeleteSuite(d) \/ AddCase(d)
    <3>1. call[d].op = "idle" /\ \E next : call' = [call EXCEPT ![d] = next]
      BY <2>2 DEF UpdateSuite, DeleteSuite, AddCase, Load, Begin, MayCall
    <3>2. c = d
      BY <3>1, OneSlot
    <3> QED
      BY <1>0, <3>1, <3>2
  <2>3. CASE CreateSuite(d) \/ LookUpSlug(d) \/ InsertSuite(d) \/ Reload(d)
    <3>1. \E next : call' = [call EXCEPT ![d] = next]
      BY <2>3 DEF CreateSuite, LookUpSlug, InsertSuite, Reload, Begin, MayCall, Goto, Answer
    <3>2. c = d
      BY <3>1, OneSlot
    <3> QED
      BY <1>0, <2>3, <3>2 DEF CreateSuite, LookUpSlug, InsertSuite, Reload, Begin, MayCall, Creating,
                              Inserting, HasOp
  <2>4. CASE WriteSuite(d) \/ EraseSuite(d) \/ InsertCase(d)
    <3>1. \E next : call' = [call EXCEPT ![d] = next]
      BY <2>4 DEF WriteSuite, EraseSuite, InsertCase, Goto, Answer
    <3>2. c = d
      BY <3>1, OneSlot
    <3> QED
      BY <1>0, <2>4, <3>2 DEF WriteSuite, EraseSuite, InsertCase, HasOp
  <2> QED
    BY <2>1, <2>2, <2>3, <2>4
<1>4. CASE ReviewNext
  <2>1. PICK d \in Callers : ReviewEvent(d) \/ WriteReview(d)
    BY <1>4 DEF ReviewNext
  <2>2. \E next : call' = [call EXCEPT ![d] = next]
    BY <2>1 DEF ReviewEvent, WriteReview, Begin, MayCall, Answer
  <2>3. c = d
    BY <2>2, OneSlot
  <2> QED
    BY <1>0, <2>1, <2>3 DEF ReviewEvent, Begin, MayCall
<1>5. ASSUME NEW d \in Callers, Die(d)
      PROVE  Answer(c, 500)
  <2>1. c = d
    BY <1>5, OneSlot DEF Die, Answer
  <2> QED
    BY <1>5, <2>1 DEF Die
<1>6. CASE UNCHANGED recordVars
  BY <1>6 DEF recordVars
<1> QED
  BY <1>1, <1>2, <1>3, <1>4, <1>5, <1>6 DEF RecordsNext

\* A review answered with 200 is what the event says from then on, unless it repeats
\* what another review has overwritten since, or the event went with its suite; and
\* what an event says was asked for.
THEOREM ReviewsStand == RecordsSpec => AnsweredReviewsStand
<1> DEFINE Answers ==
             \A c \in Callers :
                HasOp(c, "review", "loaded") /\ call'[c] = Idle(200) =>
                  LET e == call[c].event
                  IN  reviews'[e] = call[c].want
                      \/ (call[c].want = call[c].seen /\ reviews[e] # call[c].seen)
           Origins ==
             \A e \in Events : reviews'[e] # reviews[e] =>
                \/ reviews'[e] = "gone" /\ ~Present(suites'[SuiteOf[e]])
                \/ \E c \in Callers : /\ HasOp(c, "review", "loaded")
                                      /\ call[c].event = e
                                      /\ call[c].want = reviews'[e]
           Holds ==
             /\ Answers
             /\ Origins
<1>1. ASSUME RecordsTypeOK, [RecordsNext]_recordVars
      PROVE  Answers
  <2> SUFFICES ASSUME NEW c \in Callers, HasOp(c, "review", "loaded"), call'[c] = Idle(200)
               PROVE  \/ reviews'[call[c].event] = call[c].want
                      \/ /\ call[c].want = call[c].seen
                         /\ reviews[call[c].event] # call[c].seen
    OBVIOUS
  <2>1. call \in [Callers -> Call] /\ reviews \in [Events -> Review]
    BY <1>1 DEF RecordsTypeOK
  <2>2. call[c].event \in Events
    BY <2>1, LoadedCalls DEF HasOp
  <2>3. call'[c] # call[c]
    BY DEF Idle, HasOp
  <2>4. ~Answer(c, 500)
    <3>1. 500 \div 100 # 200 \div 100
      OBVIOUS
    <3>2. Idle(500) # Idle(200)
      BY <3>1 DEF Idle
    <3> QED
      BY <2>1, <3>2 DEF Answer
  <2>5. WriteReview(c)
    BY <1>1, <2>3, <2>4, OthersReview
  <2> QED
    BY <2>1, <2>2, <2>4, <2>5 DEF WriteReview
<1>2. ASSUME RecordsTypeOK, [RecordsNext]_recordVars
      PROVE  Origins
  <2> SUFFICES ASSUME NEW e \in Events, reviews'[e] # reviews[e]
               PROVE  \/ reviews'[e] = "gone" /\ ~Present(suites'[SuiteOf[e]])
                      \/ \E c \in Callers : /\ HasOp(c, "review", "loaded")
                                            /\ call[c].event = e
                                            /\ call[c].want = reviews'[e]
    OBVIOUS
  <2>1. /\ call \in [Callers -> Call] /\ reviews \in [Events -> Review]
        /\ suites \in [Suites -> SuiteRow \cup {Absent, Deleted}]
        /\ SuiteOf[e] \in Suites
    BY <1>2, RecordAssumption DEF RecordsTypeOK
  <2>2. \A c \in Callers : ~InsertSuite(c) /\ ~WriteSuite(c) /\ ~InsertCase(c)
    BY DEF InsertSuite, WriteSuite, InsertCase
  <2>3. PICK c \in Callers : EraseSuite(c) \/ WriteReview(c)
    BY <1>2, <2>2, RowWriters
  <2>4. CASE EraseSuite(c)
    <3>1. /\ suites' = [suites EXCEPT ![call[c].suite] = Deleted]
          /\ reviews' = [h \in Events |-> IF SuiteOf[h] = call[c].suite THEN "gone"
                                                                        ELSE reviews[h]]
      BY <2>4 DEF EraseSuite
    <3>2. SuiteOf[e] = call[c].suite /\ reviews'[e] = "gone"
      BY <3>1
    <3> QED
      BY <2>1, <3>1, <3>2, AbsentRows
  <2>5. CASE WriteReview(c)
    <3>1. reviews' = [reviews EXCEPT ![call[c].event] = call[c].want]
      BY <2>5 DEF WriteReview
    <3>2. call[c].event = e /\ call[c].want = reviews'[e]
      BY <2>1, <3>1
    <3> QED
      BY <2>5, <3>2 DEF WriteReview
  <2> QED
    BY <2>3, <2>4, <2>5
<1>3. RecordsTypeOK /\ [RecordsNext]_recordVars => [Holds]_recordVars
  BY <1>1, <1>2
<1>4. RecordsSpec => [][Holds]_recordVars
  BY <1>3, RecordsAreTyped, PTL DEF RecordsSpec
<1> QED
  BY <1>4 DEF AnsweredReviewsStand
-----------------------------------------------------------------------------
(* Owners: who may change a suite is settled when it is loaded, and neither   *)
(* its owner nor anybody's role changes before the change is written.         *)

Loaded(r) == r.op \in {"update_suite", "delete_suite", "add_case"} /\ r.at = "loaded"

\* What a caller has just loaded he may change.
Entitled(r) ==
    /\ r.actor \in Accounts
    /\ Present(suites[r.suite])
    /\ MayMutate(r.actor, suites[r.suite])
    /\ r.op = "delete_suite" => r.seen = CasesOf(r.suite)

LEMMA AnswersAreNotLoaded == \A code : ~Loaded(Idle(code))
BY DEF Loaded, Idle

LEMMA OpStays ==
    ASSUME NEW r \in Call, NEW v
    PROVE  [r EXCEPT !.at = v].op = r.op /\ [r EXCEPT !.todo = v].op = r.op
<1>1. [r EXCEPT !.at = v].op = r.op
  BY DEF Call
<1>2. [r EXCEPT !.todo = v].op = r.op
  BY DEF Call
<1> QED
  BY <1>1, <1>2

\* A slot that does not take up a loaded suite.
LEMMA SlotNotLoaded ==
    ASSUME RecordsTypeOK, NEW c \in Callers, NEW d \in Callers, NEW next, ~Loaded(next),
           call' = [call EXCEPT ![d] = next]
    PROVE  call'[c] = call[c] \/ ~Loaded(call'[c])
<1>1. call \in [Callers -> Call]
  BY DEF RecordsTypeOK
<1>2. CASE c = d
  <2>1. call'[c] = next
    BY <1>1, <1>2
  <2> QED
    BY <2>1
<1>3. CASE c # d
  BY <1>1, <1>3
<1> QED
  BY <1>2, <1>3

LEMMA LoadEntitles ==
    ASSUME RecordsTypeOK, NEW c \in Callers, NEW d \in Callers, NEW op, NEW u, NEW x, NEW args,
           Load(d, op, u, x, args), args.actor = u, args.suite = x,
           args.op = "delete_suite" => args.seen = CasesOf(x)
    PROVE  \/ call'[c] = call[c]
           \/ ~Loaded(call'[c])
           \/ Entitled(call'[c]) /\ UNCHANGED rows
<1>1. CASE call' = [call EXCEPT ![d] = Idle(404)] \/ call' = [call EXCEPT ![d] = Idle(403)]
  BY <1>1, SlotNotLoaded, AnswersAreNotLoaded
<1>2. CASE /\ Present(suites[x]) /\ MayMutate(u, suites[x])
           /\ call' = [call EXCEPT ![d] = args]
  <2>1. u \in Accounts /\ UNCHANGED rows
    BY DEF Load, Engineers, Admits, Accounts
  <2>2. Entitled(args)
    BY <1>2, <2>1 DEF Entitled
  <2>3. call'[c] = call[c] \/ call'[c] = args
    BY <1>2 DEF RecordsTypeOK
  <2> QED
    BY <2>1, <2>2, <2>3
<1>3. \/ call' = [call EXCEPT ![d] = Idle(404)]
      \/ call' = [call EXCEPT ![d] = Idle(403)]
      \/ /\ Present(suites[x]) /\ MayMutate(u, suites[x])
         /\ call' = [call EXCEPT ![d] = args]
  <2>1. CASE ~Present(suites[x])
    BY <2>1 DEF Load, Begin, MayCall
  <2>2. CASE Present(suites[x])
    BY <2>2 DEF Load, Begin, MayCall
  <2> QED
    BY <2>1, <2>2
<1> QED
  BY <1>1, <1>2, <1>3

LEMMA LoadedStep ==
    ASSUME RecordsTypeOK, [RecordsNext]_recordVars, NEW c \in Callers
    PROVE  \/ call'[c] = call[c]
           \/ ~Loaded(call'[c])
           \/ Entitled(call'[c]) /\ UNCHANGED rows
<1>0. call \in [Callers -> Call]
  BY DEF RecordsTypeOK
<1>1. CASE SchemaNext
  <2>1. PICK d \in Callers : Boot(d) \/ Upgrade(d) \/ SendDdl(d) \/ EndDdl(d)
    BY <1>1 DEF SchemaNext
  <2>2. CASE Boot(d) \/ Upgrade(d)
    <3>1. \E next : ~Loaded(next) /\ call' = [call EXCEPT ![d] = next]
      BY <2>2 DEF Boot, Upgrade, Begin, MayCall, Loaded
    <3> QED
      BY <3>1, SlotNotLoaded
  <2>3. CASE SendDdl(d)
    <3>1. PICK part \in SUBSET call[d].todo : Send(d, part)
      BY <2>3 DEF SendDdl
    <3>2. call[d].op \notin {"update_suite", "delete_suite", "add_case"}
      BY <1>0, <2>3 DEF SendDdl, WithDdl, Call
    <3>3. \A todo : ~Loaded([call[d] EXCEPT !.todo = todo])
      BY <1>0, <3>2, OpStays DEF Loaded
    <3>4. \/ \E code : call' = [call EXCEPT ![d] = Idle(code)]
          \/ \E todo : call' = [call EXCEPT ![d] = [call[d] EXCEPT !.todo = todo]]
      BY <3>1 DEF Send, Goto, Answer
    <3> QED
      BY <3>3, <3>4, SlotNotLoaded, AnswersAreNotLoaded
  <2>4. CASE EndDdl(d)
    <3>1. call[d].op \notin {"update_suite", "delete_suite", "add_case"}
      BY <1>0, <2>4 DEF EndDdl, WithDdl, Call
    <3>2. ~Loaded([call[d] EXCEPT !.at = "begin"])
      BY <1>0, <3>1, OpStays DEF Loaded
    <3>3. \/ \E code : call' = [call EXCEPT ![d] = Idle(code)]
          \/ call' = [call EXCEPT ![d] = [call[d] EXCEPT !.at = "begin"]]
      BY <2>4 DEF EndDdl, Goto, Answer
    <3> QED
      BY <3>2, <3>3, SlotNotLoaded, AnswersAreNotLoaded
  <2> QED
    BY <2>1, <2>2, <2>3, <2>4
<1>2. CASE AccountsNext
  <2>1. ASSUME NEW d \in Callers, Register(d) \/ CreateUser(d) \/ Seed(d)
        PROVE  call'[c] = call[c] \/ ~Loaded(call'[c])
    <3>1. CASE Register(d)
      <4>1. PICK email \in Typed, role \in Roles :
              call' = [call EXCEPT ![d] =
                         IF role = "admin" THEN Idle(403)
                         ELSE [op |-> "register", at |-> "begin", email |-> email,
                               role |-> role, cli |-> FALSE]]
        BY <3>1 DEF Register, Begin, MayCall
      <4>2. \E next : ~Loaded(next) /\ call' = [call EXCEPT ![d] = next]
        <5>1. CASE role = "admin"
          BY <4>1, <5>1, AnswersAreNotLoaded
        <5>2. CASE role # "admin"
          BY <4>1, <5>2 DEF Loaded
        <5> QED
          BY <5>1, <5>2
      <4> QED
        BY <4>2, SlotNotLoaded
    <3>2. CASE CreateUser(d) \/ Seed(d)
      <4>1. \E next : ~Loaded(next) /\ call' = [call EXCEPT ![d] = next]
        BY <3>2 DEF CreateUser, Seed, Begin, MayCall, Loaded
      <4> QED
        BY <4>1, SlotNotLoaded
    <3> QED
      BY <2>1, <3>1, <3>2
  <2>2. ASSUME NEW d \in Callers, LookUpEmail(d) \/ InsertUser(d)
        PROVE  call'[c] = call[c] \/ ~Loaded(call'[c])
    <3>1. call[d].op \in Registers
      BY <2>2 DEF LookUpEmail, InsertUser
    <3>2. ~Loaded([call[d] EXCEPT !.at = "free"]) /\ \A u : ~Loaded(WantsSuite(u))
      BY <1>0, <3>1, OpStays DEF Loaded, WantsSuite, Registers
    <3>3. \/ \E code : call' = [call EXCEPT ![d] = Idle(code)]
          \/ call' = [call EXCEPT ![d] = [call[d] EXCEPT !.at = "free"]]
          \/ \E u : call' = [call EXCEPT ![d] = WantsSuite(u)]
      BY <2>2 DEF LookUpEmail, InsertUser, Goto, Answer
    <3> QED
      BY <3>2, <3>3, SlotNotLoaded, AnswersAreNotLoaded
  <2>3. ASSUME NEW d \in Callers, Login(d) \/ Refresh(d)
        PROVE  call'[c] = call[c] \/ ~Loaded(call'[c])
    <3>1. \E code : call' = [call EXCEPT ![d] = Idle(code)]
      BY <2>3 DEF Login, Refresh, Begin, MayCall
    <3> QED
      BY <3>1, SlotNotLoaded, AnswersAreNotLoaded
  <2>4. ASSUME NEW u \in Users, NEW type \in TokenType, Expire(u, type)
        PROVE  call'[c] = call[c]
    BY <2>4 DEF Expire
  <2> QED
    BY <1>2, <2>1, <2>2, <2>3, <2>4 DEF AccountsNext
<1>3. CASE CatalogNext
  <2>1. PICK d \in Callers :
          \/ CreateSuite(d) \/ LookUpSlug(d) \/ InsertSuite(d) \/ Reload(d)
          \/ UpdateSuite(d) \/ WriteSuite(d) \/ DeleteSuite(d) \/ EraseSuite(d)
          \/ AddCase(d) \/ InsertCase(d)
    BY <1>3 DEF CatalogNext
  <2>2. CASE CreateSuite(d) \/ InsertSuite(d) \/ WriteSuite(d)
    <3>1. \/ \E slug, u : call' = [call EXCEPT ![d] = [op |-> "create_suite", at |-> "begin",
                                                      slug |-> slug, owner |-> u]]
          \/ \E code : call' = [call EXCEPT ![d] = Idle(code)]
          \/ \E x : call' = [call EXCEPT ![d] = [op |-> "create_suite", at |-> "stored",
                                                 suite |-> x]]
          \/ \E x : call' = [call EXCEPT ![d] = [op |-> "update_suite", at |-> "stored",
                                                 suite |-> x]]
      BY <2>2 DEF CreateSuite, InsertSuite, WriteSuite, Begin, MayCall, Goto, Answer
    <3>2. \E next : ~Loaded(next) /\ call' = [call EXCEPT ![d] = next]
      BY <3>1, AnswersAreNotLoaded DEF Loaded
    <3> QED
      BY <3>2, SlotNotLoaded
  <2>3. CASE LookUpSlug(d)
    <3>1. call[d].op \in {"create_suite", "seed"}
      BY <2>3 DEF LookUpSlug, Creating, HasOp
    <3>2. \A at : ~Loaded([call[d] EXCEPT !.at = at])
      BY <1>0, <3>1, OpStays DEF Loaded
    <3>3. \/ \E code : call' = [call EXCEPT ![d] = Idle(code)]
          \/ \E at : call' = [call EXCEPT ![d] = [call[d] EXCEPT !.at = at]]
      BY <2>3 DEF LookUpSlug, Goto, Answer
    <3> QED
      BY <3>2, <3>3, SlotNotLoaded, AnswersAreNotLoaded
  <2>4. CASE Reload(d) \/ EraseSuite(d) \/ InsertCase(d)
    <3>1. \E code : call' = [call EXCEPT ![d] = Idle(code)]
      BY <2>4 DEF Reload, EraseSuite, InsertCase, Answer
    <3> QED
      BY <3>1, SlotNotLoaded, AnswersAreNotLoaded
  <2>5. CASE UpdateSuite(d)
    <3>1. PICK u, x, patch :
            Load(d, "update_suite", u, x,
                 [op |-> "update_suite", at |-> "loaded", actor |-> u, suite |-> x,
                  seen |-> [f \in Field |-> suites[x][f]], patch |-> patch])
      BY <2>5 DEF UpdateSuite
    <3> QED
      BY <3>1, LoadEntitles
  <2>6. CASE DeleteSuite(d)
    <3>1. PICK u, x :
            Load(d, "delete_suite", u, x,
                 [op |-> "delete_suite", at |-> "loaded", actor |-> u, suite |-> x,
                  seen |-> CasesOf(x)])
      BY <2>6 DEF DeleteSuite
    <3> QED
      BY <3>1, LoadEntitles
  <2>7. CASE AddCase(d)
    <3>1. PICK u, x :
            Load(d, "add_case", u, x,
                 [op |-> "add_case", at |-> "loaded", actor |-> u, suite |-> x])
      BY <2>7 DEF AddCase
    <3> QED
      BY <3>1, LoadEntitles
  <2> QED
    BY <2>1, <2>2, <2>3, <2>4, <2>5, <2>6, <2>7
<1>4. CASE ReviewNext
  <2>1. PICK d \in Callers : ReviewEvent(d) \/ WriteReview(d)
    BY <1>4 DEF ReviewNext
  <2>2. \/ \E code : call' = [call EXCEPT ![d] = Idle(code)]
        \/ \E e, seen, want :
             call' = [call EXCEPT ![d] = [op |-> "review", at |-> "loaded", event |-> e,
                                          seen |-> seen, want |-> want]]
    BY <2>1 DEF ReviewEvent, WriteReview, Begin, MayCall, Answer
  <2>3. \E next : ~Loaded(next) /\ call' = [call EXCEPT ![d] = next]
    BY <2>2, AnswersAreNotLoaded DEF Loaded
  <2> QED
    BY <2>3, SlotNotLoaded
<1>5. ASSUME NEW d \in Callers, Die(d)
      PROVE  call'[c] = call[c] \/ ~Loaded(call'[c])
  BY <1>5, SlotNotLoaded, AnswersAreNotLoaded DEF Die, Answer
<1>6. CASE UNCHANGED recordVars
  BY <1>6 DEF recordVars
<1> QED
  BY <1>1, <1>2, <1>3, <1>4, <1>5, <1>6 DEF RecordsNext
\* A suite that was there is neither given to somebody else nor created again.
LEMMA OwnersStay ==
    ASSUME RecordsTypeOK, [RecordsNext]_recordVars, NEW x \in Suites, suites[x] # Absent
    PROVE  /\ suites'[x] # Absent
           /\ Present(suites'[x]) => Present(suites[x]) /\ suites'[x].owner = suites[x].owner
<1>0. suites \in [Suites -> SuiteRow \cup {Absent, Deleted}]
  BY DEF RecordsTypeOK
<1>1. CASE UNCHANGED suites
  <2>1. suites'[x] = suites[x]
    BY <1>1
  <2> QED
    BY <2>1
<1>2. ASSUME NEW c \in Callers, InsertSuite(c), ~UNCHANGED suites
      PROVE  suites'[x] = suites[x]
  BY <1>0, <1>2, InsertedSuite
<1>3. ASSUME NEW c \in Callers, WriteSuite(c), ~UNCHANGED suites
      PROVE  /\ suites'[x] # Absent
             /\ Present(suites'[x]) => /\ Present(suites[x])
                                       /\ suites'[x].owner = suites[x].owner
  <2>1. CASE x = call[c].suite
    <3>1. Present(suites[x]) /\ suites'[x].owner = suites[x].owner
      BY <1>3, <2>1, WrittenSuite
    <3>2. suites'[x] \in SuiteRow \cup {Absent, Deleted}
      BY StepType DEF RecordsTypeOK
    <3>3. suites'[x] # Absent
      <4>1. suites' = [suites EXCEPT ![x] =
                         Merged(@, call[c].seen, call[c].patch, Changed(c))]
        BY <1>3, <2>1 DEF WriteSuite
      <4>2. suites[x] \in SuiteRow
        BY <1>0, <3>1 DEF Present
      <4>3. suites'[x] = Merged(suites[x], call[c].seen, call[c].patch, Changed(c))
        BY <1>0, <4>1
      <4> QED
        BY <4>2, <4>3 DEF Merged, SuiteRow, Absent
    <3> QED
      BY <3>1, <3>3
  <2>2. CASE x # call[c].suite
    <3>1. suites'[x] = suites[x]
      BY <1>3, <2>2, WrittenSuite
    <3> QED
      BY <3>1
  <2> QED
    BY <2>1, <2>2
<1>4. ASSUME NEW c \in Callers, EraseSuite(c)
      PROVE  suites'[x] = suites[x] \/ suites'[x] = Deleted
  BY <1>0, <1>4 DEF EraseSuite
<1>5. \A c \in Callers : InsertCase(c) \/ WriteReview(c) => UNCHANGED suites
  BY DEF InsertCase, WriteReview
<1>6. Deleted # Absent
  BY DEF Deleted, Absent
<1> QED
  BY <1>1, <1>2, <1>3, <1>4, <1>5, <1>6, AbsentRows, RowWriters

\* A case of a suite is never moved to another one.
LEMMA CasesStay ==
    ASSUME RecordsTypeOK, [RecordsNext]_recordVars, NEW k \in Cases, cases[k] # NoSuite
    PROVE  cases'[k] \in {cases[k], Erased}
<1>0. cases \in [Cases -> Suites \cup {NoSuite, Erased}]
  BY DEF RecordsTypeOK
<1>1. ASSUME NEW c \in Callers, InsertSuite(c), ~UNCHANGED cases
      PROVE  cases'[k] = cases[k]
  <2>1. PICK x \in Suites, new \in SUBSET {j \in Cases : cases[j] = NoSuite} :
          cases' = [j \in Cases |-> IF j \in new THEN x ELSE cases[j]]
    BY <1>1, InsertedSuite
  <2> QED
    BY <2>1
<1>2. ASSUME NEW c \in Callers, EraseSuite(c)
      PROVE  cases'[k] \in {cases[k], Erased}
  BY <1>2 DEF EraseSuite
<1>3. ASSUME NEW c \in Callers, InsertCase(c), ~UNCHANGED cases
      PROVE  cases'[k] = cases[k]
  <2>1. Fresh({j \in Cases : cases[j] = NoSuite}) \in {j \in Cases : cases[j] = NoSuite}
    BY <1>3, FreshId DEF InsertCase
  <2> QED
    BY <1>0, <1>3, <2>1 DEF InsertCase
<1>4. \A c \in Callers : WriteSuite(c) \/ WriteReview(c) => UNCHANGED cases
  BY DEF WriteSuite, WriteReview
<1> QED
  BY <1>1, <1>2, <1>3, <1>4, RowWriters

\* Who was entitled still is, as long as the suite is there.
ActorsInv ==
    \A c \in Callers : Loaded(call[c]) =>
        LET r == call[c]
        IN  /\ r.actor \in Accounts
            /\ suites[r.suite] # Absent
            /\ Present(suites[r.suite]) => MayMutate(r.actor, suites[r.suite])
            /\ r.op = "delete_suite" => \A k \in r.seen : cases[k] \in {r.suite, Erased}

LEMMA ActorsInvInit == RecordsInit => ActorsInv
BY AnswersAreNotLoaded DEF RecordsInit, ActorsInv

LEMMA ActorsInvStep ==
    RecordsTypeOK /\ ActorsInv /\ [RecordsNext]_recordVars => ActorsInv'
<1> SUFFICES ASSUME RecordsTypeOK, ActorsInv, [RecordsNext]_recordVars,
                    NEW c \in Callers, Loaded(call'[c])
             PROVE  /\ call'[c].actor \in Accounts'
                    /\ suites'[call'[c].suite] # Absent
                    /\ Present(suites'[call'[c].suite])
                         => \/ users'[call'[c].actor].role = "admin"
                            \/ suites'[call'[c].suite].owner = call'[c].actor
                    /\ call'[c].op = "delete_suite" =>
                         \A k \in call'[c].seen : cases'[k] \in {call'[c].suite, Erased}
  BY DEF ActorsInv, MayMutate
<1> DEFINE u == call'[c].actor
           x == call'[c].suite
<1>0. /\ users \in [Users -> UserRow \cup {Absent}]
      /\ suites \in [Suites -> SuiteRow \cup {Absent, Deleted}]
      /\ cases \in [Cases -> Suites \cup {NoSuite, Erased}]
  BY DEF RecordsTypeOK
<1>1. /\ u \in Users /\ x \in Suites
      /\ call'[c].op = "delete_suite" => call'[c].seen \subseteq Cases
  <2>1. call'[c] \in Call
    BY StepType DEF RecordsTypeOK
  <2> QED
    BY <2>1, LoadedCalls DEF Loaded
<1>2. CASE call'[c] = call[c]
  <2>1. /\ u \in Accounts /\ suites[x] # Absent
        /\ Present(suites[x]) => MayMutate(u, suites[x])
        /\ call'[c].op = "delete_suite" =>
             \A k \in call'[c].seen : cases[k] \in {x, Erased}
    BY <1>2 DEF ActorsInv
  <2>2. u \in Accounts' /\ users'[u] = users[u]
    <3>1. CASE UNCHANGED users
      BY <2>1, <3>1 DEF Accounts
    <3>2. ASSUME NEW d \in Callers, NEW v \in Users \ Accounts, NewAccount(d, v)
          PROVE  u \in Accounts' /\ users'[u] = users[u]
      <4>1. users'[u] = users[u]
        BY <1>0, <1>1, <2>1, <3>2 DEF NewAccount
      <4> QED
        BY <2>1, <4>1 DEF Accounts
    <3> QED
      BY <3>1, <3>2, AccountStep
  <2>3. /\ suites'[x] # Absent
        /\ Present(suites'[x]) => Present(suites[x]) /\ suites'[x].owner = suites[x].owner
    BY <1>1, <2>1, OwnersStay
  <2>4. ASSUME call'[c].op = "delete_suite", NEW k \in call'[c].seen
        PROVE  cases'[k] \in {x, Erased}
    <3>1. k \in Cases /\ cases[k] \in {x, Erased}
      BY <1>1, <2>1, <2>4
    <3>2. NoSuite \notin Suites /\ NoSuite # Erased
      BY RecordAssumption DEF NoSuite, Erased
    <3> QED
      BY <1>1, <3>1, <3>2, CasesStay
  <2> QED
    BY <2>1, <2>2, <2>3, <2>4 DEF MayMutate
<1>3. CASE Entitled(call'[c]) /\ UNCHANGED rows
  <2>1. UNCHANGED <<users, suites, cases>>
    BY <1>3 DEF rows
  <2>2. /\ u \in Accounts' /\ suites'[x] # Absent
        /\ MayMutate(u, suites[x]) /\ users' = users /\ suites' = suites
    BY <1>3, <2>1, AbsentRows DEF Entitled, Accounts
  <2>3. call'[c].op = "delete_suite" => \A k \in call'[c].seen : cases'[k] = x
    BY <1>3, <2>1 DEF Entitled, CasesOf
  <2> QED
    BY <2>2, <2>3 DEF MayMutate
<1> QED
  BY <1>2, <1>3, LoadedStep

\* Only its owner and admins that the command line made change a suite, delete it
\* or touch its cases, although the check was made on what was read before.
THEOREM OwnersDecide == RecordsSpec => OnlyOwnersChange
<1> DEFINE Holds ==
      \A c \in Callers : \A x \in Suites :
         /\ call'[c] # call[c]
         /\ \/ Present(suites[x]) /\ suites'[x] # suites[x]
            \/ \E k \in Cases : cases'[k] # cases[k] /\ x \in {cases[k], cases'[k]}
         /\ Present(suites[x])
         => LET u == call[c].actor
            IN  suites[x].owner = u \/ (users[u].role = "admin" /\ users[u].cli)
<1>1. ASSUME RecordsTypeOK, ActorsInv, AdminsInv, [RecordsNext]_recordVars
      PROVE  Holds
  <2> SUFFICES ASSUME NEW c \in Callers, NEW x \in Suites, call'[c] # call[c],
                      \/ suites'[x] # suites[x]
                      \/ \E k \in Cases : cases'[k] # cases[k] /\ x \in {cases[k], cases'[k]},
                      Present(suites[x])
               PROVE  \/ suites[x].owner = call[c].actor
                      \/ users[call[c].actor].role = "admin" /\ users[call[c].actor].cli
    OBVIOUS
  <2>0. /\ call \in [Callers -> Call]
        /\ suites \in [Suites -> SuiteRow \cup {Absent, Deleted}]
        /\ cases \in [Cases -> Suites \cup {NoSuite, Erased}]
        /\ NoSuite \notin Suites /\ Erased \notin Suites
    BY <1>1, RecordAssumption DEF RecordsTypeOK, NoSuite, Erased
  <2>1. ~UNCHANGED <<suites, cases>>
    OBVIOUS
  <2>2. ASSUME NEW d \in Callers, InsertSuite(d)
        PROVE  FALSE
    <3>1. PICK y \in Suites, new \in SUBSET {k \in Cases : cases[k] = NoSuite} :
            /\ suites[y] = Absent
            /\ suites' = [suites EXCEPT ![y] = [slug |-> SlugOf(d), owner |-> call[d].owner,
                                                name |-> "a", description |-> "a"]]
            /\ cases' = [k \in Cases |-> IF k \in new THEN y ELSE cases[k]]
      BY <2>1, <2>2, InsertedSuite
    <3>2. x # y
      BY <3>1, AbsentRows
    <3> QED
      BY <2>0, <3>1, <3>2
  <2>3. \A d \in Callers : ~WriteReview(d)
    BY <2>1 DEF WriteReview
  <2>4. ASSUME NEW d \in Callers, WriteSuite(d) \/ EraseSuite(d) \/ InsertCase(d)
        PROVE  d = c /\ Loaded(call[c])
    <3>1. d = c
      <4>1. \E next : call' = [call EXCEPT ![d] = next]
        BY <2>4 DEF WriteSuite, EraseSuite, InsertCase, Goto, Answer
      <4> QED
        BY <1>1, <4>1, OneSlot
    <3> QED
      BY <2>4, <3>1 DEF WriteSuite, EraseSuite, InsertCase, HasOp, Loaded
  <2>5. Loaded(call[c]) /\ (WriteSuite(c) \/ EraseSuite(c) \/ InsertCase(c))
    BY <1>1, <2>1, <2>2, <2>3, <2>4, RowWriters
  <2>6. x = call[c].suite
    <3>1. CASE WriteSuite(c)
      <4>1. UNCHANGED cases
        BY <3>1 DEF WriteSuite
      <4>2. suites'[x] # suites[x]
        BY <4>1
      <4> QED
        BY <1>1, <3>1, <4>2, WrittenSuite
    <3>2. CASE EraseSuite(c)
      <4>1. /\ suites' = [suites EXCEPT ![call[c].suite] = Deleted]
            /\ cases' = [k \in Cases |-> IF k \in GoneCases(c) THEN Erased ELSE cases[k]]
            /\ call[c].op = "delete_suite"
        BY <3>2 DEF EraseSuite, HasOp
      <4>2. CASE suites'[x] # suites[x]
        BY <2>0, <4>1, <4>2
      <4>3. ASSUME NEW k \in Cases, cases'[k] # cases[k], x \in {cases[k], cases'[k]}
            PROVE  x = call[c].suite
        <5>1. k \in GoneCases(c) /\ cases'[k] = Erased /\ x = cases[k]
          BY <2>0, <4>1, <4>3
        <5>2. cases[k] \in {call[c].suite, Erased}
          BY <1>1, <2>5, <4>1, <5>1 DEF GoneCases, CasesOf, ActorsInv
        <5> QED
          BY <2>0, <5>1, <5>2
      <4> QED
        BY <4>2, <4>3
    <3>3. CASE InsertCase(c)
      <4>1. suites' = suites
        BY <3>3 DEF InsertCase
      <4>2. PICK k \in Cases : cases'[k] # cases[k] /\ x \in {cases[k], cases'[k]}
        BY <4>1
      <4>3. /\ \E j \in Cases : cases[j] = NoSuite
            /\ cases' = [cases EXCEPT ![Fresh({j \in Cases : cases[j] = NoSuite})] =
                           call[c].suite]
        BY <3>3, <4>2 DEF InsertCase
      <4>4. Fresh({j \in Cases : cases[j] = NoSuite}) \in {j \in Cases : cases[j] = NoSuite}
        BY <4>3, FreshId
      <4>5. cases[k] = NoSuite /\ cases'[k] = call[c].suite
        BY <2>0, <4>2, <4>3, <4>4
      <4> QED
        BY <2>0, <4>2, <4>5
    <3> QED
      BY <2>5, <3>1, <3>2, <3>3
  <2>7. call[c].actor \in Accounts /\ MayMutate(call[c].actor, suites[x])
    BY <1>1, <2>5, <2>6 DEF ActorsInv
  <2> QED
    BY <1>1, <2>7 DEF MayMutate, AdminsInv, AdminsComeFromCli
<1>2. RecordsTypeOK /\ ActorsInv /\ AdminsInv /\ [RecordsNext]_recordVars => [Holds]_recordVars
  BY <1>1
<1>3. RecordsInit => RecordsTypeOK /\ ActorsInv /\ AdminsInv
  BY InitType, ActorsInvInit, AdminsInvInit
<1>4. RecordsTypeOK /\ ActorsInv /\ AdminsInv /\ [RecordsNext]_recordVars
        => RecordsTypeOK' /\ ActorsInv' /\ AdminsInv'
  BY StepType, ActorsInvStep, AdminsInvStep
<1>5. RecordsSpec => [][Holds]_recordVars
  BY <1>2, <1>3, <1>4, PTL DEF RecordsSpec
<1> QED
  BY <1>5 DEF OnlyOwnersChange
-----------------------------------------------------------------------------
(* Schema: what a caller still has to send, and what is there already.       *)

LEMMA DdlFacts ==
    /\ DOMAIN Ddl = 1 .. 8
    /\ Ddl[1] = "users" /\ Ddl[2] = "ix_users_email"
    /\ Ddl[3] = "test_suites" /\ Ddl[4] = "ix_test_suites_slug"
    /\ Ddl[5] = "test_cases" /\ Ddl[6] = "test_runs"
    /\ Ddl[7] = "step_results" /\ Ddl[8] = "healing_events"
BY DEF Ddl

LEMMA TableFacts ==
    /\ TableOf(Ddl[2]) = Ddl[1] /\ TableOf(Ddl[4]) = Ddl[3]
    /\ \A i \in {1, 3, 5, 6, 7, 8} : TableOf(Ddl[i]) = Ddl[i]
<1>1. TableOf("ix_users_email") = "users"
  BY DEF TableOf
<1>2. TableOf("ix_test_suites_slug") = "test_suites"
  BY DEF TableOf
<1>3. \A t \in {"users", "test_suites", "test_cases", "test_runs", "step_results",
                "healing_events"} : TableOf(t) = t
  BY DEF TableOf
<1> QED
  BY <1>1, <1>2, <1>3, DdlFacts

\* The table of a statement is sent by the same statement or an earlier one.
LEMMA OwnTable ==
    ASSUME NEW i \in DOMAIN Ddl
    PROVE  \E j \in DOMAIN Ddl : /\ j <= i
                                 /\ TableOf(Ddl[i]) = Ddl[j]
                                 /\ TableOf(Ddl[j]) = Ddl[j]
<1>1. i \in {2, 4} \/ i \in {1, 3, 5, 6, 7, 8}
  BY DdlFacts
<1>2. CASE i = 2
  BY <1>2, DdlFacts, TableFacts
<1>3. CASE i = 4
  BY <1>3, DdlFacts, TableFacts
<1>4. CASE i \in {1, 3, 5, 6, 7, 8}
  <2>1. i <= i
    BY <1>4
  <2> QED
    BY <1>4, <2>1, TableFacts
<1> QED
  BY <1>1, <1>2, <1>3, <1>4

\* A table comes after those it refers to.
LEMMA EarlierTables ==
    ASSUME NEW i \in DOMAIN Ddl, NEW t \in References(Ddl[i])
    PROVE  \E j \in DOMAIN Ddl : j < i /\ t = Ddl[j] /\ TableOf(Ddl[j]) = Ddl[j]
<1>1. i \in 1 .. 8
  BY DdlFacts
<1>2. i \notin {1, 2, 4}
  <2>1. References("users") = {} /\ References("ix_users_email") = {}
        /\ References("ix_test_suites_slug") = {}
    BY DEF References
  <2> QED
    BY <2>1, DdlFacts
<1>3. CASE i = 3
  <2>1. References("test_suites") = {"users"}
    BY DEF References
  <2> QED
    BY <1>3, <2>1, DdlFacts, TableFacts
<1>4. CASE i = 5
  <2>1. References("test_cases") = {"test_suites"}
    BY DEF References
  <2> QED
    BY <1>4, <2>1, DdlFacts, TableFacts
<1>5. CASE i = 6
  <2>1. References("test_runs") = {"test_suites", "users"}
    BY DEF References
  <2> QED
    BY <1>5, <2>1, DdlFacts, TableFacts
<1>6. CASE i \in {7, 8}
  <2>1. References("step_results") = {"test_runs"} /\ References("healing_events") = {"test_runs"}
    BY DEF References
  <2> QED
    BY <1>6, <2>1, DdlFacts, TableFacts
<1> QED
  BY <1>1, <1>2, <1>3, <1>4, <1>5, <1>6

Sending(r) == r.op \in {"boot", "upgrade", "create_user", "seed"} /\ r.at = "ddl"

\* The environments whose API creates its tables itself.
CreatesTables == setting.environment \in {"local", "test"}

\* A caller that has just begun to send.
NewDdl(r) ==
    \/ r.op = "boot" /\ r.todo = IF CreatesTables THEN Missing ELSE {}
    \/ r.op = "upgrade" /\ r.todo = IF stamped THEN {} ELSE DOMAIN Ddl
    \/ r.op \in {"create_user", "seed"} /\ r.todo = Missing

LEMMA AnswersDoNotSend == \A code : ~Sending(Idle(code))
BY DEF Sending, Idle

LEMMA AtMoves ==
    ASSUME NEW r \in Call, r.op # "idle", NEW v
    PROVE  [r EXCEPT !.at = v].at = v
BY DEF Call

LEMMA SlotNotSending ==
    ASSUME RecordsTypeOK, NEW c \in Callers, NEW d \in Callers, NEW next, ~Sending(next),
           call' = [call EXCEPT ![d] = next]
    PROVE  call'[c] = call[c] \/ ~Sending(call'[c])
<1>1. call \in [Callers -> Call]
  BY DEF RecordsTypeOK
<1>2. CASE c = d
  <2>1. call'[c] = next
    BY <1>1, <1>2
  <2> QED
    BY <2>1
<1>3. CASE c # d
  BY <1>1, <1>3
<1> QED
  BY <1>2, <1>3

\* Only beginnings and SendDdl leave a caller with statements to send.
LEMMA SendingStep ==
    ASSUME RecordsTypeOK, [RecordsNext]_recordVars, NEW c \in Callers
    PROVE  \/ call'[c] = call[c]
           \/ ~Sending(call'[c])
           \/ NewDdl(call'[c]) /\ UNCHANGED schema
           \/ SendDdl(c)
<1>0. call \in [Callers -> Call]
  BY DEF RecordsTypeOK
<1>1. CASE SchemaNext
  <2>1. PICK d \in Callers : Boot(d) \/ Upgrade(d) \/ SendDdl(d) \/ EndDdl(d)
    BY <1>1 DEF SchemaNext
  <2>2. CASE Boot(d)
    <3>1. call'[c] = call[c] \/ NewDdl(call'[c])
      BY <1>0, <2>2 DEF Boot, Begin, MayCall, NewDdl, CreatesTables
    <3> QED
      BY <2>2, <3>1 DEF Boot
  <2>3. CASE Upgrade(d)
    <3>1. call'[c] = call[c] \/ NewDdl(call'[c])
      BY <1>0, <2>3 DEF Upgrade, Begin, MayCall, NewDdl
    <3> QED
      BY <2>3, <3>1 DEF Upgrade
  <2>4. CASE SendDdl(d)
    <3>1. \E next : call' = [call EXCEPT ![d] = next]
      BY <2>4 DEF SendDdl, Send, Goto, Answer
    <3>2. call'[c] = call[c] \/ c = d
      BY <3>1, OneSlot
    <3> QED
      BY <2>4, <3>2
  <2>5. CASE EndDdl(d)
    <3>1. ~Sending([call[d] EXCEPT !.at = "begin"])
      BY <1>0, <2>5, AtMoves DEF EndDdl, WithDdl, Sending
    <3>2. \/ \E code : call' = [call EXCEPT ![d] = Idle(code)]
          \/ call' = [call EXCEPT ![d] = [call[d] EXCEPT !.at = "begin"]]
      BY <2>5 DEF EndDdl, Goto, Answer
    <3> QED
      BY <3>1, <3>2, SlotNotSending, AnswersDoNotSend
  <2> QED
    BY <2>1, <2>2, <2>3, <2>4, <2>5
<1>2. CASE AccountsNext
  <2>1. ASSUME NEW d \in Callers, Register(d)
        PROVE  call'[c] = call[c] \/ ~Sending(call'[c])
    <3>1. PICK email \in Typed, role \in Roles :
            call' = [call EXCEPT ![d] =
                       IF role = "admin" THEN Idle(403)
                       ELSE [op |-> "register", at |-> "begin", email |-> email,
                             role |-> role, cli |-> FALSE]]
      BY <2>1 DEF Register, Begin, MayCall
    <3>2. \E next : ~Sending(next) /\ call' = [call EXCEPT ![d] = next]
      <4>1. CASE role = "admin"
        BY <3>1, <4>1, AnswersDoNotSend
      <4>2. CASE role # "admin"
        BY <3>1, <4>2 DEF Sending
      <4> QED
        BY <4>1, <4>2
    <3> QED
      BY <3>2, SlotNotSending
  <2>2. ASSUME NEW d \in Callers, CreateUser(d) \/ Seed(d)
        PROVE  call'[c] = call[c] \/ (NewDdl(call'[c]) /\ UNCHANGED schema)
    <3>1. \E next : NewDdl(next) /\ call' = [call EXCEPT ![d] = next]
      BY <2>2 DEF CreateUser, Seed, Begin, MayCall, NewDdl
    <3>2. UNCHANGED schema
      BY <2>2 DEF CreateUser, Seed
    <3>3. call'[c] = call[c] \/ NewDdl(call'[c])
      BY <1>0, <3>1
    <3> QED
      BY <3>2, <3>3
  <2>3. ASSUME NEW d \in Callers, LookUpEmail(d) \/ InsertUser(d)
        PROVE  call'[c] = call[c] \/ ~Sending(call'[c])
    <3>1. call[d].op # "idle"
      BY <2>3 DEF LookUpEmail, InsertUser, Registers
    <3>2. ~Sending([call[d] EXCEPT !.at = "free"]) /\ \A u : ~Sending(WantsSuite(u))
      BY <1>0, <3>1, AtMoves DEF Sending, WantsSuite
    <3>3. \/ \E code : call' = [call EXCEPT ![d] = Idle(code)]
          \/ call' = [call EXCEPT ![d] = [call[d] EXCEPT !.at = "free"]]
          \/ \E u : call' = [call EXCEPT ![d] = WantsSuite(u)]
      BY <2>3 DEF LookUpEmail, InsertUser, Goto, Answer
    <3> QED
      BY <3>2, <3>3, SlotNotSending, AnswersDoNotSend
  <2>4. ASSUME NEW d \in Callers, Login(d) \/ Refresh(d)
        PROVE  call'[c] = call[c] \/ ~Sending(call'[c])
    <3>1. \E code : call' = [call EXCEPT ![d] = Idle(code)]
      BY <2>4 DEF Login, Refresh, Begin, MayCall
    <3> QED
      BY <3>1, SlotNotSending, AnswersDoNotSend
  <2>5. ASSUME NEW u \in Users, NEW type \in TokenType, Expire(u, type)
        PROVE  call'[c] = call[c]
    BY <2>5 DEF Expire
  <2> QED
    BY <1>2, <2>1, <2>2, <2>3, <2>4, <2>5 DEF AccountsNext
<1>3. CASE CatalogNext
  <2>1. PICK d \in Callers :
          \/ CreateSuite(d) \/ LookUpSlug(d) \/ InsertSuite(d) \/ Reload(d)
          \/ UpdateSuite(d) \/ WriteSuite(d) \/ DeleteSuite(d) \/ EraseSuite(d)
          \/ AddCase(d) \/ InsertCase(d)
    BY <1>3 DEF CatalogNext
  <2>2. CASE CreateSuite(d) \/ InsertSuite(d) \/ WriteSuite(d)
    <3>1. \/ \E slug, u : call' = [call EXCEPT ![d] = [op |-> "create_suite", at |-> "begin",
                                                      slug |-> slug, owner |-> u]]
          \/ \E code : call' = [call EXCEPT ![d] = Idle(code)]
          \/ \E x : call' = [call EXCEPT ![d] = [op |-> "create_suite", at |-> "stored",
                                                 suite |-> x]]
          \/ \E x : call' = [call EXCEPT ![d] = [op |-> "update_suite", at |-> "stored",
                                                 suite |-> x]]
      BY <2>2 DEF CreateSuite, InsertSuite, WriteSuite, Begin, MayCall, Goto, Answer
    <3>2. \E next : ~Sending(next) /\ call' = [call EXCEPT ![d] = next]
      BY <3>1, AnswersDoNotSend DEF Sending
    <3> QED
      BY <3>2, SlotNotSending
  <2>3. CASE LookUpSlug(d)
    <3>1. call[d].op # "idle"
      BY <2>3 DEF LookUpSlug, Creating, HasOp
    <3>2. ~Sending([call[d] EXCEPT !.at = "unlisted"]) /\ ~Sending([call[d] EXCEPT !.at = "free"])
      BY <1>0, <3>1, AtMoves DEF Sending
    <3>3. \/ \E code : call' = [call EXCEPT ![d] = Idle(code)]
          \/ call' = [call EXCEPT ![d] = [call[d] EXCEPT !.at = "unlisted"]]
          \/ call' = [call EXCEPT ![d] = [call[d] EXCEPT !.at = "free"]]
      <4>1. CASE call[d].at = "owned"
        BY <2>3, <4>1 DEF LookUpSlug, Goto, Answer
      <4>2. CASE call[d].at # "owned"
        BY <2>3, <4>2 DEF LookUpSlug, Goto, Answer
      <4> QED
        BY <4>1, <4>2
    <3> QED
      BY <3>2, <3>3, SlotNotSending, AnswersDoNotSend
  <2>4. CASE Reload(d) \/ EraseSuite(d) \/ InsertCase(d)
    <3>1. \E code : call' = [call EXCEPT ![d] = Idle(code)]
      BY <2>4 DEF Reload, EraseSuite, InsertCase, Answer
    <3> QED
      BY <3>1, SlotNotSending, AnswersDoNotSend
  <2>5. CASE UpdateSuite(d) \/ DeleteSuite(d) \/ AddCase(d)
    <3>1. PICK op, u, x, args : Load(d, op, u, x, args) /\ ~Sending(args)
      <4>1. ASSUME UpdateSuite(d)
            PROVE  \E op, u, x, args : Load(d, op, u, x, args) /\ ~Sending(args)
        <5>1. PICK u, x, patch :
                Load(d, "update_suite", u, x,
                     [op |-> "update_suite", at |-> "loaded", actor |-> u, suite |-> x,
                      seen |-> [f \in Field |-> suites[x][f]], patch |-> patch])
          BY <4>1 DEF UpdateSuite
        <5>2. ~Sending([op |-> "update_suite", at |-> "loaded", actor |-> u, suite |-> x,
                        seen |-> [f \in Field |-> suites[x][f]], patch |-> patch])
          BY DEF Sending
        <5> QED
          BY <5>1, <5>2
      <4>2. ASSUME DeleteSuite(d)
            PROVE  \E op, u, x, args : Load(d, op, u, x, args) /\ ~Sending(args)
        <5>1. PICK u, x :
                Load(d, "delete_suite", u, x,
                     [op |-> "delete_suite", at |-> "loaded", actor |-> u, suite |-> x,
                      seen |-> CasesOf(x)])
          BY <4>2 DEF DeleteSuite
        <5>2. ~Sending([op |-> "delete_suite", at |-> "loaded", actor |-> u, suite |-> x,
                        seen |-> CasesOf(x)])
          BY DEF Sending
        <5> QED
          BY <5>1, <5>2
      <4>3. ASSUME AddCase(d)
            PROVE  \E op, u, x, args : Load(d, op, u, x, args) /\ ~Sending(args)
        <5>1. PICK u, x :
                Load(d, "add_case", u, x,
                     [op |-> "add_case", at |-> "loaded", actor |-> u, suite |-> x])
          BY <4>3 DEF AddCase
        <5>2. ~Sending([op |-> "add_case", at |-> "loaded", actor |-> u, suite |-> x])
          BY DEF Sending
        <5> QED
          BY <5>1, <5>2
      <4> QED
        BY <2>5, <4>1, <4>2, <4>3
    <3>2. \/ \E code : call' = [call EXCEPT ![d] = Idle(code)]
          \/ call' = [call EXCEPT ![d] = args]
      BY <3>1, LoadMoves DEF Answer
    <3> QED
      BY <3>1, <3>2, SlotNotSending, AnswersDoNotSend
  <2> QED
    BY <2>1, <2>2, <2>3, <2>4, <2>5
<1>4. CASE ReviewNext
  <2>1. PICK d \in Callers : ReviewEvent(d) \/ WriteReview(d)
    BY <1>4 DEF ReviewNext
  <2>2. \/ \E code : call' = [call EXCEPT ![d] = Idle(code)]
        \/ \E e, seen, want :
             call' = [call EXCEPT ![d] = [op |-> "review", at |-> "loaded", event |-> e,
                                          seen |-> seen, want |-> want]]
    BY <2>1 DEF ReviewEvent, WriteReview, Begin, MayCall, Answer
  <2>3. \E next : ~Sending(next) /\ call' = [call EXCEPT ![d] = next]
    BY <2>2, AnswersDoNotSend DEF Sending
  <2> QED
    BY <2>3, SlotNotSending
<1>5. ASSUME NEW d \in Callers, Die(d)
      PROVE  call'[c] = call[c] \/ ~Sending(call'[c])
  BY <1>5, SlotNotSending, AnswersDoNotSend DEF Die, Answer
<1>6. CASE UNCHANGED recordVars
  BY <1>6 DEF recordVars
<1> QED
  BY <1>1, <1>2, <1>3, <1>4, <1>5, <1>6 DEF RecordsNext
\* What a caller need no longer send is there: the table of each statement, and for
\* the migration, which passes nothing over, the object itself.
SentBy(r) ==
    /\ r.op = "boot" /\ ~CreatesTables => r.todo = {}
    /\ r.op # "boot" \/ CreatesTables => \A i \in DOMAIN Ddl \ r.todo : TableOf(Ddl[i]) \in made
    /\ r.op = "upgrade" => \A i \in DOMAIN Ddl \ r.todo : Ddl[i] \in made

SchemaInv ==
    /\ SchemaIsUsable
    /\ Valid(setting)
    /\ \A c \in Callers : Sending(call[c]) => SentBy(call[c])

LEMMA TablesAreObjects ==
    \A i \in DOMAIN Ddl : Ddl[i] \in Objects /\ TableOf(Ddl[i]) \in Objects /\ TableOf(Ddl[i]) \in Tables
<1> TAKE i \in DOMAIN Ddl
<1>1. PICK j \in DOMAIN Ddl : TableOf(Ddl[i]) = Ddl[j]
  BY OwnTable
<1> QED
  BY <1>1 DEF Objects, Tables

LEMMA TablesAreSent ==
    ASSUME NEW t \in Tables
    PROVE  \E i \in DOMAIN Ddl : t = Ddl[i] /\ TableOf(Ddl[i]) = Ddl[i]
<1>1. PICK i \in DOMAIN Ddl : t = TableOf(Ddl[i])
  BY DEF Tables, Objects
<1> QED
  BY <1>1, OwnTable

LEMMA NewDdlIsSent ==
    ASSUME NEW r, NewDdl(r), SchemaIsUsable
    PROVE  SentBy(r)
<1>1. \A i \in DOMAIN Ddl \ Missing : TableOf(Ddl[i]) \in made
  BY DEF Missing
<1>2. stamped => \A i \in DOMAIN Ddl : Ddl[i] \in made /\ TableOf(Ddl[i]) \in made
  BY TablesAreObjects DEF SchemaIsUsable
<1>3. CASE r.op = "boot" /\ r.todo = IF CreatesTables THEN Missing ELSE {}
  BY <1>1, <1>3 DEF SentBy
<1>4. CASE r.op = "upgrade" /\ r.todo = IF stamped THEN {} ELSE DOMAIN Ddl
  BY <1>2, <1>4 DEF SentBy
<1>5. CASE r.op \in {"create_user", "seed"} /\ r.todo = Missing
  BY <1>1, <1>5 DEF SentBy
<1> QED
  BY <1>3, <1>4, <1>5 DEF NewDdl

\* Objects are only ever added.
LEMMA SentStays ==
    ASSUME NEW r, SentBy(r), made \subseteq made', setting' = setting
    PROVE  SentBy(r)'
BY DEF SentBy, CreatesTables

\* A step that sends.
LEMMA SendStep ==
    ASSUME RecordsTypeOK, SchemaInv, NEW c \in Callers, SendDdl(c)
    PROVE  /\ SchemaIsUsable'
           /\ made \subseteq made'
           /\ Sending(call[c])' => SentBy(call[c])'
<1> DEFINE todo == call[c].todo
           part == {i \in todo : Transactional \/ \A j \in todo : i <= j}
<1>0. /\ call \in [Callers -> Call] /\ call[c].op # "idle" /\ call[c].at = "ddl"
      /\ made \subseteq Objects /\ setting' = setting /\ serving' = serving
      /\ todo # {} /\ Send(c, part)
  BY DEF RecordsTypeOK, SendDdl, WithDdl
<1>1. todo \subseteq DOMAIN Ddl /\ Sending(call[c])
  <2>1. CASE call[c] \in [op : {"boot", "upgrade"}, at : {"ddl"}, todo : Statements]
    BY <2>1 DEF Statements, Sending
  <2>2. CASE call[c] \in [op : {"create_user", "seed"}, at : {"ddl", "begin", "free"},
                          todo : Statements, email : Emails, role : Role, cli : {TRUE}]
    BY <1>0, <2>2 DEF Statements, Sending
  <2> QED
    BY <1>0, <2>1, <2>2 DEF Call
<1>2. SentBy(call[c])
  BY <1>1 DEF SchemaInv
<1>3. CASE UNCHANGED <<made, stamped>> /\ Answer(c, 500)
  <2>1. ~Sending(call[c])'
    BY <1>0, <1>3, AnswersDoNotSend DEF Answer, Sending
  <2>2. SchemaIsUsable'
    BY <1>0, <1>3 DEF SchemaInv, SchemaIsUsable, WholeOrNothing
  <2> QED
    BY <1>3, <2>1, <2>2
<1>4. CASE /\ \A i \in part : Accepts(Ddl[i])
           /\ made' = made \cup {Ddl[i] : i \in part}
           /\ stamped' = (stamped \/ (Transactional /\ call[c].op = "upgrade"))
           /\ call' = [call EXCEPT ![c] = [call[c] EXCEPT !.todo = @ \ part]]
  <2>0. DOMAIN Ddl = 1 .. 8
    BY DdlFacts
  <2>1. made \subseteq made' /\ made' \subseteq Objects
    BY <1>0, <1>1, <1>4, TablesAreObjects
  <2>2. \A i \in DOMAIN Ddl \ todo : TableOf(Ddl[i]) \in made
    BY <1>0, <1>2 DEF SentBy
  <2>3. Transactional => part = todo
    OBVIOUS
  <2>4. ASSUME NEW i \in part, NEW j \in DOMAIN Ddl, j < i, TableOf(Ddl[j]) = Ddl[j]
        PROVE  Ddl[j] \in made'
    <3>1. CASE j \notin todo
      BY <2>1, <2>2, <2>4, <3>1
    <3>2. CASE j \in todo
      <4>1. ~(i <= j)
        BY <1>1, <2>0, <2>4
      <4>2. Transactional
        BY <3>2, <4>1
      <4> QED
        BY <1>4, <2>3, <3>2, <4>2
    <3> QED
      BY <3>1, <3>2
  <2>5. ASSUME NEW t \in Tables, t \in made'
        PROVE  References(t) \subseteq made'
    <3>1. CASE t \in made
      BY <2>1, <3>1 DEF SchemaInv, SchemaIsUsable
    <3>2. CASE t \notin made
      <4>1. PICK i \in part : t = Ddl[i]
        BY <1>4, <2>5, <3>2
      <4>2. i \in DOMAIN Ddl
        BY <1>1
      <4>3. \A u \in References(t) : u \in made'
        BY <2>4, <4>1, <4>2, EarlierTables
      <4> QED
        BY <4>3
    <3> QED
      BY <3>1, <3>2
  <2>6. \A i \in DOMAIN Ddl \ (todo \ part) : TableOf(Ddl[i]) \in made'
    <3> TAKE i \in DOMAIN Ddl \ (todo \ part)
    <3>1. CASE i \notin todo
      BY <2>1, <2>2, <3>1
    <3>2. CASE i \in part
      <4>1. PICK j \in DOMAIN Ddl : /\ j <= i
                                    /\ TableOf(Ddl[i]) = Ddl[j]
                                    /\ TableOf(Ddl[j]) = Ddl[j]
        BY OwnTable
      <4>2. CASE j = i
        BY <1>4, <3>2, <4>1, <4>2
      <4>3. CASE j # i
        <5>1. j < i
          BY <2>0, <4>1, <4>3
        <5> QED
          BY <2>4, <3>2, <4>1, <5>1
      <4> QED
        BY <4>2, <4>3
    <3> QED
      BY <3>1, <3>2
  <2>7. call[c].op = "upgrade" => \A i \in DOMAIN Ddl \ (todo \ part) : Ddl[i] \in made'
    BY <1>2, <1>4, <2>1 DEF SentBy
  <2>8. stamped' => made' = Objects
    <3>1. CASE stamped
      BY <2>1, <3>1 DEF SchemaInv, SchemaIsUsable
    <3>2. CASE Transactional /\ call[c].op = "upgrade"
      <4>1. \A i \in DOMAIN Ddl : Ddl[i] \in made'
        BY <2>3, <2>7, <3>2
      <4>2. Objects \subseteq made'
        BY <4>1 DEF Objects
      <4> QED
        BY <2>1, <4>2
    <3> QED
      BY <1>4, <3>1, <3>2
  <2>9. WholeOrNothing'
    <3> SUFFICES ASSUME setting.environment = "production"
                 PROVE  made' = Objects
      BY <1>0 DEF WholeOrNothing
    <3>1. Transactional
      <4>1. setting \in Settings /\ setting.database # "sqlite"
        BY DEF RecordsTypeOK, SchemaInv, Valid
      <4> QED
        BY <4>1, RecordAssumption DEF Transactional
    <3>2. made \in {{}, Objects}
      BY DEF SchemaInv, SchemaIsUsable, WholeOrNothing
    <3>3. PICK i \in part : TRUE
      BY <1>0, <2>3, <3>1
    <3>4. Ddl[i] \notin made /\ Ddl[i] \in Objects
      BY <1>1, <1>4, TablesAreObjects DEF Accepts
    <3>5. made = {}
      BY <3>2, <3>4
    <3>6. part = DOMAIN Ddl
      BY <1>1, <2>2, <2>3, <3>1, <3>5
    <3>7. \A j \in DOMAIN Ddl : Ddl[j] \in made'
      BY <1>4, <3>6
    <3>8. Objects \subseteq made'
      BY <3>7 DEF Objects
    <3> QED
      BY <2>1, <3>8
  <2>10. SchemaIsUsable'
    <3>1. \A t \in Tables : t \in made' => References(t) \subseteq made'
      BY <2>5
    <3>2. serving /\ CreatesTables => Tables \subseteq made
      BY DEF SchemaInv, SchemaIsUsable, CreatesTables
    <3> QED
      BY <1>0, <2>1, <2>8, <2>9, <3>1, <3>2 DEF SchemaIsUsable, CreatesTables
  <2>11. SentBy(call[c])'
    <3>1. call'[c] = [call[c] EXCEPT !.todo = @ \ part]
      BY <1>0, <1>4
    <3>2. call'[c].op = call[c].op /\ call'[c].todo = todo \ part
      <4>1. CASE call[c] \in [op : {"boot", "upgrade"}, at : {"ddl"}, todo : Statements]
        BY <3>1, <4>1
      <4>2. CASE call[c] \in [op : {"create_user", "seed"}, at : {"ddl", "begin", "free"},
                              todo : Statements, email : Emails, role : Role, cli : {TRUE}]
        BY <3>1, <4>2
      <4> QED
        BY <1>0, <4>1, <4>2 DEF Call
    <3>3. call[c].op = "boot" /\ ~CreatesTables => FALSE
      BY <1>0, <1>2 DEF SentBy
    <3> QED
      BY <1>0, <2>6, <2>7, <3>2, <3>3 DEF SentBy, CreatesTables
  <2> QED
    BY <2>1, <2>10, <2>11
<1> QED
  BY <1>0, <1>3, <1>4 DEF Send, Goto
LEMMA SchemaInvStep == RecordsTypeOK /\ SchemaInv /\ [RecordsNext]_recordVars => SchemaInv'
<1> SUFFICES ASSUME RecordsTypeOK, SchemaInv, [RecordsNext]_recordVars
             PROVE  SchemaInv'
  OBVIOUS
<1>0. setting' = setting /\ Valid(setting)'
  BY SettingStays DEF SchemaInv, Valid
<1>1. SchemaIsUsable' /\ made \subseteq made'
  <2>1. ASSUME NEW c \in Callers, SendDdl(c)
        PROVE  SchemaIsUsable' /\ made \subseteq made'
    BY <2>1, SendStep
  <2>2. ASSUME NEW c \in Callers, EndDdl(c)
        PROVE  SchemaIsUsable' /\ made \subseteq made'
    <3>1. /\ call[c] \in Call /\ call[c].op # "idle" /\ call[c].at = "ddl" /\ call[c].todo = {}
          /\ made' = made
      BY <2>2 DEF EndDdl, WithDdl, RecordsTypeOK
    <3>2. Sending(call[c])
      BY <3>1 DEF Call, Sending
    <3>3. SentBy(call[c])
      BY <3>2 DEF SchemaInv
    <3>4. stamped' => made = Objects
      <4>1. CASE stamped
        BY <4>1 DEF SchemaInv, SchemaIsUsable
      <4>2. CASE call[c].op = "upgrade"
        <5>1. \A i \in DOMAIN Ddl : Ddl[i] \in made
          BY <3>1, <3>3, <4>2 DEF SentBy
        <5> QED
          BY <5>1 DEF Objects, RecordsTypeOK
      <4> QED
        BY <2>2, <4>1, <4>2 DEF EndDdl
    <3>5. serving' /\ CreatesTables => Tables \subseteq made
      <4>1. CASE serving
        BY <4>1 DEF SchemaInv, SchemaIsUsable, CreatesTables
      <4>2. CASE call[c].op = "boot" /\ CreatesTables
        <5>1. \A i \in DOMAIN Ddl : TableOf(Ddl[i]) \in made
          BY <3>1, <3>3, <4>2 DEF SentBy
        <5> QED
          BY <5>1 DEF Tables, Objects
      <4> QED
        BY <2>2, <4>1, <4>2 DEF EndDdl
    <3> QED
      BY <1>0, <3>1, <3>4, <3>5
         DEF SchemaInv, SchemaIsUsable, WholeOrNothing, CreatesTables
  <2>3. CASE UNCHANGED schema
    BY <1>0, <2>3 DEF schema, SchemaInv, SchemaIsUsable, WholeOrNothing
  <2>4. \/ \E c \in Callers : SendDdl(c) \/ EndDdl(c)
        \/ UNCHANGED schema
    <3>1. SchemaNext => UNCHANGED schema \/ \E c \in Callers : SendDdl(c) \/ EndDdl(c)
      BY DEF SchemaNext, Boot, Upgrade
    <3>2. AccountsNext => UNCHANGED schema
      BY DEF AccountsNext, Register, CreateUser, Seed, LookUpEmail, InsertUser, Login, Refresh,
             Expire
    <3>3. ReviewNext \/ (\E c \in Callers : Die(c)) \/ UNCHANGED recordVars => UNCHANGED schema
      BY DEF ReviewNext, ReviewEvent, WriteReview, Die, recordVars
    <3> QED
      BY <3>1, <3>2, <3>3, CatalogKeeps DEF RecordsNext
  <2> QED
    BY <2>1, <2>2, <2>3, <2>4
<1>2. ASSUME NEW c \in Callers, Sending(call[c])'
      PROVE  SentBy(call[c])'
  <2>1. PICK r : r = call'[c]
    OBVIOUS
  <2>2. Sending(r)
    BY <1>2, <2>1 DEF Sending
  <2>3. ASSUME SentBy(r)'
        PROVE  SentBy(call[c])'
    BY <2>1, <2>3 DEF SentBy, CreatesTables
  <2>4. CASE r = call[c]
    <3>1. SentBy(r)
      BY <2>2, <2>4 DEF SchemaInv
    <3> QED
      BY <1>0, <1>1, <2>3, <3>1, SentStays
  <2>5. CASE NewDdl(r)
    <3>1. SentBy(r)
      BY <2>5, NewDdlIsSent DEF SchemaInv
    <3> QED
      BY <1>0, <1>1, <2>3, <3>1, SentStays
  <2>6. CASE SendDdl(c)
    BY <1>2, <2>6, SendStep
  <2> QED
    BY <2>1, <2>2, <2>4, <2>5, <2>6, SendingStep
<1> QED
  BY <1>0, <1>1, <1>2 DEF SchemaInv

\* However the lifespan, the migration and the commands create the schema at once, and
\* wherever they break off: a table comes after those it refers to, a stamped revision
\* means the whole schema, and production never shows half of one.
THEOREM SchemaStaysUsable == RecordsSpec => []SchemaIsUsable
<1>1. RecordsInit => RecordsTypeOK /\ SchemaInv
  <2> SUFFICES ASSUME RecordsInit
               PROVE  SchemaInv
    BY InitType
  <2>1. Valid(setting) /\ \A c \in Callers : ~Sending(call[c])
    BY AnswersDoNotSend DEF RecordsInit
  <2>2. CASE Empty
    <3>1. made = {} /\ ~stamped /\ ~serving
      BY <2>2 DEF Empty
    <3>2. WholeOrNothing
      BY <3>1 DEF WholeOrNothing
    <3> QED
      BY <2>1, <3>1, <3>2 DEF SchemaIsUsable, SchemaInv
  <2>3. CASE InService
    <3>1. \A t \in Tables : References(t) \subseteq Objects
      <4> SUFFICES ASSUME NEW t \in Tables
                   PROVE  References(t) \subseteq Objects
        OBVIOUS
      <4>1. PICK i \in DOMAIN Ddl : t = Ddl[i]
        BY TablesAreSent
      <4>2. \A u \in References(t) : \E j \in DOMAIN Ddl : u = Ddl[j]
        BY <4>1, EarlierTables
      <4> QED
        BY <4>2, TablesAreObjects
    <3>2. Tables \subseteq Objects
      BY TablesAreSent, TablesAreObjects
    <3>3. made = Objects
      BY <2>3 DEF InService
    <3>4. WholeOrNothing
      BY <3>3 DEF WholeOrNothing
    <3> QED
      BY <2>1, <3>1, <3>2, <3>3, <3>4 DEF SchemaIsUsable, SchemaInv
  <2> QED
    BY <2>2, <2>3 DEF RecordsInit
<1>2. RecordsTypeOK /\ SchemaInv /\ [RecordsNext]_recordVars => RecordsTypeOK' /\ SchemaInv'
  BY StepType, SchemaInvStep
<1>3. SchemaInv => SchemaIsUsable
  BY DEF SchemaInv
<1> QED
  BY <1>1, <1>2, <1>3, PTL DEF RecordsSpec
-----------------------------------------------------------------------------
(* The listing, for any table, any page size and any number of pages.        *)

\* Rounding down.
LEMMA Division ==
    ASSUME NEW a \in Nat, NEW b \in Nat \ {0}
    PROVE  /\ a \div b \in Nat
           /\ b * (a \div b) <= a
           /\ a < b * ((a \div b) + 1)
OBVIOUS

\* While q pages do not hold all rows there is another page.
LEMMA PageInRange ==
    ASSUME NEW total \in Nat, NEW s \in Nat \ {0}, NEW q \in Nat, s * q < total
    PROVE  q + 1 <= PageCount(total, s)
<1> DEFINE count == PageCount(total, s)
<1>1. total + s - 1 \in Nat
  OBVIOUS
<1>2. count \in Nat /\ total + s - 1 < s * (count + 1)
  BY <1>1, Division DEF PageCount
<1>3. s * q + s < s * (count + 1) + 1
  BY <1>2
<1>4. s * (q + 1) = s * q + s
  OBVIOUS
<1>5. SUFFICES ASSUME q >= count
               PROVE  FALSE
  BY <1>2
<1>6. s * (q + 1) >= s * (count + 1)
  BY <1>2, <1>5
<1> QED
  BY <1>2, <1>3, <1>4, <1>6

\* The rows that come before a suite in every order of the listing.
Newer(i) == {j \in Listed : createdAt[j] > createdAt[i]}

\* The rows of the pages that have been read.
Passed == IF place = "asked" THEN Offset(page, size) ELSE page * size

\* What the client has still to be shown lies behind the pages it has read.
ListingInv ==
    /\ ListingTypeOK
    /\ place = "idle" => start = {}
    /\ ~removed =>
         /\ start \subseteq Listed
         /\ \A i \in start :
              i \in shown \/ Tied(i)
                \/ (place # "done" /\ Cardinality(Newer(i)) >= Passed)

LEMMA ListedIsFinite ==
    ASSUME NEW part, part \subseteq Listed
    PROVE  IsFiniteSet(part) /\ Cardinality(part) \in Nat
BY ListingAssumption, FS_Subset, FS_CardinalityType DEF Listed

\* A suite that ties with none and is not among the first n has n newer ones.
LEMMA LaterThanFirst ==
    ASSUME ListingTypeOK, NEW i \in Listed, ~Tied(i),
           NEW part, NEW n \in Nat, First(part, n), i \notin part
    PROVE  Cardinality(Newer(i)) >= n
<1>1. part \subseteq Listed /\ Cardinality(part) = n
  BY DEF First
<1>2. part \subseteq Newer(i)
  <2> SUFFICES ASSUME NEW j \in part
               PROVE  j \in Newer(i)
    OBVIOUS
  <2>1. createdAt[i] <= createdAt[j] /\ j \in Listed /\ j # i
    BY DEF First
  <2>2. createdAt[j] # createdAt[i]
    BY <2>1 DEF Tied
  <2>3. createdAt[i] \in Int /\ createdAt[j] \in Int
    BY <2>1, ListingAssumption DEF ListingTypeOK, Listed
  <2> QED
    BY <2>1, <2>2, <2>3 DEF Newer
<1>3. IsFiniteSet(Newer(i)) /\ Cardinality(Newer(i)) \in Nat
  BY ListedIsFinite DEF Newer
<1> QED
  BY <1>1, <1>2, <1>3, FS_Subset

\* A suite among the first n has fewer than n newer ones.
LEMMA AmongFirst ==
    ASSUME ListingTypeOK, NEW part, NEW n \in Nat, First(part, n), NEW i \in part
    PROVE  Cardinality(Newer(i)) < n
<1>1. part \subseteq Listed /\ i \in Listed
  BY DEF First
<1>2. Newer(i) \subseteq part /\ i \notin Newer(i)
  <2>1. ASSUME NEW j \in Newer(i), j \notin part
        PROVE  FALSE
    <3>1. j \in Listed /\ createdAt[j] > createdAt[i] /\ createdAt[j] <= createdAt[i]
      BY <2>1 DEF First, Newer
    <3>2. createdAt[i] \in Int /\ createdAt[j] \in Int
      BY <1>1, <3>1, ListingAssumption DEF ListingTypeOK, Listed
    <3> QED
      BY <3>1, <3>2
  <2>2. createdAt[i] \in Int
    BY <1>1, ListingAssumption DEF ListingTypeOK, Listed
  <2> QED
    BY <2>1, <2>2 DEF Newer
<1>3. PICK older \in Nat : Cardinality(Newer(i)) = older
  BY ListedIsFinite DEF Newer
<1>4. PICK all \in Nat : Cardinality(part) = all
  BY <1>1, ListedIsFinite
<1>5. Newer(i) \subseteq part \ {i} /\ IsFiniteSet(part)
  BY <1>1, <1>2, ListedIsFinite
<1>6. Cardinality(part \ {i}) = all - 1 /\ Cardinality(Newer(i)) <= Cardinality(part \ {i})
  BY <1>4, <1>5, FS_RemoveElement, FS_Subset
<1>7. all <= n
  BY <1>4 DEF First
<1> QED
  BY <1>3, <1>6, <1>7

\* A page that does not show a suite which lies behind its offset leaves it behind its
\* end, whatever was created since the page before.
LEMMA PageLeavesBehind ==
    ASSUME ListingTypeOK, NEW i \in Listed, ~Tied(i), NEW part, Window(part, page, size),
           Cardinality(Newer(i)) >= Offset(page, size), i \notin part
    PROVE  Cardinality(Newer(i)) >= page * size
<1>1. PICK through \in SUBSET Listed, skipped \in SUBSET Listed :
        /\ First(skipped, Offset(page, size))
        /\ First(through, Offset(page, size) + size)
        /\ part = through \ skipped
  BY DEF Window
<1>2. PICK p \in Nat, s \in Nat : page = p + 1 /\ size = s
  <2>1. page - 1 \in Nat /\ size \in Nat /\ page = (page - 1) + 1
    BY DEF ListingTypeOK, MaxSize
  <2> QED
    BY <2>1
<1>3. Offset(page, size) = p * s /\ p * s \in Nat /\ (p + 1) * s = p * s + s
  BY <1>2 DEF Offset
<1>4. PICK newer \in Nat : Cardinality(Newer(i)) = newer
  BY ListedIsFinite DEF Newer
<1>5. i \notin skipped
  <2>1. SUFFICES ASSUME i \in skipped
                 PROVE  FALSE
    OBVIOUS
  <2>2. First(skipped, p * s)
    BY <1>1, <1>3
  <2>3. Cardinality(Newer(i)) < p * s
    BY <1>3, <2>1, <2>2, AmongFirst
  <2> QED
    BY <1>3, <1>4, <2>3
<1>6. First(through, p * s + s) /\ i \notin through
  BY <1>1, <1>2, <1>3, <1>5
<1>7. p * s + s \in Nat
  BY <1>2, <1>3
<1>8. Cardinality(Newer(i)) >= p * s + s
  BY <1>6, <1>7, LaterThanFirst
<1> QED
  BY <1>2, <1>3, <1>8

\* The last page that is counted leaves no suite behind.
LEMMA NothingBehindTheLast ==
    ASSUME ListingTypeOK, NEW i \in Listed, Cardinality(Newer(i)) >= page * size,
           page >= PageCount(Cardinality(Listed), size)
    PROVE  FALSE
<1>1. PICK p \in Nat, s \in Nat \ {0} : page = p /\ size = s
  BY DEF ListingTypeOK, MaxSize
<1>2. IsFiniteSet(Listed)
  BY ListedIsFinite
<1>3. PICK total \in Nat : Cardinality(Listed) = total
  BY ListedIsFinite
<1>4. PICK newer \in Nat : Cardinality(Newer(i)) = newer
  BY ListedIsFinite DEF Newer
<1>5. Newer(i) \subseteq Listed \ {i}
  <2>1. createdAt[i] \in Int
    BY ListingAssumption DEF ListingTypeOK, Listed
  <2> QED
    BY <2>1 DEF Newer
<1>6. Cardinality(Listed \ {i}) = total - 1
  BY <1>2, <1>3, FS_RemoveElement
<1>7. newer <= total - 1
  <2>1. IsFiniteSet(Listed \ {i})
    BY <1>2, FS_Subset
  <2>2. Cardinality(Newer(i)) <= Cardinality(Listed \ {i})
    BY <1>5, <2>1, FS_Subset
  <2> QED
    BY <1>4, <1>6, <2>2
<1>8. s * p = p * s /\ p * s \in Nat
  BY <1>1
<1>9. s * p < total
  BY <1>1, <1>4, <1>7, <1>8
<1>10. p + 1 <= PageCount(total, s)
  BY <1>9, PageInRange
<1>11. PageCount(total, s) \in Nat
  <2>1. total + s - 1 \in Nat
    BY <1>1
  <2> QED
    BY <2>1, Division DEF PageCount
<1> QED
  BY <1>1, <1>3, <1>10, <1>11

\* Suites that are created leave those there were with their ties and the newer ones.
LEMMA CreationsComeOnTop ==
    ASSUME ListingTypeOK, ListingTypeOK', NEW i \in Listed, Listed \subseteq Listed',
           \A j \in Listed : createdAt'[j] = createdAt[j]
    PROVE  /\ Tied(i) => Tied(i)'
           /\ Cardinality(Newer(i)) <= Cardinality(Newer(i)')
           /\ Cardinality(Newer(i)) \in Nat /\ Cardinality(Newer(i)') \in Nat
<1>1. Tied(i) => Tied(i)'
  BY DEF Tied
<1>2. Newer(i) \subseteq Newer(i)'
  BY DEF Newer
<1>3. IsFiniteSet(Newer(i)') /\ Cardinality(Newer(i)') \in Nat
  <2>1. Newer(i)' \subseteq Entries
    BY DEF Newer, Listed
  <2> QED
    BY <2>1, ListingAssumption, FS_Subset, FS_CardinalityType
<1>4. Cardinality(Newer(i)) \in Nat
  BY ListedIsFinite DEF Newer
<1> QED
  BY <1>1, <1>2, <1>3, <1>4, FS_Subset

LEMMA ListingType ==
    ASSUME ListingTypeOK, [ListingNext]_listingVars
    PROVE  ListingTypeOK'
<1> USE ListingAssumption
<1>1. CASE Tick
  BY <1>1 DEF Tick, ListingTypeOK, walkVars
<1>2. ASSUME NEW i \in Entries, Create(i)
      PROVE  ListingTypeOK'
  BY <1>2 DEF Create, ListingTypeOK, walkVars, EntryState
<1>3. ASSUME NEW i \in Entries, Commit(i)
      PROVE  ListingTypeOK'
  BY <1>3 DEF Commit, ListingTypeOK, walkVars, EntryState
<1>4. ASSUME NEW i \in Entries, Remove(i)
      PROVE  ListingTypeOK'
  BY <1>4 DEF Remove, ListingTypeOK, EntryState
<1>5. ASSUME NEW s \in Sizes, Ask(s)
      PROVE  ListingTypeOK'
  <2>1. /\ place' \in Place
        /\ page' \in Nat \ {0}
        /\ size' \in 1 .. MaxSize
    BY <1>5 DEF Ask, Place
  <2>2. start' \subseteq Entries /\ shown' \subseteq Entries /\ removed' \in BOOLEAN
    BY <1>5 DEF Ask, Listed
  <2> QED
    BY <1>5, <2>1, <2>2 DEF Ask, ListingTypeOK, tableVars
<1>6. CASE ReadRows
  BY <1>6 DEF ReadRows, ListingTypeOK, tableVars, Place, Listed
<1>7. CASE Count
  BY <1>7 DEF Count, ListingTypeOK, tableVars, Place
<1>8. CASE UNCHANGED listingVars
  BY <1>8 DEF ListingTypeOK, listingVars, tableVars, walkVars
<1> QED
  BY <1>1, <1>2, <1>3, <1>4, <1>5, <1>6, <1>7, <1>8 DEF ListingNext

LEMMA ListingInvStep ==
    ASSUME ListingInv, [ListingNext]_listingVars
    PROVE  ListingInv'
<1>0. ListingTypeOK /\ ListingTypeOK'
  BY ListingType DEF ListingInv
<1>1. ASSUME UNCHANGED walkVars, Listed \subseteq Listed',
             \A j \in Listed : createdAt'[j] = createdAt[j]
      PROVE  ListingInv'
  <2>1. (place = "idle" => start = {})' /\ Passed' = Passed
    BY <1>1 DEF ListingInv, walkVars, Passed
  <2> SUFFICES ASSUME ~removed
               PROVE  /\ start \subseteq Listed'
                      /\ \A i \in start :
                           i \in shown \/ Tied(i)'
                             \/ (place # "done" /\ Cardinality(Newer(i)') >= Passed)
    BY <1>0, <1>1, <2>1 DEF ListingInv, walkVars
  <2>2. start \subseteq Listed'
    BY <1>1 DEF ListingInv
  <2>3. Passed \in Int
    BY <1>0 DEF Passed, Offset, ListingTypeOK, MaxSize
  <2>4. ASSUME NEW i \in start
        PROVE  i \in shown \/ Tied(i)'
                 \/ (place # "done" /\ Cardinality(Newer(i)') >= Passed)
    <3>1. i \in Listed
      BY <2>4 DEF ListingInv
    <3>2. i \in shown \/ Tied(i) \/ (place # "done" /\ Cardinality(Newer(i)) >= Passed)
      BY <2>4 DEF ListingInv
    <3>3. /\ Tied(i) => Tied(i)'
          /\ Cardinality(Newer(i)) <= Cardinality(Newer(i)')
          /\ Cardinality(Newer(i)) \in Nat /\ Cardinality(Newer(i)') \in Nat
      BY <1>0, <1>1, <3>1, CreationsComeOnTop
    <3> QED
      BY <2>3, <3>2, <3>3
  <2> QED
    BY <2>2, <2>4
<1>2. ASSUME Tick \/ \E i \in Entries : Create(i) \/ Commit(i)
      PROVE  ListingInv'
  <2>1. UNCHANGED walkVars
    BY <1>2 DEF Tick, Create, Commit
  <2>2. Listed \subseteq Listed' /\ \A j \in Listed : createdAt'[j] = createdAt[j]
    BY <1>0, <1>2 DEF Tick, Create, Commit, Listed, ListingTypeOK
  <2> QED
    BY <1>1, <2>1, <2>2
<1>3. ASSUME NEW i \in Entries, Remove(i)
      PROVE  ListingInv'
  <2>1. CASE place = "idle"
    BY <1>0, <1>3, <2>1 DEF Remove, ListingInv
  <2>2. CASE place # "idle"
    BY <1>0, <1>3, <2>2 DEF Remove, ListingInv
  <2> QED
    BY <2>1, <2>2
<1>4. ASSUME NEW s \in Sizes, Ask(s)
      PROVE  ListingInv'
  <2>1. Listed' = Listed /\ start' = Listed /\ place' = "asked"
    BY <1>4 DEF Ask, tableVars, Listed
  <2>2. Passed' = 0
    BY <1>0, <1>4 DEF Ask, Passed, Offset, ListingTypeOK, MaxSize
  <2>3. \A i \in Listed : Cardinality(Newer(i)') \in Nat
    <3>1. \A i \in Listed : Newer(i)' = Newer(i)
      BY <1>4, <2>1 DEF Newer, Ask, tableVars
    <3>2. \A i \in Listed : Newer(i) \subseteq Listed
      BY DEF Newer
    <3> QED
      BY <3>1, <3>2, ListedIsFinite
  <2> QED
    BY <1>0, <2>1, <2>2, <2>3 DEF ListingInv
<1>5. ASSUME UNCHANGED <<tableVars, size, start, removed>>, shown \subseteq shown',
             place # "idle", place' # "idle",
             \A i \in Listed :
               i \notin shown' /\ ~Tied(i) /\ place # "done" /\ Cardinality(Newer(i)) >= Passed
                 => place' # "done" /\ Cardinality(Newer(i)) >= Passed'
      PROVE  ListingInv'
  <2>1. Listed' = Listed
    BY <1>5 DEF tableVars, Listed
  <2>2. \A i \in start : Tied(i)' = Tied(i) /\ Newer(i)' = Newer(i)
    BY <1>5, <2>1 DEF tableVars, Tied, Newer
  <2>3. ASSUME ~removed, NEW i \in start
        PROVE  i \in Listed /\ (i \in shown' \/ Tied(i)
                 \/ (place' # "done" /\ Cardinality(Newer(i)) >= Passed'))
    BY <1>5, <2>3 DEF ListingInv
  <2> QED
    BY <1>0, <1>5, <2>1, <2>2, <2>3 DEF ListingInv
<1>6. CASE ReadRows
  <2>1. PICK part \in SUBSET Listed : Window(part, page, size) /\ shown' = shown \cup part
    BY <1>6 DEF ReadRows
  <2>2. Passed = Offset(page, size) /\ Passed' = page * size
    BY <1>6 DEF ReadRows, Passed
  <2>3. ASSUME NEW i \in Listed, i \notin shown', ~Tied(i), Cardinality(Newer(i)) >= Passed
        PROVE  Cardinality(Newer(i)) >= Passed'
    BY <1>0, <2>1, <2>2, <2>3, PageLeavesBehind
  <2> QED
    BY <1>5, <1>6, <2>1, <2>3 DEF ReadRows
<1>7. CASE Count
  <2>1. UNCHANGED <<tableVars, size, start, removed>> /\ shown' = shown /\ place = "counted"
    BY <1>7 DEF Count
  <2>2. Passed = page * size
    BY <2>1 DEF Passed
  <2>3. CASE place' = "asked" /\ page' = page + 1
    <3>1. Passed' = Passed
      <4>1. Offset(page + 1, size) = page * size
        BY <1>0 DEF Offset, ListingTypeOK, MaxSize
      <4> QED
        BY <2>1, <2>2, <2>3, <4>1 DEF Passed
    <3> QED
      BY <1>5, <2>1, <2>3, <3>1
  <2>4. CASE place' = "done" /\ page >= PageCount(Cardinality(Listed), size)
    <3>1. ASSUME NEW i \in Listed, Cardinality(Newer(i)) >= Passed
          PROVE  FALSE
      BY <1>0, <2>2, <2>4, <3>1, NothingBehindTheLast
    <3> QED
      BY <1>5, <2>1, <2>4, <3>1
  <2> QED
    BY <1>7, <2>3, <2>4 DEF Count
<1>8. CASE UNCHANGED listingVars
  <2>1. Listed' = Listed /\ createdAt' = createdAt /\ UNCHANGED walkVars
    BY <1>8 DEF listingVars, tableVars, Listed
  <2> QED
    BY <1>1, <2>1
<1> QED
  BY <1>2, <1>3, <1>4, <1>6, <1>7, <1>8 DEF ListingNext

\* A client that reads GET /suites to its last page is shown every suite that was there
\* from the start and shares its created_at with no other, however many are created
\* meanwhile, in whatever order they are committed, unless one is deleted.
THEOREM ListingMissesNothing == ListingSpec => []NothingMissed
<1>1. ListingInit => ListingInv
  <2> SUFFICES ASSUME ListingInit
               PROVE  ListingInv
    OBVIOUS
  <2>1. ListingTypeOK
    <3>1. clock \in 0 .. MaxClock /\ createdAt \in [Entries -> 0 .. MaxClock]
      BY ListingAssumption DEF ListingInit
    <3>2. entry \in [Entries -> EntryState] /\ place \in Place
      BY DEF ListingInit, EntryState, Place
    <3>3. page \in Nat \ {0} /\ size \in 1 .. MaxSize
      BY DEF ListingInit, MaxSize
    <3>4. start \subseteq Entries /\ shown \subseteq Entries /\ removed \in BOOLEAN
      BY DEF ListingInit
    <3> QED
      BY <3>1, <3>2, <3>3, <3>4 DEF ListingTypeOK
  <2>2. start = {}
    BY DEF ListingInit
  <2> QED
    BY <2>1, <2>2 DEF ListingInv
<1>2. ListingInv /\ [ListingNext]_listingVars => ListingInv'
  BY ListingInvStep
<1>3. ListingInv => NothingMissed
  BY DEF ListingInv, NothingMissed
<1> QED
  BY <1>1, <1>2, <1>3, PTL DEF ListingSpec
=============================================================================
