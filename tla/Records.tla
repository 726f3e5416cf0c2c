------------------------------- MODULE Records -------------------------------
(***************************************************************************)
(* The API and the command line on one database: the creation of its       *)
(* schema, accounts, suites and reviews, interleaved at every await, from  *)
(* an empty database or one with accounts and a suite.                     *)
(***************************************************************************)
EXTENDS HealingReview

\* A process is killed, or its request is cancelled, between two steps.
Die(c) ==
    /\ call[c].op # "idle"
    /\ Answer(c, 500)
    /\ UNCHANGED <<setting, workload, schema, rows, tokens>>

CONSTANTS Population,  \* users, suites and tokens of a database in service
          Bootstraps   \* the workloads that begin with an empty database

ASSUME PopulationAssumption ==
    /\ Population.users \in [Users -> UserRow \cup {Absent}]
    /\ Population.suites \in [Suites -> SuiteRow \cup {Absent}]
    /\ Population.tokens \subseteq
         {u \in Users : Population.users[u] # Absent} \X TokenType
    /\ \A u \in Users : Population.users[u] # Absent =>
         /\ Lower[Population.users[u].email] = Population.users[u].email
         /\ Population.users[u].role = "admin" => Population.users[u].cli
         /\ \A v \in Users : Population.users[v] # Absent
                /\ Population.users[u].email = Population.users[v].email => u = v
    /\ \A x, y \in Suites :
         /\ Population.suites[x] # Absent /\ Population.suites[y] # Absent
         /\ Population.suites[x].slug = Population.suites[y].slug
         => x = y

Empty ==
    /\ made = {} /\ stamped = FALSE /\ serving = FALSE
    /\ users = [u \in Users |-> Absent]
    /\ suites = [x \in Suites |-> Absent]
    /\ tokens = {}

InService ==
    /\ made = Objects /\ stamped = TRUE /\ serving = TRUE
    /\ users = Population.users
    /\ suites = Population.suites
    /\ tokens = Population.tokens

\* A process whose settings are not valid does not start.
RecordsInit ==
    /\ setting \in {s \in Settings : Valid(s)}
    /\ workload \in Workloads
    /\ IF workload \in Bootstraps THEN Empty ELSE InService
    /\ cases = [k \in Cases |-> NoSuite]
    /\ reviews = [e \in Events |->
                    IF Present(suites[SuiteOf[e]]) THEN "unset" ELSE "gone"]
    /\ call = [c \in Callers |-> Idle(0)]

RecordsNext ==
    \/ SchemaNext
    \/ AccountsNext
    \/ CatalogNext
    \/ ReviewNext
    \/ \E c \in Callers : Die(c)

RecordsSpec == RecordsInit /\ [][RecordsNext]_recordVars

-----------------------------------------------------------------------------
\* What a task may remember between two steps.
Statements == SUBSET DOMAIN Ddl
Call ==
    [op : {"idle"}, class : Nat]
    \cup [op : {"boot", "upgrade"}, at : {"ddl"}, todo : Statements]
    \cup [op : {"register"}, at : {"begin", "free"}, email : Emails, role : Role,
          cli : {FALSE}]
    \cup [op : {"create_user", "seed"}, at : {"ddl", "begin", "free"}, todo : Statements,
          email : Emails, role : Role, cli : {TRUE}]
    \cup [op : {"seed"}, at : {"owned", "unlisted"}, owner : Users]
    \cup [op : {"create_suite"}, at : {"begin", "free"}, slug : Slugs, owner : Users]
    \cup [op : {"create_suite", "update_suite"}, at : {"stored"}, suite : Suites]
    \cup [op : {"update_suite"}, at : {"loaded"}, actor : Users, suite : Suites,
          seen : [Field -> Text \cup {Null}], patch : Patches]
    \cup [op : {"delete_suite"}, at : {"loaded"}, actor : Users, suite : Suites,
          seen : SUBSET Cases]
    \cup [op : {"add_case"}, at : {"loaded"}, actor : Users, suite : Suites]
    \cup [op : {"review"}, at : {"loaded"}, event : Events, seen : Review, want : Review]

RecordsTypeOK ==
    /\ setting \in Settings
    /\ made \subseteq Objects
    /\ stamped \in BOOLEAN /\ serving \in BOOLEAN
    /\ users \in [Users -> UserRow \cup {Absent}]
    /\ tokens \subseteq Users \X TokenType
    /\ suites \in [Suites -> SuiteRow \cup {Absent, Deleted}]
    /\ cases \in [Cases -> Suites \cup {NoSuite, Erased}]
    /\ reviews \in [Events -> Review]
    /\ call \in [Callers -> Call]
=============================================================================
