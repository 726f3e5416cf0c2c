----------------------------- MODULE RecordStore -----------------------------
(***************************************************************************)
(* What the API and the command line share besides runs: the settings they *)
(* were started with, the schema of the database, and the rows of users,   *)
(* test_suites, test_cases and healing_events.                             *)
(*                                                                         *)
(* A caller is a task of the API or a process of the command line.  It is  *)
(* cut at its awaits; what it has read is in its "call".  The flush and    *)
(* the commit of a transaction are one step: a second writer of the same   *)
(* row or unique key waits for the first, on PostgreSQL for its row, on    *)
(* SQLite for the one write lock.  One that waits for that lock too long   *)
(* gives up, which the model has as any other failure (Records, Die).      *)
(***************************************************************************)
EXTENDS Naturals, Sequences, FiniteSets

CONSTANTS Callers,    \* tasks of the API and processes of the command line
          Settings,   \* configurations somebody tries to start with
          Workloads,  \* bound: sets of operations that are called together
          Users,      \* ids a row of users can have
          Emails,     \* addresses, as they are spelled
          Typed,      \* bound: the addresses that are typed in
          Roles,      \* bound: the roles that are asked for
          Lower,      \* their lower-case spelling
          Suites,     \* ids a row of test_suites can have
          Slugs,
          Cases,      \* ids a row of test_cases can have
          Events,     \* ids of healing_events
          SuiteOf     \* the suite whose run an event is of

ASSUME RecordAssumption ==
    /\ \A s \in Settings : s.database \in {"sqlite", "postgresql"}
    /\ Typed \subseteq Emails
    /\ Roles \subseteq {"admin", "engineer", "viewer"}
    /\ Lower \in [Emails -> Emails]
    /\ \A e \in Emails : Lower[Lower[e]] = Lower[e]
    /\ SuiteOf \in [Events -> Suites]
    /\ Suites \cap {"none", "erased"} = {}

VARIABLES setting,   \* settings
          workload,  \* the operations that are called in this behaviour
          made,      \* tables and unique indexes that exist
          stamped,   \* alembic_version holds the revision
          serving,   \* the lifespan of the API has started up
          users, tokens, suites, cases, reviews, call

rows == <<users, suites, cases, reviews>>
schema == <<made, stamped, serving>>
recordVars == <<setting, workload, schema, rows, tokens, call>>

Role == {"admin", "engineer", "viewer"}
UserRow == [email : Emails, role : Role, cli : BOOLEAN]
Text == {"a", "b"}
Field == {"name", "description"}
Null == "null"
SuiteRow == [slug : Slugs, owner : Users, name : Text, description : Text \cup {Null}]
Absent == [absent |-> TRUE]    \* no such row yet
Deleted == [absent |-> FALSE]  \* its row was deleted
NoSuite == "none"           \* no such row of test_cases yet
Erased == "erased"          \* its row was deleted
Present(row) == row \notin {Absent, Deleted}

\* A bearer token is valid until it expires; its claims are a subject and a type.
TokenType == {"access", "refresh"}
Review == {"unset", "accepted", "rejected", "gone"}

\* The slot is free; how the last call ended is kept as the class of its status,
\* with 200 for a command that succeeds, 409 for "already exists" and 500 for an
\* exception that leaves it.
Idle(code) == [op |-> "idle", class |-> code \div 100]

\* A uuid nobody has had before; which one does not matter.
Fresh(free) == CHOOSE id \in free : TRUE

HasOp(c, op, at) == call[c].op = op /\ call[c].at = at
MayCall(c, op) == call[c].op = "idle" /\ op \in workload
Begin(c, op, args) ==
    /\ MayCall(c, op)
    /\ call' = [call EXCEPT ![c] = args]
Goto(c, args) == call' = [call EXCEPT ![c] = args]
Answer(c, code) == call' = [call EXCEPT ![c] = Idle(code)]

\* Production refuses the default key and SQLite.
\* Mutant: only the key is looked at.
ValidKeyOnly(s) == s.environment = "production" => s.strongKey
Valid(s) == s.environment = "production" => s.strongKey /\ s.database # "sqlite"

Transactional == setting.database = "postgresql"
EnforcesFK == setting.database = "postgresql"
=============================================================================
