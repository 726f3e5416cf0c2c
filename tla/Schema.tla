-------------------------------- MODULE Schema --------------------------------
(***************************************************************************)
(* How the tables come to be: create_all (db/session.py), which the        *)
(* lifespan of the API calls in the environments local and test and each   *)
(* command of the command line calls everywhere, and the Alembic           *)
(* migration 0001_initial.  On PostgreSQL each runs in one transaction; on *)
(* SQLite every statement of DDL is committed by itself.                   *)
(***************************************************************************)
EXTENDS RecordStore

\* The statements in the order both ways send them: a table, then its unique
\* index.  (The other indexes speed look-ups up and constrain nothing.)
Ddl == <<"users", "ix_users_email", "test_suites", "ix_test_suites_slug",
         "test_cases", "test_runs", "step_results", "healing_events">>

Objects == {Ddl[i] : i \in DOMAIN Ddl}
TableOf(obj) == CASE obj = "ix_users_email" -> "users"
                  [] obj = "ix_test_suites_slug" -> "test_suites"
                  [] OTHER -> obj
Tables == {TableOf(obj) : obj \in Objects}

\* Foreign keys.
References(table) == CASE table = "test_suites" -> {"users"}
                       [] table = "test_cases" -> {"test_suites"}
                       [] table = "test_runs" -> {"test_suites", "users"}
                       [] table \in {"step_results", "healing_events"} -> {"test_runs"}
                       [] OTHER -> {}

Accounts == {u \in Users : Present(users[u])}
Catalogue == {x \in Suites : Present(suites[x])}

UniqueEmails == \A u, v \in Accounts : Lower[users[u].email] = Lower[users[v].email] => u = v
UniqueSlugs == \A x, y \in Catalogue : suites[x].slug = suites[y].slug => x = y

\* A statement fails when its object exists, and a unique index when the rows
\* are not.
Accepts(obj) ==
    /\ obj \notin made
    /\ obj = "ix_users_email" => UniqueEmails
    /\ obj = "ix_test_suites_slug" => UniqueSlugs

\* checkfirst: the statements of the tables that are missing, their indexes
\* included, by their place in Ddl.  A table that is there is passed over, whether
\* it has its index or not.
Missing == {i \in DOMAIN Ddl : TableOf(Ddl[i]) \notin made}

-----------------------------------------------------------------------------
\* The lifespan's create_all, before the API serves.
Boot(c) ==
    /\ ~serving
    /\ Begin(c, "boot", [op |-> "boot", at |-> "ddl",
                         todo |-> IF setting.environment \in {"local", "test"}
                                  THEN Missing ELSE {}])
    /\ UNCHANGED <<setting, workload, schema, rows, tokens>>

\* alembic upgrade head: nothing when the revision is stamped, else every
\* statement, whatever exists.
Upgrade(c) ==
    /\ Begin(c, "upgrade", [op |-> "upgrade", at |-> "ddl",
                            todo |-> IF stamped THEN {} ELSE DOMAIN Ddl])
    /\ UNCHANGED <<setting, workload, schema, rows, tokens>>

WithDdl(c) == call[c].op # "idle" /\ call[c].at = "ddl"

Send(c, part) ==
    \/ /\ \A i \in part : Accepts(Ddl[i])
       /\ made' = made \cup {Ddl[i] : i \in part}
       /\ stamped' = (stamped \/ (Transactional /\ call[c].op = "upgrade"))
       /\ Goto(c, [call[c] EXCEPT !.todo = @ \ part])
    \/ /\ \E i \in part : ~Accepts(Ddl[i])
       /\ Answer(c, 500)
       /\ UNCHANGED <<made, stamped>>

\* The next statement on SQLite, or the whole transaction on PostgreSQL.
SendDdl(c) ==
    /\ WithDdl(c)
    /\ call[c].todo # {}
    /\ Send(c, {i \in call[c].todo : Transactional \/ \A j \in call[c].todo : i <= j})
    /\ UNCHANGED <<setting, workload, serving, rows, tokens>>

\* The API serves, the migration writes its revision, a command goes on.
EndDdl(c) ==
    /\ WithDdl(c)
    /\ call[c].todo = {}
    /\ \/ /\ call[c].op = "boot"
          /\ serving' = TRUE
          /\ Answer(c, 0)
          /\ UNCHANGED stamped
       \/ /\ call[c].op = "upgrade"
          /\ stamped' = TRUE
          /\ Answer(c, 0)
          /\ UNCHANGED serving
       \/ /\ call[c].op \notin {"boot", "upgrade"}
          /\ Goto(c, [call[c] EXCEPT !.at = "begin"])
          /\ UNCHANGED <<stamped, serving>>
    /\ UNCHANGED <<setting, workload, made, rows, tokens>>

SchemaNext == \E c \in Callers : Boot(c) \/ Upgrade(c) \/ SendDdl(c) \/ EndDdl(c)

-----------------------------------------------------------------------------
\* In production a killed migration or command leaves no half of a schema behind.
WholeOrNothing == setting.environment = "production" => made \in {{}, Objects}

\* However the ways to create the schema overlap or break off, a table comes
\* after those it refers to, a stamped revision means the whole schema, an API of
\* the environments that create their own has every table when it serves, and
\* production never shows half of a schema.
SchemaIsUsable ==
    /\ \A t \in Tables : t \in made => References(t) \subseteq made
    /\ stamped => made = Objects
    /\ serving /\ setting.environment \in {"local", "test"} => Tables \subseteq made
    /\ WholeOrNothing
=============================================================================
