------------------------------- MODULE Accounts -------------------------------
(***************************************************************************)
(* Accounts (services/auth_service.py, api/v1/auth.py, "aegis create-user" *)
(* and the first half of "aegis seed"): register, log in, refresh, and     *)
(* what a token admits.                                                    *)
(***************************************************************************)
EXTENDS Schema

CONSTANT AdminEmail  \* the address "aegis seed" registers

ASSUME AccountAssumption == AdminEmail \in Emails

\* SELECT ... WHERE email = lower(email).
AccountsWith(email) == {u \in Accounts : users[u].email = Lower[email]}

\* Mutant: the address is stored as it was typed.
StoredTyped(email) == email
Stored(email) == Lower[email]

\* POST /auth/register: nobody may make himself an admin.
\* Mutant: the role is taken as it comes.
RegisterAnyRole(c) ==
    /\ serving
    /\ \E email \in Typed, role \in Roles :
         Begin(c, "register", [op |-> "register", at |-> "begin", email |-> email,
                               role |-> role, cli |-> FALSE])
    /\ UNCHANGED <<setting, workload, schema, rows, tokens>>
Register(c) ==
    /\ serving
    /\ \E email \in Typed, role \in Roles :
         Begin(c, "register",
               IF role = "admin" THEN Idle(403)
               ELSE [op |-> "register", at |-> "begin", email |-> email,
                     role |-> role, cli |-> FALSE])
    /\ UNCHANGED <<setting, workload, schema, rows, tokens>>

\* aegis create-user: any role, after create_all.
CreateUser(c) ==
    /\ \E email \in Typed, role \in Roles :
         Begin(c, "create_user", [op |-> "create_user", at |-> "ddl", todo |-> Missing,
                                  email |-> email, role |-> role, cli |-> TRUE])
    /\ UNCHANGED <<setting, workload, schema, rows, tokens>>

\* aegis seed: the admin, then the demo suite.
Seed(c) ==
    /\ Begin(c, "seed", [op |-> "seed", at |-> "ddl", todo |-> Missing,
                         email |-> AdminEmail, role |-> "admin", cli |-> TRUE])
    /\ UNCHANGED <<setting, workload, schema, rows, tokens>>

Registers == {"register", "create_user", "seed"}
WantsSuite(owner) == [op |-> "seed", at |-> "owned", owner |-> owner]

\* AuthService.register looks the address up.  A conflict is 409 for a request,
\* the end of create-user, and for seed a reason to go on with that account.
LookUpEmail(c) ==
    /\ call[c].op \in Registers
    /\ call[c].at = "begin"
    /\ LET found == AccountsWith(call[c].email)
       IN  \/ /\ "users" \notin made
              /\ Answer(c, 500)
           \/ /\ "users" \in made
              /\ found = {}
              /\ Goto(c, [call[c] EXCEPT !.at = "free"])
           \/ /\ call[c].op # "seed"
              /\ found # {}
              /\ Answer(c, 409)
           \/ /\ call[c].op = "seed"
              /\ \E u \in found : Goto(c, WantsSuite(u))
    /\ UNCHANGED <<setting, workload, schema, rows, tokens>>

\* INSERT and commit; the unique index turns a second account down with an
\* IntegrityError, which nobody catches.
InsertUser(c) ==
    /\ call[c].op \in Registers
    /\ call[c].at = "free"
    /\ LET email == Stored(call[c].email)
           taken == "ix_users_email" \in made /\ \E u \in Accounts : users[u].email = email
       IN  \/ /\ ~taken
              /\ Accounts # Users
              /\ LET u == Fresh(Users \ Accounts)
                 IN /\ users' = [users EXCEPT ![u] = [email |-> email, role |-> call[c].role,
                                                      cli |-> call[c].cli]]
                    /\ IF call[c].op = "seed" THEN Goto(c, WantsSuite(u)) ELSE Answer(c, 201)
           \/ /\ taken
              /\ Answer(c, 500)
              /\ UNCHANGED users
    /\ UNCHANGED <<setting, workload, schema, suites, cases, reviews, tokens>>

-----------------------------------------------------------------------------
\* issue_tokens: an access and a refresh token.
Issue(u) == tokens' = tokens \cup {<<u, type>> : type \in TokenType}

\* POST /auth/login reads the account and issues in one step.  (No operation of
\* the code disables an account, so is_active is not modelled.)
Login(c) ==
    /\ serving
    /\ "users" \in made
    /\ \E email \in Typed :
         \/ \E u \in AccountsWith(email) : Begin(c, "login", Idle(200)) /\ Issue(u)
         \/ Begin(c, "login", Idle(401)) /\ UNCHANGED tokens
    /\ UNCHANGED <<setting, workload, schema, rows>>

\* decode_token with the type that is expected, then the account itself.
Admits(u, type) == <<u, type>> \in tokens /\ Present(users[u])

\* POST /auth/refresh: the old refresh token stays valid.
Refresh(c) ==
    /\ \E u \in Users :
         /\ Begin(c, "refresh", Idle(IF Admits(u, "refresh") THEN 200 ELSE 401))
         /\ IF Admits(u, "refresh") THEN Issue(u) ELSE UNCHANGED tokens
    /\ UNCHANGED <<setting, workload, schema, rows>>

Expire(u, type) ==
    /\ "expire" \in workload
    /\ <<u, type>> \in tokens
    /\ tokens' = tokens \ {<<u, type>>}
    /\ UNCHANGED <<setting, workload, schema, rows, call>>

\* require_roles(ENGINEER) on top of get_current_user.
Engineers == {u \in Users : Admits(u, "access") /\ users[u].role \in {"engineer", "admin"}}

AccountsNext ==
    \/ \E c \in Callers : Register(c) \/ CreateUser(c) \/ Seed(c) \/ LookUpEmail(c)
                          \/ InsertUser(c) \/ Login(c) \/ Refresh(c)
    \/ \E u \in Users, type \in TokenType : Expire(u, type)

-----------------------------------------------------------------------------
\* However registrations, create-user, seeds and the creation of the schema
\* overlap, an address has one account, in any spelling, as soon as the table has
\* its index; by WholeOrNothing in production it never is without.
OneAccountPerEmail == "ix_users_email" \in made => UniqueEmails

\* Whoever holds a token has an account, and the accounts that hold one for an
\* admin were made on the command line.
AdminsComeFromCli ==
    /\ \A t \in tokens : t[1] \in Accounts
    /\ \A u \in Accounts : users[u].role = "admin" => users[u].cli
=============================================================================
