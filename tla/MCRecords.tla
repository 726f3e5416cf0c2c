------------------------------ MODULE MCRecords ------------------------------
(***************************************************************************)
(* Instances of Records and Pagination for TLC.  The listing is a workload *)
(* of its own, beside those of Records: it needs more suites than they do, *)
(* and nothing of a suite but that it is there and when it was created.    *)
(***************************************************************************)
EXTENDS Records, Pagination

SetUp(env, db, strong) == [environment |-> env, database |-> db, strongKey |-> strong]
ThreeSettings == {SetUp("local", "sqlite", FALSE), SetUp("production", "sqlite", TRUE),
                  SetUp("production", "postgresql", TRUE)}

Bootstrap == {"boot", "upgrade", "create_user", "seed"}
SignUp == {"boot", "register", "create_user", "login", "refresh", "expire"}
Change == {"create_suite", "update_suite", "delete_suite"}
Fill == {"add_case", "delete_suite", "review"}

EmptyWorkloads == {Bootstrap, SignUp}
Listing == {"list_suites"}
AllWorkloads == EmptyWorkloads \cup {Change, Fill, Listing}

LowerCase == [e \in Emails |-> IF e = "E1" THEN "e1" ELSE e]

\* A suite of u1, another engineer, a viewer and an admin with access tokens.
Account(email, role) == [email |-> email, role |-> role, cli |-> role = "admin"]
InUse ==
    [users |-> [u \in Users |-> CASE u = "u1" -> Account("e1", "engineer")
                                  [] u = "u2" -> Account("e2", "engineer")
                                  [] u = "u3" -> Account("e3", "admin")
                                  [] u = "u4" -> Account("e4", "viewer")
                                  [] OTHER -> Absent],
     suites |-> [x \in Suites |->
                   IF x = "x1" THEN [slug |-> "demo", owner |-> "u1",
                                     name |-> "a", description |-> "a"]
                   ELSE Absent],
     tokens |-> {"u1", "u2", "u3", "u4"} \X {"access"}]

FirstSuite == [e \in Events |-> "x1"]

Bodies == {[name |-> "b"], [description |-> "b"], [name |-> "a", description |-> "b"],
           [name |-> Null], [description |-> Null]}

RecordsAndListingInit ==
    /\ RecordsInit
    /\ ListingInit
    /\ workload = Listing => setting.environment = "local"

RecordsOrListing ==
    \/ RecordsNext /\ UNCHANGED listingVars
    \/ workload = Listing /\ ListingNext /\ UNCHANGED recordVars

RecordsAndListing ==
    RecordsAndListingInit /\ [][RecordsOrListing]_<<recordVars, listingVars>>
=============================================================================
