---------------------------- MODULE SuiteCatalog ----------------------------
(***************************************************************************)
(* Suites and their cases (services/suite_service.py, api/v1/suites.py,    *)
(* and the second half of "aegis seed").  The service loads the suite,     *)
(* decides on what it loaded, and writes in a later step; after a creation *)
(* or an update the endpoint loads it once more for its answer.            *)
(***************************************************************************)
EXTENDS Accounts

CONSTANTS DemoSlug,  \* the slug of the demo suite
          Patches    \* bound: the bodies of PATCH that are sent

\* exclude_unset: a body names the fields it sets, and may set one to null.
ASSUME CatalogAssumption ==
    /\ DemoSlug \in Slugs
    /\ \A patch \in Patches : \E set \in SUBSET Field : patch \in [set -> Text \cup {Null}]

\* _assert_can_mutate: the owner, or an admin.
\* Mutant: any engineer may.
MayMutateAll(u, suite) == u \in Accounts
MayMutate(u, suite) == users[u].role = "admin" \/ suite.owner = u

\* Loading a suite for a change: 404, 403, or go on with what was read.
Load(c, op, u, x, args) ==
    /\ u \in Engineers
    /\ Begin(c, op, IF ~Present(suites[x]) THEN Idle(404)
                    ELSE IF ~MayMutate(u, suites[x]) THEN Idle(403) ELSE args)
    /\ UNCHANGED <<setting, workload, schema, rows, tokens>>

-----------------------------------------------------------------------------
\* POST /suites.
CreateSuite(c) ==
    /\ MayCall(c, "create_suite")
    /\ \E u \in Engineers, slug \in Slugs :
         Begin(c, "create_suite", [op |-> "create_suite", at |-> "begin",
                                   slug |-> slug, owner |-> u])
    /\ UNCHANGED <<setting, workload, schema, rows, tokens>>

Creating(c) == HasOp(c, "create_suite", "begin") \/ HasOp(c, "seed", "owned")
Inserting(c) == HasOp(c, "create_suite", "free") \/ HasOp(c, "seed", "unlisted")

SlugOf(c) == IF call[c].op = "seed" THEN DemoSlug ELSE call[c].slug

\* SuiteService.create looks the slug up.  When it is taken, seed is done.
LookUpSlug(c) ==
    /\ Creating(c)
    /\ LET taken == \E x \in Catalogue : suites[x].slug = SlugOf(c)
       IN  \/ /\ "test_suites" \notin made
              /\ Answer(c, 500)
           \/ /\ "test_suites" \in made
              /\ ~taken
              /\ Goto(c, [call[c] EXCEPT !.at = IF @ = "owned" THEN "unlisted" ELSE "free"])
           \/ /\ taken
              /\ Answer(c, IF call[c].op = "seed" THEN 200 ELSE 409)
    /\ UNCHANGED <<setting, workload, schema, rows, tokens>>

\* Mutant: the insert does not meet the unique index.
InsertSuiteUnchecked(c) ==
    /\ Inserting(c)
    /\ \E x \in Suites :
         /\ suites[x] = Absent
         /\ suites' = [suites EXCEPT ![x] = [slug |-> SlugOf(c), owner |-> call[c].owner,
                                             name |-> "a", description |-> "a"]]
    /\ Answer(c, 500)
    /\ UNCHANGED <<setting, workload, schema, users, cases, reviews, tokens>>

\* INSERT and commit, with the cases of the body; the unique index turns a second
\* suite of the slug down.
InsertSuite(c) ==
    /\ Inserting(c)
    /\ LET taken == /\ "ix_test_suites_slug" \in made
                    /\ \E x \in Catalogue : suites[x].slug = SlugOf(c)
       IN  \/ /\ ~taken
              /\ \E x \in Suites : suites[x] = Absent
              /\ LET x == Fresh({y \in Suites : suites[y] = Absent})
                 IN /\ suites' = [suites EXCEPT ![x] =
                                    [slug |-> SlugOf(c), owner |-> call[c].owner,
                                     name |-> "a", description |-> "a"]]
                    /\ \E new \in SUBSET {k \in Cases : cases[k] = NoSuite} :
                         cases' = [k \in Cases |-> IF k \in new THEN x ELSE cases[k]]
                    /\ IF call[c].op = "seed" THEN Answer(c, 200)
                      ELSE Goto(c, [op |-> "create_suite", at |-> "stored", suite |-> x])
           \/ /\ taken
              /\ Answer(c, 500)
              /\ UNCHANGED <<suites, cases>>
    /\ UNCHANGED <<setting, workload, schema, users, reviews, tokens>>

\* PATCH /suites/{id}.
UpdateSuite(c) ==
    /\ MayCall(c, "update_suite")
    /\ \E u \in Engineers, x \in Suites, patch \in Patches :
           Load(c, "update_suite", u, x,
                [op |-> "update_suite", at |-> "loaded", actor |-> u, suite |-> x,
                 seen |-> [f \in Field |-> suites[x][f]], patch |-> patch])

\* The attributes that differ from what was loaded are the columns of the UPDATE.
Changed(c) == {f \in DOMAIN call[c].patch : call[c].patch[f] # call[c].seen[f]}

\* Mutant: the whole object is written back.
MergedWhole(row, seen, patch, fields) ==
    [row EXCEPT !.name = IF "name" \in fields THEN patch["name"] ELSE seen["name"],
                !.description = IF "description" \in fields THEN patch["description"]
                                ELSE seen["description"]]
Merged(row, seen, patch, fields) ==
    [row EXCEPT !.name = IF "name" \in fields THEN patch["name"] ELSE @,
                !.description = IF "description" \in fields THEN patch["description"] ELSE @]

\* The columns an UPDATE can reach that are NOT NULL.
\* Mutant: none is.
NotNullNone == {}
NotNull == {"name"}

\* Nothing that differs, no UPDATE; NULL in a column that takes none and a row
\* that is gone (StaleDataError) end in 500.
WriteSuite(c) ==
    /\ HasOp(c, "update_suite", "loaded")
    /\ LET x == call[c].suite
           fields == Changed(c)
           isNull == \E f \in fields \cap NotNull : call[c].patch[f] = Null
       IN  \/ /\ fields = {} \/ (~isNull /\ Present(suites[x]))
              /\ suites' = IF fields = {} THEN suites
                           ELSE [suites EXCEPT ![x] =
                                   Merged(@, call[c].seen, call[c].patch, fields)]
              /\ Goto(c, [op |-> "update_suite", at |-> "stored", suite |-> x])
           \/ /\ fields # {}
              /\ isNull \/ ~Present(suites[x])
              /\ Answer(c, 500)
              /\ UNCHANGED suites
    /\ UNCHANGED <<setting, workload, schema, users, cases, reviews, tokens>>

\* service.get for the answer: the suite may have been deleted since the commit.
Reload(c) ==
    /\ HasOp(c, "create_suite", "stored") \/ HasOp(c, "update_suite", "stored")
    /\ Answer(c, IF ~Present(suites[call[c].suite]) THEN 404
                 ELSE IF call[c].op = "create_suite" THEN 201 ELSE 200)
    /\ UNCHANGED <<setting, workload, schema, rows, tokens>>

\* DELETE /suites/{id}: the cases that were loaded go with the suite.
CasesOf(x) == {k \in Cases : cases[k] = x}

DeleteSuite(c) ==
    /\ MayCall(c, "delete_suite")
    /\ \E u \in Engineers, x \in Suites :
           Load(c, "delete_suite", u, x,
                [op |-> "delete_suite", at |-> "loaded", actor |-> u, suite |-> x,
                 seen |-> CasesOf(x)])

\* Mutant: only the cases that were loaded go, as without foreign keys.
GoneCasesLoaded(c) == call[c].seen
\* PostgreSQL cascades to the cases that were added since; SQLite, with foreign
\* keys off, keeps them.
GoneCases(c) == call[c].seen \cup (IF EnforcesFK THEN CasesOf(call[c].suite) ELSE {})

\* The runs of the suite and their healing events are loaded and deleted, too.
\* Deleting a row that is gone already is only warned about.
EraseSuite(c) ==
    /\ HasOp(c, "delete_suite", "loaded")
    /\ LET x == call[c].suite
       IN  /\ suites' = [suites EXCEPT ![x] = Deleted]
           /\ cases' = [k \in Cases |-> IF k \in GoneCases(c) THEN Erased ELSE cases[k]]
           /\ reviews' = [e \in Events |-> IF SuiteOf[e] = x THEN "gone" ELSE reviews[e]]
    /\ Answer(c, 204)
    /\ UNCHANGED <<setting, workload, schema, users, tokens>>

\* POST /suites/{id}/cases.
AddCase(c) ==
    /\ MayCall(c, "add_case")
    /\ \E u \in Engineers, x \in Suites :
           Load(c, "add_case", u, x,
                [op |-> "add_case", at |-> "loaded", actor |-> u, suite |-> x])

InsertCase(c) ==
    /\ HasOp(c, "add_case", "loaded")
    /\ \/ /\ EnforcesFK => Present(suites[call[c].suite])
          /\ \E k \in Cases : cases[k] = NoSuite
          /\ cases' = [cases EXCEPT ![Fresh({k \in Cases : cases[k] = NoSuite})] =
                         call[c].suite]
          /\ Answer(c, 201)
       \/ /\ EnforcesFK
          /\ ~Present(suites[call[c].suite])
          /\ Answer(c, 500)
          /\ UNCHANGED cases
    /\ UNCHANGED <<setting, workload, schema, users, suites, reviews, tokens>>

CatalogNext ==
    \E c \in Callers :
        \/ CreateSuite(c) \/ LookUpSlug(c) \/ InsertSuite(c) \/ Reload(c)
        \/ UpdateSuite(c) \/ WriteSuite(c) \/ DeleteSuite(c) \/ EraseSuite(c)
        \/ AddCase(c) \/ InsertCase(c)

-----------------------------------------------------------------------------
\* A slug has one suite, however creations and seeds overlap, as soon as the
\* table has its index.
OneSuitePerSlug == "ix_test_suites_slug" \in made => UniqueSlugs

\* Two updates of one suite do not undo each other: a field changes only to what
\* some body in flight asks for that very field, so a name and a description
\* that are set at the same time are both there in the end.
UpdatesMerge ==
    [][\A x \in Suites : Present(suites[x]) /\ Present(suites'[x]) =>
         \A f \in {"slug", "owner"} \cup Field : suites'[x][f] # suites[x][f] =>
            \E c \in Callers : /\ HasOp(c, "update_suite", "loaded")
                               /\ call[c].suite = x
                               /\ f \in DOMAIN call[c].patch
                               /\ call[c].patch[f] = suites'[x][f]]_recordVars

\* Only the owner of a suite and admins of the command line change it, delete it
\* or add cases to it, whatever tokens are around.
OnlyOwnersChange ==
    [][\A c \in Callers : \A x \in Suites :
         /\ call'[c] # call[c]
         /\ \/ Present(suites[x]) /\ suites'[x] # suites[x]
            \/ \E k \in Cases : cases'[k] # cases[k] /\ x \in {cases[k], cases'[k]}
         /\ Present(suites[x])
         => LET u == call[c].actor
            IN  suites[x].owner = u \/ (users[u].role = "admin" /\ users[u].cli)]_recordVars

\* On PostgreSQL no case outlives its suite.
CasesHaveSuites ==
    EnforcesFK => \A k \in Cases : cases[k] \in Suites => Present(suites[cases[k]])
=============================================================================
