------------------------------ MODULE Pagination ------------------------------
(***************************************************************************)
(* A client reads GET /suites page by page while suites are created and    *)
(* deleted (SuiteService.list, BaseRepository.list, Page.create).  Each    *)
(* page is two statements without a common snapshot, the rows and then     *)
(* their number, and the next page is counted from the top again.  The     *)
(* page is at least 1 and the size within its limits, everything else is   *)
(* answered with 422 (get_pagination).                                     *)
(***************************************************************************)
EXTENDS Integers, FiniteSets

CONSTANTS Entries,   \* ids a suite can have
          Sizes,     \* the sizes a client may ask for
          MaxClock   \* bound: the last instant at which a suite is created

\* PaginationParams.MAX_SIZE
MaxSize == 100

ASSUME ListingAssumption ==
    /\ IsFiniteSet(Entries)
    /\ Sizes \subseteq 1 .. MaxSize
    /\ MaxClock \in Nat

VARIABLES clock,      \* func.now() of the database
          entry,      \* where the suite is
          createdAt,  \* its created_at
          place,      \* where the client is
          page, size, \* what it asked for last
          start,      \* the suites that were there when it began
          shown,      \* the suites it has been shown
          removed     \* one has been deleted since it began

tableVars == <<clock, entry, createdAt>>
walkVars == <<place, page, size, start, shown, removed>>
listingVars == <<tableVars, walkVars>>

EntryState == {"none",      \* not created
               "creating",  \* inserted by a transaction that has not committed
               "there",
               "deleted"}

Place == {"idle",     \* has not begun
          "asked",    \* waits for a page, whose rows are not read yet
          "counted",  \* the rows are read, they are not counted yet
          "done"}     \* it was told that there is no further page

ListingTypeOK ==
    /\ clock \in 0 .. MaxClock
    /\ entry \in [Entries -> EntryState]
    /\ createdAt \in [Entries -> 0 .. MaxClock]
    /\ place \in Place
    /\ page \in Nat \ {0}
    /\ size \in 1 .. MaxSize
    /\ start \subseteq Entries
    /\ shown \subseteq Entries
    /\ removed \in BOOLEAN

\* The rows a statement can see.
Listed == {i \in Entries : entry[i] = "there"}

ListingInit ==
    /\ clock = 0
    /\ entry = [i \in Entries |-> "none"]
    /\ createdAt = [i \in Entries |-> 0]
    /\ place = "idle"
    /\ page = 1
    /\ size = 1
    /\ start = {}
    /\ shown = {}
    /\ removed = FALSE

-----------------------------------------------------------------------------
(* The table.                                                              *)

Tick ==
    /\ clock < MaxClock
    /\ clock' = clock + 1
    /\ UNCHANGED <<entry, createdAt, walkVars>>

\* now() is the beginning of the transaction on PostgreSQL, and whole seconds on
\* SQLite: suites are not committed in the order of created_at, which is not unique.
Create(i) ==
    /\ entry[i] = "none"
    /\ entry' = [entry EXCEPT ![i] = "creating"]
    /\ createdAt' = [createdAt EXCEPT ![i] = clock]
    /\ UNCHANGED <<clock, walkVars>>

Commit(i) ==
    /\ entry[i] = "creating"
    /\ entry' = [entry EXCEPT ![i] = "there"]
    /\ UNCHANGED <<clock, createdAt, walkVars>>

Remove(i) ==
    /\ entry[i] = "there"
    /\ entry' = [entry EXCEPT ![i] = "deleted"]
    /\ removed' = (removed \/ place # "idle")
    /\ UNCHANGED <<clock, createdAt, place, page, size, start, shown>>

-----------------------------------------------------------------------------
(* The listing.                                                            *)

\* Mutant: pages are counted from 0.
OffsetFromZero(p, s) == p * s
Offset(p, s) == (p - 1) * s

\* Mutant: rounded down.
PageCountFloor(total, s) == total \div s
PageCount(total, s) == (total + s - 1) \div s

\* The first n rows in some order by created_at, newest first, or all of them when
\* there are fewer: among rows of one instant the database may choose, each time anew.
First(rows, n) ==
    /\ rows \subseteq Listed
    /\ \A i \in rows, j \in Listed \ rows : createdAt[j] <= createdAt[i]
    /\ Cardinality(rows) = n \/ (Cardinality(rows) < n /\ rows = Listed)

\* ORDER BY created_at DESC LIMIT s OFFSET Offset(p, s)
Window(rows, p, s) ==
    \E through \in SUBSET Listed : \E skipped \in SUBSET through :
        /\ First(skipped, Offset(p, s))
        /\ First(through, Offset(p, s) + s)
        /\ rows = through \ skipped

\* A client begins, for the first time or anew.
Ask(s) ==
    /\ place \in {"idle", "done"}
    /\ place' = "asked"
    /\ page' = 1
    /\ size' = s
    /\ start' = Listed
    /\ shown' = {}
    /\ removed' = FALSE
    /\ UNCHANGED tableVars

ReadRows ==
    /\ place = "asked"
    /\ \E rows \in SUBSET Listed : Window(rows, page, size) /\ shown' = shown \cup rows
    /\ place' = "counted"
    /\ UNCHANGED <<tableVars, page, size, start, removed>>

\* The answer tells the number of pages, and the client goes on to the last one.
Count ==
    /\ place = "counted"
    /\ \/ /\ page < PageCount(Cardinality(Listed), size)
          /\ page' = page + 1
          /\ place' = "asked"
       \/ /\ page >= PageCount(Cardinality(Listed), size)
          /\ place' = "done"
          /\ UNCHANGED page
    /\ UNCHANGED <<tableVars, size, start, shown, removed>>

ListingNext ==
    \/ Tick
    \/ \E i \in Entries : Create(i) \/ Commit(i) \/ Remove(i)
    \/ \E s \in Sizes : Ask(s)
    \/ ReadRows
    \/ Count

ListingSpec == ListingInit /\ [][ListingNext]_listingVars

-----------------------------------------------------------------------------
\* Another suite has the same created_at.
Tied(i) == \E j \in Listed : j # i /\ createdAt[j] = createdAt[i]

\* A client that has read all pages has been shown every suite that was there from
\* the start, although suites are created while it reads, unless one was deleted
\* meanwhile or the suite shares its created_at with another.
NothingMissed ==
    place = "done" /\ ~removed => \A i \in start : i \in shown \/ Tied(i)
=============================================================================
