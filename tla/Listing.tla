------------------------------- MODULE Listing -------------------------------
(***************************************************************************)
(* A list endpoint built from QueryParams (share/pagination/               *)
(* query_params.py) and FilterSet (share/sqlmodel/filter_set.py), and a    *)
(* client that walks its pages until one of them is not full, while rows   *)
(* come and go.                                                            *)
(*                                                                         *)
(* A request counts and selects in two statements of their own, each in a  *)
(* transaction of its own, so the table may change in between.  The        *)
(* database is external: LIMIT and OFFSET are taken of the rows in an      *)
(* order of the database's choice that respects ORDER BY; rows with equal  *)
(* keys may come in another order every time.                              *)
(***************************************************************************)
EXTENDS Naturals, Sequences, SequencesExt

CONSTANTS
    Rows,       \* every row there will be
    Times,      \* values of the ordering column
    States,     \* values of the column that is filtered
    Names,      \* values of the column that is searched
    Contents,   \* the columns the rows may have
    MaxLimit,   \* MAX_LIMIT
    Absent      \* a parameter that is not given

ASSUME ListingAssumption ==
    /\ MaxLimit \in Nat \ {0}
    /\ Times \subseteq Nat
    /\ Contents \subseteq [Rows -> [at : Times, state : States, name : Names]]

VARIABLES
    column,     \* the columns of the rows
    table,      \* the rows that are in the table
    gone,       \* the rows that were deleted
    params,     \* the query parameters of the walk
    page,       \* the page that is asked for next
    phase,      \* "count" or "select", the next statement, or "over"
    count,      \* what the last count statement answered
    got,        \* the rows the client has received, in order
    start,      \* history: the rows that were in the table when the walk began
    inserted,   \* history: rows came in since then
    deleted     \* history: rows went since then

vars == <<column, table, gone, params, page, phase, count, got, start, inserted, deleted>>

\* A search is the set of names it matches; a filter with one value is a list of one, and an empty
\* list matches nothing.
Params == [limit    : 1 .. MaxLimit,
           filter   : {Absent} \cup SUBSET States,
           search   : {Absent} \cup (SUBSET Names \ {{}}),
           ordering : {Absent, "at", "-at"}]

TypeOK ==
    /\ column \in Contents
    /\ table \subseteq Rows /\ gone \subseteq Rows \ table
    /\ params \in Params
    /\ page \in Nat \ {0}
    /\ phase \in {"over", "count", "select"}
    /\ count \in Nat
    /\ got \in Seq(Rows)
    /\ start \subseteq Rows
    /\ inserted \in BOOLEAN /\ deleted \in BOOLEAN

Init ==
    /\ column \in Contents
    /\ table \in SUBSET Rows /\ IsFiniteSet(table)
    /\ gone = {}
    /\ params \in Params /\ page = 1 /\ phase = "count" /\ count = 0
    /\ got = <<>> /\ start = table /\ inserted = FALSE /\ deleted = FALSE

\* Mutant: the first page is page 0.
OffsetFromZero == page * params.limit

\* Mutant: one row of every page comes again on the next.
OffsetOverlaps == (page - 1) * (params.limit - 1)

Offset == (page - 1) * params.limit

Given(parameter) == parameter # Absent

Filtered(rows) == {r \in rows : Given(params.filter) => column[r].state \in params.filter}

Searched(rows) == {r \in rows : Given(params.search) => column[r].name \in params.search}

Selected(rows) == Searched(Filtered(rows))

\* r may come before s.
Before(r, s) ==
    CASE params.ordering = "at"   -> column[r].at <= column[s].at
      [] params.ordering = "-at"  -> column[r].at >= column[s].at
      [] OTHER                    -> TRUE

\* The orders in which the database may deliver some rows.
Orders(rows) ==
    {order \in SetToSeqs(rows) : \A i \in DOMAIN order : \A j \in 1 .. i : Before(order[j], order[i])}

PageOf(order) ==
    SubSeq(order, Offset + 1, IF Offset + params.limit < Len(order) THEN Offset + params.limit ELSE Len(order))

\* Mutant: the range is taken before the filters.
PagesThenFilter == {SelectSeq(PageOf(order), LAMBDA r : r \in Selected(table)) : order \in Orders(table)}

\* What select() may answer.
Pages == {PageOf(order) : order \in Orders(Selected(table))}
-----------------------------------------------------------------------------
\* The count() statement of a request.
Count ==
    /\ phase = "count"
    /\ phase' = "select"
    /\ count' = Cardinality(Selected(table))
    /\ UNCHANGED <<column, table, gone, params, page, got, start, inserted, deleted>>

\* The select() statement, and the client's next request unless the page is not full.
Select ==
    /\ phase = "select"
    /\ \E items \in Pages :
          /\ got' = got \o items
          /\ phase' = IF Len(items) < params.limit THEN "over" ELSE "count"
    /\ page' = page + 1
    /\ UNCHANGED <<column, table, gone, params, count, start, inserted, deleted>>

Insert(r) ==
    /\ r \notin table \cup gone
    /\ table' = table \cup {r}
    /\ inserted' = TRUE
    /\ UNCHANGED <<column, gone, params, page, phase, count, got, start, deleted>>

Delete(r) ==
    /\ r \in table
    /\ table' = table \ {r}
    /\ gone' = gone \cup {r}
    /\ deleted' = TRUE
    /\ UNCHANGED <<column, params, page, phase, count, got, start, inserted>>

Next == Count \/ Select \/ \E r \in Rows : Insert(r) \/ Delete(r)

Spec == Init /\ [][Next]_vars
-----------------------------------------------------------------------------
\* The walk is over and its order is determined.
WalkedInOrder ==
    /\ phase = "over"
    /\ Given(params.ordering)
    /\ \A r, s \in table \cup gone : column[r].at = column[s].at => r = s

Received == ToSet(got)

(***************************************************************************)
(* While the table does not change, the pages partition the selected rows: *)
(* a client that walks them gets each one once, in order, and as many as   *)
(* the count says (query_params.py:68-70, filter_set.py:49-64).            *)
(***************************************************************************)
PagesPartition ==
    (WalkedInOrder /\ ~inserted /\ ~deleted) =>
        /\ got \in Orders(Selected(table))
        /\ count = Len(got)

(***************************************************************************)
(* Rows that come in during the walk may repeat others, and hide none that *)
(* was there all along (filter_set.py:49-50).                              *)
(***************************************************************************)
InsertsHideNothing == (WalkedInOrder /\ ~deleted) => Selected(start) \subseteq Received

(***************************************************************************)
(* Rows that go during the walk may hide others, and repeat none           *)
(* (filter_set.py:49-50).                                                  *)
(***************************************************************************)
DeletesRepeatNothing == (WalkedInOrder /\ ~inserted) => IsInjective(got)
=============================================================================
