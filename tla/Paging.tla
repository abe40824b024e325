-------------------------------- MODULE Paging --------------------------------
(***************************************************************************)
(* api/pagination.py with its two users, list_traces and list_alerts: a    *)
(* reader walks down a list, page by page, newest first, while rows are    *)
(* added, deleted by the purge and, in the list of alerts, raised again.   *)
(* A row is its time and its id; the cursor keeps both to the microsecond. *)
(***************************************************************************)
EXTENDS Integers, Sequences, FiniteSets, Functions

CONSTANTS
    RowIds,      \* primary keys, in their order
    Times,       \* bound: the clock
    PageSizes    \* the sizes that clamp_limit lets through

ASSUME PagingAssumption ==
    /\ RowIds \subseteq Nat /\ IsFiniteSet(RowIds)
    /\ Times \subseteq Nat /\ IsFiniteSet(Times) /\ Times # {}
    /\ PageSizes \subseteq Nat \ {0}

VARIABLES
    table,      \* the rows: id -> created_at
    limit,      \* the page size of this walk
    cursor,     \* next_cursor: the last row of the page before, <<>> at the start
    walked,     \* the ids the reader was shown, in order
    over,       \* has_more was false
    steady,     \* history: rows that were there when the walk began, and were left alone since
    sunk        \* history: rows that were raised again with an earlier time than they had

pages == <<table, limit, cursor, walked, over, steady, sunk>>

PagingInit ==
    /\ \E S \in SUBSET RowIds : table \in [S -> Times]
    /\ limit \in PageSizes
    /\ cursor = <<>> /\ walked = <<>> /\ over = FALSE
    /\ steady = DOMAIN table
    /\ sunk = {}

Key(i) == <<table[i], i>>
Less(k, l) == k[1] < l[1] \/ (k[1] = l[1] /\ k[2] < l[2])

\* Mutant of Below: the tie is not broken.
BelowTime(i) == cursor = <<>> \/ table[i] < cursor[1]

Below(i) == cursor = <<>> \/ Less(Key(i), cursor)

\* ORDER BY created_at DESC, id DESC LIMIT limit + 1: the n-th row has n - 1 above it.
Fetched ==
    LET rows == {i \in DOMAIN table : Below(i)}
        count == IF Cardinality(rows) > limit THEN limit + 1 ELSE Cardinality(rows)
    IN  [n \in 1..count |->
            CHOOSE i \in rows : Cardinality({j \in rows : Less(Key(i), Key(j))}) = n - 1]

\* build_page: the row too many tells that there is more.
NextPage ==
    /\ ~over
    /\ LET more == Len(Fetched) > limit
           page == IF more THEN SubSeq(Fetched, 1, limit) ELSE Fetched
       IN  /\ walked' = walked \o page
           /\ over' = ~more
           /\ cursor' = IF more THEN Key(page[limit]) ELSE cursor
    /\ UNCHANGED <<table, limit, steady, sunk>>

\* A row is added: its time was taken before it was committed. An id is not used again.
AddRow(i, t) ==
    /\ i \notin DOMAIN table \cup Range(walked)
    /\ table' = [j \in DOMAIN table \cup {i} |-> IF j = i THEN t ELSE table[j]]
    /\ UNCHANGED <<limit, cursor, walked, over, steady, sunk>>

\* The purge deletes it, or it no longer matches the filter: an open alert is resolved.
DeleteRow(i) ==
    /\ table' = [j \in DOMAIN table \ {i} |-> table[j]]
    /\ steady' = steady \ {i}
    /\ UNCHANGED <<limit, cursor, walked, over, sunk>>

\* raise_alert on a row that exists: created_at is among what it updates, and is set to a
\* time that was read before the row could be locked. Of two that raise it, the one that
\* read the clock first may be the last to write.
RaiseAgain(i, t) ==
    /\ table' = [table EXCEPT ![i] = t]
    /\ steady' = steady \ {i}
    /\ sunk' = IF t < table[i] THEN sunk \cup {i} ELSE sunk
    /\ UNCHANGED <<limit, cursor, walked, over>>

PagingNext ==
    \/ NextPage
    \/ \E i \in RowIds, t \in Times : AddRow(i, t)
    \/ \E i \in DOMAIN table : DeleteRow(i) \/ \E t \in Times : RaiseAgain(i, t)

PagingSpec == PagingInit /\ [][PagingNext]_pages

-------------------------------------------------------------------------------
(* A reader who walks to the end is shown every row that was there from the start and was  *)
(* left alone, and no row twice, however many rows are added, deleted or raised again      *)
(* between two pages (pagination.py:3-12), but for one whose time went back: a row that is *)
(* raised again with a later time moves above the cursor, where it may be missed, one with *)
(* an earlier time may sink below it and be shown again. A deleted one does not come back. *)
EachOnce ==
    /\ \A i, j \in DOMAIN walked : walked[i] = walked[j] => i = j \/ walked[i] \in sunk
    /\ over => \A i \in steady : \E k \in DOMAIN walked : walked[k] = i
==============================================================================
