------------------------------- MODULE Paging -------------------------------
(***************************************************************************)
(* The cursor pages of ListFeatures and GetPropertyList: the rows above    *)
(* the cursor in the order of their ids, at most limit of them, and a next *)
(* cursor as long as the page is full.  Ids are numbers in the order the   *)
(* database sorts them; 0, below every id, is the empty cursor.            *)
(***************************************************************************)
EXTENDS Integers, FiniteSets

DefaultLimit == 25

PageSize(limit) == IF limit <= 0 THEN DefaultLimit ELSE limit

\* The cursor itself was on the page before.
AtOrAbove(rows, cursor) == {x \in rows : x >= cursor}               \* mutant
Above(rows, cursor)     == {x \in rows : x > cursor}

\* A full page may have a successor; its last id is the next cursor.
Full(page, limit) == Cardinality(page) = limit

\* page is ... WHERE id > cursor ORDER BY id ASC LIMIT limit.
IsPage(page, rows, cursor, limit) ==
    /\ page \subseteq Above(rows, cursor)
    /\ \A x \in page, y \in Above(rows, cursor) \ page : x < y
    /\ \/ Full(page, limit)
       \/ Cardinality(page) < limit /\ page = Above(rows, cursor)

IsLast(x, page) == x \in page /\ \A y \in page : y <= x
=============================================================================
