----------------------------- MODULE ImageTable -----------------------------
(***************************************************************************)
(* The property_images table of the listing service: its rows, the         *)
(* questions the service asks of it, and the rule a gallery obeys.  A row  *)
(* keeps what the gallery rule depends on (parent listing, is_main,        *)
(* position); url and the timestamps are abstracted away.                  *)
(***************************************************************************)
EXTENDS Integers, FiniteSets

CONSTANTS Properties,          \* listing ids
          Images,              \* image ids gen_random_uuid() may produce
          Positions,           \* values of the position column
          NoRow,               \* the table holds no row with this id
          maxPropertyImages    \* 5 in the code

Row == [property : Properties, is_main : BOOLEAN, position : Positions]

ASSUME ImageTableAssumption ==
    /\ Positions \subseteq Int
    /\ maxPropertyImages \in Nat \ {0}
    /\ NoRow \notin Row

Tables == [Images -> Row \cup {NoRow}]

ImagesOf(table, p) == {i \in Images : table[i] # NoRow /\ table[i].property = p}

Mains(table, p) == {i \in ImagesOf(table, p) : table[i].is_main}

\* The rows ORDER BY position ASC puts first; among equal positions the
\* earliest created_at wins, which this model leaves open.
Lowest(table, S) == {i \in S : \A j \in S : table[i].position <= table[j].position}

Demoted(row)  == [row EXCEPT !.is_main = FALSE]
Promoted(row) == [row EXCEPT !.is_main = TRUE]

-----------------------------------------------------------------------------
(***************************************************************************)
(* What each operation makes of the table.                                 *)
(***************************************************************************)
NewRow(p, is_main, position) ==
    [property |-> p, is_main |-> is_main, position |-> position]

\* Image i joins gallery p; a new main image takes the place of the current one.
Added(table, p, i, is_main, position) ==
    [j \in Images |->
        IF j = i THEN NewRow(p, is_main, position)
        ELSE IF is_main /\ j \in Mains(table, p) THEN Demoted(table[j])
        ELSE table[j]]

\* Image i leaves.
Removed(table, i) == [j \in Images |-> IF j = i THEN NoRow ELSE table[j]]

\* Image i leaves and s succeeds it as the main image.
Succeeded(table, i, s) ==
    [j \in Images |->
        IF j = i THEN NoRow ELSE IF j = s THEN Promoted(table[j]) ELSE table[j]]

-----------------------------------------------------------------------------
(***************************************************************************)
(* A gallery is well formed when it is within its limit and has exactly    *)
(* one main image unless it is empty.                                      *)
(***************************************************************************)
WithinLimit(table, p) ==
    /\ IsFiniteSet(ImagesOf(table, p))
    /\ Cardinality(ImagesOf(table, p)) <= maxPropertyImages

OneMain(table, p) ==
    ImagesOf(table, p) # {} => \E m \in Images : Mains(table, p) = {m}

WellFormed(table) == \A p \in Properties : WithinLimit(table, p) /\ OneMain(table, p)
=============================================================================
