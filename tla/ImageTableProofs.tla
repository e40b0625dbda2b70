-------------------------- MODULE ImageTableProofs --------------------------
(***************************************************************************)
(* Each operation on the image table keeps every gallery well formed.      *)
(***************************************************************************)
EXTENDS ImageTable, FiniteSetTheorems, TLAPS

\* What promoting or demoting a row keeps, and that a row is not NoRow.
LEMMA RowFacts ==
    ASSUME NEW t \in Tables, NEW j \in Images, t[j] # NoRow
    PROVE  /\ t[j] \in Row
           /\ Demoted(t[j]) \in Row /\ Demoted(t[j]) # NoRow
           /\ Demoted(t[j]).property = t[j].property
           /\ Demoted(t[j]).is_main = FALSE
           /\ Promoted(t[j]) \in Row /\ Promoted(t[j]) # NoRow
           /\ Promoted(t[j]).property = t[j].property
           /\ Promoted(t[j]).is_main = TRUE
<1>1. t[j] \in Row
  BY DEF Tables
<1>2. Demoted(t[j]) \in Row /\ Promoted(t[j]) \in Row
  BY <1>1 DEF Row, Demoted, Promoted
<1> QED BY <1>1, <1>2, ImageTableAssumption DEF Row, Demoted, Promoted

LEMMA NewRowFacts ==
    ASSUME NEW p \in Properties, NEW main \in BOOLEAN, NEW pos \in Positions
    PROVE  /\ NewRow(p, main, pos) \in Row
           /\ NewRow(p, main, pos) # NoRow
           /\ NewRow(p, main, pos).property = p
           /\ NewRow(p, main, pos).is_main = main
<1>1. NewRow(p, main, pos) \in Row
  BY DEF Row, NewRow
<1> QED BY <1>1, ImageTableAssumption DEF NewRow

LEMMA AddedType ==
    ASSUME NEW t \in Tables, NEW p \in Properties, NEW i \in Images,
           NEW main \in BOOLEAN, NEW pos \in Positions
    PROVE  Added(t, p, i, main, pos) \in Tables
  BY RowFacts, NewRowFacts DEF Tables, Added, Mains, ImagesOf

LEMMA AddedWellFormed ==
    ASSUME NEW t \in Tables, NEW p \in Properties, NEW i \in Images,
           NEW main \in BOOLEAN, NEW pos \in Positions,
           WellFormed(t), t[i] = NoRow,
           Cardinality(ImagesOf(t, p)) < maxPropertyImages,
           ImagesOf(t, p) = {} => main
    PROVE  WellFormed(Added(t, p, i, main, pos))
<1> DEFINE u == Added(t, p, i, main, pos)
<1>1. u \in Tables
  BY AddedType
<1>2. ASSUME NEW j \in Images
      PROVE  /\ u[j] # NoRow <=> t[j] # NoRow \/ j = i
             /\ u[j] # NoRow => u[j].property = IF j = i THEN p ELSE t[j].property
             /\ u[j] # NoRow => u[j].is_main = IF j = i THEN main
                                 ELSE t[j].is_main /\ ~(main /\ j \in Mains(t, p))
  <2>1. u[j] = IF j = i THEN NewRow(p, main, pos)
               ELSE IF main /\ j \in Mains(t, p) THEN Demoted(t[j])
               ELSE t[j]
    BY DEF Added
  <2>2. t[j] # NoRow => t[j].is_main \in BOOLEAN
    BY RowFacts DEF Row
  <2>3. CASE j = i
    BY <2>1, <2>3, NewRowFacts
  <2>4. CASE j # i /\ main /\ j \in Mains(t, p)
    <3>1. t[j] # NoRow
      BY <2>4 DEF Mains, ImagesOf
    <3> QED BY <2>1, <2>4, <3>1, RowFacts
  <2>5. CASE j # i /\ ~(main /\ j \in Mains(t, p))
    <3>1. u[j] = t[j]
      BY <2>1, <2>5
    <3> QED BY <2>2, <2>5, <3>1
  <2> QED BY <2>3, <2>4, <2>5
<1> HIDE DEF u
<1>3. ImagesOf(u, p) = ImagesOf(t, p) \cup {i} /\ i \notin ImagesOf(t, p)
  BY <1>2 DEF ImagesOf
<1>4. Mains(u, p) = IF main THEN {i} ELSE Mains(t, p)
  <2>1. \A j \in Images : j \in Mains(u, p) <=>
            \/ j = i /\ main
            \/ j # i /\ j \in Mains(t, p) /\ ~main
    BY <1>2, <1>3 DEF Mains, ImagesOf
  <2>2. Mains(u, p) \subseteq Images /\ Mains(t, p) \subseteq Images
    BY DEF Mains, ImagesOf
  <2>3. i \notin Mains(t, p)
    BY <1>3 DEF Mains
  <2> QED BY <2>1, <2>2, <2>3
<1>5. WithinLimit(u, p)
  <2>1. IsFiniteSet(ImagesOf(t, p))
    BY DEF WellFormed, WithinLimit
  <2>2. /\ Cardinality(ImagesOf(u, p)) = Cardinality(ImagesOf(t, p)) + 1
        /\ IsFiniteSet(ImagesOf(u, p))
    BY <1>3, <2>1, FS_AddElement
  <2>3. Cardinality(ImagesOf(t, p)) \in Nat
    BY <2>1, FS_CardinalityType
  <2>4. maxPropertyImages \in Nat
    BY ImageTableAssumption
  <2> QED BY <2>2, <2>3, <2>4 DEF WithinLimit
<1>6. OneMain(u, p)
  <2>1. CASE main
    BY <1>4, <2>1 DEF OneMain
  <2>2. CASE ~main
    <3>1. PICK m \in Images : Mains(t, p) = {m}
      BY <2>2 DEF WellFormed, OneMain
    <3> QED BY <1>4, <2>2, <3>1 DEF OneMain
  <2> QED BY <2>1, <2>2
<1>7. ASSUME NEW q \in Properties, q # p
      PROVE  WithinLimit(u, q) /\ OneMain(u, q)
  <2>1. ImagesOf(u, q) = ImagesOf(t, q)
    BY <1>2, <1>7 DEF ImagesOf
  <2>2. \A j \in ImagesOf(t, q) : j # i /\ j \notin Mains(t, p) /\ u[j] # NoRow
    BY <1>2, <1>7 DEF ImagesOf, Mains
  <2>3. \A j \in ImagesOf(t, q) : t[j].is_main \in BOOLEAN
    BY RowFacts DEF ImagesOf, Row
  <2>4. \A j \in ImagesOf(t, q) : u[j].is_main = t[j].is_main
    BY <1>2, <2>2, <2>3 DEF ImagesOf
  <2>5. Mains(u, q) = Mains(t, q)
    BY <2>1, <2>4 DEF Mains
  <2> QED BY <2>1, <2>5 DEF WellFormed, WithinLimit, OneMain
<1> QED BY <1>5, <1>6, <1>7 DEF u, WellFormed

LEMMA RemovedType ==
    ASSUME NEW t \in Tables, NEW i \in Images
    PROVE  Removed(t, i) \in Tables
  BY DEF Tables, Removed

LEMMA RemovedWellFormed ==
    ASSUME NEW t \in Tables, NEW p \in Properties, NEW i \in ImagesOf(t, p),
           WellFormed(t), i \in Mains(t, p) => ImagesOf(t, p) = {i}
    PROVE  WellFormed(Removed(t, i))
<1> DEFINE u == Removed(t, i)
<1>1. i \in Images /\ t[i].property = p
  BY DEF ImagesOf
<1>2. \A j \in Images : u[j] = IF j = i THEN NoRow ELSE t[j]
  BY DEF Removed
<1> HIDE DEF u
<1>3. \A q \in Properties : ImagesOf(u, q) = ImagesOf(t, q) \ {i}
  BY <1>2 DEF ImagesOf
<1>4. \A q \in Properties : Mains(u, q) = Mains(t, q) \ {i}
  BY <1>2, <1>3 DEF Mains, ImagesOf
<1>5. ASSUME NEW q \in Properties
      PROVE  WithinLimit(u, q)
  <2>1. /\ IsFiniteSet(ImagesOf(t, q))
        /\ Cardinality(ImagesOf(t, q)) <= maxPropertyImages
    BY DEF WellFormed, WithinLimit
  <2>2. /\ IsFiniteSet(ImagesOf(u, q))
        /\ Cardinality(ImagesOf(u, q)) <= Cardinality(ImagesOf(t, q))
    BY <1>3, <2>1, FS_Subset
  <2>3. /\ Cardinality(ImagesOf(t, q)) \in Nat
        /\ Cardinality(ImagesOf(u, q)) \in Nat
        /\ maxPropertyImages \in Nat
    BY <2>1, <2>2, FS_CardinalityType, ImageTableAssumption
  <2> QED BY <2>1, <2>2, <2>3 DEF WithinLimit
<1>6. ASSUME NEW q \in Properties
      PROVE  OneMain(u, q)
  <2>1. SUFFICES ASSUME ImagesOf(u, q) # {}
                 PROVE  \E m \in Images : Mains(u, q) = {m}
    BY DEF OneMain
  <2>2. PICK m \in Images : Mains(t, q) = {m}
    BY <1>3, <2>1 DEF WellFormed, OneMain
  <2>3. m # i
    BY <1>1, <1>3, <2>1, <2>2 DEF Mains, ImagesOf
  <2> QED BY <1>4, <2>2, <2>3
<1> QED BY <1>5, <1>6 DEF u, WellFormed

LEMMA SucceededType ==
    ASSUME NEW t \in Tables, NEW i \in Images, NEW s \in Images, t[s] # NoRow
    PROVE  Succeeded(t, i, s) \in Tables
  BY RowFacts DEF Tables, Succeeded

LEMMA SucceededWellFormed ==
    ASSUME NEW t \in Tables, NEW p \in Properties, NEW i \in Mains(t, p),
           NEW s \in ImagesOf(t, p) \ {i}, WellFormed(t)
    PROVE  WellFormed(Succeeded(t, i, s))
<1> DEFINE u == Succeeded(t, i, s)
<1>1. i \in ImagesOf(t, p) /\ i \in Images /\ s \in Images /\ s # i
  BY DEF Mains, ImagesOf
<1>2. t[i] # NoRow /\ t[s] # NoRow /\ t[i].property = p /\ t[s].property = p
  BY <1>1 DEF ImagesOf
<1>3. \A j \in Images : u[j] = IF j = i THEN NoRow
                               ELSE IF j = s THEN Promoted(t[j]) ELSE t[j]
  BY DEF Succeeded
<1>4. /\ u[s] # NoRow /\ u[s].property = p /\ u[s].is_main = TRUE
      /\ u[i] = NoRow
      /\ \A j \in Images \ {i, s} : u[j] = t[j]
  BY <1>1, <1>2, <1>3, RowFacts
<1> HIDE DEF u
<1>5. \A q \in Properties : ImagesOf(u, q) = ImagesOf(t, q) \ {i}
  BY <1>1, <1>2, <1>4 DEF ImagesOf
<1>6. ASSUME NEW q \in Properties
      PROVE  WithinLimit(u, q)
  <2>1. /\ IsFiniteSet(ImagesOf(t, q))
        /\ Cardinality(ImagesOf(t, q)) <= maxPropertyImages
    BY DEF WellFormed, WithinLimit
  <2>2. /\ IsFiniteSet(ImagesOf(u, q))
        /\ Cardinality(ImagesOf(u, q)) <= Cardinality(ImagesOf(t, q))
    BY <1>5, <2>1, FS_Subset
  <2>3. /\ Cardinality(ImagesOf(t, q)) \in Nat
        /\ Cardinality(ImagesOf(u, q)) \in Nat
        /\ maxPropertyImages \in Nat
    BY <2>1, <2>2, FS_CardinalityType, ImageTableAssumption
  <2> QED BY <2>1, <2>2, <2>3 DEF WithinLimit
<1>7. OneMain(u, p)
  <2>1. PICK m \in Images : Mains(t, p) = {m}
    BY <1>1 DEF WellFormed, OneMain
  <2>2. Mains(t, p) = {i}
    BY <2>1
  <2>3. Mains(u, p) = {s}
    BY <1>1, <1>2, <1>4, <1>5, <2>2 DEF Mains, ImagesOf
  <2> QED BY <1>1, <2>3 DEF OneMain
<1>8. ASSUME NEW q \in Properties, q # p
      PROVE  OneMain(u, q)
  <2>1. ImagesOf(u, q) = ImagesOf(t, q)
    BY <1>2, <1>5, <1>8 DEF ImagesOf
  <2>2. \A j \in ImagesOf(t, q) : u[j] = t[j]
    BY <1>2, <1>4, <1>8 DEF ImagesOf
  <2>3. Mains(u, q) = Mains(t, q)
    BY <2>1, <2>2 DEF Mains
  <2> QED BY <2>1, <2>3 DEF WellFormed, OneMain
<1> QED BY <1>6, <1>7, <1>8 DEF u, WellFormed
=============================================================================
