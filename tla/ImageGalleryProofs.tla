------------------------- MODULE ImageGalleryProofs -------------------------
(***************************************************************************)
(* The atomic operations keep every gallery well formed.                   *)
(***************************************************************************)
EXTENDS ImageGallery, ImageTableProofs

Inv == TypeOK /\ GalleryOK

LEMMA InitInv == Init => Inv
<1> SUFFICES ASSUME Init PROVE Inv
  OBVIOUS
<1>1. TypeOK
  BY DEF Init, TypeOK, Tables
<1>2. ASSUME NEW p \in Properties PROVE ImagesOf(images, p) = {}
  BY DEF Init, ImagesOf
<1>3. IsFiniteSet({}) /\ Cardinality({}) = 0
  BY FS_EmptySet
<1>4. 0 <= maxPropertyImages
  BY ImageTableAssumption
<1>5. GalleryOK
  BY <1>2, <1>3, <1>4 DEF GalleryOK, WellFormed, WithinLimit, OneMain
<1> QED BY <1>1, <1>5 DEF Inv

LEMMA NextInv == Inv /\ [Next]_vars => Inv'
<1> SUFFICES ASSUME Inv, [Next]_vars PROVE Inv'
  OBVIOUS
<1> USE DEF Inv, TypeOK, GalleryOK
<1>1. ASSUME NEW p \in Properties, NEW i \in Images, NEW is_main \in BOOLEAN,
             NEW position \in Positions, AddImage(p, i, is_main, position)
      PROVE  Inv'
  <2> DEFINE main == is_main \/ ImagesOf(images, p) = {}
  <2>1. main \in BOOLEAN
    OBVIOUS
  <2>2. images' = Added(images, p, i, main, position) /\ live' = live
    BY <1>1 DEF AddImage
  <2>3. images' \in Tables
    BY <2>1, <2>2, AddedType
  <2>4. WellFormed(images')
    BY <1>1, <2>1, <2>2, AddedWellFormed DEF AddImage
  <2> QED BY <2>2, <2>3, <2>4
<1>2. ASSUME NEW p \in Properties, NEW i \in Images, RemovePlain(p, i)
      PROVE  Inv'
  <2>1. images' = Removed(images, i) /\ live' = live
    BY <1>2 DEF RemovePlain
  <2>2. images' \in Tables
    BY <2>1, RemovedType
  <2>3. WellFormed(images')
    BY <1>2, <2>1, RemovedWellFormed DEF RemovePlain
  <2> QED BY <2>1, <2>2, <2>3
<1>3. ASSUME NEW p \in Properties, NEW i \in Images, NEW s \in Images, RemoveMain(p, i, s)
      PROVE  Inv'
  <2>1. images' = Succeeded(images, i, s) /\ live' = live
    BY <1>3 DEF RemoveMain
  <2>2. i \in Mains(images, p) /\ s \in ImagesOf(images, p) \ {i}
    BY <1>3 DEF RemoveMain, Lowest
  <2>3. images' \in Tables
    BY <2>1, <2>2, SucceededType DEF ImagesOf
  <2>4. WellFormed(images')
    BY <2>1, <2>2, SucceededWellFormed
  <2> QED BY <2>1, <2>3, <2>4
<1>4. ASSUME NEW p \in Properties, SoftDelete(p) PROVE Inv'
  BY <1>4 DEF SoftDelete
<1>5. ASSUME NEW p \in Properties, Restore(p) PROVE Inv'
  BY <1>5 DEF Restore
<1>6. CASE UNCHANGED vars
  BY <1>6 DEF vars
<1> QED BY <1>1, <1>2, <1>3, <1>4, <1>5, <1>6 DEF Next

\* The atomic image operations keep every gallery within its limit, with
\* exactly one main image unless it is empty.
THEOREM AbstractGalleryOK == Spec => []GalleryOK
<1>1. Inv => GalleryOK
  BY DEF Inv
<1> QED BY <1>1, InitInv, NextInv, PTL DEF Spec
=============================================================================
