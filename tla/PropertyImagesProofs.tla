------------------------ MODULE PropertyImagesProofs ------------------------
(***************************************************************************)
(* IInv is an invariant of the transactions, and with it they implement    *)
(* the atomic operations of ImageGallery.                                  *)
(***************************************************************************)
EXTENDS PropertyImages, ImageTableProofs

-----------------------------------------------------------------------------
(***************************************************************************)
(* Why the galleries stay well formed, as an inductive invariant: the      *)
(* holder of a row lock is the one request inside a transaction on that    *)
(* listing, so what it has read is still what the table holds, and its     *)
(* uncommitted writes are exactly the ones its next statements rely on.    *)
(***************************************************************************)
LockInv ==
    /\ \A r \in Requests :
           pc[r] # "idle" => req[r] \in Req
    /\ \A r \in Requests :
           pc[r] \in InTx =>
               /\ lock[req[r].property] = r
               /\ req[r].property \in live
               /\ Owner[req[r].property] = req[r].caller
    /\ \A p \in Properties :
           lock[p] # None => pc[lock[p]] \in InTx /\ req[lock[p]].property = p

\* What a new image with arguments q still needs of the table: room, and to be
\* main if it is the first.
Room(table, q) ==
    /\ Cardinality(ImagesOf(table, q.property)) < maxPropertyImages
    /\ ImagesOf(table, q.property) = {} => q.is_main

DemoteWrites(table, q) ==
    [i \in Images |-> IF q.is_main /\ i \in Mains(table, q.property)
                      THEN Demoted(table[i]) ELSE Same]

AddWrites(table, q) ==
    [i \in Images |-> IF i = q.image THEN NewRow(q.property, q.is_main, q.position)
                      ELSE DemoteWrites(table, q)[i]]

RemoveWrites(q) == [i \in Images |-> IF i = q.image THEN NoRow ELSE Same]

SucceedWrites(table, q) ==
    [i \in Images |-> IF i = q.image THEN NoRow
                      ELSE IF i = q.survivor THEN Promoted(table[i]) ELSE Same]

InGallery(table, q) ==
    /\ q.image \in ImagesOf(table, q.property)
    /\ q.is_main = table[q.image].is_main

Successor(table, q) ==
    q.survivor \in Lowest(table, ImagesOf(table, q.property) \ {q.image})

AddReady(table, q, w) ==
    /\ q.image \in Images /\ table[q.image] = NoRow
    /\ q.position \in Positions
    /\ Room(table, q)
    /\ w = AddWrites(table, q)

RemoveReady(table, q, w) ==
    /\ InGallery(table, q)
    /\ q.is_main => ImagesOf(table, q.property) = {q.image}
    /\ w = RemoveWrites(q)

SucceedReady(table, q, w) ==
    /\ InGallery(table, q) /\ q.is_main
    /\ Successor(table, q)
    /\ w = SucceedWrites(table, q)

TxInv(table, label, q, w) ==
    /\ label \in {"idle", "lock", "count", "fetch", "committed", "done"} => w = Clean
    /\ label = "lock"   => (q.op = "add" => q.position \in Positions)
    /\ label = "count"  => q.position \in Positions
    /\ label = "demote" =>
           q.position \in Positions /\ q.is_main /\ Room(table, q) /\ w = Clean
    /\ label = "insert" =>
           q.position \in Positions /\ Room(table, q) /\ w = DemoteWrites(table, q)
    /\ label = "delete"   => InGallery(table, q) /\ w = Clean
    /\ label = "survivor" => InGallery(table, q) /\ q.is_main /\ w = RemoveWrites(q)
    /\ label = "promote"  =>
           InGallery(table, q) /\ q.is_main /\ Successor(table, q) /\ w = RemoveWrites(q)
    /\ label = "commit" =>
           \/ AddReady(table, q, w)
           \/ RemoveReady(table, q, w)
           \/ SucceedReady(table, q, w)

\* No two transactions have written the same row.
DisjointWrites ==
    \A r, q \in Requests : r # q =>
        \A i \in Images : writes[r][i] = Same \/ writes[q][i] = Same

IInv ==
    /\ TypeOK
    /\ GalleryOK
    /\ LockInv
    /\ \A r \in Requests : TxInv(images, pc[r], req[r], writes[r])
    /\ DisjointWrites
-----------------------------------------------------------------------------
USE DEF LockInv, Own, verifyOwner

\* The requests a transaction step leaves alone keep what IInv says of them,
\* so such a step need only account for its own request.
LEMMA OwnStep ==
    ASSUME IInv, NEW r \in Requests,
           UNCHANGED images, TypeOK', LockInv',
           \A q \in Requests \ {r} :
               pc'[q] = pc[q] /\ req'[q] = req[q] /\ writes'[q] = writes[q],
           TxInv(images, pc'[r], req'[r], writes'[r]),
           \A q \in Requests \ {r}, i \in Images :
               writes'[r][i] = Same \/ writes[q][i] = Same
    PROVE  IInv'
<1>1. GalleryOK'
  BY DEF IInv, GalleryOK
<1>2. \A q \in Requests : TxInv(images', pc'[q], req'[q], writes'[q])
  BY DEF IInv
<1>3. DisjointWrites'
  BY DEF IInv, DisjointWrites
<1> QED BY <1>1, <1>2, <1>3 DEF IInv

\* With nothing written the transaction reads the committed table.
LEMMA CleanView ==
    ASSUME TypeOK, NEW r \in Requests, writes[r] = Clean
    PROVE  View(r) = images
  BY DEF TypeOK, View, Overlay, Clean, Tables

LEMMA AbortInv ==
    ASSUME IInv, NEW r \in Requests, pc[r] # "idle", NEW err, Abort(r, err)
    PROVE  IInv'
<1> USE DEF Abort, Goto, IInv
<1>1. CodeOf(err) \in Codes
  BY DEF CodeOf, Codes
<1>2. Clean \in [Images -> Row \cup {NoRow, Same}]
  BY DEF Clean
<1>3. Unlocked(r) \in [Properties -> Requests \cup {None}]
  BY DEF Unlocked, TypeOK
<1>4. TypeOK'
  BY <1>1, <1>2, <1>3 DEF TypeOK, PC
<1>5. LockInv'
  <2>1. \A p \in Properties : lock'[p] = IF lock[p] = r THEN None ELSE lock[p]
    BY DEF Unlocked
  <2>2. \A q \in Requests : pc'[q] = IF q = r THEN "done" ELSE pc[q]
    BY DEF TypeOK
  <2>3. None \notin Requests
    BY PropertyImagesAssumption
  <2>4. \A q \in Requests : pc[q] \in InTx => req[q].property \in Properties
    BY DEF InTx, Req
  <2> QED BY <2>1, <2>2, <2>3, <2>4 DEF TypeOK, InTx
<1>6. TxInv(images, pc'[r], req'[r], writes'[r])
  BY DEF TypeOK, TxInv
<1>7. \A i \in Images : writes'[r][i] = Same
  BY DEF TypeOK, Clean
<1>8. \A q \in Requests \ {r} :
          pc'[q] = pc[q] /\ req'[q] = req[q] /\ writes'[q] = writes[q]
  BY DEF TypeOK
<1> QED BY <1>4, <1>5, <1>6, <1>7, <1>8, OwnStep

\* A statement inside a transaction keeps the lock and what it protects.
LEMMA StatementStep ==
    ASSUME IInv, NEW r \in Requests, pc[r] \in InTx,
           NEW label \in InTx, Goto(r, label),
           NEW q \in Req, req' = [req EXCEPT ![r] = q],
           q.property = req[r].property, q.caller = req[r].caller,
           NEW w \in [Images -> Row \cup {NoRow, Same}],
           writes' = [writes EXCEPT ![r] = w],
           UNCHANGED <<images, live, lock, reply>>,
           TxInv(images, label, q, w),
           \A o \in Requests \ {r}, i \in Images : w[i] = Same \/ writes[o][i] = Same
    PROVE  IInv'
<1> USE DEF Goto, IInv
<1>1. TypeOK'
  BY DEF TypeOK, PC
<1>2. /\ pc'[r] = label /\ req'[r] = q /\ writes'[r] = w
      /\ \A o \in Requests \ {r} :
             pc'[o] = pc[o] /\ req'[o] = req[o] /\ writes'[o] = writes[o]
  BY DEF TypeOK
<1>3. LockInv'
  <2>1. \A o \in Requests :
            /\ pc'[o] \in InTx <=> pc[o] \in InTx
            /\ pc[o] \in InTx => /\ req'[o].property = req[o].property
                                 /\ req'[o].caller = req[o].caller
            /\ pc'[o] # "idle" => req'[o] \in Req
    BY <1>2
  <2>2. \A p \in Properties : lock[p] # None => lock[p] \in Requests
    BY DEF TypeOK
  <2> QED BY <2>1, <2>2
<1> QED BY <1>1, <1>2, <1>3, OwnStep

\* Another transaction has written only rows of another listing, and rows
\* not yet in the table.
LEMMA OthersWrites ==
    ASSUME IInv, NEW r \in Requests, NEW o \in Requests, r # o,
           pc[r] \in InTx, NEW i \in ImagesOf(images, req[r].property)
    PROVE  writes[o][i] = Same
<1> USE DEF IInv
<1>1. SUFFICES ASSUME writes[o][i] # Same PROVE FALSE
  OBVIOUS
<1>2. i \in Images /\ images[i] # NoRow /\ images[i].property = req[r].property
  BY DEF ImagesOf
<1>3. TxInv(images, pc[o], req[o], writes[o])
  OBVIOUS
<1>4. pc[o] \in {"insert", "survivor", "promote", "commit"}
  BY <1>1, <1>2, <1>3 DEF TxInv, Clean, TypeOK, PC, InTx
<1>5. req[o].property # req[r].property
  BY <1>4 DEF InTx
<1>6. i \in ImagesOf(images, req[o].property) \/ images[i] = NoRow
  <2>1. CASE pc[o] = "insert"
    BY <1>1, <1>2, <1>3, <2>1 DEF TxInv, DemoteWrites, Mains
  <2>2. CASE pc[o] \in {"survivor", "promote"}
    BY <1>1, <1>2, <1>3, <2>2 DEF TxInv, RemoveWrites, InGallery
  <2>3. CASE pc[o] = "commit"
    <3>1. CASE AddReady(images, req[o], writes[o])
      BY <1>1, <1>2, <3>1 DEF AddReady, AddWrites, DemoteWrites, Mains
    <3>2. CASE RemoveReady(images, req[o], writes[o])
      BY <1>1, <1>2, <3>2 DEF RemoveReady, RemoveWrites, InGallery
    <3>3. CASE SucceedReady(images, req[o], writes[o])
      BY <1>1, <1>2, <3>3 DEF SucceedReady, SucceedWrites, InGallery, Successor, Lowest
    <3> QED BY <1>3, <2>3, <3>1, <3>2, <3>3 DEF TxInv
  <2> QED BY <1>4, <2>1, <2>2, <2>3
<1> QED BY <1>2, <1>5, <1>6 DEF ImagesOf

\* What IInv gives a transaction about its own request.
LEMMA InTxFacts ==
    ASSUME IInv, NEW r \in Requests, pc[r] \in InTx
    PROVE  /\ req[r] \in Req
           /\ req[r].property \in Properties
           /\ TxInv(images, pc[r], req[r], writes[r])
           /\ writes[r] \in [Images -> Row \cup {NoRow, Same}]
           /\ images \in Tables
           /\ pc[r] \in {"count", "fetch", "demote", "delete"} => View(r) = images
<1>1. req[r] \in Req
  BY DEF IInv, InTx
<1>2. TxInv(images, pc[r], req[r], writes[r])
  BY DEF IInv
<1>3. pc[r] \in {"count", "fetch", "demote", "delete"} => writes[r] = Clean
  BY <1>2 DEF TxInv
<1> QED BY <1>1, <1>2, <1>3, CleanView DEF IInv, TypeOK, Req

LEMMA CountInv ==
    ASSUME IInv, NEW r \in Requests, CountImages(r)
    PROVE  IInv'
<1> DEFINE is_main == req[r].is_main \/ Own(r) = {}
           q == [req[r] EXCEPT !.is_main = is_main]
<1>1. pc[r] = "count" /\ pc[r] \in InTx
  BY DEF CountImages, InTx
<1>2. CASE Abort(r, "ErrMaxPropertyImages")
  BY <1>1, <1>2, AbortInv
<1>3. CASE /\ ~Full(r)
           /\ req' = [req EXCEPT ![r].is_main = is_main]
           /\ Goto(r, IF is_main THEN "demote" ELSE "insert")
           /\ UNCHANGED <<images, live, lock, writes, reply>>
  <2>1. View(r) = images
    BY <1>1, InTxFacts
  <2>2. q \in Req /\ q.property = req[r].property /\ q.caller = req[r].caller
        /\ q.is_main = is_main /\ q.position = req[r].position
    BY <1>1, InTxFacts DEF Req
  <2>3. req' = [req EXCEPT ![r] = q]
    BY <1>3 DEF IInv, TypeOK
  <2>4. Room(images, q)
    <3>1. IsFiniteSet(ImagesOf(images, req[r].property))
      BY <1>1, InTxFacts DEF IInv, GalleryOK, WellFormed, WithinLimit
    <3>2. Cardinality(ImagesOf(images, req[r].property)) \in Nat /\ maxPropertyImages \in Nat
      BY <3>1, FS_CardinalityType, ImageTableAssumption
    <3>3. Cardinality(ImagesOf(images, req[r].property)) < maxPropertyImages
      BY <1>3, <2>1, <3>2 DEF Full
    <3>4. ImagesOf(images, req[r].property) = {} => is_main
      BY <2>1
    <3> HIDE DEF q
    <3> QED BY <2>2, <3>3, <3>4 DEF Room
  <2>5. q.position \in Positions /\ writes[r] = Clean
    BY <1>1, <2>2, InTxFacts DEF TxInv
  <2>6. ~is_main => writes[r] = DemoteWrites(images, q)
    BY <2>2, <2>5 DEF Clean, DemoteWrites
  <2> DEFINE label == IF is_main THEN "demote" ELSE "insert"
  <2>7. TxInv(images, label, q, writes[r])
    BY <2>2, <2>4, <2>5, <2>6 DEF TxInv
  <2>8. writes' = [writes EXCEPT ![r] = writes[r]]
    BY <1>3 DEF IInv, TypeOK
  <2>9. \A i \in Images : writes[r][i] = Same
    BY <2>5 DEF Clean
  <2>10. label \in InTx
    BY DEF InTx
  <2>11. Goto(r, label) /\ UNCHANGED <<images, live, lock, reply>>
    BY <1>3
  <2>12. writes[r] \in [Images -> Row \cup {NoRow, Same}]
    BY <1>1, InTxFacts
  <2> HIDE DEF label, q
  <2> QED BY <1>1, <2>2, <2>3, <2>7, <2>8, <2>9, <2>10, <2>11, <2>12, StatementStep
<1> QED BY <1>2, <1>3 DEF CountImages

LEMMA DemoteInv ==
    ASSUME IInv, NEW r \in Requests, DemoteMain(r)
    PROVE  IInv'
<1> DEFINE mains == CurrentMains(r)
           w == [i \in Images |-> IF i \in mains THEN Demoted(View(r)[i]) ELSE writes[r][i]]
<1>1. pc[r] = "demote" /\ pc[r] \in InTx
  BY DEF DemoteMain, InTx
<1>2. View(r) = images /\ writes[r] = Clean /\ req[r].is_main
      /\ Room(images, req[r]) /\ req[r].position \in Positions
  BY <1>1, InTxFacts DEF TxInv
<1>3. w = DemoteWrites(images, req[r])
  BY <1>2 DEF DemoteWrites, Clean, CurrentMains
<1>4. w \in [Images -> Row \cup {NoRow, Same}]
  <2>1. \A i \in mains : i \in Images /\ images[i] # NoRow
    BY <1>2 DEF CurrentMains, Mains, ImagesOf
  <2>2. \A i \in mains : Demoted(images[i]) \in Row
    BY <1>1, <2>1, InTxFacts, RowFacts
  <2> QED BY <1>2, <2>2 DEF Clean
<1>5. TxInv(images, "insert", req[r], w)
  BY <1>2, <1>3 DEF TxInv
<1>6. \A o \in Requests \ {r}, i \in Images : w[i] = Same \/ writes[o][i] = Same
  <2>1. \A i \in Images : w[i] # Same => i \in ImagesOf(images, req[r].property)
    BY <1>2 DEF Clean, CurrentMains, Mains
  <2> QED BY <1>1, <2>1, OthersWrites
<1>7. writes' = [writes EXCEPT ![r] = w]
  BY DEF DemoteMain
<1>8. req' = [req EXCEPT ![r] = req[r]]
  BY DEF DemoteMain, IInv, TypeOK
<1>9. Goto(r, "insert") /\ UNCHANGED <<images, live, lock, reply>>
  BY DEF DemoteMain
<1>10. req[r] \in Req /\ "insert" \in InTx
  BY <1>1, InTxFacts DEF InTx
<1> HIDE DEF w
<1> QED BY <1>1, <1>4, <1>5, <1>6, <1>7, <1>8, <1>9, <1>10, StatementStep

LEMMA InsertInv ==
    ASSUME IInv, NEW r \in Requests, InsertImage(r)
    PROVE  IInv'
<1>1. pc[r] = "insert" /\ pc[r] \in InTx
  BY DEF InsertImage, InTx
<1>2. PICK i \in Images :
         /\ images[i] = NoRow
         /\ \A o \in Requests : writes[o][i] = Same
         /\ writes' = [writes EXCEPT ![r][i] =
                           NewRow(req[r].property, req[r].is_main, req[r].position)]
         /\ req' = [req EXCEPT ![r].image = i]
         /\ Goto(r, "commit")
         /\ UNCHANGED <<images, live, lock, reply>>
  BY DEF InsertImage
<1> DEFINE q == [req[r] EXCEPT !.image = i]
           row == NewRow(req[r].property, req[r].is_main, req[r].position)
           w == [writes[r] EXCEPT ![i] = row]
<1>3. req[r] \in Req /\ req[r].position \in Positions /\ Room(images, req[r])
      /\ writes[r] = DemoteWrites(images, req[r])
  BY <1>1, InTxFacts DEF TxInv
<1>4. q \in Req /\ q.image = i /\ q.property = req[r].property /\ q.caller = req[r].caller
      /\ q.is_main = req[r].is_main /\ q.position = req[r].position
  BY <1>3 DEF Req
<1>5. row \in Row
  BY <1>3, NewRowFacts DEF Req
<1>6. w \in [Images -> Row \cup {NoRow, Same}]
  BY <1>1, <1>5, InTxFacts
<1>7. writes' = [writes EXCEPT ![r] = w] /\ req' = [req EXCEPT ![r] = q]
  BY <1>2 DEF IInv, TypeOK
<1>8. w = AddWrites(images, q)
  BY <1>3, <1>4 DEF AddWrites, DemoteWrites
<1>9. Room(images, q)
  BY <1>3, <1>4 DEF Room
<1>10. TxInv(images, "commit", q, w)
  BY <1>2, <1>3, <1>4, <1>8, <1>9 DEF TxInv, AddReady
<1>11. \A o \in Requests \ {r}, j \in Images : w[j] = Same \/ writes[o][j] = Same
  BY <1>2, <1>3 DEF IInv, DisjointWrites, DemoteWrites
<1>12. "commit" \in InTx
  BY DEF InTx
<1>13. Goto(r, "commit") /\ UNCHANGED <<images, live, lock, reply>>
  BY <1>2
<1>14. q \in Req /\ q.property = req[r].property /\ q.caller = req[r].caller
  BY <1>4
<1> HIDE DEF w, q
<1> QED BY <1>1, <1>6, <1>7, <1>10, <1>11, <1>12, <1>13, <1>14, StatementStep

LEMMA FetchInv ==
    ASSUME IInv, NEW r \in Requests, FetchImage(r)
    PROVE  IInv'
<1> DEFINE i == req[r].image
           q == [req[r] EXCEPT !.is_main = View(r)[i].is_main]
<1>1. pc[r] = "fetch" /\ pc[r] \in InTx
  BY DEF FetchImage, InTx
<1>2. View(r) = images /\ writes[r] = Clean /\ req[r] \in Req
  BY <1>1, InTxFacts DEF TxInv
<1>3. CASE Abort(r, "ErrRecordNotFound")
  BY <1>1, <1>3, AbortInv
<1>4. CASE /\ Found(r)
           /\ req' = [req EXCEPT ![r].is_main = View(r)[i].is_main]
           /\ Goto(r, "delete")
           /\ UNCHANGED <<images, live, lock, writes, reply>>
  <2>1. i \in Images /\ images[i] # NoRow
    BY <1>2, <1>4 DEF ImagesOf, Found
  <2>2. images[i].is_main \in BOOLEAN
    BY <1>1, <2>1, InTxFacts, RowFacts DEF Row
  <2>3. q \in Req /\ q.property = req[r].property /\ q.caller = req[r].caller
        /\ q.image = i /\ q.is_main = images[i].is_main
    BY <1>2, <2>2 DEF Req
  <2>4. TxInv(images, "delete", q, writes[r])
    BY <1>2, <1>4, <2>3 DEF TxInv, InGallery, Found
  <2> DEFINE w == writes[r]
  <2>5. \A o \in Requests \ {r}, j \in Images : w[j] = Same \/ writes[o][j] = Same
    BY <1>2 DEF Clean
  <2>6. req' = [req EXCEPT ![r] = q] /\ writes' = [writes EXCEPT ![r] = w]
    BY <1>4 DEF IInv, TypeOK
  <2>7. "delete" \in InTx /\ w \in [Images -> Row \cup {NoRow, Same}]
    BY <1>1, InTxFacts DEF InTx
  <2>8. Goto(r, "delete") /\ UNCHANGED <<images, live, lock, reply>>
    BY <1>4
  <2>9. TxInv(images, "delete", q, w)
    BY <2>4
  <2>10. q \in Req /\ q.property = req[r].property /\ q.caller = req[r].caller
    BY <2>3
  <2> HIDE DEF q, w
  <2> QED BY <1>1, <2>5, <2>6, <2>7, <2>8, <2>9, <2>10, StatementStep
<1> QED BY <1>3, <1>4 DEF FetchImage

LEMMA DeleteInv ==
    ASSUME IInv, NEW r \in Requests, DeleteImage(r)
    PROVE  IInv'
<1> DEFINE q == req[r]
           w == [writes[r] EXCEPT ![q.image] = NoRow]
           label == IF q.is_main THEN "survivor" ELSE "commit"
<1>1. pc[r] = "delete" /\ pc[r] \in InTx
  BY DEF DeleteImage, InTx
<1>2. q \in Req /\ InGallery(images, q) /\ writes[r] = Clean
  BY <1>1, InTxFacts DEF TxInv
<1>3. q.image \in ImagesOf(images, q.property) /\ q.image \in Images
  BY <1>2 DEF InGallery, ImagesOf
<1>4. w = RemoveWrites(q)
  BY <1>2, <1>3 DEF RemoveWrites, Clean
<1>5. w \in [Images -> Row \cup {NoRow, Same}]
  BY <1>4 DEF RemoveWrites
<1>6. TxInv(images, label, q, w)
  BY <1>2, <1>4 DEF TxInv, RemoveReady
<1>7. \A o \in Requests \ {r}, j \in Images : w[j] = Same \/ writes[o][j] = Same
  BY <1>1, <1>3, <1>4, OthersWrites DEF RemoveWrites
<1>8. /\ writes' = [writes EXCEPT ![r] = w]
      /\ Goto(r, label)
      /\ UNCHANGED <<images, live, lock, reply>>
  BY <1>1, InTxFacts DEF DeleteImage, IInv, TypeOK
<1>9. req' = [req EXCEPT ![r] = q] /\ label \in InTx
  BY DEF DeleteImage, IInv, TypeOK, InTx
<1> HIDE DEF w, label
<1> QED BY <1>1, <1>2, <1>5, <1>6, <1>7, <1>8, <1>9, StatementStep

\* After the deletion the transaction sees the gallery without its image.
LEMMA RemovedView ==
    ASSUME IInv, NEW r \in Requests, pc[r] \in {"survivor", "promote"}
    PROVE  /\ req[r] \in Req
           /\ InGallery(images, req[r]) /\ req[r].is_main
           /\ writes[r] = RemoveWrites(req[r])
           /\ req[r].image \in ImagesOf(images, req[r].property)
           /\ View(r) = Removed(images, req[r].image)
           /\ ImagesOf(View(r), req[r].property)
                  = ImagesOf(images, req[r].property) \ {req[r].image}
<1>1. /\ req[r] \in Req
      /\ InGallery(images, req[r]) /\ req[r].is_main
      /\ writes[r] = RemoveWrites(req[r])
  BY InTxFacts DEF TxInv, InTx
<1>2. req[r].image \in ImagesOf(images, req[r].property)
  BY <1>1 DEF InGallery
<1>3. Same # NoRow
  BY PropertyImagesAssumption
<1>4. View(r) = Removed(images, req[r].image)
  BY <1>1, <1>3 DEF View, Overlay, RemoveWrites, Removed
<1>5. \A j \in Images : View(r)[j] = IF j = req[r].image THEN NoRow ELSE images[j]
  BY <1>4 DEF Removed
<1>6. ImagesOf(View(r), req[r].property)
          = ImagesOf(images, req[r].property) \ {req[r].image}
  BY <1>5 DEF ImagesOf
<1> QED BY <1>1, <1>2, <1>4, <1>6

LEMMA SurvivorInv ==
    ASSUME IInv, NEW r \in Requests, FindSurvivor(r)
    PROVE  IInv'
<1> DEFINE rest == Own(r)
           w == writes[r]
<1>1. pc[r] = "survivor" /\ pc[r] \in InTx
  BY DEF FindSurvivor, InTx
<1>2. /\ req[r] \in Req
      /\ InGallery(images, req[r]) /\ req[r].is_main
      /\ w = RemoveWrites(req[r])
      /\ req[r].image \in ImagesOf(images, req[r].property)
      /\ View(r) = Removed(images, req[r].image)
      /\ rest = ImagesOf(images, req[r].property) \ {req[r].image}
  BY <1>1, RemovedView
<1>3. w \in [Images -> Row \cup {NoRow, Same}]
  BY <1>1, InTxFacts
<1>4. \A o \in Requests \ {r}, j \in Images : w[j] = Same \/ writes[o][j] = Same
  BY DEF IInv, DisjointWrites
<1>5. writes' = [writes EXCEPT ![r] = w] /\ UNCHANGED <<images, live, lock, reply>>
  BY DEF FindSurvivor, IInv, TypeOK
<1>6. "commit" \in InTx /\ "promote" \in InTx
  BY DEF InTx
<1>7. CASE rest = {} /\ Goto(r, "commit") /\ UNCHANGED req
  <2>1. TxInv(images, "commit", req[r], w)
    BY <1>2, <1>7 DEF TxInv, RemoveReady
  <2>2. req' = [req EXCEPT ![r] = req[r]]
    BY <1>7 DEF IInv, TypeOK
  <2>3. req[r] \in Req /\ Goto(r, "commit")
    BY <1>2, <1>7
  <2> HIDE DEF w
  <2> QED BY <1>1, <1>3, <1>4, <1>5, <1>6, <2>1, <2>2, <2>3, StatementStep
<1>8. ASSUME NEW s \in Survivors(r),
             req' = [req EXCEPT ![r].survivor = s], Goto(r, "promote")
      PROVE  IInv'
  <2> DEFINE q == [req[r] EXCEPT !.survivor = s]
  <2>1. s \in rest /\ s \in Images /\ \A j \in rest : View(r)[s].position <= View(r)[j].position
    BY DEF Survivors, Lowest, ImagesOf
  <2>2. /\ q \in Req /\ q.property = req[r].property /\ q.caller = req[r].caller
        /\ q.survivor = s /\ q.image = req[r].image /\ q.is_main = req[r].is_main
    BY <1>2, <2>1 DEF Req
  <2>3. \A j \in rest : View(r)[j] = images[j]
    BY <1>2 DEF Removed, ImagesOf
  <2>4. Successor(images, q)
    BY <1>2, <2>1, <2>2, <2>3 DEF Successor, Lowest
  <2>5. InGallery(images, q) /\ w = RemoveWrites(q)
    BY <1>2, <2>2 DEF InGallery, RemoveWrites
  <2>6. TxInv(images, "promote", q, w)
    BY <1>2, <2>2, <2>4, <2>5 DEF TxInv
  <2>7. req' = [req EXCEPT ![r] = q]
    BY <1>8 DEF IInv, TypeOK
  <2> HIDE DEF q, w
  <2> QED BY <1>1, <1>3, <1>4, <1>5, <1>6, <1>8, <2>2, <2>6, <2>7, StatementStep
<1> QED BY <1>7, <1>8 DEF FindSurvivor

LEMMA PromoteInv ==
    ASSUME IInv, NEW r \in Requests, PromoteSurvivor(r)
    PROVE  IInv'
<1> DEFINE q == req[r]
           s == q.survivor
           w == [writes[r] EXCEPT ![s] = Promoted(View(r)[s])]
<1>1. pc[r] = "promote" /\ pc[r] \in InTx
  BY DEF PromoteSurvivor, InTx
<1>2. /\ q \in Req
      /\ InGallery(images, q) /\ q.is_main
      /\ writes[r] = RemoveWrites(q)
      /\ q.image \in ImagesOf(images, q.property)
      /\ View(r) = Removed(images, q.image)
  BY <1>1, RemovedView
<1>3. Successor(images, q)
  BY <1>1, InTxFacts DEF TxInv
<1>4. s \in ImagesOf(images, q.property) /\ s # q.image /\ s \in Images /\ images[s] # NoRow
  BY <1>3 DEF Successor, Lowest, ImagesOf
<1>5. View(r)[s] = images[s]
  BY <1>2, <1>4 DEF Removed
<1>6. w = SucceedWrites(images, q)
  BY <1>2, <1>4, <1>5 DEF RemoveWrites, SucceedWrites
<1>7. w \in [Images -> Row \cup {NoRow, Same}]
  <2>1. Promoted(images[s]) \in Row
    BY <1>1, <1>4, InTxFacts, RowFacts
  <2> QED BY <1>1, <1>5, <2>1, InTxFacts
<1>8. TxInv(images, "commit", q, w)
  BY <1>2, <1>3, <1>6 DEF TxInv, SucceedReady
<1>9. \A o \in Requests \ {r}, j \in Images : w[j] = Same \/ writes[o][j] = Same
  BY <1>1, <1>2, <1>4, <1>6, OthersWrites DEF SucceedWrites
<1>10. /\ writes' = [writes EXCEPT ![r] = w] /\ req' = [req EXCEPT ![r] = q]
       /\ Goto(r, "commit") /\ UNCHANGED <<images, live, lock, reply>>
  BY DEF PromoteSurvivor, IInv, TypeOK
<1>11. "commit" \in InTx
  BY DEF InTx
<1> HIDE DEF w
<1> QED BY <1>1, <1>2, <1>7, <1>8, <1>9, <1>10, <1>11, StatementStep

\* What a commit makes of the table, in the terms of ImageGallery.
CommitsAdd(r) ==
    LET q == req[r] IN
    /\ q.image \in Images /\ images[q.image] = NoRow
    /\ q.position \in Positions
    /\ Room(images, q)
    /\ View(r) = Added(images, q.property, q.image, q.is_main, q.position)

CommitsRemove(r) ==
    LET q == req[r] IN
    /\ q.image \in ImagesOf(images, q.property)
    /\ q.image \in Mains(images, q.property) => ImagesOf(images, q.property) = {q.image}
    /\ View(r) = Removed(images, q.image)

CommitsSucceed(r) ==
    LET q == req[r] IN
    /\ q.image \in Mains(images, q.property)
    /\ Successor(images, q)
    /\ View(r) = Succeeded(images, q.image, q.survivor)

LEMMA CommitView ==
    ASSUME IInv, NEW r \in Requests, pc[r] = "commit"
    PROVE  CommitsAdd(r) \/ CommitsRemove(r) \/ CommitsSucceed(r)
<1> DEFINE q == req[r]
           w == writes[r]
<1>1. q \in Req /\ q.property \in Properties /\ images \in Tables
      /\ TxInv(images, "commit", q, w)
  BY InTxFacts DEF InTx
<1>2. Same \notin Row /\ Same # NoRow
  BY PropertyImagesAssumption
<1>3. \A j \in Images : View(r)[j] = IF w[j] = Same THEN images[j] ELSE w[j]
  BY DEF View, Overlay
<1>4. View(r) = [j \in Images |-> View(r)[j]]
  BY DEF View, Overlay
<1>5. CASE AddReady(images, q, w)
  <2>1. NewRow(q.property, q.is_main, q.position) # Same
    BY <1>1, <1>2, <1>5, NewRowFacts DEF AddReady, Req
  <2>2. \A j \in Mains(images, q.property) : Demoted(images[j]) # Same
    BY <1>1, <1>2, RowFacts DEF Mains, ImagesOf
  <2>3. View(r) = Added(images, q.property, q.image, q.is_main, q.position)
    BY <1>3, <1>4, <1>5, <2>1, <2>2 DEF AddReady, AddWrites, DemoteWrites, Added
  <2> QED BY <1>5, <2>3 DEF AddReady, CommitsAdd
<1>6. CASE RemoveReady(images, q, w)
  <2>1. View(r) = Removed(images, q.image)
    BY <1>2, <1>3, <1>4, <1>6 DEF RemoveReady, RemoveWrites, Removed
  <2> QED BY <1>6, <2>1 DEF RemoveReady, InGallery, CommitsRemove, Mains
<1>7. CASE SucceedReady(images, q, w)
  <2>1. q.survivor \in Images /\ images[q.survivor] # NoRow
    BY <1>7 DEF SucceedReady, Successor, Lowest, ImagesOf
  <2>2. Promoted(images[q.survivor]) # Same
    BY <1>1, <1>2, <2>1, RowFacts
  <2>3. View(r) = Succeeded(images, q.image, q.survivor)
    BY <1>2, <1>3, <1>4, <1>7, <2>2 DEF SucceedReady, SucceedWrites, Succeeded
  <2> QED BY <1>7, <2>3 DEF SucceedReady, InGallery, CommitsSucceed, Mains
<1> QED BY <1>1, <1>5, <1>6, <1>7 DEF TxInv

LEMMA CommitWellFormed ==
    ASSUME IInv, NEW r \in Requests, pc[r] = "commit"
    PROVE  View(r) \in Tables /\ WellFormed(View(r))
<1> DEFINE q == req[r]
<1>1. q \in Req /\ q.property \in Properties /\ q.is_main \in BOOLEAN
      /\ images \in Tables /\ WellFormed(images)
  BY InTxFacts DEF InTx, Req, IInv, GalleryOK
<1>2. CASE CommitsAdd(r)
  BY <1>1, <1>2, AddedType, AddedWellFormed DEF CommitsAdd, Room
<1>3. CASE CommitsRemove(r)
  BY <1>1, <1>3, RemovedType, RemovedWellFormed DEF CommitsRemove, ImagesOf
<1>4. CASE CommitsSucceed(r)
  <2>1. /\ q.survivor \in ImagesOf(images, q.property) \ {q.image}
        /\ q.image \in Images /\ q.survivor \in Images /\ images[q.survivor] # NoRow
    BY <1>4 DEF CommitsSucceed, Successor, Lowest, ImagesOf, Mains
  <2> QED BY <1>1, <1>4, <2>1, SucceededType, SucceededWellFormed DEF CommitsSucceed
<1> QED BY <1>2, <1>3, <1>4, CommitView

\* TxInv speaks only of the request's own gallery and of its free image id.
LEMMA TxFrame ==
    ASSUME NEW s, NEW t, NEW label, NEW q, NEW w, TxInv(s, label, q, w),
           ImagesOf(t, q.property) = ImagesOf(s, q.property),
           \A i \in ImagesOf(s, q.property) : t[i] = s[i],
           AddReady(s, q, w) => t[q.image] = NoRow
    PROVE  TxInv(t, label, q, w)
<1>1. Mains(t, q.property) = Mains(s, q.property)
  BY DEF Mains
<1>2. DemoteWrites(t, q) = DemoteWrites(s, q)
  BY <1>1 DEF DemoteWrites, Mains
<1>3. Room(s, q) => Room(t, q)
  BY DEF Room
<1>4. InGallery(s, q) => InGallery(t, q)
  BY DEF InGallery
<1>5. Successor(s, q) => Successor(t, q)
  BY DEF Successor, Lowest
<1>6. Successor(s, q) => SucceedWrites(t, q) = SucceedWrites(s, q)
  BY DEF SucceedWrites, Successor, Lowest
<1>7. AddReady(s, q, w) => AddReady(t, q, w)
  BY <1>2, <1>3 DEF AddReady, AddWrites
<1>8. RemoveReady(s, q, w) => RemoveReady(t, q, w)
  BY <1>4 DEF RemoveReady
<1>9. SucceedReady(s, q, w) => SucceedReady(t, q, w)
  BY <1>4, <1>5, <1>6 DEF SucceedReady
<1> QED BY <1>2, <1>3, <1>4, <1>5, <1>7, <1>8, <1>9 DEF TxInv

\* A commit leaves the galleries of other listings alone.
LEMMA CommitFrame ==
    ASSUME IInv, NEW r \in Requests, pc[r] = "commit",
           NEW p \in Properties, p # req[r].property
    PROVE  /\ ImagesOf(View(r), p) = ImagesOf(images, p)
           /\ \A i \in ImagesOf(images, p) : View(r)[i] = images[i]
<1> DEFINE q == req[r]
<1>1. q \in Req /\ q.property \in Properties /\ q.is_main \in BOOLEAN /\ images \in Tables
  BY InTxFacts DEF InTx, Req
<1>2. CASE CommitsAdd(r)
  <2>1. \A j \in Images : View(r)[j] =
            IF j = q.image THEN NewRow(q.property, q.is_main, q.position)
            ELSE IF q.is_main /\ j \in Mains(images, q.property) THEN Demoted(images[j])
            ELSE images[j]
    BY <1>2 DEF CommitsAdd, Added
  <2>2. NewRow(q.property, q.is_main, q.position).property = q.property
    BY DEF NewRow
  <2>3. \A j \in Mains(images, q.property) :
            images[j].property = q.property /\ Demoted(images[j]).property = q.property
    BY <1>1, RowFacts DEF Mains, ImagesOf
  <2>4. \A j \in Images : View(r)[j] # images[j] =>
            View(r)[j].property = q.property /\ (images[j] # NoRow => images[j].property = q.property)
    BY <1>2, <2>1, <2>2, <2>3 DEF CommitsAdd
  <2>5. \A j \in Images : View(r)[j] = NoRow => images[j] = NoRow
    <3>1. NewRow(q.property, q.is_main, q.position) # NoRow
      BY <1>1, <1>2, NewRowFacts DEF CommitsAdd
    <3>2. \A j \in Mains(images, q.property) : Demoted(images[j]) # NoRow
      BY <1>1, RowFacts DEF Mains, ImagesOf
    <3> QED BY <2>1, <3>1, <3>2
  <2> QED BY <2>4, <2>5 DEF ImagesOf
<1>3. CASE CommitsRemove(r)
  <2>1. \A j \in Images : View(r)[j] = IF j = q.image THEN NoRow ELSE images[j]
    BY <1>3 DEF CommitsRemove, Removed
  <2>2. images[q.image].property = q.property
    BY <1>3 DEF CommitsRemove, ImagesOf
  <2> QED BY <2>1, <2>2 DEF ImagesOf
<1>4. CASE CommitsSucceed(r)
  <2>1. \A j \in Images : View(r)[j] =
            IF j = q.image THEN NoRow
            ELSE IF j = q.survivor THEN Promoted(images[j]) ELSE images[j]
    BY <1>4 DEF CommitsSucceed, Succeeded
  <2>2. /\ images[q.image].property = q.property
        /\ images[q.survivor].property = q.property
        /\ q.survivor \in Images /\ images[q.survivor] # NoRow
    BY <1>4 DEF CommitsSucceed, Successor, Lowest, Mains, ImagesOf
  <2>3. Promoted(images[q.survivor]).property = q.property
    BY <1>1, <2>2, RowFacts
  <2> QED BY <2>1, <2>2, <2>3 DEF ImagesOf
<1> QED BY <1>2, <1>3, <1>4, CommitView

LEMMA CommitInv ==
    ASSUME IInv, NEW r \in Requests, Commit(r)
    PROVE  IInv'
<1> USE DEF Goto
<1>1. /\ pc[r] = "commit" /\ pc[r] \in InTx
      /\ images' = View(r)
      /\ UNCHANGED <<live, req, reply>>
  BY DEF Commit, InTx
<1>2. images' \in Tables /\ WellFormed(images')
  BY <1>1, CommitWellFormed
<1>3. /\ \A o \in Requests : pc'[o] = IF o = r THEN "committed" ELSE pc[o]
      /\ \A o \in Requests : writes'[o] = IF o = r THEN Clean ELSE writes[o]
      /\ \A p \in Properties : lock'[p] = IF lock[p] = r THEN None ELSE lock[p]
  BY DEF Commit, Unlocked, IInv, TypeOK
<1>4. TypeOK'
  <2>1. Clean \in [Images -> Row \cup {NoRow, Same}]
    BY DEF Clean
  <2>2. Unlocked(r) \in [Properties -> Requests \cup {None}]
    BY DEF Unlocked, IInv, TypeOK
  <2> QED BY <1>1, <1>2, <2>1, <2>2 DEF Commit, IInv, TypeOK, PC
<1>5. LockInv'
  <2>1. None \notin Requests
    BY PropertyImagesAssumption
  <2>2. \A o \in Requests : pc[o] \in InTx => req[o].property \in Properties
    BY InTxFacts
  <2> QED BY <1>1, <1>3, <2>1, <2>2 DEF IInv, TypeOK, InTx
<1>6. ASSUME NEW o \in Requests
      PROVE  TxInv(images', pc'[o], req'[o], writes'[o])
  <2>1. CASE o = r
    BY <1>1, <1>3, <2>1 DEF TxInv
  <2>2. CASE o # r /\ pc[o] \notin InTx
    BY <1>1, <1>3, <2>2 DEF IInv, TxInv, InTx
  <2>3. CASE o # r /\ pc[o] \in InTx
    <3> DEFINE p == req[o].property
    <3>1. p \in Properties /\ req[o] \in Req /\ images \in Tables
          /\ TxInv(images, pc[o], req[o], writes[o])
      BY <2>3, InTxFacts
    <3>2. p # req[r].property
      BY <1>1, <2>3 DEF IInv
    <3>3. /\ ImagesOf(images', p) = ImagesOf(images, p)
          /\ \A i \in ImagesOf(images, p) : images'[i] = images[i]
      BY <1>1, <3>1, <3>2, CommitFrame
    <3>4. \A i \in Images : images[i] = NoRow /\ writes[o][i] # Same => images'[i] = NoRow
      BY <1>1, <2>3 DEF IInv, DisjointWrites, View, Overlay
    <3>5. AddReady(images, req[o], writes[o]) => images'[req[o].image] = NoRow
      <4>1. SUFFICES ASSUME AddReady(images, req[o], writes[o])
                     PROVE  images'[req[o].image] = NoRow
        OBVIOUS
      <4>2. NewRow(p, req[o].is_main, req[o].position) # Same
        BY <3>1, <4>1, NewRowFacts, PropertyImagesAssumption DEF Req, AddReady
      <4> QED BY <3>4, <4>1, <4>2 DEF AddReady, AddWrites
    <3>6. TxInv(images', pc[o], req[o], writes[o])
      BY <3>1, <3>3, <3>5, TxFrame
    <3> QED BY <1>1, <1>3, <2>3, <3>6
  <2> QED BY <2>1, <2>2, <2>3
<1>7. DisjointWrites'
  BY <1>3 DEF IInv, DisjointWrites, Clean
<1> QED BY <1>2, <1>4, <1>5, <1>6, <1>7 DEF IInv, GalleryOK

LEMMA CallInv ==
    ASSUME IInv, NEW r \in Requests, NEW args \in Req, Call(r, args),
           args.op = "add" => args.position \in Positions
    PROVE  IInv'
<1> USE DEF Call, Goto, IInv
<1>1. TypeOK'
  BY DEF TypeOK, PC
<1>2. /\ pc'[r] = "lock" /\ req'[r] = args /\ writes'[r] = Clean
      /\ \A q \in Requests \ {r} :
             pc'[q] = pc[q] /\ req'[q] = req[q] /\ writes'[q] = writes[q]
  BY DEF TypeOK, TxInv
<1>3. LockInv'
  BY <1>2 DEF TypeOK, InTx
<1>4. TxInv(images, pc'[r], req'[r], writes'[r])
  BY <1>2 DEF TxInv
<1>5. \A i \in Images : writes'[r][i] = Same
  BY <1>2 DEF Clean
<1> QED BY <1>1, <1>2, <1>3, <1>4, <1>5, OwnStep

LEMMA CallAddInv ==
    ASSUME IInv, NEW r \in Requests, CallAdd(r)
    PROVE  IInv'
<1>1. PICK p \in Properties, u \in Users, is_main \in BOOLEAN, position \in Positions :
        Call(r, [op |-> "add", property |-> p, caller |-> u, image |-> None,
                 is_main |-> is_main, position |-> position, survivor |-> None])
  BY DEF CallAdd
<1> QED BY <1>1, CallInv DEF Req

LEMMA CallRemoveInv ==
    ASSUME IInv, NEW r \in Requests, CallRemove(r)
    PROVE  IInv'
<1>1. PICK p \in Properties, u \in Users, i \in Images :
        Call(r, [op |-> "remove", property |-> p, caller |-> u, image |-> i,
                 is_main |-> FALSE, position |-> None, survivor |-> None])
  BY DEF CallRemove
<1> QED BY <1>1, CallInv DEF Req

LEMMA LockPropertyInv ==
    ASSUME IInv, NEW r \in Requests, LockProperty(r)
    PROVE  IInv'
<1> DEFINE p == req[r].property
           label == IF req[r].op = "add" THEN "count" ELSE "fetch"
<1>1. pc[r] = "lock" /\ req[r] \in Req /\ p \in Properties
  BY DEF LockProperty, IInv, Req
<1>2. CASE Abort(r, "ErrRecordNotFound") \/ Abort(r, "ErrNotOwner")
  BY <1>1, <1>2, AbortInv
<1>3. CASE /\ p \in live
           /\ lock[p] = None
           /\ Owner[p] = req[r].caller
           /\ lock' = Locked(r)
           /\ Goto(r, label)
           /\ UNCHANGED <<images, live, req, writes, reply>>
  <2> USE DEF Goto, IInv
  <2>1. label \in InTx
    BY DEF InTx
  <2>2. TypeOK'
    BY <1>1, <1>3, <2>1 DEF TypeOK, PC, Locked
  <2>3. pc'[r] = label /\ \A o \in Requests \ {r} : pc'[o] = pc[o]
    BY <1>3 DEF TypeOK
  <2>4. \A o \in Properties : lock'[o] = IF o = p THEN r ELSE lock[o]
    BY <1>1, <1>3 DEF TypeOK, Locked
  <2>5. \A o \in Requests : o # r /\ pc[o] \in InTx => req[o].property # p
    BY <1>3, PropertyImagesAssumption
  <2>6. LockInv'
    <3>1. \A o \in Requests : pc'[o] # "idle" => req'[o] \in Req
      BY <1>1, <1>3, <2>3
    <3>2. \A o \in Requests : pc[o] \in InTx => req[o].property \in Properties
      BY InTxFacts
    <3>3. \A o \in Requests : pc'[o] \in InTx =>
              /\ lock'[req'[o].property] = o
              /\ req'[o].property \in live'
              /\ Owner[req'[o].property] = req'[o].caller
      BY <1>1, <1>3, <2>3, <2>4, <2>5, <3>2
    <3>4. \A o \in Properties : lock'[o] # None =>
              pc'[lock'[o]] \in InTx /\ req'[lock'[o]].property = o
      <4>1. \A o \in Properties : lock[o] # None => lock[o] # r
        BY <1>1 DEF InTx
      <4>2. \A o \in Properties : lock[o] # None => lock[o] \in Requests
        BY DEF TypeOK
      <4> QED BY <1>3, <2>1, <2>3, <2>4, <4>1, <4>2
    <3> QED BY <3>1, <3>3, <3>4
  <2>7. writes[r] = Clean /\ (label = "count" => req[r].position \in Positions)
    BY <1>1 DEF TxInv, Req
  <2>8. TxInv(images, label, req[r], writes[r])
    BY <2>7 DEF TxInv
  <2>9. \A i \in Images : writes[r][i] = Same
    BY <2>7 DEF Clean
  <2> QED BY <1>3, <2>2, <2>3, <2>6, <2>8, <2>9, OwnStep
<1> QED BY <1>2, <1>3 DEF LockProperty

LEMMA AnswerInv ==
    ASSUME IInv, NEW r \in Requests, Answer(r)
    PROVE  IInv'
<1> USE DEF Answer, Goto, IInv
<1>1. TypeOK'
  BY DEF TypeOK, PC, Codes
<1>2. /\ pc'[r] = "done" /\ writes'[r] = Clean
      /\ \A q \in Requests \ {r} : pc'[q] = pc[q]
  BY DEF TypeOK, TxInv
<1>3. LockInv'
  BY <1>2 DEF TypeOK, InTx
<1>4. TxInv(images, pc'[r], req'[r], writes'[r])
  BY <1>2 DEF TxInv
<1>5. \A i \in Images : writes'[r][i] = Same
  BY <1>2 DEF Clean
<1> QED BY <1>1, <1>2, <1>3, <1>4, <1>5, OwnStep

LEMMA ReturnInv ==
    ASSUME IInv, NEW r \in Requests, Return(r)
    PROVE  IInv'
<1> USE DEF Return, Goto, IInv
<1>1. TypeOK'
  BY DEF TypeOK, PC
<1>2. /\ pc'[r] = "idle" /\ writes'[r] = Clean
      /\ \A q \in Requests \ {r} : pc'[q] = pc[q] /\ req'[q] = req[q]
  BY DEF TypeOK, TxInv
<1>3. LockInv'
  BY <1>2 DEF TypeOK, InTx
<1>4. TxInv(images, pc'[r], req'[r], writes'[r])
  BY <1>2 DEF TxInv
<1>5. \A i \in Images : writes'[r][i] = Same
  BY <1>2 DEF Clean
<1> QED BY <1>1, <1>2, <1>3, <1>4, <1>5, OwnStep

LEMMA SoftDeleteInv ==
    ASSUME IInv, NEW p \in Properties, SoftDelete(p)
    PROVE  IInv'
<1> USE DEF SoftDelete, IInv
<1>1. TypeOK'
  BY DEF TypeOK
<1>2. \A r \in Requests : pc[r] \in InTx => req[r].property # p
  BY PropertyImagesAssumption
<1>3. LockInv'
  BY <1>2
<1> QED BY <1>1, <1>3 DEF GalleryOK, DisjointWrites

LEMMA RestoreInv ==
    ASSUME IInv, NEW p \in Properties, Restore(p)
    PROVE  IInv'
<1> USE DEF Restore, IInv
<1>1. TypeOK'
  BY DEF TypeOK
<1>2. LockInv'
  OBVIOUS
<1> QED BY <1>1, <1>2 DEF GalleryOK, DisjointWrites

-----------------------------------------------------------------------------
LEMMA InitIInv == Init => IInv
<1> SUFFICES ASSUME Init PROVE IInv
  OBVIOUS
<1> USE DEF Init
<1>1. TypeOK
  BY DEF TypeOK, Tables, PC, Clean
<1>2. GalleryOK
  <2>1. \A p \in Properties : ImagesOf(images, p) = {}
    BY DEF ImagesOf
  <2>2. IsFiniteSet({}) /\ Cardinality({}) = 0 /\ 0 <= maxPropertyImages
    BY FS_EmptySet, ImageTableAssumption
  <2> QED BY <2>1, <2>2 DEF GalleryOK, WellFormed, WithinLimit, OneMain
<1>3. LockInv
  BY DEF InTx
<1>4. \A r \in Requests : TxInv(images, pc[r], req[r], writes[r])
  BY DEF TxInv
<1>5. DisjointWrites
  BY DEF DisjointWrites, Clean
<1> QED BY <1>1, <1>2, <1>3, <1>4, <1>5 DEF IInv

LEMMA NextIInv == IInv /\ [Next]_vars => IInv'
<1> SUFFICES ASSUME IInv, [Next]_vars PROVE IInv'
  OBVIOUS
<1>1. ASSUME NEW r \in Requests, CallAdd(r) PROVE IInv'
  BY <1>1, CallAddInv
<1>2. ASSUME NEW r \in Requests, CallRemove(r) PROVE IInv'
  BY <1>2, CallRemoveInv
<1>3. ASSUME NEW r \in Requests, LockProperty(r) PROVE IInv'
  BY <1>3, LockPropertyInv
<1>4. ASSUME NEW r \in Requests, Statement(r) PROVE IInv'
  <2>1. CASE CountImages(r)
    BY <2>1, CountInv
  <2>2. CASE DemoteMain(r)
    BY <2>2, DemoteInv
  <2>3. CASE InsertImage(r)
    BY <2>3, InsertInv
  <2>4. CASE FetchImage(r)
    BY <2>4, FetchInv
  <2>5. CASE DeleteImage(r)
    BY <2>5, DeleteInv
  <2>6. CASE FindSurvivor(r)
    BY <2>6, SurvivorInv
  <2>7. CASE PromoteSurvivor(r)
    BY <2>7, PromoteInv
  <2>8. CASE Commit(r)
    BY <2>8, CommitInv
  <2>9. CASE Answer(r)
    BY <2>9, AnswerInv
  <2> QED BY <1>4, <2>1, <2>2, <2>3, <2>4, <2>5, <2>6, <2>7, <2>8, <2>9 DEF Statement
<1>5. ASSUME NEW r \in Requests, Fail(r) PROVE IInv'
  BY <1>5, AbortInv DEF Fail, InTx
<1>6. ASSUME NEW r \in Requests, Return(r) PROVE IInv'
  BY <1>6, ReturnInv
<1>7. ASSUME NEW p \in Properties, SoftDelete(p) PROVE IInv'
  BY <1>7, SoftDeleteInv
<1>8. ASSUME NEW p \in Properties, Restore(p) PROVE IInv'
  BY <1>8, RestoreInv
<1>9. CASE UNCHANGED vars
  <2>1. UNCHANGED <<images, live, lock, pc, req, writes, reply>>
    BY <1>9 DEF vars
  <2>2. TypeOK' /\ GalleryOK' /\ LockInv' /\ DisjointWrites'
    BY <2>1 DEF IInv, TypeOK, GalleryOK, DisjointWrites
  <2>3. \A r \in Requests : TxInv(images', pc'[r], req'[r], writes'[r])
    BY <2>1 DEF IInv
  <2> QED BY <2>2, <2>3 DEF IInv
<1> QED BY <1>1, <1>2, <1>3, <1>4, <1>5, <1>6, <1>7, <1>8, <1>9 DEF Next

\* Only a commit changes the table.
LEMMA TableSteps ==
    ASSUME [Next]_vars
    PROVE  \/ UNCHANGED images
           \/ \E r \in Requests : Commit(r)
<1>1. ASSUME NEW r \in Requests, Statement(r), ~Commit(r)
      PROVE  UNCHANGED images
  BY <1>1 DEF Statement, CountImages, DemoteMain, InsertImage, FetchImage, DeleteImage,
              FindSurvivor, PromoteSurvivor, Answer, Abort
<1>2. ASSUME NEW r \in Requests,
             CallAdd(r) \/ CallRemove(r) \/ LockProperty(r) \/ Fail(r) \/ Return(r)
      PROVE  UNCHANGED images
  BY <1>2 DEF CallAdd, CallRemove, Call, LockProperty, Fail, Return, Abort
<1> QED BY <1>1, <1>2 DEF Next, SoftDelete, Restore, vars

\* The strengthened invariant: the holder of a listing's row lock alone works on
\* its gallery, and its uncommitted writes are the ones its next statements rely
\* on (AddPropertyImage, RemovePropertyImage).
THEOREM Inductive == Spec => []IInv
  BY InitIInv, NextIInv, PTL DEF Spec

\* Every state component keeps its type, for any number of requests, listings
\* and images.
THEOREM TypeCorrect == Spec => []TypeOK
<1>1. IInv => TypeOK
  BY DEF IInv
<1> QED BY <1>1, Inductive, PTL

\* However AddPropertyImage and RemovePropertyImage interleave and fail, every
\* committed gallery is within its limit and has exactly one main image unless
\* it is empty.
THEOREM GalleriesWellFormed == Spec => []GalleryOK
<1>1. IInv => GalleryOK
  BY DEF IInv
<1> QED BY <1>1, Inductive, PTL

-----------------------------------------------------------------------------
\* The operators of ImageGallery are those of this module.
LEMMA SameOperators ==
    /\ \A t, p : Gallery!ImagesOf(t, p) = ImagesOf(t, p)
    /\ \A S : Gallery!Cardinality(S) = Cardinality(S)
    /\ \A t, p : Gallery!Mains(t, p) = Mains(t, p)
    /\ \A t, S : Gallery!Lowest(t, S) = Lowest(t, S)
    /\ \A t, p, i, m, k : Gallery!Added(t, p, i, m, k) = Added(t, p, i, m, k)
    /\ \A t, i : Gallery!Removed(t, i) = Removed(t, i)
    /\ \A t, i, s : Gallery!Succeeded(t, i, s) = Succeeded(t, i, s)
<1>1. \A t, p : Gallery!ImagesOf(t, p) = ImagesOf(t, p)
  BY DEF Gallery!ImagesOf, ImagesOf
<1>2. \A t, p : Gallery!Mains(t, p) = Mains(t, p)
  BY <1>1 DEF Gallery!Mains, Mains
<1>3. \A t, S : Gallery!Lowest(t, S) = Lowest(t, S)
  BY DEF Gallery!Lowest, Lowest
<1>4. \A t, p, i, m, k : Gallery!Added(t, p, i, m, k) = Added(t, p, i, m, k)
  BY <1>2 DEF Gallery!Added, Added, Gallery!NewRow, NewRow, Gallery!Demoted, Demoted
<1>5. \A t, i : Gallery!Removed(t, i) = Removed(t, i)
  BY DEF Gallery!Removed, Removed
<1>6. \A t, i, s : Gallery!Succeeded(t, i, s) = Succeeded(t, i, s)
  BY DEF Gallery!Succeeded, Succeeded, Gallery!Promoted, Promoted
<1>7. \A S : Gallery!Cardinality(S) = Cardinality(S)
  BY DEF Gallery!Cardinality, Cardinality
<1> QED BY <1>1, <1>2, <1>3, <1>4, <1>5, <1>6, <1>7

LEMMA CommitImplements ==
    ASSUME IInv, NEW r \in Requests, Commit(r)
    PROVE  Gallery!Next
<1> DEFINE q == req[r]
           p == q.property
<1>1. pc[r] = "commit" /\ images' = View(r) /\ live' = live
  BY DEF Commit
<1>2. p \in live /\ p \in Properties /\ q.is_main \in BOOLEAN
  BY <1>1, InTxFacts DEF IInv, InTx, Req
<1>3. CASE CommitsAdd(r)
  <2>1. q.is_main = (q.is_main \/ ImagesOf(images, p) = {})
    BY <1>2, <1>3 DEF CommitsAdd, Room
  <2>2. images' = Added(images, p, q.image, q.is_main \/ ImagesOf(images, p) = {}, q.position)
    BY <1>1, <1>3, <2>1 DEF CommitsAdd
  <2>3. Gallery!AddImage(p, q.image, q.is_main, q.position)
    BY <1>1, <1>2, <1>3, <2>2, SameOperators DEF Gallery!AddImage, CommitsAdd, Room
  <2> QED BY <1>2, <1>3, <2>3 DEF Gallery!Next, CommitsAdd
<1>4. CASE CommitsRemove(r)
  <2>1. Gallery!RemovePlain(p, q.image)
    BY <1>1, <1>2, <1>4, SameOperators DEF Gallery!RemovePlain, CommitsRemove
  <2> QED BY <1>2, <1>4, <2>1 DEF Gallery!Next, CommitsRemove, ImagesOf
<1>5. CASE CommitsSucceed(r)
  <2>1. Gallery!RemoveMain(p, q.image, q.survivor)
    BY <1>1, <1>2, <1>5, SameOperators DEF Gallery!RemoveMain, CommitsSucceed, Successor
  <2>2. q.image \in Images /\ q.survivor \in Images
    BY <1>5 DEF CommitsSucceed, Successor, Lowest, Mains, ImagesOf
  <2> QED BY <1>2, <2>1, <2>2 DEF Gallery!Next
<1> QED BY <1>1, <1>3, <1>4, <1>5, CommitView

LEMMA StepImplements ==
    IInv /\ [Next]_vars => [Gallery!Next]_(Gallery!vars)
<1> SUFFICES ASSUME IInv, [Next]_vars PROVE [Gallery!Next]_(Gallery!vars)
  OBVIOUS
<1>1. ASSUME NEW r \in Requests, Commit(r) PROVE Gallery!Next
  BY <1>1, CommitImplements
<1>2. ASSUME NEW p \in Properties, SoftDelete(p) PROVE Gallery!Next
  BY <1>2 DEF SoftDelete, Gallery!Next, Gallery!SoftDelete
<1>3. ASSUME NEW p \in Properties, Restore(p) PROVE Gallery!Next
  BY <1>3 DEF Restore, Gallery!Next, Gallery!Restore
<1>4. ASSUME NEW r \in Requests, Statement(r), ~Commit(r)
      PROVE  UNCHANGED <<images, live>>
  BY <1>4 DEF Statement, CountImages, DemoteMain, InsertImage, FetchImage, DeleteImage,
              FindSurvivor, PromoteSurvivor, Answer, Abort
<1>5. ASSUME NEW r \in Requests,
             CallAdd(r) \/ CallRemove(r) \/ LockProperty(r) \/ Fail(r) \/ Return(r)
      PROVE  UNCHANGED <<images, live>>
  BY <1>5 DEF CallAdd, CallRemove, Call, LockProperty, Fail, Return, Abort
<1>6. CASE UNCHANGED vars
  BY <1>6 DEF vars, Gallery!vars
<1> QED BY <1>1, <1>2, <1>3, <1>4, <1>5, <1>6 DEF Next, Gallery!vars

\* Every behaviour of the transactions, seen through the committed table and
\* the set of live listings, is one of the atomic operations of ImageGallery.
THEOREM Refinement == Spec => ImplementsGallery
<1>1. Init => Gallery!Init
  BY DEF Init, Gallery!Init
<1> QED BY <1>1, InitIInv, NextIInv, StepImplements, PTL DEF Spec, ImplementsGallery, Gallery!Spec

-----------------------------------------------------------------------------
\* The rows a commit changes are rows of its own listing.
LEMMA CommitRows ==
    ASSUME IInv, NEW r \in Requests, pc[r] = "commit",
           NEW i \in Images, View(r)[i] # images[i]
    PROVE  \A row \in {images[i], View(r)[i]} \ {NoRow} : row.property = req[r].property
<1>1. images \in Tables /\ View(r) \in Tables
  BY CommitWellFormed DEF IInv, TypeOK
<1>2. ASSUME images[i] # NoRow PROVE images[i].property = req[r].property
  <2>1. images[i].property \in Properties /\ i \in ImagesOf(images, images[i].property)
    BY <1>1, <1>2, RowFacts DEF Row, ImagesOf
  <2> QED BY <2>1, CommitFrame
<1>3. ASSUME View(r)[i] # NoRow PROVE View(r)[i].property = req[r].property
  <2>1. View(r)[i].property \in Properties /\ i \in ImagesOf(View(r), View(r)[i].property)
    BY <1>1, <1>3, RowFacts DEF Row, ImagesOf
  <2> QED BY <2>1, CommitFrame
<1> QED BY <1>2, <1>3

\* Only a request of the listing's owner changes its gallery.
THEOREM OwnerTheorem == Spec => OnlyOwnerChanges
<1>1. ASSUME IInv, [Next]_vars, NEW i \in Images, images'[i] # images[i]
      PROVE  ByOwner(i)
  <2>1. PICK r \in Requests : Commit(r)
    BY <1>1, TableSteps
  <2>2. pc[r] = "commit" /\ images' = View(r) /\ pc'[r] = "committed"
    BY <1>1, <2>1 DEF Commit, Goto, IInv, TypeOK
  <2>3. Owner[req[r].property] = req[r].caller
    BY <1>1, <2>2 DEF IInv, InTx
  <2>4. \A row \in {images[i], images'[i]} \ {NoRow} : row.property = req[r].property
    BY <1>1, <2>2, CommitRows
  <2> QED BY <2>2, <2>3, <2>4 DEF ByOwner
<1>2. IInv /\ [Next]_vars => \A i \in Images : images'[i] # images[i] => ByOwner(i)
  BY <1>1
<1> QED BY <1>2, InitIInv, NextIInv, PTL DEF Spec, OnlyOwnerChanges

\* The gallery of a deleted listing does not change: an image operation holds
\* the row lock until it commits, so a deletion cannot come in between.
THEOREM FrozenTheorem == Spec => DeletedGalleryFrozen
<1>1. ASSUME IInv, [Next]_vars, NEW p \in Properties, p \notin live \cap live'
      PROVE  Frozen(p)
  <2>1. CASE UNCHANGED images
    BY <2>1 DEF Frozen
  <2>2. ASSUME NEW r \in Requests, Commit(r) PROVE Frozen(p)
    <3>1. pc[r] = "commit" /\ images' = View(r) /\ live' = live
      BY <2>2 DEF Commit
    <3>2. req[r].property \in live
      BY <1>1, <3>1 DEF IInv, InTx
    <3>3. p # req[r].property
      BY <1>1, <3>1, <3>2
    <3> QED BY <1>1, <3>1, <3>3, CommitFrame DEF Frozen
  <2> QED BY <1>1, <2>1, <2>2, TableSteps
<1>2. IInv /\ [Next]_vars => \A p \in Properties : p \notin live \cap live' => Frozen(p)
  BY <1>1
<1> QED BY <1>2, InitIInv, NextIInv, PTL DEF Spec, DeletedGalleryFrozen

LEMMA CommitSuccession ==
    ASSUME IInv, NEW r \in Requests, Commit(r), NEW p \in Properties
    PROVE  SuccessionOK(p)
<1> DEFINE q == req[r]
<1>1. pc[r] = "commit" /\ images' = View(r) /\ images \in Tables
  BY DEF Commit, IInv, TypeOK
<1>2. q \in Req /\ q.property \in Properties /\ q.is_main \in BOOLEAN
  BY <1>1, InTxFacts DEF InTx, Req
<1>3. SUFFICES ASSUME NEW m \in Mains(images, p)
               PROVE  \/ m \in Mains(images', p)
                      \/ m \in ImagesOf(images', p)
                         /\ \E s \in Mains(images', p) : s \notin ImagesOf(images, p)
                      \/ m \notin ImagesOf(images', p) /\ ImagesOf(images', p) = {}
                      \/ m \notin ImagesOf(images', p)
                         /\ \E s \in Lowest(images, ImagesOf(images, p) \ {m}) :
                                Mains(images', p) = {s}
  BY DEF SuccessionOK
<1>4. m \in ImagesOf(images, p) /\ m \in Images /\ images[m] # NoRow
      /\ images[m].property = p /\ images[m].is_main
  BY DEF Mains, ImagesOf
<1>5. Mains(images, p) = {m}
  BY <1>4 DEF IInv, GalleryOK, WellFormed, OneMain
<1>6. CASE p # q.property
  BY <1>1, <1>4, <1>6, CommitFrame DEF Mains
<1>7. CASE p = q.property /\ CommitsAdd(r)
  <2>1. q.image \in Images /\ images[q.image] = NoRow /\ q.image # m
        /\ q.image \notin ImagesOf(images, p) /\ q.position \in Positions
    BY <1>4, <1>7 DEF CommitsAdd, ImagesOf
  <2>2. /\ images'[q.image] = NewRow(p, q.is_main, q.position)
        /\ images'[m] = IF q.is_main THEN Demoted(images[m]) ELSE images[m]
    BY <1>1, <1>3, <1>4, <1>7, <2>1 DEF CommitsAdd, Added
  <2>3. CASE q.is_main
    <3>1. q.image \in Mains(images', p)
      <4>1. /\ images'[q.image] # NoRow /\ images'[q.image].property = p
            /\ images'[q.image].is_main
        <5>1. q.is_main = TRUE
          BY <1>2, <2>3
        <5>2. images'[q.image] = NewRow(p, TRUE, q.position)
          BY <2>2, <5>1
        <5>3. NewRow(p, TRUE, q.position) \in Row /\ NewRow(p, TRUE, q.position) # NoRow
          BY <2>1, NewRowFacts
        <5>4. NewRow(p, TRUE, q.position).property = p /\ NewRow(p, TRUE, q.position).is_main
          BY DEF NewRow
        <5> QED BY <5>2, <5>3, <5>4
      <4> QED BY <2>1, <4>1 DEF Mains, ImagesOf
    <3>2. m \in ImagesOf(images', p)
      BY <1>1, <1>4, <2>2, <2>3, RowFacts DEF ImagesOf
    <3> QED BY <2>1, <3>1, <3>2
  <2>4. CASE ~q.is_main
    BY <1>4, <2>2, <2>4 DEF Mains, ImagesOf
  <2> QED BY <2>3, <2>4
<1>8. CASE p = q.property /\ CommitsRemove(r)
  <2>1. \A j \in Images : images'[j] = IF j = q.image THEN NoRow ELSE images[j]
    BY <1>1, <1>8 DEF CommitsRemove, Removed
  <2>2. CASE m = q.image
    BY <1>3, <1>8, <2>1, <2>2 DEF CommitsRemove, ImagesOf
  <2>3. CASE m # q.image
    BY <1>4, <2>1, <2>3 DEF Mains, ImagesOf
  <2> QED BY <2>2, <2>3
<1>9. CASE p = q.property /\ CommitsSucceed(r)
  <2> DEFINE s == q.survivor
  <2>1. m = q.image
    BY <1>5, <1>9 DEF CommitsSucceed
  <2>2. s \in Lowest(images, ImagesOf(images, p) \ {m})
    BY <1>9, <2>1 DEF CommitsSucceed, Successor
  <2>3. /\ s \in ImagesOf(images, p) /\ s # m
        /\ s \in Images /\ images[s] # NoRow /\ images[s].property = p
    BY <2>2 DEF Lowest, ImagesOf
  <2>4. /\ images'[m] = NoRow
        /\ images'[s] = Promoted(images[s])
        /\ \A j \in Images \ {m, s} : images'[j] = images[j]
    BY <1>1, <1>4, <1>9, <2>1, <2>3 DEF CommitsSucceed, Succeeded
  <2>5. m \notin ImagesOf(images', p)
    BY <2>4 DEF ImagesOf
  <2>6. s \in Mains(images', p)
    <3>1. images'[s] # NoRow /\ images'[s].property = p /\ images'[s].is_main
      BY <1>1, <2>3, <2>4, RowFacts
    <3> QED BY <2>3, <3>1 DEF Mains, ImagesOf
  <2>7. \A j \in Mains(images', p) : j = s
    BY <1>5, <2>4, <2>5 DEF Mains, ImagesOf
  <2>8. Mains(images', p) = {s}
    BY <2>6, <2>7
  <2> QED BY <2>2, <2>5, <2>8
<1> QED BY <1>1, <1>6, <1>7, <1>8, <1>9, CommitView

\* A main image is succeeded only by an image that has just joined, or, when it
\* leaves, by the survivor of lowest position.
THEOREM SuccessionTheorem == Spec => MainSuccession
<1>1. ASSUME IInv, [Next]_vars, NEW p \in Properties
      PROVE  SuccessionOK(p)
  <2>1. CASE UNCHANGED images
    BY <2>1 DEF SuccessionOK
  <2>2. ASSUME NEW r \in Requests, Commit(r) PROVE SuccessionOK(p)
    BY <1>1, <2>2, CommitSuccession
  <2> QED BY <1>1, <2>1, <2>2, TableSteps
<1>2. IInv /\ [Next]_vars => \A p \in Properties : SuccessionOK(p)
  BY <1>1
<1> QED BY <1>2, InitIInv, NextIInv, PTL DEF Spec, MainSuccession

-----------------------------------------------------------------------------
\* Until its last statement a transaction makes no image main.
LEMMA ViewMains ==
    ASSUME IInv, NEW r \in Requests, pc[r] # "commit", NEW p \in Properties
    PROVE  Mains(View(r), p) \subseteq Mains(images, p)
<1> DEFINE q == req[r]
           w == writes[r]
<1>1. pc[r] \in PC /\ images \in Tables /\ TxInv(images, pc[r], q, w)
  BY DEF IInv, TypeOK
<1>2. \/ w = Clean
      \/ w = DemoteWrites(images, q)
      \/ w = RemoveWrites(q)
  BY <1>1 DEF TxInv, PC, InTx
<1>3. ASSUME NEW i \in Images, View(r)[i] # NoRow, View(r)[i].is_main
      PROVE  View(r)[i] = images[i]
  <2>1. View(r)[i] = IF w[i] = Same THEN images[i] ELSE w[i]
    BY DEF View, Overlay
  <2>2. CASE w[i] = Same
    BY <2>1, <2>2
  <2>3. CASE w[i] # Same
    <3>1. /\ w = DemoteWrites(images, q)
          /\ i \in Mains(images, q.property) /\ w[i] = Demoted(images[i])
      BY <1>2, <1>3, <2>1, <2>3 DEF Clean, DemoteWrites, RemoveWrites
    <3>2. images[i] \in Row
      BY <1>1, <3>1 DEF Mains, ImagesOf, Tables
    <3> QED BY <1>3, <2>1, <2>3, <3>1, <3>2 DEF Demoted, Row
  <2> QED BY <2>2, <2>3
<1> QED BY <1>3 DEF Mains, ImagesOf

\* No statement of an add or a removal runs into the partial unique index on
\* main images (AddPropertyImage demotes before it inserts, RemovePropertyImage
\* deletes before it promotes).
THEOREM IndexTheorem == Spec => []OneMainIndexHolds
<1>1. IInv => OneMainIndexHolds
  <2> SUFFICES ASSUME IInv, NEW r \in Requests, NEW p \in Properties,
                      NEW i \in Mains(View(r), p), NEW j \in Mains(View(r), p)
               PROVE  i = j
    BY DEF OneMainIndexHolds
  <2>1. \E table : /\ WellFormed(table)
                   /\ i \in Mains(table, p) /\ j \in Mains(table, p)
    <3>1. CASE pc[r] = "commit"
      BY <3>1, CommitWellFormed
    <3>2. CASE pc[r] # "commit"
      BY <3>2, ViewMains DEF IInv, GalleryOK
    <3> QED BY <3>1, <3>2
  <2>2. PICK table : WellFormed(table) /\ i \in Mains(table, p) /\ j \in Mains(table, p)
    BY <2>1
  <2>3. ImagesOf(table, p) # {}
    BY <2>2 DEF Mains
  <2> QED BY <2>2, <2>3 DEF WellFormed, OneMain
<1> QED BY <1>1, Inductive, PTL

-----------------------------------------------------------------------------
\* Only an owner gets past the row lock.
Admitted ==
    \A r \in Requests : pc[r] = "committed" => Owner[req[r].property] = req[r].caller

LEMMA AdmittedStep ==
    ASSUME IInv, [Next]_vars, Admitted, StrangersLearnNothing
    PROVE  Admitted' /\ StrangersLearnNothing'
<1> DEFINE Discreet(r) ==
               /\ pc[r] = "committed" => Owner[req[r].property] = req[r].caller
               /\ pc[r] = "done" /\ Owner[req[r].property] # req[r].caller
                      => reply[r] \in {"not_found", "internal"}
<1>1. \A r \in Requests : Discreet(r)
  BY DEF Admitted, StrangersLearnNothing
<1>2. /\ pc \in [Requests -> PC] /\ DOMAIN req = Requests /\ DOMAIN reply = Requests
      /\ \A r \in Requests :
             pc[r] \in InTx => Owner[req[r].property] = req[r].caller
  BY DEF IInv, TypeOK
<1>3. ASSUME NEW r \in Requests, NEW o \in Requests, o # r,
             \/ CallAdd(r) \/ CallRemove(r) \/ LockProperty(r) \/ Statement(r)
             \/ Fail(r) \/ Return(r)
      PROVE  pc'[o] = pc[o] /\ req'[o] = req[o] /\ reply'[o] = reply[o]
  BY <1>2, <1>3
     DEF CallAdd, CallRemove, Call, LockProperty, Statement, CountImages, DemoteMain,
         InsertImage, FetchImage, DeleteImage, FindSurvivor, PromoteSurvivor, Commit, Answer,
         Fail, Return, Abort, Goto
<1>4. ASSUME NEW r \in Requests,
             CallAdd(r) \/ CallRemove(r) \/ Return(r)
      PROVE  Discreet(r)'
  BY <1>2, <1>4 DEF CallAdd, CallRemove, Call, Return, Goto
<1>5. ASSUME NEW r \in Requests, NEW err, Abort(r, err),
             pc[r] \in InTx \cup {"committed"} \/ CodeOf(err) \in {"not_found", "internal"}
      PROVE  Discreet(r)'
  BY <1>1, <1>2, <1>5 DEF Abort, Goto
<1>6. /\ CodeOf("ErrRecordNotFound") = "not_found" /\ CodeOf("ErrNotOwner") = "not_found"
      /\ CodeOf("error") = "internal"
  BY DEF CodeOf
<1>7. ASSUME NEW r \in Requests, LockProperty(r) PROVE Discreet(r)'
  <2>1. CASE \E err \in {"ErrRecordNotFound", "ErrNotOwner"} : Abort(r, err)
    BY <1>5, <1>6, <2>1
  <2>2. CASE Goto(r, IF req[r].op = "add" THEN "count" ELSE "fetch")
    BY <1>2, <2>2 DEF Goto
  <2> QED BY <1>7, <2>1, <2>2 DEF LockProperty
<1>8. ASSUME NEW r \in Requests, Statement(r) PROVE Discreet(r)'
  <2>1. CASE \E err : Abort(r, err) /\ pc[r] \in InTx
    BY <1>5, <2>1
  <2>2. CASE /\ pc[r] \in InTx /\ req'[r].property = req[r].property
             /\ req'[r].caller = req[r].caller /\ pc'[r] # "done"
    BY <1>2, <2>2
  <2>3. CASE Answer(r)
    BY <1>1, <1>2, <2>3 DEF Answer, Goto
  <2>4. req[r] \in Req \cup {None}
    BY DEF IInv, TypeOK
  <2>5. pc[r] \in InTx => req[r] \in Req
    BY DEF IInv, InTx
  <2>6. ASSUME ~Answer(r), ~ \E err : Abort(r, err) /\ pc[r] \in InTx
        PROVE  /\ pc[r] \in InTx /\ req'[r].property = req[r].property
               /\ req'[r].caller = req[r].caller /\ pc'[r] # "done"
    BY <1>2, <1>8, <2>5, <2>6
       DEF Statement, CountImages, DemoteMain, InsertImage, FetchImage, DeleteImage,
           FindSurvivor, PromoteSurvivor, Commit, Goto, InTx, Req
  <2> QED BY <2>1, <2>2, <2>3, <2>6
<1>9. ASSUME NEW r \in Requests, Fail(r) PROVE Discreet(r)'
  BY <1>5, <1>6, <1>9 DEF Fail
<1>10. ASSUME NEW r \in Requests, UNCHANGED <<pc, req, reply>> PROVE Discreet(r)'
  BY <1>1, <1>10
<1>11. \A r \in Requests : Discreet(r)'
  BY <1>1, <1>3, <1>4, <1>7, <1>8, <1>9, <1>10 DEF Next, SoftDelete, Restore, vars
<1> QED BY <1>11 DEF Admitted, StrangersLearnNothing

\* An answer never tells a stranger whether a listing exists or how full its
\* gallery is (ErrNotOwner, mapOwnershipError).
THEOREM StrangersTheorem == Spec => []StrangersLearnNothing
<1> DEFINE Inv == IInv /\ Admitted /\ StrangersLearnNothing
<1>1. Init => Inv
  BY InitIInv DEF Init, Admitted, StrangersLearnNothing
<1>2. Inv /\ [Next]_vars => Inv'
  BY NextIInv, AdmittedStep
<1>3. Inv => StrangersLearnNothing
  OBVIOUS
<1> QED BY <1>1, <1>2, <1>3, PTL DEF Spec

-----------------------------------------------------------------------------
(***************************************************************************)
(* Why every request is answered, as far as safety goes: who holds a row   *)
(* lock waits for nothing but the database, holds no other, and is only so *)
(* many statements from letting it go.  What is left to the liveness runs  *)
(* is that each statement is answered and each lock granted in turn.       *)
(***************************************************************************)
LocksInUse ==
    \A p \in Properties : lock[p] # None =>
        /\ pc[lock[p]] \in InTx
        /\ req[lock[p]].property = p
        /\ \A o \in Properties : lock[o] = lock[p] => o = p

\* No circle of requests waits for row locks, and no lock outlives the
\* transaction that took it (LockProperty waits outside InTx).
THEOREM LocksTheorem == Spec => []LocksInUse
<1>1. IInv => LocksInUse
  BY DEF IInv, LocksInUse
<1> QED BY <1>1, Inductive, PTL

\* The statements of a request that may still follow the one at label.
Left(label) ==
    CASE label = "lock"                   -> 7
      [] label \in {"count", "fetch"}     -> 6
      [] label \in {"demote", "delete"}   -> 5
      [] label \in {"insert", "survivor"} -> 4
      [] label = "promote"                -> 3
      [] label = "commit"                 -> 2
      [] label = "committed"              -> 1
      [] label \in {"done", "idle"}       -> 0

\* A statement of r, or its failure, ends no later than it must.
StatementEnds(r) == Left(pc'[r]) < Left(pc[r])

LEMMA LeftValues ==
    /\ Left("lock") = 7
    /\ Left("count") = 6 /\ Left("demote") = 5 /\ Left("insert") = 4
    /\ Left("fetch") = 6 /\ Left("delete") = 5 /\ Left("survivor") = 4 /\ Left("promote") = 3
    /\ Left("commit") = 2 /\ Left("committed") = 1 /\ Left("done") = 0
  BY DEF Left

LEMMA EachStatementEnds ==
    ASSUME TypeOK, NEW r \in Requests, LockProperty(r) \/ Statement(r) \/ Fail(r)
    PROVE  StatementEnds(r)
<1>1. ASSUME NEW label, Goto(r, label), Left(label) < Left(pc[r]) PROVE StatementEnds(r)
  <2>1. pc'[r] = label
    BY <1>1 DEF Goto, TypeOK
  <2> QED BY <1>1, <2>1 DEF StatementEnds
<1>2. ASSUME NEW err, Abort(r, err), pc[r] \in InTx \cup {"lock", "committed"}
      PROVE  StatementEnds(r)
  <2>1. 0 < Left(pc[r])
    BY <1>2, LeftValues DEF InTx
  <2> QED BY <1>1, <1>2, <2>1, LeftValues DEF Abort
<1>3. CASE LockProperty(r)
  <2>1. CASE Goto(r, "count") \/ Goto(r, "fetch")
    BY <1>1, <1>3, <2>1, LeftValues DEF LockProperty
  <2> QED BY <1>2, <1>3, <2>1 DEF LockProperty
<1>4. CASE CountImages(r)
  <2>1. CASE Goto(r, "demote") \/ Goto(r, "insert")
    BY <1>1, <1>4, <2>1, LeftValues DEF CountImages
  <2>2. pc[r] \in InTx
    BY <1>4 DEF CountImages, InTx
  <2> QED BY <1>2, <1>4, <2>1, <2>2 DEF CountImages
<1>5. CASE FetchImage(r)
  <2>1. CASE Goto(r, "delete")
    BY <1>1, <1>5, <2>1, LeftValues DEF FetchImage
  <2>2. pc[r] \in InTx
    BY <1>5 DEF FetchImage, InTx
  <2> QED BY <1>2, <1>5, <2>1, <2>2 DEF FetchImage
<1>6. CASE DeleteImage(r)
  <2>1. Goto(r, "survivor") \/ Goto(r, "commit")
    BY <1>6 DEF DeleteImage
  <2> QED BY <1>1, <1>6, <2>1, LeftValues DEF DeleteImage
<1>7. CASE FindSurvivor(r)
  <2>1. Goto(r, "promote") \/ Goto(r, "commit")
    BY <1>7 DEF FindSurvivor
  <2> QED BY <1>1, <1>7, <2>1, LeftValues DEF FindSurvivor
<1>8. CASE DemoteMain(r) \/ InsertImage(r) \/ PromoteSurvivor(r)
  BY <1>1, <1>8, LeftValues DEF DemoteMain, InsertImage, PromoteSurvivor
<1>9. CASE Commit(r) \/ Answer(r)
  BY <1>1, <1>9, LeftValues DEF Commit, Answer
<1>10. CASE Fail(r)
  BY <1>2, <1>10 DEF Fail
<1> QED BY <1>3, <1>4, <1>5, <1>6, <1>7, <1>8, <1>9, <1>10 DEF Statement

\* Only the request itself, and only forward: no step of another request, and no
\* deletion or restore, sets a request back, so it issues at most seven statements.
THEOREM StatementsEnd ==
    Spec => [][\A r \in Requests :
                   pc[r] \notin {"idle", "done"} /\ pc'[r] # pc[r] => StatementEnds(r)]_vars
<1>1. ASSUME TypeOK, [Next]_vars, NEW r \in Requests,
             pc[r] \notin {"idle", "done"}, pc'[r] # pc[r]
      PROVE  StatementEnds(r)
  <2>1. PICK o \in Requests : \/ CallAdd(o) \/ CallRemove(o) \/ Return(o)
                             \/ LockProperty(o) \/ Statement(o) \/ Fail(o)
    BY <1>1 DEF Next, SoftDelete, Restore, vars
  <2>2. \E label : Goto(o, label)
    BY <2>1 DEF CallAdd, CallRemove, Call, LockProperty, Statement, CountImages, DemoteMain,
                InsertImage, FetchImage, DeleteImage, FindSurvivor, PromoteSurvivor, Commit,
                Answer, Fail, Return, Abort
  <2>3. o = r
    BY <1>1, <2>2 DEF Goto, TypeOK
  <2>4. LockProperty(r) \/ Statement(r) \/ Fail(r)
    BY <1>1, <2>1, <2>3 DEF CallAdd, CallRemove, Call, Return
  <2> QED BY <1>1, <2>4, EachStatementEnds
<1>2. TypeOK /\ [Next]_vars
          => [\A r \in Requests :
                  pc[r] \notin {"idle", "done"} /\ pc'[r] # pc[r] => StatementEnds(r)]_vars
  BY <1>1
<1> QED BY <1>2, TypeCorrect, PTL DEF Spec
=============================================================================
