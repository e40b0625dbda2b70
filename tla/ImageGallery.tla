---------------------------- MODULE ImageGallery ----------------------------
(***************************************************************************)
(* What the image operations promise: each one happens at a single         *)
(* instant, on a live listing, and leaves the gallery well formed.  There  *)
(* are no requests, transactions or locks here; PropertyImages, which has  *)
(* them, is shown to implement this specification.                         *)
(***************************************************************************)
EXTENDS ImageTable

VARIABLES images,   \* the property_images table
          live      \* the listings whose deleted_at is NULL

vars == <<images, live>>

Init == /\ images = [i \in Images |-> NoRow]
        /\ live = Properties

\* The first image is main whatever was asked.
AddImage(p, i, is_main, position) ==
    /\ p \in live
    /\ images[i] = NoRow
    /\ Cardinality(ImagesOf(images, p)) < maxPropertyImages
    /\ images' = Added(images, p, i, is_main \/ ImagesOf(images, p) = {}, position)
    /\ UNCHANGED live

\* An image that is not main, or is the last one, leaves the gallery.
RemovePlain(p, i) ==
    /\ p \in live
    /\ i \in ImagesOf(images, p)
    /\ i \in Mains(images, p) => ImagesOf(images, p) = {i}
    /\ images' = Removed(images, i)
    /\ UNCHANGED live

\* The main image leaves and the survivor of lowest position succeeds it.
RemoveMain(p, i, s) ==
    /\ p \in live
    /\ i \in Mains(images, p)
    /\ s \in Lowest(images, ImagesOf(images, p) \ {i})
    /\ images' = Succeeded(images, i, s)
    /\ UNCHANGED live

SoftDelete(p) == p \in live    /\ live' = live \ {p}    /\ UNCHANGED images
Restore(p)    == p \notin live /\ live' = live \cup {p} /\ UNCHANGED images

Next ==
    \E p \in Properties :
        \/ \E i \in Images, is_main \in BOOLEAN, position \in Positions :
               AddImage(p, i, is_main, position)
        \/ \E i \in Images : RemovePlain(p, i)
        \/ \E i, s \in Images : RemoveMain(p, i, s)
        \/ SoftDelete(p)
        \/ Restore(p)

Spec == Init /\ [][Next]_vars

-----------------------------------------------------------------------------
TypeOK == images \in Tables /\ live \in SUBSET Properties

\* Every gallery is within its limit and has exactly one main image unless it
\* is empty.
GalleryOK == WellFormed(images)
=============================================================================
