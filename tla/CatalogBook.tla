----------------------------- MODULE CatalogBook -----------------------------
(***************************************************************************)
(* What the catalogue promises: every write of a feature, an address or a  *)
(* link happens at a single instant, touches that one row, finds it in the *)
(* state the write needs, and leaves the rows tied to it standing.  An     *)
(* address stays with its listing.  Spec promises that what is deleted     *)
(* stays so; LateSpec promises all but that, which is what Catalog keeps   *)
(* when a row is deleted between the two statements of its update.         *)
(***************************************************************************)

CONSTANTS Properties, Features, Addresses, Contents, None, Gone

VARIABLES features, links, addresses

vars == <<features, links, addresses>>

Exists(x) == x \notin {None, Gone}

Init == /\ features \in [Features -> Contents \cup {None}]
        /\ links = {}
        /\ addresses = [a \in Addresses |-> None]

PutFeature(f, name) ==
    /\ features' = [features EXCEPT ![f] = name]
    /\ UNCHANGED <<links, addresses>>

CreateFeature(f) == features[f] = None /\ \E name \in Contents : PutFeature(f, name)
UpdateFeature(f) == Exists(features[f]) /\ \E name \in Contents : PutFeature(f, name)

\* Not while any listing offers it.
DeleteFeature(f) ==
    /\ Exists(features[f])
    /\ \A p \in Properties : <<p, f>> \notin links
    /\ PutFeature(f, Gone)

AddPropertyFeature(p, f) ==
    /\ Exists(features[f])
    /\ links' = links \cup {<<p, f>>}
    /\ UNCHANGED <<features, addresses>>

RemovePropertyFeature(p, f) ==
    /\ <<p, f>> \in links
    /\ links' = links \ {<<p, f>>}
    /\ UNCHANGED <<features, addresses>>

PutAddress(a, row) ==
    /\ addresses' = [addresses EXCEPT ![a] = row]
    /\ UNCHANGED <<features, links>>

\* The row says something, and belongs to listing p.
OnListing(a, p) == \E content \in Contents :
                       PutAddress(a, [content |-> content, property |-> p])

CreateAddress(a) == addresses[a] = None /\ \E p \in Properties : OnListing(a, p)
UpdateAddress(a) == Exists(addresses[a]) /\ OnListing(a, addresses[a].property)
DeleteAddress(a) == Exists(addresses[a]) /\ PutAddress(a, Gone)

Next ==
    \/ \E f \in Features :
           \/ CreateFeature(f) \/ UpdateFeature(f) \/ DeleteFeature(f)
           \/ \E p \in Properties : AddPropertyFeature(p, f) \/ RemovePropertyFeature(p, f)
    \/ \E a \in Addresses : CreateAddress(a) \/ UpdateAddress(a) \/ DeleteAddress(a)

Spec == Init /\ [][Next]_vars

-----------------------------------------------------------------------------
\* A deleted row comes back, by the update that had already read it.
UndeleteFeature(f) == features[f] = Gone /\ \E name \in Contents : PutFeature(f, name)
UndeleteAddress(a) == addresses[a] = Gone /\ \E p \in Properties : OnListing(a, p)

LateNext ==
    \/ Next
    \/ \E f \in Features : UndeleteFeature(f)
    \/ \E a \in Addresses : UndeleteAddress(a)

LateSpec == Init /\ [][LateNext]_vars
=============================================================================
