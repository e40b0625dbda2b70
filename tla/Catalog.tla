------------------------------ MODULE Catalog ------------------------------
(***************************************************************************)
(* What hangs off a listing: its addresses and the features it offers,     *)
(* beside the catalogue of features, which anyone may edit.  Unlike        *)
(* listings these rows are deleted for good, foreign keys tie them         *)
(* together, and who owns an address or a link is only known by way of its *)
(* listing, looked up in a statement of its own.  One action per database  *)
(* statement; a request between two statements holds what it has read.     *)
(*                                                                         *)
(* ListFeatures is modelled as a client uses it: a walk through the pages, *)
(* each a count and a query, while other requests come and go.             *)
(***************************************************************************)
EXTENDS Paging

CONSTANTS Properties,   \* listing ids
          Users,
          Owner,        \* the owner of each listing, which never changes
          Features,     \* feature ids, from a sequence
          Addresses,    \* address ids
          Contents,     \* what a name or an address may say
          Limits,       \* page sizes clients ask for
          Requests,     \* RPCs, or walks, that may be in flight at once
          None,         \* no row yet, no argument, no reply yet
          Gone          \* a row that was deleted; its id is not used again

Row == [content : Contents, property : Properties]

ASSUME CatalogAssumption ==
    /\ Owner \in [Properties -> Users]
    /\ Features \subseteq Nat \ {0}
    /\ Limits \subseteq Int
    /\ None # Gone
    /\ None \notin Row \cup Contents \cup Properties
    /\ Gone \notin Row \cup Contents

VARIABLES features,    \* the names in the features table
          links,       \* properties_features
          addresses,   \* the addresses table
          live,        \* listings that are not soft-deleted
          pc,          \* the statement each request issues next
          req,         \* its arguments and what it has read
          reply,       \* the code of its last answer
          lived,       \* history: listings live at some moment of the request
          steady       \* history: features present at every moment of the walk

db   == <<features, links, addresses>>
vars == <<db, live, pc, req, reply, lived, steady>>

FeatureOps == {"create_feature", "update_feature", "delete_feature", "get_feature"}
LinkOps    == {"attach", "detach"}
AddressOps == {"create_address", "update_address", "delete_address", "get_address"}
Ops   == FeatureOps \cup LinkOps \cup AddressOps
Walk  == {"count", "page", "walked"}
PC    == {"idle", "read_feature", "upsert_feature", "read_address", "verify",
          "upsert_address"} \cup Ops \cup Walk
Codes == {"ok", "invalid_argument", "unauthenticated", "not_found", "internal"}

Req == [op : Ops, content : Contents \cup {None}, feature : Features \cup {None},
        copy : Row \cup Contents \cup {None}, address : Addresses \cup {None},
        property : Properties \cup {None}, caller : Users \cup {None}]

WalkReq == [again : SUBSET Features, shown : SUBSET Features, cursor : Nat,
            limit : Nat \ {0}]

\* The wire code of a service error (mapOwnershipError, and the handlers of
\* features, which meet no ErrNotOwner).
UnmappedCodeOf(err) == err                                         \* mutant
CodeOf(err) ==
    CASE err \in {"ErrNotOwner", "ErrRecordNotFound"} -> "not_found"
      [] OTHER                                        -> "internal"

Answer(r, code) ==
    /\ pc' = [pc EXCEPT ![r] = "idle"]
    /\ req' = [req EXCEPT ![r] = None]
    /\ reply' = [reply EXCEPT ![r] = code]

\* A write is committed; its acknowledgement, or the listing of the links by
\* the handler of AddPropertyFeature, may still fail.
Wrote(r) == \E code \in {"ok", CodeOf("error")} : Answer(r, code)

Goto(r, label, new) ==
    /\ pc' = [pc EXCEPT ![r] = label]
    /\ req' = [req EXCEPT ![r] = new]
    /\ UNCHANGED reply

Exists(x) == x \notin {None, Gone}
Present   == {f \in Features : Exists(features[f])}

\* What belongs to a listing.
LinksOf(p)     == {l \in links : l[1] = p}
AddressesOf(p) == {a \in Addresses : Exists(addresses[a]) /\ addresses[a].property = p}

-----------------------------------------------------------------------------
Init == /\ features \in [Features -> Contents \cup {None}]
        /\ links = {}
        /\ addresses = [a \in Addresses |-> None]
        /\ live = Properties
        /\ pc = [r \in Requests |-> "idle"]
        /\ req = [r \in Requests |-> None]
        /\ reply = [r \in Requests |-> None]
        /\ lived = [r \in Requests |-> {}]
        /\ steady = [r \in Requests |-> {}]

Call(r, label, args) ==
    /\ pc[r] = "idle"
    /\ pc' = [pc EXCEPT ![r] = label]
    /\ req' = [req EXCEPT ![r] = args]
    /\ reply' = [reply EXCEPT ![r] = None]
    /\ UNCHANGED <<db, live>>

Args(op) == [op |-> op, content |-> None, feature |-> None, copy |-> None,
             address |-> None, property |-> None, caller |-> None]

\* No caller, an id that does not parse, a blank street, city or state: the
\* handler answers before it reaches its service.
CallRefused(r) ==
    /\ pc[r] = "idle"
    /\ \E code \in {"unauthenticated", "invalid_argument"} : Answer(r, code)
    /\ UNCHANGED <<db, live>>

\* The handlers of features ask for no caller.
CallFeature(r) ==
    \/ \E name \in Contents :
           Call(r, "create_feature", [Args("create_feature") EXCEPT !.content = name])
    \/ \E f \in Features, name \in Contents :
           Call(r, "read_feature",
                [Args("update_feature") EXCEPT !.feature = f, !.content = name])
    \/ \E f \in Features, op \in {"delete_feature", "get_feature"} :
           Call(r, op, [Args(op) EXCEPT !.feature = f])

CallAttach(r) ==
    \E p \in Properties, f \in Features, u \in Users :
        Call(r, "verify",
             [Args("attach") EXCEPT !.property = p, !.feature = f, !.caller = u])

CallDetach(r) ==
    \E p \in Properties, f \in Features, u \in Users :
        Call(r, "verify",
             [Args("detach") EXCEPT !.property = p, !.feature = f, !.caller = u])

CallCreateAddress(r) ==
    \E p \in Properties, u \in Users, content \in Contents :
        Call(r, "verify",
             [Args("create_address") EXCEPT !.property = p, !.caller = u,
                                            !.content = content])

CallUpdateAddress(r) ==
    \E a \in Addresses, u \in Users, content \in Contents :
        Call(r, "read_address",
             [Args("update_address") EXCEPT !.address = a, !.caller = u,
                                            !.content = content])

CallDeleteAddress(r) ==
    \E a \in Addresses, u \in Users :
        Call(r, "read_address",
             [Args("delete_address") EXCEPT !.address = a, !.caller = u])

\* GetAddressByID, and GetAddressByPropertyID, which shows the addresses of a
\* deleted listing too.
CallGetAddress(r) ==
    \/ \E a \in Addresses :
           Call(r, "get_address", [Args("get_address") EXCEPT !.address = a])
    \/ \E p \in Properties :
           Call(r, "get_address", [Args("get_address") EXCEPT !.property = p])

-----------------------------------------------------------------------------
(* The features table. *)

InsertFeature(r) ==
    /\ pc[r] = "create_feature"
    /\ \E f \in Features :
           /\ features[f] = None
           /\ features' = [features EXCEPT ![f] = req[r].content]
    /\ Wrote(r)
    /\ UNCHANGED <<links, addresses, live>>

ReadFeature(r) ==
    /\ pc[r] = "read_feature"
    /\ \/ /\ ~Exists(features[req[r].feature])
          /\ Answer(r, CodeOf("ErrRecordNotFound"))
       \/ /\ Exists(features[req[r].feature])
          /\ Goto(r, "update_feature", [req[r] EXCEPT !.copy = req[r].content])
    /\ UNCHANGED <<db, live>>

\* Save updates the row if it is still there ...
SaveFeature(r) ==
    /\ pc[r] = "update_feature"
    /\ \/ /\ Exists(features[req[r].feature])
          /\ features' = [features EXCEPT ![req[r].feature] = req[r].copy]
          /\ Wrote(r)
       \/ /\ ~Exists(features[req[r].feature])
          /\ Goto(r, "upsert_feature", req[r])
          /\ UNCHANGED features
    /\ UNCHANGED <<links, addresses, live>>

\* ... and otherwise inserts it again under its old id.
UpsertFeature(r) ==
    /\ pc[r] = "upsert_feature"
    /\ features' = [features EXCEPT ![req[r].feature] = req[r].copy]
    /\ Wrote(r)
    /\ UNCHANGED <<links, addresses, live>>

\* The foreign key of properties_features refuses to delete a feature in use.
NotReferenced(f) == FALSE                                          \* mutant
Referenced(f) == \E p \in Properties : <<p, f>> \in links

\* RowsAffected of a DELETE by id.
NoRowsAffectedCheck(row) == TRUE                                   \* mutant
Affected(row) == Exists(row)

DeleteFeature(r) ==
    LET f == req[r].feature
    IN  /\ pc[r] = "delete_feature"
        /\ \/ /\ Referenced(f)
              /\ Answer(r, CodeOf("error"))
              /\ UNCHANGED features
           \/ /\ ~Referenced(f)
              /\ \/ ~Affected(features[f]) /\ Answer(r, CodeOf("ErrRecordNotFound"))
                 \/ Affected(features[f]) /\ Wrote(r)
              /\ features' = [features EXCEPT ![f] = IF Exists(@) THEN Gone ELSE @]
        /\ UNCHANGED <<links, addresses, live>>

GetFeature(r) ==
    /\ pc[r] = "get_feature"
    /\ Answer(r, IF Exists(features[req[r].feature]) THEN "ok"
                 ELSE CodeOf("ErrRecordNotFound"))
    /\ UNCHANGED <<db, live>>

-----------------------------------------------------------------------------
(* Whose listing it is: verifyPropertyOwner for addresses, the same two    *)
(* checks in AddPropertyFeature and RemovePropertyFeature.                 *)

AnyListing(p) == TRUE                                              \* mutant
Visible(p) == p \in live

AnyCaller(r) == TRUE                                               \* mutant
verifyOwner(r) == Owner[req[r].property] = req[r].caller

VerifyOwner(r) ==
    /\ pc[r] = "verify"
    /\ \/ ~Visible(req[r].property) /\ Answer(r, CodeOf("ErrRecordNotFound"))
       \/ /\ Visible(req[r].property) /\ ~verifyOwner(r)
          /\ Answer(r, CodeOf("ErrNotOwner"))
       \/ /\ Visible(req[r].property) /\ verifyOwner(r)
          /\ Goto(r, req[r].op, req[r])
    /\ UNCHANGED <<db, live>>

-----------------------------------------------------------------------------
(* The properties_features table. *)

\* The foreign key admits a link only to a feature that exists.
AnyFeature(f) == TRUE                                              \* mutant
Attachable(f) == Exists(features[f])

\* INSERT ... ON CONFLICT DO NOTHING: attaching twice is attaching once.
AttachFeature(r) ==
    LET link == <<req[r].property, req[r].feature>>
    IN  /\ pc[r] = "attach"
        /\ \/ /\ Attachable(req[r].feature)
              /\ links' = links \cup {link}
              /\ Wrote(r)
           \/ /\ ~Attachable(req[r].feature)
              /\ Answer(r, CodeOf("error"))
              /\ UNCHANGED links
        /\ UNCHANGED <<features, addresses, live>>

DetachFeature(r) ==
    LET link == <<req[r].property, req[r].feature>>
    IN  /\ pc[r] = "detach"
        /\ \/ link \notin links /\ Answer(r, CodeOf("ErrRecordNotFound"))
           \/ link \in links /\ Wrote(r)
        /\ links' = links \ {link}
        /\ UNCHANGED <<features, addresses, live>>

-----------------------------------------------------------------------------
(* The addresses table. *)

InsertAddress(r) ==
    /\ pc[r] = "create_address"
    /\ \E a \in Addresses :
           /\ addresses[a] = None
           /\ addresses' = [addresses EXCEPT
                 ![a] = [content |-> req[r].content, property |-> req[r].property]]
    /\ Wrote(r)
    /\ UNCHANGED <<features, links, live>>

\* The columns an update sets; the listing an address belongs to is not one.
Edited(q, old) ==
    IF q.op = "update_address" THEN [old EXCEPT !.content = q.content] ELSE old

\* An update or a deletion learns from the row which listing to ask about.
ReadAddress(r) ==
    LET row == addresses[req[r].address]
    IN  /\ pc[r] = "read_address"
        /\ \/ ~Exists(row) /\ Answer(r, CodeOf("ErrRecordNotFound"))
           \/ /\ Exists(row)
              /\ Goto(r, "verify", [req[r] EXCEPT !.property = row.property,
                                                  !.copy = Edited(req[r], row)])
        /\ UNCHANGED <<db, live>>

SaveAddress(r) ==
    /\ pc[r] = "update_address"
    /\ \/ /\ Exists(addresses[req[r].address])
          /\ addresses' = [addresses EXCEPT ![req[r].address] = req[r].copy]
          /\ Wrote(r)
       \/ /\ ~Exists(addresses[req[r].address])
          /\ Goto(r, "upsert_address", req[r])
          /\ UNCHANGED addresses
    /\ UNCHANGED <<features, links, live>>

\* Save's second statement: the deleted address is back.
UpsertAddress(r) ==
    /\ pc[r] = "upsert_address"
    /\ addresses' = [addresses EXCEPT ![req[r].address] = req[r].copy]
    /\ Wrote(r)
    /\ UNCHANGED <<features, links, live>>

DeleteAddress(r) ==
    LET a == req[r].address
    IN  /\ pc[r] = "delete_address"
        /\ \/ ~Affected(addresses[a]) /\ Answer(r, CodeOf("ErrRecordNotFound"))
           \/ Affected(addresses[a]) /\ Wrote(r)
        /\ addresses' = [addresses EXCEPT ![a] = IF Exists(@) THEN Gone ELSE @]
        /\ UNCHANGED <<features, links, live>>

GetAddress(r) ==
    LET found == IF req[r].property = None THEN Exists(addresses[req[r].address])
                 ELSE AddressesOf(req[r].property) # {}
    IN  /\ pc[r] = "get_address"
        /\ Answer(r, IF found THEN "ok" ELSE CodeOf("ErrRecordNotFound"))
        /\ UNCHANGED <<db, live>>

-----------------------------------------------------------------------------
(* A walk through the pages of ListFeatures. *)

CallListFeatures(r) ==
    \E limit \in Limits :
        Call(r, "count", [again |-> {}, shown |-> {}, cursor |-> 0,
                          limit |-> PageSize(limit)])

\* The total is counted in a statement before the page.
CountFeatures(r) ==
    /\ pc[r] = "count"
    /\ Goto(r, "page", req[r])
    /\ UNCHANGED <<db, live>>

\* A full page sends the client back for the next one, after its last row.
PageFeatures(r) ==
    LET q == req[r]
    IN  /\ pc[r] = "page"
        /\ \E page \in SUBSET Present :
               LET seen == [q EXCEPT !.again = @ \cup (q.shown \cap page),
                                     !.shown = @ \cup page]
               IN  /\ IsPage(page, Present, q.cursor, q.limit)
                   /\ \/ /\ Full(page, q.limit)
                         /\ \E last \in page :
                                /\ IsLast(last, page)
                                /\ Goto(r, "count", [seen EXCEPT !.cursor = last])
                      \/ ~Full(page, q.limit) /\ Goto(r, "walked", seen)
        /\ UNCHANGED <<db, live>>

Return(r) ==
    /\ pc[r] = "walked"
    /\ Answer(r, "ok")
    /\ UNCHANGED <<db, live>>

-----------------------------------------------------------------------------
\* A statement fails, the connection drops or the server dies before a write.
Fail(r) ==
    /\ pc[r] \notin {"idle", "walked"}
    /\ Answer(r, CodeOf("error"))
    /\ UNCHANGED <<db, live>>

\* The listing is deleted, and restored, beside its requests.
SoftDelete(p) ==
    /\ p \in live
    /\ live' = live \ {p}
    /\ UNCHANGED <<db, pc, req, reply>>

Restore(p) ==
    /\ p \notin live
    /\ live' = live \cup {p}
    /\ UNCHANGED <<db, pc, req, reply>>

Request(r) ==
    \/ CallRefused(r)
    \/ CallFeature(r) \/ CallGetAddress(r) \/ CallListFeatures(r)
    \/ CallAttach(r) \/ CallDetach(r)
    \/ CallCreateAddress(r) \/ CallUpdateAddress(r) \/ CallDeleteAddress(r)
    \/ InsertFeature(r) \/ ReadFeature(r) \/ SaveFeature(r) \/ UpsertFeature(r)
    \/ DeleteFeature(r) \/ GetFeature(r)
    \/ VerifyOwner(r) \/ AttachFeature(r) \/ DetachFeature(r)
    \/ InsertAddress(r) \/ ReadAddress(r) \/ SaveAddress(r) \/ UpsertAddress(r)
    \/ DeleteAddress(r) \/ GetAddress(r)
    \/ CountFeatures(r) \/ PageFeatures(r) \/ Return(r)
    \/ Fail(r)

\* The history variables only observe.
History ==
    /\ lived' = [r \in Requests |->
                    IF pc'[r] = "idle" THEN {}
                    ELSE IF pc[r] = "idle" THEN live' ELSE lived[r] \cup live']
    /\ steady' = [r \in Requests |->
                    IF pc'[r] \notin Walk THEN {}
                    ELSE IF pc[r] \notin Walk THEN Present' ELSE steady[r] \cap Present']

Next ==
    /\ \/ \E r \in Requests : Request(r)
       \/ \E p \in Properties : SoftDelete(p) \/ Restore(p)
    /\ History

Spec == Init /\ [][Next]_vars

-----------------------------------------------------------------------------
TypeOK ==
    /\ features \in [Features -> Contents \cup {None, Gone}]
    /\ links \subseteq Properties \X Features
    /\ addresses \in [Addresses -> Row \cup {None, Gone}]
    /\ live \subseteq Properties
    /\ pc \in [Requests -> PC]
    /\ req \in [Requests -> Req \cup WalkReq \cup {None}]
    /\ reply \in [Requests -> Codes \cup {None}]
    /\ lived \in [Requests -> SUBSET Properties]
    /\ steady \in [Requests -> SUBSET Features]

\* A listing never offers a feature that the catalogue has lost, although
\* features are deleted, and inserted again by a late Save, while links are
\* being attached (AddPropertyFeature, DeleteFeatureByID).
NoDanglingLinks == \A l \in links : l[2] \in Present

\* The addresses and links of a listing change only by a request of its owner,
\* an address that Save brings back included, and an address never moves to
\* another listing (verifyPropertyOwner runs on what was read before).
Changed(p) ==
    \/ LinksOf(p)' # LinksOf(p)
    \/ \E a \in Addresses : /\ addresses'[a] # addresses[a]
                            /\ a \in AddressesOf(p) \cup AddressesOf(p)'

ByOwner(p) ==
    \E r \in Requests : /\ pc'[r] # pc[r]
                        /\ req[r].property = p
                        /\ req[r].caller = Owner[p]

OnlyOwnerChanges == [][\A p \in Properties : Changed(p) => ByOwner(p)]_vars

\* The check that the listing is not deleted is a statement of its own, and the
\* deletion may land right after it; but a request that only ever met a deleted
\* listing changes nothing of it (verifyPropertyOwner, AddPropertyFeature).
WhileLive(p) ==
    \E r \in Requests : pc'[r] # pc[r] /\ req[r].property = p /\ p \in lived[r]

WrittenWhileLive == [][\A p \in Properties : Changed(p) => WhileLive(p)]_vars

\* Of the requests that delete a row only one is told that it worked, and the
\* row is gone when it is (RowsAffected in the three deletions).
Removed(r) ==
    CASE pc[r] = "delete_feature" -> /\ Exists(features[req[r].feature])
                                     /\ features'[req[r].feature] = Gone
      [] pc[r] = "delete_address" -> /\ Exists(addresses[req[r].address])
                                     /\ addresses'[req[r].address] = Gone
      [] pc[r] = "detach"         -> /\ <<req[r].property, req[r].feature>> \in links
                                     /\ <<req[r].property, req[r].feature>> \notin links'
      [] OTHER                    -> TRUE

RemovedOnce ==
    [][\A r \in Requests : pc'[r] # pc[r] /\ reply'[r] = "ok" => Removed(r)]_vars

\* A walk through the pages shows every feature that was there all along, and
\* none twice, whatever is created and deleted meanwhile (ListFeatures).
WalkComplete ==
    \A r \in Requests :
        /\ pc[r] \in Walk => req[r].again = {}
        /\ pc[r] = "walked" => steady[r] \subseteq req[r].shown

-----------------------------------------------------------------------------
\* The statements write the tables as the operations of CatalogBook do, each at
\* the instant of its write, except that the second statement of Save may bring
\* back a row that was deleted after the update had read it.
Book == INSTANCE CatalogBook

ImplementsCatalog == Book!LateSpec

\* That exception cannot happen while no row is about to be deleted that another
\* request has read and will save: what a lock on the row would buy, or a Save
\* that only updates.
HoldsFeature(r) == pc[r] \in {"update_feature", "upsert_feature"}
HoldsAddress(r) == \/ pc[r] \in {"update_address", "upsert_address"}
                   \/ pc[r] = "verify" /\ req[r].op = "update_address"

NoOverlap ==
    \A r, o \in Requests :
        /\ HoldsFeature(r) /\ pc[o] = "delete_feature" => req[o].feature # req[r].feature
        /\ HoldsAddress(r) /\ pc[o] = "delete_address" => req[o].address # req[r].address

ImplementsSerialCatalog == Book!Spec
=============================================================================
