--------------------------- MODULE CatalogProofs ---------------------------
(***************************************************************************)
(* Why the statements of Catalog may be interleaved.  A row's id is never  *)
(* used again, so an address stays with its listing even through a         *)
(* deletion and a Save that brings it back, and the listing a request read *)
(* off an address is still the address's listing when the request writes.  *)
(* A walk has shown what it must below its cursor.                         *)
(***************************************************************************)
EXTENDS Catalog, TLAPS

AddressWrites == {"update_address", "upsert_address", "delete_address"}
AddressEdits  == {"update_address", "delete_address"}

\* The statements that follow a successful check of the owner.
Owned == LinkOps \cup {"create_address"} \cup AddressWrites

\* Requests that hold a copy of an address.
Bound(r) == \/ pc[r] \in AddressWrites
            \/ pc[r] = "verify" /\ req[r].op \in AddressEdits

FeatureInv(r) ==
    /\ pc[r] \in {"create_feature", "read_feature"} => req[r].content \in Contents
    /\ pc[r] \in {"read_feature", "update_feature", "upsert_feature",
                  "delete_feature"} \cup LinkOps =>
           req[r].feature \in Features
    /\ pc[r] \in {"update_feature", "upsert_feature"} => req[r].copy \in Contents

AddressInv(r) ==
    /\ pc[r] = "verify" =>
           /\ req[r].op \in LinkOps \cup {"create_address"} \cup AddressEdits
           /\ req[r].op \in LinkOps => req[r].feature \in Features
           /\ req[r].op = "create_address" => req[r].content \in Contents
    /\ pc[r] = "create_address" => req[r].content \in Contents
    /\ pc[r] = "read_address" =>
           /\ req[r].address \in Addresses
           /\ req[r].op \in AddressEdits
           /\ req[r].op = "update_address" => req[r].content \in Contents
    /\ pc[r] \in {"verify"} \cup Owned => req[r].property \in Properties
    /\ pc[r] \in Owned => /\ req[r].caller = Owner[req[r].property]
                          /\ req[r].property \in lived[r]

\* The address a request holds has been there, and if it is still there, or
\* again, it belongs to the listing the request has asked about.
BoundInv(r) ==
    Bound(r) =>
        /\ req[r].address \in Addresses
        /\ addresses[req[r].address] # None
        /\ Exists(addresses[req[r].address]) =>
               addresses[req[r].address].property = req[r].property
        /\ req[r].copy \in Row
        /\ req[r].copy.property = req[r].property

WalkInv(r) ==
    pc[r] \in Walk =>
        /\ req[r] \in WalkReq
        /\ req[r].again = {}
        /\ pc[r] # "walked" => \A f \in req[r].shown : f <= req[r].cursor
        /\ \A f \in steady[r] :
               f <= req[r].cursor \/ pc[r] = "walked" => f \in req[r].shown

ReqInv(r) ==
    /\ pc[r] \notin Walk \cup {"idle"} => req[r] \in Req
    /\ FeatureInv(r)
    /\ AddressInv(r)
    /\ BoundInv(r)
    /\ WalkInv(r)

\* Requests that hold the same address agree on its listing.
Agree(r, o) ==
    Bound(r) /\ Bound(o) /\ req[r].address = req[o].address =>
        req[r].property = req[o].property

IInv ==
    /\ TypeOK
    /\ NoDanglingLinks
    /\ \A r \in Requests : ReqInv(r)
    /\ \A r, o \in Requests : Agree(r, o)

-----------------------------------------------------------------------------
LEMMA Sentinels ==
    /\ None \notin Row /\ Gone \notin Row
    /\ None \notin Contents /\ Gone \notin Contents
    /\ None # Gone /\ None \notin Properties
  BY CatalogAssumption

\* What the history variables do when request r takes a step.
LEMMA HistoryFacts ==
    ASSUME TypeOK, History, live' \in SUBSET Properties,
           features' \in [Features -> Contents \cup {None, Gone}]
    PROVE  /\ lived' \in [Requests -> SUBSET Properties]
           /\ steady' \in [Requests -> SUBSET Features]
           /\ \A r \in Requests :
                  /\ pc[r] # "idle" /\ pc'[r] # "idle" =>
                         lived[r] \subseteq lived'[r] /\ live' \subseteq lived'[r]
                  /\ pc[r] \in Walk /\ pc'[r] \in Walk =>
                         steady'[r] \subseteq steady[r] /\ steady'[r] \subseteq Present'
<1>1. Present' \subseteq Features
  BY DEF Present
<1>2. \A r \in Requests : lived[r] \subseteq Properties /\ steady[r] \subseteq Features
  BY DEF TypeOK
<1>3. \A r \in Requests :
         /\ lived'[r] = IF pc'[r] = "idle" THEN {}
                        ELSE IF pc[r] = "idle" THEN live' ELSE lived[r] \cup live'
         /\ steady'[r] = IF pc'[r] \notin Walk THEN {}
                         ELSE IF pc[r] \notin Walk THEN Present' ELSE steady[r] \cap Present'
  BY DEF History
<1>4. lived' \in [Requests -> SUBSET Properties]
  BY <1>2 DEF History
<1>5. steady' \in [Requests -> SUBSET Features]
  BY <1>1, <1>2 DEF History
<1> QED BY <1>3, <1>4, <1>5

\* What a step of one request, or of a listing, has to show: the rows keep
\* their types, the links their features, an address its listing, and the
\* requests that did not move keep what they hold.
LEMMA OwnStep ==
    ASSUME IInv, History,
           /\ features' \in [Features -> Contents \cup {None, Gone}]
           /\ links' \subseteq Properties \X Features
           /\ addresses' \in [Addresses -> Row \cup {None, Gone}]
           /\ live' \subseteq Properties
           /\ pc' \in [Requests -> PC]
           /\ req' \in [Requests -> Req \cup WalkReq \cup {None}]
           /\ reply' \in [Requests -> Codes \cup {None}],
           NoDanglingLinks',
           \A a \in Addresses : addresses'[a] # addresses[a] =>
               /\ addresses'[a] # None
               /\ Exists(addresses'[a]) =>
                      \A o \in Requests : Bound(o) /\ req[o].address = a =>
                          addresses'[a].property = req[o].property,
           \A r \in Requests :
               \/ pc'[r] = pc[r] /\ req'[r] = req[r]
               \/ ReqInv(r)' /\ \A o \in Requests : Agree(r, o)' /\ Agree(o, r)'
    PROVE  IInv'
<1>1. TypeOK'
  BY HistoryFacts DEF IInv, TypeOK
<1>2. ASSUME NEW o \in Requests, pc'[o] = pc[o] /\ req'[o] = req[o] PROVE ReqInv(o)'
  <2>1. pc'[o] = pc[o] /\ req'[o] = req[o] /\ ReqInv(o)
    BY <1>2 DEF IInv
  <2>2. /\ pc[o] # "idle" => lived[o] \subseteq lived'[o]
        /\ pc[o] \in Walk => steady'[o] \subseteq steady[o]
    BY <2>1, HistoryFacts DEF IInv
  <2>3. BoundInv(o)'
    <3>1. Bound(o)' <=> Bound(o)
      BY <2>1 DEF Bound
    <3>2. CASE Bound(o)
      BY <2>1, <3>2, Sentinels DEF ReqInv, BoundInv, Exists
    <3> QED BY <3>1, <3>2 DEF BoundInv
  <2>4. WalkInv(o)'
    BY <2>1, <2>2 DEF ReqInv, WalkInv
  <2>5. FeatureInv(o)'
    BY <2>1 DEF ReqInv, FeatureInv
  <2>6. AddressInv(o)'
    BY <2>1, <2>2 DEF ReqInv, AddressInv, Owned, LinkOps, AddressWrites
  <2> QED BY <2>1, <2>3, <2>4, <2>5, <2>6 DEF ReqInv
<1>3. ASSUME NEW r \in Requests, pc'[r] = pc[r] /\ req'[r] = req[r],
             NEW o \in Requests, pc'[o] = pc[o] /\ req'[o] = req[o]
      PROVE Agree(r, o)'
  <2>1. Agree(r, o)
    BY DEF IInv
  <2> QED BY <1>3, <2>1 DEF Agree, Bound
<1> QED BY <1>1, <1>2, <1>3 DEF IInv

\* A request that answers holds nothing any more.
LEMMA AnswerFacts ==
    ASSUME TypeOK, NEW r \in Requests, NEW code \in Codes, Answer(r, code)
    PROVE  /\ pc' \in [Requests -> PC] /\ pc'[r] = "idle"
           /\ req' \in [Requests -> Req \cup WalkReq \cup {None}]
           /\ reply' \in [Requests -> Codes \cup {None}] /\ reply'[r] = code
           /\ \A o \in Requests \ {r} : pc'[o] = pc[o] /\ req'[o] = req[o] /\ reply'[o] = reply[o]
           /\ ReqInv(r)' /\ \A o \in Requests : Agree(r, o)' /\ Agree(o, r)'
<1>1. /\ pc' \in [Requests -> PC] /\ pc'[r] = "idle"
      /\ req' \in [Requests -> Req \cup WalkReq \cup {None}]
      /\ reply' \in [Requests -> Codes \cup {None}] /\ reply'[r] = code
      /\ \A o \in Requests \ {r} : pc'[o] = pc[o] /\ req'[o] = req[o] /\ reply'[o] = reply[o]
  BY DEF Answer, TypeOK, PC
<1>2. ~Bound(r)'
  BY <1>1 DEF Bound, AddressWrites
<1>3. ReqInv(r)'
  BY <1>1, <1>2 DEF ReqInv, FeatureInv, AddressInv, BoundInv, WalkInv, Walk, Owned,
                    LinkOps, AddressWrites
<1> QED BY <1>1, <1>2, <1>3 DEF Agree

LEMMA CodeType == \A err : CodeOf(err) \in Codes
  BY DEF CodeOf, Codes

LEMMA WroteFacts ==
    ASSUME NEW r \in Requests, Wrote(r)
    PROVE  \E code \in Codes : Answer(r, code)
  BY CodeType DEF Wrote, Codes

\* A request that answers without writing.
LEMMA AnswerOnly ==
    ASSUME IInv, NEW r \in Requests, NEW code \in Codes, Answer(r, code),
           UNCHANGED <<db, live>>, History
    PROVE  IInv'
<1>1. NoDanglingLinks'
  BY DEF IInv, NoDanglingLinks, Present, db
<1> QED BY <1>1, AnswerFacts, OwnStep DEF IInv, TypeOK, db

\* A request that writes its row and answers.
LEMMA AnswerWrite ==
    ASSUME IInv, NEW r \in Requests, NEW code \in Codes, Answer(r, code),
           UNCHANGED live, History,
           features' \in [Features -> Contents \cup {None, Gone}],
           links' \subseteq Properties \X Features,
           addresses' \in [Addresses -> Row \cup {None, Gone}],
           NoDanglingLinks',
           \A a \in Addresses : addresses'[a] # addresses[a] =>
               /\ addresses'[a] # None
               /\ Exists(addresses'[a]) =>
                      \A o \in Requests : Bound(o) /\ req[o].address = a =>
                          addresses'[a].property = req[o].property
    PROVE  IInv'
<1>1. live' \subseteq Properties
  BY DEF IInv, TypeOK
<1> QED BY <1>1, AnswerFacts, OwnStep DEF IInv

\* A request that takes its next statement with arguments of its own.
LEMMA MoveStep ==
    ASSUME IInv, NEW r \in Requests, History, UNCHANGED <<db, live>>,
           NEW label \in PC, NEW new \in Req \cup WalkReq,
           pc' = [pc EXCEPT ![r] = label], req' = [req EXCEPT ![r] = new],
           reply' \in [Requests -> Codes \cup {None}],
           ReqInv(r)',
           Bound(r)' => \A o \in Requests : Bound(o) /\ req[o].address = new.address =>
                            req[o].property = new.property
    PROVE  IInv'
<1>1. /\ pc' \in [Requests -> PC] /\ pc'[r] = label
      /\ req' \in [Requests -> Req \cup WalkReq \cup {None}] /\ req'[r] = new
      /\ \A o \in Requests \ {r} : pc'[o] = pc[o] /\ req'[o] = req[o]
  BY DEF IInv, TypeOK
<1>2. NoDanglingLinks'
  BY DEF IInv, NoDanglingLinks, Present, db
<1>3. \A o \in Requests : Agree(r, o)' /\ Agree(o, r)'
  BY <1>1 DEF Agree, Bound
<1> QED BY <1>1, <1>2, <1>3, OwnStep DEF IInv, TypeOK, db

-----------------------------------------------------------------------------
LEMMA InitIInv == Init => IInv
<1> SUFFICES ASSUME Init PROVE IInv
  OBVIOUS
<1>1. TypeOK
  BY DEF Init, TypeOK, PC
<1>2. NoDanglingLinks
  BY DEF Init, NoDanglingLinks
<1>3. ASSUME NEW r \in Requests PROVE ~Bound(r) /\ ReqInv(r)
  <2>1. pc[r] = "idle"
    BY DEF Init
  <2>2. ~Bound(r)
    BY <2>1 DEF Bound, AddressWrites
  <2> QED BY <2>1, <2>2 DEF ReqInv, FeatureInv, AddressInv, BoundInv, WalkInv, Walk, Owned,
                    LinkOps, AddressWrites
<1> QED BY <1>1, <1>2, <1>3 DEF IInv, Agree

\* What the calls have in common: a request starts with arguments that fit its
\* first statement, and holds no address yet.
Fits(label, args) ==
    /\ label \in {"create_feature", "read_feature"} => args.content \in Contents
    /\ label \in {"read_feature", "delete_feature"} => args.feature \in Features
    /\ label = "verify" =>
           /\ args.op \in LinkOps \cup {"create_address"}
           /\ args.op \in LinkOps => args.feature \in Features
           /\ args.op = "create_address" => args.content \in Contents
           /\ args.property \in Properties
    /\ label = "read_address" =>
           /\ args.address \in Addresses
           /\ args.op \in AddressEdits
           /\ args.op = "update_address" => args.content \in Contents

LEMMA CallStep ==
    ASSUME IInv, NEW r \in Requests, History, NEW args \in Req,
           NEW label \in {"create_feature", "read_feature", "delete_feature", "get_feature",
                          "verify", "read_address", "get_address"},
           Call(r, label, args), Fits(label, args)
    PROVE  IInv'
<1>1. pc'[r] = label /\ req'[r] = args
  BY DEF Call, IInv, TypeOK
<1>2. ~Bound(r)'
  BY <1>1 DEF Bound, AddressWrites, AddressEdits, Fits, LinkOps
<1>3. label \in PC /\ label \notin Walk
  BY DEF PC, Ops, FeatureOps, LinkOps, AddressOps, Walk
<1>4. reply' \in [Requests -> Codes \cup {None}]
  BY DEF Call, IInv, TypeOK
<1>5. FeatureInv(r)' /\ AddressInv(r)'
  BY <1>1 DEF Fits, FeatureInv, AddressInv, Owned, LinkOps, AddressWrites
<1>6. ReqInv(r)'
  BY <1>1, <1>2, <1>3, <1>5 DEF ReqInv, BoundInv, WalkInv
<1> QED BY <1>2, <1>3, <1>4, <1>6, MoveStep DEF Call

LEMMA ArgsType == \A op \in Ops : Args(op) \in Req
  BY DEF Args, Req

LEMMA CallFeatureStep ==
    ASSUME IInv, NEW r \in Requests, History, CallFeature(r)
    PROVE  IInv'
<1>1. ASSUME NEW name \in Contents,
             Call(r, "create_feature", [Args("create_feature") EXCEPT !.content = name])
      PROVE IInv'
  <2> DEFINE args == [Args("create_feature") EXCEPT !.content = name]
  <2>1. args \in Req /\ Fits("create_feature", args)
    BY DEF Args, Req, Ops, FeatureOps, Fits
  <2> HIDE DEF args
  <2> QED BY <1>1, <2>1, CallStep DEF args
<1>2. ASSUME NEW f \in Features, NEW name \in Contents,
             Call(r, "read_feature",
                  [Args("update_feature") EXCEPT !.feature = f, !.content = name])
      PROVE IInv'
  <2> DEFINE args == [Args("update_feature") EXCEPT !.feature = f, !.content = name]
  <2>1. args \in Req /\ Fits("read_feature", args)
    BY DEF Args, Req, Ops, FeatureOps, Fits
  <2> HIDE DEF args
  <2> QED BY <1>2, <2>1, CallStep DEF args
<1>3. ASSUME NEW f \in Features, NEW op \in {"delete_feature", "get_feature"},
             Call(r, op, [Args(op) EXCEPT !.feature = f])
      PROVE IInv'
  <2> DEFINE args == [Args(op) EXCEPT !.feature = f]
  <2>1. args \in Req /\ Fits(op, args)
    BY DEF Args, Req, Ops, FeatureOps, Fits
  <2> HIDE DEF args
  <2> QED BY <1>3, <2>1, CallStep DEF args
<1> QED BY <1>1, <1>2, <1>3 DEF CallFeature

LEMMA CallLinkStep ==
    ASSUME IInv, NEW r \in Requests, History, NEW op \in LinkOps,
           NEW p \in Properties, NEW f \in Features, NEW u \in Users,
           Call(r, "verify", [Args(op) EXCEPT !.property = p, !.feature = f, !.caller = u])
    PROVE  IInv'
<1> DEFINE args == [Args(op) EXCEPT !.property = p, !.feature = f, !.caller = u]
<1>1. args \in Req /\ Fits("verify", args)
  BY DEF Args, Req, Ops, LinkOps, Fits
<1> HIDE DEF args
<1> QED BY <1>1, CallStep DEF args

LEMMA CallAddressStep ==
    ASSUME IInv, NEW r \in Requests, History,
           \/ CallCreateAddress(r) \/ CallUpdateAddress(r)
           \/ CallDeleteAddress(r) \/ CallGetAddress(r)
    PROVE  IInv'
<1>1. CASE CallCreateAddress(r)
  <2>1. PICK p \in Properties, u \in Users, content \in Contents :
            Call(r, "verify", [Args("create_address") EXCEPT !.property = p, !.caller = u,
                                                             !.content = content])
    BY <1>1 DEF CallCreateAddress
  <2> DEFINE args == [Args("create_address") EXCEPT !.property = p, !.caller = u,
                                                    !.content = content]
  <2>2. args \in Req /\ Fits("verify", args)
    BY DEF Args, Req, Ops, AddressOps, LinkOps, Fits
  <2> HIDE DEF args
  <2> QED BY <2>1, <2>2, CallStep DEF args
<1>2. CASE CallUpdateAddress(r)
  <2>1. PICK a \in Addresses, u \in Users, content \in Contents :
            Call(r, "read_address", [Args("update_address") EXCEPT !.address = a, !.caller = u,
                                                                   !.content = content])
    BY <1>2 DEF CallUpdateAddress
  <2> DEFINE args == [Args("update_address") EXCEPT !.address = a, !.caller = u,
                                                    !.content = content]
  <2>2. args \in Req /\ Fits("read_address", args)
    BY DEF Args, Req, Ops, AddressOps, AddressEdits, Fits
  <2> HIDE DEF args
  <2> QED BY <2>1, <2>2, CallStep DEF args
<1>3. CASE CallDeleteAddress(r)
  <2>1. PICK a \in Addresses, u \in Users :
            Call(r, "read_address", [Args("delete_address") EXCEPT !.address = a, !.caller = u])
    BY <1>3 DEF CallDeleteAddress
  <2> DEFINE args == [Args("delete_address") EXCEPT !.address = a, !.caller = u]
  <2>2. args \in Req /\ Fits("read_address", args)
    BY DEF Args, Req, Ops, AddressOps, AddressEdits, Fits
  <2> HIDE DEF args
  <2> QED BY <2>1, <2>2, CallStep DEF args
<1>4. ASSUME NEW a \in Addresses,
             Call(r, "get_address", [Args("get_address") EXCEPT !.address = a])
      PROVE IInv'
  <2> DEFINE args == [Args("get_address") EXCEPT !.address = a]
  <2>1. args \in Req /\ Fits("get_address", args)
    BY DEF Args, Req, Ops, AddressOps, Fits
  <2> HIDE DEF args
  <2> QED BY <1>4, <2>1, CallStep DEF args
<1>5. ASSUME NEW p \in Properties,
             Call(r, "get_address", [Args("get_address") EXCEPT !.property = p])
      PROVE IInv'
  <2> DEFINE args == [Args("get_address") EXCEPT !.property = p]
  <2>1. args \in Req /\ Fits("get_address", args)
    BY DEF Args, Req, Ops, AddressOps, Fits
  <2> HIDE DEF args
  <2> QED BY <1>5, <2>1, CallStep DEF args
<1> QED BY <1>1, <1>2, <1>3, <1>4, <1>5 DEF CallGetAddress

-----------------------------------------------------------------------------
\* The features table: a name that is written is a name, so no feature that a
\* listing offers is lost except by DeleteFeature, which the foreign key stops.
LEMMA FeatureWrite ==
    ASSUME IInv, NEW r \in Requests, History, NEW f \in Features, NEW name \in Contents,
           features' = [features EXCEPT ![f] = name],
           UNCHANGED <<links, addresses, live>>, Wrote(r)
    PROVE  IInv'
<1>1. PICK code \in Codes : Answer(r, code)
  BY WroteFacts
<1>2. features' \in [Features -> Contents \cup {None, Gone}]
  BY DEF IInv, TypeOK
<1>3. Present \subseteq Present'
  BY Sentinels DEF Present, Exists, IInv, TypeOK
<1>4. NoDanglingLinks'
  BY <1>3 DEF NoDanglingLinks, IInv
<1> QED BY <1>1, <1>2, <1>4, AnswerWrite DEF IInv, TypeOK

LEMMA InsertFeatureStep ==
    ASSUME IInv, NEW r \in Requests, History, InsertFeature(r)
    PROVE  IInv'
<1>1. req[r].content \in Contents
  BY DEF InsertFeature, IInv, ReqInv, FeatureInv
<1> QED BY <1>1, FeatureWrite DEF InsertFeature

\* What a request holds when it has only moved on to its next statement.
LEMMA GotoFacts ==
    ASSUME TypeOK, NEW r \in Requests, NEW label, NEW new, Goto(r, label, new)
    PROVE  /\ pc'[r] = label /\ req'[r] = new
           /\ pc' = [pc EXCEPT ![r] = label] /\ req' = [req EXCEPT ![r] = new]
           /\ reply' \in [Requests -> Codes \cup {None}]
  BY DEF Goto, TypeOK

LEMMA ReadFeatureStep ==
    ASSUME IInv, NEW r \in Requests, History, ReadFeature(r)
    PROVE  IInv'
<1>1. CASE Answer(r, CodeOf("ErrRecordNotFound"))
  BY <1>1, CodeType, AnswerOnly DEF ReadFeature
<1>2. CASE Goto(r, "update_feature", [req[r] EXCEPT !.copy = req[r].content])
  <2> DEFINE new == [req[r] EXCEPT !.copy = req[r].content]
  <2>1. pc[r] = "read_feature" /\ req[r] \in Req /\ req[r].content \in Contents
        /\ req[r].feature \in Features
    BY DEF ReadFeature, IInv, ReqInv, FeatureInv, Walk
  <2>2. new \in Req /\ new.copy \in Contents /\ new.feature \in Features
    BY <2>1 DEF Req
  <2> HIDE DEF new
  <2>3. Goto(r, "update_feature", new)
    BY <1>2 DEF new
  <2>4. pc'[r] = "update_feature" /\ req'[r] = new
    BY <2>3, GotoFacts DEF IInv
  <2>5. ReqInv(r)' /\ ~Bound(r)'
    BY <2>2, <2>4 DEF ReqInv, FeatureInv, AddressInv, BoundInv, WalkInv, Walk, Owned, LinkOps,
                      AddressWrites, Bound
  <2> QED BY <2>2, <2>3, <2>5, GotoFacts, MoveStep DEF ReadFeature, IInv, PC, Ops, FeatureOps
<1> QED BY <1>1, <1>2 DEF ReadFeature

LEMMA SaveFeatureStep ==
    ASSUME IInv, NEW r \in Requests, History, SaveFeature(r) \/ UpsertFeature(r)
    PROVE  IInv'
<1>1. /\ pc[r] \in {"update_feature", "upsert_feature"} /\ req[r] \in Req
      /\ req[r].copy \in Contents /\ req[r].feature \in Features
  BY DEF SaveFeature, UpsertFeature, IInv, ReqInv, FeatureInv, Walk
<1>2. CASE Wrote(r) /\ features' = [features EXCEPT ![req[r].feature] = req[r].copy]
  <2>1. UNCHANGED <<links, addresses, live>>
    BY DEF SaveFeature, UpsertFeature
  <2> QED BY <1>1, <1>2, <2>1, FeatureWrite
<1>3. CASE Goto(r, "upsert_feature", req[r]) /\ UNCHANGED features
  <2>1. pc'[r] = "upsert_feature" /\ req'[r] = req[r]
    BY <1>3, GotoFacts DEF IInv
  <2>2. ReqInv(r)' /\ ~Bound(r)'
    BY <1>1, <2>1 DEF ReqInv, FeatureInv, AddressInv, BoundInv, WalkInv, Walk, Owned, LinkOps,
                      AddressWrites, Bound
  <2>3. UNCHANGED <<db, live>>
    BY <1>3 DEF SaveFeature, UpsertFeature, db
  <2> QED BY <1>1, <1>3, <2>2, <2>3, GotoFacts, MoveStep DEF IInv, PC
<1> QED BY <1>2, <1>3 DEF SaveFeature, UpsertFeature

LEMMA DeleteFeatureStep ==
    ASSUME IInv, NEW r \in Requests, History, DeleteFeature(r)
    PROVE  IInv'
<1> DEFINE f == req[r].feature
<1>1. f \in Features
  BY DEF DeleteFeature, IInv, ReqInv, FeatureInv
<1>2. PICK code \in Codes : Answer(r, code)
  BY CodeType, WroteFacts DEF DeleteFeature
<1>3. features' \in [Features -> Contents \cup {None, Gone}]
  BY <1>1 DEF DeleteFeature, IInv, TypeOK
<1>4. NoDanglingLinks'
  <2>1. CASE UNCHANGED features
    BY <2>1 DEF DeleteFeature, IInv, NoDanglingLinks, Present
  <2>2. CASE ~Referenced(f) /\ features' = [features EXCEPT ![f] = IF Exists(@) THEN Gone ELSE @]
    <3>1. \A g \in Features \ {f} : features'[g] = features[g]
      BY <2>2 DEF IInv, TypeOK
    <3>2. \A l \in links : l \in Properties \X Features /\ l[2] # f
      <4>1. ASSUME NEW l \in links PROVE l \in Properties \X Features /\ l[2] # f
        <5>1. l \in Properties \X Features
          BY DEF IInv, TypeOK
        <5>2. l[1] \in Properties /\ l = <<l[1], l[2]>>
          BY <5>1
        <5> QED BY <2>2, <5>1, <5>2 DEF Referenced
      <4> QED BY <4>1
    <3>3. \A l \in links : l[2] \in Present'
      BY <3>1, <3>2 DEF IInv, NoDanglingLinks, Present
    <3> QED BY <3>3 DEF DeleteFeature, NoDanglingLinks
  <2> QED BY <2>1, <2>2 DEF DeleteFeature
<1> QED BY <1>2, <1>3, <1>4, AnswerWrite DEF DeleteFeature, IInv, TypeOK

-----------------------------------------------------------------------------
LEMMA VerifyOwnerStep ==
    ASSUME IInv, NEW r \in Requests, History, VerifyOwner(r)
    PROVE  IInv'
<1>1. ASSUME NEW err, Answer(r, CodeOf(err)) PROVE IInv'
  BY <1>1, CodeType, AnswerOnly DEF VerifyOwner
<1>2. CASE Visible(req[r].property) /\ verifyOwner(r) /\ Goto(r, req[r].op, req[r])
  <2>1. pc[r] = "verify" /\ req[r] \in Req /\ ReqInv(r)
    BY DEF VerifyOwner, IInv, ReqInv, Walk
  <2>2. pc'[r] = req[r].op /\ req'[r] = req[r] /\ UNCHANGED <<db, live>>
    BY <1>2, GotoFacts DEF IInv, VerifyOwner
  <2>3. req[r].op \in LinkOps \cup {"create_address"} \cup AddressEdits
    BY <2>1 DEF ReqInv, AddressInv
  <2>4. req[r].property \in lived'[r]
    BY <1>2, <2>1, <2>2, <2>3, HistoryFacts
    DEF Visible, LinkOps, AddressEdits, IInv, TypeOK, db
  <2>5. req'[r].property \in Properties /\ req'[r].caller = Owner[req'[r].property]
    BY <1>2, <2>1, <2>2 DEF verifyOwner, ReqInv, AddressInv
  <2>6. Bound(r)' <=> Bound(r)
    BY <2>1, <2>2, <2>3 DEF Bound, AddressWrites, AddressEdits, LinkOps
  <2>7. BoundInv(r)'
    BY <2>1, <2>2, <2>6 DEF BoundInv, ReqInv, db
  <2>8. FeatureInv(r)' /\ AddressInv(r)'
    BY <2>1, <2>2, <2>3, <2>4, <2>5
    DEF ReqInv, FeatureInv, AddressInv, AddressEdits, LinkOps, Owned, AddressWrites
  <2>9. ReqInv(r)'
    BY <2>1, <2>2, <2>3, <2>7, <2>8 DEF ReqInv, WalkInv, Walk, LinkOps, AddressEdits
  <2>10. req[r].op \in PC
    BY <2>3 DEF PC, Ops, LinkOps, AddressOps, AddressEdits
  <2>11. Bound(r) => \A o \in Requests : Bound(o) /\ req[o].address = req[r].address =>
                         req[o].property = req[r].property
    BY DEF IInv, Agree
  <2> QED BY <1>2, <2>1, <2>2, <2>6, <2>9, <2>10, <2>11, GotoFacts, MoveStep DEF IInv
<1> QED BY <1>1, <1>2 DEF VerifyOwner

LEMMA AttachFeatureStep ==
    ASSUME IInv, NEW r \in Requests, History, AttachFeature(r)
    PROVE  IInv'
<1>1. req[r].property \in Properties /\ req[r].feature \in Features
  BY DEF AttachFeature, IInv, ReqInv, FeatureInv, AddressInv, LinkOps, Owned
<1>2. PICK code \in Codes : Answer(r, code)
  BY CodeType, WroteFacts DEF AttachFeature
<1>3. links' \subseteq Properties \X Features
  BY <1>1 DEF AttachFeature, IInv, TypeOK
<1>4. \A l \in links' : l \notin links =>
          l[2] = req[r].feature /\ Exists(features[req[r].feature])
  <2>1. ASSUME NEW l \in links', l \notin links
        PROVE  l = <<req[r].property, req[r].feature>> /\ Exists(features[req[r].feature])
    BY <2>1 DEF AttachFeature, Attachable
  <2> QED BY <2>1
<1>5. NoDanglingLinks'
  BY <1>1, <1>4 DEF AttachFeature, IInv, NoDanglingLinks, Present
<1> QED BY <1>2, <1>3, <1>5, AnswerWrite DEF AttachFeature, IInv, TypeOK

LEMMA DetachFeatureStep ==
    ASSUME IInv, NEW r \in Requests, History, DetachFeature(r)
    PROVE  IInv'
<1>1. PICK code \in Codes : Answer(r, code)
  BY CodeType, WroteFacts DEF DetachFeature
<1>2. links' \subseteq links
  BY DEF DetachFeature
<1>3. NoDanglingLinks'
  BY <1>2 DEF DetachFeature, IInv, NoDanglingLinks, Present
<1> QED BY <1>1, <1>2, <1>3, AnswerWrite DEF DetachFeature, IInv, TypeOK

-----------------------------------------------------------------------------
(* The addresses table. *)

\* A row that keeps address a with the listing its holders asked about.
Keeps(new, a) ==
    new = Gone \/ \A o \in Requests : Bound(o) /\ req[o].address = a =>
                                          new.property = req[o].property

LEMMA AddressWrite ==
    ASSUME IInv, NEW r \in Requests, History, NEW a \in Addresses, NEW new \in Row \cup {Gone},
           addresses' = [addresses EXCEPT ![a] = new],
           UNCHANGED <<features, links, live>>, NEW code \in Codes, Answer(r, code),
           Keeps(new, a)
    PROVE  IInv'
<1>1. addresses' \in [Addresses -> Row \cup {None, Gone}]
  BY DEF IInv, TypeOK
<1>2. \A b \in Addresses : addresses'[b] # addresses[b] => b = a /\ addresses'[b] = new
  BY DEF IInv, TypeOK
<1>3. new # None /\ (Exists(new) => \A o \in Requests : Bound(o) /\ req[o].address = a =>
                                        new.property = req[o].property)
  BY Sentinels DEF Exists, Keeps
<1>4. NoDanglingLinks'
  BY DEF IInv, NoDanglingLinks, Present
<1> QED BY <1>1, <1>2, <1>3, <1>4, AnswerWrite DEF IInv, TypeOK

LEMMA InsertAddressStep ==
    ASSUME IInv, NEW r \in Requests, History, InsertAddress(r)
    PROVE  IInv'
<1> DEFINE new == [content |-> req[r].content, property |-> req[r].property]
<1>1. new \in Row
  BY DEF InsertAddress, IInv, ReqInv, AddressInv, Owned, Row
<1>2. PICK a \in Addresses : addresses[a] = None /\ addresses' = [addresses EXCEPT ![a] = new]
  BY DEF InsertAddress
<1>3. PICK code \in Codes : Answer(r, code)
  BY WroteFacts DEF InsertAddress
<1>4. \A o \in Requests : ~(Bound(o) /\ req[o].address = a)
  BY <1>2 DEF IInv, ReqInv, BoundInv
<1>5. Keeps(new, a)
  BY <1>4 DEF Keeps
<1> HIDE DEF new
<1> QED BY <1>1, <1>2, <1>3, <1>5, AddressWrite DEF InsertAddress

LEMMA ReadAddressStep ==
    ASSUME IInv, NEW r \in Requests, History, ReadAddress(r)
    PROVE  IInv'
<1> DEFINE row == addresses[req[r].address]
           new == [req[r] EXCEPT !.property = row.property, !.copy = Edited(req[r], row)]
<1>1. CASE Answer(r, CodeOf("ErrRecordNotFound"))
  BY <1>1, CodeType, AnswerOnly DEF ReadAddress
<1>2. CASE Exists(row) /\ Goto(r, "verify", new)
  <2>1. /\ pc[r] = "read_address" /\ req[r] \in Req
        /\ req[r].address \in Addresses /\ req[r].op \in AddressEdits
        /\ req[r].op = "update_address" => req[r].content \in Contents
    BY DEF ReadAddress, IInv, ReqInv, AddressInv, Walk
  <2>2. row \in Row
    BY <1>2, <2>1 DEF IInv, TypeOK, Exists
  <2>3. Edited(req[r], row) \in Row /\ Edited(req[r], row).property = row.property
    BY <2>1, <2>2 DEF Edited, Row
  <2>4. /\ new \in Req /\ new.address = req[r].address /\ new.op = req[r].op
        /\ new.property = row.property /\ new.copy \in Row /\ new.copy.property = row.property
        /\ row.property \in Properties
    <3>1. row.property \in Properties
      BY <2>2 DEF Row
    <3> HIDE DEF row
    <3> QED BY <2>1, <2>3, <3>1 DEF Req
  <2> HIDE DEF new
  <2>5. pc'[r] = "verify" /\ req'[r] = new /\ UNCHANGED <<db, live>>
    BY <1>2, GotoFacts DEF IInv, ReadAddress
  <2>6. BoundInv(r)'
    BY <1>2, <2>1, <2>4, <2>5 DEF BoundInv, db, Exists
  <2>7. ReqInv(r)'
    BY <2>1, <2>4, <2>5, <2>6 DEF ReqInv, FeatureInv, AddressInv, WalkInv, Walk, Owned, LinkOps,
                            AddressWrites, AddressEdits
  <2>8. \A o \in Requests : Bound(o) /\ req[o].address = new.address =>
            req[o].property = new.property
    BY <1>2, <2>4 DEF IInv, ReqInv, BoundInv
  <2> QED BY <1>2, <2>4, <2>5, <2>7, <2>8, GotoFacts, MoveStep DEF IInv, PC
<1> QED BY <1>1, <1>2 DEF ReadAddress

\* What a request that is about to write an address holds.
LEMMA HeldAddress ==
    ASSUME IInv, NEW r \in Requests, pc[r] \in AddressWrites
    PROVE  /\ req[r] \in Req /\ Bound(r) /\ ReqInv(r)
           /\ req[r].address \in Addresses /\ addresses[req[r].address] # None
           /\ req[r].copy \in Row /\ req[r].copy.property = req[r].property
           /\ Exists(addresses[req[r].address]) =>
                  addresses[req[r].address].property = req[r].property
           /\ req[r].property \in Properties /\ req[r].caller = Owner[req[r].property]
           /\ req[r].property \in lived[r]
           /\ \A o \in Requests : Bound(o) /\ req[o].address = req[r].address =>
                  req[r].copy.property = req[o].property
<1>1. Bound(r)
  BY DEF Bound
<1>2. ReqInv(r) /\ pc[r] \in Owned /\ pc[r] \notin Walk \cup {"idle"}
  BY DEF IInv, Owned, AddressWrites, Walk
<1>3. \A o \in Requests : Bound(o) /\ req[o].address = req[r].address =>
          req[r].property = req[o].property
  BY <1>1 DEF IInv, Agree
<1> QED BY <1>1, <1>2, <1>3 DEF ReqInv, BoundInv, AddressInv

\* A copy of an address is written by a request that still holds it.
LEMMA WriteCopy ==
    ASSUME IInv, NEW r \in Requests, History, pc[r] \in AddressWrites, Wrote(r),
           addresses' = [addresses EXCEPT ![req[r].address] = req[r].copy],
           UNCHANGED <<features, links, live>>
    PROVE  IInv'
<1>1. PICK code \in Codes : Answer(r, code)
  BY WroteFacts
<1>2. req[r].address \in Addresses /\ req[r].copy \in Row \cup {Gone}
  BY HeldAddress
<1>3. Keeps(req[r].copy, req[r].address)
  BY HeldAddress DEF Keeps
<1> QED BY <1>1, <1>2, <1>3, AddressWrite

LEMMA SaveAddressStep ==
    ASSUME IInv, NEW r \in Requests, History, SaveAddress(r) \/ UpsertAddress(r)
    PROVE  IInv'
<1>1. pc[r] \in AddressWrites
  BY DEF SaveAddress, UpsertAddress, AddressWrites
<1>2. UNCHANGED <<features, links, live>>
  BY DEF SaveAddress, UpsertAddress
<1>3. CASE Wrote(r) /\ addresses' = [addresses EXCEPT ![req[r].address] = req[r].copy]
  BY <1>1, <1>2, <1>3, WriteCopy
<1>4. CASE Goto(r, "upsert_address", req[r]) /\ UNCHANGED addresses
  <2>1. pc'[r] = "upsert_address" /\ req'[r] = req[r] /\ UNCHANGED <<db, live>>
    BY <1>4, GotoFacts DEF IInv, SaveAddress, UpsertAddress, db
  <2>2. req[r].property \in lived'[r]
    BY <1>1, <2>1, HeldAddress, HistoryFacts DEF AddressWrites, IInv, TypeOK, db
  <2>3. BoundInv(r)'
    BY <1>1, <2>1, HeldAddress DEF BoundInv, ReqInv, db
  <2>4. ReqInv(r)'
    BY <1>1, <2>1, <2>2, <2>3, HeldAddress
    DEF ReqInv, FeatureInv, AddressInv, WalkInv, Walk, Owned, LinkOps
  <2>5. \A o \in Requests : Bound(o) /\ req[o].address = req[r].address =>
            req[o].property = req[r].property
    BY <1>1, HeldAddress
  <2> QED BY <1>1, <1>4, <2>1, <2>4, <2>5, HeldAddress, GotoFacts, MoveStep DEF IInv, PC
<1> QED BY <1>3, <1>4 DEF SaveAddress, UpsertAddress

LEMMA DeleteAddressStep ==
    ASSUME IInv, NEW r \in Requests, History, DeleteAddress(r)
    PROVE  IInv'
<1> DEFINE a == req[r].address  new == IF Exists(addresses[a]) THEN Gone ELSE addresses[a]
<1>1. pc[r] \in AddressWrites
  BY DEF DeleteAddress, AddressWrites
<1>2. a \in Addresses /\ addresses[a] # None
  BY <1>1, HeldAddress
<1>3. new = Gone
  BY <1>2 DEF Exists
<1>4. addresses' = [addresses EXCEPT ![a] = Gone]
  BY <1>2, <1>3 DEF DeleteAddress, IInv, TypeOK
<1>5. PICK code \in Codes : Answer(r, code)
  BY CodeType, WroteFacts DEF DeleteAddress
<1> HIDE DEF a
<1>6. Keeps(Gone, a)
  BY DEF Keeps
<1> QED BY <1>2, <1>4, <1>5, <1>6, AddressWrite DEF DeleteAddress

-----------------------------------------------------------------------------
(* The walk: what was there all along and lies below the cursor is shown,  *)
(* what is shown lies below the cursor, so no page repeats it.             *)

LEMMA CallListFeaturesStep ==
    ASSUME IInv, NEW r \in Requests, History, CallListFeatures(r)
    PROVE  IInv'
<1>1. PICK limit \in Limits :
          Call(r, "count", [again |-> {}, shown |-> {}, cursor |-> 0, limit |-> PageSize(limit)])
  BY DEF CallListFeatures
<1> DEFINE new == [again |-> {}, shown |-> {}, cursor |-> 0, limit |-> PageSize(limit)]
<1>2. PageSize(limit) \in Nat \ {0}
  BY CatalogAssumption DEF PageSize, DefaultLimit
<1>3. new \in WalkReq /\ new.cursor = 0 /\ new.shown = {} /\ new.again = {}
  BY <1>2 DEF WalkReq
<1> HIDE DEF new
<1>4. Call(r, "count", new)
  BY <1>1 DEF new
<1>5. pc'[r] = "count" /\ req'[r] = new
  BY <1>4 DEF Call, IInv, TypeOK
<1>6. reply' \in [Requests -> Codes \cup {None}]
  BY <1>4 DEF Call, IInv, TypeOK
<1>7. \A f \in steady'[r] : f \in Features /\ ~(f <= 0)
  <2>1. UNCHANGED <<features, live>>
    BY <1>4 DEF Call, db
  <2>2. steady'[r] \subseteq Features
    BY <2>1, HistoryFacts DEF IInv, TypeOK
  <2>3. \A f \in Features : f \in Nat /\ f # 0
    BY CatalogAssumption
  <2> QED BY <2>2, <2>3
<1>8. ReqInv(r)' /\ ~Bound(r)'
  BY <1>3, <1>5, <1>7 DEF ReqInv, FeatureInv, AddressInv, BoundInv, WalkInv, Walk, Owned,
                          LinkOps, AddressWrites, Bound
<1> QED BY <1>3, <1>4, <1>6, <1>8, MoveStep DEF Call, PC, Walk

LEMMA CountFeaturesStep ==
    ASSUME IInv, NEW r \in Requests, History, CountFeatures(r)
    PROVE  IInv'
<1>1. pc[r] = "count" /\ WalkInv(r) /\ req[r] \in WalkReq /\ UNCHANGED <<db, live>>
  BY DEF CountFeatures, IInv, ReqInv, WalkInv, Walk
<1>2. pc'[r] = "page" /\ req'[r] = req[r]
  BY GotoFacts DEF CountFeatures, IInv
<1>3. steady'[r] \subseteq steady[r]
  BY <1>1, <1>2, HistoryFacts DEF Walk, IInv, TypeOK, db
<1>4. ReqInv(r)' /\ ~Bound(r)'
  BY <1>1, <1>2, <1>3 DEF ReqInv, FeatureInv, AddressInv, BoundInv, WalkInv, Walk, Owned,
                          LinkOps, AddressWrites, Bound
<1> QED BY <1>1, <1>4, GotoFacts, MoveStep DEF CountFeatures, IInv, PC, Walk

LEMMA PageFeaturesStep ==
    ASSUME IInv, NEW r \in Requests, History, PageFeatures(r)
    PROVE  IInv'
<1> DEFINE q == req[r]
<1>1. /\ pc[r] = "page" /\ q \in WalkReq /\ q.again = {} /\ UNCHANGED <<db, live>>
      /\ \A f \in q.shown : f <= q.cursor
      /\ \A f \in steady[r] : f <= q.cursor => f \in q.shown
  BY DEF PageFeatures, IInv, ReqInv, WalkInv, Walk
<1>2. PICK page \in SUBSET Present :
          LET seen == [q EXCEPT !.again = @ \cup (q.shown \cap page), !.shown = @ \cup page]
          IN  /\ IsPage(page, Present, q.cursor, q.limit)
              /\ \/ /\ Full(page, q.limit)
                    /\ \E last \in page :
                           /\ IsLast(last, page)
                           /\ Goto(r, "count", [seen EXCEPT !.cursor = last])
                 \/ ~Full(page, q.limit) /\ Goto(r, "walked", seen)
  BY DEF PageFeatures
<1> DEFINE seen == [q EXCEPT !.again = @ \cup (q.shown \cap page), !.shown = @ \cup page]
<1>3. /\ Present \subseteq Features /\ Features \subseteq Nat
      /\ q.cursor \in Nat /\ q.shown \subseteq Features
      /\ \A x \in Present : x \in Nat
  BY <1>1, CatalogAssumption DEF Present, WalkReq
<1>4. q.shown \cap page = {}
  <2>1. IsPage(page, Present, q.cursor, q.limit)
    BY <1>2
  <2>2. ASSUME NEW x \in page PROVE x \in Nat /\ x > q.cursor
    BY <1>3, <2>1 DEF IsPage, Above
  <2>3. ASSUME NEW x \in page, x \in q.shown PROVE FALSE
    <3>1. x <= q.cursor
      BY <1>1, <2>3
    <3> QED BY <1>3, <2>2, <3>1
  <2> QED BY <2>3
<1>5. seen \in WalkReq /\ seen.again = {} /\ seen.shown = q.shown \cup page
      /\ seen.cursor = q.cursor
  <2>1. page \in SUBSET Features
    BY <1>3
  <2> HIDE DEF q
  <2> QED BY <1>1, <1>4, <2>1 DEF WalkReq
<1>6. steady'[r] \subseteq steady[r] /\ steady'[r] \subseteq Present
  <2>1. pc'[r] \in {"count", "walked"}
    BY <1>2, GotoFacts DEF IInv
  <2>2. Present' = Present
    BY <1>1 DEF Present, db
  <2> QED BY <1>1, <2>1, <2>2, HistoryFacts DEF Walk, IInv, TypeOK, db
<1>7. ASSUME NEW last \in page, IsLast(last, page), Full(page, q.limit),
             Goto(r, "count", [seen EXCEPT !.cursor = last])
      PROVE  IInv'
  <2> DEFINE new == [seen EXCEPT !.cursor = last]
  <2>1. last \in Nat /\ q.cursor < last /\ \A f \in page : f <= last
    BY <1>2, <1>3, <1>7 DEF IsPage, Above, IsLast
  <2>2. new \in WalkReq /\ new.again = {} /\ new.shown = q.shown \cup page /\ new.cursor = last
    <3> HIDE DEF seen, q
    <3> QED BY <1>5, <2>1 DEF WalkReq
  <2> HIDE DEF new
  <2>3. Goto(r, "count", new)
    BY <1>7 DEF new
  <2>4. pc'[r] = "count" /\ req'[r] = new
    BY <2>3, GotoFacts DEF IInv
  <2>5. \A f \in new.shown : f <= new.cursor
    <3>1. ASSUME NEW f \in q.shown PROVE f <= last
      <4>1. f \in Nat /\ f <= q.cursor
        BY <1>1, <1>3
      <4> QED BY <1>3, <2>1, <4>1
    <3> QED BY <2>1, <2>2, <3>1
  <2>6. \A f \in steady'[r] : f <= new.cursor => f \in new.shown
    <3>1. ASSUME NEW f \in steady'[r], f <= last, f \notin page PROVE f \in q.shown
      <4>1. f \in Present /\ f \in Nat /\ f \in steady[r]
        BY <1>3, <1>6
      <4>2. CASE f <= q.cursor
        BY <1>1, <4>1, <4>2
      <4>3. CASE f > q.cursor
        <5>1. f \in Above(Present, q.cursor) \ page
          BY <3>1, <4>1, <4>3 DEF Above
        <5>2. last < f
          BY <1>2, <5>1 DEF IsPage
        <5> QED BY <2>1, <3>1, <4>1, <5>2
      <4> QED BY <1>3, <4>1, <4>2, <4>3
    <3> QED BY <2>2, <3>1
  <2>7. ReqInv(r)' /\ ~Bound(r)'
    BY <2>2, <2>4, <2>5, <2>6 DEF ReqInv, FeatureInv, AddressInv, BoundInv, WalkInv, Walk,
                                  Owned, LinkOps, AddressWrites, Bound
  <2> QED BY <1>1, <2>2, <2>3, <2>7, GotoFacts, MoveStep DEF IInv, PC, Walk
<1>8. ASSUME ~Full(page, q.limit), Goto(r, "walked", seen) PROVE IInv'
  <2>1. page = Above(Present, q.cursor)
    BY <1>2, <1>8 DEF IsPage
  <2>2. \A f \in steady'[r] : f \in seen.shown
    <3>1. ASSUME NEW f \in steady'[r], f \notin page PROVE f \in q.shown
      <4>1. f \in Present /\ f \in Nat /\ f \in steady[r]
        BY <1>3, <1>6
      <4>2. f <= q.cursor
        BY <1>3, <2>1, <3>1, <4>1 DEF Above
      <4> QED BY <1>1, <4>1, <4>2
    <3> QED BY <1>5, <3>1
  <2>3. pc'[r] = "walked" /\ req'[r] = seen
    BY <1>8, GotoFacts DEF IInv
  <2> HIDE DEF seen
  <2>4. ReqInv(r)' /\ ~Bound(r)'
    BY <1>5, <2>2, <2>3 DEF ReqInv, FeatureInv, AddressInv, BoundInv, WalkInv, Walk,
                            Owned, LinkOps, AddressWrites, Bound
  <2> QED BY <1>1, <1>5, <1>8, <2>4, GotoFacts, MoveStep DEF IInv, PC, Walk
<1> QED BY <1>2, <1>7, <1>8

-----------------------------------------------------------------------------
\* Requests that only answer.
LEMMA AnswersStep ==
    ASSUME IInv, NEW r \in Requests, History,
           CallRefused(r) \/ GetFeature(r) \/ GetAddress(r) \/ Return(r) \/ Fail(r)
    PROVE  IInv'
<1>1. \E code \in Codes : Answer(r, code)
  BY CodeType DEF CallRefused, GetFeature, GetAddress, Return, Fail, Codes
<1>2. UNCHANGED <<db, live>>
  BY DEF CallRefused, GetFeature, GetAddress, Return, Fail
<1> QED BY <1>1, <1>2, AnswerOnly

LEMMA RequestStep ==
    ASSUME IInv, NEW r \in Requests, History, Request(r)
    PROVE  IInv'
<1>1. CASE CallAttach(r) \/ CallDetach(r)
  BY <1>1, CallLinkStep DEF CallAttach, CallDetach, LinkOps
<1>2. CASE CallFeature(r) \/ CallGetAddress(r) \/ CallCreateAddress(r) \/ CallUpdateAddress(r)
           \/ CallDeleteAddress(r) \/ CallListFeatures(r)
  BY <1>2, CallFeatureStep, CallAddressStep, CallListFeaturesStep
<1>3. CASE InsertFeature(r) \/ ReadFeature(r) \/ SaveFeature(r) \/ UpsertFeature(r)
           \/ DeleteFeature(r)
  BY <1>3, InsertFeatureStep, ReadFeatureStep, SaveFeatureStep, DeleteFeatureStep
<1>4. CASE VerifyOwner(r) \/ AttachFeature(r) \/ DetachFeature(r)
  BY <1>4, VerifyOwnerStep, AttachFeatureStep, DetachFeatureStep
<1>5. CASE InsertAddress(r) \/ ReadAddress(r) \/ SaveAddress(r) \/ UpsertAddress(r)
           \/ DeleteAddress(r)
  BY <1>5, InsertAddressStep, ReadAddressStep, SaveAddressStep, DeleteAddressStep
<1>6. CASE CountFeatures(r) \/ PageFeatures(r)
  BY <1>6, CountFeaturesStep, PageFeaturesStep
<1>7. CASE CallRefused(r) \/ GetFeature(r) \/ GetAddress(r) \/ Return(r) \/ Fail(r)
  BY <1>7, AnswersStep
<1> QED BY <1>1, <1>2, <1>3, <1>4, <1>5, <1>6, <1>7 DEF Request

LEMMA ListingStep ==
    ASSUME IInv, NEW p \in Properties, SoftDelete(p) \/ Restore(p), History
    PROVE  IInv'
<1>1. live' \subseteq Properties /\ UNCHANGED <<db, pc, req, reply>>
  BY DEF SoftDelete, Restore, IInv, TypeOK
<1>2. NoDanglingLinks'
  BY <1>1 DEF IInv, NoDanglingLinks, Present, db
<1> QED BY <1>1, <1>2, OwnStep DEF IInv, TypeOK, db

LEMMA NextIInv == IInv /\ [Next]_vars => IInv'
<1>1. ASSUME IInv, Next PROVE IInv'
  BY <1>1, RequestStep, ListingStep DEF Next
<1>2. ASSUME IInv, UNCHANGED vars PROVE IInv'
  BY <1>2 DEF vars, db, IInv, TypeOK, NoDanglingLinks, Present, ReqInv, FeatureInv, AddressInv,
              BoundInv, WalkInv, Agree, Bound
<1> QED BY <1>1, <1>2

THEOREM Inductive == Spec => []IInv
  BY InitIInv, NextIInv, PTL DEF Spec

\* Every variable keeps its type, for any number of listings, features,
\* addresses and requests.
THEOREM TypeCorrect == Spec => []TypeOK
<1>1. IInv => TypeOK
  BY DEF IInv
<1> QED BY Inductive, <1>1, PTL

\* No listing offers a feature that the catalogue has lost (AddPropertyFeature,
\* DeleteFeatureByID).
THEOREM LinksTheorem == Spec => []NoDanglingLinks
<1>1. IInv => NoDanglingLinks
  BY DEF IInv
<1> QED BY Inductive, <1>1, PTL

\* A walk through any number of features in pages of any size shows each that
\* was there all along, and none twice (ListFeatures).
THEOREM WalkTheorem == Spec => []WalkComplete
<1>1. IInv => WalkComplete
  BY DEF IInv, ReqInv, WalkInv, WalkComplete, Walk
<1> QED BY Inductive, <1>1, PTL

-----------------------------------------------------------------------------
(* Who changes what belongs to a listing, and when.                        *)

\* A statement that changes an address or a link of listing p follows a check
\* of the owner by the same request, for the same listing, while p was live.
Authorised(r, p) ==
    /\ pc'[r] # pc[r]
    /\ req[r].property = p
    /\ req[r].caller = Owner[p]
    /\ p \in lived[r]

\* A change of p is a change of a link of p or of an address of p.
LEMMA Unchanged ==
    ASSUME NEW p, UNCHANGED <<links, addresses>>
    PROVE  ~Changed(p)
  BY DEF Changed, LinksOf

LEMMA LinkChange ==
    ASSUME IInv, NEW r \in Requests, AttachFeature(r) \/ DetachFeature(r),
           NEW p \in Properties, Changed(p)
    PROVE  Authorised(r, p)
<1>1. pc[r] \in LinkOps /\ UNCHANGED addresses
  BY DEF AttachFeature, DetachFeature, LinkOps
<1>2. PICK code \in Codes : Answer(r, code)
  BY CodeType, WroteFacts DEF AttachFeature, DetachFeature
<1>3. pc'[r] = "idle"
  BY <1>2, AnswerFacts DEF IInv
<1>4. /\ req[r].caller = Owner[req[r].property]
      /\ req[r].property \in lived[r]
  BY <1>1 DEF IInv, ReqInv, AddressInv, Owned
<1>5. LinksOf(p)' # LinksOf(p)
  BY <1>1 DEF Changed
<1>6. \A l : (l \in links' <=> l \in links) \/ l = <<req[r].property, req[r].feature>>
  BY DEF AttachFeature, DetachFeature
<1>7. p = req[r].property
  <2>1. PICK l : l \in LinksOf(p)' <=> l \notin LinksOf(p)
    BY <1>5
  <2>2. l[1] = p /\ ~(l \in links' <=> l \in links)
    BY <2>1 DEF LinksOf
  <2> QED BY <1>6, <2>2
<1> QED BY <1>1, <1>3, <1>4, <1>7 DEF Authorised, LinkOps

LEMMA AddressChange ==
    ASSUME IInv, NEW r \in Requests,
           InsertAddress(r) \/ SaveAddress(r) \/ UpsertAddress(r) \/ DeleteAddress(r),
           NEW p \in Properties, Changed(p)
    PROVE  Authorised(r, p)
<1>1. pc[r] \in {"create_address"} \cup AddressWrites /\ UNCHANGED links
  BY DEF InsertAddress, SaveAddress, UpsertAddress, DeleteAddress, AddressWrites
<1>2. /\ req[r].property \in Properties /\ req[r].caller = Owner[req[r].property]
      /\ req[r].property \in lived[r] /\ req[r] \in Req
  BY <1>1 DEF IInv, ReqInv, AddressInv, Owned, AddressWrites, Walk
<1>3. PICK a \in Addresses : /\ addresses'[a] # addresses[a]
                             /\ a \in AddressesOf(p) \cup AddressesOf(p)'
  BY <1>1 DEF Changed, LinksOf
<1>4. \/ Exists(addresses[a]) /\ addresses[a].property = p
      \/ Exists(addresses'[a]) /\ addresses'[a].property = p
  BY <1>3 DEF AddressesOf
<1>5. p = req[r].property
  <2>1. CASE InsertAddress(r)
    <3> DEFINE new == [content |-> req[r].content, property |-> req[r].property]
    <3>1. PICK b \in Addresses : addresses[b] = None /\ addresses' = [addresses EXCEPT ![b] = new]
      BY <2>1 DEF InsertAddress
    <3>2. a = b /\ addresses'[a] = new /\ addresses[a] = None
      <4> HIDE DEF new
      <4> QED BY <1>3, <3>1 DEF IInv, TypeOK
    <3> QED BY <1>4, <3>2 DEF Exists
  <2>2. CASE pc[r] \in AddressWrites
    <3> DEFINE b == req[r].address
    <3>1. /\ b \in Addresses /\ req[r].copy.property = req[r].property
          /\ Exists(addresses[b]) => addresses[b].property = req[r].property
          /\ addresses[b] # None
      BY <2>2, HeldAddress
    <3>2. \/ UNCHANGED addresses
          \/ addresses' = [addresses EXCEPT ![b] = req[r].copy]
          \/ addresses' = [addresses EXCEPT ![b] = IF Exists(@) THEN Gone ELSE @]
      BY <2>2 DEF AddressWrites, InsertAddress, SaveAddress, UpsertAddress, DeleteAddress
    <3>3. a = b /\ addresses'[a] \in {req[r].copy, Gone}
      BY <1>3, <3>1, <3>2 DEF IInv, TypeOK
    <3> QED BY <1>4, <3>1, <3>3 DEF Exists
  <2>3. pc[r] = "create_address" => InsertAddress(r)
    BY DEF SaveAddress, UpsertAddress, DeleteAddress
  <2> QED BY <1>1, <2>1, <2>2, <2>3
<1>6. pc'[r] # pc[r]
  <2>1. ASSUME NEW code \in Codes, Answer(r, code) PROVE pc'[r] = "idle"
    BY <2>1, AnswerFacts DEF IInv
  <2>2. ASSUME Goto(r, "upsert_address", req[r]), SaveAddress(r) PROVE pc'[r] # pc[r]
    BY <2>2, GotoFacts DEF SaveAddress, IInv
  <2>3. pc'[r] = "idle" \/ (SaveAddress(r) /\ Goto(r, "upsert_address", req[r]))
    BY <2>1, CodeType, WroteFacts DEF InsertAddress, SaveAddress, UpsertAddress, DeleteAddress
  <2> QED BY <1>1, <2>2, <2>3 DEF AddressWrites
<1> QED BY <1>2, <1>5, <1>6 DEF Authorised

LEMMA ChangeAuthorised ==
    ASSUME IInv, [Next]_vars, NEW p \in Properties, Changed(p)
    PROVE  \E r \in Requests : Authorised(r, p)
<1>1. ~(UNCHANGED links /\ UNCHANGED addresses)
  BY Unchanged
<1>2. PICK r \in Requests : Request(r)
  BY <1>1 DEF Next, SoftDelete, Restore, vars, db
<1>3. \/ AttachFeature(r) \/ DetachFeature(r)
      \/ InsertAddress(r) \/ SaveAddress(r) \/ UpsertAddress(r) \/ DeleteAddress(r)
  BY <1>1, <1>2
  DEF Request, CallRefused, CallFeature, CallGetAddress, CallListFeatures, CallAttach,
      CallDetach, CallCreateAddress, CallUpdateAddress, CallDeleteAddress, Call, InsertFeature,
      ReadFeature, SaveFeature, UpsertFeature, DeleteFeature, GetFeature, VerifyOwner,
      ReadAddress, GetAddress, CountFeatures, PageFeatures, Return, Fail, db
<1> QED BY <1>3, LinkChange, AddressChange

\* Only requests of its owner change the addresses and links of a listing,
\* although the owner is checked before, on a row read before that
\* (verifyPropertyOwner, AddPropertyFeature, RemovePropertyFeature).
THEOREM OwnerTheorem == Spec => OnlyOwnerChanges
<1>1. IInv /\ [Next]_vars => \A p \in Properties : Changed(p) => ByOwner(p)
  BY ChangeAuthorised DEF Authorised, ByOwner
<1>2. Spec => [][\A p \in Properties : Changed(p) => ByOwner(p)]_vars
  BY <1>1, Inductive, PTL DEF Spec
<1> QED BY <1>2 DEF OnlyOwnerChanges

\* A request that only ever met a deleted listing changes nothing of it.
THEOREM LiveTheorem == Spec => WrittenWhileLive
<1>1. IInv /\ [Next]_vars => \A p \in Properties : Changed(p) => WhileLive(p)
  BY ChangeAuthorised DEF Authorised, WhileLive
<1>2. Spec => [][\A p \in Properties : Changed(p) => WhileLive(p)]_vars
  BY <1>1, Inductive, PTL DEF Spec
<1> QED BY <1>2 DEF WrittenWhileLive

-----------------------------------------------------------------------------
(* The shape of a step: what a request does next, and what it leaves alone. *)

\* The requests that write a table, and those that do not.
FeatureWrites(r) == InsertFeature(r) \/ SaveFeature(r) \/ UpsertFeature(r) \/ DeleteFeature(r)
LinkWrites(r)    == AttachFeature(r) \/ DetachFeature(r)
RowWrites(r)     == InsertAddress(r) \/ SaveAddress(r) \/ UpsertAddress(r) \/ DeleteAddress(r)

\* The calls, and the statement each one starts at.
CallsAny(r) ==
    \/ CallFeature(r) \/ CallGetAddress(r) \/ CallListFeatures(r)
    \/ CallAttach(r) \/ CallDetach(r)
    \/ CallCreateAddress(r) \/ CallUpdateAddress(r) \/ CallDeleteAddress(r)

FirstStatements == {"create_feature", "read_feature", "delete_feature", "get_feature",
                    "read_address", "get_address", "count"}

LEMMA CallShape ==
    ASSUME NEW r \in Requests, CallsAny(r)
    PROVE  \E label, args :
               /\ Call(r, label, args)
               /\ \/ label \in FirstStatements
                  \/ label = "verify" /\ args.op \in LinkOps \cup {"create_address"}
<1>1. CASE CallFeature(r)
  <2>1. ASSUME NEW name \in Contents,
               Call(r, "create_feature", [Args("create_feature") EXCEPT !.content = name])
        PROVE  \E label, args : Call(r, label, args) /\ label \in FirstStatements
    BY <2>1, Zenon DEF FirstStatements
  <2>2. ASSUME NEW f \in Features, NEW name \in Contents,
               Call(r, "read_feature",
                    [Args("update_feature") EXCEPT !.feature = f, !.content = name])
        PROVE  \E label, args : Call(r, label, args) /\ label \in FirstStatements
    BY <2>2, Zenon DEF FirstStatements
  <2>3. ASSUME NEW f \in Features, NEW op \in {"delete_feature", "get_feature"},
               Call(r, op, [Args(op) EXCEPT !.feature = f])
        PROVE  \E label, args : Call(r, label, args) /\ label \in FirstStatements
    <3>1. op \in FirstStatements
      BY DEF FirstStatements
    <3> QED BY <2>3, <3>1, Zenon
  <2> QED BY <1>1, <2>1, <2>2, <2>3, Zenon DEF CallFeature
<1>2. CASE CallGetAddress(r)
  <2>1. \E args : Call(r, "get_address", args)
    BY <1>2, Zenon DEF CallGetAddress
  <2> QED BY <2>1, Zenon DEF FirstStatements
<1>3. CASE CallListFeatures(r)
  <2>1. \E args : Call(r, "count", args)
    BY <1>3, Zenon DEF CallListFeatures
  <2> QED BY <2>1, Zenon DEF FirstStatements
<1>4. CASE CallUpdateAddress(r) \/ CallDeleteAddress(r)
  <2>1. \E args : Call(r, "read_address", args)
    BY <1>4, Zenon DEF CallUpdateAddress, CallDeleteAddress
  <2> QED BY <2>1, Zenon DEF FirstStatements
<1>5. CASE CallAttach(r) \/ CallDetach(r)
  <2>1. PICK op \in LinkOps, p \in Properties, f \in Features, u \in Users :
            Call(r, "verify", [Args(op) EXCEPT !.property = p, !.feature = f, !.caller = u])
    BY <1>5, Zenon DEF CallAttach, CallDetach, LinkOps
  <2>2. PICK args : args = [Args(op) EXCEPT !.property = p, !.feature = f, !.caller = u]
    OBVIOUS
  <2>3. args.op = op
    BY <2>2 DEF Args
  <2> QED BY <2>1, <2>2, <2>3, Zenon
<1>6. CASE CallCreateAddress(r)
  <2>1. PICK p \in Properties, u \in Users, content \in Contents :
            Call(r, "verify", [Args("create_address") EXCEPT !.property = p, !.caller = u,
                                                             !.content = content])
    BY <1>6, Zenon DEF CallCreateAddress
  <2>2. PICK args : args = [Args("create_address") EXCEPT !.property = p, !.caller = u,
                                                          !.content = content]
    OBVIOUS
  <2>3. args.op = "create_address"
    BY <2>2 DEF Args
  <2>4. args.op \in LinkOps \cup {"create_address"}
    BY <2>3
  <2> QED BY <2>1, <2>2, <2>4, Zenon
<1> QED BY <1>1, <1>2, <1>3, <1>4, <1>5, <1>6, Zenon DEF CallsAny

LEMMA PageShape ==
    ASSUME NEW r \in Requests, PageFeatures(r)
    PROVE  /\ UNCHANGED db
           /\ \E new : Goto(r, "count", new) \/ Goto(r, "walked", new)
<1>1. PICK page \in SUBSET Present :
          LET seen == [req[r] EXCEPT !.again = @ \cup (req[r].shown \cap page),
                                     !.shown = @ \cup page]
          IN  /\ IsPage(page, Present, req[r].cursor, req[r].limit)
              /\ \/ /\ Full(page, req[r].limit)
                    /\ \E last \in page :
                           /\ IsLast(last, page)
                           /\ Goto(r, "count", [seen EXCEPT !.cursor = last])
                 \/ ~Full(page, req[r].limit) /\ Goto(r, "walked", seen)
  BY Zenon DEF PageFeatures
<1>2. PICK seen : seen = [req[r] EXCEPT !.again = @ \cup (req[r].shown \cap page),
                                        !.shown = @ \cup page]
  OBVIOUS
<1>3. \/ \E last \in page : Goto(r, "count", [seen EXCEPT !.cursor = last])
      \/ Goto(r, "walked", seen)
  BY <1>1, <1>2, Zenon
<1>4. UNCHANGED db
  BY Zenon DEF PageFeatures
<1> QED BY <1>3, <1>4, Zenon

\* Only the request itself moves on, so what it says is what it did.
LEMMA OthersStay ==
    ASSUME IInv, NEW r \in Requests, Request(r)
    PROVE  \A o \in Requests \ {r} : pc'[o] = pc[o] /\ req'[o] = req[o]
<1>0. TypeOK
  BY DEF IInv
<1>1. CASE CallRefused(r) \/ CallsAny(r)
  <2>1. (\E label, args : Call(r, label, args)) \/ (\E code : Answer(r, code))
    BY <1>1, CallShape DEF CallRefused
  <2> QED BY <1>0, <2>1 DEF Call, Answer, TypeOK
<1>2. CASE FeatureWrites(r) \/ LinkWrites(r) \/ RowWrites(r)
  <2>1. (\E label, new : Goto(r, label, new)) \/ (\E code : Answer(r, code))
    BY <1>2 DEF FeatureWrites, LinkWrites, RowWrites, InsertFeature, SaveFeature, UpsertFeature,
                DeleteFeature, AttachFeature, DetachFeature, InsertAddress, SaveAddress,
                UpsertAddress, DeleteAddress, Wrote
  <2> QED BY <1>0, <2>1 DEF Goto, Answer, TypeOK
<1>3. CASE \/ ReadFeature(r) \/ GetFeature(r) \/ VerifyOwner(r) \/ ReadAddress(r)
           \/ GetAddress(r) \/ CountFeatures(r) \/ Return(r) \/ Fail(r)
  <2>1. (\E label, new : Goto(r, label, new)) \/ (\E code : Answer(r, code))
    BY <1>3 DEF ReadFeature, GetFeature, VerifyOwner, ReadAddress, GetAddress, CountFeatures,
                Return, Fail
  <2> QED BY <1>0, <2>1 DEF Goto, Answer, TypeOK
<1>4. CASE PageFeatures(r)
  <2>1. \E label, new : Goto(r, label, new)
    BY <1>4, PageShape
  <2> QED BY <1>0, <2>1 DEF Goto, TypeOK
<1> QED BY <1>1, <1>2, <1>3, <1>4 DEF Request, CallsAny, FeatureWrites, LinkWrites, RowWrites

-----------------------------------------------------------------------------
LEMMA RemovedByStep ==
    ASSUME IInv, NEW r \in Requests, Request(r), reply'[r] = "ok"
    PROVE  Removed(r)
<1>1. /\ features \in [Features -> Contents \cup {None, Gone}]
      /\ addresses \in [Addresses -> Row \cup {None, Gone}]
      /\ reply \in [Requests -> Codes \cup {None}]
  BY DEF IInv, TypeOK
<1>2. CodeOf("ErrRecordNotFound") # "ok" /\ CodeOf("error") # "ok"
  BY DEF CodeOf
<1>3. ASSUME pc[r] \in {"delete_feature", "delete_address", "detach"}
      PROVE  \/ DeleteFeature(r) \/ DeleteAddress(r) \/ DetachFeature(r) \/ Fail(r)
  BY <1>3
     DEF Request, CallRefused, CallFeature, CallGetAddress, CallListFeatures, CallAttach,
      CallDetach, CallCreateAddress, CallUpdateAddress, CallDeleteAddress, Call,
      InsertFeature, ReadFeature, SaveFeature, UpsertFeature,
      GetFeature, VerifyOwner, AttachFeature, InsertAddress, ReadAddress,
      SaveAddress, UpsertAddress, GetAddress, CountFeatures, PageFeatures, Return
<1>4. \A code : Answer(r, code) => reply'[r] = code
  BY <1>1 DEF Answer
<1>5. ~Fail(r)
  BY <1>2, <1>4 DEF Fail
<1>6. CASE pc[r] = "delete_feature"
  <2>1. DeleteFeature(r)
    BY <1>3, <1>5, <1>6 DEF DeleteAddress, DetachFeature
  <2>2. req[r].feature \in Features
    BY <1>6 DEF IInv, ReqInv, FeatureInv
  <2>3. Exists(features[req[r].feature]) /\ ~Referenced(req[r].feature)
    BY <1>2, <1>4, <2>1 DEF DeleteFeature, Affected
  <2> QED BY <1>1, <1>6, <2>1, <2>2, <2>3 DEF DeleteFeature, Removed
<1>7. CASE pc[r] = "delete_address"
  <2>1. DeleteAddress(r)
    BY <1>3, <1>5, <1>7 DEF DeleteFeature, DetachFeature
  <2>2. req[r].address \in Addresses
    BY <1>7 DEF IInv, ReqInv, BoundInv, Bound, AddressWrites
  <2>3. Exists(addresses[req[r].address])
    BY <1>2, <1>4, <2>1 DEF DeleteAddress, Affected
  <2> QED BY <1>1, <1>7, <2>1, <2>2, <2>3 DEF DeleteAddress, Removed
<1>8. CASE pc[r] = "detach"
  <2>1. DetachFeature(r)
    BY <1>3, <1>5, <1>8 DEF DeleteFeature, DeleteAddress
  <2>2. <<req[r].property, req[r].feature>> \in links
    BY <1>2, <1>4, <2>1 DEF DetachFeature
  <2> QED BY <1>8, <2>1, <2>2 DEF DetachFeature, Removed
<1> QED BY <1>6, <1>7, <1>8 DEF Removed

\* Of the requests that delete a row only the one that removed it is told that
\* it worked (RowsAffected in DeleteFeatureByID, DeleteAddressByID and
\* RemovePropertyFeature).
THEOREM RemovedTheorem == Spec => RemovedOnce
<1>1. IInv /\ [Next]_vars =>
          \A r \in Requests : pc'[r] # pc[r] /\ reply'[r] = "ok" => Removed(r)
  <2> SUFFICES ASSUME IInv, [Next]_vars, NEW r \in Requests, pc'[r] # pc[r],
                      reply'[r] = "ok"
               PROVE  Removed(r)
    OBVIOUS
  <2>1. CASE \E o \in Requests : Request(o)
    BY <2>1, OthersStay, RemovedByStep
  <2>2. CASE UNCHANGED pc
    BY <2>2
  <2> QED BY <2>1, <2>2 DEF Next, SoftDelete, Restore, vars
<1>2. Spec => [][\A r \in Requests : pc'[r] # pc[r] /\ reply'[r] = "ok" => Removed(r)]_vars
  BY <1>1, Inductive, PTL DEF Spec
<1> QED BY <1>2 DEF RemovedOnce

-----------------------------------------------------------------------------
(* The statements implement the operations of CatalogBook.  A row a request *)
(* holds a copy of was there, and a deletion leaves a mark, so at its write *)
(* the row is there still, or was deleted meanwhile; never new.             *)

\* The rows held are still there, or at least were.
FeatureRead(r) == HoldsFeature(r) => features[req[r].feature] # None
FeatureKept(r) == HoldsFeature(r) => /\ pc[r] = "update_feature"
                                     /\ Exists(features[req[r].feature])
AddressKept(r) == HoldsAddress(r) => /\ pc[r] # "upsert_address"
                                     /\ Exists(addresses[req[r].address])

Read == \A r \in Requests : FeatureRead(r)
Kept == \A r \in Requests : FeatureKept(r) /\ AddressKept(r)

LEMMA OnlyWritesWrite ==
    ASSUME NEW r \in Requests, Request(r)
    PROVE  FeatureWrites(r) \/ LinkWrites(r) \/ RowWrites(r) \/ UNCHANGED db
<1>1. CASE CallRefused(r) \/ CallsAny(r)
  BY <1>1, CallShape DEF CallRefused, Call
<1>2. CASE \/ ReadFeature(r) \/ GetFeature(r) \/ VerifyOwner(r) \/ ReadAddress(r)
           \/ GetAddress(r) \/ CountFeatures(r) \/ Return(r) \/ Fail(r)
  BY <1>2 DEF ReadFeature, GetFeature, VerifyOwner, ReadAddress, GetAddress, CountFeatures,
              Return, Fail
<1>3. CASE PageFeatures(r)
  BY <1>3, PageShape
<1> QED BY <1>1, <1>2, <1>3 DEF Request, CallsAny, FeatureWrites, LinkWrites, RowWrites

\* A feature is created, renamed where it was found, brought back by a late
\* Save, or deleted while no listing offers it.
LEMMA FeatureImplements ==
    ASSUME IInv, Read, NEW r \in Requests, FeatureWrites(r)
    PROVE  /\ Book!LateNext \/ UNCHANGED db
           /\ FeatureKept(r) => Book!Next \/ UNCHANGED db
<1>0. features \in [Features -> Contents \cup {None, Gone}]
  BY DEF IInv, TypeOK
<1>1. CASE InsertFeature(r)
  <2>1. PICK f \in Features : /\ features[f] = None
                              /\ features' = [features EXCEPT ![f] = req[r].content]
    BY <1>1 DEF InsertFeature
  <2>2. req[r].content \in Contents
    BY <1>1 DEF InsertFeature, IInv, ReqInv, FeatureInv
  <2>3. Book!CreateFeature(f)
    BY <1>1, <2>1, <2>2 DEF InsertFeature, Book!CreateFeature, Book!PutFeature
  <2> QED BY <2>3 DEF Book!LateNext, Book!Next
<1>2. CASE SaveFeature(r) \/ UpsertFeature(r)
  <2>1. PICK f : f = req[r].feature
    OBVIOUS
  <2>2. f \in Features /\ req[r].copy \in Contents /\ features[f] # None
    BY <1>2, <2>1 DEF SaveFeature, UpsertFeature, IInv, ReqInv, FeatureInv, Read, FeatureRead,
                      HoldsFeature
  <2>3. CASE features' = features
    BY <1>2, <2>3 DEF SaveFeature, UpsertFeature, db
  <2>4. CASE features' # features
    <3>1. Book!PutFeature(f, req[r].copy)
      BY <1>2, <2>1, <2>4 DEF SaveFeature, UpsertFeature, Book!PutFeature
    <3>2. CASE Exists(features[f])
      <4>1. Book!UpdateFeature(f)
        BY <2>2, <3>1, <3>2 DEF Exists, Book!Exists, Book!UpdateFeature
      <4> QED BY <2>2, <4>1 DEF Book!LateNext, Book!Next
    <3>3. CASE ~Exists(features[f])
      <4>1. ~FeatureKept(r)
        BY <1>2, <2>1, <3>3 DEF FeatureKept, HoldsFeature, SaveFeature, UpsertFeature
      <4>2. Book!UndeleteFeature(f)
        BY <2>2, <3>1, <3>3 DEF Exists, Book!UndeleteFeature
      <4> QED BY <2>2, <4>1, <4>2 DEF Book!LateNext
    <3> QED BY <3>2, <3>3
  <2> QED BY <2>3, <2>4
<1>3. CASE DeleteFeature(r)
  <2>1. PICK f : f = req[r].feature
    OBVIOUS
  <2>2. f \in Features
    BY <1>3, <2>1 DEF DeleteFeature, IInv, ReqInv, FeatureInv
  <2>3. CASE Exists(features[f]) /\ ~Referenced(f)
    <3>1. features' = [features EXCEPT ![f] = Gone]
      BY <1>0, <1>3, <2>1, <2>2, <2>3 DEF DeleteFeature
    <3>2. Book!DeleteFeature(f)
      BY <1>3, <2>3, <3>1 DEF DeleteFeature, Referenced, Exists, Book!Exists, Book!DeleteFeature,
                              Book!PutFeature
    <3> QED BY <2>2, <3>2 DEF Book!LateNext, Book!Next
  <2>4. CASE ~(Exists(features[f]) /\ ~Referenced(f))
    BY <1>0, <1>3, <2>1, <2>2, <2>4 DEF DeleteFeature, db
  <2> QED BY <2>3, <2>4
<1> QED BY <1>1, <1>2, <1>3 DEF FeatureWrites

LEMMA LinkImplements ==
    ASSUME IInv, NEW r \in Requests, LinkWrites(r)
    PROVE  Book!Next \/ UNCHANGED db
<1>1. PICK p, f : p = req[r].property /\ f = req[r].feature
  OBVIOUS
<1>2. p \in Properties /\ f \in Features
  BY <1>1 DEF LinkWrites, AttachFeature, DetachFeature, IInv, ReqInv, FeatureInv, AddressInv,
              Owned, LinkOps
<1>3. CASE AttachFeature(r)
  <2>1. Book!AddPropertyFeature(p, f) \/ UNCHANGED db
    BY <1>1, <1>3 DEF AttachFeature, Attachable, Exists, Book!Exists, Book!AddPropertyFeature, db
  <2> QED BY <1>2, <2>1 DEF Book!Next
<1>4. CASE DetachFeature(r)
  <2>1. Book!RemovePropertyFeature(p, f) \/ UNCHANGED db
    BY <1>1, <1>4 DEF DetachFeature, Book!RemovePropertyFeature, db
  <2> QED BY <1>2, <2>1 DEF Book!Next
<1> QED BY <1>3, <1>4 DEF LinkWrites

LEMMA AddressImplements ==
    ASSUME IInv, NEW r \in Requests, RowWrites(r)
    PROVE  /\ Book!LateNext \/ UNCHANGED db
           /\ AddressKept(r) => Book!Next \/ UNCHANGED db
<1>0. addresses \in [Addresses -> Row \cup {None, Gone}]
  BY DEF IInv, TypeOK
<1>1. CASE InsertAddress(r)
  <2>1. PICK a \in Addresses :
            /\ addresses[a] = None
            /\ addresses' = [addresses EXCEPT
                   ![a] = [content |-> req[r].content, property |-> req[r].property]]
    BY <1>1 DEF InsertAddress
  <2>2. req[r].content \in Contents /\ req[r].property \in Properties
    BY <1>1 DEF InsertAddress, IInv, ReqInv, AddressInv, Owned
  <2>3. Book!OnListing(a, req[r].property)
    BY <1>1, <2>1, <2>2 DEF InsertAddress, Book!OnListing, Book!PutAddress
  <2>4. Book!CreateAddress(a)
    BY <2>1, <2>2, <2>3 DEF Book!CreateAddress
  <2> QED BY <2>4 DEF Book!LateNext, Book!Next
<1>2. CASE SaveAddress(r) \/ UpsertAddress(r)
  <2>1. PICK a, copy : a = req[r].address /\ copy = req[r].copy
    OBVIOUS
  <2>2. /\ a \in Addresses /\ addresses[a] # None /\ copy \in Row
        /\ Exists(addresses[a]) => addresses[a].property = copy.property
    BY <1>2, <2>1 DEF SaveAddress, UpsertAddress, IInv, ReqInv, BoundInv, Bound, AddressWrites
  <2>3. CASE addresses' = addresses
    BY <1>2, <2>3 DEF SaveAddress, UpsertAddress, db
  <2>4. CASE addresses' # addresses
    <3>1. /\ copy.content \in Contents /\ copy.property \in Properties
          /\ copy = [content |-> copy.content, property |-> copy.property]
      BY <2>2 DEF Row
    <3>2. Book!PutAddress(a, copy)
      BY <1>2, <2>1, <2>4 DEF SaveAddress, UpsertAddress, Book!PutAddress
    <3>3. Book!OnListing(a, copy.property)
      BY <3>1, <3>2 DEF Book!OnListing
    <3>4. CASE Exists(addresses[a])
      <4>1. Book!UpdateAddress(a)
        BY <2>2, <3>3, <3>4 DEF Exists, Book!Exists, Book!UpdateAddress
      <4> QED BY <2>2, <4>1 DEF Book!LateNext, Book!Next
    <3>5. CASE ~Exists(addresses[a])
      <4>1. ~AddressKept(r)
        BY <1>2, <2>1, <3>5 DEF AddressKept, HoldsAddress, SaveAddress, UpsertAddress
      <4>2. Book!UndeleteAddress(a)
        BY <2>2, <3>1, <3>3, <3>5 DEF Exists, Book!UndeleteAddress
      <4> QED BY <2>2, <4>1, <4>2 DEF Book!LateNext
    <3> QED BY <3>4, <3>5
  <2> QED BY <2>3, <2>4
<1>3. CASE DeleteAddress(r)
  <2>1. PICK a : a = req[r].address
    OBVIOUS
  <2>2. a \in Addresses
    BY <1>3, <2>1 DEF DeleteAddress, IInv, ReqInv, BoundInv, Bound, AddressWrites
  <2>3. CASE Exists(addresses[a])
    <3>1. addresses' = [addresses EXCEPT ![a] = Gone]
      BY <1>0, <1>3, <2>1, <2>2, <2>3 DEF DeleteAddress
    <3>2. Book!DeleteAddress(a)
      BY <1>3, <2>3, <3>1 DEF DeleteAddress, Exists, Book!Exists, Book!DeleteAddress,
                              Book!PutAddress
    <3> QED BY <2>2, <3>2 DEF Book!LateNext, Book!Next
  <2>4. CASE ~Exists(addresses[a])
    BY <1>0, <1>3, <2>1, <2>2, <2>4 DEF DeleteAddress, db
  <2> QED BY <2>3, <2>4
<1> QED BY <1>1, <1>2, <1>3 DEF RowWrites

LEMMA StepImplements ==
    ASSUME IInv, Read, [Next]_vars
    PROVE  /\ [Book!LateNext]_(Book!vars)
           /\ Kept => [Book!Next]_(Book!vars)
<1>1. ASSUME NEW r \in Requests, Request(r)
      PROVE  /\ [Book!LateNext]_(Book!vars)
             /\ Kept => [Book!Next]_(Book!vars)
  BY <1>1, OnlyWritesWrite, FeatureImplements, LinkImplements, AddressImplements
     DEF Kept, Book!vars, db, Book!LateNext
<1>2. CASE \/ \E p \in Properties : SoftDelete(p) \/ Restore(p)
           \/ UNCHANGED vars
  BY <1>2 DEF SoftDelete, Restore, vars, db, Book!vars
<1> QED BY <1>1, <1>2 DEF Next

-----------------------------------------------------------------------------
(* What a request holds stays what it was, or is marked as deleted.        *)

\* A step of one request writes at most one feature, and deletes only the one it
\* names; the same for addresses.
LEMMA FeatureFate ==
    ASSUME IInv, NEW r \in Requests, Request(r), NEW f \in Features
    PROVE  /\ features[f] # None => features'[f] # None
           /\ Exists(features[f]) /\ ~Exists(features'[f]) =>
                  pc[r] = "delete_feature" /\ req[r].feature = f
<1>0. features \in [Features -> Contents \cup {None, Gone}]
  BY DEF IInv, TypeOK
<1>1. CASE InsertFeature(r)
  <2>1. req[r].content \in Contents
    BY <1>1 DEF InsertFeature, IInv, ReqInv, FeatureInv
  <2> QED BY <1>0, <1>1, <2>1, Sentinels DEF InsertFeature, Exists
<1>2. CASE SaveFeature(r) \/ UpsertFeature(r)
  <2>1. req[r].copy \in Contents
    BY <1>2 DEF SaveFeature, UpsertFeature, IInv, ReqInv, FeatureInv
  <2> QED BY <1>0, <1>2, <2>1, Sentinels DEF SaveFeature, UpsertFeature, Exists
<1>3. CASE DeleteFeature(r)
  BY <1>0, <1>3, Sentinels DEF DeleteFeature, Exists
<1>4. CASE features' = features
  BY <1>4
<1> QED BY <1>1, <1>2, <1>3, <1>4, OnlyWritesWrite
        DEF FeatureWrites, LinkWrites, AttachFeature, DetachFeature, RowWrites, InsertAddress,
            SaveAddress, UpsertAddress, DeleteAddress, db

LEMMA AddressFate ==
    ASSUME IInv, NEW r \in Requests, Request(r), NEW a \in Addresses
    PROVE  Exists(addresses[a]) /\ ~Exists(addresses'[a]) =>
               pc[r] = "delete_address" /\ req[r].address = a
<1>0. addresses \in [Addresses -> Row \cup {None, Gone}]
  BY DEF IInv, TypeOK
<1>1. CASE InsertAddress(r)
  BY <1>0, <1>1 DEF InsertAddress, Exists
<1>2. CASE SaveAddress(r) \/ UpsertAddress(r)
  <2>1. req[r].copy \in Row
    BY <1>2 DEF SaveAddress, UpsertAddress, IInv, ReqInv, BoundInv, Bound, AddressWrites
  <2> QED BY <1>0, <1>2, <2>1, Sentinels DEF SaveAddress, UpsertAddress, Exists
<1>3. CASE DeleteAddress(r)
  BY <1>0, <1>3 DEF DeleteAddress
<1>4. CASE addresses' = addresses
  BY <1>4
<1> QED BY <1>1, <1>2, <1>3, <1>4, OnlyWritesWrite
        DEF FeatureWrites, LinkWrites, AttachFeature, DetachFeature, RowWrites, InsertFeature,
            SaveFeature, UpsertFeature, DeleteFeature, db

\* A request comes to hold a row only by reading it.
LEMMA ComesToHold ==
    ASSUME IInv, NEW r \in Requests, Request(r)
    PROVE  /\ HoldsFeature(r)' => /\ req'[r].feature = req[r].feature
                                  /\ \/ /\ pc[r] = "update_feature" /\ pc'[r] = "upsert_feature"
                                        /\ ~Exists(features[req[r].feature])
                                     \/ /\ pc[r] = "read_feature" /\ pc'[r] = "update_feature"
                                        /\ Exists(features[req[r].feature])
           /\ HoldsAddress(r)' => /\ req'[r].address = req[r].address
                                  /\ \/ /\ pc[r] = "update_address" /\ pc'[r] = "upsert_address"
                                        /\ ~Exists(addresses[req[r].address])
                                     \/ /\ pc[r] = "verify" /\ pc'[r] = "update_address"
                                        /\ HoldsAddress(r)
                                     \/ /\ pc[r] = "read_address" /\ pc'[r] = "verify"
                                        /\ Exists(addresses[req[r].address])
           /\ HoldsFeature(r)' \/ HoldsAddress(r)' => UNCHANGED db
<1>0. TypeOK /\ ReqInv(r)
  BY DEF IInv
<1>1. CASE ReadFeature(r)
  <2>1. CASE pc'[r] = "idle"
    BY <2>1 DEF HoldsFeature, HoldsAddress
  <2>2. CASE Goto(r, "update_feature", [req[r] EXCEPT !.copy = req[r].content])
    <3>1. req[r] \in Req
      BY <1>0, <1>1 DEF ReadFeature, ReqInv, Walk
    <3>0. PICK new : new = [req[r] EXCEPT !.copy = req[r].content]
      OBVIOUS
    <3>3. new.feature = req[r].feature
      BY <3>0, <3>1 DEF Req
    <3>2. pc'[r] = "update_feature" /\ req'[r].feature = req[r].feature
      BY <1>0, <2>2, <3>0, <3>3 DEF Goto, TypeOK
    <3>4. pc[r] = "read_feature" /\ UNCHANGED db
      BY <1>1 DEF ReadFeature
    <3>5. Exists(features[req[r].feature])
      BY <1>0, <1>1, <3>2 DEF ReadFeature, Answer, TypeOK
    <3> QED BY <3>2, <3>4, <3>5 DEF HoldsFeature, HoldsAddress
  <2> QED BY <1>0, <1>1, <2>1, <2>2 DEF ReadFeature, Answer, TypeOK
<1>2. CASE SaveFeature(r)
  BY <1>0, <1>2 DEF SaveFeature, Wrote, Answer, Goto, HoldsFeature, HoldsAddress, TypeOK, db
<1>3. CASE SaveAddress(r)
  BY <1>0, <1>3 DEF SaveAddress, Wrote, Answer, Goto, HoldsFeature, HoldsAddress, TypeOK, db
<1>4. CASE ReadAddress(r)
  <2>1. CASE pc'[r] = "idle"
    BY <2>1 DEF HoldsFeature, HoldsAddress
  <2>2. CASE pc'[r] # "idle"
    <3>1. PICK row : row = addresses[req[r].address]
      OBVIOUS
    <3>2. /\ Exists(row)
          /\ Goto(r, "verify", [req[r] EXCEPT !.property = row.property,
                                              !.copy = Edited(req[r], row)])
      BY <1>0, <1>4, <2>2, <3>1 DEF ReadAddress, Answer, TypeOK
    <3>3. req[r] \in Req
      BY <1>0, <1>4 DEF ReadAddress, ReqInv, Walk
    <3>5. PICK new : new = [req[r] EXCEPT !.property = row.property,
                                          !.copy = Edited(req[r], row)]
      OBVIOUS
    <3>6. new.address = req[r].address
      BY <3>3, <3>5 DEF Req
    <3>4. pc'[r] = "verify" /\ req'[r].address = req[r].address
      BY <1>0, <3>2, <3>5, <3>6 DEF Goto, TypeOK
    <3> QED BY <1>4, <3>1, <3>2, <3>4 DEF ReadAddress, HoldsFeature, HoldsAddress
  <2> QED BY <2>1, <2>2
<1>5. CASE VerifyOwner(r)
  <2>1. CASE pc'[r] = "idle"
    BY <2>1 DEF HoldsFeature, HoldsAddress
  <2>2. CASE pc'[r] # "idle"
    <3>1. Goto(r, req[r].op, req[r])
      BY <1>0, <1>5, <2>2 DEF VerifyOwner, Answer, TypeOK
    <3>2. pc'[r] = req[r].op /\ req'[r] = req[r]
      BY <1>0, <3>1, GotoFacts
    <3>3. req[r].op \in LinkOps \cup {"create_address"} \cup AddressEdits
      BY <1>0, <1>5 DEF VerifyOwner, ReqInv, AddressInv
    <3> QED BY <1>5, <3>2, <3>3 DEF VerifyOwner, HoldsFeature, HoldsAddress, LinkOps, AddressEdits
  <2> QED BY <2>1, <2>2
<1>6. CASE CallsAny(r)
  <2>1. PICK label, args :
            /\ Call(r, label, args)
            /\ \/ label \in FirstStatements
               \/ label = "verify" /\ args.op \in LinkOps \cup {"create_address"}
    BY <1>6, CallShape
  <2>2. pc'[r] = label /\ req'[r] = args
    BY <1>0, <2>1 DEF Call, TypeOK
  <2> QED BY <2>1, <2>2 DEF HoldsFeature, HoldsAddress, LinkOps, FirstStatements
<1>8. CASE \/ CallRefused(r) \/ GetFeature(r) \/ GetAddress(r) \/ Return(r) \/ Fail(r)
           \/ InsertFeature(r) \/ UpsertFeature(r) \/ DeleteFeature(r)
           \/ AttachFeature(r) \/ DetachFeature(r)
           \/ InsertAddress(r) \/ UpsertAddress(r) \/ DeleteAddress(r)
  <2>1. \E code : Answer(r, code)
    BY <1>8 DEF CallRefused, GetFeature, GetAddress, Return, Fail, InsertFeature, UpsertFeature,
                DeleteFeature, AttachFeature, DetachFeature, InsertAddress, UpsertAddress,
                DeleteAddress, Wrote
  <2> QED BY <1>0, <2>1 DEF Answer, HoldsFeature, HoldsAddress, TypeOK
<1>9. CASE CountFeatures(r) \/ PageFeatures(r)
  <2>1. \E new : Goto(r, "page", new) \/ Goto(r, "count", new) \/ Goto(r, "walked", new)
    BY <1>9, PageShape DEF CountFeatures
  <2> QED BY <1>0, <2>1 DEF Goto, HoldsFeature, HoldsAddress, TypeOK
<1> QED BY <1>1, <1>2, <1>3, <1>4, <1>5, <1>6, <1>8, <1>9 DEF Request, CallsAny

LEMMA HeldIds ==
    ASSUME IInv, NEW r \in Requests
    PROVE  /\ HoldsFeature(r) => req[r].feature \in Features
           /\ HoldsAddress(r) => req[r].address \in Addresses
  BY DEF IInv, ReqInv, FeatureInv, BoundInv, Bound, AddressWrites, AddressEdits, HoldsFeature,
         HoldsAddress

LEMMA QuietHolds ==
    ASSUME UNCHANGED <<db, pc, req>>
    PROVE  (Read => Read') /\ (Kept => Kept')
  BY DEF db, Read, FeatureRead, Kept, FeatureKept, AddressKept, HoldsFeature, HoldsAddress

LEMMA ReadStep ==
    ASSUME IInv, Read, [Next]_vars
    PROVE  Read'
<1>1. ASSUME NEW r \in Requests, Request(r), NEW o \in Requests
      PROVE  FeatureRead(o)'
  <2>1. CASE o = r
    <3>1. ASSUME HoldsFeature(r)' PROVE features'[req'[r].feature] # None
      <4>1. /\ req'[r].feature = req[r].feature /\ features' = features
            /\ Exists(features[req[r].feature]) \/ HoldsFeature(r)
        BY <1>1, <3>1, ComesToHold DEF HoldsFeature, db
      <4> QED BY <4>1 DEF Read, FeatureRead, Exists
    <3> QED BY <2>1, <3>1 DEF FeatureRead
  <2>2. CASE o # r
    <3>1. pc'[o] = pc[o] /\ req'[o] = req[o]
      BY <1>1, <2>2, OthersStay
    <3>2. CASE HoldsFeature(o)
      <4>1. req[o].feature \in Features /\ features[req[o].feature] # None
        BY <3>2, HeldIds DEF Read, FeatureRead
      <4>2. features'[req[o].feature] # None
        BY <1>1, <4>1, FeatureFate
      <4> QED BY <3>1, <4>2 DEF FeatureRead
    <3> QED BY <3>1, <3>2 DEF FeatureRead, HoldsFeature
  <2> QED BY <2>1, <2>2
<1>2. CASE \/ \E p \in Properties : SoftDelete(p) \/ Restore(p)
           \/ UNCHANGED vars
  BY <1>2, QuietHolds DEF SoftDelete, Restore, vars
<1> QED BY <1>1, <1>2 DEF Next, Read

LEMMA KeptStep ==
    ASSUME IInv, Kept, NoOverlap, [Next]_vars
    PROVE  Kept'
<1>1. ASSUME NEW r \in Requests, Request(r), NEW o \in Requests
      PROVE  FeatureKept(o)' /\ AddressKept(o)'
  <2>1. CASE o = r
    <3>1. ASSUME HoldsFeature(r)'
          PROVE  pc'[r] = "update_feature" /\ Exists(features'[req'[r].feature])
      <4>1. ~(pc[r] = "update_feature" /\ ~Exists(features[req[r].feature]))
        BY DEF Kept, FeatureKept, HoldsFeature
      <4> QED BY <1>1, <3>1, <4>1, ComesToHold DEF db
    <3>2. ASSUME HoldsAddress(r)'
          PROVE  pc'[r] # "upsert_address" /\ Exists(addresses'[req'[r].address])
      <4>1. HoldsAddress(r) => Exists(addresses[req[r].address])
        BY DEF Kept, AddressKept
      <4>2. ~(pc[r] = "update_address" /\ ~Exists(addresses[req[r].address]))
        BY <4>1 DEF HoldsAddress
      <4> QED BY <1>1, <3>2, <4>1, <4>2, ComesToHold DEF db
    <3> QED BY <2>1, <3>1, <3>2 DEF FeatureKept, AddressKept
  <2>2. CASE o # r
    <3>1. pc'[o] = pc[o] /\ req'[o] = req[o]
      BY <1>1, <2>2, OthersStay
    <3>2. ASSUME HoldsFeature(o)
          PROVE  pc[o] = "update_feature" /\ Exists(features'[req[o].feature])
      <4>1. /\ req[o].feature \in Features
            /\ pc[o] = "update_feature" /\ Exists(features[req[o].feature])
        BY <3>2, HeldIds DEF Kept, FeatureKept
      <4>2. ~(pc[r] = "delete_feature" /\ req[r].feature = req[o].feature)
        BY <3>2 DEF NoOverlap
      <4> QED BY <1>1, <4>1, <4>2, FeatureFate
    <3>3. ASSUME HoldsAddress(o)
          PROVE  pc[o] # "upsert_address" /\ Exists(addresses'[req[o].address])
      <4>1. /\ req[o].address \in Addresses
            /\ pc[o] # "upsert_address" /\ Exists(addresses[req[o].address])
        BY <3>3, HeldIds DEF Kept, AddressKept
      <4>2. ~(pc[r] = "delete_address" /\ req[r].address = req[o].address)
        BY <3>3 DEF NoOverlap
      <4> QED BY <1>1, <4>1, <4>2, AddressFate
    <3> QED BY <3>1, <3>2, <3>3 DEF FeatureKept, AddressKept, HoldsFeature, HoldsAddress
  <2> QED BY <2>1, <2>2
<1>2. CASE \/ \E p \in Properties : SoftDelete(p) \/ Restore(p)
           \/ UNCHANGED vars
  BY <1>2, QuietHolds DEF SoftDelete, Restore, vars
<1> QED BY <1>1, <1>2 DEF Next, Kept

LEMMA InitHolds == Init => Read /\ Kept /\ Book!Init
  BY DEF Init, Read, FeatureRead, Kept, FeatureKept, AddressKept, HoldsFeature, HoldsAddress,
         Book!Init

\* However requests overlap and fail, every write of a feature, a link or an
\* address is an operation of CatalogBook on that row alone, and the only thing
\* an overlap can do that the operations one after another cannot is to bring
\* back a row deleted under its update (the two statements of gorm's Save).
THEOREM Refinement == Spec => ImplementsCatalog
<1>1. Init => Read /\ Book!Init
  BY InitHolds
<1>2. IInv /\ Read /\ [Next]_vars => Read' /\ [Book!LateNext]_(Book!vars)
  BY ReadStep, StepImplements
<1> QED BY <1>1, <1>2, Inductive, PTL DEF Spec, ImplementsCatalog, Book!LateSpec

\* While no row is about to be deleted that another request is updating, what is
\* deleted stays deleted: the operations are those of CatalogBook, each at one
\* instant (UpdateFeature, UpdateAddress, DeleteFeatureByID, DeleteAddressByID).
THEOREM SerialRefinement == Spec /\ []NoOverlap => ImplementsSerialCatalog
<1>1. Init => Read /\ Kept /\ Book!Init
  BY InitHolds
<1>2. IInv /\ NoOverlap /\ Read /\ Kept /\ [Next]_vars =>
          Read' /\ Kept' /\ [Book!Next]_(Book!vars)
  BY ReadStep, KeptStep, StepImplements
<1> QED BY <1>1, <1>2, Inductive, PTL DEF Spec, ImplementsSerialCatalog, Book!Spec
=============================================================================
