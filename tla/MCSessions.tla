----------------------------- MODULE MCSessions -----------------------------
(***************************************************************************)
(* A small instance of Sessions: one account, its browser, and a server    *)
(* that finds its uploads configured; once its mails are too, it starts.   *)
(***************************************************************************)
EXTENDS SessionsProofs, TLC

\* A path that insists on a caller, and on uploads; one that is open to all and
\* tells an owner more; and one that nothing serves.
MCCalls == {<<"upload.v1.UploadService", "CreatePresignedUpload">>,
            <<"property.v1.PropertyService", "GetPropertyByID">>,
            <<"user.v1.UserService", "DeleteMe">>}

MCEnvironments ==
    [from : {TRUE}, region : {TRUE}, bucket : {TRUE}, keys : BOOLEAN]

MCSymmetry == Permutations(Requests) \cup Permutations(Roles)
=============================================================================
