------------------------------ MODULE Gateway ------------------------------
(***************************************************************************)
(* Which requests reach a handler, and which handlers insist on a caller.  *)
(* A path names a service and one of its procedures.  Each service mounts  *)
(* a handler that knows its own procedures and answers any other path with *)
(* 404 (http.NotFound); the upload service is only registered when it was  *)
(* configured at the start.                                                *)
(***************************************************************************)
Paths(service, procedures) == {<<service, procedure>> : procedure \in procedures}

AuthServiceProcedures ==
    Paths("auth.v1.AuthService",
          {"SignInWithGoogle", "Register", "Login", "RefreshToken", "Logout", "VerifyEmail",
           "ResendVerificationEmail"})

PropertyServiceProcedures ==
    Paths("property.v1.PropertyService",
          {"CreateProperty", "GetPropertyByID", "GetPropertyList", "UpdatePropertyByID",
           "DeletePropertyByID", "GetMyPropertyList", "RenewProperty", "MarkPropertyRented",
           "MarkPropertyAvailable", "GetMyDeletedPropertyList", "RestoreProperty",
           "AddPropertyFeature", "RemovePropertyFeature", "ListPropertyFeatures",
           "AddPropertyImage", "RemovePropertyImage", "ListPropertyImages"})

FeatureServiceProcedures ==
    Paths("feature.v1.FeatureService",
          {"CreateFeature", "GetFeatureByID", "ListFeatures", "UpdateFeatureByID",
           "DeleteFeatureByID"})

AddressServiceProcedures ==
    Paths("address.v1.AddressService",
          {"CreateAddress", "GetAddressByID", "GetAddressByPropertyID", "UpdateAddressByID",
           "DeleteAddressByID"})

UserServiceProcedures == Paths("user.v1.UserService", {"GetMe", "UpdateMe"})

UploadServiceProcedures == Paths("upload.v1.UploadService", {"CreatePresignedUpload"})

-----------------------------------------------------------------------------
(* The mounted handlers: a path is served by the procedure it names.       *)

NewAuthServiceHandler(path)     == path \in AuthServiceProcedures
NewPropertyServiceHandler(path) == path \in PropertyServiceProcedures
NewFeatureServiceHandler(path)  == path \in FeatureServiceProcedures
NewAddressServiceHandler(path)  == path \in AddressServiceProcedures
NewUserServiceHandler(path)     == path \in UserServiceProcedures
NewUploadServiceHandler(path)   == path \in UploadServiceProcedures

\* registeredServices: does a server started with, or without, uploads serve it?
Served(path, uploads) ==
    \/ NewAuthServiceHandler(path) \/ NewPropertyServiceHandler(path)
    \/ NewFeatureServiceHandler(path) \/ NewAddressServiceHandler(path)
    \/ NewUserServiceHandler(path)
    \/ uploads /\ NewUploadServiceHandler(path)

-----------------------------------------------------------------------------
(* The handlers that start with MustUserID.                                *)

\* Reading a listing, its features or its images is open to everyone; the
\* catalogue of features is open altogether, and so is reading an address.
OpenProcedures ==
    AuthServiceProcedures \cup FeatureServiceProcedures
    \cup Paths("property.v1.PropertyService",
               {"GetPropertyByID", "GetPropertyList", "ListPropertyFeatures",
                "ListPropertyImages"})
    \cup Paths("address.v1.AddressService", {"GetAddressByID", "GetAddressByPropertyID"})

Protected(path) == path \notin OpenProcedures

\* Handlers that tell a caller they recognise more than they tell anyone.
Personal(path) ==
    path \in Paths("property.v1.PropertyService", {"GetPropertyByID"})
=============================================================================
