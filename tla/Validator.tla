------------------------------ MODULE Validator ------------------------------
(***************************************************************************)
(* The Reflex user validator (proxy/reflex/validator.go): a map from the   *)
(* 16-byte user ID to the user record, guarded by a sync.RWMutex.  Every   *)
(* operation holds the lock for its whole body, so each one is a single    *)
(* atomic step here.  A user record is abstracted to its e-mail.  Add runs *)
(* only in the inbound's New; Remove is called by no handler and is left   *)
(* out.                                                                    *)
(***************************************************************************)
EXTENDS FiniteSets

CONSTANTS
    Ids,        \* user IDs (the [16]byte keys), model values
    Emails,     \* e-mail addresses, model values
    NoUser      \* the absent map entry (Get's "user not found")

ASSUME NoUser \notin Emails

VARIABLE users          \* users[id] = e-mail of the record stored under id

UserRecord == Emails \cup {NoUser}

\* NewValidator: an empty map.
Init == users = [id \in Ids |-> NoUser]

\* Add: the account's ID is the key; an existing entry under the same ID is
\* overwritten (last write wins).  E-mail uniqueness is not checked.
Add(id, email) == users' = [users EXCEPT ![id] = email]

\* Get: read-only lookup; NoUser stands for the "user not found" error.
Get(id) == users[id]

\* GetByUUID: a string that does not parse is "invalid UUID"; otherwise Get.
\* The parse is abstracted to a partial map from strings to IDs.
GetByUUID(parse, s) == IF s \in DOMAIN parse THEN Get(parse[s]) ELSE NoUser

TypeOK == users \in [Ids -> UserRecord]

\* IDs currently registered.
Registered == {id \in Ids : users[id] # NoUser}
=============================================================================
