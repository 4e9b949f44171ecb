-------------------------------- MODULE Files --------------------------------
(***************************************************************************)
(* FilesService: an admin asks for a URL to upload an image to (presign)   *)
(* and says later that the upload is complete (completeUpload).  The rows  *)
(* of file_record are in the database of the users (Accounts), whose       *)
(* deletion takes them along; the object is in a store that the service    *)
(* signs URLs for and never asks anything.                                 *)
(*                                                                         *)
(* A file is named by the presign request that creates it; its key is      *)
(* random, so no two share an object.  A request carries the token of one  *)
(* login, which the guards look at once, when the request arrives.         *)
(***************************************************************************)
EXTENDS Accounts

CONSTANTS
  Presigns, Completions,
  LoginOf,   \* whose token each carries
  FileOf     \* the file a completion names

Requests == Presigns \union Completions

ASSUME FilesAssumption ==
  /\ Presigns \intersect Completions = {}
  /\ LoginOf \in [Requests -> Logins]
  /\ FileOf \in [Completions -> Presigns]

VARIABLES
  record,    \* the row of each file: "none", or its status
  owner,     \* its owner_id, kept when the row is gone
  urls,      \* the files whose URL a client was given
  objects,   \* the files whose object is in the store
  stage      \* where the handler of each request is

rows == <<record, owner>>
fileVars == <<record, owner, urls, objects, stage>>
vars == <<accountVars, fileVars>>

Over == {"done", "refused", "failed"}

\* Every variable has its type, and each token was signed in the past, after its user was read.
TypeOK ==
  /\ AccountsTypeOK
  /\ record \in [Presigns -> {"none", "pending", "ready"}]
  /\ owner \in [Presigns -> Registrations \union {Nobody}]
  /\ urls \subseteq Presigns
  /\ objects \subseteq urls
  /\ stage \in [Requests -> {"new", "save", "url", "remove", "find", "confirm"} \union Over]
  /\ \A l \in Logins : signed[l] <= now /\ (signed[l] # -1 => seen[l].at <= signed[l])

Init ==
  /\ AccountsInit
  /\ record = [p \in Presigns |-> "none"]
  /\ owner = [p \in Presigns |-> Nobody]
  /\ urls = {}
  /\ objects = {}
  /\ stage = [g \in Requests |-> "new"]
-----------------------------------------------------------------------------
Stage(g, s) == stage' = [stage EXCEPT ![g] = s]

UserOf(g) == seen[LoginOf[g]].user

\* The guards of FilesController let a request in, or answer it 401 or 403.  A completion names
\* a file by the id that the answer with the URL gave.
Arrive(g) ==
  /\ stage[g] = "new"
  /\ signed[LoginOf[g]] # -1
  /\ g \in Completions => FileOf[g] \in urls
  /\ Stage(g, IF ~Admitted(LoginOf[g]) THEN "refused"
              ELSE IF g \in Presigns THEN "save" ELSE "find")
  /\ UNCHANGED <<accountVars, rows, urls, objects>>

\* presign saves the record, PENDING.  owner_id has a foreign key.
SaveRecord(p) ==
  /\ stage[p] = "save"
  /\ owner' = [owner EXCEPT ![p] = UserOf(p)]
  /\ \/ /\ UserOf(p) \in users
        /\ record' = [record EXCEPT ![p] = "pending"]
        /\ Stage(p, "url")
     \/ /\ UserOf(p) \notin users
        /\ Stage(p, "failed")
        /\ UNCHANGED record
  /\ UNCHANGED <<accountVars, urls, objects>>

\* (mutant) The record is taken away whichever way signing ends.
GiveUrlThenRemove(p) ==
  /\ stage[p] = "url"
  /\ urls' = urls \union {p}
  /\ Stage(p, "remove")
  /\ UNCHANGED <<accountVars, rows, objects>>

\* The URL is signed and answered ...
GiveUrl(p) ==
  /\ stage[p] = "url"
  /\ urls' = urls \union {p}
  /\ Stage(p, "done")
  /\ UNCHANGED <<accountVars, rows, objects>>

\* ... or signing fails, and the record is taken away again.
SigningFails(p) ==
  /\ stage[p] = "url" /\ faults < MaxFaults
  /\ Stage(p, "remove")
  /\ faults' = faults + 1
  /\ UNCHANGED <<users, roles, profiles, pc, seen, signed, now, deleted, heldAt,
                 rows, urls, objects>>

\* remove of the record; the answer is a 500.
RemoveRecord(p) ==
  /\ stage[p] = "remove"
  /\ record' = [record EXCEPT ![p] = "none"]
  /\ Stage(p, "failed")
  /\ UNCHANGED <<accountVars, owner, urls, objects>>

\* A client uses the URL it was given.  The store asks nobody whether the file has a record.
Upload(p) ==
  /\ p \in urls \ objects
  /\ objects' = objects \union {p}
  /\ UNCHANGED <<accountVars, rows, urls, stage>>
-----------------------------------------------------------------------------
\* (mutant) Any admin may complete any file.
FindRecordOfAnyone(c) ==
  LET p == FileOf[c] IN
  /\ stage[c] = "find"
  /\ \/ record[p] = "none" /\ Stage(c, "refused")
     \/ record[p] = "ready" /\ Stage(c, "done")
     \/ record[p] = "pending" /\ Stage(c, "confirm")
  /\ UNCHANGED <<accountVars, rows, urls, objects>>

\* completeUpload reads the record: 404, 403, or already READY.
FindRecord(c) ==
  LET p == FileOf[c] IN
  /\ stage[c] = "find"
  /\ \/ (record[p] = "none" \/ owner[p] # UserOf(c)) /\ Stage(c, "refused")
     \/ record[p] = "ready" /\ owner[p] = UserOf(c) /\ Stage(c, "done")
     \/ record[p] = "pending" /\ owner[p] = UserOf(c) /\ Stage(c, "confirm")
  /\ UNCHANGED <<accountVars, rows, urls, objects>>

\* The record it read is saved, READY.  When the row has gone since, save either inserts it
\* again, which the foreign key refuses, or updates no row and is content.
SaveReady(c) ==
  LET p == FileOf[c] IN
  /\ stage[c] = "confirm"
  /\ \/ /\ record[p] # "none"
        /\ record' = [record EXCEPT ![p] = "ready"]
        /\ Stage(c, "done")
     \/ /\ record[p] = "none"
        /\ \E s \in {"failed", "done"} : Stage(c, s)
        /\ UNCHANGED record
  /\ UNCHANGED <<accountVars, owner, urls, objects>>
-----------------------------------------------------------------------------
\* The rows of a deleted user's files go with the user (ON DELETE CASCADE); the objects stay.
DeleteOwner(u) ==
  /\ DeleteUser(u)
  /\ record' = [p \in Presigns |-> IF owner[p] = u THEN "none" ELSE record[p]]
  /\ UNCHANGED <<owner, urls, objects, stage>>

\* The statement a request waits for fails: a 500, and nothing is undone.
FileStatementFails(g) ==
  /\ faults < MaxFaults
  /\ stage[g] \in {"save", "remove", "find", "confirm"}
  /\ Stage(g, "failed")
  /\ faults' = faults + 1
  /\ UNCHANGED <<users, roles, profiles, pc, seen, signed, now, deleted, heldAt,
                 rows, urls, objects>>

\* The process ends, and every handler in progress with it; tokens outlive it.
Crash ==
  /\ faults < MaxFaults
  /\ faults' = faults + 1
  /\ pc' = [x \in DOMAIN pc |-> IF pc[x] \in {"insert", "sign"} THEN "failed" ELSE pc[x]]
  /\ stage' = [g \in Requests |-> IF stage[g] \in Over \union {"new"} THEN stage[g] ELSE "failed"]
  /\ UNCHANGED <<users, roles, profiles, seen, signed, now, deleted, heldAt, rows, urls, objects>>

PresignStep(p) ==
  SaveRecord(p) \/ GiveUrl(p) \/ SigningFails(p) \/ RemoveRecord(p) \/ Upload(p)

Next ==
  \/ AccountStep /\ UNCHANGED fileVars
  \/ \E u \in Registrations : DeleteOwner(u)
  \/ \E g \in Requests : Arrive(g) \/ FileStatementFails(g)
  \/ \E p \in Presigns : PresignStep(p)
  \/ \E c \in Completions : FindRecord(c) \/ SaveReady(c)
  \/ Crash

Spec == Init /\ [][Next]_vars
-----------------------------------------------------------------------------
\* An object in the store has its record, unless its owner was deleted; a record has its owner.
ObjectsAccounted ==
  /\ \A p \in objects : record[p] # "none" \/ owner[p] \in deleted
  /\ \A p \in Presigns : record[p] # "none" => owner[p] \in users

\* Only the user who was given the URL makes a file READY, by a completion that succeeded;
\* that the object is there nobody has checked.
ReadyByOwner ==
  \A p \in Presigns : record[p] = "ready" =>
    /\ p \in urls
    /\ \E c \in Completions : FileOf[c] = p /\ stage[c] = "done" /\ UserOf(c) = owner[p]

\* A request is let in only if its user was an admin less than a token's lifetime ago, apart
\* from the time the login took between reading the roles and signing them: a role taken away,
\* or a user deleted, is not noticed sooner.
PrivilegesExpire ==
  [][\A g \in Requests : stage[g] = "new" /\ stage'[g] \in {"save", "find"} =>
       LET l == LoginOf[g]
           slack == signed[l] - seen[l].at
       IN  /\ heldAt[UserOf(g)] # -1
           /\ now - heldAt[UserOf(g)] < Lifetime + slack]_vars
=============================================================================
