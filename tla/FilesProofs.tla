---------------------------- MODULE FilesProofs ----------------------------
(***************************************************************************)
(* Theorems about Files and the accounts it rests on, for any users,       *)
(* logins, files and requests.                                             *)
(***************************************************************************)
EXTENDS Files, TLAPS

\* A token is signed once, by a login that has read its user; what is read is never in the future.
TokensInOrder ==
  \A l \in Logins :
    /\ signed[l] # -1 => pc[l] = "done" /\ seen[l].at <= signed[l]
    /\ seen[l].at <= now /\ signed[l] <= now

\* A v2 registration that gave a profile waits for its user only when the profile is saved.
ProfileFirst ==
  \A r \in Registrations :
    pc[r] = "insert" /\ KindOf[r] = "v2" => r \in profiles

\* The history of the admins is up to date, and no login has read a role nobody held then.
RolesHeld ==
  /\ \A u \in WithPassword :
       heldAt[u] <= now /\ ("admin" \in roles[u] => heldAt[u] = now)
  /\ \A l \in Logins : "admin" \in seen[l].roles =>
       seen[l].user \in WithPassword /\ seen[l].at <= heldAt[seen[l].user]

AccountsInv ==
  /\ AccountsTypeOK
  /\ TokensInOrder
  /\ ProfileFirst
  /\ ProfilesAccounted
  /\ RolesHeld

FilesTypeOK ==
  /\ record \in [Presigns -> {"none", "pending", "ready"}]
  /\ owner \in [Presigns -> Registrations \union {Nobody}]
  /\ urls \subseteq Presigns
  /\ objects \subseteq urls
  /\ stage \in [Requests -> {"new", "save", "url", "remove", "find", "confirm"} \union Over]

\* A record is there from its save on, until it is removed or its owner deleted.
Kept(p) == record[p] # "none" \/ owner[p] \in deleted

RecordsByStage ==
  \A p \in Presigns :
    /\ stage[p] \in {"new", "save"} => record[p] = "none"
    /\ stage[p] \in {"url", "remove"} => Kept(p)
    /\ p \in urls => stage[p] = "done" /\ Kept(p)
    /\ record[p] # "none" => owner[p] \in users

\* A completion in progress names a file with a URL, and confirms one of its own user.
CompletionsByStage ==
  \A c \in Completions :
    /\ stage[c] \in {"find", "confirm"} => FileOf[c] \in urls
    /\ stage[c] = "confirm" => UserOf(c) = owner[FileOf[c]]

\* A request that has arrived carries a token.
Arrived == \A g \in Requests : stage[g] # "new" => signed[LoginOf[g]] # -1

FilesInv ==
  /\ FilesTypeOK
  /\ RecordsByStage
  /\ CompletionsByStage
  /\ Arrived
  /\ ReadyByOwner

Inv == AccountsInv /\ FilesInv

\* What the assumptions say of the shapes.
LEMMA Shapes ==
  /\ Existing \subseteq Registrations
  /\ KindOf \in [Registrations -> {"v1", "v2", "seed"}]
  /\ WithPassword \subseteq Registrations /\ WithProfile \subseteq Registrations
  /\ \A r \in WithProfile : KindOf[r] # "v1"
  /\ Registrations \intersect Logins = {} /\ Nobody \notin Registrations
  /\ {} \in RoleSets
  /\ Lifetime \in Nat /\ MaxTime \in Nat /\ MaxFaults \in Nat
  /\ Presigns \intersect Completions = {}
  /\ Presigns \subseteq Requests /\ Completions \subseteq Requests
  /\ LoginOf \in [Requests -> Logins]
  /\ FileOf \in [Completions -> Presigns]
BY AccountsAssumption, FilesAssumption DEF Requests
-----------------------------------------------------------------------------
\* The invariant holds at the start.
LEMMA InvAtStart == Init => Inv
<1> SUFFICES ASSUME Init PROVE Inv
  OBVIOUS
<1> USE Shapes
<1>1. AccountsTypeOK
  BY DEF Init, AccountsInit, AccountsTypeOK, Ended
<1>2. TokensInOrder /\ ProfileFirst /\ ProfilesAccounted /\ RolesHeld
  BY DEF Init, AccountsInit, TokensInOrder, ProfileFirst, ProfilesAccounted, RolesHeld
<1>3. FilesTypeOK
  BY DEF Init, FilesTypeOK
<1>4. RecordsByStage /\ CompletionsByStage /\ Arrived /\ ReadyByOwner
  BY DEF Init, RecordsByStage, CompletionsByStage, Arrived, ReadyByOwner
<1> QED BY <1>1, <1>2, <1>3, <1>4 DEF Inv, AccountsInv, FilesInv

\* A registration keeps the accounts in order.
LEMMA RegistrationStep ==
  ASSUME AccountsInv, NEW r \in Registrations, SaveProfile(r) \/ LookUp(r) \/ InsertUser(r)
  PROVE  AccountsInv'
<1> USE Shapes
<1>0. AccountsTypeOK /\ r \notin Logins
  BY DEF AccountsInv
<1>1. /\ UNCHANGED <<roles, seen, signed, now, deleted, heldAt, faults>>
      /\ users \subseteq users'
      /\ \E label \in {"insert"} \union Ended : Goto(r, label)
  BY DEF SaveProfile, LookUp, InsertUser, tokens, accounts, Ended
<1>2. AccountsTypeOK'
  <2>1. pc' \in [Registrations \union Logins -> {"start", "insert", "sign"} \union Ended]
    BY <1>0, <1>1 DEF AccountsTypeOK, Goto
  <2>2. users' \subseteq Registrations /\ profiles' \subseteq WithProfile
    BY <1>0 DEF AccountsTypeOK, SaveProfile, LookUp, InsertUser, accounts
  <2> QED BY <1>0, <1>1, <2>1, <2>2 DEF AccountsTypeOK
<1>3. TokensInOrder'
  BY <1>0, <1>1 DEF AccountsInv, AccountsTypeOK, TokensInOrder, Goto
<1>4. ProfileFirst'
  <2>1. CASE SaveProfile(r)
    BY <1>0, <2>1 DEF AccountsInv, AccountsTypeOK, ProfileFirst, SaveProfile, Goto
  <2>2. CASE LookUp(r)
    BY <1>0, <2>2 DEF AccountsInv, AccountsTypeOK, ProfileFirst, LookUp, Goto, accounts
  <2>3. CASE InsertUser(r)
    BY <1>0, <2>3 DEF AccountsInv, AccountsTypeOK, ProfileFirst, InsertUser, Goto
  <2> QED BY <2>1, <2>2, <2>3
<1>5. ProfilesAccounted'
  <2>1. CASE SaveProfile(r)
    BY <1>0, <2>1 DEF AccountsInv, AccountsTypeOK, ProfilesAccounted, SaveProfile, Goto
  <2>2. CASE LookUp(r)
    BY <1>0, <2>2 DEF AccountsInv, AccountsTypeOK, ProfilesAccounted, LookUp, Goto, accounts
  <2>3. CASE InsertUser(r)
    <3>1. r \in WithProfile => pc[r] = "insert" /\ (KindOf[r] = "seed" \/ r \in profiles)
      BY <1>0, <2>3 DEF AccountsInv, ProfileFirst, InsertUser, Inserts
    <3> QED BY <1>0, <2>3, <3>1 DEF AccountsInv, AccountsTypeOK, ProfilesAccounted, InsertUser, Goto
  <2> QED BY <2>1, <2>2, <2>3
<1>6. RolesHeld'
  BY <1>1 DEF AccountsInv, RolesHeld
<1> QED BY <1>2, <1>3, <1>4, <1>5, <1>6 DEF AccountsInv

\* Roles given and taken away.
LEMMA RolesStep ==
  ASSUME AccountsInv, NEW u \in Registrations, NEW R \in RoleSets, UpdateRoles(u, R)
  PROVE  AccountsInv'
<1> USE Shapes
<1>0. /\ AccountsTypeOK
      /\ UNCHANGED <<users, profiles, pc, seen, signed, now, deleted, faults>>
  BY DEF AccountsInv, UpdateRoles, tokens
<1>1. roles' \in [Registrations -> RoleSets]
  BY <1>0 DEF AccountsTypeOK, UpdateRoles
<1>2. \A v \in WithPassword :
        heldAt'[v] = IF "admin" \in roles'[v] THEN now ELSE heldAt[v]
  BY DEF UpdateRoles, Held
<1>3. heldAt' \in [WithPassword -> -1..MaxTime]
  BY <1>0 DEF AccountsTypeOK, UpdateRoles, Held
<1>4. AccountsTypeOK'
  BY <1>0, <1>1, <1>3 DEF AccountsTypeOK
<1>5. TokensInOrder' /\ ProfileFirst' /\ ProfilesAccounted'
  BY <1>0 DEF AccountsInv, TokensInOrder, ProfileFirst, ProfilesAccounted
<1>6. \A v \in WithPassword : heldAt[v] <= heldAt'[v] /\ heldAt'[v] <= now
  BY <1>0, <1>2 DEF AccountsInv, RolesHeld, AccountsTypeOK
<1>7. RolesHeld'
  <2>1. \A v \in WithPassword :
          heldAt'[v] <= now' /\ ("admin" \in roles'[v] => heldAt'[v] = now')
    BY <1>0, <1>2, <1>6
  <2>2. ASSUME NEW l \in Logins, "admin" \in seen'[l].roles
        PROVE  seen'[l].user \in WithPassword /\ seen'[l].at <= heldAt'[seen'[l].user]
    <3>1. seen[l].user \in WithPassword /\ seen[l].at <= heldAt[seen[l].user]
      BY <1>0, <2>2 DEF AccountsInv, RolesHeld
    <3>2. /\ seen[l].at \in Int /\ heldAt[seen[l].user] \in Int
          /\ heldAt'[seen[l].user] \in Int
      BY <1>0, <1>3, <3>1 DEF AccountsTypeOK
    <3> QED BY <1>0, <1>6, <3>1, <3>2
  <2> QED BY <2>1, <2>2 DEF RolesHeld
<1> QED BY <1>4, <1>5, <1>7 DEF AccountsInv

\* A user goes; its profile and its tokens stay.
LEMMA DeletionStep ==
  ASSUME AccountsInv, NEW u \in Registrations, DeleteUser(u)
  PROVE  AccountsInv'
<1> USE Shapes
<1>0. AccountsTypeOK /\ UNCHANGED <<profiles, pc, seen, signed, now, heldAt, faults>>
  BY DEF AccountsInv, DeleteUser, tokens
<1>1. AccountsTypeOK'
  BY <1>0 DEF AccountsTypeOK, DeleteUser
<1>2. TokensInOrder' /\ ProfileFirst'
  BY <1>0 DEF AccountsInv, TokensInOrder, ProfileFirst
<1>3. ProfilesAccounted'
  BY <1>0 DEF AccountsInv, ProfilesAccounted, DeleteUser
<1>4. RolesHeld'
  <2>1. \A v \in WithPassword : "admin" \in roles'[v] => "admin" \in roles[v]
    BY <1>0 DEF AccountsTypeOK, DeleteUser
  <2> QED BY <1>0, <2>1 DEF AccountsInv, RolesHeld
<1> QED BY <1>1, <1>2, <1>3, <1>4 DEF AccountsInv

\* A login reads a user, gets a token, or is refused.
LEMMA LoginStep ==
  ASSUME AccountsInv, NEW l \in Logins, FindUser(l) \/ IssueToken(l) \/ RefuseLogin(l)
  PROVE  AccountsInv'
<1> USE Shapes
<1>0. /\ AccountsTypeOK /\ l \notin Registrations
      /\ UNCHANGED <<users, roles, profiles, now, deleted, heldAt, faults>>
  BY DEF AccountsInv, FindUser, IssueToken, RefuseLogin, accounts
<1>1. \E label \in {"sign"} \union Ended : Goto(l, label)
  BY DEF FindUser, IssueToken, RefuseLogin, Ended
<1>2. pc' \in [Registrations \union Logins -> {"start", "insert", "sign"} \union Ended]
  BY <1>0, <1>1 DEF AccountsTypeOK, Goto
<1>3. \A r \in Registrations : pc'[r] = pc[r]
  BY <1>0, <1>1 DEF AccountsTypeOK, Goto
<1>4. ProfileFirst' /\ ProfilesAccounted'
  BY <1>0, <1>3 DEF AccountsInv, AccountsTypeOK, ProfileFirst, ProfilesAccounted
<1>5. CASE FindUser(l) /\ seen' # seen
  <2>1. PICK u \in users \intersect WithPassword :
          /\ seen' = [seen EXCEPT ![l] = [user |-> u, roles |-> roles[u], at |-> now]]
          /\ pc' = [pc EXCEPT ![l] = "sign"]
    BY <1>5 DEF FindUser, Goto
  <2>2. signed' = signed /\ pc[l] = "start" /\ signed[l] = -1
    BY <1>5 DEF FindUser, AccountsInv, TokensInOrder
  <2>3. AccountsTypeOK'
    BY <1>0, <1>2, <2>1, <2>2 DEF AccountsTypeOK
  <2>4. TokensInOrder'
    BY <1>0, <2>1, <2>2 DEF AccountsInv, AccountsTypeOK, TokensInOrder
  <2>5. "admin" \in roles[u] => heldAt[u] = now
    BY <2>1 DEF AccountsInv, RolesHeld
  <2>6. RolesHeld'
    BY <1>0, <2>1, <2>5 DEF AccountsInv, AccountsTypeOK, RolesHeld
  <2> QED BY <1>4, <2>3, <2>4, <2>6 DEF AccountsInv
<1>6. CASE IssueToken(l)
  <2>1. seen' = seen /\ signed' = [signed EXCEPT ![l] = now] /\ pc' = [pc EXCEPT ![l] = "done"]
    BY <1>6 DEF IssueToken, Goto
  <2>2. AccountsTypeOK'
    BY <1>0, <1>2, <2>1 DEF AccountsTypeOK
  <2>3. TokensInOrder'
    BY <1>0, <2>1 DEF AccountsInv, AccountsTypeOK, TokensInOrder
  <2>4. RolesHeld'
    BY <1>0, <2>1 DEF AccountsInv, RolesHeld
  <2> QED BY <1>4, <2>2, <2>3, <2>4 DEF AccountsInv
<1>7. CASE RefuseLogin(l) \/ (FindUser(l) /\ seen' = seen)
  <2>1. UNCHANGED <<seen, signed>> /\ signed[l] = -1
    BY <1>7 DEF RefuseLogin, FindUser, tokens, AccountsInv, TokensInOrder
  <2>2. AccountsTypeOK'
    BY <1>0, <1>2, <2>1 DEF AccountsTypeOK
  <2>3. TokensInOrder'
    BY <1>0, <1>1, <2>1 DEF AccountsInv, AccountsTypeOK, TokensInOrder, Goto
  <2>4. RolesHeld'
    BY <1>0, <2>1 DEF AccountsInv, RolesHeld
  <2> QED BY <1>4, <2>2, <2>3, <2>4 DEF AccountsInv
<1> QED BY <1>5, <1>6, <1>7

\* Time passes.
LEMMA TickStep ==
  ASSUME AccountsInv, Tick
  PROVE  AccountsInv'
<1> USE Shapes
<1>0. /\ AccountsTypeOK /\ now' = now + 1 /\ now < MaxTime
      /\ UNCHANGED <<users, roles, profiles, pc, seen, signed, deleted, faults>>
  BY DEF AccountsInv, Tick, accounts, tokens
<1>1. \A v \in WithPassword :
        heldAt'[v] = IF "admin" \in roles[v] THEN now + 1 ELSE heldAt[v]
  BY DEF Tick, Held
<1>2. now' \in 0..MaxTime /\ heldAt' \in [WithPassword -> -1..MaxTime]
  BY <1>0 DEF AccountsTypeOK, Tick, Held
<1>3. AccountsTypeOK'
  BY <1>0, <1>2 DEF AccountsTypeOK
<1>4. TokensInOrder'
  BY <1>0 DEF AccountsInv, AccountsTypeOK, TokensInOrder
<1>5. ProfileFirst' /\ ProfilesAccounted'
  BY <1>0 DEF AccountsInv, ProfileFirst, ProfilesAccounted
<1>6. \A v \in WithPassword : heldAt[v] \in Int /\ heldAt[v] <= now /\ now \in Int
  BY <1>0 DEF AccountsInv, RolesHeld, AccountsTypeOK
<1>7. \A v \in WithPassword :
        heldAt'[v] <= now' /\ ("admin" \in roles'[v] => heldAt'[v] = now')
  BY <1>0, <1>1, <1>6
<1>8. ASSUME NEW l \in Logins, "admin" \in seen'[l].roles
      PROVE  seen'[l].user \in WithPassword /\ seen'[l].at <= heldAt'[seen'[l].user]
  <2>1. seen[l].user \in WithPassword /\ seen[l].at <= heldAt[seen[l].user] /\ seen[l].at \in Int
    BY <1>0, <1>8 DEF AccountsInv, RolesHeld, AccountsTypeOK
  <2> QED BY <1>0, <1>1, <1>6, <2>1
<1>9. RolesHeld'
  BY <1>7, <1>8 DEF RolesHeld
<1> QED BY <1>3, <1>4, <1>5, <1>9 DEF AccountsInv

\* A failure ends handlers where they are.
LEMMA FailureStep ==
  ASSUME AccountsInv, faults < MaxFaults, faults' = faults + 1,
         UNCHANGED <<users, roles, profiles, seen, signed, now, deleted, heldAt>>,
         pc' \in [Registrations \union Logins -> {"start", "insert", "sign"} \union Ended],
         \A x \in Registrations \union Logins :
           pc'[x] # pc[x] => pc[x] \notin Ended /\ pc'[x] = "failed"
  PROVE  AccountsInv'
<1> USE Shapes
<1>0. AccountsTypeOK
  BY DEF AccountsInv
<1>1. AccountsTypeOK'
  BY <1>0 DEF AccountsTypeOK
<1>2. TokensInOrder'
  BY DEF AccountsInv, TokensInOrder, Ended
<1>3. ProfileFirst' /\ RolesHeld'
  BY DEF AccountsInv, ProfileFirst, RolesHeld
<1>4. ProfilesAccounted'
  BY <1>0 DEF AccountsInv, AccountsTypeOK, ProfilesAccounted, Ended
<1> QED BY <1>1, <1>2, <1>3, <1>4 DEF AccountsInv

\* A step of the accounts keeps them in order, takes no user away, and what a token says of its
\* user stays as it was.
LEMMA AccountsStep ==
  ASSUME AccountsInv, AccountStep
  PROVE  /\ AccountsInv'
         /\ users \subseteq users' /\ deleted' = deleted
         /\ \A l \in Logins : signed[l] # -1 => signed'[l] # -1 /\ seen'[l] = seen[l]
<1> USE Shapes
<1>0. AccountsTypeOK
  BY DEF AccountsInv
<1>1. ASSUME NEW r \in Registrations, SaveProfile(r) \/ LookUp(r) \/ InsertUser(r)
      PROVE  users \subseteq users' /\ UNCHANGED <<deleted, seen, signed>>
  BY <1>1 DEF SaveProfile, LookUp, InsertUser, tokens, accounts
<1>2. ASSUME NEW u \in Registrations, NEW R \in RoleSets, UpdateRoles(u, R)
      PROVE  UNCHANGED <<users, deleted, seen, signed>>
  BY <1>2 DEF UpdateRoles, tokens
<1>3. ASSUME NEW l \in Logins, FindUser(l) \/ IssueToken(l) \/ RefuseLogin(l)
      PROVE  /\ UNCHANGED <<users, deleted>>
             /\ \A k \in Logins : signed[k] # -1 => signed'[k] # -1 /\ seen'[k] = seen[k]
  <2>1. pc[l] # "done" /\ signed[l] = -1 /\ UNCHANGED <<users, deleted>>
    BY <1>3 DEF FindUser, IssueToken, RefuseLogin, AccountsInv, TokensInOrder, accounts
  <2>2. \A k \in Logins \ {l} : signed'[k] = signed[k] /\ seen'[k] = seen[k]
    BY <1>0, <1>3 DEF FindUser, IssueToken, RefuseLogin, AccountsTypeOK, tokens
  <2> QED BY <2>1, <2>2
<1>4. ASSUME NEW x \in Registrations \union Logins, StatementFails(x)
      PROVE  AccountsInv' /\ UNCHANGED <<users, deleted, seen, signed>>
  <2>1. UNCHANGED <<users, roles, profiles, seen, signed, now, deleted, heldAt>>
    BY <1>4 DEF StatementFails, accounts, tokens
  <2>2. /\ pc' \in [Registrations \union Logins -> {"start", "insert", "sign"} \union Ended]
        /\ \A y \in Registrations \union Logins :
             pc'[y] # pc[y] => pc[y] \notin Ended /\ pc'[y] = "failed"
    BY <1>0, <1>4 DEF StatementFails, Goto, AccountsTypeOK, Ended
  <2>3. faults < MaxFaults /\ faults' = faults + 1
    BY <1>4 DEF StatementFails
  <2>4. AccountsInv'
    BY <2>1, <2>2, <2>3, FailureStep
  <2> QED BY <2>1, <2>4
<1>5. ASSUME Tick PROVE UNCHANGED <<users, deleted, seen, signed>>
  BY <1>5 DEF Tick, accounts, tokens
<1> QED
  BY <1>1, <1>2, <1>3, <1>4, <1>5, RegistrationStep, RolesStep, LoginStep, TickStep
  DEF AccountStep
-----------------------------------------------------------------------------
\* The files do not mind what happens to the accounts, as long as no user goes.
LEMMA FilesUnmoved ==
  ASSUME FilesInv, UNCHANGED fileVars, users \subseteq users', deleted' = deleted,
         \A l \in Logins : signed[l] # -1 => signed'[l] # -1 /\ seen'[l] = seen[l]
  PROVE  FilesInv'
<1> USE Shapes
<1>0. UNCHANGED <<record, owner, urls, objects, stage>>
  BY DEF fileVars, rows
<1>1. FilesTypeOK'
  BY <1>0 DEF FilesInv, FilesTypeOK
<1>2. RecordsByStage'
  BY <1>0 DEF FilesInv, RecordsByStage, Kept
<1>3. Arrived'
  BY <1>0 DEF FilesInv, Arrived
<1>4. \A g \in Requests : stage[g] # "new" => UserOf(g)' = UserOf(g)
  BY DEF FilesInv, Arrived, UserOf
<1>5. CompletionsByStage'
  BY <1>0, <1>4 DEF FilesInv, CompletionsByStage
<1>6. ReadyByOwner'
  BY <1>0, <1>4 DEF FilesInv, ReadyByOwner
<1> QED BY <1>1, <1>2, <1>3, <1>5, <1>6 DEF FilesInv

\* The records of a user go with it.
LEMMA CascadeStep ==
  ASSUME AccountsInv, FilesInv, NEW u \in Registrations, DeleteOwner(u)
  PROVE  FilesInv'
<1> USE Shapes
<1>0. /\ UNCHANGED <<owner, urls, objects, stage, seen, signed>>
      /\ users' = users \ {u} /\ deleted' = deleted \union {u}
      /\ record' = [p \in Presigns |-> IF owner[p] = u THEN "none" ELSE record[p]]
  BY DEF DeleteOwner, DeleteUser, tokens
<1>1. FilesTypeOK'
  BY <1>0 DEF FilesInv, FilesTypeOK
<1>2. RecordsByStage'
  BY <1>0 DEF FilesInv, RecordsByStage, Kept
<1>3. Arrived'
  BY <1>0 DEF FilesInv, Arrived
<1>4. \A g \in Requests : UserOf(g)' = UserOf(g)
  BY <1>0 DEF UserOf
<1>5. CompletionsByStage' /\ ReadyByOwner'
  BY <1>0, <1>4 DEF FilesInv, CompletionsByStage, ReadyByOwner
<1> QED BY <1>1, <1>2, <1>3, <1>5 DEF FilesInv
-----------------------------------------------------------------------------
\* A request arrives.
LEMMA ArriveStep ==
  ASSUME FilesInv, NEW g \in Requests, Arrive(g)
  PROVE  FilesInv'
<1> USE Shapes
<1>0. /\ UNCHANGED <<record, owner, urls, objects, users, deleted, seen, signed>>
      /\ stage[g] = "new" /\ signed[LoginOf[g]] # -1
      /\ g \in Completions => FileOf[g] \in urls
      /\ \E s \in {"refused", IF g \in Presigns THEN "save" ELSE "find"} :
           stage' = [stage EXCEPT ![g] = s]
  BY DEF Arrive, Stage, rows, accountVars
<1>1. FilesTypeOK'
  BY <1>0 DEF FilesInv, FilesTypeOK, Over
<1>2. RecordsByStage'
  BY <1>0 DEF FilesInv, FilesTypeOK, RecordsByStage, Kept
<1>3. Arrived'
  BY <1>0 DEF FilesInv, FilesTypeOK, Arrived
<1>4. \A h \in Requests : UserOf(h)' = UserOf(h)
  BY <1>0 DEF UserOf
<1>5. CompletionsByStage' /\ ReadyByOwner'
  BY <1>0, <1>4 DEF FilesInv, FilesTypeOK, CompletionsByStage, ReadyByOwner
<1> QED BY <1>1, <1>2, <1>3, <1>5 DEF FilesInv

\* A presign request saves its record, or the foreign key refuses it.
LEMMA SaveRecordStep ==
  ASSUME AccountsInv, FilesInv, NEW p \in Presigns, SaveRecord(p)
  PROVE  FilesInv'
<1> USE Shapes
<1>0. /\ UNCHANGED <<urls, objects, users, deleted, seen, signed>>
      /\ stage[p] = "save" /\ p \notin Completions /\ p \in Requests
      /\ owner' = [owner EXCEPT ![p] = UserOf(p)]
      /\ \/ /\ UserOf(p) \in users /\ record' = [record EXCEPT ![p] = "pending"]
            /\ stage' = [stage EXCEPT ![p] = "url"]
         \/ record' = record /\ stage' = [stage EXCEPT ![p] = "failed"]
  BY DEF SaveRecord, Stage, accountVars
<1>1. UserOf(p) \in Registrations \union {Nobody}
  BY DEF UserOf, AccountsInv, AccountsTypeOK
<1>2. p \notin urls /\ record[p] = "none"
  BY <1>0 DEF FilesInv, RecordsByStage
<1>3. FilesTypeOK'
  BY <1>0, <1>1 DEF FilesInv, FilesTypeOK, Over
<1>4. RecordsByStage'
  BY <1>0, <1>2 DEF FilesInv, FilesTypeOK, RecordsByStage, Kept
<1>5. Arrived'
  BY <1>0 DEF FilesInv, FilesTypeOK, Arrived
<1>6. \A h \in Requests : UserOf(h)' = UserOf(h)
  BY <1>0 DEF UserOf
<1>7. CompletionsByStage'
  BY <1>0, <1>2, <1>6 DEF FilesInv, FilesTypeOK, CompletionsByStage
<1>8. ReadyByOwner'
  BY <1>0, <1>2, <1>6 DEF FilesInv, FilesTypeOK, ReadyByOwner
<1> QED BY <1>3, <1>4, <1>5, <1>7, <1>8 DEF FilesInv

\* The URL is answered, or cannot be signed and the record is removed.
LEMMA PresignEnds ==
  ASSUME FilesInv, NEW p \in Presigns, GiveUrl(p) \/ SigningFails(p) \/ RemoveRecord(p)
  PROVE  FilesInv'
<1> USE Shapes
<1>0. /\ UNCHANGED <<owner, objects, users, deleted, seen, signed>>
      /\ p \notin Completions /\ p \in Requests
      /\ \/ /\ stage[p] = "url" /\ stage' = [stage EXCEPT ![p] = "done"]
            /\ urls' = urls \union {p} /\ record' = record
         \/ /\ stage[p] = "url" /\ stage' = [stage EXCEPT ![p] = "remove"]
            /\ UNCHANGED <<urls, record>>
         \/ /\ stage[p] = "remove" /\ stage' = [stage EXCEPT ![p] = "failed"]
            /\ record' = [record EXCEPT ![p] = "none"] /\ urls' = urls
  BY DEF GiveUrl, SigningFails, RemoveRecord, Stage, accountVars, rows
<1>1. p \notin urls
  BY <1>0 DEF FilesInv, RecordsByStage
<1>2. FilesTypeOK'
  BY <1>0 DEF FilesInv, FilesTypeOK, Over
<1>3. RecordsByStage'
  BY <1>0, <1>1 DEF FilesInv, FilesTypeOK, RecordsByStage, Kept
<1>4. Arrived'
  BY <1>0 DEF FilesInv, FilesTypeOK, Arrived
<1>5. \A h \in Requests : UserOf(h)' = UserOf(h)
  BY <1>0 DEF UserOf
<1>6. CompletionsByStage' /\ ReadyByOwner'
  BY <1>0, <1>1, <1>5 DEF FilesInv, FilesTypeOK, CompletionsByStage, ReadyByOwner
<1> QED BY <1>2, <1>3, <1>4, <1>6 DEF FilesInv

\* An upload changes the store and nothing else.
LEMMA UploadStep ==
  ASSUME FilesInv, NEW p \in Presigns, Upload(p)
  PROVE  FilesInv'
<1>0. /\ UNCHANGED <<record, owner, urls, stage, users, deleted, seen, signed>>
      /\ p \in urls /\ objects' = objects \union {p}
  BY DEF Upload, rows, accountVars
<1>1. FilesTypeOK'
  BY <1>0 DEF FilesInv, FilesTypeOK
<1>2. RecordsByStage' /\ CompletionsByStage' /\ Arrived' /\ ReadyByOwner'
  BY <1>0 DEF FilesInv, RecordsByStage, Kept, CompletionsByStage, Arrived, ReadyByOwner, UserOf
<1> QED BY <1>1, <1>2 DEF FilesInv

\* A completion reads the record, and saves it.
LEMMA CompletionStep ==
  ASSUME FilesInv, NEW c \in Completions, FindRecord(c) \/ SaveReady(c)
  PROVE  FilesInv'
<1> USE Shapes
<1> DEFINE p == FileOf[c]
<1>0. /\ UNCHANGED <<owner, urls, objects, users, deleted, seen, signed>>
      /\ stage[c] \in {"find", "confirm"}
      /\ c \notin Presigns /\ c \in Requests /\ p \in Presigns
      /\ \E s \in {"refused", "done", "confirm", "failed"} :
           stage' = [stage EXCEPT ![c] = s] /\ (s = "confirm" => UserOf(c) = owner[p])
      /\ \/ record' = record
         \/ /\ stage[c] = "confirm" /\ record[p] # "none"
            /\ record' = [record EXCEPT ![p] = "ready"]
            /\ stage' = [stage EXCEPT ![c] = "done"]
  BY DEF FindRecord, SaveReady, Stage, accountVars, rows
<1>1. p \in urls /\ stage[p] = "done" /\ (stage[c] = "confirm" => UserOf(c) = owner[p])
  BY <1>0 DEF FilesInv, CompletionsByStage, RecordsByStage
<1>2. FilesTypeOK'
  BY <1>0 DEF FilesInv, FilesTypeOK, Over
<1>3. RecordsByStage'
  BY <1>0, <1>1 DEF FilesInv, FilesTypeOK, RecordsByStage, Kept
<1>4. Arrived'
  BY <1>0 DEF FilesInv, FilesTypeOK, Arrived
<1>5. \A h \in Requests : UserOf(h)' = UserOf(h)
  BY <1>0 DEF UserOf
<1>6. CompletionsByStage'
  BY <1>0, <1>1, <1>5 DEF FilesInv, FilesTypeOK, CompletionsByStage
<1>7. \A d \in Completions : stage[d] = "done" => stage'[d] = "done"
  BY <1>0 DEF FilesInv, FilesTypeOK
<1>8. ReadyByOwner'
  <2>1. CASE record' = record
    BY <1>0, <1>5, <1>7, <2>1 DEF FilesInv, ReadyByOwner
  <2>2. CASE record' # record
    <3>1. /\ stage[c] = "confirm" /\ stage' = [stage EXCEPT ![c] = "done"]
          /\ record' = [record EXCEPT ![p] = "ready"]
      BY <1>0, <2>2
    <3>2. p \in urls' /\ stage'[c] = "done" /\ UserOf(c)' = owner'[p]
      BY <1>0, <1>1, <1>5, <3>1 DEF FilesInv, FilesTypeOK
    <3>3. \A q \in Presigns \ {p} : record'[q] = record[q]
      BY <3>1 DEF FilesInv, FilesTypeOK
    <3> QED BY <1>0, <1>5, <1>7, <3>2, <3>3 DEF FilesInv, ReadyByOwner
  <2> QED BY <2>1, <2>2
<1> QED BY <1>2, <1>3, <1>4, <1>6, <1>8 DEF FilesInv

\* A failure ends requests where they are.
LEMMA FilesFailureStep ==
  ASSUME FilesInv, UNCHANGED <<record, owner, urls, objects, users, deleted, seen, signed>>,
         stage' \in [Requests -> {"new", "save", "url", "remove", "find", "confirm"} \union Over],
         \A g \in Requests : stage'[g] # stage[g] =>
           stage[g] \notin Over \union {"new"} /\ stage'[g] = "failed"
  PROVE  FilesInv'
<1> USE Shapes
<1>1. FilesTypeOK'
  BY DEF FilesInv, FilesTypeOK
<1>2. RecordsByStage'
  BY DEF FilesInv, RecordsByStage, Kept, Over
<1>3. Arrived'
  BY DEF FilesInv, Arrived
<1>4. \A h \in Requests : UserOf(h)' = UserOf(h)
  BY DEF UserOf
<1>5. CompletionsByStage' /\ ReadyByOwner'
  BY <1>4 DEF FilesInv, CompletionsByStage, ReadyByOwner, Over
<1> QED BY <1>1, <1>2, <1>3, <1>5 DEF FilesInv
-----------------------------------------------------------------------------
\* A step of the files that reads the accounts only.
LEMMA AccountsKept ==
  ASSUME AccountsInv, UNCHANGED accountVars
  PROVE  AccountsInv'
BY DEF accountVars, AccountsInv, AccountsTypeOK, TokensInOrder, ProfileFirst, ProfilesAccounted,
       RolesHeld

\* Signing a URL fails, a statement fails, or the process ends.
LEMMA FaultStep ==
  ASSUME Inv,
         \/ \E p \in Presigns : SigningFails(p)
         \/ \E g \in Requests : FileStatementFails(g)
         \/ Crash
  PROVE  Inv'
<1> USE Shapes
<1>0. AccountsInv /\ FilesInv /\ AccountsTypeOK /\ FilesTypeOK
  BY DEF Inv, AccountsInv, FilesInv
<1>1. /\ UNCHANGED <<users, roles, profiles, seen, signed, now, deleted, heldAt>>
      /\ UNCHANGED <<record, owner, urls, objects>>
      /\ faults < MaxFaults /\ faults' = faults + 1
  BY DEF SigningFails, FileStatementFails, Crash, rows
<1>2. pc' \in [Registrations \union Logins -> {"start", "insert", "sign"} \union Ended]
  BY <1>0 DEF AccountsTypeOK, SigningFails, FileStatementFails, Crash, Ended
<1>3. \A x \in Registrations \union Logins :
        pc'[x] # pc[x] => pc[x] \notin Ended /\ pc'[x] = "failed"
  BY <1>0 DEF AccountsTypeOK, SigningFails, FileStatementFails, Crash, Ended
<1>4. AccountsInv'
  BY <1>0, <1>1, <1>2, <1>3, FailureStep
<1>5. CASE \E p \in Presigns : SigningFails(p)
  BY <1>0, <1>4, <1>5, PresignEnds DEF Inv
<1>6. CASE \/ \E g \in Requests : FileStatementFails(g)
           \/ Crash
  <2>1. stage' \in [Requests -> {"new", "save", "url", "remove", "find", "confirm"} \union Over]
    BY <1>0, <1>6 DEF FilesTypeOK, FileStatementFails, Crash, Stage, Over
  <2>2. \A g \in Requests : stage'[g] # stage[g] =>
          stage[g] \notin Over \union {"new"} /\ stage'[g] = "failed"
    BY <1>0, <1>6 DEF FilesTypeOK, FileStatementFails, Crash, Stage, Over
  <2>3. FilesInv'
    BY <1>0, <1>1, <2>1, <2>2, FilesFailureStep
  <2> QED BY <1>4, <2>3 DEF Inv
<1> QED BY <1>5, <1>6

\* Every step keeps the invariant.
LEMMA InvKept == Inv /\ [Next]_vars => Inv'
<1> SUFFICES ASSUME Inv, [Next]_vars PROVE Inv'
  OBVIOUS
<1>0. AccountsInv /\ FilesInv
  BY DEF Inv
<1>1. CASE AccountStep /\ UNCHANGED fileVars
  BY <1>0, <1>1, AccountsStep, FilesUnmoved DEF Inv
<1>2. ASSUME NEW u \in Registrations, DeleteOwner(u) PROVE Inv'
  BY <1>0, <1>2, DeletionStep, CascadeStep DEF Inv, DeleteOwner
<1>3. ASSUME NEW g \in Requests, Arrive(g) PROVE Inv'
  BY <1>0, <1>3, AccountsKept, ArriveStep DEF Inv, Arrive
<1>4. ASSUME NEW g \in Requests, FileStatementFails(g) PROVE Inv'
  BY <1>4, FaultStep
<1>5. ASSUME NEW p \in Presigns, PresignStep(p) PROVE Inv'
  <2>1. CASE SaveRecord(p)
    BY <1>0, <2>1, AccountsKept, SaveRecordStep DEF Inv, SaveRecord
  <2>2. CASE GiveUrl(p) \/ RemoveRecord(p)
    BY <1>0, <2>2, AccountsKept, PresignEnds DEF Inv, GiveUrl, RemoveRecord
  <2>3. CASE SigningFails(p)
    BY <2>3, FaultStep
  <2>4. CASE Upload(p)
    BY <1>0, <2>4, AccountsKept, UploadStep DEF Inv, Upload
  <2> QED BY <1>5, <2>1, <2>2, <2>3, <2>4 DEF PresignStep
<1>6. ASSUME NEW c \in Completions, FindRecord(c) \/ SaveReady(c) PROVE Inv'
  BY <1>0, <1>6, AccountsKept, CompletionStep DEF Inv, FindRecord, SaveReady
<1>7. CASE Crash
  BY <1>7, FaultStep
<1>8. CASE UNCHANGED vars
  <2>1. UNCHANGED accountVars /\ UNCHANGED fileVars
    BY <1>8 DEF vars
  <2>2. users' = users /\ deleted' = deleted /\ signed' = signed /\ seen' = seen
    BY <2>1 DEF accountVars
  <2>3. AccountsInv' /\ FilesInv'
    BY <1>0, <2>1, <2>2, AccountsKept, FilesUnmoved
  <2> QED BY <2>3 DEF Inv
<1> QED BY <1>1, <1>2, <1>3, <1>4, <1>5, <1>6, <1>7, <1>8 DEF Next

\* The invariant holds throughout.
LEMMA InvAlways == Spec => []Inv
<1>1. Init => Inv
  BY InvAtStart
<1>2. Inv /\ [Next]_vars => Inv'
  BY InvKept
<1> QED BY <1>1, <1>2, PTL DEF Spec
-----------------------------------------------------------------------------
\* Every variable keeps its type, and a token is signed in the past and after its user was read,
\* whatever the logins, the clock and the failures do.
THEOREM FilesTypeCorrect == Spec => []TypeOK
<1>1. Inv => TypeOK
  BY DEF Inv, AccountsInv, FilesInv, FilesTypeOK, TokensInOrder, TypeOK
<1> QED BY <1>1, InvAlways, PTL

\* UserService.addUserV2 saves the profile before the user: a user is never without the profile
\* it gave, and a profile without a user is that of a deleted user or of a v2 registration that
\* has not inserted its user; none comes from the seed.
THEOREM ProfilesKept == Spec => []ProfilesAccounted
<1>1. Inv => ProfilesAccounted
  BY DEF Inv, AccountsInv
<1> QED BY <1>1, InvAlways, PTL

\* FilesService.presign saves the record before it signs a URL, and takes it away when it cannot:
\* an object in the store has its record until its owner is deleted, and a record has its owner.
THEOREM ObjectsKept == Spec => []ObjectsAccounted
<1>1. Inv => ObjectsAccounted
  BY DEF Inv, FilesInv, FilesTypeOK, RecordsByStage, Kept, ObjectsAccounted
<1> QED BY <1>1, InvAlways, PTL

\* FilesService.completeUpload: a file is READY only by a completion of the user who was given
\* its URL.
THEOREM ReadyOwned == Spec => []ReadyByOwner
<1>1. Inv => ReadyByOwner
  BY DEF Inv, FilesInv
<1> QED BY <1>1, InvAlways, PTL

\* A request let in now carries a role its user had less than a lifetime and the login ago.
LEMMA AdmittedHeld ==
  ASSUME Inv, NEW g \in Requests, Admitted(LoginOf[g])
  PROVE  /\ heldAt[UserOf(g)] # -1
         /\ now - heldAt[UserOf(g)] < Lifetime + (signed[LoginOf[g]] - seen[LoginOf[g]].at)
<1> USE Shapes
<1> DEFINE l == LoginOf[g]
           u == seen[l].user
<1>1. /\ l \in Logins /\ "admin" \in seen[l].roles /\ now < signed[l] + Lifetime
      /\ AccountsTypeOK
  BY DEF Admitted, Valid, Inv, AccountsInv
<1>2. u \in WithPassword /\ seen[l].at <= heldAt[u]
  BY <1>1 DEF Inv, AccountsInv, RolesHeld
<1>3. /\ seen[l].at \in Int /\ 0 <= seen[l].at
      /\ heldAt[u] \in Int /\ signed[l] \in Int /\ now \in Int
  BY <1>1, <1>2 DEF AccountsTypeOK
<1> HIDE DEF l, u
<1>4. heldAt[u] # -1 /\ now - heldAt[u] < Lifetime + (signed[l] - seen[l].at)
  BY <1>1, <1>2, <1>3
<1> QED BY <1>4 DEF l, u, UserOf

\* Only the arrival of a request lets it in.
LEMMA OnlyArrivalAdmits ==
  ASSUME Inv, [Next]_vars, NEW g \in Requests, stage[g] = "new", stage'[g] \in {"save", "find"}
  PROVE  Admitted(LoginOf[g])
<1> USE Shapes
<1>0. FilesTypeOK
  BY DEF Inv, FilesInv
<1>1. ASSUME NEW h \in Requests, Arrive(h) PROVE Admitted(LoginOf[g])
  BY <1>0, <1>1 DEF Arrive, Stage, FilesTypeOK
<1>2. ASSUME NEW h \in Requests, FileStatementFails(h) PROVE FALSE
  BY <1>0, <1>2 DEF FileStatementFails, Stage, FilesTypeOK
<1>3. ASSUME NEW p \in Presigns, PresignStep(p) PROVE FALSE
  BY <1>0, <1>3
  DEF PresignStep, SaveRecord, GiveUrl, SigningFails, RemoveRecord, Upload, Stage, FilesTypeOK
<1>4. ASSUME NEW c \in Completions, FindRecord(c) \/ SaveReady(c) PROVE FALSE
  BY <1>0, <1>4 DEF FindRecord, SaveReady, Stage, FilesTypeOK
<1>5. CASE Crash \/ UNCHANGED fileVars \/ \E u \in Registrations : DeleteOwner(u)
  BY <1>0, <1>5 DEF Crash, fileVars, DeleteOwner, FilesTypeOK, Over
<1> QED BY <1>1, <1>2, <1>3, <1>4, <1>5 DEF Next, vars

\* JwtStrategy and UserRoleGuard: a role taken away, or a user deleted, is noticed no later than
\* the lifetime of a token after the login that read it.
THEOREM PrivilegesEnd == Spec => PrivilegesExpire
<1>1. Inv /\ [Next]_vars =>
        [\A g \in Requests : stage[g] = "new" /\ stage'[g] \in {"save", "find"} =>
           LET l == LoginOf[g]
               slack == signed[l] - seen[l].at
           IN  /\ heldAt[UserOf(g)] # -1
               /\ now - heldAt[UserOf(g)] < Lifetime + slack]_vars
  BY AdmittedHeld, OnlyArrivalAdmits
<1> QED BY <1>1, InvAlways, PTL DEF Spec, PrivilegesExpire
=============================================================================
