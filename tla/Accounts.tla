------------------------------ MODULE Accounts ------------------------------
(***************************************************************************)
(* Users, their profiles and roles (modules/user), and the tokens that     *)
(* modules/auth signs for them.  A registration is a POST of a user (v1 or *)
(* v2) or one user of seed.ts, and names the user it creates.  A statement *)
(* is a step: between two of them other requests, the clock and failures   *)
(* come in.  A token is named by the login that asks for it and is good    *)
(* everywhere until it expires: the code keeps no list of tokens.          *)
(***************************************************************************)
EXTENDS Integers, FiniteSets

CONSTANTS
  Registrations,
  Existing,      \* those done before the behaviour begins
  KindOf,        \* "v1", "v2" or "seed"
  WithProfile,   \* those that give a profile
  WithPassword,  \* those that give a password
  EmailOf,       \* the email of each
  Logins,
  LoginEmail,    \* the email a login gives
  RoleSets,      \* what PATCH user/:id/role can be asked to store
  Lifetime,      \* JWT_EXPIRES_IN, in ticks of the clock
  MaxTime,       \* bound: the clock
  MaxFaults,     \* bound: failing statements and crashes
  Nobody         \* no user

ASSUME AccountsAssumption ==
  /\ Existing \subseteq Registrations
  /\ KindOf \in [Registrations -> {"v1", "v2", "seed"}]
  /\ WithProfile \subseteq {r \in Registrations : KindOf[r] # "v1"}
  /\ WithPassword \subseteq {r \in Registrations : KindOf[r] = "v2"}
  /\ {} \in RoleSets
  /\ Nobody \notin Registrations
  /\ Registrations \intersect Logins = {}
  /\ Lifetime \in Nat /\ MaxTime \in Nat /\ MaxFaults \in Nat

VARIABLES
  users,     \* the rows of user ...
  roles,     \* ... and the roles of each
  profiles,  \* the rows of profile, named by the registration that saved them
  pc,        \* where the handler of each registration and login is
  seen,      \* what each login has read: a user, its roles, and when
  signed,    \* when its token was signed, -1 if it was not
  now,       \* the clock
  deleted,   \* history: the users deleted
  heldAt,    \* history: when each user who can log in last was an admin, -1 for never
  faults     \* how many failures have happened

accounts == <<users, roles, profiles>>
tokens == <<seen, signed>>
accountVars == <<users, roles, profiles, pc, seen, signed, now, deleted, heldAt, faults>>

Ended == {"done", "skipped", "refused", "failed"}

AccountsTypeOK ==
  /\ users \subseteq Registrations
  /\ roles \in [Registrations -> RoleSets]
  /\ profiles \subseteq WithProfile
  /\ pc \in [Registrations \union Logins -> {"start", "insert", "sign"} \union Ended]
  /\ seen \in [Logins -> [user : Registrations \union {Nobody}, roles : RoleSets, at : 0..MaxTime]]
  /\ signed \in [Logins -> -1..MaxTime]
  /\ now \in 0..MaxTime
  /\ deleted \subseteq Registrations
  /\ heldAt \in [WithPassword -> -1..MaxTime]
  /\ faults \in 0..MaxFaults

AccountsInit ==
  /\ users = Existing
  /\ roles = [r \in Registrations |-> {}]
  /\ profiles = Existing \intersect WithProfile
  /\ pc = [x \in Registrations \union Logins |-> IF x \in Existing THEN "done" ELSE "start"]
  /\ seen = [l \in Logins |-> [user |-> Nobody, roles |-> {}, at |-> 0]]
  /\ signed = [l \in Logins |-> -1]
  /\ now = 0
  /\ deleted = {}
  /\ heldAt = [u \in WithPassword |-> -1]
  /\ faults = 0
-----------------------------------------------------------------------------
Goto(x, label) == pc' = [pc EXCEPT ![x] = label]

\* UserEntity.email is unique.
Taken(email) == \E u \in users : EmailOf[u] = email

\* addUserV2 saves the profile first, in a transaction of its own.
SaveProfile(r) ==
  /\ pc[r] = "start" /\ KindOf[r] = "v2" /\ r \in WithProfile
  /\ profiles' = profiles \union {r}
  /\ Goto(r, "insert")
  /\ UNCHANGED <<users, roles, tokens, now, deleted, heldAt, faults>>

\* seed.ts looks the email up and skips a user it finds.
LookUp(r) ==
  /\ pc[r] = "start" /\ KindOf[r] = "seed"
  /\ Goto(r, IF Taken(EmailOf[r]) THEN "skipped" ELSE "insert")
  /\ UNCHANGED <<accounts, tokens, now, deleted, heldAt, faults>>

\* (mutant) The user is saved without waiting for its profile.
InsertsAtOnce(r) == pc[r] = "insert" \/ (pc[r] = "start" /\ KindOf[r] # "seed")

\* Who saves the user next: v1 and a v2 without a profile have nothing to do before.
Inserts(r) ==
  \/ pc[r] = "insert"
  \/ pc[r] = "start" /\ KindOf[r] # "seed" /\ r \notin WithProfile

\* save of the user, refused when the email is taken.  A seed's profile is saved by the
\* cascade of UserEntity.profile, in the same transaction.
InsertUser(r) ==
  /\ Inserts(r)
  /\ \/ /\ ~Taken(EmailOf[r])
        /\ users' = users \union {r}
        /\ profiles' = profiles \union {x \in {r} \intersect WithProfile : KindOf[x] = "seed"}
        /\ Goto(r, "done")
     \/ /\ Taken(EmailOf[r])
        /\ Goto(r, "refused")
        /\ UNCHANGED <<users, profiles>>
  /\ UNCHANGED <<roles, tokens, now, deleted, heldAt, faults>>
-----------------------------------------------------------------------------
\* Who is an admin at time t last was one then.
Held(roles0, t) == [u \in WithPassword |-> IF "admin" \in roles0[u] THEN t ELSE heldAt[u]]

\* updateRoles: one UPDATE, which replaces the roles.  It changes no token.
UpdateRoles(u, R) ==
  /\ u \in users
  /\ roles' = [roles EXCEPT ![u] = R]
  /\ heldAt' = Held(roles', now)
  /\ UNCHANGED <<users, profiles, pc, tokens, now, deleted, faults>>

\* deleteUser: one DELETE, which leaves the profile and every token.
DeleteUser(u) ==
  /\ u \in users
  /\ users' = users \ {u}
  /\ roles' = [roles EXCEPT ![u] = {}]
  /\ deleted' = deleted \union {u}
  /\ UNCHANGED <<profiles, pc, tokens, now, heldAt, faults>>
-----------------------------------------------------------------------------
\* validateUser reads the row of the email; a user without a password cannot log in.
FindUser(l) ==
  /\ pc[l] = "start"
  /\ \/ \E u \in users \intersect WithPassword :
          /\ EmailOf[u] = LoginEmail[l]
          /\ seen' = [seen EXCEPT ![l] = [user |-> u, roles |-> roles[u], at |-> now]]
          /\ Goto(l, "sign")
     \/ /\ ~\E u \in users \intersect WithPassword : EmailOf[u] = LoginEmail[l]
        /\ Goto(l, "refused")
        /\ UNCHANGED seen
  /\ UNCHANGED <<accounts, signed, now, deleted, heldAt, faults>>

\* (mutant) The time it expires is taken for the time it was signed.
IssueTokenExpiry(l) ==
  /\ pc[l] = "sign"
  /\ signed' = [signed EXCEPT ![l] = now + Lifetime]
  /\ Goto(l, "done")
  /\ UNCHANGED <<accounts, seen, now, deleted, heldAt, faults>>

\* bcrypt says the password is right: login signs what was read, however long ago.
IssueToken(l) ==
  /\ pc[l] = "sign"
  /\ signed' = [signed EXCEPT ![l] = now]
  /\ Goto(l, "done")
  /\ UNCHANGED <<accounts, seen, now, deleted, heldAt, faults>>

\* bcrypt says it is wrong.
RefuseLogin(l) ==
  /\ pc[l] = "sign"
  /\ Goto(l, "refused")
  /\ UNCHANGED <<accounts, tokens, now, deleted, heldAt, faults>>

\* (mutant) The expiration is ignored.
ValidForEver(l) == signed[l] # -1

\* JwtAuthGuard asks the strategy, and the strategy only the token.
Valid(l) == signed[l] # -1 /\ now < signed[l] + Lifetime

\* ... and UserRoleGuard the roles the token carries.
Admitted(l) == Valid(l) /\ "admin" \in seen[l].roles
-----------------------------------------------------------------------------
Tick ==
  /\ now < MaxTime
  /\ now' = now + 1
  /\ heldAt' = Held(roles, now + 1)
  /\ UNCHANGED <<accounts, pc, tokens, deleted, faults>>

\* The statement a handler waits for fails: a 500.
StatementFails(x) ==
  /\ faults < MaxFaults
  /\ pc[x] \notin Ended
  /\ Goto(x, "failed")
  /\ faults' = faults + 1
  /\ UNCHANGED <<accounts, tokens, now, deleted, heldAt>>

AccountStep ==
  \/ \E r \in Registrations : SaveProfile(r) \/ LookUp(r) \/ InsertUser(r)
  \/ \E u \in Registrations, R \in RoleSets : UpdateRoles(u, R)
  \/ \E l \in Logins : FindUser(l) \/ IssueToken(l) \/ RefuseLogin(l)
  \/ \E x \in Registrations \union Logins : StatementFails(x)
  \/ Tick
-----------------------------------------------------------------------------
\* A user that gave a profile has it.  A profile without a user is one whose user was deleted,
\* or one addUserV2 saved for a registration that has not inserted its user, or never will:
\* nothing takes such a profile away again.  The seed leaves none.
ProfilesAccounted ==
  /\ users \intersect WithProfile \subseteq profiles
  /\ \A r \in profiles \ users :
       r \in deleted \/ (KindOf[r] = "v2" /\ pc[r] \in {"insert", "refused", "failed"})
=============================================================================
