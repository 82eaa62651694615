------------------------------- MODULE Accounts -------------------------------
(***************************************************************************)
(* One account of the auth service: the row of users with its email, which *)
(* registration, roles, password resets, email verification and the        *)
(* profile service all write, and the tokens that carry it.  Each call     *)
(* reads first and writes later, in another statement, so calls interleave *)
(* between the two.  The role calls write back every column of the row     *)
(* they read (gorm's Save); the others update single columns.              *)
(*                                                                         *)
(* Emails are independent of each other, so one is enough.  A password is  *)
(* a model value, and a token its number.                                  *)
(***************************************************************************)
EXTENDS Naturals, FiniteSets

CONSTANTS
    Calls,              \* calls in progress at a time
    Passwords,
    MaxResets, MaxVerifications     \* bounds on the tokens of a behaviour

Roles == {"customer", "artisan"}    \* those EnableRole grants
None == "none"
Resets == 1..MaxResets
Verifications == 1..MaxVerifications

ASSUME AccountsAssumption ==
    /\ MaxResets \in Nat /\ MaxVerifications \in Nat
    /\ None \notin Passwords

VARIABLES
    user,           \* the row, or NoUser
    reset,          \* the rows of password_reset_tokens
    verification,   \* the rows of email_verification_tokens
    session,        \* a refresh token that has not expired exists
    claims,         \* what the last JWT issued says
    at,             \* where each call is
    copy,           \* the row a role call has read
    arg,            \* its role, password or token
    since,          \* what has been written into the row since it read it
    answered        \* passwords of the registrations that were answered with tokens

vars == <<user, reset, verification, session, claims, at, copy, arg, since, answered>>

NoUser == [password |-> None, verified |-> FALSE, roles |-> {}, active |-> None,
           complete |-> FALSE]
Exists == user # NoUser

Init ==
    /\ user = NoUser
    /\ reset = [t \in Resets |-> "none"]
    /\ verification = [t \in Verifications |-> "none"]
    /\ session = FALSE
    /\ claims = [roles |-> {}, active |-> None]
    /\ at = [c \in Calls |-> "idle"]
    /\ copy = [c \in Calls |-> NoUser]
    /\ arg = [c \in Calls |-> [role |-> None, password |-> None, token |-> 0]]
    /\ since = [c \in Calls |-> {}]
    /\ answered = {}

NoArg == [role |-> None, password |-> None, token |-> 0]
WithRole(r) == [role |-> r, password |-> None, token |-> 0]
WithPassword(p, t) == [role |-> None, password |-> p, token |-> t]
WithToken(t) == [role |-> None, password |-> None, token |-> t]

\* A call goes on to its next statement, or returns.
Goto(c, there, a) ==
    /\ at' = [at EXCEPT ![c] = there]
    /\ arg' = [arg EXCEPT ![c] = a]

Return(c) == Goto(c, "idle", NoArg)

\* In what two versions of the row differ.
Changed(u, v) ==
    {f \in Roles : f \in u.roles <=> f \notin v.roles}
    \cup {f \in {"password", "verified", "complete"} : u[f] # v[f]}

\* An UPDATE of the row by a call: news to the role calls that have read it before.
Write(u, others) ==
    /\ user' = u
    /\ since' = [d \in Calls |->
                    IF d \in others /\ at[d] \in {"enable", "activate"}
                    THEN since[d] \cup Changed(user, u) ELSE {}]

\* generateJWT and createRefreshToken for the row u.
Issue(u) ==
    /\ claims' = [roles |-> u.roles, active |-> u.active]
    /\ session' = TRUE

(***************************************************************************)
(* Registration and sessions.                                              *)
(***************************************************************************)

\* Register finds no account under the email.
RegisterCheck(c, p) ==
    /\ at[c] = "idle" /\ ~Exists
    /\ Goto(c, "create", WithPassword(p, 0))
    /\ UNCHANGED <<user, reset, verification, session, claims, copy, since, answered>>

\* Mutant: the insert replaces the account that another call has created.
RegisterCreateUpserts(c) ==
    /\ at[c] = "create"
    /\ user' = [NoUser EXCEPT !.password = arg[c].password]
    /\ Issue(user')
    /\ answered' = answered \cup {arg[c].password}
    /\ Return(c)
    /\ UNCHANGED <<reset, verification, copy, since>>

\* INSERT INTO users, where email is unique: the loser of a race gets an error.  So
\* does the caller whose refresh token cannot be stored, but its account stays.
RegisterCreate(c) ==
    /\ at[c] = "create"
    /\ \/ /\ ~Exists
          /\ user' = [NoUser EXCEPT !.password = arg[c].password]
          /\ \/ /\ Issue(user')
                /\ answered' = answered \cup {arg[c].password}
             \/ UNCHANGED <<session, claims, answered>>
       \/ /\ Exists
          /\ UNCHANGED <<user, session, claims, answered>>
    /\ Return(c)
    /\ UNCHANGED <<reset, verification, copy, since>>

Login(p) ==
    /\ Exists /\ user.password = p
    /\ Issue(user)
    /\ UNCHANGED <<user, reset, verification, at, copy, arg, since, answered>>

\* A new access token for the row as it is now; the refresh token stays.
Refresh ==
    /\ session
    /\ Issue(user)
    /\ UNCHANGED <<user, reset, verification, at, copy, arg, since, answered>>

SessionExpires ==
    /\ session /\ session' = FALSE
    /\ UNCHANGED <<user, reset, verification, claims, at, copy, arg, since, answered>>

(***************************************************************************)
(* Roles: the caller holds a token of the account.                         *)
(***************************************************************************)

RoleRead(c, r, there) ==
    /\ at[c] = "idle" /\ Exists
    /\ copy' = [copy EXCEPT ![c] = user]
    /\ since' = [since EXCEPT ![c] = {}]
    /\ Goto(c, there, WithRole(r))
    /\ UNCHANGED <<user, reset, verification, session, claims, answered>>

EnableRoleRead(c, r) == RoleRead(c, r, "enable")

\* The role must be among those of the row just read.
SetActiveRoleRead(c, r) == r \in user.roles /\ RoleRead(c, r, "activate")

\* Save: every column of the copy, whatever the row holds by now.
Save(c, u) ==
    /\ Write(u, Calls \ {c})
    /\ Issue(u)
    /\ copy' = [copy EXCEPT ![c] = NoUser]
    /\ Return(c)
    /\ UNCHANGED <<reset, verification, answered>>

\* Mutant: the role replaces the ones the row has.
EnableRoleSaveAlone(c) ==
    /\ at[c] = "enable"
    /\ Save(c, [copy[c] EXCEPT !.roles = {arg[c].role}])

EnableRoleSave(c) ==
    /\ at[c] = "enable"
    /\ Save(c, [copy[c] EXCEPT !.roles = @ \cup {arg[c].role},
                               !.active = IF @ = None THEN arg[c].role ELSE @])

\* Mutant: only the column active_role is updated.
SetActiveRoleSaveColumn(c) ==
    /\ at[c] = "activate"
    /\ Save(c, [user EXCEPT !.active = arg[c].role])

SetActiveRoleSave(c) ==
    /\ at[c] = "activate"
    /\ Save(c, [copy[c] EXCEPT !.active = arg[c].role])

(***************************************************************************)
(* Password reset.                                                         *)
(***************************************************************************)

ForgotPassword(t) ==
    /\ Exists /\ reset[t] = "none"
    /\ reset' = [reset EXCEPT ![t] = "live"]
    /\ UNCHANGED <<user, verification, session, claims, at, copy, arg, since, answered>>

ResetExpires(t) ==
    /\ reset[t] = "live"
    /\ reset' = [reset EXCEPT ![t] = "expired"]
    /\ UNCHANGED <<user, verification, session, claims, at, copy, arg, since, answered>>

\* The token is looked up, unused and unexpired, before the transaction.
ResetPasswordFind(c, t, p) ==
    /\ at[c] = "idle" /\ reset[t] = "live"
    /\ Goto(c, "reset", WithPassword(p, t))
    /\ UNCHANGED <<user, reset, verification, session, claims, copy, since, answered>>

\* The transaction sets password_hash and marks the token, without asking again.
ResetPasswordCommit(c) ==
    /\ at[c] = "reset"
    /\ Write([user EXCEPT !.password = arg[c].password], Calls)
    /\ reset' = [reset EXCEPT ![arg[c].token] = "used"]
    /\ Return(c)
    /\ UNCHANGED <<verification, session, claims, copy, answered>>

(***************************************************************************)
(* Email verification and the profile flag.                                *)
(***************************************************************************)

SendVerificationEmail(t) ==
    /\ Exists /\ ~user.verified /\ verification[t] = "none"
    /\ verification' = [verification EXCEPT ![t] = "live"]
    /\ UNCHANGED <<user, reset, session, claims, at, copy, arg, since, answered>>

VerificationExpires(t) ==
    /\ verification[t] = "live"
    /\ verification' = [verification EXCEPT ![t] = "gone"]
    /\ UNCHANGED <<user, reset, session, claims, at, copy, arg, since, answered>>

\* The token and the row are read; of a verified account the token is only deleted.
VerifyEmailFind(c, t) ==
    /\ at[c] = "idle" /\ verification[t] = "live"
    /\ \/ /\ ~user.verified
          /\ Goto(c, "verify", WithToken(t))
          /\ UNCHANGED verification
       \/ /\ user.verified
          /\ verification' = [verification EXCEPT ![t] = "gone"]
          /\ UNCHANGED <<at, arg>>
    /\ UNCHANGED <<user, reset, session, claims, copy, since, answered>>

\* One transaction sets email_verified and deletes the token.
VerifyEmailCommit(c) ==
    /\ at[c] = "verify"
    /\ Write([user EXCEPT !.verified = TRUE], Calls)
    /\ verification' = [verification EXCEPT ![arg[c].token] = "gone"]
    /\ Return(c)
    /\ UNCHANGED <<reset, session, claims, copy, answered>>

\* The user service sets profile_complete, one column.
UpdateProfileComplete ==
    /\ Exists
    /\ Write([user EXCEPT !.complete = TRUE], Calls)
    /\ UNCHANGED <<reset, verification, session, claims, at, copy, arg, answered>>

Next ==
    \/ \E c \in Calls :
          \/ \E p \in Passwords : RegisterCheck(c, p)
          \/ RegisterCreate(c)
          \/ \E r \in Roles : EnableRoleRead(c, r) \/ SetActiveRoleRead(c, r)
          \/ EnableRoleSave(c) \/ SetActiveRoleSave(c)
          \/ \E t \in Resets, p \in Passwords : ResetPasswordFind(c, t, p)
          \/ ResetPasswordCommit(c)
          \/ \E t \in Verifications : VerifyEmailFind(c, t)
          \/ VerifyEmailCommit(c)
    \/ \E p \in Passwords : Login(p)
    \/ Refresh \/ SessionExpires
    \/ \E t \in Resets : ForgotPassword(t) \/ ResetExpires(t)
    \/ \E t \in Verifications : SendVerificationEmail(t) \/ VerificationExpires(t)
    \/ UpdateProfileComplete

Spec == Init /\ [][Next]_vars

(***************************************************************************)
(* Properties.                                                             *)
(***************************************************************************)

User == [password : Passwords \cup {None}, verified : BOOLEAN, roles : SUBSET Roles,
         active : Roles \cup {None}, complete : BOOLEAN]

Facts == Roles \cup {"password", "verified", "complete"}

TypeOK ==
    /\ user \in User
    /\ reset \in [Resets -> {"none", "live", "used", "expired"}]
    /\ verification \in [Verifications -> {"none", "live", "gone"}]
    /\ session \in BOOLEAN
    /\ claims \in [roles : SUBSET Roles, active : Roles \cup {None}]
    /\ at \in [Calls -> {"idle", "create", "enable", "activate", "reset", "verify"}]
    /\ copy \in [Calls -> User]
    /\ arg \in [Calls -> [role : Roles \cup {None}, password : Passwords \cup {None},
                          token : Nat]]
    /\ since \in [Calls -> SUBSET Facts]
    /\ answered \subseteq Passwords

Enabled(u) == u.active \in u.roles \cup {None}

\* The active role, in the row and in every token issued for it, is one of the roles
\* beside it, although role calls overwrite each other's rows: the handlers of other
\* services trust the claims without looking at the row.
ActiveRoleEnabled == Enabled(user) /\ Enabled(claims)

\* Of the registrations that race for an email at most one is answered with tokens, and
\* the account still has the password of that call until a reset is asked for.
RegisteredOnce ==
    /\ Cardinality(answered) <= 1
    /\ answered # {} /\ (\A t \in Resets : reset[t] = "none") => user.password \in answered

\* What Save by call c takes away from the row.
Undone(c) ==
    {f \in Facts :
        \/ f = "password" /\ user'.password # user.password
        \/ f = "verified" /\ user.verified /\ ~user'.verified
        \/ f = "complete" /\ user.complete /\ ~user'.complete
        \/ f \in user.roles \ user'.roles}

\* A role call undoes a password reset, a verification, a completed profile or a
\* granted role only where that was written after the call had read the row.
LostOnlyByOverlap ==
    [][\A c \in Calls :
          at[c] \in {"enable", "activate"} /\ at'[c] = "idle" =>
              Undone(c) \subseteq since[c]]_vars
=============================================================================
