---------------------------- MODULE MembersProofs ----------------------------
(***************************************************************************)
(* Theorems about those who use the service: Accounts, for any number of   *)
(* calls, passwords and tokens, and then Profiles and Artisans.            *)
(*                                                                         *)
(* What a call has read of an account stays true of the row except for     *)
(* what has been written since (Remembered); from it follows what Save may *)
(* undo.  The other parts of the invariant say who can be in the middle of *)
(* a call.                                                                 *)
(***************************************************************************)
EXTENDS Accounts, Profiles, Artisans, FiniteSetTheorems, SequenceTheorems, TLAPS

\* Calls that hold a copy of the row.
Holds(c) == at[c] \in {"enable", "activate"}

Registered == user = NoUser \/ user.password \in Passwords

\* Only an account that exists has tokens, sessions and calls past registration.
OfAnAccount ==
    /\ \A c \in Calls : at[c] \notin {"idle", "create"} => user # NoUser
    /\ \A t \in Resets : reset[t] # "none" => user # NoUser
    /\ \A t \in Verifications : verification[t] # "none" => user # NoUser
    /\ session => user # NoUser
    /\ answered # {} => user # NoUser

\* A call past its first statement has the argument that statement takes.
Arguments ==
    \A c \in Calls :
        /\ Holds(c) => /\ arg[c].role \in Roles
                       /\ copy[c].password \in Passwords
                       /\ at[c] = "activate" => arg[c].role \in copy[c].roles
        /\ at[c] \in {"create", "reset"} => arg[c].password \in Passwords
        /\ at[c] = "reset" => /\ arg[c].token \in Resets
                              /\ reset[arg[c].token] # "none"
        /\ at[c] = "verify" => arg[c].token \in Verifications

EnabledEverywhere ==
    /\ Enabled(user) /\ Enabled(claims)
    /\ \A c \in Calls : Holds(c) => Enabled(copy[c])

Remembered == \A c \in Calls : Holds(c) => Changed(copy[c], user) \subseteq since[c]

\* Nobody but ResetPassword changes the password.
PasswordKept ==
    (\A t \in Resets : reset[t] = "none") =>
        /\ \A c \in Calls : Holds(c) => copy[c].password = user.password
        /\ answered # {} => answered = {user.password}

OneAnswer == \A p, q \in answered : p = q

Inv == /\ TypeOK /\ Registered /\ OfAnAccount /\ Arguments
       /\ EnabledEverywhere /\ Remembered /\ PasswordKept /\ OneAnswer

-----------------------------------------------------------------------------

LEMMA NoUserIsUser == NoUser \in User /\ NoUser.password \notin Passwords
BY AccountsAssumption DEF NoUser, User, None, Roles

Argument == [role : Roles \cup {None}, password : Passwords \cup {None}, token : Nat]

LEMMA ArgumentTypes ==
    /\ NoArg \in Argument
    /\ \A r \in Roles : WithRole(r) \in Argument
    /\ \A p \in Passwords, t \in Resets : WithPassword(p, t) \in Argument
    /\ \A p \in Passwords : WithPassword(p, 0) \in Argument
    /\ \A t \in Verifications : WithToken(t) \in Argument
BY DEF Argument, NoArg, WithRole, WithPassword, WithToken, Resets, Verifications

\* What two writes change, each changes or the other.
LEMMA ChangesAdd ==
    ASSUME NEW u \in User, NEW v \in User, NEW w \in User
    PROVE  Changed(u, w) \subseteq Changed(u, v) \cup Changed(v, w)
BY DEF Changed, Roles, User

LEMMA ChangedFacts ==
    ASSUME NEW u \in User, NEW v \in User
    PROVE  Changed(u, v) \subseteq Facts
BY DEF Changed, Facts

LEMMA ChangedNothing ==
    ASSUME NEW u \in User
    PROVE  Changed(u, u) = {}
BY DEF Changed

\* Write extends what the readers of the row remember by what it changes.
LEMMA WriteRemembers ==
    ASSUME TypeOK, Remembered, NEW u \in User, NEW others \in SUBSET Calls,
           Write(u, others),
           NEW d \in others, Holds(d), copy'[d] = copy[d]
    PROVE  Changed(copy'[d], user') \subseteq since'[d]
<1>1. since'[d] = since[d] \cup Changed(user, u) /\ user' = u
  BY DEF Write, Holds
<1>2. Changed(copy[d], u) \subseteq Changed(copy[d], user) \cup Changed(user, u)
  BY ChangesAdd DEF TypeOK
<1>3. Changed(copy[d], user) \subseteq since[d]
  BY DEF Remembered
<1> QED BY <1>1, <1>2, <1>3

LEMMA WriteTypes ==
    ASSUME TypeOK, NEW u \in User, NEW others \in SUBSET Calls, Write(u, others)
    PROVE  user' \in User /\ since' \in [Calls -> SUBSET Facts]
<1>1. Changed(user, u) \in SUBSET Facts
  BY ChangedFacts DEF TypeOK
<1> QED BY <1>1 DEF Write, TypeOK

LEMMA Returning ==
    ASSUME TypeOK, NEW c \in Calls, Return(c)
    PROVE  /\ at' \in [Calls -> {"idle", "create", "enable", "activate", "reset", "verify"}]
           /\ arg' \in [Calls -> Argument]
           /\ at'[c] = "idle"
           /\ \A d \in Calls \ {c} : at'[d] = at[d] /\ arg'[d] = arg[d]
<1>1. at' = [at EXCEPT ![c] = "idle"] /\ arg' = [arg EXCEPT ![c] = NoArg]
  BY DEF Return, Goto
<1> QED BY <1>1, ArgumentTypes DEF TypeOK, Argument

LEMMA InitInv == Init => Inv
<1> SUFFICES ASSUME Init PROVE Inv
  OBVIOUS
<1>1. TypeOK
  BY NoUserIsUser DEF Init, TypeOK, None, Resets, Verifications
<1>2. EnabledEverywhere
  BY DEF Init, EnabledEverywhere, Enabled, Holds, NoUser, None
<1> QED
  BY <1>1, <1>2 DEF Init, Inv, Registered, OfAnAccount, Arguments, Holds, Remembered,
                    PasswordKept, OneAnswer

-----------------------------------------------------------------------------
(***************************************************************************)
(* The steps that leave the row and the calls alone.                       *)
(***************************************************************************)

LEMMA SessionSteps ==
    ASSUME Inv, Refresh \/ SessionExpires \/ \E p \in Passwords : Login(p)
    PROVE  Inv'
<1>0. user' = user /\ at' = at /\ arg' = arg /\ copy' = copy /\ since' = since
      /\ reset' = reset /\ verification' = verification /\ answered' = answered
  BY DEF Refresh, SessionExpires, Login
<1>1. session' \in BOOLEAN /\ (session' => user # NoUser)
      /\ claims' \in {claims, [roles |-> user.roles, active |-> user.active]}
  BY DEF Refresh, SessionExpires, Login, Issue, Exists, Inv, OfAnAccount, TypeOK
<1>2. TypeOK'
  BY <1>0, <1>1 DEF Inv, TypeOK, User
<1>3. Enabled(claims)'
  BY <1>1 DEF Inv, EnabledEverywhere, Enabled
<1> QED
  BY <1>0, <1>1, <1>2, <1>3 DEF Inv, Registered, OfAnAccount, Arguments, EnabledEverywhere,
     Enabled, Remembered, PasswordKept, OneAnswer, Holds

LEMMA TokenSteps ==
    ASSUME Inv,
           \/ \E t \in Resets : ForgotPassword(t) \/ ResetExpires(t)
           \/ \E t \in Verifications : SendVerificationEmail(t) \/ VerificationExpires(t)
    PROVE  Inv'
<1>0. user' = user /\ at' = at /\ arg' = arg /\ copy' = copy /\ since' = since
      /\ session' = session /\ claims' = claims /\ answered' = answered
  BY DEF ForgotPassword, ResetExpires, SendVerificationEmail, VerificationExpires
<1>1. reset' \in [Resets -> {"none", "live", "used", "expired"}]
      /\ verification' \in [Verifications -> {"none", "live", "gone"}]
  BY DEF ForgotPassword, ResetExpires, SendVerificationEmail, VerificationExpires, Inv, TypeOK
<1>2. /\ \A t \in Resets : reset'[t] # "none" => user # NoUser
      /\ \A t \in Verifications : verification'[t] # "none" => user # NoUser
      /\ \A t \in Resets : reset[t] # "none" => reset'[t] # "none"
  BY DEF ForgotPassword, ResetExpires, SendVerificationEmail, VerificationExpires, Inv, TypeOK,
         OfAnAccount, Exists
<1>3. TypeOK'
  BY <1>0, <1>1 DEF Inv, TypeOK
<1> QED
  BY <1>0, <1>2, <1>3 DEF Inv, Registered, OfAnAccount, Arguments, EnabledEverywhere,
     Enabled, Remembered, PasswordKept, OneAnswer, Holds

(***************************************************************************)
(* The steps that begin a call.                                            *)
(***************************************************************************)

LEMMA BeginSteps ==
    ASSUME Inv, NEW c \in Calls,
           \/ \E p \in Passwords : RegisterCheck(c, p)
           \/ \E t \in Resets, p \in Passwords : ResetPasswordFind(c, t, p)
           \/ \E t \in Verifications : VerifyEmailFind(c, t)
    PROVE  Inv'
<1>0. user' = user /\ copy' = copy /\ since' = since /\ reset' = reset
      /\ session' = session /\ claims' = claims /\ answered' = answered
  BY DEF RegisterCheck, ResetPasswordFind, VerifyEmailFind
<1>1. at[c] = "idle"
  BY DEF RegisterCheck, ResetPasswordFind, VerifyEmailFind
<1>2. /\ at' \in [Calls -> {"idle", "create", "enable", "activate", "reset", "verify"}]
      /\ \A d \in Calls \ {c} : at'[d] = at[d] /\ arg'[d] = arg[d]
      /\ ~Holds(c)'
      /\ arg' \in [Calls -> Argument]
  <2>1. CASE \E p \in Passwords : RegisterCheck(c, p)
    BY <1>1, <2>1, ArgumentTypes DEF RegisterCheck, Goto, Holds, Inv, TypeOK, Argument
  <2>2. CASE \E t \in Resets, p \in Passwords : ResetPasswordFind(c, t, p)
    BY <1>1, <2>2, ArgumentTypes DEF ResetPasswordFind, Goto, Holds, Inv, TypeOK, Argument
  <2>3. CASE \E t \in Verifications : VerifyEmailFind(c, t)
    <3>1. PICK t \in Verifications : VerifyEmailFind(c, t)
      BY <2>3
    <3>2. CASE ~user.verified /\ Goto(c, "verify", WithToken(t))
      BY <1>1, <3>2, ArgumentTypes DEF Goto, Holds, Inv, TypeOK, Argument
    <3>3. CASE UNCHANGED <<at, arg>>
      BY <1>1, <3>3 DEF Holds, Inv, TypeOK, Argument
    <3> QED BY <3>1, <3>2, <3>3 DEF VerifyEmailFind
  <2> QED BY <2>1, <2>2, <2>3
<1>3. /\ at'[c] \in {"create", "reset"} => arg'[c].password \in Passwords
      /\ at'[c] = "reset" => arg'[c].token \in Resets /\ reset[arg'[c].token] # "none"
      /\ at'[c] = "verify" => arg'[c].token \in Verifications
      /\ at'[c] \notin {"idle", "create"} => user # NoUser
  BY <1>1 DEF RegisterCheck, ResetPasswordFind, VerifyEmailFind, Goto, Inv, TypeOK,
              WithPassword, WithToken, OfAnAccount
<1>4. /\ verification' \in [Verifications -> {"none", "live", "gone"}]
      /\ \A t \in Verifications : verification'[t] # "none" => user # NoUser
  BY DEF RegisterCheck, ResetPasswordFind, VerifyEmailFind, Inv, TypeOK, OfAnAccount
<1>5. TypeOK'
  BY <1>0, <1>2, <1>4 DEF Inv, TypeOK, Argument
<1>6. OfAnAccount'
  BY <1>0, <1>2, <1>3, <1>4 DEF Inv, OfAnAccount
<1>7. Arguments'
  BY <1>0, <1>2, <1>3 DEF Inv, Arguments, Holds
<1>8. /\ EnabledEverywhere' /\ Remembered' /\ PasswordKept'
  BY <1>0, <1>2 DEF Inv, EnabledEverywhere, Enabled, Remembered, PasswordKept, Holds
<1> QED
  BY <1>0, <1>5, <1>6, <1>7, <1>8 DEF Inv, Registered, OneAnswer

\* EnableRole and SetActiveRole read the row.
LEMMA RoleReads ==
    ASSUME Inv, NEW c \in Calls, NEW r \in Roles, EnableRoleRead(c, r) \/ SetActiveRoleRead(c, r)
    PROVE  Inv'
<1>0. user' = user /\ reset' = reset /\ verification' = verification
      /\ session' = session /\ claims' = claims /\ answered' = answered /\ user # NoUser
  BY DEF EnableRoleRead, SetActiveRoleRead, RoleRead, Exists
<1>1. /\ at' \in [Calls -> {"idle", "create", "enable", "activate", "reset", "verify"}]
      /\ arg' \in [Calls -> Argument]
      /\ copy' \in [Calls -> User]
      /\ since' \in [Calls -> SUBSET Facts]
  <2>1. \E there \in {"enable", "activate"} : RoleRead(c, r, there)
    BY DEF EnableRoleRead, SetActiveRoleRead
  <2>2. PICK there \in {"enable", "activate"} : RoleRead(c, r, there)
    BY <2>1
  <2>3. WithRole(r) \in Argument
    BY ArgumentTypes
  <2> QED BY <2>2, <2>3 DEF RoleRead, Goto, Inv, TypeOK, Argument
<1>2. \A d \in Calls \ {c} :
         at'[d] = at[d] /\ arg'[d] = arg[d] /\ copy'[d] = copy[d] /\ since'[d] = since[d]
  BY DEF EnableRoleRead, SetActiveRoleRead, RoleRead, Goto, Inv, TypeOK
<1>3. /\ at'[c] \in {"enable", "activate"} /\ arg'[c].role = r
      /\ copy'[c] = user /\ since'[c] = {}
      /\ at'[c] = "activate" => r \in user.roles
  BY DEF EnableRoleRead, SetActiveRoleRead, RoleRead, Goto, WithRole, Inv, TypeOK
<1>4. TypeOK'
  BY <1>0, <1>1 DEF Inv, TypeOK, Argument
<1>5. OfAnAccount'
  BY <1>0, <1>2 DEF Inv, OfAnAccount
<1>6. Arguments'
  BY <1>0, <1>2, <1>3 DEF Inv, Arguments, Holds, Registered
<1>7. EnabledEverywhere'
  BY <1>0, <1>2, <1>3 DEF Inv, EnabledEverywhere, Enabled, Holds
<1>8. Remembered'
  BY <1>0, <1>2, <1>3, ChangedNothing DEF Inv, Remembered, Holds, TypeOK
<1>9. PasswordKept'
  BY <1>0, <1>2, <1>3 DEF Inv, PasswordKept, Holds
<1> QED
  BY <1>0, <1>4, <1>5, <1>6, <1>7, <1>8, <1>9 DEF Inv, Registered, OneAnswer

(***************************************************************************)
(* The steps that write the row.                                           *)
(***************************************************************************)

\* Register's insert: no copy of the row exists before the row does.
LEMMA Registers ==
    ASSUME Inv, NEW c \in Calls, RegisterCreate(c)
    PROVE  Inv'
<1>0. /\ reset' = reset /\ verification' = verification /\ copy' = copy /\ since' = since
      /\ at[c] = "create" /\ at'[c] = "idle"
      /\ \A d \in Calls \ {c} : at'[d] = at[d] /\ arg'[d] = arg[d]
      /\ at' \in [Calls -> {"idle", "create", "enable", "activate", "reset", "verify"}]
      /\ arg' \in [Calls -> Argument]
  BY ArgumentTypes DEF RegisterCreate, Return, Goto, Inv, TypeOK, Argument
<1>1. CASE UNCHANGED <<user, session, claims, answered>>
  <2>1. TypeOK'
    BY <1>0, <1>1 DEF Inv, TypeOK, Argument
  <2>2. OfAnAccount'
    BY <1>0, <1>1 DEF Inv, OfAnAccount
  <2>3. Arguments'
    BY <1>0, <1>1 DEF Inv, Arguments, Holds
  <2> QED
    BY <1>0, <1>1, <2>1, <2>2, <2>3 DEF Inv, Registered, EnabledEverywhere, Enabled, Remembered,
                            PasswordKept, OneAnswer, Holds
<1>2. CASE /\ ~Exists
           /\ user' = [NoUser EXCEPT !.password = arg[c].password]
           /\ \/ Issue(user') /\ answered' = answered \cup {arg[c].password}
              \/ UNCHANGED <<session, claims, answered>>
  <2>1. user = NoUser /\ arg[c].password \in Passwords /\ answered = {}
    BY <1>0, <1>2 DEF Exists, Inv, Arguments, OfAnAccount
  <2>2. /\ user' = [password |-> arg[c].password, verified |-> FALSE, roles |-> {},
                    active |-> None, complete |-> FALSE]
        /\ user' \in User /\ user'.password = arg[c].password
    <3>1. user' = [NoUser EXCEPT !.password = arg[c].password]
      BY <1>2
    <3>2. user' = [password |-> arg[c].password, verified |-> FALSE, roles |-> {},
                   active |-> None, complete |-> FALSE]
      BY <3>1 DEF NoUser
    <3> QED BY <2>1, <3>2 DEF User
  <2>3. user' # NoUser
    BY <2>1, <2>2, NoUserIsUser
  <2>4. \A d \in Calls : at[d] \in {"idle", "create"}
    BY <2>1 DEF Inv, OfAnAccount
  <2>5. \A d \in Calls : at'[d] \in {"idle", "create"}
    BY <1>0, <2>4
  <2>6. /\ session' \in BOOLEAN /\ claims' \in [roles : SUBSET Roles, active : Roles \cup {None}]
        /\ Enabled(claims)' /\ answered' \in SUBSET {arg[c].password}
    <3>1. CASE Issue(user') /\ answered' = answered \cup {arg[c].password}
      BY <2>1, <2>2, <3>1 DEF Issue, Enabled
    <3>2. CASE UNCHANGED <<session, claims, answered>>
      BY <2>1, <3>2 DEF Inv, TypeOK, EnabledEverywhere, Enabled
    <3> QED BY <1>2, <3>1, <3>2
  <2>7. TypeOK'
    BY <1>0, <2>1, <2>2, <2>6 DEF Inv, TypeOK, Argument
  <2>8. OfAnAccount' /\ Registered'
    BY <2>1, <2>2, <2>3 DEF OfAnAccount, Registered
  <2>9. Arguments'
    BY <1>0, <2>5 DEF Inv, Arguments, Holds
  <2>10. EnabledEverywhere' /\ Remembered' /\ PasswordKept' /\ OneAnswer'
    BY <2>2, <2>5, <2>6 DEF EnabledEverywhere, Enabled, Remembered, PasswordKept, OneAnswer, Holds
  <2> QED BY <2>7, <2>8, <2>9, <2>10 DEF Inv
<1> QED BY <1>1, <1>2 DEF RegisterCreate

\* The row after a role call's Save.
Granted(c) ==
    IF at[c] = "enable"
    THEN [copy[c] EXCEPT !.roles = @ \cup {arg[c].role},
                         !.active = IF @ = None THEN arg[c].role ELSE @]
    ELSE [copy[c] EXCEPT !.active = arg[c].role]

LEMMA GrantedRow ==
    ASSUME Inv, NEW c \in Calls, Holds(c)
    PROVE  /\ Granted(c) \in User /\ Enabled(Granted(c))
           /\ Granted(c).password = copy[c].password
           /\ Granted(c).verified = copy[c].verified
           /\ Granted(c).complete = copy[c].complete
           /\ copy[c].roles \subseteq Granted(c).roles
<1>1. copy[c] \in User /\ arg[c].role \in Roles /\ Enabled(copy[c])
      /\ (at[c] = "activate" => arg[c].role \in copy[c].roles)
  BY DEF Inv, TypeOK, Arguments, EnabledEverywhere
<1>2. CASE at[c] = "enable"
  <2>1. Granted(c) = [password |-> copy[c].password, verified |-> copy[c].verified,
                      roles |-> copy[c].roles \cup {arg[c].role},
                      active |-> IF copy[c].active = None THEN arg[c].role
                                 ELSE copy[c].active,
                      complete |-> copy[c].complete]
    BY <1>1, <1>2 DEF Granted, User
  <2> QED BY <1>1, <2>1 DEF User, Enabled
<1>3. CASE at[c] = "activate"
  <2>1. Granted(c) = [password |-> copy[c].password, verified |-> copy[c].verified,
                      roles |-> copy[c].roles, active |-> arg[c].role,
                      complete |-> copy[c].complete]
    BY <1>1, <1>3 DEF Granted, User
  <2> QED BY <1>1, <1>3, <2>1 DEF User, Enabled
<1> QED BY <1>2, <1>3 DEF Holds

LEMMA SaveIsGranted ==
    ASSUME NEW c \in Calls, EnableRoleSave(c) \/ SetActiveRoleSave(c)
    PROVE  Holds(c) /\ Save(c, Granted(c))
BY DEF EnableRoleSave, SetActiveRoleSave, Holds, Granted

LEMMA RoleSaves ==
    ASSUME Inv, NEW c \in Calls, EnableRoleSave(c) \/ SetActiveRoleSave(c)
    PROVE  Inv'
<1> DEFINE u == Granted(c)
<1>1. Holds(c) /\ Save(c, u)
  BY SaveIsGranted
<1>2. /\ u \in User /\ Enabled(u) /\ u.password = copy[c].password
      /\ u.password \in Passwords
  BY <1>1, GrantedRow DEF Inv, Arguments
<1> HIDE DEF u
<1>3. /\ user' = u /\ user' # NoUser /\ Write(u, Calls \ {c})
      /\ reset' = reset /\ verification' = verification /\ answered' = answered
      /\ at'[c] = "idle"
      /\ \A d \in Calls \ {c} : at'[d] = at[d] /\ arg'[d] = arg[d] /\ copy'[d] = copy[d]
      /\ at' \in [Calls -> {"idle", "create", "enable", "activate", "reset", "verify"}]
      /\ arg' \in [Calls -> Argument]
      /\ copy' \in [Calls -> User]
  BY <1>1, <1>2, ArgumentTypes, NoUserIsUser
     DEF Save, Write, Return, Goto, Inv, TypeOK, Argument
<1>4. /\ claims' = [roles |-> u.roles, active |-> u.active] /\ session' = TRUE
  BY <1>1 DEF Save, Issue
<1>5. TypeOK'
  <2>1. user' \in User /\ since' \in [Calls -> SUBSET Facts]
    BY <1>2, <1>3, WriteTypes DEF Inv
  <2>2. claims' \in [roles : SUBSET Roles, active : Roles \cup {None}]
    BY <1>2, <1>4 DEF User
  <2> QED BY <1>3, <1>4, <2>1, <2>2 DEF Inv, TypeOK, Argument
<1>6. Registered' /\ OfAnAccount'
  BY <1>2, <1>3 DEF Registered, OfAnAccount
<1>7. Arguments'
  BY <1>3 DEF Inv, Arguments, Holds
<1>8. EnabledEverywhere'
  BY <1>2, <1>3, <1>4 DEF Inv, EnabledEverywhere, Enabled, Holds
<1>9. Remembered'
  <2> SUFFICES ASSUME NEW d \in Calls, Holds(d)'
               PROVE  Changed(copy'[d], user') \subseteq since'[d]
    BY DEF Remembered
  <2>1. d # c /\ Holds(d) /\ copy'[d] = copy[d]
    BY <1>3 DEF Holds
  <2> QED BY <1>2, <1>3, <2>1, WriteRemembers DEF Inv
<1>10. PasswordKept'
  <2> SUFFICES ASSUME \A t \in Resets : reset[t] = "none"
               PROVE  /\ \A d \in Calls : Holds(d)' => copy'[d].password = user'.password
                      /\ answered' # {} => answered' = {user'.password}
    BY <1>3 DEF PasswordKept
  <2>1. user'.password = user.password
    BY <1>1, <1>2, <1>3 DEF Inv, PasswordKept
  <2> QED BY <1>3, <2>1 DEF Inv, PasswordKept, Holds
<1> QED BY <1>3, <1>5, <1>6, <1>7, <1>8, <1>9, <1>10 DEF Inv, OneAnswer

\* ResetPassword's and VerifyEmail's transactions, and UpdateProfileComplete: one column
\* each, and a call that ends, if any, holds no copy.
LEMMA ColumnWrite ==
    ASSUME Inv, NEW u \in User, Write(u, Calls),
           user # NoUser, u.password \in Passwords,
           u.roles = user.roles, u.active = user.active,
           u.password = user.password \/ \E t \in Resets : reset'[t] # "none",
           copy' = copy, session' = session, claims' = claims, answered' = answered,
           reset' \in [Resets -> {"none", "live", "used", "expired"}],
           verification' \in [Verifications -> {"none", "live", "gone"}],
           \A t \in Resets : reset[t] # "none" => reset'[t] # "none",
           at' \in [Calls -> {"idle", "create", "enable", "activate", "reset", "verify"}],
           arg' \in [Calls -> Argument],
           \A d \in Calls : at'[d] = "idle" \/ (at'[d] = at[d] /\ arg'[d] = arg[d])
    PROVE  Inv'
<1>1. user' = u /\ u # NoUser
  BY NoUserIsUser DEF Write
<1>2. TypeOK'
  BY <1>1, WriteTypes DEF Inv, TypeOK, Argument
<1>3. Registered' /\ OfAnAccount'
  BY <1>1 DEF Registered, OfAnAccount
<1>4. Arguments'
  BY DEF Inv, Arguments, Holds
<1>5. EnabledEverywhere'
  BY <1>1 DEF Inv, EnabledEverywhere, Enabled, Holds
<1>6. Remembered'
  BY WriteRemembers DEF Inv, Remembered, Holds
<1>7. PasswordKept'
  BY <1>1 DEF Inv, PasswordKept, Holds
<1> QED BY <1>2, <1>3, <1>4, <1>5, <1>6, <1>7 DEF Inv, OneAnswer

LEMMA ResetCommits ==
    ASSUME Inv, NEW c \in Calls, ResetPasswordCommit(c)
    PROVE  Inv'
<1> DEFINE u == [user EXCEPT !.password = arg[c].password]
<1>1. /\ at[c] = "reset" /\ user # NoUser /\ user \in User
      /\ arg[c].password \in Passwords /\ arg[c].token \in Resets
  BY DEF ResetPasswordCommit, Inv, Arguments, OfAnAccount, TypeOK
<1>2. /\ u \in User /\ u.password = arg[c].password
      /\ u.roles = user.roles /\ u.active = user.active
  BY <1>1 DEF User
<1>3. Write(u, Calls)
  BY DEF ResetPasswordCommit
<1> HIDE DEF u
<1>4. /\ reset' \in [Resets -> {"none", "live", "used", "expired"}]
      /\ reset'[arg[c].token] = "used"
      /\ \A t \in Resets : reset[t] # "none" => reset'[t] # "none"
      /\ verification' = verification
      /\ copy' = copy /\ session' = session /\ claims' = claims /\ answered' = answered
  BY <1>1 DEF ResetPasswordCommit, Inv, TypeOK
<1>5. /\ at' \in [Calls -> {"idle", "create", "enable", "activate", "reset", "verify"}]
      /\ arg' \in [Calls -> Argument]
      /\ \A d \in Calls : at'[d] = "idle" \/ (at'[d] = at[d] /\ arg'[d] = arg[d])
  <2>1. Return(c) /\ TypeOK
    BY DEF ResetPasswordCommit, Inv
  <2> QED BY <2>1, Returning
<1>6. verification' \in [Verifications -> {"none", "live", "gone"}]
  BY <1>4 DEF Inv, TypeOK
<1>7. u.password = user.password \/ \E t \in Resets : reset'[t] # "none"
  BY <1>1, <1>4
<1> QED BY <1>1, <1>2, <1>3, <1>4, <1>5, <1>6, <1>7, ColumnWrite

LEMMA VerificationCommits ==
    ASSUME Inv, NEW c \in Calls, VerifyEmailCommit(c)
    PROVE  Inv'
<1> DEFINE u == [user EXCEPT !.verified = TRUE]
<1>1. /\ at[c] = "verify" /\ user # NoUser /\ user \in User
      /\ user.password \in Passwords /\ arg[c].token \in Verifications
  BY DEF VerifyEmailCommit, Inv, Arguments, OfAnAccount, Registered, TypeOK
<1>2. /\ u \in User /\ u.password = user.password
      /\ u.roles = user.roles /\ u.active = user.active
  BY <1>1 DEF User
<1>3. Write(u, Calls)
  BY DEF VerifyEmailCommit
<1> HIDE DEF u
<1>4. /\ reset' = reset
      /\ verification' \in [Verifications -> {"none", "live", "gone"}]
      /\ copy' = copy /\ session' = session /\ claims' = claims /\ answered' = answered
  BY <1>1 DEF VerifyEmailCommit, Inv, TypeOK
<1>5. /\ at' \in [Calls -> {"idle", "create", "enable", "activate", "reset", "verify"}]
      /\ arg' \in [Calls -> Argument]
      /\ \A d \in Calls : at'[d] = "idle" \/ (at'[d] = at[d] /\ arg'[d] = arg[d])
  <2>1. Return(c) /\ TypeOK
    BY DEF VerifyEmailCommit, Inv
  <2> QED BY <2>1, Returning
<1>6. reset' \in [Resets -> {"none", "live", "used", "expired"}]
  BY <1>4 DEF Inv, TypeOK
<1> QED BY <1>1, <1>2, <1>3, <1>4, <1>5, <1>6, ColumnWrite

LEMMA ProfileCompletes ==
    ASSUME Inv, UpdateProfileComplete
    PROVE  Inv'
<1> DEFINE u == [user EXCEPT !.complete = TRUE]
<1>1. user # NoUser /\ user \in User /\ user.password \in Passwords
  BY DEF UpdateProfileComplete, Exists, Inv, Registered, TypeOK
<1>2. /\ u \in User /\ u.password = user.password
      /\ u.roles = user.roles /\ u.active = user.active
  BY <1>1 DEF User
<1>3. Write(u, Calls)
  BY DEF UpdateProfileComplete
<1> HIDE DEF u
<1>4. /\ reset' = reset /\ verification' = verification /\ at' = at /\ arg' = arg
      /\ copy' = copy /\ session' = session /\ claims' = claims /\ answered' = answered
  BY DEF UpdateProfileComplete
<1>5. /\ reset' \in [Resets -> {"none", "live", "used", "expired"}]
      /\ verification' \in [Verifications -> {"none", "live", "gone"}]
      /\ at' \in [Calls -> {"idle", "create", "enable", "activate", "reset", "verify"}]
      /\ arg' \in [Calls -> Argument]
  BY <1>4 DEF Inv, TypeOK, Argument
<1> QED BY <1>1, <1>2, <1>3, <1>4, <1>5, ColumnWrite

-----------------------------------------------------------------------------

LEMMA Stutter == Inv /\ UNCHANGED vars => Inv'
BY DEF vars, Inv, TypeOK, Registered, OfAnAccount, Arguments, EnabledEverywhere, Enabled,
       Remembered, PasswordKept, OneAnswer, Holds

LEMMA InvStep == Inv /\ [Next]_vars => Inv'
<1> SUFFICES ASSUME Inv, [Next]_vars PROVE Inv'
  OBVIOUS
<1>1. CASE Refresh \/ SessionExpires \/ \E p \in Passwords : Login(p)
  BY <1>1, SessionSteps
<1>2. CASE \/ \E t \in Resets : ForgotPassword(t) \/ ResetExpires(t)
           \/ \E t \in Verifications : SendVerificationEmail(t) \/ VerificationExpires(t)
  BY <1>2, TokenSteps
<1>3. CASE UpdateProfileComplete
  BY <1>3, ProfileCompletes
<1>4. ASSUME NEW c \in Calls,
             \/ \E p \in Passwords : RegisterCheck(c, p)
             \/ RegisterCreate(c)
             \/ \E r \in Roles : EnableRoleRead(c, r) \/ SetActiveRoleRead(c, r)
             \/ EnableRoleSave(c) \/ SetActiveRoleSave(c)
             \/ \E t \in Resets, p \in Passwords : ResetPasswordFind(c, t, p)
             \/ ResetPasswordCommit(c)
             \/ \E t \in Verifications : VerifyEmailFind(c, t)
             \/ VerifyEmailCommit(c)
      PROVE  Inv'
  BY <1>4, BeginSteps, Registers, RoleReads, RoleSaves, ResetCommits, VerificationCommits
<1>5. CASE UNCHANGED vars
  BY <1>5, Stutter
<1> QED BY <1>1, <1>2, <1>3, <1>4, <1>5 DEF Next

LEMMA Invariant == Spec => []Inv
BY InitInv, InvStep, PTL DEF Spec

\* The account and the calls on it keep their types.
THEOREM TypeCorrect == Spec => []TypeOK
<1>1. Inv => TypeOK
  BY DEF Inv
<1> QED BY <1>1, Invariant, PTL

\* The role calls of auth_mutations.go, which write whole rows over each other's, never
\* leave or issue an active role that is not enabled.
THEOREM ActiveRoleAlwaysEnabled == Spec => []ActiveRoleEnabled
<1>1. Inv => ActiveRoleEnabled
  BY DEF Inv, EnabledEverywhere, ActiveRoleEnabled
<1> QED BY <1>1, Invariant, PTL

\* Of any number of registrations of one email only one is answered with tokens, and it
\* is the one whose password the account has.
THEOREM RegisteredAtMostOnce == Spec => []RegisteredOnce
<1>1. Inv => RegisteredOnce
  <2> SUFFICES ASSUME Inv PROVE RegisteredOnce
    OBVIOUS
  <2>1. Cardinality(answered) <= 1
    <3>1. CASE answered = {}
      BY <3>1, FS_EmptySet
    <3>2. CASE answered # {}
      <4>1. PICK p \in answered : TRUE
        BY <3>2
      <4>2. answered = {p}
        BY <4>1 DEF Inv, OneAnswer
      <4> QED BY <4>2, FS_Singleton
    <3> QED BY <3>1, <3>2
  <2> QED BY <2>1 DEF Inv, RegisteredOnce, PasswordKept
<1> QED BY <1>1, Invariant, PTL

\* Only the Save of a role call ends a role call.
LEMMA OnlySavesEnd ==
    ASSUME Inv, [Next]_vars, NEW c \in Calls, Holds(c), at'[c] = "idle"
    PROVE  EnableRoleSave(c) \/ SetActiveRoleSave(c)
<1>1. \A there, a : \A d \in Calls \ {c} : Goto(d, there, a) => at'[c] = at[c]
  BY DEF Goto, Inv, TypeOK
<1>2. at' # at
  BY DEF Holds
<1>3. PICK d \in Calls :
           \/ \E p \in Passwords : RegisterCheck(d, p)
           \/ RegisterCreate(d)
           \/ \E r \in Roles : EnableRoleRead(d, r) \/ SetActiveRoleRead(d, r)
           \/ EnableRoleSave(d) \/ SetActiveRoleSave(d)
           \/ \E t \in Resets, p \in Passwords : ResetPasswordFind(d, t, p)
           \/ ResetPasswordCommit(d)
           \/ \E t \in Verifications : VerifyEmailFind(d, t)
           \/ VerifyEmailCommit(d)
  BY <1>2 DEF Next, vars, Login, Refresh, SessionExpires, ForgotPassword, ResetExpires,
              SendVerificationEmail, VerificationExpires, UpdateProfileComplete
<1>4. \E there, a : Goto(d, there, a)
  BY <1>2, <1>3 DEF RegisterCheck, RegisterCreate, EnableRoleRead, SetActiveRoleRead, RoleRead,
     EnableRoleSave, SetActiveRoleSave, Save, ResetPasswordFind, ResetPasswordCommit,
     VerifyEmailFind, VerifyEmailCommit, Return
<1>5. d = c
  BY <1>1, <1>4 DEF Holds
<1> QED
  BY <1>3, <1>5 DEF Holds, RegisterCheck, RegisterCreate, EnableRoleRead, SetActiveRoleRead,
     RoleRead, ResetPasswordFind, ResetPasswordCommit, VerifyEmailFind, VerifyEmailCommit

\* EnableRole and SetActiveRole save every column of an old copy: what that takes away
\* from the row has been written after the copy was read.
THEOREM LostOnlyAfterRead == Spec => LostOnlyByOverlap
<1>1. Inv /\ [Next]_vars =>
        [\A c \in Calls : at[c] \in {"enable", "activate"} /\ at'[c] = "idle" =>
            Undone(c) \subseteq since[c]]_vars
  <2> SUFFICES ASSUME Inv, [Next]_vars, NEW c \in Calls, Holds(c), at'[c] = "idle"
               PROVE  Undone(c) \subseteq since[c]
    BY DEF Holds
  <2>1. user' = Granted(c)
    BY OnlySavesEnd, SaveIsGranted DEF Save, Write
  <2>2. Changed(copy[c], user) \subseteq since[c]
    BY DEF Inv, Remembered
  <2>3. Undone(c) \subseteq Changed(copy[c], user)
    BY <2>1, GrantedRow DEF Undone, Changed, Facts, Inv, TypeOK, User
  <2> QED BY <2>2, <2>3
<1> QED BY <1>1, Invariant, PTL DEF Spec, LostOnlyByOverlap

-----------------------------------------------------------------------------
(***************************************************************************)
(* Profiles, for any requests, fields and addresses.  A request has read   *)
(* what is still there, or is stale and marks its write as a race (Fresh). *)
(***************************************************************************)
ProfileCall ==
    [at : Places, row : SUBSET Fields, newRow : BOOLEAN, newSettings : BOOLEAN,
     stale : BOOLEAN, seen : SUBSET Addresses, unset : SUBSET Addresses,
     target : Addresses \cup {NoAddress}]

Changing == {"unset new", "unset old", "create", "update", "written"}

ProfileTypes ==
    /\ rows \in Seq(SUBSET Fields) /\ settings \in Nat
    /\ complete \in BOOLEAN /\ raced \in BOOLEAN
    /\ addresses \in [Addresses -> {"none", "plain", "default"}]

\* The rows and what the calls are still going to do about the flag.
RowsClean(k) ==
    ~raced => /\ Len(rows) <= 1 /\ settings <= 1
              /\ complete \/ k.at = "flag" => KeyFieldsSet

\* What a call has read of user_profiles and is going to write back; a call that is not
\* stale has read what is still there.
Fresh(k) ==
    /\ k \in ProfileCall
    /\ k.at \in {"upsert", "insert"} /\ ~k.stale /\ rows # <<>> => rows[1] \subseteq k.row
    /\ k.at = "insert" /\ ~k.stale => rows = <<>>
    /\ k.at \in Changing => k.target \in Addresses

ProfileInv ==
    /\ ProfileTypes
    /\ call \in [ProfileCalls -> ProfileCall]
    /\ \A c \in ProfileCalls : Fresh(call[c]) /\ RowsClean(call[c])
    /\ RowsClean(Idle)

\* An insert puts the row somewhere among those there are, ids being random.
LEMMA RowInserted ==
    ASSUME rows \in Seq(SUBSET Fields), NEW row \in SUBSET Fields, NEW new \in Inserted(row)
    PROVE  /\ new \in Seq(SUBSET Fields) /\ new # <<>>
           /\ rows = <<>> => new = <<row>>
<1>1. PICK i \in 0..Len(rows) :
         new = SubSeq(rows, 1, i) \o <<row>> \o SubSeq(rows, i + 1, Len(rows))
  BY DEF Inserted
<1>2. PICK front, back : front = SubSeq(rows, 1, i) /\ back = SubSeq(rows, i + 1, Len(rows))
  OBVIOUS
<1>3. front \in Seq(SUBSET Fields) /\ back \in Seq(SUBSET Fields)
  BY <1>1, <1>2
<1>4. new = (front \o <<row>>) \o back
  BY <1>1, <1>2
<1>5. <<row>> \in Seq(SUBSET Fields) /\ Len(<<row>>) = 1
  OBVIOUS
<1>6. front \o <<row>> \in Seq(SUBSET Fields) /\ Len(front \o <<row>>) = Len(front) + 1
  BY <1>3, <1>5
<1>7. new \in Seq(SUBSET Fields) /\ Len(new) = Len(front) + 1 + Len(back)
  BY <1>3, <1>4, <1>6
<1>8. new # <<>>
  BY <1>3, <1>7
<1>9. ASSUME rows = <<>> PROVE new = <<row>>
  <2>1. i = 0 /\ Len(rows) = 0
    BY <1>1, <1>9
  <2>2. front = <<>> /\ back = <<>>
    BY <1>2, <1>9, <2>1
  <2> QED BY <1>4, <2>2
<1> QED BY <1>7, <1>8, <1>9

\* A request that has ended holds nothing.
LEMMA IdleIsFresh == Fresh(Idle) /\ Idle.at \notin Changing \cup {"upsert", "insert", "flag"}
BY DEF Fresh, Idle, ProfileCall, Places, Changing, NoAddress

\* A step that leaves the profile's rows alone.
LEMMA ProfileStepAlone ==
    ASSUME ProfileInv, NEW c \in ProfileCalls, NEW r, Proceed(c, r), Fresh(r),
           r.at = "flag" => call[c].at = "flag",
           rows' = rows, settings' \in Nat, raced' \in BOOLEAN,
           raced => raced', ~raced' => settings' <= 1,
           addresses' \in [Addresses -> {"none", "plain", "default"}],
           complete' \in BOOLEAN,
           complete' => complete \/ call[c].at = "flag"
    PROVE  ProfileInv'
<1>1. /\ call' \in [ProfileCalls -> ProfileCall] /\ call'[c] = r
      /\ \A d \in ProfileCalls \ {c} : call'[d] = call[d]
  BY DEF ProfileInv, Proceed, Fresh
<1>2. \A d \in ProfileCalls : Fresh(call[d])'
  BY <1>1 DEF ProfileInv, Fresh
<1>3. \A d \in ProfileCalls : RowsClean(call[d])'
  BY <1>1 DEF ProfileInv, RowsClean, KeyFieldsSet
<1>4. RowsClean(Idle)'
  BY IdleIsFresh DEF ProfileInv, RowsClean, KeyFieldsSet
<1>5. ProfileTypes'
  BY DEF ProfileInv, ProfileTypes
<1> QED BY <1>1, <1>2, <1>3, <1>4, <1>5 DEF ProfileInv

\* A step that replaces the rows by new ones.
LEMMA RowsReplaced ==
    ASSUME ProfileInv, NEW c \in ProfileCalls, NEW r \in ProfileCall, ProceedAndOutdate(c, r),
           rows' \in Seq(SUBSET Fields), settings' \in Nat, raced' \in BOOLEAN,
           UNCHANGED <<complete, addresses>>,
           r.at \in {"idle", "flag"},
           raced => raced',
           ~raced' => /\ Len(rows') <= 1 /\ settings' <= 1
                      /\ KeyFieldsSet \/ r.at = "flag" => KeyFieldsSet'
    PROVE  ProfileInv'
<1>1. ASSUME NEW d \in ProfileCalls \ {c}
      PROVE  /\ call'[d] \in ProfileCall /\ call'[d].at = call[d].at
             /\ call'[d].target = call[d].target
             /\ call[d].at \in {"upsert", "insert"} => call'[d].stale
  <2>1. PICK k : k = call[d]
    OBVIOUS
  <2>2. k \in ProfileCall /\ call'[d] = [k EXCEPT !.stale = k.at \in {"upsert", "insert"}]
    BY <2>1 DEF ProfileInv, ProceedAndOutdate
  <2>3. CASE k.at \in {"upsert", "insert"}
    <3>1. call'[d] = [k EXCEPT !.stale = TRUE]
      BY <2>2, <2>3
    <3> QED BY <2>1, <2>2, <3>1 DEF ProfileCall
  <2>4. CASE k.at \notin {"upsert", "insert"}
    <3>1. (k.at \in {"upsert", "insert"}) = FALSE
      BY <2>4
    <3>2. call'[d] = [k EXCEPT !.stale = FALSE]
      BY <2>2, <3>1, Zenon
    <3> QED BY <2>1, <2>2, <2>4, <3>2 DEF ProfileCall
  <2> QED BY <2>3, <2>4
<1>2. call' = [d \in ProfileCalls |-> call'[d]] /\ call'[c] = r
  BY DEF ProceedAndOutdate
<1>3. call' \in [ProfileCalls -> ProfileCall]
  BY <1>1, <1>2
<1>4. \A d \in ProfileCalls : Fresh(call[d])'
  <2>1. Fresh(r)'
    BY DEF Fresh, Changing
  <2>2. ASSUME NEW d \in ProfileCalls \ {c} PROVE Fresh(call[d])'
    BY <1>1 DEF Fresh, ProfileInv
  <2> QED BY <1>2, <2>1, <2>2
<1>5. \A d \in ProfileCalls : RowsClean(call[d])'
  <2>1. RowsClean(r)'
    BY DEF RowsClean, ProfileInv
  <2>2. ASSUME NEW d \in ProfileCalls \ {c} PROVE RowsClean(call[d])'
    BY <1>1 DEF RowsClean, ProfileInv
  <2> QED BY <1>2, <2>1, <2>2
<1>6. RowsClean(Idle)'
  BY IdleIsFresh DEF RowsClean, ProfileInv
<1>7. ProfileTypes'
  BY DEF ProfileInv, ProfileTypes
<1> QED BY <1>3, <1>4, <1>5, <1>6, <1>7 DEF ProfileInv

\* Get-or-create in its transaction.
LEMMA ProfileEnsured ==
    ASSUME ProfileInv, NEW c \in ProfileCalls,
           \/ \E profile, setting \in BOOLEAN : FetchInternal(c, profile, setting)
           \/ EnsureSettings(c) \/ EnsureCommit(c)
    PROVE  ProfileInv'
<1> USE DEF Places
<1>1. PICK k : k = call[c]
  OBVIOUS
<1>2. k \in ProfileCall /\ Fresh(k) /\ RowsClean(k) /\ ProfileTypes
  BY <1>1 DEF ProfileInv
<1>3. ASSUME NEW profile \in BOOLEAN, NEW setting \in BOOLEAN, FetchInternal(c, profile, setting)
      PROVE  ProfileInv'
  <2>1. PICK place, needed : /\ place = IF setting THEN "settings" ELSE "ensured"
                             /\ needed = (profile /\ rows = <<>>)
    OBVIOUS
  <2>2. PICK r : r = [Idle EXCEPT !.at = place, !.newRow = needed]
    OBVIOUS
  <2>3. Fresh(r) /\ r.at # "flag"
    BY IdleIsFresh, <2>1, <2>2 DEF Fresh, ProfileCall, Changing
  <2> QED
    BY <1>2, <1>3, <2>1, <2>2, <2>3, ProfileStepAlone DEF FetchInternal, ProfileTypes, RowsClean
<1>4. CASE EnsureSettings(c)
  <2>1. PICK r : r = [k EXCEPT !.at = "ensured", !.newSettings = (settings = 0)]
    OBVIOUS
  <2>2. Fresh(r) /\ r.at # "flag"
    BY <1>2, <2>1 DEF Fresh, ProfileCall, Changing
  <2> QED
    BY <1>1, <1>2, <1>4, <2>1, <2>2, ProfileStepAlone DEF EnsureSettings, ProfileTypes, RowsClean
<1>5. CASE EnsureCommit(c) /\ k.newRow
  <2>1. /\ rows' \in Inserted({}) /\ ProceedAndOutdate(c, Idle)
        /\ settings' = IF k.newSettings THEN settings + 1 ELSE settings
        /\ raced' = (raced \/ (k.newRow /\ rows # <<>>) \/ (k.newSettings /\ settings > 0))
        /\ UNCHANGED <<complete, addresses>>
    BY <1>1, <1>5 DEF EnsureCommit
  <2>2. rows' \in Seq(SUBSET Fields) /\ (rows = <<>> => rows' = <<{}>>)
    BY <1>2, <2>1, RowInserted DEF ProfileTypes
  <2>3. settings' \in Nat /\ raced' \in BOOLEAN
    BY <1>2, <2>1 DEF ProfileTypes
  <2>4. ASSUME ~raced'
        PROVE  Len(rows') <= 1 /\ settings' <= 1 /\ ~KeyFieldsSet
    <3>1. ~raced /\ rows = <<>> /\ (k.newSettings => ~(settings > 0))
      BY <1>5, <2>1, <2>4
    <3>2. settings' <= 1
      BY <1>2, <2>1, <3>1 DEF RowsClean, ProfileTypes
    <3>3. Len(rows') = 1 /\ ~KeyFieldsSet
      BY <2>2, <3>1 DEF KeyFieldsSet
    <3> QED BY <3>2, <3>3
  <2>5. raced => raced'
    BY <2>1
  <2>6. Idle \in ProfileCall /\ Idle.at = "idle"
    BY IdleIsFresh DEF Fresh, Idle
  <2> QED BY <2>1, <2>2, <2>3, <2>4, <2>5, <2>6, RowsReplaced
<1>6. CASE EnsureCommit(c) /\ ~k.newRow
  <2>1. /\ UNCHANGED <<rows, complete, addresses>> /\ Finish(c)
        /\ settings' = IF k.newSettings THEN settings + 1 ELSE settings
        /\ raced' = (raced \/ (k.newSettings /\ settings > 0))
    BY <1>1, <1>6 DEF EnsureCommit
  <2>2. settings' \in Nat /\ (~raced /\ (k.newSettings => ~(settings > 0)) => settings' <= 1)
    BY <1>2, <2>1 DEF ProfileTypes, RowsClean
  <2>3. raced' \in BOOLEAN /\ (raced => raced')
        /\ (~raced' => ~raced /\ (k.newSettings => ~(settings > 0)))
    BY <2>1, Zenon
  <2> QED BY <1>2, <2>1, <2>2, <2>3, IdleIsFresh, ProfileStepAlone DEF Finish, ProfileTypes
<1> QED BY <1>1, <1>3, <1>4, <1>5, <1>6

\* Read, UPDATE, INSERT, and the flag.
LEMMA ProfileUpdated ==
    ASSUME ProfileInv, NEW c \in ProfileCalls,
           \/ \E fields \in SUBSET Fields : UpdateProfileRead(c, fields)
           \/ UpsertProfile(c) \/ InsertProfile(c) \/ SetProfileComplete(c)
           \/ UpdateSettings(c)
    PROVE  ProfileInv'
<1> USE DEF Places
<1>1. PICK k : k = call[c]
  OBVIOUS
<1>2. k \in ProfileCall /\ Fresh(k) /\ RowsClean(k) /\ RowsClean(Idle) /\ ProfileTypes
  BY <1>1 DEF ProfileInv
<1>3. ASSUME NEW fields \in SUBSET Fields, UpdateProfileRead(c, fields) PROVE ProfileInv'
  <2>1. PICK row : row = fields \cup (IF rows = <<>> THEN {} ELSE rows[1])
    OBVIOUS
  <2>2. row \in SUBSET Fields /\ (rows # <<>> => rows[1] \subseteq row)
    BY <1>2, <2>1 DEF ProfileTypes
  <2>3. PICK r : r = [Idle EXCEPT !.at = "upsert", !.row = row]
    OBVIOUS
  <2>4. Fresh(r) /\ r.at # "flag"
    BY IdleIsFresh, <2>2, <2>3 DEF Fresh, ProfileCall, Changing
  <2> QED BY <1>2, <1>3, <2>1, <2>3, <2>4, ProfileStepAlone
          DEF UpdateProfileRead, ProfileTypes, RowsClean
<1>4. PICK r : r = AfterUpdate(c)
  OBVIOUS
<1>5. /\ r \in ProfileCall /\ r.at \in {"idle", "flag"}
      /\ r.at = "flag" => KeyFields \subseteq k.row
  <2>1. [Idle EXCEPT !.at = "flag"] \in ProfileCall /\ [Idle EXCEPT !.at = "flag"].at = "flag"
    BY IdleIsFresh DEF Fresh, ProfileCall
  <2>2. Idle \in ProfileCall /\ Idle.at = "idle"
    BY IdleIsFresh DEF Fresh, Idle
  <2> QED BY <1>1, <1>4, <2>1, <2>2 DEF AfterUpdate
<1>6. CASE UpsertProfile(c) /\ rows # <<>>
  <2>1. /\ rows' = [i \in DOMAIN rows |-> k.row] /\ raced' = (raced \/ k.stale)
        /\ ProceedAndOutdate(c, r) /\ k.at = "upsert"
        /\ UNCHANGED <<settings, complete, addresses>>
    BY <1>1, <1>4, <1>6 DEF UpsertProfile
  <2>2. /\ rows' \in Seq(SUBSET Fields) /\ Len(rows') = Len(rows)
        /\ \A i \in 1..Len(rows) : rows'[i] = k.row
    <3>1. PICK n \in Nat : n = Len(rows) /\ DOMAIN rows = 1..n
      BY <1>2 DEF ProfileTypes
    <3>2. k.row \in SUBSET Fields
      BY <1>2 DEF ProfileCall
    <3>3. rows' = [i \in 1..n |-> k.row]
      BY <2>1, <3>1
    <3> QED BY <3>1, <3>2, <3>3
  <2>3. ASSUME ~raced'
        PROVE  /\ Len(rows') <= 1 /\ settings' <= 1
               /\ KeyFieldsSet \/ r.at = "flag" => KeyFieldsSet'
    <3>1. ~raced /\ ~k.stale
      BY <2>1, <2>3
    <3>2. Len(rows) <= 1 /\ settings <= 1 /\ rows[1] \subseteq k.row
      BY <1>2, <1>6, <2>1, <3>1 DEF RowsClean, Fresh
    <3>3. Len(rows) = 1
      <4>1. rows \in Seq(SUBSET Fields)
        BY <1>2 DEF ProfileTypes
      <4>2. PICK n : n = Len(rows)
        OBVIOUS
      <4>3. n \in Nat /\ n # 0
        BY <1>6, <4>1, <4>2, EmptySeq
      <4>4. n <= 1
        BY <3>2, <4>2
      <4>5. n = 1
        BY <4>3, <4>4
      <4> QED BY <4>2, <4>5
    <3>4. rows' = <<k.row>>
      <4>1. Len(rows') = 1 /\ rows'[1] = k.row /\ rows' \in Seq(SUBSET Fields)
        BY <2>2, <3>3
      <4> QED BY <4>1
    <3>5. KeyFieldsSet => KeyFields \subseteq k.row
      BY <3>2 DEF KeyFieldsSet
    <3>6. KeyFields \subseteq k.row => KeyFieldsSet'
      BY <3>4 DEF KeyFieldsSet
    <3> QED BY <1>5, <2>1, <3>2, <3>4, <3>5, <3>6
  <2>4. settings' \in Nat /\ raced' \in BOOLEAN /\ (raced => raced')
    BY <1>2, <2>1 DEF ProfileTypes, ProfileCall
  <2> QED BY <1>5, <2>1, <2>2, <2>3, <2>4, RowsReplaced
<1>7. CASE UpsertProfile(c) /\ rows = <<>>
  <2>1. PICK n : n = [k EXCEPT !.at = "insert"]
    OBVIOUS
  <2>2. k.at = "upsert" /\ Proceed(c, n) /\ UNCHANGED <<rows, raced, settings, complete, addresses>>
    BY <1>1, <1>7, <2>1 DEF UpsertProfile
  <2>3. Fresh(n) /\ n.at # "flag"
    BY <1>2, <1>7, <2>1, <2>2 DEF Fresh, ProfileCall, Changing
  <2> QED BY <1>2, <2>2, <2>3, ProfileStepAlone DEF ProfileTypes, RowsClean
<1>8. CASE InsertProfile(c)
  <2>1. /\ rows' \in Inserted(k.row) /\ raced' = (raced \/ k.stale)
        /\ ProceedAndOutdate(c, r) /\ k.at = "insert"
        /\ UNCHANGED <<settings, complete, addresses>>
    BY <1>1, <1>4, <1>8 DEF InsertProfile
  <2>2. rows' \in Seq(SUBSET Fields) /\ (rows = <<>> => rows' = <<k.row>>)
    BY <1>2, <2>1, RowInserted DEF ProfileTypes, ProfileCall
  <2>3. ASSUME ~raced'
        PROVE  /\ Len(rows') <= 1 /\ settings' <= 1
               /\ KeyFieldsSet \/ r.at = "flag" => KeyFieldsSet'
    <3>1. ~raced /\ rows = <<>> /\ settings <= 1
      BY <1>2, <2>1, <2>3 DEF Fresh, RowsClean
    <3>2. rows' = <<k.row>> /\ ~KeyFieldsSet
      BY <2>2, <3>1 DEF KeyFieldsSet
    <3>3. KeyFields \subseteq k.row => KeyFieldsSet'
      BY <3>2 DEF KeyFieldsSet
    <3> QED BY <1>5, <2>1, <3>1, <3>2, <3>3
  <2>4. settings' \in Nat /\ raced' \in BOOLEAN /\ (raced => raced')
    BY <1>2, <2>1 DEF ProfileTypes, ProfileCall
  <2> QED BY <1>5, <2>1, <2>2, <2>3, <2>4, RowsReplaced
<1>9. CASE SetProfileComplete(c)
  <2>1. /\ call[c].at = "flag" /\ complete' \in {complete, TRUE} /\ Finish(c)
        /\ UNCHANGED <<rows, settings, addresses, raced>>
    BY <1>9 DEF SetProfileComplete
  <2> QED BY <1>2, <2>1, IdleIsFresh, ProfileStepAlone DEF Finish, ProfileTypes, RowsClean
<1>10. CASE UpdateSettings(c)
  <2>1. CASE UNCHANGED <<settings, call, raced>> /\ UNCHANGED <<rows, complete, addresses>>
    BY <2>1 DEF ProfileInv, ProfileTypes, Fresh, RowsClean, KeyFieldsSet
  <2>2. CASE /\ Proceed(c, [Idle EXCEPT !.at = "insert settings"])
             /\ UNCHANGED <<settings, raced>> /\ UNCHANGED <<rows, complete, addresses>>
    <3>1. PICK n : n = [Idle EXCEPT !.at = "insert settings"]
      OBVIOUS
    <3>2. Fresh(n) /\ n.at # "flag"
      BY IdleIsFresh, <3>1 DEF Fresh, ProfileCall, Changing
    <3> QED BY <1>2, <2>2, <3>1, <3>2, ProfileStepAlone DEF ProfileTypes, RowsClean
  <2>3. CASE /\ settings' = settings + 1 /\ raced' = (raced \/ settings > 0) /\ Finish(c)
             /\ UNCHANGED <<rows, complete, addresses>>
    <3>1. settings' \in Nat /\ (~(settings > 0) => settings' <= 1)
      BY <1>2, <2>3 DEF ProfileTypes
    <3>2. raced' \in BOOLEAN /\ (raced => raced') /\ (~raced' => ~(settings > 0))
      BY <2>3, Zenon
    <3> QED BY <1>2, <2>3, <3>1, <3>2, IdleIsFresh, ProfileStepAlone DEF Finish, ProfileTypes
  <2> QED BY <1>10, <2>1, <2>2, <2>3 DEF UpdateSettings
<1> QED BY <1>3, <1>6, <1>7, <1>8, <1>9, <1>10 DEF UpsertProfile

\* The addresses have no part in the invariant but their types.
LEMMA AddressesChanged ==
    ASSUME ProfileInv, NEW c \in ProfileCalls,
           \/ \E a \in Addresses : AddDefaultAddress(c, a) \/ UpdateDefaultAddress(c, a)
           \/ UnsetDefaultAddresses(c) \/ CreateAddress(c) \/ UpdateAddress(c)
           \/ CommitAddress(c)
    PROVE  ProfileInv'
<1> USE DEF Places
<1>1. PICK k : k = call[c]
  OBVIOUS
<1>2. k \in ProfileCall /\ Fresh(k) /\ RowsClean(k) /\ ProfileTypes
  BY <1>1 DEF ProfileInv
<1>3. ASSUME NEW a \in Addresses, NEW place \in {"unset new", "unset old"},
             NEW S \in SUBSET Addresses,
             Proceed(c, [Idle EXCEPT !.at = place, !.seen = S, !.target = a]),
             UNCHANGED <<rows, settings, complete, addresses, raced>>
      PROVE  ProfileInv'
  <2>1. PICK r : r = [Idle EXCEPT !.at = place, !.seen = S, !.target = a]
    OBVIOUS
  <2>2. Fresh(r) /\ r.at # "flag"
    BY IdleIsFresh, <2>1 DEF Fresh, ProfileCall, Changing
  <2> QED BY <1>2, <1>3, <2>1, <2>2, ProfileStepAlone DEF ProfileTypes, RowsClean
<1>4. Defaults \in SUBSET Addresses
  BY DEF Defaults
<1>5. ASSUME NEW a \in Addresses, AddDefaultAddress(c, a) \/ UpdateDefaultAddress(c, a)
      PROVE  ProfileInv'
  BY <1>3, <1>4, <1>5 DEF AddDefaultAddress, UpdateDefaultAddress
<1>6. CASE UnsetDefaultAddresses(c)
  <2>1. PICK place, S : /\ place = IF k.at = "unset new" THEN "create" ELSE "update"
                        /\ S = k.seen \cap Defaults
    OBVIOUS
  <2>2. PICK r : r = [k EXCEPT !.at = place, !.unset = S, !.seen = {}]
    OBVIOUS
  <2>3. k.at \in {"unset new", "unset old"} /\ Proceed(c, r)
    BY <1>1, <1>6, <2>1, <2>2 DEF UnsetDefaultAddresses
  <2>4. Fresh(r) /\ r.at # "flag"
    BY <1>2, <1>4, <2>1, <2>2, <2>3 DEF Fresh, ProfileCall, Changing
  <2> QED BY <1>2, <1>6, <2>3, <2>4, ProfileStepAlone
          DEF UnsetDefaultAddresses, ProfileTypes, RowsClean
<1>7. ASSUME Finish(c), UNCHANGED <<rows, settings, complete, addresses, raced>>
      PROVE  ProfileInv'
  BY <1>2, <1>7, IdleIsFresh, ProfileStepAlone DEF Finish, ProfileTypes, RowsClean
<1>8. ASSUME k.at \in {"create", "update"}, WriteDefault(c),
             UNCHANGED <<rows, settings, complete, addresses, raced>>
      PROVE  ProfileInv'
  <2>1. PICK r : r = [k EXCEPT !.at = "written"]
    OBVIOUS
  <2>2. Fresh(r) /\ r.at # "flag"
    BY <1>2, <1>8, <2>1 DEF Fresh, ProfileCall, Changing
  <2>3. CASE Proceed(c, r)
    BY <1>2, <1>8, <2>2, <2>3, ProfileStepAlone DEF ProfileTypes, RowsClean
  <2> QED BY <1>1, <1>7, <1>8, <2>1, <2>3 DEF WriteDefault
<1>9. CASE CreateAddress(c) \/ UpdateAddress(c)
  BY <1>1, <1>7, <1>8, <1>9 DEF CreateAddress, UpdateAddress
<1>10. CASE CommitAddress(c)
  <2>1. addresses' \in [Addresses -> {"none", "plain", "default"}]
    BY <1>2, <1>10 DEF CommitAddress, ProfileTypes
  <2> QED BY <1>2, <1>10, <2>1, IdleIsFresh, ProfileStepAlone
          DEF CommitAddress, Finish, ProfileTypes, RowsClean
<1> QED BY <1>5, <1>6, <1>9, <1>10

LEMMA InitProfileInv == ProfileInit => ProfileInv
<1> SUFFICES ASSUME ProfileInit PROVE ProfileInv
  OBVIOUS
<1>1. /\ rows = <<>> /\ settings = 0 /\ complete = FALSE /\ raced = FALSE
      /\ addresses = [a \in Addresses |-> "none"] /\ call = [c \in ProfileCalls |-> Idle]
  BY DEF ProfileInit
<1>2. ProfileTypes
  <2>1. rows \in Seq(SUBSET Fields) /\ settings \in Nat
    BY <1>1
  <2>2. complete \in BOOLEAN /\ raced \in BOOLEAN
    BY <1>1
  <2>3. addresses \in [Addresses -> {"none", "plain", "default"}]
    BY <1>1
  <2> QED BY <2>1, <2>2, <2>3 DEF ProfileTypes
<1>3. RowsClean(Idle)
  BY <1>1, IdleIsFresh DEF RowsClean
<1> QED BY <1>1, <1>2, <1>3, IdleIsFresh DEF ProfileInv, Fresh

LEMMA NextProfileInv == ProfileInv /\ [ProfileNext]_profileVars => ProfileInv'
<1> SUFFICES ASSUME ProfileInv, [ProfileNext]_profileVars PROVE ProfileInv'
  OBVIOUS
<1>1. ASSUME UNCHANGED <<rows, settings, complete, call, raced>>,
             addresses' \in [Addresses -> {"none", "plain", "default"}]
      PROVE  ProfileInv'
  BY <1>1 DEF ProfileInv, ProfileTypes, Fresh, RowsClean, KeyFieldsSet
<1>2. ASSUME NEW a \in Addresses, AddPlainAddress(a) \/ DeleteAddress(a) PROVE ProfileInv'
  BY <1>1, <1>2 DEF AddPlainAddress, DeleteAddress, ProfileInv, ProfileTypes
<1>3. CASE UNCHANGED profileVars
  BY <1>1, <1>3 DEF profileVars, ProfileInv, ProfileTypes
<1> QED BY <1>2, <1>3, ProfileEnsured, ProfileUpdated, AddressesChanged DEF ProfileNext, GetProfile

\* The committed rows, and what every request has read of them, in all states.
THEOREM ProfileAlways == ProfileSpec => []ProfileInv
BY InitProfileInv, NextProfileInv, PTL DEF ProfileSpec

\* However many requests come, there is one row of the profile and one of the settings,
\* and profile_complete is true only of names and a phone that are there, until two overlap.
THEOREM CleanUntilRaced == ProfileSpec => []CleanUnlessRaced
<1>1. ProfileInv => CleanUnlessRaced
  BY DEF ProfileInv, RowsClean, CleanUnlessRaced
<1> QED BY <1>1, ProfileAlways, PTL

\* A statement of UpdateAddress or CreateAddress may fail at any point, and several
\* requests may move the default at once: no commit leaves the customer without one.
THEOREM DefaultAlwaysStays == ProfileSpec => DefaultStays
<1>1. ProfileInv /\ [ProfileNext]_profileVars =>
        [\A a \in Addresses : addresses[a] = "default" =>
          \/ addresses'[a] = "none"
          \/ \E b \in Addresses : addresses'[b] = "default"]_profileVars
  <2> SUFFICES ASSUME ProfileInv, ProfileNext, NEW a \in Addresses, addresses[a] = "default"
               PROVE  \/ addresses'[a] = "none"
                      \/ \E b \in Addresses : addresses'[b] = "default"
    OBVIOUS
  <2>1. CASE UNCHANGED addresses
    BY <2>1
  <2>2. ASSUME NEW c \in ProfileCalls, CommitAddress(c) PROVE addresses'[call[c].target] = "default"
                                                       /\ call[c].target \in Addresses
    BY <2>2 DEF CommitAddress, ProfileInv, Fresh, Changing
  <2>3. ASSUME NEW d \in Addresses, AddPlainAddress(d) \/ DeleteAddress(d)
        PROVE  addresses'[a] \in {"none", "default"}
    BY <2>3 DEF AddPlainAddress, DeleteAddress, ProfileInv, ProfileTypes
  <2>4. ASSUME NEW c \in ProfileCalls, \/ GetProfile(c)
                                \/ \E profile, setting \in BOOLEAN :
                                      FetchInternal(c, profile, setting)
                                \/ EnsureSettings(c) \/ EnsureCommit(c)
        PROVE  UNCHANGED addresses
    BY <2>4 DEF GetProfile, FetchInternal, EnsureSettings, EnsureCommit
  <2>5. ASSUME NEW c \in ProfileCalls, \/ \E fields \in SUBSET Fields : UpdateProfileRead(c, fields)
                                \/ UpsertProfile(c) \/ InsertProfile(c)
                                \/ SetProfileComplete(c) \/ UpdateSettings(c)
        PROVE  UNCHANGED addresses
    BY <2>5 DEF UpdateProfileRead, UpsertProfile, InsertProfile, SetProfileComplete,
       UpdateSettings
  <2>6. ASSUME NEW c \in ProfileCalls, \/ \E b \in Addresses : AddDefaultAddress(c, b)
                                                        \/ UpdateDefaultAddress(c, b)
                                \/ UnsetDefaultAddresses(c) \/ CreateAddress(c)
                                \/ UpdateAddress(c)
        PROVE  UNCHANGED addresses
    BY <2>6 DEF AddDefaultAddress, UpdateDefaultAddress, UnsetDefaultAddresses,
       CreateAddress, UpdateAddress
  <2> QED BY <2>1, <2>2, <2>3, <2>4, <2>5, <2>6 DEF ProfileNext
<1> QED BY <1>1, ProfileAlways, PTL DEF ProfileSpec, DefaultStays

\* Being ready is lost by deleting the addresses, or when requests overlap: a write back
\* of what was read before keeps every field that is filled.
THEOREM SetBackOnlyWhenRaced == ProfileSpec => SetBackOnlyByRace
<1>1. ProfileInv /\ [ProfileNext]_profileVars =>
        [CustomerOnboarding = "ready_customer" =>
          \/ CustomerOnboarding' = "ready_customer"
          \/ raced'
          \/ \E a \in Addresses : addresses[a] # "none" /\ addresses'[a] = "none"]_profileVars
  <2> SUFFICES ASSUME ProfileInv, ProfileNext, CustomerOnboarding = "ready_customer", ~raced',
                      \A a \in Addresses : addresses[a] # "none" => addresses'[a] # "none"
               PROVE  CustomerOnboarding' = "ready_customer"
    OBVIOUS
  <2>1. /\ rows # <<>> /\ Fields \subseteq rows[1]
        /\ \E a \in Addresses : addresses[a] # "none"
    BY DEF CustomerOnboarding
  <2>2. \E a \in Addresses : addresses'[a] # "none"
    BY <2>1
  <2>3. SUFFICES rows' # <<>> /\ Fields \subseteq rows'[1]
    BY <2>2 DEF CustomerOnboarding
  <2>4. CASE UNCHANGED rows
    BY <2>1, <2>4
  <2>5. ASSUME NEW c \in ProfileCalls, EnsureCommit(c) PROVE UNCHANGED rows
    <3>1. ~call[c].newRow
      BY <2>1, <2>5 DEF EnsureCommit
    <3> QED BY <2>5, <3>1 DEF EnsureCommit
  <2>6. ASSUME NEW c \in ProfileCalls, InsertProfile(c) PROVE FALSE
    <3>1. call[c].at = "insert" /\ ~call[c].stale
      BY <2>6 DEF InsertProfile
    <3> QED BY <2>1, <3>1 DEF ProfileInv, Fresh
  <2>7. ASSUME NEW c \in ProfileCalls, UpsertProfile(c)
        PROVE  rows' # <<>> /\ Fields \subseteq rows'[1]
    <3>1. PICK k : k = call[c]
      OBVIOUS
    <3>2. /\ k.at = "upsert" /\ ~k.stale /\ rows' = [i \in DOMAIN rows |-> k.row]
      BY <2>1, <2>7, <3>1 DEF UpsertProfile
    <3>3. rows[1] \subseteq k.row
      BY <2>1, <3>1, <3>2 DEF ProfileInv, Fresh
    <3>4. 1 \in DOMAIN rows
      <4>1. rows \in Seq(SUBSET Fields)
        BY DEF ProfileInv, ProfileTypes
      <4>2. Len(rows) \in Nat \ {0} /\ DOMAIN rows = 1..Len(rows)
        BY <2>1, <4>1, EmptySeq, LenProperties
      <4> QED BY <4>2
    <3>5. rows'[1] = k.row /\ DOMAIN rows' # {}
      BY <3>2, <3>4
    <3>6. rows' # <<>>
      BY <3>5, EmptySeq
    <3> QED BY <2>1, <3>3, <3>5, <3>6
  <2>8. ASSUME NEW c \in ProfileCalls, \/ GetProfile(c)
                                \/ \E profile, setting \in BOOLEAN :
                                      FetchInternal(c, profile, setting)
                                \/ EnsureSettings(c)
                                \/ \E fields \in SUBSET Fields : UpdateProfileRead(c, fields)
                                \/ SetProfileComplete(c) \/ UpdateSettings(c)
        PROVE  UNCHANGED rows
    BY <2>8 DEF GetProfile, FetchInternal, EnsureSettings, UpdateProfileRead,
       SetProfileComplete, UpdateSettings
  <2>9. ASSUME NEW c \in ProfileCalls, \/ \E a \in Addresses : AddDefaultAddress(c, a)
                                                        \/ UpdateDefaultAddress(c, a)
                                \/ UnsetDefaultAddresses(c) \/ CreateAddress(c)
                                \/ UpdateAddress(c) \/ CommitAddress(c)
        PROVE  UNCHANGED rows
    BY <2>9 DEF AddDefaultAddress, UpdateDefaultAddress, UnsetDefaultAddresses,
       CreateAddress, UpdateAddress, CommitAddress
  <2>10. ASSUME NEW a \in Addresses, AddPlainAddress(a) \/ DeleteAddress(a)
         PROVE  UNCHANGED rows
    BY <2>10 DEF AddPlainAddress, DeleteAddress
  <2> QED BY <2>4, <2>5, <2>6, <2>7, <2>8, <2>9, <2>10 DEF ProfileNext
<1> QED BY <1>1, ProfileAlways, PTL DEF ProfileSpec, SetBackOnlyByRace

\* Rows, settings, addresses and requests keep their types.
THEOREM ProfileTypeCorrect == ProfileSpec => []ProfileTypeOK
<1>1. ProfileInv => ProfileTypeOK
  BY DEF ProfileInv, ProfileTypes, ProfileCall, ProfileTypeOK
<1> QED BY <1>1, ProfileAlways, PTL

-----------------------------------------------------------------------------
(***************************************************************************)
(* Artisans, for any calls, services and categories.  What is committed    *)
(* agrees (RowSound), and so does what a transaction holds back, counted   *)
(* beside the rates of its commit (CallSound).                             *)
(***************************************************************************)
ArtisanCall ==
    [at : WorkPlaces, todo : Seq(Services), pending : SUBSET Services, locks : SUBSET Services,
     snapshot : Nat, holds : BOOLEAN, write : Artisan,
     columns : SUBSET {"categories", "available"}]

\* Where a call that updates rates may be.
Rating == {"rates", "update rate", "insert rate", "count"}

\* What is committed agrees: there are rates exactly when the column says so, and only
\* for categories the artisan has had.
RowSound ==
    /\ artisan \in Artisan /\ rates \subseteq Services
    /\ eligible \in BOOLEAN /\ allowed \subseteq Categories
    /\ rates # {} => artisan.exists
    /\ artisan.count > 0 <=> rates # {}
    /\ artisan.count <= Cardinality(rates)
    /\ artisan.categories \subseteq allowed
    /\ \A s \in rates : CategoryOf[s] \in allowed

\* So does what a call in progress is going to commit: its snapshot counts a rate at
\* least, and none that will not be committed with it.
CallSound(k) ==
    /\ k \in ArtisanCall
    /\ k.at \in {"create", "created"} => k.write.exists /\ k.write.count = 0
    /\ k.at = "created" => ~artisan.exists
    /\ k.at \in {"update", "updated"} \cup Rating => artisan.exists
    /\ k.at \in Rating => k.write.categories \subseteq allowed
    /\ k.at \in Rating \ {"rates"} => k.todo # <<>> /\ CategoryOf[Head(k.todo)] \in allowed
    /\ \A s \in k.pending : CategoryOf[s] \in allowed
    /\ k.pending # {} => k.snapshot \in 1..Cardinality(rates \cup k.pending)

ArtisanInv ==
    /\ RowSound
    /\ work \in [ArtisanCalls -> ArtisanCall]
    /\ \A c \in ArtisanCalls : CallSound(work[c])
    /\ \A c, d \in ArtisanCalls : work[c].at = "created" /\ work[d].at = "created" => c = d

\* Services are finitely many, so that rates can be counted.
LEMMA ServicesCounted ==
    ASSUME NEW S \in SUBSET Services, NEW T \in SUBSET Services, S \subseteq T
    PROVE  /\ IsFiniteSet(S) /\ IsFiniteSet(T)
           /\ Cardinality(S) \in Nat /\ Cardinality(T) \in Nat
           /\ Cardinality(S) <= Cardinality(T)
           /\ Cardinality(S) = 0 <=> S = {}
<1>1. IsFiniteSet(S) /\ IsFiniteSet(T)
  BY ArtisansAssumption, FS_Subset
<1>2. Cardinality(S) \in Nat /\ Cardinality(T) \in Nat
  BY <1>1, FS_CardinalityType
<1> QED BY <1>1, <1>2, FS_Subset, FS_EmptySet

\* A call that has ended holds nothing.
LEMMA IdleIsSound == CallSound(NoWork)
<1>1. NoArtisan \in Artisan
  BY DEF NoArtisan, Artisan
<1>2. <<>> \in Seq(Services)
  OBVIOUS
<1> QED BY <1>1, <1>2 DEF CallSound, NoWork, ArtisanCall, WorkPlaces, Rating

\* A call that is sound stays so while the row stays, the rates and the categories grow.
LEMMA SoundStays ==
    ASSUME RowSound, RowSound', NEW k, CallSound(k),
           rates \subseteq rates', allowed \subseteq allowed',
           artisan.exists => artisan'.exists,
           k.at = "created" => ~artisan'.exists
    PROVE  CallSound(k)'
<1>1. k.pending # {} => k.snapshot \in 1..Cardinality(rates' \cup k.pending)
  <2>1. rates \cup k.pending \subseteq rates' \cup k.pending
    OBVIOUS
  <2>2. rates \cup k.pending \in SUBSET Services /\ rates' \cup k.pending \in SUBSET Services
    BY DEF CallSound, ArtisanCall, RowSound
  <2>3. /\ Cardinality(rates \cup k.pending) <= Cardinality(rates' \cup k.pending)
        /\ Cardinality(rates \cup k.pending) \in Nat
        /\ Cardinality(rates' \cup k.pending) \in Nat
    BY <2>1, <2>2, ServicesCounted
  <2> QED BY <2>3 DEF CallSound
<1> QED BY <1>1 DEF CallSound

\* What every step has to show: the rows it leaves are sound, and so is its own call.
LEMMA ArtisanStep ==
    ASSUME ArtisanInv, RowSound', NEW c \in ArtisanCalls, NEW r, Continue(c, r), CallSound(r)',
           rates \subseteq rates', allowed \subseteq allowed',
           artisan.exists => artisan'.exists,
           artisan'.exists => artisan.exists \/ work[c].at = "created",
           r.at = "created" => \A d \in ArtisanCalls \ {c} : work[d].at # "created"
    PROVE  ArtisanInv'
<1>1. /\ work' \in [ArtisanCalls -> ArtisanCall] /\ work'[c] = r
      /\ \A d \in ArtisanCalls \ {c} : work'[d] = work[d]
  BY DEF ArtisanInv, Continue, CallSound
<1>2. ASSUME NEW d \in ArtisanCalls \ {c} PROVE CallSound(work[d])'
  <2>1. PICK k : k = work[d]
    OBVIOUS
  <2>2. CallSound(k)
    BY <2>1 DEF ArtisanInv
  <2>3. k.at = "created" => ~artisan'.exists
    BY <2>1, <2>2 DEF ArtisanInv, CallSound
  <2>4. CallSound(k)'
    BY <2>2, <2>3, SoundStays DEF ArtisanInv
  <2> QED BY <1>1, <2>1, <2>4
<1>3. \A d \in ArtisanCalls : CallSound(work[d])'
  BY <1>1, <1>2
<1>4. \A d, e \in ArtisanCalls : work'[d].at = "created" /\ work'[e].at = "created" => d = e
  BY <1>1 DEF ArtisanInv
<1> QED BY <1>1, <1>3, <1>4 DEF ArtisanInv

\* A step that writes nothing but its own call.
LEMMA ArtisanStepAlone ==
    ASSUME ArtisanInv, NEW c \in ArtisanCalls, NEW r, Continue(c, r), CallSound(r),
           UNCHANGED <<artisan, rates, eligible, allowed>>,
           r.at = "created" => \A d \in ArtisanCalls \ {c} : work[d].at # "created"
    PROVE  ArtisanInv'
<1>1. RowSound'
  BY DEF ArtisanInv, RowSound
<1>2. CallSound(r)'
  BY DEF CallSound
<1> QED BY <1>1, <1>2, ArtisanStep

\* A step that ends its call.
LEMMA ArtisanReturn ==
    ASSUME ArtisanInv, NEW c \in ArtisanCalls, End(c),
           UNCHANGED <<artisan, rates, eligible, allowed>>
    PROVE  ArtisanInv'
<1>1. NoWork.at # "created"
  BY DEF NoWork
<1> QED BY <1>1, IdleIsSound, ArtisanStepAlone DEF End

\* The first steps of a call, and its check against the row.
LEMMA ArtisanBegins ==
    ASSUME ArtisanInv, NEW c \in ArtisanCalls,
           \/ \E categories \in SUBSET Categories :
                CreateProfile(c, categories) \/ UpdateProfile(c, categories)
           \/ \E status \in BOOLEAN : UpdateAvailability(c, status)
           \/ \E request \in Requests : UpdateArtisanRates(c, request)
    PROVE  ArtisanInv'
<1> USE DEF WorkPlaces, Artisan, Rating
<1>1. /\ NoWork \in ArtisanCall /\ NoWork.pending = {}
      /\ NoArtisan \in Artisan /\ NoArtisan.count = 0 /\ artisan \in Artisan
      /\ artisan.categories \subseteq allowed
  BY IdleIsSound DEF NoWork, CallSound, NoArtisan, ArtisanInv, RowSound
<1>2. ASSUME NEW categories \in SUBSET Categories, CreateProfile(c, categories)
      PROVE  ArtisanInv'
  <2>1. PICK w : w = [NoArtisan EXCEPT !.exists = TRUE, !.categories = categories]
    OBVIOUS
  <2>2. w \in Artisan /\ w.exists /\ w.count = 0
    BY <1>1, <2>1 DEF NoArtisan
  <2>3. PICK r : r = [NoWork EXCEPT !.at = IF artisan.exists THEN "overwrite" ELSE "create",
                                    !.write = w, !.columns = {"categories"}]
    OBVIOUS
  <2>4. CallSound(r) /\ r.at # "created"
    BY <1>1, <2>2, <2>3 DEF CallSound, ArtisanCall
  <2>5. Continue(c, r)
    BY <1>2, <2>1, <2>3 DEF CreateProfile
  <2> QED BY <1>2, <2>4, <2>5, ArtisanStepAlone DEF CreateProfile
<1>3. ASSUME NEW w \in Artisan, NEW name \in {"categories", "available"}, artisan.exists,
             Continue(c, [NoWork EXCEPT !.at = "update", !.write = w, !.columns = {name}]),
             UNCHANGED <<artisan, rates, eligible, allowed>>
      PROVE  ArtisanInv'
  <2>1. PICK r : r = [NoWork EXCEPT !.at = "update", !.write = w, !.columns = {name}]
    OBVIOUS
  <2>2. CallSound(r) /\ r.at # "created"
    BY <1>1, <1>3, <2>1 DEF CallSound, ArtisanCall
  <2> QED BY <1>3, <2>1, <2>2, ArtisanStepAlone
<1>4. ASSUME NEW categories \in SUBSET Categories, UpdateProfile(c, categories)
      PROVE  ArtisanInv'
  <2>1. [artisan EXCEPT !.categories = categories] \in Artisan
    BY <1>1
  <2> QED BY <1>3, <1>4, <2>1 DEF UpdateProfile
<1>5. ASSUME NEW status \in BOOLEAN, UpdateAvailability(c, status)
      PROVE  ArtisanInv'
  <2>1. [artisan EXCEPT !.available = status] \in Artisan
    BY <1>1
  <2> QED BY <1>3, <1>5, <2>1 DEF UpdateAvailability
<1>6. ASSUME NEW request \in Requests, UpdateArtisanRates(c, request)
      PROVE  ArtisanInv'
  <2>1. PICK r : r = [NoWork EXCEPT !.at = "rates", !.todo = request, !.write = artisan]
    OBVIOUS
  <2>2. request \in Seq(Services)
    BY ArtisansAssumption
  <2>3. CallSound(r) /\ r.at # "created"
    BY <1>1, <1>6, <2>1, <2>2 DEF CallSound, ArtisanCall, UpdateArtisanRates
  <2> QED BY <1>6, <2>1, <2>3, ArtisanStepAlone DEF UpdateArtisanRates
<1> QED BY <1>2, <1>4, <1>5, <1>6

\* The statements and commits that write the artisan's columns.
LEMMA ProfileCommits ==
    ASSUME ArtisanInv, NEW c \in ArtisanCalls,
           \/ InsertArtisan(c) \/ CommitArtisan(c) \/ OverwriteArtisan(c) \/ ReloadArtisan(c)
           \/ UpdateArtisan(c) \/ CommitUpdate(c)
    PROVE  ArtisanInv'
<1> USE DEF WorkPlaces, Rating
<1>1. PICK k : k = work[c]
  OBVIOUS
<1>2. k \in ArtisanCall /\ CallSound(k) /\ RowSound
  BY <1>1 DEF ArtisanInv
<1>3. CASE InsertArtisan(c)
  <2>1. CASE artisan.exists
    BY <1>3, <2>1, ArtisanReturn DEF InsertArtisan
  <2>2. CASE ~artisan.exists
    <3>1. PICK r : r = [k EXCEPT !.at = "created"]
      OBVIOUS
    <3>2. CallSound(r)
      BY <1>1, <1>2, <1>3, <2>2, <3>1 DEF CallSound, ArtisanCall, InsertArtisan
    <3> QED BY <1>1, <1>3, <2>2, <3>1, <3>2, ArtisanStepAlone DEF InsertArtisan, Others
  <2> QED BY <2>1, <2>2
<1>4. CASE CommitArtisan(c)
  <2>1. /\ k.at = "created" /\ artisan' = k.write /\ allowed' = allowed \cup k.write.categories
        /\ UNCHANGED <<rates, eligible>> /\ End(c)
    BY <1>1, <1>4 DEF CommitArtisan
  <2>2. /\ k.write \in Artisan /\ k.write.exists /\ k.write.count = 0 /\ ~artisan.exists
        /\ k.write.categories \subseteq Categories
    BY <1>2, <2>1 DEF CallSound, ArtisanCall, Artisan
  <2>3. rates = {} /\ Cardinality(rates) = 0
    BY <1>2, <2>2, FS_EmptySet DEF RowSound
  <2>4. RowSound'
    BY <1>2, <2>1, <2>2, <2>3 DEF RowSound
  <2>5. CallSound(NoWork)' /\ NoWork.at # "created"
    BY IdleIsSound DEF CallSound, NoWork
  <2> QED BY <1>1, <2>1, <2>2, <2>4, <2>5, ArtisanStep DEF End
<1>5. CASE OverwriteArtisan(c)
  <2>1. PICK r : r = [k EXCEPT !.at = "reload", !.holds = TRUE]
    OBVIOUS
  <2>2. CallSound(r) /\ r.at # "created"
    BY <1>2, <2>1 DEF CallSound, ArtisanCall
  <2> QED BY <1>1, <1>5, <2>1, <2>2, ArtisanStepAlone DEF OverwriteArtisan
<1>6. CASE ReloadArtisan(c)
  BY <1>6, ArtisanReturn DEF ReloadArtisan
<1>7. CASE UpdateArtisan(c)
  <2>1. PICK r : r = [k EXCEPT !.at = "updated", !.holds = TRUE]
    OBVIOUS
  <2>2. CallSound(r) /\ r.at # "created"
    BY <1>1, <1>2, <1>7, <2>1 DEF CallSound, ArtisanCall, UpdateArtisan
  <2> QED BY <1>1, <1>7, <2>1, <2>2, ArtisanStepAlone DEF UpdateArtisan
<1>8. CASE CommitUpdate(c)
  <2>1. PICK categories, available :
           /\ categories = IF "categories" \in k.columns THEN k.write["categories"]
                                                         ELSE artisan.categories
           /\ available = IF "available" \in k.columns THEN k.write["available"]
                                                       ELSE artisan.available
    OBVIOUS
  <2>2. /\ k.at = "updated" /\ allowed' = allowed \cup artisan'.categories
        /\ artisan' = [exists |-> TRUE, count |-> artisan.count,
                       categories |-> categories, available |-> available]
        /\ UNCHANGED <<rates, eligible>> /\ End(c)
    BY <1>1, <1>8, <2>1 DEF CommitUpdate
  <2>3. /\ artisan \in Artisan /\ artisan.exists /\ k.write \in Artisan
    BY <1>2, <2>2 DEF CallSound, ArtisanCall, RowSound
  <2>4. categories \in SUBSET Categories /\ available \in BOOLEAN
    BY <2>1, <2>3 DEF Artisan
  <2>5. artisan' \in Artisan /\ artisan'.exists /\ artisan'.count = artisan.count
    BY <2>2, <2>3, <2>4 DEF Artisan
  <2>6. RowSound'
    BY <1>2, <2>2, <2>3, <2>4, <2>5 DEF RowSound
  <2>7. CallSound(NoWork)' /\ NoWork.at # "created"
    BY IdleIsSound DEF CallSound, NoWork
  <2> QED BY <2>2, <2>3, <2>5, <2>6, <2>7, ArtisanStep DEF End
<1> QED BY <1>3, <1>4, <1>5, <1>6, <1>7, <1>8

\* UpdateArtisanRates: the rates, the trigger that counts them, the commit.
LEMMA RatesAdvance ==
    ASSUME ArtisanInv, NEW c \in ArtisanCalls,
           \/ CheckService(c) \/ UpdateRate(c) \/ InsertRate(c) \/ SetRatesCount(c)
           \/ CommitRates(c)
    PROVE  ArtisanInv'
<1> USE DEF WorkPlaces, Rating
<1>1. PICK k, s : k = work[c] /\ s = Head(k.todo)
  OBVIOUS
<1>2. k \in ArtisanCall /\ CallSound(k) /\ RowSound
  BY <1>1 DEF ArtisanInv
<1>3. k.todo # <<>> => s \in Services /\ Tail(k.todo) \in Seq(Services)
  <2>1. k.todo \in Seq(Services)
    BY <1>2 DEF ArtisanCall
  <2> QED BY <1>1, <2>1, HeadTailProperties
<1>4. CASE CheckService(c)
  <2>1. CASE CategoryOf[s] \notin k.write.categories
    BY <1>1, <1>4, <2>1, ArtisanReturn DEF CheckService
  <2>2. CASE CategoryOf[s] \in k.write.categories
    <3>1. PICK place : place = IF s \in rates \cup k.pending
                               THEN "update rate" ELSE "insert rate"
      OBVIOUS
    <3>2. PICK r : r = [k EXCEPT !.at = place]
      OBVIOUS
    <3>3. k.at = "rates" /\ k.todo # <<>> /\ Continue(c, r)
      BY <1>1, <1>4, <2>2, <3>1, <3>2 DEF CheckService
    <3>4. CallSound(r) /\ r.at # "created"
      BY <1>1, <1>2, <2>2, <3>1, <3>2, <3>3 DEF CallSound, ArtisanCall
    <3> QED BY <1>4, <3>3, <3>4, ArtisanStepAlone DEF CheckService
  <2> QED BY <2>1, <2>2
<1>5. CASE UpdateRate(c)
  <2>1. PICK r : r = [k EXCEPT !.at = "rates", !.todo = Tail(k.todo),
                               !.locks = k.locks \cup {s}]
    OBVIOUS
  <2>2. k.at = "update rate" /\ Continue(c, r)
    BY <1>1, <1>5, <2>1 DEF UpdateRate
  <2>3. CallSound(r) /\ r.at # "created"
    BY <1>2, <1>3, <2>1, <2>2 DEF CallSound, ArtisanCall
  <2> QED BY <1>5, <2>2, <2>3, ArtisanStepAlone DEF UpdateRate
<1>6. CASE InsertRate(c)
  <2>1. CASE s \in rates
    BY <1>1, <1>6, <2>1, ArtisanReturn DEF InsertRate
  <2>2. CASE s \notin rates
    <3>1. PICK n : n = Cardinality(rates \cup k.pending \cup {s})
      OBVIOUS
    <3>2. PICK r : r = [k EXCEPT !.at = "count", !.pending = k.pending \cup {s},
                                 !.snapshot = n]
      OBVIOUS
    <3>3. k.at = "insert rate" /\ Continue(c, r)
      BY <1>1, <1>6, <2>2, <3>1, <3>2 DEF InsertRate
    <3>4. s \in Services /\ CategoryOf[s] \in allowed
      BY <1>1, <1>2, <1>3, <3>3 DEF CallSound
    <3>5. rates \cup k.pending \cup {s} \in SUBSET Services
      BY <1>2, <3>4 DEF RowSound, ArtisanCall
    <3>6. n \in Nat /\ n # 0
      BY <3>1, <3>5, ServicesCounted
    <3>7. rates \cup r.pending = rates \cup k.pending \cup {s}
      BY <1>2, <3>2 DEF ArtisanCall
    <3>8. n \in 1..Cardinality(rates \cup r.pending)
      BY <3>1, <3>6, <3>7
    <3>9. CallSound(r) /\ r.at # "created"
      BY <1>2, <3>2, <3>3, <3>4, <3>6, <3>8 DEF CallSound, ArtisanCall
    <3> QED BY <1>6, <3>3, <3>9, ArtisanStepAlone DEF InsertRate
  <2> QED BY <2>1, <2>2
<1>7. CASE SetRatesCount(c)
  <2>1. PICK r : r = [k EXCEPT !.at = "rates", !.todo = Tail(k.todo), !.holds = TRUE]
    OBVIOUS
  <2>2. k.at = "count" /\ Continue(c, r)
    BY <1>1, <1>7, <2>1 DEF SetRatesCount
  <2>3. CallSound(r) /\ r.at # "created"
    BY <1>2, <1>3, <2>1, <2>2 DEF CallSound, ArtisanCall
  <2> QED BY <1>7, <2>2, <2>3, ArtisanStepAlone DEF SetRatesCount
<1>8. CASE CommitRates(c)
  <2>1. PICK n : n = IF k.pending = {} THEN artisan.count ELSE k.snapshot
    OBVIOUS
  <2>2. /\ k.at = "rates" /\ rates' = rates \cup k.pending
        /\ artisan' = [artisan EXCEPT !.count = n]
        /\ UNCHANGED <<eligible, allowed>> /\ End(c)
    BY <1>1, <1>8, <2>1 DEF CommitRates
  <2>3. /\ artisan \in Artisan /\ artisan.exists /\ k.pending \subseteq Services
    BY <1>2, <2>2 DEF CallSound, ArtisanCall, RowSound
  <2>4. rates \subseteq Services /\ rates' \subseteq Services
    BY <1>2, <2>2, <2>3 DEF RowSound
  <2>5. Cardinality(rates) \in Nat /\ Cardinality(rates') \in Nat
    BY <2>2, <2>4, ServicesCounted
  <2>6. n \in Nat /\ (n > 0 <=> rates' # {}) /\ n <= Cardinality(rates')
    <3>1. CASE k.pending = {}
      <4>1. n = artisan.count /\ rates' = rates
        BY <2>1, <2>2, <3>1
      <4> QED BY <1>2, <2>3, <4>1 DEF RowSound, Artisan
    <3>2. CASE k.pending # {}
      BY <1>2, <2>1, <2>2, <2>5, <3>2 DEF CallSound
    <3> QED BY <3>1, <3>2
  <2>7. /\ artisan' \in Artisan /\ artisan'.exists /\ artisan'.count = n
        /\ artisan'.categories = artisan.categories
    BY <2>2, <2>3, <2>6 DEF Artisan
  <2>8. \A t \in rates' : CategoryOf[t] \in allowed
    BY <1>2, <2>2 DEF CallSound, RowSound
  <2>9. RowSound'
    BY <1>2, <2>2, <2>4, <2>6, <2>7, <2>8 DEF RowSound
  <2>10. CallSound(NoWork)' /\ NoWork.at # "created"
    BY IdleIsSound DEF CallSound, NoWork
  <2> QED BY <2>2, <2>3, <2>7, <2>9, <2>10, ArtisanStep DEF End
<1> QED BY <1>4, <1>5, <1>6, <1>7, <1>8

LEMMA InitArtisanInv == ArtisanInit => ArtisanInv
<1> SUFFICES ASSUME ArtisanInit PROVE ArtisanInv
  OBVIOUS
<1>1. /\ artisan = NoArtisan /\ rates = {} /\ eligible = FALSE /\ allowed = {}
      /\ work = [c \in ArtisanCalls |-> NoWork]
  BY DEF ArtisanInit
<1>2. RowSound
  <2>1. /\ NoArtisan \in Artisan /\ NoArtisan.count = 0 /\ NoArtisan.categories = {}
    BY DEF NoArtisan, Artisan
  <2>2. Cardinality(rates) = 0
    BY <1>1, FS_EmptySet
  <2>3. eligible \in BOOLEAN /\ rates \subseteq Services /\ allowed \subseteq Categories
    BY <1>1
  <2>4. ~(artisan.count > 0) /\ artisan.count <= Cardinality(rates)
    BY <1>1, <2>1, <2>2
  <2> QED BY <1>1, <2>1, <2>3, <2>4 DEF RowSound
<1>3. NoWork \in ArtisanCall /\ NoWork.at # "created"
  BY IdleIsSound DEF CallSound, NoWork
<1> QED BY <1>1, <1>2, <1>3, IdleIsSound DEF ArtisanInv

LEMMA NextArtisanInv == ArtisanInv /\ [ArtisanNext]_artisanVars => ArtisanInv'
<1> SUFFICES ASSUME ArtisanInv, [ArtisanNext]_artisanVars PROVE ArtisanInv'
  OBVIOUS
<1>1. ASSUME UNCHANGED <<artisan, rates, work, allowed>>, eligible' \in BOOLEAN
      PROVE  ArtisanInv'
  BY <1>1 DEF ArtisanInv, RowSound, CallSound
<1>2. CASE EligibilityChanges
  BY <1>1, <1>2 DEF EligibilityChanges
<1>3. CASE UNCHANGED artisanVars
  BY <1>1, <1>3 DEF artisanVars, ArtisanInv, RowSound
<1>4. ASSUME NEW c \in ArtisanCalls, Abort(c) PROVE ArtisanInv'
  BY <1>4, ArtisanReturn DEF Abort
<1> QED BY <1>2, <1>3, <1>4, ArtisanBegins, ProfileCommits, RatesAdvance DEF ArtisanNext

\* The committed row, and what every transaction is going to commit, in all states.
THEOREM ArtisanAlways == ArtisanSpec => []ArtisanInv
BY InitArtisanInv, NextArtisanInv, PTL DEF ArtisanSpec

\* Transactions count in old snapshots and overwrite each other's counts; still search
\* lists an artisan, and onboarding lets it pass, exactly when it has a rate and is
\* available, because a count of zero is never written beside a rate.
THEOREM CountAlwaysTells == ArtisanSpec => []CountTellsIfRated
<1>1. ArtisanInv => CountTellsIfRated
  <2> SUFFICES ASSUME RowSound PROVE CountTellsIfRated
    BY DEF ArtisanInv
  <2>1. artisan.count \in Nat /\ artisan.exists \in BOOLEAN /\ artisan.available \in BOOLEAN
    BY DEF RowSound, Artisan
  <2>2. Discoverable <=> artisan.available /\ rates # {}
    BY DEF RowSound, Discoverable
  <2>3. ArtisanOnboarding = "ready_artisan" <=> eligible /\ artisan.available /\ rates # {}
    <3>1. artisan.count >= 1 <=> rates # {}
      BY <2>1 DEF RowSound
    <3>2. eligible \in BOOLEAN /\ (rates # {} => artisan.exists)
      BY DEF RowSound
    <3>3. CASE ~eligible
      BY <3>3 DEF ArtisanOnboarding
    <3>4. CASE eligible /\ ~artisan.exists
      BY <3>2, <3>4 DEF ArtisanOnboarding
    <3>5. CASE eligible /\ artisan.exists /\ artisan.count < 1
      BY <2>1, <3>1, <3>5 DEF ArtisanOnboarding
    <3>6. CASE eligible /\ artisan.exists /\ artisan.count >= 1
      <4>1. ArtisanOnboarding = IF artisan.available THEN "ready_artisan"
                                                     ELSE "needs_availability_on"
        BY <2>1, <3>6 DEF ArtisanOnboarding
      <4> QED BY <3>1, <3>6, <4>1
    <3> QED BY <2>1, <3>2, <3>3, <3>4, <3>5, <3>6
  <2> QED BY <2>2, <2>3 DEF CountTellsIfRated, RowSound
<1> QED BY <1>1, ArtisanAlways, PTL

\* UpdateArtisanRates checks a category against what it read before its transaction, which
\* UpdateProfile may have changed: a rate is of a category the artisan has had.
THEOREM RatedOnlyWhereAllowed == ArtisanSpec => []RatedWhereAllowed
<1>1. ArtisanInv => RatedWhereAllowed
  BY DEF ArtisanInv, RowSound, RatedWhereAllowed
<1> QED BY <1>1, ArtisanAlways, PTL

\* The row, the rates and the calls keep their types.
THEOREM ArtisanTypes == ArtisanSpec => []ArtisanTypeOK
<1>1. ArtisanInv => ArtisanTypeOK
  BY DEF ArtisanInv, RowSound, ArtisanTypeOK, ArtisanCall
<1> QED BY <1>1, ArtisanAlways, PTL
=============================================================================
