------------------------------- MODULE Profiles -------------------------------
(***************************************************************************)
(* What one customer keeps in the user and customers services: the rows of *)
(* user_profiles and user_settings, the flag users.profile_complete, and   *)
(* the addresses with the default one among them.  Two requests of the     *)
(* customer run in database transactions at READ COMMITTED: a statement    *)
(* sees what is committed, an UPDATE waits for the row locks of the other  *)
(* transaction, and what a transaction inserts is seen when it commits.    *)
(*                                                                         *)
(* user_profiles and user_settings have no unique index on user_id, so     *)
(* there may be several rows.  A profile row is the set of its filled      *)
(* fields; the values of settings and the text of addresses do not matter. *)
(***************************************************************************)
EXTENDS Naturals, FiniteSets, Sequences

CONSTANTS
    ProfileCalls,   \* requests in progress at a time
    Fields,         \* the fields of a profile, all of them asked for by onboarding
    KeyFields,      \* those that UpdateProfile asks for: the names and the phone, no avatar
    Addresses       \* ids of addresses

ASSUME ProfilesAssumption == IsFiniteSet(Fields) /\ KeyFields \subseteq Fields

VARIABLES
    rows,           \* committed rows of user_profiles, in the order of their ids
    settings,       \* how many committed rows user_settings has
    complete,       \* users.profile_complete
    addresses,      \* "none", "plain" or "default" for each id
    call,           \* each call: where it is and what it has read and written
    raced           \* a call has acted on rows that another had changed meanwhile

profileVars == <<rows, settings, complete, addresses, call, raced>>

NoAddress == "no address"
Idle == [at |-> "idle", row |-> {}, newRow |-> FALSE, newSettings |-> FALSE,
         stale |-> FALSE, seen |-> {}, unset |-> {}, target |-> NoAddress]

ProfileInit ==
    /\ rows = <<>>
    /\ settings = 0
    /\ complete = FALSE
    /\ addresses = [a \in Addresses |-> "none"]
    /\ call = [c \in ProfileCalls |-> Idle]
    /\ raced = FALSE

Proceed(c, r) == call' = [call EXCEPT ![c] = r]
Finish(c) == Proceed(c, Idle)

\* Call c goes on as r, and what the others have read of user_profiles is out of date.
ProceedAndOutdate(c, r) ==
    call' = [d \in ProfileCalls |->
               IF d = c THEN r
               ELSE [call[d] EXCEPT !.stale = call[d].at \in {"upsert", "insert"}]]

\* Ids are random, so a new row comes anywhere among those the user has.
Inserted(row) ==
    {SubSeq(rows, 1, i) \o <<row>> \o SubSeq(rows, i + 1, Len(rows)) : i \in 0..Len(rows)}

(***************************************************************************)
(* Get or create.                                                          *)
(***************************************************************************)

\* In a transaction, since something is to be ensured; without that it only reads.  The
\* profile is looked up first, and an empty one inserted.
FetchInternal(c, ensureProfile, ensureSettings) ==
    /\ call[c].at = "idle"
    /\ ensureProfile \/ ensureSettings
    /\ Proceed(c, [Idle EXCEPT !.at = IF ensureSettings THEN "settings" ELSE "ensured",
                               !.newRow = (ensureProfile /\ rows = <<>>)])
    /\ UNCHANGED <<rows, settings, complete, addresses, raced>>

\* getOrCreateUserProfileSettingsTx does the same for both.
GetProfile(c) == FetchInternal(c, TRUE, TRUE)

EnsureSettings(c) ==
    /\ call[c].at = "settings"
    /\ Proceed(c, [call[c] EXCEPT !.at = "ensured", !.newSettings = (settings = 0)])
    /\ UNCHANGED <<rows, settings, complete, addresses, raced>>

EnsureCommit(c) ==
    /\ call[c].at = "ensured"
    /\ IF call[c].newRow THEN rows' \in Inserted({}) /\ ProceedAndOutdate(c, Idle)
                         ELSE UNCHANGED rows /\ Finish(c)
    /\ settings' = IF call[c].newSettings THEN settings + 1 ELSE settings
    /\ raced' = (raced \/ (call[c].newRow /\ rows # <<>>)
                       \/ (call[c].newSettings /\ settings > 0))
    /\ UNCHANGED <<complete, addresses>>

(***************************************************************************)
(* UpdateProfile and UpdateSettings.                                       *)
(***************************************************************************)

\* Mutant: the fields the request leaves out are emptied.
UpdateProfileReadNothing(c, fields) ==
    /\ call[c].at = "idle"
    /\ Proceed(c, [Idle EXCEPT !.at = "upsert", !.row = fields])
    /\ UNCHANGED <<rows, settings, complete, addresses, raced>>

\* The first row, or an empty one, with the fields of the request.
UpdateProfileRead(c, fields) ==
    /\ call[c].at = "idle"
    /\ Proceed(c, [Idle EXCEPT !.at = "upsert",
                               !.row = fields \cup (IF rows = <<>> THEN {} ELSE rows[1])])
    /\ UNCHANGED <<rows, settings, complete, addresses, raced>>

\* After the transaction the flag is to be set if the row written has the key fields.
AfterUpdate(c) ==
    IF KeyFields \subseteq call[c].row THEN [Idle EXCEPT !.at = "flag"] ELSE Idle

\* Mutant: the upsert inserts without trying to update.
UpsertProfileInsertsAlways(c) ==
    /\ call[c].at = "upsert"
    /\ Proceed(c, [call[c] EXCEPT !.at = "insert"])
    /\ UNCHANGED <<rows, settings, complete, addresses, raced>>

\* Upsert: UPDATE every row of the user and commit; INSERT if there is none.
UpsertProfile(c) ==
    /\ call[c].at = "upsert"
    /\ IF rows # <<>>
       THEN /\ rows' = [i \in DOMAIN rows |-> call[c].row]
            /\ raced' = (raced \/ call[c].stale)
            /\ ProceedAndOutdate(c, AfterUpdate(c))
       ELSE /\ Proceed(c, [call[c] EXCEPT !.at = "insert"])
            /\ UNCHANGED <<rows, raced>>
    /\ UNCHANGED <<settings, complete, addresses>>

InsertProfile(c) ==
    /\ call[c].at = "insert"
    /\ rows' \in Inserted(call[c].row)
    /\ raced' = (raced \/ call[c].stale)
    /\ ProceedAndOutdate(c, AfterUpdate(c))
    /\ UNCHANGED <<settings, complete, addresses>>

\* One more statement, outside the transaction; an error is only logged.
SetProfileComplete(c) ==
    /\ call[c].at = "flag"
    /\ complete' \in {complete, TRUE}
    /\ Finish(c)
    /\ UNCHANGED <<rows, settings, addresses, raced>>

\* The defaults with the request's values over them; UPDATE, or INSERT and commit.
UpdateSettings(c) ==
    /\ \/ /\ call[c].at = "idle" /\ settings > 0
          /\ UNCHANGED <<settings, call, raced>>
       \/ /\ call[c].at = "idle" /\ settings = 0
          /\ Proceed(c, [Idle EXCEPT !.at = "insert settings"])
          /\ UNCHANGED <<settings, raced>>
       \/ /\ call[c].at = "insert settings"
          /\ settings' = settings + 1
          /\ raced' = (raced \/ settings > 0)
          /\ Finish(c)
    /\ UNCHANGED <<rows, complete, addresses>>

(***************************************************************************)
(* Addresses.                                                              *)
(***************************************************************************)

Defaults == {a \in Addresses : addresses[a] = "default"}

\* The rows a transaction has written and not committed.
Locked(c) ==
    call[c].unset \cup (IF call[c].at = "written" THEN {call[c].target} ELSE {})

Free(c, set) == \A d \in ProfileCalls \ {c} : Locked(d) \cap set = {}

AddPlainAddress(a) ==
    /\ addresses[a] = "none" /\ \A d \in ProfileCalls : call[d].target # a
    /\ addresses' = [addresses EXCEPT ![a] = "plain"]
    /\ UNCHANGED <<rows, settings, complete, call, raced>>

\* The snapshot of UnsetDefaultAddresses: the rows it will unset.
AddDefaultAddress(c, a) ==
    /\ call[c].at = "idle"
    /\ addresses[a] = "none" /\ \A d \in ProfileCalls : call[d].target # a
    /\ Proceed(c, [Idle EXCEPT !.at = "unset new", !.seen = Defaults, !.target = a])
    /\ UNCHANGED <<rows, settings, complete, addresses, raced>>

\* UpdateAddress finds the address first; it is the one it excludes.
UpdateDefaultAddress(c, a) ==
    /\ call[c].at = "idle" /\ addresses[a] # "none"
    /\ Proceed(c, [Idle EXCEPT !.at = "unset old", !.seen = Defaults \ {a}, !.target = a])
    /\ UNCHANGED <<rows, settings, complete, addresses, raced>>

\* Once the rows are free: those of them that still are default.
UnsetDefaultAddresses(c) ==
    /\ call[c].at \in {"unset new", "unset old"}
    /\ Free(c, call[c].seen)
    /\ Proceed(c, [call[c] EXCEPT
                     !.at = IF call[c].at = "unset new" THEN "create" ELSE "update",
                     !.unset = call[c].seen \cap Defaults, !.seen = {}])
    /\ UNCHANGED <<rows, settings, complete, addresses, raced>>

\* one_default_address_per_user: another transaction's default is waited for, and one
\* that is committed, and that c has not unset, is an error.
IndexFree(c) == \A d \in ProfileCalls \ {c} : Locked(d) = {}
Conflict(c) == Defaults \ (call[c].unset \cup {call[c].target}) # {}

\* The error rolls the transaction back.
WriteDefault(c) ==
    /\ IndexFree(c)
    /\ IF Conflict(c) THEN Finish(c) ELSE Proceed(c, [call[c] EXCEPT !.at = "written"])

CreateAddress(c) ==
    /\ call[c].at = "create"
    /\ WriteDefault(c)
    /\ UNCHANGED <<rows, settings, complete, addresses, raced>>

\* Mutant: an address that is gone by now is not noticed, and the rest is committed.
UpdateAddressUnchecked(c) ==
    /\ call[c].at = "update"
    /\ Free(c, {call[c].target})
    /\ IF addresses[call[c].target] = "none"
       THEN Proceed(c, [call[c] EXCEPT !.at = "written", !.target = NoAddress])
       ELSE WriteDefault(c)
    /\ UNCHANGED <<rows, settings, complete, addresses, raced>>

\* If the address is gone the reload fails, and all is rolled back.
UpdateAddress(c) ==
    /\ call[c].at = "update"
    /\ Free(c, {call[c].target})
    /\ IF addresses[call[c].target] = "none" THEN Finish(c) ELSE WriteDefault(c)
    /\ UNCHANGED <<rows, settings, complete, addresses, raced>>

CommitAddress(c) ==
    /\ call[c].at = "written"
    /\ addresses' = [a \in Addresses |->
                       CASE a = call[c].target -> "default"
                         [] a # call[c].target /\ a \in call[c].unset -> "plain"
                         [] OTHER -> addresses[a]]
    /\ Finish(c)
    /\ UNCHANGED <<rows, settings, complete, raced>>

DeleteAddress(a) ==
    /\ addresses[a] # "none"
    /\ \A d \in ProfileCalls : a \notin Locked(d)
    /\ addresses' = [addresses EXCEPT ![a] = "none"]
    /\ UNCHANGED <<rows, settings, complete, call, raced>>

ProfileNext ==
    \/ \E c \in ProfileCalls :
          \/ GetProfile(c)
          \/ \E profile, setting \in BOOLEAN : FetchInternal(c, profile, setting)
          \/ EnsureSettings(c) \/ EnsureCommit(c)
          \/ \E fields \in SUBSET Fields : UpdateProfileRead(c, fields)
          \/ UpsertProfile(c) \/ InsertProfile(c) \/ SetProfileComplete(c)
          \/ UpdateSettings(c)
          \/ \E a \in Addresses : AddDefaultAddress(c, a) \/ UpdateDefaultAddress(c, a)
          \/ UnsetDefaultAddresses(c) \/ CreateAddress(c) \/ UpdateAddress(c)
          \/ CommitAddress(c)
    \/ \E a \in Addresses : AddPlainAddress(a) \/ DeleteAddress(a)

ProfileSpec == ProfileInit /\ [][ProfileNext]_profileVars

(***************************************************************************)
(* Onboarding: what computeOnboardingState answers to a caller whose       *)
(* active role is customer, from the row that is first.                    *)
(***************************************************************************)

CustomerOnboarding ==
    CASE rows = <<>> \/ (rows # <<>> /\ Fields \ rows[1] # {}) -> "needs_basic_profile"
      [] rows # <<>> /\ Fields \subseteq rows[1] ->
            IF \A a \in Addresses : addresses[a] = "none" THEN "needs_address"
                                                          ELSE "ready_customer"

(***************************************************************************)
(* Properties.                                                             *)
(***************************************************************************)

Places == {"idle", "settings", "ensured", "upsert", "insert", "flag", "insert settings",
           "unset new", "unset old", "create", "update", "written"}

ProfileTypeOK ==
    /\ rows \in Seq(SUBSET Fields)
    /\ settings \in Nat
    /\ complete \in BOOLEAN
    /\ addresses \in [Addresses -> {"none", "plain", "default"}]
    /\ call \in [ProfileCalls -> [at : Places, row : SUBSET Fields, newRow : BOOLEAN,
                                  newSettings : BOOLEAN, stale : BOOLEAN,
                                  seen : SUBSET Addresses, unset : SUBSET Addresses,
                                  target : Addresses \cup {NoAddress}]]
    /\ raced \in BOOLEAN

KeyFieldsSet == rows # <<>> /\ KeyFields \subseteq rows[1]

\* As long as no two requests have overlapped in the profile or the settings, the user
\* has at most one row of each, and profile_complete, which is set later and by itself
\* and never cleared, is true only while the row has the names and the phone.  (The
\* avatar may be missing: such a customer is complete and still "needs_basic_profile".)
CleanUnlessRaced ==
    ~raced => /\ Len(rows) <= 1 /\ settings <= 1
              /\ complete => KeyFieldsSet

\* The default is given up for another default or deleted: no failure in the middle of
\* changing it leaves the customer without.
DefaultStays ==
    [][\A a \in Addresses : addresses[a] = "default" =>
          \/ addresses'[a] = "none"
          \/ \E b \in Addresses : addresses'[b] = "default"]_profileVars

\* A customer who is ready is set back in onboarding only by deleting addresses or by
\* requests that have overlapped.
SetBackOnlyByRace ==
    [][CustomerOnboarding = "ready_customer" =>
          \/ CustomerOnboarding' = "ready_customer"
          \/ raced'
          \/ \E a \in Addresses : addresses[a] # "none" /\ addresses'[a] = "none"]_profileVars
=============================================================================
