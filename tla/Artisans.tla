------------------------------- MODULE Artisans -------------------------------
(***************************************************************************)
(* The artisan of one user: its row of artisans, the rates it offers and   *)
(* the column rates_count that a trigger on artisan_rates keeps, from      *)
(* which search and onboarding tell whether there are any.                 *)
(*                                                                         *)
(* Requests run in transactions at READ COMMITTED.  Each statement sees    *)
(* what was committed when it began, and what its own transaction wrote;   *)
(* an UPDATE waits for the row's lock, an INSERT for another transaction   *)
(* that has inserted the same key.  One that has waited for a row sees the *)
(* row's new version, yet its subqueries still see the old snapshot.       *)
(*                                                                         *)
(* Categories and availability are the columns other code asks about; the  *)
(* amounts of a rate do not matter.                                        *)
(***************************************************************************)
EXTENDS Naturals, FiniteSets, Sequences

CONSTANTS
    ArtisanCalls,   \* requests in progress at a time
    Categories,
    Services,
    CategoryOf,     \* the category of each service
    Requests,       \* the lists of services UpdateArtisanRates is called with
    MayAbort        \* whether a transaction may be aborted by the database

ASSUME ArtisansAssumption ==
    /\ IsFiniteSet(Services)
    /\ CategoryOf \in [Services -> Categories]
    /\ Requests \subseteq Seq(Services)
    /\ MayAbort \in BOOLEAN

VARIABLES
    artisan,        \* the committed row
    rates,          \* the services with a committed rate
    eligible,       \* the user has the role and a filled basic profile
    work,           \* each call: where it is, what it has read and written
    allowed         \* categories the artisan has had

artisanVars == <<artisan, rates, eligible, work, allowed>>

NoArtisan == [exists |-> FALSE, categories |-> {}, available |-> FALSE, count |-> 0]
NoWork == [at |-> "idle", todo |-> <<>>, pending |-> {}, locks |-> {},
           snapshot |-> 0, holds |-> FALSE, write |-> NoArtisan, columns |-> {}]

ArtisanInit ==
    /\ artisan = NoArtisan
    /\ rates = {}
    /\ eligible = FALSE
    /\ work = [c \in ArtisanCalls |-> NoWork]
    /\ allowed = {}

Continue(c, r) == work' = [work EXCEPT ![c] = r]
End(c) == Continue(c, NoWork)
Others(c) == ArtisanCalls \ {c}

\* No other transaction holds the artisan's row, or that of the rate s.
RowFree(c) == \A d \in Others(c) : ~work[d].holds
RateFree(c, s) == \A d \in Others(c) : s \notin work[d].locks \cup work[d].pending

\* Roles and profiles belong to other services.
EligibilityChanges ==
    /\ eligible' = ~eligible
    /\ UNCHANGED <<artisan, rates, work, allowed>>

(***************************************************************************)
(* Profile.                                                                *)
(***************************************************************************)

\* The user is verified, then the row looked up under the user's id.
CreateProfile(c, categories) ==
    /\ work[c].at = "idle" /\ eligible
    /\ Continue(c, [NoWork EXCEPT !.at = IF artisan.exists THEN "overwrite" ELSE "create",
                                  !.write = [NoArtisan EXCEPT !.exists = TRUE,
                                                              !.categories = categories],
                                  !.columns = {"categories"}])
    /\ UNCHANGED <<artisan, rates, eligible, allowed>>

\* artisans.user_id is unique.  With the row goes its verification.
InsertArtisan(c) ==
    /\ work[c].at = "create"
    /\ \A d \in Others(c) : work[d].at # "created"
    /\ IF artisan.exists THEN End(c) ELSE Continue(c, [work[c] EXCEPT !.at = "created"])
    /\ UNCHANGED <<artisan, rates, eligible, allowed>>

CommitArtisan(c) ==
    /\ work[c].at = "created"
    /\ artisan' = work[c].write
    /\ allowed' = allowed \cup work[c].write.categories
    /\ End(c)
    /\ UNCHANGED <<rates, eligible>>

\* Of an existing profile the new values are written ...
OverwriteArtisan(c) ==
    /\ work[c].at = "overwrite"
    /\ RowFree(c)
    /\ Continue(c, [work[c] EXCEPT !.at = "reload", !.holds = TRUE])
    /\ UNCHANGED <<artisan, rates, eligible, allowed>>

\* ... and reloaded by GetByID, which looks for the artisan's id among the user ids:
\* it is not found, and the transaction is rolled back.
ReloadArtisan(c) ==
    /\ work[c].at = "reload"
    /\ End(c)
    /\ UNCHANGED <<artisan, rates, eligible, allowed>>

UpdateProfile(c, categories) ==
    /\ work[c].at = "idle" /\ eligible /\ artisan.exists
    /\ Continue(c, [NoWork EXCEPT !.at = "update",
                                  !.write = [artisan EXCEPT !.categories = categories],
                                  !.columns = {"categories"}])
    /\ UNCHANGED <<artisan, rates, eligible, allowed>>

\* Only the role is asked for; the profile may be of any state.
UpdateAvailability(c, status) ==
    /\ work[c].at = "idle" /\ artisan.exists
    /\ Continue(c, [NoWork EXCEPT !.at = "update",
                                  !.write = [artisan EXCEPT !.available = status],
                                  !.columns = {"available"}])
    /\ UNCHANGED <<artisan, rates, eligible, allowed>>

UpdateArtisan(c) ==
    /\ work[c].at = "update"
    /\ RowFree(c)
    /\ Continue(c, [work[c] EXCEPT !.at = "updated", !.holds = TRUE])
    /\ UNCHANGED <<artisan, rates, eligible, allowed>>

\* The columns of the request over the row as it is.
CommitUpdate(c) ==
    /\ work[c].at = "updated"
    /\ LET column(name, old) == IF name \in work[c].columns THEN work[c].write[name] ELSE old
       IN artisan' = [exists |-> TRUE, count |-> artisan.count,
                      categories |-> column("categories", artisan.categories),
                      available |-> column("available", artisan.available)]
    /\ allowed' = allowed \cup artisan'.categories
    /\ End(c)
    /\ UNCHANGED <<rates, eligible>>

(***************************************************************************)
(* Rates.  The artisan is read first, outside the transaction.             *)
(***************************************************************************)

UpdateArtisanRates(c, request) ==
    /\ work[c].at = "idle" /\ artisan.exists
    /\ Continue(c, [NoWork EXCEPT !.at = "rates", !.todo = request, !.write = artisan])
    /\ UNCHANGED <<artisan, rates, eligible, allowed>>

\* Mutant: the category is not checked.
CheckServiceUnchecked(c) ==
    /\ work[c].at = "rates" /\ work[c].todo # <<>>
    /\ LET s == Head(work[c].todo)
       IN Continue(c, [work[c] EXCEPT !.at = IF s \in rates \cup work[c].pending
                                             THEN "update rate" ELSE "insert rate"])
    /\ UNCHANGED <<artisan, rates, eligible, allowed>>

\* The service must be in a category the artisan had; then its rate is looked up.
CheckService(c) ==
    /\ work[c].at = "rates" /\ work[c].todo # <<>>
    /\ LET s == Head(work[c].todo)
       IN IF CategoryOf[s] \notin work[c].write.categories THEN End(c)
          ELSE Continue(c, [work[c] EXCEPT !.at = IF s \in rates \cup work[c].pending
                                                  THEN "update rate" ELSE "insert rate"])
    /\ UNCHANGED <<artisan, rates, eligible, allowed>>

UpdateRate(c) ==
    /\ work[c].at = "update rate"
    /\ LET s == Head(work[c].todo)
       IN /\ RateFree(c, s)
          /\ Continue(c, [work[c] EXCEPT !.at = "rates", !.todo = Tail(@),
                                         !.locks = @ \cup {s}])
    /\ UNCHANGED <<artisan, rates, eligible, allowed>>

\* Mutant: the trigger runs before the row is inserted.
InsertRateCountsBefore(c) ==
    /\ work[c].at = "insert rate"
    /\ LET s == Head(work[c].todo)
       IN /\ RateFree(c, s)
          /\ IF s \in rates THEN End(c)
             ELSE Continue(c, [work[c] EXCEPT
                     !.at = "count", !.pending = @ \cup {s},
                     !.snapshot = Cardinality(rates \cup work[c].pending)])
    /\ UNCHANGED <<artisan, rates, eligible, allowed>>

\* UNIQUE(artisan_id, service_id): a rate committed since the lookup is an error.  After
\* the insert the trigger's UPDATE takes its snapshot and counts.
InsertRate(c) ==
    /\ work[c].at = "insert rate"
    /\ LET s == Head(work[c].todo)
       IN /\ RateFree(c, s)
          /\ IF s \in rates THEN End(c)
             ELSE Continue(c, [work[c] EXCEPT
                     !.at = "count", !.pending = @ \cup {s},
                     !.snapshot = Cardinality(rates \cup work[c].pending \cup {s})])
    /\ UNCHANGED <<artisan, rates, eligible, allowed>>

\* It may have to wait for the artisan's row, but does not count again.
SetRatesCount(c) ==
    /\ work[c].at = "count"
    /\ RowFree(c)
    /\ Continue(c, [work[c] EXCEPT !.at = "rates", !.todo = Tail(@), !.holds = TRUE])
    /\ UNCHANGED <<artisan, rates, eligible, allowed>>

CommitRates(c) ==
    /\ work[c].at = "rates" /\ work[c].todo = <<>>
    /\ rates' = rates \cup work[c].pending
    /\ artisan' = [artisan EXCEPT !.count = IF work[c].pending = {} THEN @
                                            ELSE work[c].snapshot]
    /\ End(c)
    /\ UNCHANGED <<eligible, allowed>>

\* A deadlock, a lost connection or a cancelled request: the transaction is rolled back.
Abort(c) ==
    /\ MayAbort /\ work[c].at # "idle"
    /\ End(c)
    /\ UNCHANGED <<artisan, rates, eligible, allowed>>

ArtisanNext ==
    \/ EligibilityChanges
    \/ \E c \in ArtisanCalls :
          \/ \E categories \in SUBSET Categories :
                CreateProfile(c, categories) \/ UpdateProfile(c, categories)
          \/ InsertArtisan(c) \/ CommitArtisan(c)
          \/ OverwriteArtisan(c) \/ ReloadArtisan(c)
          \/ \E status \in BOOLEAN : UpdateAvailability(c, status)
          \/ UpdateArtisan(c) \/ CommitUpdate(c)
          \/ \E request \in Requests : UpdateArtisanRates(c, request)
          \/ CheckService(c) \/ UpdateRate(c) \/ InsertRate(c) \/ SetRatesCount(c)
          \/ CommitRates(c)
          \/ Abort(c)

ArtisanSpec == ArtisanInit /\ [][ArtisanNext]_artisanVars

(***************************************************************************)
(* What other code makes of the row.                                       *)
(***************************************************************************)

\* Search lists the artisans that are available and have a rate.
Discoverable == artisan.exists /\ artisan.available /\ artisan.count > 0

\* computeOnboardingState for a user whose active role is artisan.
ArtisanOnboarding ==
    CASE ~eligible -> "needs_basic_profile"
      [] eligible /\ ~artisan.exists -> "needs_artisan_profile"
      [] eligible /\ artisan.exists /\ artisan.count < 1 -> "needs_rates"
      [] eligible /\ artisan.exists /\ artisan.count >= 1 ->
            IF artisan.available THEN "ready_artisan" ELSE "needs_availability_on"

(***************************************************************************)
(* Properties.                                                             *)
(***************************************************************************)

WorkPlaces == {"idle", "create", "created", "overwrite", "reload", "update", "updated",
               "rates", "update rate", "insert rate", "count"}
Artisan == [exists : BOOLEAN, categories : SUBSET Categories, available : BOOLEAN,
            count : Nat]

ArtisanTypeOK ==
    /\ artisan \in Artisan
    /\ rates \subseteq Services
    /\ eligible \in BOOLEAN
    /\ work \in [ArtisanCalls -> [at : WorkPlaces, todo : Seq(Services),
                                  pending : SUBSET Services, locks : SUBSET Services,
                                  snapshot : Nat, holds : BOOLEAN, write : Artisan,
                                  columns : SUBSET {"categories", "available"}]]
    /\ allowed \subseteq Categories

\* Calls that overlap may leave rates_count below the number of rates, yet whether there
\* is one can always be told from it: search lists an artisan, and onboarding lets it
\* pass, exactly when it has a rate and is available.
CountTellsIfRated ==
    /\ Discoverable <=> artisan.available /\ rates # {}
    /\ ArtisanOnboarding = "ready_artisan" <=> eligible /\ artisan.available /\ rates # {}
    /\ artisan.count <= Cardinality(rates)

\* Rates exist only for categories the artisan has had at some time, although the
\* categories are read before the transaction and may be taken away while it runs.
RatedWhereAllowed == \A s \in rates : CategoryOf[s] \in allowed
=============================================================================
