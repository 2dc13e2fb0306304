------------------------ MODULE CredentialTransaction ------------------------
(***************************************************************************)
(* SettingsStore::save with a credential store: the configuration on disk  *)
(* and the tokens in Secret Service change together or not at all.         *)
(*                                                                         *)
(* The whole save runs under the config lock, so no other save of this     *)
(* program interleaves; Secret Service may fail in any call, with or       *)
(* without having carried it out, and the process may die between any two. *)
(* The credentials one save changes are all different, so the order of its *)
(* list does not matter and the list is a set here.                        *)
(*                                                                         *)
(* A behaviour is one save, started from any configuration and any stored  *)
(* tokens: what an earlier save or its death left behind is among them.    *)
(***************************************************************************)
EXTENDS FiniteSets

CONSTANTS
    Features,      \* AI, voice, translation
    Optional,      \* those that may run without a credential: translation
    Providers,     \* Providers[f] is what the feature may be configured with
    Tokens,
    None           \* no credential, or an empty token field

ASSUME OptionalAssumption == Optional \subseteq Features
ASSUME ProvidersAssumption == \A f \in Features : Providers[f] # {}
ASSUME NoneAssumption == None \notin Tokens

Keys == UNION {{<<f, p>> : p \in Providers[f]} : f \in Features}
Choice(f) == [enabled : BOOLEAN, provider : Providers[f]]
Request(f) == [enabled : BOOLEAN, provider : Providers[f],
               token : Tokens \cup {None}, cleared : BOOLEAN]
Configs == {c \in [Features -> UNION {Choice(f) : f \in Features}] :
                \A f \in Features : c[f] \in Choice(f)}
\* The token field of a disabled feature is not looked at.
Requests == {r \in [Features -> UNION {Request(f) : f \in Features}] :
                \A f \in Features : /\ r[f] \in Request(f)
                                    /\ ~r[f].enabled => r[f].token = None}
Entries == [key : Keys, value : Tokens \cup {None}, previous : Tokens \cup {None}]

VARIABLES
    secrets,       \* what Secret Service holds
    disk,          \* config.ini
    request,       \* the settings being saved
    down,          \* the credentials whose lookup failed in this save
    pending,       \* the credential changes of this save; value None removes
    attempted,     \* the keys whose change has been tried and not undone
    phase,         \* where the save is
    restored,      \* every step of the rollback worked
    outcome,       \* what the last save reported
    before         \* the secrets and the configuration it started from

vars == <<secrets, disk, request, down, pending, attempted, phase, restored,
          outcome, before>>

Phases == {"idle", "applying", "rolling back", "ended"}
Outcomes == {"none", "saved", "refused", "needs repair", "crashed"}

Init ==
    /\ secrets \in [Keys -> Tokens \cup {None}]
    /\ disk \in Configs
    /\ request = [f \in Features |-> [enabled |-> FALSE, provider |-> disk[f].provider,
                                      token |-> None, cleared |-> FALSE]]
    /\ down = {}
    /\ pending = {}
    /\ attempted = {}
    /\ phase = "idle"
    /\ restored = TRUE
    /\ outcome = "none"
    /\ before = [secrets |-> secrets, disk |-> disk]

-----------------------------------------------------------------------------
(* The plan *)

\* The provider changes, and the token field may hold the old provider's token.
Switched(f, r) ==
    f \notin Optional /\ disk[f].enabled /\ disk[f].provider # r[f].provider

\* Mutant: the token field is filed although its credential is to be forgotten.
EnteredEvenIfCleared(f, r) == r[f].token

\* A clear request outranks the token field.
Entered(f, r) == IF r[f].cleared THEN None ELSE r[f].token

\* Mutant: whatever the field holds is filed.
FilesAsEntered(f, r) == Entered(f, r)

\* plan_credential: the token to file, unless it is the old provider's own.
Files(f, r) ==
    IF Switched(f, r) /\ secrets[<<f, disk[f].provider>>] = Entered(f, r)
    THEN None
    ELSE Entered(f, r)

\* Mutant: a provider may be enabled without a credential.
RefusesLookupOnly(f, r, d) ==
    /\ r[f].enabled
    /\ Entered(f, r) # None /\ Switched(f, r) /\ <<f, disk[f].provider>> \in d

\* plan_credential refuses: the old credential cannot be compared, or Secret
\* Service answers that the enabled provider has none.
Refuses(f, r, d) ==
    /\ r[f].enabled
    /\ \/ Entered(f, r) # None /\ Switched(f, r) /\ <<f, disk[f].provider>> \in d
       \/ /\ Files(f, r) = None /\ f \notin Optional /\ ~r[f].cleared
          /\ <<f, r[f].provider>> \notin d
          /\ secrets[<<f, r[f].provider>>] = None

Stores(r) ==
    {[key |-> <<f, r[f].provider>>, value |-> Files(f, r),
      previous |-> secrets[<<f, r[f].provider>>]] :
        f \in {g \in Features : r[g].enabled /\ Files(g, r) # None}}

\* plan_removal: what a disabled feature used, and what is to be forgotten.
Unwanted(r) ==
    {<<f, disk[f].provider>> : f \in {g \in Features : ~r[g].enabled /\ disk[g].enabled}}
    \cup {<<f, r[f].provider>> : f \in {g \in Features : r[g].cleared}}

\* The credentials the plan asks Secret Service about.
LookedUp(r) ==
    {<<f, disk[f].provider>> : f \in {g \in Features : r[g].enabled /\ Switched(g, r)}}
    \cup {<<f, r[f].provider>> : f \in {g \in Features : r[g].enabled}}
    \cup Unwanted(r)

\* Only what Secret Service showed to exist is removed.
Removals(r, d) ==
    {[key |-> k, value |-> None, previous |-> secrets[k]] :
        k \in {u \in Unwanted(r) \ d : secrets[u] # None}}

\* The plan and the lookups of what is about to change.
Plan(r, d) ==
    /\ request' = r
    /\ down' = d
    /\ before' = [secrets |-> secrets, disk |-> disk]
    /\ restored' = TRUE
    /\ attempted' = {}
    /\ IF \E f \in Features : Refuses(f, r, d) \/ \E e \in Stores(r) : e.key \in d
       THEN /\ outcome' = "refused"
            /\ pending' = {}
            /\ phase' = "ended"
       ELSE /\ outcome' = "none"
            /\ pending' = Stores(r) \cup Removals(r, d)
            /\ phase' = "applying"
    /\ UNCHANGED <<secrets, disk>>

-----------------------------------------------------------------------------
(* The credentials, the file, the rollback *)

Keep == UNCHANGED <<disk, request, down, pending, before>>

\* One store or erase.  A call that fails may have been carried out all the same.
Apply(e) ==
    /\ phase = "applying"
    /\ e.key \notin attempted
    /\ attempted' = attempted \cup {e.key}
    /\ \/ /\ secrets' = [secrets EXCEPT ![e.key] = e.value]
          /\ UNCHANGED phase
       \/ /\ secrets' \in {secrets, [secrets EXCEPT ![e.key] = e.value]}
          /\ phase' = "rolling back"
    /\ UNCHANGED <<restored, outcome>>
    /\ Keep

\* save_unlocked replaces config.ini, or fails before its rename.
SaveFile ==
    /\ phase = "applying"
    /\ \A e \in pending : e.key \in attempted
    /\ \/ /\ disk' = [f \in Features |-> [enabled |-> request[f].enabled,
                                          provider |-> request[f].provider]]
          /\ phase' = "ended"
          /\ outcome' = "saved"
       \/ /\ phase' = "rolling back"
          /\ UNCHANGED <<disk, outcome>>
    /\ UNCHANGED <<secrets, request, down, pending, attempted, restored, before>>

\* Mutant: only what was there before is put back.
RollBackStoredOnly(e) ==
    /\ phase = "rolling back"
    /\ e.key \in attempted
    /\ attempted' = attempted \ {e.key}
    /\ IF e.previous = None
       THEN UNCHANGED <<secrets, restored>>
       ELSE /\ secrets' = [secrets EXCEPT ![e.key] = e.previous]
            /\ UNCHANGED restored
    /\ UNCHANGED <<phase, outcome>>
    /\ Keep

\* rollback of one change: the previous token is stored, or a new one erased.
RollBack(e) ==
    /\ phase = "rolling back"
    /\ e.key \in attempted
    /\ attempted' = attempted \ {e.key}
    /\ \/ /\ secrets' = [secrets EXCEPT ![e.key] = e.previous]
          /\ UNCHANGED restored
       \/ /\ secrets' \in {secrets, [secrets EXCEPT ![e.key] = e.previous]}
          /\ restored' = FALSE
    /\ UNCHANGED <<phase, outcome>>
    /\ Keep

\* The save reports its failure.
RolledBack ==
    /\ phase = "rolling back"
    /\ attempted = {}
    /\ phase' = "ended"
    /\ outcome' = IF restored THEN "refused" ELSE "needs repair"
    /\ UNCHANGED <<secrets, attempted, restored>>
    /\ Keep

\* The process dies; the config lock goes with it.
Crash ==
    /\ phase \in {"applying", "rolling back"}
    /\ phase' = "ended"
    /\ outcome' = "crashed"
    /\ attempted' = {}
    /\ UNCHANGED <<secrets, restored>>
    /\ Keep

Next ==
    \/ phase = "idle" /\ \E r \in Requests : \E d \in SUBSET LookedUp(r) : Plan(r, d)
    \/ \E e \in pending : Apply(e) \/ RollBack(e)
    \/ SaveFile \/ RolledBack \/ Crash

Spec == Init /\ [][Next]_vars

-----------------------------------------------------------------------------
(* Properties *)

\* The values every variable keeps; the changes of one save are about different
\* credentials, so that no rollback restores what another change left behind.
TypeOK ==
    /\ secrets \in [Keys -> Tokens \cup {None}]
    /\ disk \in Configs
    /\ request \in Requests
    /\ down \in SUBSET Keys
    /\ pending \in SUBSET Entries
    /\ \A d, e \in pending : d.key = e.key => d = e
    /\ attempted \in SUBSET {e.key : e \in pending}
    /\ phase \in Phases
    /\ restored \in BOOLEAN
    /\ outcome \in Outcomes
    /\ before.secrets \in [Keys -> Tokens \cup {None}] /\ before.disk \in Configs

\* A save that reports a failure, and not that the credentials need repair, has
\* left every credential and the configuration as they were, whatever step of it
\* failed and whether or not the failing call had been carried out.
RefusedChangesNothing ==
    outcome = "refused"
        => secrets = before.secrets /\ disk = before.disk

\* A save that succeeds leaves no provider enabled that is known to have no
\* credential, unless the user asked to forget it; and what the user asked to forget
\* is gone, unless it could not be looked up (plan_credential, plan_removal).
SavedHasCredential ==
    outcome = "saved" =>
        /\ \A f \in Features \ Optional :
              request[f].enabled /\ ~request[f].cleared =>
                  \/ secrets[<<f, request[f].provider>>] # None
                  \/ <<f, request[f].provider>> \in down
        /\ \A f \in Features :
              request[f].cleared =>
                  \/ secrets[<<f, request[f].provider>>] = None
                  \/ <<f, request[f].provider>> \in down

\* Switching providers moves no credential: the old provider's token stays where
\* it is and is not filed under the new provider's name, although the window
\* still holds it in the token field.
SwitchMovesNothing ==
    outcome = "saved" =>
        \A f \in Features \ Optional :
            LET old == <<f, before.disk[f].provider>>
                new == <<f, request[f].provider>>
            IN  before.disk[f].enabled /\ request[f].enabled /\ old # new =>
                    /\ secrets[old] = before.secrets[old]
                    /\ request[f].token = before.secrets[old] /\ ~request[f].cleared
                        => secrets[new] = before.secrets[new]

=============================================================================
