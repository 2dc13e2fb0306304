---------------------- MODULE CredentialTransactionProofs ----------------------
(***************************************************************************)
(* The save of settings and credentials for any features, providers and    *)
(* tokens.                                                                 *)
(*                                                                         *)
(* The three promises speak of the end of a save; what carries them there  *)
(* is the journal: every change knows what the credential was before the   *)
(* save (Journal), and at each moment Secret Service differs from that in  *)
(* exactly the changes tried and not undone (Progress).  What the plan     *)
(* will never touch is fixed when it is made (Planned, Forgets).           *)
(***************************************************************************)
EXTENDS CredentialTransaction, TLAPS

Secrets == [Keys -> Tokens \cup {None}]
Touched == {e.key : e \in pending}
Old(f) == <<f, before.disk[f].provider>>
New(f) == <<f, request[f].provider>>

\* A change remembers the credential as it was when the save began.
Journal == \A e \in pending : e.previous = before.secrets[e.key]

\* No change of this save concerns credential k.
Spared(k) == k \notin Touched

\* What the plan makes of every feature that needs a credential and is enabled.
Planned ==
    \A f \in Features \ Optional : request[f].enabled =>
        /\ ~request[f].cleared =>
              /\ \A e \in pending : e.key = New(f) => e.value # None
              /\ Spared(New(f)) => before.secrets[New(f)] # None \/ New(f) \in down
        /\ before.disk[f].enabled /\ Old(f) # New(f) =>
              /\ Spared(Old(f))
              /\ request[f].token = before.secrets[Old(f)] /\ ~request[f].cleared
                    => Spared(New(f))

\* What the plan makes of every feature that is to forget its credential.
Forgets ==
    \A f \in Features : request[f].cleared =>
        /\ \A e \in pending : e.key = New(f) => e.value = None
        /\ Spared(New(f)) => before.secrets[New(f)] = None \/ New(f) \in down

\* The changes of this save have all been made, and no others.
Applied ==
    /\ \A e \in pending : secrets[e.key] = e.value
    /\ \A k \in Keys \ Touched : secrets[k] = before.secrets[k]

\* How far Secret Service and the file are.
Progress ==
    /\ phase # "ended" => disk = before.disk /\ outcome = "none"
    /\ phase = "idle" => secrets = before.secrets
    /\ phase = "applying" =>
          /\ restored
          /\ \A e \in pending : e.key \in attempted => secrets[e.key] = e.value
          /\ \A k \in Keys \ attempted : secrets[k] = before.secrets[k]
    /\ phase = "rolling back" /\ restored =>
          \A k \in Keys \ attempted : secrets[k] = before.secrets[k]
    /\ outcome = "saved" => Applied

TransactionInv ==
    /\ TypeOK /\ Journal /\ Progress
    /\ phase = "applying" \/ outcome = "saved" => Planned /\ Forgets
    /\ RefusedChangesNothing

-----------------------------------------------------------------------------
(* What the settings are made of *)

\* A feature with one of its providers names a credential.
LEMMA KeyOf ==
    ASSUME NEW f \in Features, NEW p \in Providers[f]
    PROVE  <<f, p>> \in Keys
  BY DEF Keys

\* A configuration chooses one of the feature's providers.
LEMMA ConfigOf ==
    ASSUME NEW c \in Configs, NEW f \in Features
    PROVE  c[f].enabled \in BOOLEAN /\ c[f].provider \in Providers[f]
  BY DEF Configs, Choice

\* So does a request, which brings a token or none.
LEMMA RequestOf ==
    ASSUME NEW r \in Requests, NEW f \in Features
    PROVE  /\ r[f].enabled \in BOOLEAN /\ r[f].provider \in Providers[f]
           /\ r[f].token \in Tokens \cup {None} /\ r[f].cleared \in BOOLEAN
  BY DEF Requests, Request

\* What is written to config.ini is a configuration.
LEMMA SavedIsConfig ==
    ASSUME NEW r \in Requests
    PROVE  [f \in Features |-> [enabled |-> r[f].enabled, provider |-> r[f].provider]] \in Configs
  <1> DEFINE c == [f \in Features |-> [enabled |-> r[f].enabled, provider |-> r[f].provider]]
  <1>1. \A f \in Features : c[f] \in Choice(f)
    BY RequestOf DEF Choice
  <1>2. c \in [Features -> UNION {Choice(f) : f \in Features}]
    BY <1>1
  <1> QED BY <1>1, <1>2 DEF Configs

\* The request before any save is one.
LEMMA NoRequest ==
    ASSUME NEW c \in Configs
    PROVE  [f \in Features |-> [enabled |-> FALSE, provider |-> c[f].provider,
                                token |-> None, cleared |-> FALSE]] \in Requests
  <1> DEFINE r == [f \in Features |-> [enabled |-> FALSE, provider |-> c[f].provider,
                                       token |-> None, cleared |-> FALSE]]
  <1>1. \A f \in Features : r[f] \in Request(f) /\ (~r[f].enabled => r[f].token = None)
    BY ConfigOf DEF Request
  <1>2. r \in [Features -> UNION {Request(f) : f \in Features}]
    BY <1>1
  <1> QED BY <1>1, <1>2 DEF Requests

-----------------------------------------------------------------------------
(* What a plan changes *)

\* A store is of an enabled feature that is not to forget its credential.
LEMMA StoreOf ==
    ASSUME TypeOK, NEW r \in Requests, NEW e \in Stores(r)
    PROVE  /\ e \in Entries /\ e.previous = secrets[e.key] /\ e.value # None
           /\ \E f \in Features : /\ e.key = <<f, r[f].provider>> /\ e.value = Files(f, r)
                                  /\ r[f].enabled /\ ~r[f].cleared
  <1>1. PICK f \in Features :
            /\ r[f].enabled /\ Files(f, r) # None
            /\ e = [key |-> <<f, r[f].provider>>, value |-> Files(f, r),
                    previous |-> secrets[<<f, r[f].provider>>]]
    BY DEF Stores
  <1>2. <<f, r[f].provider>> \in Keys /\ r[f].token \in Tokens \cup {None}
    BY KeyOf, RequestOf
  <1>3. ~r[f].cleared /\ Files(f, r) \in Tokens \cup {None}
    BY <1>1, <1>2 DEF Files, Entered
  <1>4. secrets[<<f, r[f].provider>>] \in Tokens \cup {None}
    BY <1>2 DEF TypeOK
  <1> QED BY <1>1, <1>2, <1>3, <1>4 DEF Entries

\* A credential is unwanted of a disabled feature, or of one that is to forget it.
LEMMA UnwantedOf ==
    ASSUME TypeOK, NEW r \in Requests, NEW k \in Unwanted(r)
    PROVE  /\ k \in Keys
           /\ \E f \in Features : \/ k = <<f, disk[f].provider>> /\ ~r[f].enabled
                                  \/ k = <<f, r[f].provider>> /\ r[f].cleared
  BY KeyOf, ConfigOf, RequestOf DEF Unwanted, TypeOK

\* A removal is of an unwanted credential that exists.
LEMMA RemovalOf ==
    ASSUME TypeOK, NEW r \in Requests, NEW d, NEW e \in Removals(r, d)
    PROVE  /\ e \in Entries /\ e.previous = secrets[e.key] /\ e.value = None
           /\ \E f \in Features : \/ e.key = <<f, disk[f].provider>> /\ ~r[f].enabled
                                  \/ e.key = <<f, r[f].provider>> /\ r[f].cleared
  <1>1. PICK k \in Unwanted(r) : e = [key |-> k, value |-> None, previous |-> secrets[k]]
    BY DEF Removals
  <1>2. k \in Keys /\ secrets[k] \in Tokens \cup {None}
    BY <1>1, UnwantedOf DEF TypeOK
  <1> QED BY <1>1, <1>2, UnwantedOf DEF Entries

\* The changes of one plan are about different credentials.
LEMMA ChangesDiffer ==
    ASSUME TypeOK, NEW r \in Requests, NEW d,
           NEW x \in Stores(r) \cup Removals(r, d), NEW y \in Stores(r) \cup Removals(r, d),
           x.key = y.key
    PROVE  x = y
  <1>1. CASE x \in Stores(r) /\ y \in Stores(r)
    <2> DEFINE Entry(f) == [key |-> <<f, r[f].provider>>, value |-> Files(f, r),
                            previous |-> secrets[<<f, r[f].provider>>]]
    <2>1. PICK f \in Features : x = Entry(f)
      BY <1>1 DEF Stores
    <2>2. PICK g \in Features : y = Entry(g)
      BY <1>1 DEF Stores
    <2>3. f = g
      BY <2>1, <2>2
    <2> QED BY <2>1, <2>2, <2>3
  <1>2. CASE x \in Removals(r, d) /\ y \in Removals(r, d)
    BY <1>2 DEF Removals
  <1>3. CASE x \in Stores(r) /\ y \in Removals(r, d)
    BY <1>3, StoreOf, RemovalOf
  <1>4. CASE x \in Removals(r, d) /\ y \in Stores(r)
    BY <1>4, StoreOf, RemovalOf
  <1> QED BY <1>1, <1>2, <1>3, <1>4

\* The only change of an enabled feature's own credential is its store, or its removal when
\* it is to be forgotten; its other credentials are spared.
LEMMA ChangeOfEnabled ==
    ASSUME TypeOK, NEW r \in Requests, NEW d, NEW f \in Features, r[f].enabled, NEW p,
           NEW e \in Stores(r) \cup Removals(r, d), e.key = <<f, p>>
    PROVE  /\ p = r[f].provider
           /\ ~r[f].cleared => e.value # None /\ e.value = Files(f, r)
  <1>1. CASE e \in Stores(r)
    BY <1>1, StoreOf
  <1>2. CASE e \in Removals(r, d)
    BY <1>2, RemovalOf
  <1> QED BY <1>1, <1>2

\* The plan asks about credentials.
LEMMA LookedUpAreKeys ==
    ASSUME TypeOK, NEW r \in Requests
    PROVE  LookedUp(r) \subseteq Keys
  BY UnwantedOf, KeyOf, ConfigOf, RequestOf DEF LookedUp, TypeOK

-----------------------------------------------------------------------------
(* The invariant *)

\* Any configuration and any stored tokens, and no save yet.
LEMMA InitTransactionInv == Init => TransactionInv
  <1> SUFFICES ASSUME Init PROVE TransactionInv
    OBVIOUS
  <1>1. TypeOK
    BY NoRequest DEF Init, TypeOK, Phases, Outcomes
  <1>2. Journal /\ Progress /\ RefusedChangesNothing
    BY DEF Init, Journal, Progress, RefusedChangesNothing
  <1> QED BY <1>1, <1>2 DEF TransactionInv, Init

\* A plan is made of what Secret Service and the file hold now.
LEMMA PlanKeeps ==
    ASSUME TransactionInv, phase = "idle", NEW r \in Requests, NEW d \in SUBSET LookedUp(r), Plan(r, d)
    PROVE  TransactionInv'
  <1> USE DEF TransactionInv
  <1> DEFINE Changes == Stores(r) \cup Removals(r, d)
             Refused == \E f \in Features : Refuses(f, r, d) \/ \E e \in Stores(r) : e.key \in d
  <1>1. /\ request' = r /\ down' = d /\ before' = [secrets |-> secrets, disk |-> disk]
        /\ before'.secrets = secrets /\ before'.disk = disk
        /\ restored' = TRUE /\ attempted' = {} /\ UNCHANGED <<secrets, disk>>
        /\ Refused => outcome' = "refused" /\ pending' = {} /\ phase' = "ended"
        /\ ~Refused => outcome' = "none" /\ pending' = Changes /\ phase' = "applying"
    BY DEF Plan
  <1>2. d \subseteq Keys
    BY LookedUpAreKeys
  <1>3. \A e \in Changes : e \in Entries /\ e.previous = secrets[e.key]
    BY StoreOf, RemovalOf
  <1> HIDE DEF Changes, Refused
  <1>4. pending' \subseteq Changes
    BY <1>1
  <1>5. TypeOK'
    <2>1. \A x, y \in pending' : x.key = y.key => x = y
      BY <1>4, ChangesDiffer DEF Changes
    <2> QED BY <1>1, <1>2, <1>3, <1>4, <2>1 DEF TypeOK, Phases, Outcomes
  <1>6. Journal'
    BY <1>1, <1>3, <1>4 DEF Journal
  <1>7. Progress' /\ RefusedChangesNothing'
    BY <1>1 DEF Progress, RefusedChangesNothing
  <1>8. ASSUME ~Refused PROVE Planned'
    <2> SUFFICES ASSUME NEW f \in Features \ Optional, r[f].enabled
                 PROVE  /\ ~r[f].cleared =>
                              /\ \A e \in Changes : e.key = <<f, r[f].provider>> => e.value # None
                              /\ (\A e \in Changes : e.key # <<f, r[f].provider>>) =>
                                    secrets[<<f, r[f].provider>>] # None \/ <<f, r[f].provider>> \in d
                        /\ disk[f].enabled /\ disk[f].provider # r[f].provider =>
                              /\ \A e \in Changes : e.key # <<f, disk[f].provider>>
                              /\ r[f].token = secrets[<<f, disk[f].provider>>] /\ ~r[f].cleared
                                    => \A e \in Changes : e.key # <<f, r[f].provider>>
      BY <1>1, <1>8 DEF Planned, Spared, Touched, Old, New
    <2>1. \A e \in Changes : \A p : e.key = <<f, p>> =>
              /\ p = r[f].provider
              /\ ~r[f].cleared => e.value # None /\ e.value = Files(f, r)
      BY ChangeOfEnabled DEF Changes
    <2>2. ASSUME ~r[f].cleared, Files(f, r) # None
          PROVE  \E e \in Changes : e.key = <<f, r[f].provider>>
      <3> DEFINE entry == [key |-> <<f, r[f].provider>>, value |-> Files(f, r),
                           previous |-> secrets[<<f, r[f].provider>>]]
      <3>1. entry \in Stores(r)
        BY <2>2 DEF Stores
      <3> QED BY <3>1 DEF Changes
    <2>3. ~Refuses(f, r, d)
      BY <1>8 DEF Refused
    <2>4. ASSUME ~r[f].cleared, \A e \in Changes : e.key # <<f, r[f].provider>>
          PROVE  secrets[<<f, r[f].provider>>] # None \/ <<f, r[f].provider>> \in d
      BY <2>2, <2>3, <2>4 DEF Refuses
    <2>5. ASSUME disk[f].enabled, disk[f].provider # r[f].provider, ~r[f].cleared,
                 r[f].token = secrets[<<f, disk[f].provider>>]
          PROVE  Files(f, r) = None
      BY <2>5 DEF Files, Entered, Switched
    <2> QED BY <2>1, <2>4, <2>5
  <1>9. ASSUME ~Refused PROVE Forgets'
    <2> SUFFICES ASSUME NEW f \in Features, r[f].cleared
                 PROVE  /\ \A e \in Changes : e.key = <<f, r[f].provider>> => e.value = None
                        /\ (\A e \in Changes : e.key # <<f, r[f].provider>>) =>
                              secrets[<<f, r[f].provider>>] = None \/ <<f, r[f].provider>> \in d
      BY <1>1, <1>9 DEF Forgets, Spared, Touched, New
    <2> DEFINE k == <<f, r[f].provider>>
               entry == [key |-> k, value |-> None, previous |-> secrets[k]]
    <2>1. ASSUME NEW e \in Changes, e.key = k
          PROVE  e.value = None
      <3>1. e \notin Stores(r)
        BY <2>1, StoreOf
      <3> QED BY <2>1, <3>1, RemovalOf DEF Changes
    <2>2. ASSUME secrets[k] # None, k \notin d
          PROVE  entry \in Changes
      <3>1. k \in Unwanted(r)
        BY DEF Unwanted
      <3> QED BY <2>2, <3>1 DEF Changes, Removals
    <2> QED BY <2>1, <2>2
  <1> QED BY <1>1, <1>5, <1>6, <1>7, <1>8, <1>9

\* A change that is tried is in the journal, carried out or not.
LEMMA ApplyKeeps ==
    ASSUME TransactionInv, NEW e \in pending, Apply(e)
    PROVE  TransactionInv'
  <1> USE DEF TransactionInv
  <1>1. /\ UNCHANGED <<disk, request, down, pending, before, restored, outcome>>
        /\ phase = "applying" /\ e.key \notin attempted /\ attempted' = attempted \cup {e.key}
        /\ secrets' \in {secrets, [secrets EXCEPT ![e.key] = e.value]}
        /\ \/ phase' = "applying" /\ secrets' = [secrets EXCEPT ![e.key] = e.value]
           \/ phase' = "rolling back"
    BY DEF Apply, Keep
  <1>2. e \in Entries /\ e.key \in Keys /\ e.value \in Tokens \cup {None}
    BY DEF TypeOK, Entries
  <1>3. TypeOK'
    BY <1>1, <1>2 DEF TypeOK, Phases
  <1>4. Journal'
    BY <1>1 DEF Journal
  <1>5. \A k \in Keys \ attempted' : secrets'[k] = before.secrets[k]
    BY <1>1, <1>2 DEF Progress, TypeOK
  <1>6. phase' = "applying" => \A x \in pending : x.key \in attempted' => secrets'[x.key] = x.value
    <2>1. \A x \in pending : x.key \in Keys /\ (x.key = e.key => x = e)
      BY DEF TypeOK, Entries
    <2> QED BY <1>1, <1>2, <2>1 DEF Progress, TypeOK
  <1>7. Progress'
    BY <1>1, <1>5, <1>6 DEF Progress
  <1>8. Planned' /\ Forgets'
    BY <1>1 DEF Planned, Forgets, Spared, Touched, Old, New
  <1>9. RefusedChangesNothing'
    BY <1>1 DEF Progress, RefusedChangesNothing
  <1> QED BY <1>3, <1>4, <1>7, <1>8, <1>9

\* The file is replaced once every change was made, or nothing is kept.
LEMMA SaveFileKeeps ==
    ASSUME TransactionInv, SaveFile
    PROVE  TransactionInv'
  <1> USE DEF TransactionInv
  <1>1. /\ UNCHANGED <<secrets, request, down, pending, attempted, restored, before>>
        /\ phase = "applying" /\ outcome = "none" /\ \A e \in pending : e.key \in attempted
        /\ \/ phase' = "ended" /\ outcome' = "saved" /\ disk' \in Configs
           \/ phase' = "rolling back" /\ UNCHANGED <<disk, outcome>>
    BY SavedIsConfig DEF SaveFile, Progress, TypeOK
  <1>2. TypeOK' /\ Journal'
    BY <1>1 DEF TypeOK, Journal, Phases, Outcomes
  <1>3. Applied'
    BY <1>1 DEF Applied, Progress, Touched, TypeOK
  <1>4. Progress' /\ RefusedChangesNothing'
    BY <1>1, <1>3 DEF Progress, RefusedChangesNothing
  <1>5. Planned' /\ Forgets'
    BY <1>1 DEF Planned, Forgets, Spared, Touched, Old, New
  <1> QED BY <1>2, <1>4, <1>5

\* A change that is undone, by a call that works, is as if it had not been made.
LEMMA RollBackKeeps ==
    ASSUME TransactionInv, NEW e \in pending, RollBack(e)
    PROVE  TransactionInv'
  <1> USE DEF TransactionInv
  <1>1. /\ UNCHANGED <<disk, request, down, pending, before, phase, outcome>>
        /\ phase = "rolling back" /\ attempted' = attempted \ {e.key}
        /\ secrets' \in {secrets, [secrets EXCEPT ![e.key] = e.previous]}
        /\ \/ UNCHANGED restored /\ secrets' = [secrets EXCEPT ![e.key] = e.previous]
           \/ restored' = FALSE
    BY DEF RollBack, Keep
  <1>2. /\ e \in Entries /\ e.key \in Keys /\ e.previous \in Tokens \cup {None}
        /\ e.previous = before.secrets[e.key]
    BY DEF TypeOK, Entries, Journal
  <1>3. TypeOK' /\ Journal'
    BY <1>1, <1>2 DEF TypeOK, Journal
  <1>4. restored' => \A k \in Keys \ attempted' : secrets'[k] = before.secrets[k]
    BY <1>1, <1>2 DEF Progress, TypeOK
  <1>5. Progress' /\ RefusedChangesNothing'
    BY <1>1, <1>4 DEF Progress, RefusedChangesNothing
  <1> QED BY <1>1, <1>3, <1>5 DEF Progress

\* When everything is undone nothing has changed, or the user is told to repair it.
LEMMA RolledBackKeeps ==
    ASSUME TransactionInv, RolledBack
    PROVE  TransactionInv'
  <1> USE DEF TransactionInv
  <1>1. /\ UNCHANGED <<secrets, disk, request, down, pending, before, attempted, restored>>
        /\ phase = "rolling back" /\ attempted = {} /\ phase' = "ended"
        /\ outcome' = IF restored THEN "refused" ELSE "needs repair"
    BY DEF RolledBack, Keep
  <1>2. TypeOK' /\ Journal'
    BY <1>1 DEF TypeOK, Journal, Phases, Outcomes
  <1>3. restored => secrets = before.secrets
    <2>1. ASSUME restored PROVE \A k \in Keys : secrets[k] = before.secrets[k]
      BY <1>1, <2>1 DEF Progress
    <2> QED BY <2>1 DEF TypeOK
  <1>4. Progress' /\ RefusedChangesNothing'
    BY <1>1, <1>3 DEF Progress, RefusedChangesNothing
  <1> QED BY <1>1, <1>2, <1>4

\* A save that dies reports nothing.
LEMMA CrashKeeps ==
    ASSUME TransactionInv, Crash
    PROVE  TransactionInv'
  <1> USE DEF TransactionInv
  <1>1. /\ UNCHANGED <<secrets, disk, request, down, pending, before, restored>>
        /\ phase' = "ended" /\ outcome' = "crashed" /\ attempted' = {}
    BY DEF Crash, Keep
  <1>2. TypeOK' /\ Journal'
    BY <1>1 DEF TypeOK, Journal, Phases, Outcomes
  <1>3. Progress' /\ RefusedChangesNothing'
    BY <1>1 DEF Progress, RefusedChangesNothing
  <1> QED BY <1>1, <1>2, <1>3

\* The invariant holds in every state of every save, whatever call fails or dies.
THEOREM TransactionInvariant == Spec => []TransactionInv
  <1>1. ASSUME TransactionInv, Next PROVE TransactionInv'
    BY <1>1, PlanKeeps, ApplyKeeps, SaveFileKeeps, RollBackKeeps, RolledBackKeeps, CrashKeeps
       DEF Next
  <1>2. ASSUME TransactionInv, UNCHANGED vars PROVE TransactionInv'
    BY <1>2 DEF vars, TransactionInv, TypeOK, Journal, Progress, Applied, Planned, Forgets,
       Spared, Touched, Old, New, RefusedChangesNothing
  <1> QED BY <1>1, <1>2, InitTransactionInv, PTL DEF Spec

\* The variables keep their values; the changes of one save are about different credentials.
THEOREM TransactionTypes == Spec => []TypeOK
  <1>1. TransactionInv => TypeOK
    BY DEF TransactionInv
  <1> QED BY <1>1, TransactionInvariant, PTL

\* A save that reports a failure, and not that the credentials need repair, has changed
\* nothing, for any features, providers and tokens (save, rollback).
THEOREM FailureChangesNothing == Spec => []RefusedChangesNothing
  <1>1. TransactionInv => RefusedChangesNothing
    BY DEF TransactionInv
  <1> QED BY <1>1, TransactionInvariant, PTL

\* A save that succeeds leaves no provider enabled that is known to have no credential, and
\* a credential that was to be forgotten is gone unless its lookup failed (plan_credential,
\* plan_removal).
THEOREM SuccessHasCredential == Spec => []SavedHasCredential
  <1>1. TransactionInv => SavedHasCredential
    <2> SUFFICES ASSUME TransactionInv, outcome = "saved", NEW f \in Features
                 PROVE  /\ f \notin Optional /\ request[f].enabled /\ ~request[f].cleared =>
                              secrets[New(f)] # None \/ New(f) \in down
                        /\ request[f].cleared => secrets[New(f)] = None \/ New(f) \in down
      BY DEF SavedHasCredential, New
    <2>1. Applied /\ Planned /\ Forgets
      BY DEF TransactionInv, Progress
    <2>2. New(f) \in Keys
      BY KeyOf, RequestOf DEF TransactionInv, TypeOK, New
    <2>3. CASE Spared(New(f))
      BY <2>1, <2>2, <2>3 DEF Applied, Planned, Forgets, Spared
    <2>4. CASE ~Spared(New(f))
      BY <2>1, <2>4 DEF Applied, Planned, Forgets, Spared, Touched
    <2> QED BY <2>3, <2>4
  <1> QED BY <1>1, TransactionInvariant, PTL

\* Switching providers moves no credential from the old to the new one, although the window
\* still holds it in the token field (plan_credential).
THEOREM SwitchKeepsCredentials == Spec => []SwitchMovesNothing
  <1>1. TransactionInv => SwitchMovesNothing
    <2> SUFFICES ASSUME TransactionInv, outcome = "saved", NEW f \in Features \ Optional,
                        before.disk[f].enabled, request[f].enabled, Old(f) # New(f)
                 PROVE  /\ secrets[Old(f)] = before.secrets[Old(f)]
                        /\ request[f].token = before.secrets[Old(f)] /\ ~request[f].cleared
                              => secrets[New(f)] = before.secrets[New(f)]
      BY DEF SwitchMovesNothing, Old, New
    <2>1. Applied /\ Planned
      BY DEF TransactionInv, Progress
    <2>2. New(f) \in Keys /\ Old(f) \in Keys
      BY KeyOf, RequestOf, ConfigOf DEF TransactionInv, TypeOK, New, Old
    <2> QED BY <2>1, <2>2 DEF Applied, Planned, Spared
  <1> QED BY <1>1, TransactionInvariant, PTL
=============================================================================
