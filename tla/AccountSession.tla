---------------------------- MODULE AccountSession ----------------------------
(***************************************************************************)
(* src/account/AccountSession.cpp with its record in Secret Service        *)
(* (AccountCredentialStore.cpp) and its callers, the account panel and the *)
(* dictionary window.                                                      *)
(*                                                                         *)
(* A method holds mutex_ from its first test to its return, network and    *)
(* keyring calls included, so there is one method at a time; its steps are *)
(* separate because each may fail and the program may die between them.    *)
(* A token pair is its number: owner[n] is the user it was issued to.      *)
(* The server, Secret Service and the clock are external.                  *)
(***************************************************************************)
EXTENDS Naturals, Sequences

CONSTANTS
    Callers,         \* windows of the settings program that share the session
    Users,
    NoUser,          \* signed out
    MaxPairs,        \* bound on the token pairs the server issues
    MaxGeneration    \* bound on generation_

ASSUME NoUserAssumption == NoUser \notin Users
ASSUME BoundsAssumption == MaxPairs \in Nat /\ MaxGeneration \in Nat \ {0}

VARIABLES
    restored,        \* restored_
    generation,      \* generation_
    session,         \* session_: its token pair, or 0
    stored,          \* the pair in Secret Service, or 0
    work,            \* the method that holds mutex_
    captured,        \* the SessionSnapshot each caller acts on
    owner,           \* server: the user of every pair issued so far
    valid,           \* server: the pairs it still accepts
    expiring,        \* pairs whose access token has at most 60 seconds left
    revoked          \* pairs this process discarded: signed out, or refused with 401

serverVars == <<owner, valid>>
vars == <<restored, generation, session, stored, work, captured, owner, valid,
          expiring, revoked>>

Pairs == 1..Len(owner)
UserOf(pair) == IF pair = 0 THEN NoUser ELSE owner[pair]
Snapshots == [generation : 0..MaxGeneration, user : Users \cup {NoUser}]

\* profile and rename end in read_profile, apply is apply_preferences, commit is
\* with_current_user, logout also stands for delete_account, request for the rest.
Kinds == {"login", "begin link", "link", "request", "profile", "rename", "apply",
          "commit", "logout"}
Steps == {"idle", "authorize", "refresh", "send", "read", "exchange", "refreshed",
          "exchanged", "resave", "commit", "discard"}

Idle == [step |-> "idle"]

Init ==
    /\ restored = FALSE
    /\ generation = 0
    /\ session = 0
    /\ stored = 0
    /\ work = Idle
    /\ captured = [c \in Callers |-> [generation |-> 0, user |-> NoUser]]
    /\ owner = <<>>
    /\ valid = {}
    /\ expiring = {}
    /\ revoked = {}

-----------------------------------------------------------------------------
(* Helpers *)

\* The method goes on, or returns or throws.
Goto(step) == work' = [work EXCEPT !.step = step]
Return == work' = Idle

\* The server issues a pair to `user`; a refresh may retire the pair it replaces.
Issue(user, retired) ==
    /\ Len(owner) < MaxPairs
    /\ owner' = Append(owner, user)
    /\ \/ valid' = valid \cup {Len(owner) + 1}
       \/ valid' = (valid \ retired) \cup {Len(owner) + 1}

-----------------------------------------------------------------------------
(* The callers *)

\* restore(): a lookup that fails leaves everything as it is.
Restore ==
    /\ work = Idle
    /\ ~restored
    /\ restored' = TRUE
    /\ session' = stored
    /\ generation' = generation + 1
    /\ UNCHANGED <<stored, work, captured, serverVars, expiring, revoked>>

\* snapshot(), which the panel takes after every method.
Capture(c) ==
    /\ work = Idle
    /\ captured' = [captured EXCEPT ![c] = [generation |-> generation, user |-> UserOf(session)]]
    /\ UNCHANGED <<restored, generation, session, stored, work, serverVars, expiring, revoked>>

\* Mutant: it is enough that the session was restored.
CurrentIfRestored(c) == restored

\* require_generation: a caller that has not seen the last change is refused.
Current(c) == restored /\ captured[c].generation = generation

\* A method starts.  The panel logs in only while signed out and links otherwise;
\* with_current_user compares the user and needs no authorization.
Begin(c, kind) ==
    /\ work = Idle
    /\ generation < MaxGeneration
    /\ Current(c)
    /\ kind = "login" => captured[c].user = NoUser
    /\ kind \in {"begin link", "link"} => captured[c].user # NoUser
    /\ kind \in {"apply", "commit"} => captured[c].user # NoUser /\ captured[c].user = UserOf(session)
    /\ work' = [caller |-> c, kind |-> kind, next |-> 0,
                step |-> IF kind = "login" THEN "exchange"
                         ELSE IF kind = "commit" THEN "commit" ELSE "authorize"]
    /\ UNCHANGED <<restored, generation, session, stored, captured, serverVars, expiring, revoked>>

-----------------------------------------------------------------------------
(* authorized *)

\* Where a method goes on with its access token.
Authorized ==
    CASE work.kind = "link" -> "exchange"
      [] work.kind = "profile" -> "read"
      [] OTHER -> "send"

\* Mutant: a method may go on without a session.
AuthorizeAnyone ==
    /\ work.step = "authorize"
    /\ Return \/ Goto(IF session \in expiring THEN "refresh" ELSE Authorized)
    /\ UNCHANGED <<restored, generation, session, stored, captured, serverVars, expiring, revoked>>

\* Cancelled, signed out, a clock out of range: the method throws.
Authorize ==
    /\ work.step = "authorize"
    /\ \/ Return
       \/ /\ session # 0
          /\ Goto(IF session \in expiring THEN "refresh" ELSE Authorized)
    /\ UNCHANGED <<restored, generation, session, stored, captured, serverVars, expiring, revoked>>

\* client_.refresh: no answer, whether or not the server renewed the pair; a pair
\* of another user, which is refused; 401; or the renewed pair.
Refresh ==
    /\ work.step = "refresh"
    /\ \/ Return /\ UNCHANGED <<serverVars, revoked>>
       \/ /\ session \in valid
          /\ \E user \in Users : Issue(user, {session})
          /\ \/ Return
             \/ /\ owner'[Len(owner')] = owner[session]
                /\ work' = [work EXCEPT !.step = "refreshed", !.next = Len(owner')]
          /\ UNCHANGED revoked
       \/ /\ session \notin valid
          /\ Goto("discard")
          /\ revoked' = revoked \cup {session}
          /\ UNCHANGED serverVars
    /\ UNCHANGED <<restored, generation, session, stored, captured, expiring>>

-----------------------------------------------------------------------------
(* Requests *)

\* What follows a request the server carried out.
AfterSend(kind) ==
    CASE kind = "rename" -> "read"
      [] kind = "apply" -> "commit"
      [] kind = "logout" -> "discard"
      [] OTHER -> "idle"

\* A request with the session's access token.  It may fail with or without having
\* been carried out; a 401 discards the session except in begin_link, rename and logout;
\* an apply ends there when the remote preferences are no longer the reviewed ones.
Send ==
    /\ work.step = "send"
    /\ \/ Return /\ UNCHANGED <<valid, revoked>>
       \/ /\ session \notin valid
          /\ work.kind \notin {"begin link", "rename", "logout"}
          /\ Goto("discard")
          /\ revoked' = revoked \cup {session}
          /\ UNCHANGED valid
       \/ /\ session \in valid
          /\ work.kind # "logout"
          /\ IF AfterSend(work.kind) = "idle" THEN Return ELSE Goto(AfterSend(work.kind))
          /\ UNCHANGED <<valid, revoked>>
       \/ /\ session \in valid
          /\ work.kind = "logout"
          /\ \/ valid' = valid \ {session}
             \/ valid' = {p \in valid : owner[p] # owner[session]}
          /\ \/ Return /\ UNCHANGED revoked
             \/ Goto("discard") /\ revoked' = revoked \cup {session}
    /\ UNCHANGED <<restored, generation, session, stored, captured, owner, expiring>>

\* read_profile: the profile must be the session's user's.
Read ==
    /\ work.step = "read"
    /\ \/ Return /\ UNCHANGED revoked
       \/ session \in valid /\ Goto("resave") /\ UNCHANGED revoked
       \/ /\ session \notin valid
          /\ Goto("discard")
          /\ revoked' = revoked \cup {session}
    /\ UNCHANGED <<restored, generation, session, stored, captured, serverVars, expiring>>

\* The session is saved again with the profile's name in it.
Resave ==
    /\ work.step = "resave"
    /\ stored' \in {stored, session}
    /\ Return
    /\ UNCHANGED <<restored, generation, session, captured, serverVars, expiring, revoked>>

\* client_.login for login and for link, which accepts only its own user back.
Exchange ==
    /\ work.step = "exchange"
    /\ \/ Return /\ UNCHANGED serverVars
       \/ /\ work.kind = "link" => session \in valid
          /\ \E user \in Users : Issue(user, {})
          /\ \/ Return
             \/ /\ work.kind = "link" => owner'[Len(owner')] = owner[session]
                /\ work' = [work EXCEPT !.step = "exchanged", !.next = Len(owner')]
    /\ UNCHANGED <<restored, generation, session, stored, captured, expiring, revoked>>

\* The local commit of apply_preferences and with_current_user.
Commit ==
    /\ work.step = "commit"
    /\ Return
    /\ UNCHANGED <<restored, generation, session, stored, captured, serverVars, expiring, revoked>>

-----------------------------------------------------------------------------
(* Secret Service *)

\* Mutant: the session is published before it is saved.
SaveAfterPublish ==
    /\ work.step \in {"refreshed", "exchanged"}
    /\ session' = work.next
    /\ generation' = IF work.step = "exchanged" THEN generation + 1 ELSE generation
    /\ stored' \in {stored, work.next}
    /\ IF work.step = "exchanged" THEN Return ELSE Goto(Authorized)
    /\ UNCHANGED <<restored, captured, serverVars, expiring, revoked>>

\* store_.save, then the session is published: authorized goes on with it, and
\* login and link begin a new generation.  A save that fails, carried out or not,
\* throws and publishes nothing.
Save ==
    /\ work.step \in {"refreshed", "exchanged"}
    /\ \/ /\ stored' = work.next
          /\ session' = work.next
          /\ IF work.step = "exchanged"
             THEN generation' = generation + 1 /\ Return
             ELSE UNCHANGED generation /\ Goto(Authorized)
       \/ /\ stored' \in {stored, work.next}
          /\ Return
          /\ UNCHANGED <<session, generation>>
    /\ UNCHANGED <<restored, captured, serverVars, expiring, revoked>>

\* Mutant: the keyring first, so that its failure keeps the session.
DiscardStoredFirst ==
    /\ work.step = "discard"
    /\ Return
    /\ \/ /\ stored' = 0
          /\ session' = 0
          /\ generation' = generation + 1
       \/ UNCHANGED <<stored, session, generation>>
    /\ UNCHANGED <<restored, captured, serverVars, expiring, revoked>>

\* discard: the session goes first, whatever becomes of the record.
Discard ==
    /\ work.step = "discard"
    /\ session' = 0
    /\ generation' = generation + 1
    /\ stored' \in {stored, 0}
    /\ Return
    /\ UNCHANGED <<restored, captured, serverVars, expiring, revoked>>

-----------------------------------------------------------------------------
(* The surroundings *)

\* Time passes.
Expire(p) ==
    /\ p \in Pairs \ expiring
    /\ expiring' = expiring \cup {p}
    /\ UNCHANGED <<restored, generation, session, stored, work, captured, serverVars, revoked>>

\* The server drops a pair: another device signed out everywhere.
Revoke(p) ==
    /\ p \in valid
    /\ valid' = valid \ {p}
    /\ UNCHANGED <<restored, generation, session, stored, work, captured, owner, expiring, revoked>>

\* The settings program ends, in the middle of a method or not, and starts again.
Restart ==
    /\ restored' = FALSE
    /\ generation' = 0
    /\ session' = 0
    /\ work' = Idle
    /\ captured' = [c \in Callers |-> [generation |-> 0, user |-> NoUser]]
    /\ revoked' = {}
    /\ UNCHANGED <<stored, serverVars, expiring>>

Next ==
    \/ Restore
    \/ \E c \in Callers : Capture(c) \/ \E kind \in Kinds : Begin(c, kind)
    \/ Authorize \/ Refresh \/ Send \/ Read \/ Resave \/ Exchange \/ Commit
    \/ Save \/ Discard
    \/ \E p \in Pairs : Expire(p) \/ Revoke(p)
    \/ Restart

Spec == Init /\ [][Next]_vars

-----------------------------------------------------------------------------
(* Properties *)

\* The values every variable keeps; a method that has got past authorized has a
\* session.
TypeOK ==
    /\ restored \in BOOLEAN
    /\ generation \in 0..MaxGeneration
    /\ owner \in Seq(Users) /\ Len(owner) <= MaxPairs
    /\ session \in {0} \cup Pairs
    /\ stored \in {0} \cup Pairs
    /\ work.step \in Steps
    /\ work # Idle => /\ work.caller \in Callers
                      /\ work.kind \in Kinds
                      /\ work.next \in {0} \cup Pairs
    /\ work.step \in {"refresh", "send", "read", "resave", "commit", "discard"} => session # 0
    /\ captured \in [Callers -> Snapshots]
    /\ valid \in SUBSET Pairs
    /\ expiring \in SUBSET Pairs
    /\ revoked \in SUBSET Pairs

\* The method uses the session's tokens or commits in its user's name.
Acting ==
    \/ work.step \in {"refresh", "send", "read", "commit"}
    \/ work.step = "exchange" /\ work.kind = "link"

\* "Generation binds operations and UI results to an account": whatever is sent,
\* linked or committed for a window is done as the user that window shows, even if
\* another window signed out and in again or the tokens were refreshed meanwhile.
ActsForCapturedUser ==
    Acting => UserOf(session) = captured[work.caller].user

\* What the program has published survives it: a restart finds the same account,
\* and tokens no older than those in use, whatever save failed before.
RestartFindsSession ==
    session # 0 => stored >= session /\ UserOf(stored) = UserOf(session)

\* "Never keep using the revoked token, even if the keyring is locked and clearing
\* it reports a failure": a pair this process signed out, or discarded after a 401,
\* is never used again by it.
RevokedIsNotUsed ==
    Acting => session \notin revoked

=============================================================================
