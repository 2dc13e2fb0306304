-------------------------- MODULE AccountSessionProofs --------------------------
(***************************************************************************)
(* The account session for any callers, users and bounds.                  *)
(*                                                                         *)
(* What a caller captured stays true for as long as its generation is the  *)
(* current one (Captures), because a pair is replaced without a new        *)
(* generation only by a renewed pair of the same user (Renewal).  A pair   *)
(* is discarded by the method that learns it is void, in the same critical *)
(* section (Revocation), and published only after it was saved             *)
(* (RestartFindsSession).                                                  *)
(***************************************************************************)
EXTENDS AccountSession, TLAPS

Methods == [caller : Callers, kind : Kinds, next : {0} \cup Pairs, step : Steps \ {"idle"}]

\* No method, or one that holds mutex_.
Work == work = Idle \/ work \in Methods

\* Before restore() there is nothing to act on, and no method starts.
Startup ==
    /\ ~restored => generation = 0 /\ session = 0 /\ work = Idle /\ revoked = {}
    /\ work # Idle => generation < MaxGeneration

\* A snapshot of the current generation shows the session's user, and the method that
\* holds mutex_ was started on one.
Captures ==
    /\ \A c \in Callers : captured[c].generation <= generation
    /\ \A c \in Callers : captured[c].generation = generation => captured[c].user = UserOf(session)
    /\ work # Idle => captured[work.caller].generation = generation

\* The pair a method is about to publish is new; it is the session's user's except at a
\* login, which needs that nobody is signed in.
Renewal ==
    /\ work # Idle /\ work.kind = "login" => session = 0 /\ work.step \in {"exchange", "exchanged"}
    /\ work.step = "exchange" => work.kind \in {"login", "link"}
    /\ work.step = "exchanged" => work.kind \in {"login", "link"}
    /\ work.step \in {"exchange", "refreshed", "exchanged"} /\ work.kind # "login" => session # 0
    /\ work.step \in {"refreshed", "exchanged"} =>
            /\ work.next \in Pairs \ revoked
            /\ work.next >= session
            /\ work.kind # "login" => owner[work.next] = owner[session]

\* A pair that was found void is only there until this method has discarded it.
Revocation == session \in revoked => work.step = "discard"

SessionInv ==
    TypeOK /\ Work /\ Startup /\ Captures /\ Renewal /\ Revocation /\ RestartFindsSession

-----------------------------------------------------------------------------
(* What the steps have in common *)

\* Where an authorized method goes on.
LEMMA AuthorizedStep ==
    Authorized \in {"exchange", "read", "send"} /\ (Authorized = "exchange" => work.kind = "link")
  <1>1. CASE work.kind = "link"
    BY <1>1, Zenon DEF Authorized
  <1>2. CASE work.kind = "profile"
    BY <1>2, Zenon DEF Authorized
  <1>3. CASE work.kind \notin {"link", "profile"}
    BY <1>3, Zenon DEF Authorized
  <1> QED BY <1>1, <1>2, <1>3

\* Where a request that is no logout goes on.
LEMMA AfterSendStep ==
    ASSUME NEW kind, kind # "logout"
    PROVE  AfterSend(kind) \in {"idle", "read", "commit"}
  <1>1. CASE kind = "rename"
    BY <1>1, Zenon DEF AfterSend
  <1>2. CASE kind = "apply"
    BY <1>2, Zenon DEF AfterSend
  <1>3. CASE kind \notin {"rename", "apply"}
    BY <1>3, Zenon DEF AfterSend
  <1> QED BY <1>1, <1>2, <1>3

\* A method that is under way is a record that names its caller.
LEMMA UnderWay ==
    ASSUME Work, work.step # "idle"
    PROVE  work \in Methods /\ work # Idle
  BY DEF Work, Idle

\* It keeps its caller, its kind and its pair when it goes on.
LEMMA GoesOn ==
    ASSUME Work, work.step # "idle", NEW step \in Steps \ {"idle"}, Goto(step)
    PROVE  /\ work' # Idle /\ work'.step = step
           /\ work'.caller = work.caller /\ work'.kind = work.kind /\ work'.next = work.next
           /\ UNCHANGED owner => work' \in Methods'
  BY UnderWay DEF Methods, Goto, Idle, Pairs

\* A method that returns leaves no work.
LEMMA Returns ==
    ASSUME Return
    PROVE  work' = Idle /\ work'.step = "idle"
  BY DEF Return, Idle

\* The server has issued no pair or one, and nothing that was issued changes hands.
Grows ==
    /\ owner' \in Seq(Users) /\ Len(owner) <= Len(owner') /\ Len(owner') <= MaxPairs
    /\ \A p \in Pairs : owner'[p] = owner[p]
    /\ valid' \subseteq Pairs'
    /\ UNCHANGED expiring

\* A pair that is dropped, or none, is no new one.
LEMMA DropGrows ==
    ASSUME TypeOK, UNCHANGED <<owner, expiring>>, valid' \subseteq valid
    PROVE  Grows
  BY DEF TypeOK, Grows, Pairs

\* An issued pair is the last one and the user's.
LEMMA IssueGrows ==
    ASSUME TypeOK, NEW user \in Users, NEW retired, Issue(user, retired), UNCHANGED expiring
    PROVE  /\ Grows
           /\ Len(owner') \in Pairs' /\ Len(owner') = Len(owner) + 1
           /\ owner'[Len(owner')] = user
  <1>1. owner' \in Seq(Users) /\ Len(owner') = Len(owner) + 1
    BY DEF TypeOK, Issue
  <1>2. \A p \in Pairs : owner'[p] = owner[p]
    BY DEF TypeOK, Issue, Pairs
  <1>3. owner'[Len(owner')] = user
    BY <1>1 DEF TypeOK, Issue
  <1>4. Len(owner') <= MaxPairs /\ Len(owner) \in Nat
    BY <1>1, BoundsAssumption DEF TypeOK, Issue
  <1>5. valid' \subseteq Pairs'
    <2>1. \A p \in valid' : p \in valid \/ p = Len(owner')
      BY <1>1 DEF Issue
    <2>2. Pairs \subseteq Pairs' /\ Len(owner') \in Pairs'
      BY <1>1, <1>4 DEF Pairs
    <2> QED BY <2>1, <2>2 DEF TypeOK
  <1> QED BY <1>1, <1>2, <1>3, <1>4, <1>5 DEF Grows, Pairs

\* What was issued keeps its number and its user.
LEMMA GrowsKeeps ==
    ASSUME TypeOK, Grows
    PROVE  /\ Pairs \subseteq Pairs' /\ 0 \notin Pairs'
           /\ \A p \in {0} \cup Pairs : UserOf(p)' = UserOf(p)
           /\ \A p \in Pairs' : owner'[p] \in Users
  <1>1. Len(owner) \in Nat /\ Len(owner') \in Nat
    BY DEF TypeOK, Grows
  <1>2. Pairs \subseteq Pairs' /\ 0 \notin Pairs'
    BY <1>1 DEF Grows, Pairs
  <1>3. \A p \in Pairs' : owner'[p] \in Users
    BY <1>1 DEF Grows, Pairs
  <1> QED BY <1>2, <1>3 DEF Grows, UserOf

-----------------------------------------------------------------------------
(* The ways a method takes *)

\* A method may return or throw anywhere but in the middle of a discard, whatever it made of
\* the stored record, as long as that is still the session's user's and no older.
LEMMA ReturnKeeps ==
    ASSUME SessionInv, work.step # "discard", Return, Grows,
           UNCHANGED <<restored, generation, session, captured, revoked>>,
           stored' \in {0} \cup Pairs', RestartFindsSession'
    PROVE  SessionInv'
  <1> USE DEF SessionInv
  <1>1. work' = Idle /\ work'.step = "idle"
    BY Returns
  <1>2. TypeOK'
    BY <1>1, GrowsKeeps DEF TypeOK, Steps, Grows
  <1>3. Work' /\ Startup'
    BY <1>1 DEF Work, Startup
  <1>4. Captures'
    BY <1>1, GrowsKeeps DEF Captures, TypeOK
  <1>5. Renewal' /\ Revocation'
    BY <1>1 DEF Renewal, Revocation
  <1> QED BY <1>2, <1>3, <1>4, <1>5

\* It may go on as long as it has a session, and if that turns out to be void to discard it.
LEMMA GotoKeeps ==
    ASSUME SessionInv, work.step \in {"authorize", "refresh", "send", "read"}, session # 0,
           NEW step \in {"refresh", "send", "read", "exchange", "resave", "commit", "discard"},
           Goto(step), step = "exchange" => work.kind = "link",
           \/ UNCHANGED revoked
           \/ step = "discard" /\ revoked' = revoked \cup {session},
           UNCHANGED <<restored, generation, session, stored, captured, owner, expiring>>,
           valid' \subseteq valid
    PROVE  SessionInv'
  <1> USE DEF SessionInv
  <1>1. /\ work' # Idle /\ work'.step = step
        /\ work'.caller = work.caller /\ work'.kind = work.kind /\ work'.next = work.next
        /\ work' \in Methods'
    BY GoesOn DEF Steps
  <1>2. work # Idle /\ work \in Methods
    BY UnderWay
  <1>3. TypeOK'
    BY <1>1, <1>2 DEF TypeOK, Steps, Pairs
  <1>4. Work' /\ Startup'
    BY <1>1, <1>2 DEF Work, Startup, TypeOK
  <1>5. Captures'
    BY <1>1, <1>2 DEF Captures, UserOf
  <1>6. Renewal'
    BY <1>1, <1>2 DEF Renewal
  <1>7. Revocation'
    BY <1>1 DEF Revocation
  <1>8. RestartFindsSession'
    BY DEF RestartFindsSession, UserOf
  <1> QED BY <1>3, <1>4, <1>5, <1>6, <1>7, <1>8

\* A new pair is held back until it has been saved.
LEMMA IssueKeeps ==
    ASSUME SessionInv, NEW step, NEW user \in Users, NEW retired, Issue(user, retired),
           \/ work.step = "refresh" /\ step = "refreshed"
           \/ work.step = "exchange" /\ step = "exchanged",
           work' = [work EXCEPT !.step = step, !.next = Len(owner')],
           work.kind # "login" => user = owner[session],
           UNCHANGED <<restored, generation, session, stored, captured, expiring, revoked>>
    PROVE  SessionInv'
  <1> USE DEF SessionInv
  <1>1. Grows /\ Len(owner') \in Pairs' /\ Len(owner') = Len(owner) + 1 /\ owner'[Len(owner')] = user
    BY IssueGrows
  <1>2. work # Idle /\ work \in Methods
    BY UnderWay
  <1>3. /\ work' # Idle /\ work'.step = step
        /\ work'.caller = work.caller /\ work'.kind = work.kind /\ work'.next = Len(owner')
        /\ work' \in Methods'
    BY <1>1, <1>2 DEF Methods, Steps, Idle
  <1>4. TypeOK'
    BY <1>1, <1>2, <1>3, GrowsKeeps DEF TypeOK, Methods, Steps, Grows
  <1>5. Work' /\ Startup'
    BY <1>2, <1>3 DEF Work, Startup
  <1>6. Captures'
    BY <1>1, <1>2, <1>3, GrowsKeeps DEF Captures, TypeOK, Methods
  <1>7. Renewal'
    <2>1. Len(owner) \in Nat /\ Len(owner') \notin revoked /\ Len(owner') >= session
      BY <1>1 DEF TypeOK, Pairs
    <2>2. work.kind # "login" => session # 0 /\ session \in Pairs /\ owner'[session] = owner[session]
      BY <1>1 DEF Renewal, TypeOK, Grows
    <2>3. work.kind = "login" => session = 0 /\ step = "exchanged"
      BY <1>2 DEF Renewal
    <2>4. step = "exchanged" => work.kind \in {"login", "link"}
      BY DEF Renewal
    <2> QED BY <1>1, <1>3, <2>1, <2>2, <2>3, <2>4 DEF Renewal
  <1>8. Revocation'
    BY <1>3 DEF Revocation
  <1>9. RestartFindsSession'
    BY <1>1, GrowsKeeps DEF RestartFindsSession, TypeOK
  <1> QED BY <1>4, <1>5, <1>6, <1>7, <1>8, <1>9

-----------------------------------------------------------------------------
(* The invariant *)

\* Nothing is known before the first restore().
LEMMA InitSessionInv == Init => SessionInv
  <1> SUFFICES ASSUME Init PROVE SessionInv
    OBVIOUS
  <1>1. TypeOK
    <2>1. captured \in [Callers -> Snapshots] /\ generation \in 0..MaxGeneration
      BY BoundsAssumption DEF Init, Snapshots
    <2>2. owner \in Seq(Users) /\ Len(owner) = 0 /\ Len(owner) <= MaxPairs
      BY BoundsAssumption DEF Init
    <2>3. work = Idle /\ work.step = "idle"
      BY DEF Init, Idle
    <2> QED BY <2>1, <2>2, <2>3 DEF Init, TypeOK, Steps
  <1>2. Work /\ Startup /\ Captures /\ Renewal /\ Revocation /\ RestartFindsSession
    BY DEF Init, Work, Startup, Captures, Renewal, Revocation, RestartFindsSession, UserOf, Idle
  <1> QED BY <1>1, <1>2 DEF SessionInv

\* Every step of the callers, of a method, of the server and of time keeps the invariant.
LEMMA StepKeepsSessionInv ==
    ASSUME SessionInv, Next
    PROVE  SessionInv'
  <1> USE NoUserAssumption, BoundsAssumption DEF SessionInv
  <1>1. ASSUME Restore PROVE SessionInv'
    <2>1. generation = 0 /\ \A c \in Callers : captured[c].generation = 0
      BY <1>1 DEF Restore, Startup, Captures, TypeOK, Snapshots
    <2>2. TypeOK' /\ Work' /\ Startup'
      BY <1>1, <2>1 DEF Restore, TypeOK, Work, Startup, serverVars, Idle, Pairs
    <2>3. Captures'
      BY <1>1, <2>1 DEF Restore, Captures, Startup
    <2>4. Renewal' /\ Revocation' /\ RestartFindsSession'
      BY <1>1, <2>1 DEF Restore, Startup, Renewal, Revocation, RestartFindsSession, TypeOK, Idle,
         serverVars, UserOf, Pairs
    <2> QED BY <2>2, <2>3, <2>4
  <1>2. ASSUME NEW c \in Callers, Capture(c) PROVE SessionInv'
    <2>1. UserOf(session) \in Users \cup {NoUser}
      BY DEF UserOf, TypeOK, Pairs
    <2>2. captured' \in [Callers -> Snapshots]
      BY <1>2, <2>1 DEF Capture, TypeOK, Snapshots
    <2>3. TypeOK' /\ Work' /\ Startup'
      BY <1>2, <2>2 DEF Capture, TypeOK, Work, Startup, serverVars, Pairs, Methods
    <2>4. Captures'
      BY <1>2 DEF Capture, Captures, UserOf, serverVars, TypeOK, Snapshots
    <2>5. Renewal' /\ Revocation' /\ RestartFindsSession'
      BY <1>2 DEF Capture, Renewal, Revocation, RestartFindsSession, serverVars, UserOf, Pairs
    <2> QED BY <2>3, <2>4, <2>5
  <1>3. ASSUME NEW c \in Callers, NEW kind \in Kinds, Begin(c, kind) PROVE SessionInv'
    <2>1. /\ captured[c].generation = generation /\ captured[c].user = UserOf(session)
          /\ restored /\ generation < MaxGeneration
      BY <1>3 DEF Begin, Current, Captures
    <2>2. /\ work' \in Methods' /\ work' # Idle
          /\ work'.caller = c /\ work'.kind = kind /\ work'.next = 0
          /\ work'.step = IF kind = "login" THEN "exchange"
                            ELSE IF kind = "commit" THEN "commit" ELSE "authorize"
      BY <1>3 DEF Begin, Methods, Steps, Idle
    <2>3. (kind = "login" => session = 0) /\ (kind = "commit" => session # 0)
      <3>1. session # 0 => owner[session] \in Users
        BY DEF TypeOK, Pairs
      <3> QED BY <1>3, <2>1, <3>1 DEF Begin, UserOf
    <2>4. TypeOK'
      BY <1>3, <2>2, <2>3 DEF Begin, TypeOK, serverVars, Steps, Pairs
    <2>5. Work' /\ Startup'
      BY <1>3, <2>1, <2>2 DEF Begin, Work, Startup
    <2>6. Captures'
      BY <1>3, <2>1, <2>2 DEF Begin, Captures, serverVars, UserOf
    <2>7. Renewal' /\ RestartFindsSession'
      BY <1>3, <2>2, <2>3 DEF Begin, Renewal, RestartFindsSession, serverVars, UserOf
    <2>8. Revocation'
      BY <1>3 DEF Begin, Revocation, Idle
    <2> QED BY <2>4, <2>5, <2>6, <2>7, <2>8
  <1>4. ASSUME Authorize PROVE SessionInv'
    <2>0. UNCHANGED <<restored, generation, session, stored, captured, owner, valid, expiring, revoked>>
      BY <1>4 DEF Authorize, serverVars
    <2>1. CASE Return
      BY <1>4, <2>0, <2>1, DropGrows, ReturnKeeps DEF Authorize, TypeOK, RestartFindsSession, UserOf, Pairs
    <2>2. CASE session # 0 /\ Goto(IF session \in expiring THEN "refresh" ELSE Authorized)
      BY <1>4, <2>0, <2>2, AuthorizedStep, GotoKeeps DEF Authorize
    <2> QED BY <1>4, <2>1, <2>2 DEF Authorize
  <1>5. ASSUME Refresh PROVE SessionInv'
    <2>0. /\ work.step = "refresh" /\ session # 0
          /\ UNCHANGED <<restored, generation, session, stored, captured, expiring>>
      BY <1>5 DEF Refresh, TypeOK
    <2>1. CASE Return /\ UNCHANGED <<serverVars, revoked>>
      BY <2>0, <2>1, DropGrows, ReturnKeeps DEF serverVars, TypeOK, RestartFindsSession, UserOf, Pairs
    <2>2. CASE /\ session \notin valid /\ Goto("discard")
               /\ revoked' = revoked \cup {session} /\ UNCHANGED serverVars
      BY <2>0, <2>2, GotoKeeps DEF serverVars
    <2>3. ASSUME NEW user \in Users, Issue(user, {session}), UNCHANGED revoked,
                 \/ Return
                 \/ /\ owner'[Len(owner')] = owner[session]
                    /\ work' = [work EXCEPT !.step = "refreshed", !.next = Len(owner')]
          PROVE  SessionInv'
      <3>1. Grows /\ owner'[Len(owner')] = user
        BY <2>0, <2>3, IssueGrows
      <3>2. CASE Return
        <4>1. stored' \in {0} \cup Pairs' /\ RestartFindsSession'
          BY <2>0, <3>1, GrowsKeeps DEF TypeOK, RestartFindsSession
        <4> QED BY <2>0, <2>3, <3>1, <3>2, <4>1, ReturnKeeps
      <3>3. CASE ~Return
        BY <2>0, <2>3, <3>1, <3>3, IssueKeeps
      <3> QED BY <3>2, <3>3
    <2> QED BY <1>5, <2>1, <2>2, <2>3 DEF Refresh
  <1>6. ASSUME Send PROVE SessionInv'
    <2>0. /\ work.step = "send" /\ session # 0 /\ valid' \subseteq valid
          /\ UNCHANGED <<restored, generation, session, stored, captured, owner, expiring>>
      BY <1>6 DEF Send, TypeOK
    <2>1. CASE Return /\ UNCHANGED revoked
      BY <2>0, <2>1, DropGrows, ReturnKeeps DEF TypeOK, RestartFindsSession, UserOf, Pairs
    <2>2. CASE Goto("discard") /\ revoked' = revoked \cup {session}
      BY <2>0, <2>2, GotoKeeps
    <2>3. CASE /\ work.kind # "logout" /\ AfterSend(work.kind) # "idle" /\ UNCHANGED revoked
               /\ Goto(AfterSend(work.kind))
      BY <2>0, <2>3, AfterSendStep, GotoKeeps
    <2> QED BY <1>6, <2>1, <2>2, <2>3 DEF Send
  <1>7. ASSUME Read PROVE SessionInv'
    <2>0. /\ work.step = "read" /\ session # 0 /\ valid' \subseteq valid
          /\ UNCHANGED <<restored, generation, session, stored, captured, owner, expiring>>
      BY <1>7 DEF Read, TypeOK, serverVars
    <2>1. CASE Return /\ UNCHANGED revoked
      BY <2>0, <2>1, DropGrows, ReturnKeeps DEF TypeOK, RestartFindsSession, UserOf, Pairs
    <2>2. CASE Goto("discard") /\ revoked' = revoked \cup {session}
      BY <2>0, <2>2, GotoKeeps
    <2>3. CASE Goto("resave") /\ UNCHANGED revoked
      BY <2>0, <2>3, GotoKeeps
    <2> QED BY <1>7, <2>1, <2>2, <2>3 DEF Read
  <1>8. ASSUME Resave PROVE SessionInv'
    <2>1. stored' \in {0} \cup Pairs' /\ RestartFindsSession' /\ Grows
      BY <1>8, DropGrows DEF Resave, serverVars, TypeOK, RestartFindsSession, UserOf, Pairs
    <2> QED BY <1>8, <2>1, ReturnKeeps DEF Resave
  <1>9. ASSUME Exchange PROVE SessionInv'
    <2>0. /\ work.step = "exchange"
          /\ UNCHANGED <<restored, generation, session, stored, captured, expiring, revoked>>
      BY <1>9 DEF Exchange
    <2>1. CASE Return /\ UNCHANGED serverVars
      BY <2>0, <2>1, DropGrows, ReturnKeeps DEF serverVars, TypeOK, RestartFindsSession, UserOf, Pairs
    <2>2. ASSUME NEW user \in Users, Issue(user, {}),
                 \/ Return
                 \/ /\ work.kind = "link" => owner'[Len(owner')] = owner[session]
                    /\ work' = [work EXCEPT !.step = "exchanged", !.next = Len(owner')]
          PROVE  SessionInv'
      <3>1. Grows /\ owner'[Len(owner')] = user
        BY <2>0, <2>2, IssueGrows
      <3>2. CASE Return
        <4>1. stored' \in {0} \cup Pairs' /\ RestartFindsSession'
          BY <2>0, <3>1, GrowsKeeps DEF TypeOK, RestartFindsSession
        <4> QED BY <2>0, <2>2, <3>1, <3>2, <4>1, ReturnKeeps
      <3>3. CASE ~Return
        BY <2>0, <2>2, <3>1, <3>3, IssueKeeps DEF Renewal
      <3> QED BY <3>2, <3>3
    <2> QED BY <1>9, <2>1, <2>2 DEF Exchange
  <1>10. ASSUME Commit PROVE SessionInv'
    <2>1. stored' \in {0} \cup Pairs' /\ RestartFindsSession' /\ Grows
      BY <1>10, DropGrows DEF Commit, serverVars, TypeOK, RestartFindsSession, UserOf, Pairs
    <2> QED BY <1>10, <2>1, ReturnKeeps DEF Commit
  <1>11. ASSUME Save PROVE SessionInv'
    <2>0. /\ work.step \in {"refreshed", "exchanged"} /\ work.next \in Pairs \ revoked
          /\ UNCHANGED <<restored, captured, owner, valid, expiring, revoked>>
          /\ session # 0 => work.next >= session /\ owner[work.next] = owner[session]
      BY <1>11, UnderWay DEF Save, Renewal, serverVars
    <2>1. CASE stored' \in {stored, work.next} /\ Return /\ UNCHANGED <<session, generation>>
      <3>1. stored' \in {0} \cup Pairs' /\ RestartFindsSession' /\ Grows
        BY <2>0, <2>1, DropGrows DEF TypeOK, RestartFindsSession, UserOf, Pairs
      <3> QED BY <2>0, <2>1, <3>1, ReturnKeeps
    <2>2. CASE /\ stored' = work.next /\ session' = work.next /\ work.step = "exchanged"
               /\ generation' = generation + 1 /\ Return
      <3>1. work' = Idle /\ work'.step = "idle" /\ restored /\ generation < MaxGeneration
        BY <2>2, Returns, UnderWay DEF Startup
      <3>2. TypeOK'
        BY <2>0, <2>2, <3>1 DEF TypeOK, Steps, Pairs
      <3>3. Work' /\ Startup' /\ Renewal' /\ Revocation'
        BY <2>0, <2>2, <3>1 DEF Work, Startup, Renewal, Revocation
      <3>4. Captures'
        BY <2>0, <2>2, <3>1 DEF Captures, TypeOK, Snapshots
      <3>5. RestartFindsSession'
        BY <2>0, <2>2 DEF RestartFindsSession, UserOf, Pairs, TypeOK
      <3> QED BY <3>2, <3>3, <3>4, <3>5
    <2>3. CASE /\ stored' = work.next /\ session' = work.next /\ work.step = "refreshed"
               /\ UNCHANGED generation /\ Goto(Authorized)
      <3>1. /\ work' # Idle /\ work'.step = Authorized
            /\ work'.caller = work.caller /\ work'.kind = work.kind /\ work'.next = work.next
            /\ work' \in Methods'
        BY <2>0, <2>3, GoesOn, AuthorizedStep DEF Steps
      <3>2. work # Idle /\ work \in Methods /\ work.kind # "login" /\ session # 0
        BY <2>3, UnderWay DEF Renewal
      <3>3. session' # 0 /\ session' \in Pairs'
        BY <2>0, <2>3 DEF TypeOK, Pairs
      <3>4. TypeOK'
        BY <2>0, <2>3, <3>1, <3>2, <3>3, AuthorizedStep DEF TypeOK, Methods, Steps, Pairs
      <3>5. Work' /\ Startup'
        BY <2>0, <2>3, <3>1, <3>2 DEF Work, Startup
      <3>6. Captures'
        <4>1. UserOf(session)' = UserOf(session)
          BY <2>0, <2>3, <3>2, <3>3 DEF UserOf
        <4> QED BY <2>0, <2>3, <3>1, <3>2, <4>1 DEF Captures
      <3>7. Renewal' /\ Revocation'
        BY <2>0, <2>3, <3>1, <3>2, <3>3, AuthorizedStep DEF Renewal, Revocation
      <3>8. RestartFindsSession'
        BY <2>0, <2>3 DEF RestartFindsSession, UserOf, Pairs, TypeOK
      <3> QED BY <3>4, <3>5, <3>6, <3>7, <3>8
    <2> QED BY <1>11, <2>1, <2>2, <2>3 DEF Save
  <1>12. ASSUME Discard PROVE SessionInv'
    <2>1. work' = Idle /\ work'.step = "idle" /\ restored /\ generation < MaxGeneration
      BY <1>12, Returns, UnderWay DEF Startup, Discard
    <2>2. TypeOK'
      BY <1>12, <2>1 DEF Discard, TypeOK, Steps, Pairs, serverVars
    <2>3. Work' /\ Startup' /\ Renewal' /\ RestartFindsSession'
      BY <1>12, <2>1 DEF Discard, Work, Startup, Renewal, RestartFindsSession
    <2>4. Captures'
      BY <1>12, <2>1 DEF Discard, Captures, TypeOK, Snapshots
    <2>5. Revocation'
      BY <1>12 DEF Discard, Revocation, TypeOK, Pairs
    <2> QED BY <2>2, <2>3, <2>4, <2>5
  <1>13. ASSUME NEW p \in Pairs, Expire(p) \/ Revoke(p) PROVE SessionInv'
    <2>1. /\ UNCHANGED <<restored, generation, session, stored, work, captured, owner, revoked>>
          /\ valid' \subseteq valid /\ expiring' \subseteq Pairs
      BY <1>13 DEF Expire, Revoke, TypeOK, serverVars
    <2>2. TypeOK'
      BY <2>1 DEF TypeOK, Pairs
    <2>3. Work' /\ Startup' /\ Captures'
      BY <2>1 DEF Work, Startup, Captures, Methods, Pairs, UserOf
    <2>4. Renewal' /\ Revocation' /\ RestartFindsSession'
      BY <2>1 DEF Renewal, Revocation, RestartFindsSession, UserOf, Pairs
    <2> QED BY <2>2, <2>3, <2>4
  <1>14. ASSUME Restart PROVE SessionInv'
    <2>1. captured' \in [Callers -> Snapshots] /\ \A c \in Callers : captured'[c] = [generation |-> 0, user |-> NoUser]
      BY <1>14 DEF Restart, Snapshots
    <2>2. TypeOK'
      <3>1. work' = Idle /\ work'.step = "idle" /\ generation' \in 0..MaxGeneration
        BY <1>14 DEF Restart, Idle
      <3> QED BY <1>14, <2>1, <3>1 DEF Restart, TypeOK, Steps, Pairs, serverVars
    <2>3. Work' /\ Startup' /\ Renewal' /\ Revocation' /\ RestartFindsSession'
      BY <1>14 DEF Restart, Work, Startup, Renewal, Revocation, RestartFindsSession, Idle
    <2>4. Captures'
      BY <1>14, <2>1 DEF Restart, Captures, UserOf
    <2> QED BY <2>2, <2>3, <2>4
  <1> QED
    BY <1>1, <1>2, <1>3, <1>4, <1>5, <1>6, <1>7, <1>8, <1>9, <1>10, <1>11, <1>12, <1>13, <1>14 DEF Next

\* The invariant holds in every state, whatever fails, is lost or dies.
THEOREM SessionInvariant == Spec => []SessionInv
  <1>1. ASSUME SessionInv, UNCHANGED vars PROVE SessionInv'
    <2>1. TypeOK' /\ Work' /\ Startup' /\ Captures'
      BY <1>1 DEF vars, SessionInv, TypeOK, Work, Startup, Captures, Methods, Pairs, UserOf
    <2>2. Renewal' /\ Revocation' /\ RestartFindsSession'
      BY <1>1 DEF vars, SessionInv, Renewal, Revocation, RestartFindsSession, Pairs, UserOf
    <2> QED BY <2>1, <2>2 DEF SessionInv
  <1> QED BY <1>1, InitSessionInv, StepKeepsSessionInv, PTL DEF Spec

\* The variables keep their values, and a method past authorized has a session.
THEOREM SessionTypes == Spec => []TypeOK
  <1>1. SessionInv => TypeOK
    BY DEF SessionInv
  <1> QED BY <1>1, SessionInvariant, PTL

\* Whatever is sent, linked or committed for a window is done as the user that window shows,
\* for any number of windows and users (require_generation, authorized).
THEOREM MethodsActForCapturedUser == Spec => []ActsForCapturedUser
  <1>1. SessionInv => ActsForCapturedUser
    <2> SUFFICES ASSUME SessionInv, Acting PROVE UserOf(session) = captured[work.caller].user
      BY DEF ActsForCapturedUser
    <2>1. work \in Methods /\ work # Idle
      BY UnderWay DEF SessionInv, Acting
    <2> QED BY <2>1 DEF SessionInv, Captures, Methods
  <1> QED BY <1>1, SessionInvariant, PTL

\* A restart finds the account that was published, whatever save failed before
\* (authorized, login, link: store_.save comes first).
THEOREM RestartFindsPublished == Spec => []RestartFindsSession
  <1>1. SessionInv => RestartFindsSession
    BY DEF SessionInv
  <1> QED BY <1>1, SessionInvariant, PTL

\* A pair this process signed out or saw refused is never used by it again, even if the
\* keyring keeps it (discard).
THEOREM RevokedStaysUnused == Spec => []RevokedIsNotUsed
  <1>1. SessionInv => RevokedIsNotUsed
    BY DEF SessionInv, Revocation, RevokedIsNotUsed, Acting
  <1> QED BY <1>1, SessionInvariant, PTL
=============================================================================
