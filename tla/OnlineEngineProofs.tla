-------------------------- MODULE OnlineEngineProofs --------------------------
(***************************************************************************)
(* The online candidate service, and the engine composed with it, for any  *)
(* workers, requests, debounce interval, queries and bounds.               *)
(***************************************************************************)
EXTENDS OnlineEngine, TLAPS

-----------------------------------------------------------------------------
(***************************************************************************)
(* The service, whoever calls it: these results use nothing of the engine. *)
(*                                                                         *)
(* The token is the key of the argument: while a worker's observed_token   *)
(* is the current token, its deadline is the one of the last update        *)
(* and the request it copied is the latest one (InStep).                   *)
(* Every change of latest_request_ moves the token past what any worker    *)
(* has seen, so both hold however the threads interleave.                  *)
(***************************************************************************)

Debouncing == {"debounce", "woken"}
Fetching == {"fetch", "fetched", "callback"}

\* What a worker at `place` may rely on when the token it observed is current:
\* its deadline is that of the last update, and the request it copied is the
\* latest one.  A token behind the current one promises nothing.
InStep(place, seen, left, copy, t, a, l, stop) ==
    /\ seen <= t
    /\ place \in Debouncing /\ seen = t => left = Debounce - a
    /\ place \in Fetching /\ seen = t /\ ~stop => l \in Requests /\ copy = l

WorkersInStep ==
    \A w \in Sources :
        InStep(pc[w], observed[w], remaining[w], pending[w], token, age, latest, stopping)

\* The caller is past the flag of stop(), and a stop() that returned left nobody.
StopInv ==
    /\ caller \in {"stop notify", "join"} => stopping
    /\ JoinedMeansQuiet

ServiceInv == TypeOK /\ WorkersInStep /\ StopInv

-----------------------------------------------------------------------------
(* Types *)

\* The initial values have their types.
LEMMA TypeInit == Init => TypeOK
  <1> SUFFICES ASSUME Init PROVE TypeOK
    OBVIOUS
  <1> USE DebounceAssumption DEF Init
  <1>1. /\ stopping \in BOOLEAN /\ joined \in BOOLEAN
        /\ caller \in CallerStates /\ caller # "submit"
    BY DEF CallerStates
  <1>2. token \in Nat /\ age \in 0..Debounce
    OBVIOUS
  <1>3. latest \in Requests \cup {NoRequest} /\ argument \in Requests \cup {NoRequest}
    OBVIOUS
  <1>4. pc \in [Sources -> WorkerStates]
    BY DEF WorkerStates
  <1>5. observed \in [Sources -> Nat] /\ remaining \in [Sources -> 0..Debounce]
    OBVIOUS
  <1>6. pending \in [Sources -> Requests \cup {NoRequest}]
    OBVIOUS
  <1> QED
    BY <1>1, <1>2, <1>3, <1>4, <1>5, <1>6 DEF TypeOK

\* A notification moves workers only between the waiting and the woken places.
LEMMA WakeAllPlaces ==
    ASSUME NEW p \in [Sources -> WorkerStates], NEW w \in Sources
    PROVE  /\ WakeAll(p) \in [Sources -> WorkerStates]
           /\ WakeAll(p)[w] \in Debouncing <=> p[w] \in Debouncing
           /\ WakeAll(p)[w] \in Fetching <=> p[w] \in Fetching
           /\ WakeAll(p)[w] = "done" <=> p[w] = "done"
           /\ WakeAll(p)[w] = "fetch" <=> p[w] = "fetch"
           /\ WakeAll(p)[w] = "callback" <=> p[w] = "callback"
  BY DEF WakeAll, WorkerStates, Debouncing, Fetching

\* notify_all sends no worker to an unknown place.
LEMMA WakeAllType ==
    ASSUME NEW p \in [Sources -> WorkerStates]
    PROVE  WakeAll(p) \in [Sources -> WorkerStates]
  BY DEF WakeAll, WorkerStates

\* stop() sets the flag, and moves the token the first time.
LEMMA MarkStoppingEffect ==
    ASSUME TypeOK, MarkStopping
    PROVE  /\ stopping' \in BOOLEAN /\ stopping'
           /\ token' \in Nat /\ token <= token'
           /\ ~stopping => token < token'
           /\ latest' = latest /\ age' = age
  <1>1. stopping' \in BOOLEAN /\ stopping' /\ latest' = latest /\ age' = age
    BY DEF MarkStopping
  <1>2. token \in Nat
    BY DEF TypeOK
  <1>3. CASE stopping
    <2>1. token' = token
      BY <1>3 DEF MarkStopping
    <2> QED
      BY <1>1, <1>2, <1>3, <2>1
  <1>4. CASE ~stopping
    <2>1. token' = token + 1
      BY <1>4 DEF MarkStopping
    <2> QED
      BY <1>1, <1>2, <2>1
  <1> QED
    BY <1>3, <1>4

\* The worker's four variables have their types again after a step that moves
\* it and leaves the other workers alone.
LEMMA ObserveTypes ==
    ASSUME TypeOK, NEW w \in Sources, Observe(w)
    PROVE  /\ pc' \in [Sources -> WorkerStates]
           /\ observed' \in [Sources -> Nat]
           /\ remaining' \in [Sources -> 0..Debounce]
           /\ pending' \in [Sources -> Requests \cup {NoRequest}]
  <1>1. pc' \in [Sources -> WorkerStates]
    BY DEF Observe, TypeOK, WorkerStates
  <1>2. observed' \in [Sources -> Nat] /\ pending' \in [Sources -> Requests \cup {NoRequest}]
    BY DEF Observe, TypeOK
  <1>3. Debounce - age \in 0..Debounce
    BY DebounceAssumption DEF TypeOK
  <1>4. remaining' \in [Sources -> 0..Debounce]
    BY <1>3 DEF Observe, TypeOK
  <1> QED
    BY <1>1, <1>2, <1>4

\* Leaving, moving on and copying the request keep the worker variables typed.
LEMMA MoveTypes ==
    ASSUME TypeOK, NEW w \in Sources,
           Leave(w) \/ (\E place \in WorkerStates : Goto(w, place)) \/ TakeRequest(w)
    PROVE  /\ pc' \in [Sources -> WorkerStates]
           /\ observed' \in [Sources -> Nat]
           /\ remaining' \in [Sources -> 0..Debounce]
           /\ pending' \in [Sources -> Requests \cup {NoRequest}]
  <1> USE DEF TypeOK
  <1>1. CASE Leave(w)
    BY <1>1 DEF Leave, WorkerStates
  <1>2. ASSUME NEW place \in WorkerStates, Goto(w, place)
        PROVE  /\ pc' \in [Sources -> WorkerStates]
               /\ observed' \in [Sources -> Nat]
               /\ remaining' \in [Sources -> 0..Debounce]
               /\ pending' \in [Sources -> Requests \cup {NoRequest}]
    BY <1>2 DEF Goto
  <1>3. CASE TakeRequest(w)
    <2>1. pc' \in [Sources -> WorkerStates]
      BY <1>3 DEF TakeRequest, WorkerStates
    <2>2. pending' \in [Sources -> Requests \cup {NoRequest}]
      BY <1>3 DEF TakeRequest
    <2> QED
      BY <1>3, <2>1, <2>2 DEF TakeRequest
  <1> QED
    BY <1>1, <1>2, <1>3

\* Every step of the calling thread keeps the types.
LEMMA CallerTypes ==
    ASSUME TypeOK,
           \/ \E r \in Requests : SubmitEnter(r)
           \/ SubmitLocked \/ ClearEnter \/ ClearLocked \/ CallerNotify
           \/ StopLocked \/ StopNotify \/ Join
    PROVE  TypeOK'
  <1> USE DebounceAssumption DEF TypeOK, workVars, CallerStates
  <1>1. ASSUME NEW r \in Requests, SubmitEnter(r) PROVE TypeOK'
    BY <1>1 DEF SubmitEnter
  <1>2. CASE SubmitLocked
    <2>1. CASE stopping
      BY <1>2, <2>1 DEF SubmitLocked
    <2>2. CASE ~stopping
      <3>1. /\ latest' = argument /\ age' = 0 /\ token' = token + 1
            /\ caller' = "notify" /\ argument' = NoRequest
        BY <1>2, <2>2 DEF SubmitLocked
      <3>0. token \in Nat /\ Debounce \in Nat
        OBVIOUS
      <3>2. token' \in Nat /\ age' \in 0..Debounce
        <4> HIDE DEF TypeOK, CallerStates, workVars
        <4> QED
          BY <3>0, <3>1
      <3>3. latest' \in Requests \cup {NoRequest} /\ argument' \in Requests \cup {NoRequest}
        BY <3>1
      <3>4. caller' \in CallerStates /\ caller' # "submit"
        BY <3>1
      <3>5. UNCHANGED <<stopping, joined, workVars>>
        BY <1>2 DEF SubmitLocked
      <3> QED
        BY <3>2, <3>3, <3>4, <3>5
    <2> QED
      BY <2>1, <2>2
  <1>3. CASE ClearEnter
    BY <1>3 DEF ClearEnter
  <1>4. CASE ClearLocked
    BY <1>4 DEF ClearLocked
  <1>5. CASE CallerNotify
    BY <1>5, WakeAllType DEF CallerNotify
  <1>6. CASE StopLocked
    BY <1>6, MarkStoppingEffect DEF StopLocked
  <1>7. CASE StopNotify
    BY <1>7, WakeAllType DEF StopNotify
  <1>8. CASE Join
    BY <1>8 DEF Join
  <1> QED
    BY <1>1, <1>2, <1>3, <1>4, <1>5, <1>6, <1>7, <1>8

\* Every step of a worker keeps the types.
LEMMA WorkerTypes ==
    ASSUME TypeOK, NEW w \in Sources,
           WorkerStep(w) \/ SelfStop(w) \/ SpuriousWake(w)
    PROVE  TypeOK'
  <1> DEFINE WorkTypes == /\ pc' \in [Sources -> WorkerStates]
                          /\ observed' \in [Sources -> Nat]
                          /\ remaining' \in [Sources -> 0..Debounce]
                          /\ pending' \in [Sources -> Requests \cup {NoRequest}]
  <1> SUFFICES WorkTypes /\ (\/ UNCHANGED <<stopping, token, latest, age>>
                             \/ MarkStopping) /\ UNCHANGED callVars
    BY MarkStoppingEffect DEF TypeOK, callVars
  <1>1. CASE LoopTop(w)
    BY <1>1, ObserveTypes, MoveTypes DEF LoopTop, WorkerStates
  <1>2. CASE DebounceWait(w)
    BY <1>2, ObserveTypes, MoveTypes DEF DebounceWait, WorkerStates
  <1>3. CASE FetchEnd(w)
    BY <1>3, MoveTypes DEF FetchEnd, WorkerStates
  <1>4. CASE CheckCancelled(w)
    BY <1>4, MoveTypes DEF CheckCancelled, WorkerStates
  <1>5. CASE Callback(w)
    BY <1>5, MoveTypes DEF Callback, WorkerStates
  <1>6. CASE SelfNotify(w)
    BY <1>6, WakeAllType DEF SelfNotify, TypeOK, WorkerStates
  <1>7. CASE SelfStop(w)
    BY <1>7, MoveTypes DEF SelfStop, WorkerStates
  <1>8. CASE SpuriousWake(w)
    BY <1>8, MoveTypes DEF SpuriousWake, WorkerStates
  <1> QED
    BY <1>1, <1>2, <1>3, <1>4, <1>5, <1>6, <1>7, <1>8 DEF WorkerStep

\* A clock tick keeps the types: age and deadlines stay within the debounce.
LEMMA TickTypes == ASSUME TypeOK, Tick PROVE TypeOK'
  BY DebounceAssumption DEF TypeOK, Tick, callVars

-----------------------------------------------------------------------------
(* The token separates what a worker saw from what the caller has done since *)

\* Before the first request every worker has seen the current token.
LEMMA InitInStep == Init => WorkersInStep
  BY DEF Init, WorkersInStep, InStep, Debouncing, Fetching

\* A published change puts every worker behind.
LEMMA ChangePutsBehind ==
    ASSUME TypeOK, TypeOK', WorkersInStep, token < token', UNCHANGED observed
    PROVE  WorkersInStep'
  <1> SUFFICES ASSUME NEW w \in Sources
               PROVE  InStep(pc'[w], observed'[w], remaining'[w], pending'[w],
                             token', age', latest', stopping')
    BY DEF WorkersInStep
  <1>1. observed[w] <= token /\ observed'[w] = observed[w]
    BY DEF WorkersInStep, InStep
  <1>2. observed[w] \in Nat /\ token \in Nat /\ token' \in Nat
    BY DEF TypeOK
  <1>3. observed'[w] <= token' /\ observed'[w] # token'
    BY <1>1, <1>2
  <1> QED
    BY <1>3 DEF InStep

\* A step that leaves the request alone and moves no worker into another phase.
LEMMA PhasesKept ==
    ASSUME WorkersInStep, UNCHANGED <<token, age, latest, observed, remaining, pending>>,
           stopping => stopping',
           \A w \in Sources : /\ pc'[w] \in Debouncing => pc[w] \in Debouncing
                              /\ pc'[w] \in Fetching => pc[w] \in Fetching
    PROVE  WorkersInStep'
  BY DEF WorkersInStep, InStep

\* Nothing the caller does breaks what a worker may rely on.
LEMMA CallerInStep ==
    ASSUME TypeOK, TypeOK', WorkersInStep,
           \/ \E r \in Requests : SubmitEnter(r)
           \/ SubmitLocked \/ ClearEnter \/ ClearLocked \/ CallerNotify
           \/ StopLocked \/ StopNotify \/ Join
    PROVE  WorkersInStep'
  <1>0. token \in Nat /\ pc \in [Sources -> WorkerStates]
    BY DEF TypeOK
  <1>1. ASSUME NEW r \in Requests, SubmitEnter(r) PROVE WorkersInStep'
    BY <1>1, PhasesKept DEF SubmitEnter, workVars
  <1>2. CASE SubmitLocked
    <2>1. CASE stopping
      BY <1>2, <2>1, PhasesKept DEF SubmitLocked, workVars
    <2>2. CASE ~stopping
      <3>1. token' = token + 1 /\ UNCHANGED observed
        BY <1>2, <2>2 DEF SubmitLocked, workVars
      <3>2. token < token'
        BY <1>0, <3>1
      <3> QED
        BY <3>1, <3>2, ChangePutsBehind
    <2> QED
      BY <2>1, <2>2
  <1>3. CASE ClearEnter
    BY <1>3, PhasesKept DEF ClearEnter, workVars
  <1>4. CASE ClearLocked
    <2>1. token' = token + 1 /\ UNCHANGED observed
      BY <1>4 DEF ClearLocked, workVars
    <2>2. token < token'
      BY <1>0, <2>1
    <2> QED
      BY <2>1, <2>2, ChangePutsBehind
  <1>5. CASE CallerNotify
    BY <1>0, <1>5, WakeAllPlaces, PhasesKept DEF CallerNotify
  <1>6. CASE StopLocked
    <2>1. CASE stopping
      BY <1>6, <2>1, PhasesKept DEF StopLocked, MarkStopping, workVars
    <2>2. CASE ~stopping
      BY <1>6, <2>2, MarkStoppingEffect, ChangePutsBehind DEF StopLocked, workVars
    <2> QED
      BY <2>1, <2>2
  <1>7. CASE StopNotify
    BY <1>0, <1>7, WakeAllPlaces, PhasesKept DEF StopNotify
  <1>8. CASE Join
    BY <1>8, PhasesKept DEF Join, workVars
  <1> QED
    BY <1>1, <1>2, <1>3, <1>4, <1>5, <1>6, <1>7, <1>8

\* A step of one worker needs to be looked at for that worker alone.
LEMMA OneWorkerMoves ==
    ASSUME TypeOK, WorkersInStep, NEW w \in Sources,
           UNCHANGED <<stopping, token, age, latest>>,
           \A v \in Sources \ {w} : /\ pc'[v] = pc[v] /\ observed'[v] = observed[v]
                                    /\ remaining'[v] = remaining[v]
                                    /\ pending'[v] = pending[v],
           InStep(pc'[w], observed'[w], remaining'[w], pending'[w],
                  token, age, latest, stopping)
    PROVE  WorkersInStep'
  BY DEF WorkersInStep

\* A worker that only moves on, within its phase or out of it, stays in step.
LEMMA GotoInStep ==
    ASSUME TypeOK, WorkersInStep, NEW w \in Sources, NEW place \in WorkerStates,
           UNCHANGED <<stopping, token, age, latest>>,
           (Leave(w) /\ place = "done") \/ Goto(w, place),
           place \in Debouncing => pc[w] \in Debouncing,
           place \in Fetching => pc[w] \in Fetching
    PROVE  WorkersInStep'
  <1>1. pc' = [pc EXCEPT ![w] = place] /\ UNCHANGED <<observed, remaining, pending>>
    BY DEF Leave, Goto
  <1> QED
    BY <1>1, PhasesKept DEF TypeOK

\* A worker that reads token and deadline under the lock is in step.
LEMMA ObserveInStep ==
    ASSUME TypeOK, WorkersInStep, NEW w \in Sources,
           UNCHANGED <<stopping, token, age, latest>>, Observe(w)
    PROVE  WorkersInStep'
  <1>1. /\ pc'[w] = "debounce" /\ observed'[w] = token /\ remaining'[w] = Debounce - age
        /\ pending' = pending
    BY DEF Observe, TypeOK
  <1>2. token \in Nat
    BY DEF TypeOK
  <1>3. InStep(pc'[w], observed'[w], remaining'[w], pending'[w], token, age, latest, stopping)
    BY <1>1, <1>2 DEF InStep, Debouncing, Fetching
  <1>4. \A v \in Sources \ {w} : /\ pc'[v] = pc[v] /\ observed'[v] = observed[v]
                                 /\ remaining'[v] = remaining[v]
                                 /\ pending'[v] = pending[v]
    BY DEF Observe, TypeOK
  <1> QED
    BY <1>3, <1>4, OneWorkerMoves

\* A worker that copies latest_request_ under the lock is in step.
LEMMA TakeRequestInStep ==
    ASSUME TypeOK, WorkersInStep, NEW w \in Sources,
           UNCHANGED <<stopping, token, age, latest>>, TakeRequest(w)
    PROVE  WorkersInStep'
  <1>1. CASE latest # NoRequest /\ w \in latest.eligible
    <2>1. pc'[w] = "fetch" /\ pending'[w] = latest /\ latest \in Requests
      BY <1>1 DEF TakeRequest, TypeOK
    <2>2. observed[w] <= token /\ observed' = observed
      BY DEF TakeRequest, WorkersInStep, InStep
    <2>3. InStep(pc'[w], observed'[w], remaining'[w], pending'[w], token, age, latest, stopping)
      BY <2>1, <2>2 DEF InStep, Debouncing, Fetching
    <2>4. \A v \in Sources \ {w} : /\ pc'[v] = pc[v] /\ observed'[v] = observed[v]
                                   /\ remaining'[v] = remaining[v]
                                   /\ pending'[v] = pending[v]
      BY <1>1 DEF TakeRequest, TypeOK
    <2> QED
      BY <2>3, <2>4, OneWorkerMoves
  <1>2. CASE ~(latest # NoRequest /\ w \in latest.eligible)
    <2>1. Goto(w, "top")
      BY <1>2 DEF TakeRequest, Goto
    <2> QED
      BY <2>1, GotoInStep DEF WorkerStates, Debouncing, Fetching
  <1> QED
    BY <1>1, <1>2

\* Every step of a worker keeps all of them in step.
LEMMA WorkerInStep ==
    ASSUME TypeOK, TypeOK', WorkersInStep, NEW w \in Sources,
           WorkerStep(w) \/ SelfStop(w) \/ SpuriousWake(w)
    PROVE  WorkersInStep'
  <1> USE DEF WorkerStates, Debouncing, Fetching
  <1>1. CASE LoopTop(w)
    BY <1>1, ObserveInStep, GotoInStep DEF LoopTop
  <1>2. CASE DebounceWait(w)
    BY <1>2, ObserveInStep, GotoInStep, TakeRequestInStep DEF DebounceWait
  <1>3. CASE FetchEnd(w)
    BY <1>3, GotoInStep DEF FetchEnd
  <1>4. CASE CheckCancelled(w)
    BY <1>4, GotoInStep DEF CheckCancelled
  <1>5. CASE Callback(w)
    BY <1>5, GotoInStep DEF Callback
  <1>6. CASE SelfNotify(w)
    <2>1. \A v \in Sources : /\ pc'[v] \in Debouncing => pc[v] \in Debouncing
                             /\ pc'[v] \in Fetching => pc[v] \in Fetching
      <3> SUFFICES ASSUME NEW v \in Sources
                   PROVE  /\ pc'[v] \in Debouncing => pc[v] \in Debouncing
                          /\ pc'[v] \in Fetching => pc[v] \in Fetching
        OBVIOUS
      <3>1. WakeAll(pc) \in [Sources -> WorkerStates]
        BY WakeAllType DEF TypeOK
      <3>2. pc'[v] = IF v = w THEN "top" ELSE WakeAll(pc)[v]
        BY <1>6, <3>1 DEF SelfNotify
      <3> QED
        BY <3>2, WakeAllPlaces DEF TypeOK
    <2> QED
      BY <1>6, <2>1, PhasesKept DEF SelfNotify
  <1>7. CASE SelfStop(w)
    <2>1. CASE stopping
      <3>1. /\ UNCHANGED <<token, age, latest, observed, remaining, pending>> /\ stopping'
            /\ pc' = [pc EXCEPT ![w] = "self notify"]
        BY <1>7, <2>1 DEF SelfStop, MarkStopping, Goto
      <3> QED
        BY <3>1, PhasesKept DEF TypeOK
    <2>2. CASE ~stopping
      BY <1>7, <2>2, MarkStoppingEffect, ChangePutsBehind DEF SelfStop, Goto
    <2> QED
      BY <2>1, <2>2
  <1>8. CASE SpuriousWake(w)
    BY <1>8, GotoInStep DEF SpuriousWake
  <1> QED
    BY <1>1, <1>2, <1>3, <1>4, <1>5, <1>6, <1>7, <1>8 DEF WorkerStep

\* A tick moves the deadline and the age of the update together.
LEMMA TickInStep ==
    ASSUME TypeOK, WorkersInStep, Tick
    PROVE  WorkersInStep'
  <1> SUFFICES ASSUME NEW w \in Sources
               PROVE  InStep(pc[w], observed[w], remaining'[w], pending[w],
                             token, age', latest, stopping)
    BY DEF WorkersInStep, Tick, callVars
  <1>1. InStep(pc[w], observed[w], remaining[w], pending[w], token, age, latest, stopping)
    BY DEF WorkersInStep
  <1>2. age \in 0..Debounce /\ remaining[w] \in 0..Debounce /\ Debounce \in Nat
    BY DebounceAssumption DEF TypeOK
  <1>3. remaining[w] = Debounce - age => remaining'[w] = Debounce - age'
    BY <1>2 DEF Tick
  <1> QED
    BY <1>1, <1>3 DEF InStep

-----------------------------------------------------------------------------
(* stop() *)

\* The caller joins only after it has set stopping_.
LEMMA CallerStopInv ==
    ASSUME TypeOK, StopInv,
           \/ \E r \in Requests : SubmitEnter(r)
           \/ SubmitLocked \/ ClearEnter \/ ClearLocked \/ CallerNotify
           \/ StopLocked \/ StopNotify \/ Join
    PROVE  StopInv'
  <1> USE DEF StopInv, JoinedMeansQuiet, workVars
  <1>0. pc \in [Sources -> WorkerStates]
    BY DEF TypeOK
  <1>1. ASSUME NEW r \in Requests, SubmitEnter(r) PROVE StopInv'
    BY <1>1 DEF SubmitEnter
  <1>2. CASE SubmitLocked
    BY <1>2 DEF SubmitLocked
  <1>3. CASE ClearEnter
    BY <1>3 DEF ClearEnter
  <1>4. CASE ClearLocked
    BY <1>4 DEF ClearLocked
  <1>5. CASE CallerNotify
    BY <1>0, <1>5, WakeAllPlaces DEF CallerNotify
  <1>6. CASE StopLocked
    BY <1>6 DEF StopLocked, MarkStopping
  <1>7. CASE StopNotify
    BY <1>0, <1>7, WakeAllPlaces DEF StopNotify
  <1>8. CASE Join
    BY <1>8 DEF Join
  <1> QED
    BY <1>1, <1>2, <1>3, <1>4, <1>5, <1>6, <1>7, <1>8

\* A worker that takes a step has not left its loop, so nobody has joined it.
LEMMA WorkerStopInv ==
    ASSUME TypeOK, StopInv, NEW w \in Sources,
           WorkerStep(w) \/ SelfStop(w) \/ SpuriousWake(w)
    PROVE  StopInv'
  <1> USE DEF WorkerStep, LoopTop, DebounceWait, FetchEnd, CheckCancelled, Callback,
              SelfNotify, SelfStop, SpuriousWake
  <1>1. pc[w] # "done"
    OBVIOUS
  <1>2. ~joined
    BY <1>1 DEF StopInv, JoinedMeansQuiet
  <1>3. UNCHANGED callVars
    BY DEF callVars
  <1>4. stopping => stopping'
    <2>1. CASE SelfStop(w)
      BY <2>1 DEF MarkStopping
    <2>2. CASE WorkerStep(w) \/ SpuriousWake(w)
      BY <2>2
    <2> QED
      BY <2>1, <2>2
  <1> QED
    BY <1>2, <1>3, <1>4 DEF StopInv, JoinedMeansQuiet, callVars

-----------------------------------------------------------------------------
\* The service starts in its invariant.
LEMMA ServiceInvInit == Init => ServiceInv
  BY TypeInit, InitInStep DEF ServiceInv, StopInv, JoinedMeansQuiet, Init

\* The invariant of the service is inductive.
LEMMA ServiceInvNext == ServiceInv /\ [Next]_vars => ServiceInv'
  <1> SUFFICES ASSUME ServiceInv, [Next]_vars PROVE ServiceInv'
    OBVIOUS
  <1> USE DEF ServiceInv
  <1>1. CASE Call \/ CallerStep
    <2>1. \/ \E r \in Requests : SubmitEnter(r)
          \/ SubmitLocked \/ ClearEnter \/ ClearLocked \/ CallerNotify
          \/ StopLocked \/ StopNotify \/ Join
      BY <1>1 DEF Call, CallerStep
    <2>2. TypeOK'
      BY <2>1, CallerTypes
    <2> QED
      BY <2>1, <2>2, CallerInStep, CallerStopInv
  <1>2. CASE Tick
    BY <1>2, TickTypes, TickInStep DEF Tick, callVars, StopInv, JoinedMeansQuiet
  <1>3. ASSUME NEW w \in Sources, WorkerStep(w) \/ SelfStop(w) \/ SpuriousWake(w)
        PROVE  ServiceInv'
    <2>1. TypeOK'
      BY <1>3, WorkerTypes
    <2> QED
      BY <1>3, <2>1, WorkerInStep, WorkerStopInv
  <1>4. CASE UNCHANGED vars
    BY <1>4 DEF vars, TypeOK, WorkersInStep, StopInv, JoinedMeansQuiet
  <1> QED
    BY <1>1, <1>2, <1>3, <1>4 DEF Next

\* The inductive invariant of the service, for every instance.
THEOREM ServiceInvariant == Spec => []ServiceInv
  BY ServiceInvInit, ServiceInvNext, PTL DEF Spec

\* Every variable keeps its type: the token stays a number the workers may compare
\* with what they observed, and no deadline exceeds the debounce interval.
THEOREM ServiceTypes == Spec => []TypeOK
  <1>1. ServiceInv => TypeOK
    BY DEF ServiceInv
  <1> QED
    BY <1>1, ServiceInvariant, PTL

\* Once stop() has returned, no worker runs: the providers and the callback may
\* be destroyed.
THEOREM JoinedIsQuiet == Spec => []JoinedMeansQuiet
  <1>1. ServiceInv => JoinedMeansQuiet
    BY DEF ServiceInv, StopInv
  <1> QED
    BY <1>1, ServiceInvariant, PTL

-----------------------------------------------------------------------------
(* What a worker may do *)

\* Only a worker's own step moves it into a fetch or into the callback.
LEMMA OnlyItsOwnStep ==
    ASSUME TypeOK, [Next]_vars, NEW v \in Sources,
           \/ pc[v] # "fetch" /\ pc'[v] = "fetch"
           \/ pc[v] # "callback" /\ pc'[v] = "callback"
    PROVE  DebounceWait(v) \/ CheckCancelled(v)
  <1>0. pc \in [Sources -> WorkerStates] /\ WakeAll(pc) \in [Sources -> WorkerStates]
    BY WakeAllType DEF TypeOK
  <1>1. CASE Call \/ CallerStep
    <2>1. pc' = pc \/ pc' = WakeAll(pc)
      BY <1>1 DEF Call, CallerStep, SubmitEnter, SubmitLocked, ClearEnter, ClearLocked,
                  CallerNotify, StopLocked, StopNotify, Join, workVars
    <2> QED
      BY <1>0, <2>1, WakeAllPlaces
  <1>2. CASE Tick \/ UNCHANGED vars
    BY <1>2 DEF Tick, vars
  <1>3. ASSUME NEW w \in Sources, WorkerStep(w) \/ SelfStop(w) \/ SpuriousWake(w)
        PROVE  DebounceWait(v) \/ CheckCancelled(v)
    <2>1. CASE LoopTop(w) \/ FetchEnd(w) \/ Callback(w) \/ SelfStop(w) \/ SpuriousWake(w)
      BY <1>0, <2>1 DEF LoopTop, FetchEnd, Callback, SelfStop, SpuriousWake, Goto, Leave, Observe
    <2>2. CASE SelfNotify(w)
      <3>1. pc'[v] = IF v = w THEN "top" ELSE WakeAll(pc)[v]
        BY <1>0, <2>2 DEF SelfNotify
      <3> QED
        BY <1>0, <3>1, WakeAllPlaces
    <2>3. CASE DebounceWait(w)
      <3>1. v = w
        BY <1>0, <2>3 DEF DebounceWait, Goto, Leave, Observe, TakeRequest
      <3> QED
        BY <2>3, <3>1
    <2>4. CASE CheckCancelled(w)
      <3>1. v = w
        BY <1>0, <2>4 DEF CheckCancelled, Goto
      <3> QED
        BY <2>4, <3>1
    <2> QED
      BY <1>3, <2>1, <2>2, <2>3, <2>4 DEF WorkerStep
  <1> QED
    BY <1>1, <1>2, <1>3 DEF Next

\* A fetch starts only for the latest request, on a source it allows, after the
\* caller has been quiet for the whole debounce interval.
THEOREM FetchesQuietLatest == Spec => FetchesOnlyQuietLatest
  <1>1. ASSUME ServiceInv, [Next]_vars PROVE StartsQuietLatest
    <2> SUFFICES ASSUME NEW w \in Sources, pc[w] # "fetch", pc'[w] = "fetch"
                 PROVE  /\ ~stopping /\ age = Debounce /\ latest \in Requests
                        /\ w \in latest.eligible /\ pending'[w] = latest
      BY DEF StartsQuietLatest
    <2>1. TypeOK /\ WorkersInStep
      BY <1>1 DEF ServiceInv
    <2>0. pc \in [Sources -> WorkerStates]
      BY <2>1 DEF TypeOK
    <2>2. DebounceWait(w)
      <3>1. ~CheckCancelled(w)
        BY <2>0 DEF CheckCancelled, Goto
      <3> QED
        BY <1>1, <2>1, <3>1, OnlyItsOwnStep
    <2>3. ~Changed(w) /\ remaining[w] = 0 /\ TakeRequest(w)
      BY <2>0, <2>2 DEF DebounceWait, Leave, Goto, Observe
    <2>4. latest # NoRequest /\ w \in latest.eligible /\ pending' = [pending EXCEPT ![w] = latest]
      BY <2>0, <2>3 DEF TakeRequest
    <2>5. latest \in Requests /\ pending'[w] = latest
      BY <2>1, <2>4 DEF TypeOK
    <2>6. pc[w] \in Debouncing /\ observed[w] = token /\ ~stopping
      BY <2>2, <2>3 DEF DebounceWait, Changed, Debouncing
    <2>7. remaining[w] = Debounce - age
      BY <2>1, <2>6 DEF WorkersInStep, InStep
    <2>8. age \in 0..Debounce /\ Debounce \in Nat
      BY <2>1, DebounceAssumption DEF TypeOK
    <2>9. age = Debounce
      BY <2>3, <2>7, <2>8
    <2> QED
      BY <2>4, <2>5, <2>6, <2>9
  <1> QED
    BY <1>1, ServiceInvariant, PTL DEF FetchesOnlyQuietLatest, Spec

\* The callback is entered only for the request that is still the latest.
THEOREM CallsBackForLatest == Spec => CallsBackOnlyForLatest
  <1>1. ASSUME ServiceInv, [Next]_vars PROVE EntersLatest
    <2> SUFFICES ASSUME NEW w \in Sources, pc[w] # "callback", pc'[w] = "callback"
                 PROVE  ~stopping /\ latest \in Requests /\ pending[w] = latest
      BY DEF EntersLatest
    <2>1. TypeOK /\ WorkersInStep
      BY <1>1 DEF ServiceInv
    <2>0. pc \in [Sources -> WorkerStates]
      BY <2>1 DEF TypeOK
    <2>2. CheckCancelled(w)
      <3>1. ~DebounceWait(w)
        BY <2>0 DEF DebounceWait, Goto, Leave, Observe, TakeRequest
      <3> QED
        BY <1>1, <2>1, <3>1, OnlyItsOwnStep
    <2>3. pc[w] \in Fetching /\ ~Changed(w)
      BY <2>0, <2>2 DEF CheckCancelled, Goto, Fetching
    <2>4. observed[w] = token /\ ~stopping
      BY <2>3 DEF Changed
    <2> QED
      BY <2>1, <2>3, <2>4 DEF WorkersInStep, InStep
  <1> QED
    BY <1>1, ServiceInvariant, PTL DEF CallsBackOnlyForLatest, Spec

-----------------------------------------------------------------------------
(***************************************************************************)
(* The engine and its service.                                             *)
(*                                                                         *)
(* A generation is used for one composition only.  So it is enough that    *)
(* every request anywhere -- in the hands of the caller, in the service,   *)
(* copied by a worker, queued in the main loop -- is not newer than the    *)
(* controller and, if it carries the controller's own generation, asks     *)
(* about what is being composed (Stamped).  The invariants of the service  *)
(* are taken over action by action.                                        *)
(***************************************************************************)

\* A request agrees with a controller at generation g composing c.
StampedBy(r, g, c) ==
    r # NoRequest => r.generation <= g /\ (r.generation = g => r.query = c)

Stamped(r) == StampedBy(r, generation, composition)

EngineVarsTypeOK ==
    /\ composition \in Queries \cup {NoComposition}
    /\ generation \in 1..MaxGeneration
    /\ shown \in SUBSET Candidate
    /\ mainLoop \in Seq(Delivery)
    /\ handle \in BOOLEAN
    /\ life \in {"alive", "disposed", "finalizing", "freed"}

RequestsStamped ==
    /\ Stamped(latest)
    /\ Stamped(argument)
    /\ \A w \in Sources : Stamped(pending[w])
    /\ \A i \in 1..Len(mainLoop) : Stamped(mainLoop[i].request)

\* A worker that fetches or answers has a request to do it for.
CopiesPresent == \A w \in Sources : pc[w] \in Fetching => pending[w] \in Requests

\* finalize has cut the handle after dispose had joined the workers.
LifeInv == life \in {"finalizing", "freed"} => ~handle /\ joined

EngineInv ==
    /\ ServiceInv
    /\ EngineVarsTypeOK
    /\ CopiesPresent
    /\ RequestsStamped
    /\ ShownMatchComposition
    /\ LifeInv

-----------------------------------------------------------------------------
(* The service's share of every engine step *)

CallerAction ==
    \/ \E r \in Requests : SubmitEnter(r)
    \/ SubmitLocked \/ ClearEnter \/ ClearLocked \/ CallerNotify
    \/ StopLocked \/ StopNotify \/ Join

\* refresh_online enters submit or clear, with the query and generation given.
LEMMA RefreshIsCallerAction ==
    ASSUME NEW query \in Queries \cup {NoComposition}, NEW gen \in 1..MaxGeneration,
           RefreshOnline(query, gen)
    PROVE  /\ CallerAction
           /\ UNCHANGED <<stopping, token, latest, age, joined, workVars>>
           /\ \/ argument' = argument
              \/ argument' = NoRequest
              \/ /\ argument' \in Requests
                 /\ argument'.generation = gen
                 /\ argument'.query = query
  <1>1. CASE query = NoComposition
    BY <1>1 DEF RefreshOnline, ClearEnter, CallerAction
  <1>2. CASE query # NoComposition
    <2>1. PICK e \in SUBSET Sources :
            SubmitEnter([generation |-> gen, query |-> query, eligible |-> e])
      BY <1>2 DEF RefreshOnline
    <2>2. [generation |-> gen, query |-> query, eligible |-> e] \in Requests
      BY <1>2, RequestShape
    <2> QED
      BY <2>1, <2>2 DEF SubmitEnter, CallerAction
  <1> QED
    BY <1>1, <1>2

\* The caller's steps keep the invariant of the service.
LEMMA CallerKeepsService ==
    ASSUME ServiceInv, CallerAction
    PROVE  ServiceInv'
  <1>1. TypeOK'
    BY CallerTypes DEF ServiceInv, CallerAction
  <1> QED
    BY <1>1, CallerInStep, CallerStopInv DEF ServiceInv, CallerAction

\* A worker's steps keep the invariant of the service.
LEMMA WorkerKeepsService ==
    ASSUME ServiceInv, NEW w \in Sources, WorkerStep(w) \/ SpuriousWake(w)
    PROVE  ServiceInv'
  <1>1. TypeOK'
    BY WorkerTypes DEF ServiceInv
  <1> QED
    BY <1>1, WorkerInStep, WorkerStopInv DEF ServiceInv

\* So does a step that leaves the service alone.
LEMMA StillService ==
    ASSUME ServiceInv, UNCHANGED vars
    PROVE  ServiceInv'
  BY DEF ServiceInv, vars, TypeOK, WorkersInStep, StopInv, JoinedMeansQuiet

-----------------------------------------------------------------------------
(* Stamps *)

\* A fresh generation leaves every earlier request behind.
LEMMA OlderAreStamped ==
    ASSUME NEW r \in Requests \cup {NoRequest}, generation \in 1..MaxGeneration, Stamped(r),
           NEW c
    PROVE  StampedBy(r, generation + 1, c)
  <1> SUFFICES ASSUME r # NoRequest
               PROVE  r.generation <= generation + 1 /\ r.generation # generation + 1
    BY DEF StampedBy
  <1>1. r.generation \in Int /\ generation \in Int
    BY RequestShape, MaxGenerationAssumption
  <1>2. r.generation <= generation
    BY DEF Stamped, StampedBy
  <1> QED
    BY <1>1, <1>2

\* The service only hands requests on: it makes none and changes none.
LEMMA ServiceHandsOn ==
    ASSUME TypeOK, ServiceStep
    PROVE  /\ latest' = latest \/ latest' = argument \/ latest' = NoRequest
           /\ argument' = argument \/ argument' = NoRequest
           /\ \A w \in Sources : pending'[w] = pending[w] \/ pending'[w] = latest
  <1>1. CASE CallerStep
    BY <1>1 DEF CallerStep, SubmitLocked, ClearLocked, CallerNotify, StopNotify, Join, workVars
  <1>2. CASE Tick
    BY <1>2 DEF Tick, callVars
  <1>3. ASSUME NEW w \in Sources,
               \/ LoopTop(w) \/ DebounceWait(w) \/ FetchEnd(w)
               \/ CheckCancelled(w) \/ SpuriousWake(w)
        PROVE  /\ latest' = latest /\ argument' = argument
               /\ \A v \in Sources : pending'[v] = pending[v] \/ pending'[v] = latest
    <2>1. latest' = latest /\ argument' = argument
      BY <1>3 DEF LoopTop, DebounceWait, FetchEnd, CheckCancelled, SpuriousWake, callVars
    <2>2. pending' = pending \/ pending' = [pending EXCEPT ![w] = latest]
      BY <1>3 DEF LoopTop, DebounceWait, FetchEnd, CheckCancelled, SpuriousWake,
                  Leave, Goto, Observe, TakeRequest
    <2> QED
      BY <2>1, <2>2 DEF TypeOK
  <1> QED
    BY <1>1, <1>2, <1>3 DEF ServiceStep

\* Every place a request can be in holds one, or none.
LEMMA WhereRequestsAre ==
    ASSUME TypeOK, EngineVarsTypeOK
    PROVE  /\ latest \in Requests \cup {NoRequest} /\ argument \in Requests \cup {NoRequest}
           /\ \A w \in Sources : pending[w] \in Requests \cup {NoRequest}
           /\ \A i \in 1..Len(mainLoop) : mainLoop[i].request \in Requests
  <1>1. /\ latest \in Requests \cup {NoRequest} /\ argument \in Requests \cup {NoRequest}
        /\ \A w \in Sources : pending[w] \in Requests \cup {NoRequest}
    BY DEF TypeOK
  <1>2. \A i \in 1..Len(mainLoop) : mainLoop[i] \in Delivery
    BY DEF EngineVarsTypeOK
  <1>3. \A d \in Delivery : d.request \in Requests
    BY DEF Delivery
  <1> QED
    BY <1>1, <1>2, <1>3

\* A copy is made before the fetch and kept until the callback has ended.
LEMMA CopiesKept ==
    ASSUME TypeOK, CopiesPresent,
           \/ CallerAction \/ Tick \/ UNCHANGED vars
           \/ \E w \in Sources : WorkerStep(w) \/ SpuriousWake(w)
    PROVE  CopiesPresent'
  <1> USE DEF CopiesPresent
  <1>0. /\ pc \in [Sources -> WorkerStates] /\ WakeAll(pc) \in [Sources -> WorkerStates]
        /\ \A w \in Sources : WakeAll(pc)[w] \in Fetching <=> pc[w] \in Fetching
    BY WakeAllType, WakeAllPlaces DEF TypeOK
  <1>1. CASE CallerAction
    <2>1. pending' = pending /\ (pc' = pc \/ pc' = WakeAll(pc))
      BY <1>1 DEF CallerAction, SubmitEnter, SubmitLocked, ClearEnter, ClearLocked,
                  CallerNotify, StopLocked, StopNotify, Join, workVars
    <2> QED
      BY <1>0, <2>1
  <1>2. CASE Tick \/ UNCHANGED vars
    BY <1>2 DEF Tick, vars
  <1>3. ASSUME NEW w \in Sources, WorkerStep(w) \/ SpuriousWake(w) PROVE CopiesPresent'
    <2>1. CASE SelfNotify(w)
      <3>1. pc' = [WakeAll(pc) EXCEPT ![w] = "top"] /\ pending' = pending
        BY <2>1 DEF SelfNotify
      <3> QED
        BY <1>0, <3>1 DEF Fetching
    <2>2. CASE DebounceWait(w)
      <3>1. CASE TakeRequest(w)
        <4>1. CASE latest # NoRequest /\ w \in latest.eligible
          <5>1. /\ latest \in Requests /\ pending' = [pending EXCEPT ![w] = latest]
                /\ pc' = [pc EXCEPT ![w] = "fetch"]
                /\ pending \in [Sources -> Requests \cup {NoRequest}]
            BY <3>1, <4>1 DEF TakeRequest, TypeOK
          <5> QED
            BY <1>0, <5>1
        <4>2. CASE ~(latest # NoRequest /\ w \in latest.eligible)
          BY <1>0, <3>1, <4>2 DEF TakeRequest, Fetching
        <4> QED
          BY <4>1, <4>2
      <3>2. CASE ~TakeRequest(w)
        BY <1>0, <2>2, <3>2 DEF DebounceWait, Leave, Goto, Observe, Fetching
      <3> QED
        BY <3>1, <3>2
    <2>3. CASE LoopTop(w) \/ FetchEnd(w) \/ CheckCancelled(w) \/ Callback(w) \/ SpuriousWake(w)
      BY <1>0, <2>3 DEF LoopTop, FetchEnd, CheckCancelled, Callback, SpuriousWake,
                        Leave, Goto, Observe, Fetching
    <2> QED
      BY <1>3, <2>1, <2>2, <2>3 DEF WorkerStep
  <1> QED
    BY <1>1, <1>2, <1>3

\* A handler that makes a fresh generation and refreshes the service.
LEMMA FreshHandler ==
    ASSUME EngineInv, NEW query \in Queries \cup {NoComposition},
           Handler, generation < MaxGeneration,
           generation' = FreshGeneration, composition' = query,
           shown' = {} \/ (shown' = shown /\ query = composition),
           RefreshOnline(query, FreshGeneration)
    PROVE  EngineInv'
  <1>0. /\ ServiceInv /\ EngineVarsTypeOK /\ RequestsStamped /\ TypeOK /\ CopiesPresent
        /\ ShownMatchComposition /\ LifeInv
    BY DEF EngineInv, ServiceInv
  <1>1. FreshGeneration \in 1..MaxGeneration /\ generation \in 1..MaxGeneration
    BY <1>0, MaxGenerationAssumption DEF FreshGeneration, EngineVarsTypeOK
  <1>2. /\ CallerAction
        /\ UNCHANGED <<stopping, token, latest, age, joined, workVars>>
        /\ \/ argument' = argument
           \/ argument' = NoRequest
           \/ /\ argument' \in Requests
              /\ argument'.generation = FreshGeneration
              /\ argument'.query = query
    BY <1>1, RefreshIsCallerAction
  <1>3. ServiceInv'
    BY <1>0, <1>2, CallerKeepsService
  <1>4. EngineVarsTypeOK'
    <2>1. composition' \in Queries \cup {NoComposition} /\ generation' \in 1..MaxGeneration
      BY <1>1
    <2>2. shown' \in SUBSET Candidate
      BY <1>0 DEF EngineVarsTypeOK
    <2> QED
      BY <1>0, <2>1, <2>2 DEF EngineVarsTypeOK, Handler
  <1>5. ASSUME NEW r \in Requests \cup {NoRequest}, Stamped(r)
        PROVE  StampedBy(r, generation', composition')
    BY <1>1, <1>5, OlderAreStamped DEF FreshGeneration
  <1>6. /\ latest' = latest /\ pending' = pending /\ mainLoop' = mainLoop
        /\ latest \in Requests \cup {NoRequest} /\ argument \in Requests \cup {NoRequest}
        /\ \A w \in Sources : pending[w] \in Requests \cup {NoRequest}
        /\ \A i \in 1..Len(mainLoop) : mainLoop[i].request \in Requests
    BY <1>0, <1>2, WhereRequestsAre DEF Handler, workVars
  <1>7. StampedBy(argument', generation', composition')
    <2>1. CASE argument' = argument \/ argument' = NoRequest
      <3>1. Stamped(argument)
        BY <1>0 DEF RequestsStamped
      <3> QED
        BY <1>5, <1>6, <2>1, <3>1 DEF StampedBy
    <2>2. CASE /\ argument' \in Requests
               /\ argument'.generation = FreshGeneration
               /\ argument'.query = query
      BY <1>1, <2>2 DEF StampedBy
    <2> QED
      BY <1>2, <2>1, <2>2
  <1>8. RequestsStamped'
    <2>1. StampedBy(latest', generation', composition')
      BY <1>0, <1>5, <1>6 DEF RequestsStamped
    <2>2. \A w \in Sources : StampedBy(pending'[w], generation', composition')
      BY <1>0, <1>5, <1>6 DEF RequestsStamped
    <2>3. \A i \in 1..Len(mainLoop') : StampedBy(mainLoop'[i].request, generation', composition')
      BY <1>0, <1>5, <1>6 DEF RequestsStamped
    <2> QED
      BY <1>7, <2>1, <2>2, <2>3 DEF RequestsStamped, Stamped
  <1>9. ShownMatchComposition' /\ LifeInv'
    BY <1>0 DEF ShownMatchComposition, LifeInv, Handler
  <1> QED
    BY <1>0, <1>2, <1>3, <1>4, <1>8, <1>9, CopiesKept DEF EngineInv

-----------------------------------------------------------------------------
\* The engine starts in its invariant.
LEMMA EngineInvInit == EngineInit => EngineInv
  <1> SUFFICES ASSUME EngineInit PROVE EngineInv
    OBVIOUS
  <1>1. ServiceInv
    BY ServiceInvInit DEF EngineInit
  <1>2. EngineVarsTypeOK
    BY MaxGenerationAssumption DEF EngineInit, EngineVarsTypeOK
  <1>3. RequestsStamped
    BY DEF EngineInit, Init, RequestsStamped, Stamped, StampedBy
  <1>4. CopiesPresent
    BY DEF EngineInit, Init, CopiesPresent, Fetching
  <1> QED
    BY <1>1, <1>2, <1>3, <1>4 DEF EngineInv, EngineInit, ShownMatchComposition, LifeInv

\* The invariant of the engine is inductive.
LEMMA EngineInvNext == EngineInv /\ [EngineNext]_allVars => EngineInv'
  <1> SUFFICES ASSUME EngineInv, [EngineNext]_allVars PROVE EngineInv'
    OBVIOUS
  <1>0. /\ ServiceInv /\ EngineVarsTypeOK /\ RequestsStamped /\ TypeOK /\ CopiesPresent
        /\ ShownMatchComposition /\ LifeInv
    BY DEF EngineInv, ServiceInv
  <1>a. composition \in Queries \cup {NoComposition} /\ generation \in 1..MaxGeneration
    BY <1>0 DEF EngineVarsTypeOK
  <1>1. ASSUME NEW q \in Queries \cup {NoComposition}, Compose(q) PROVE EngineInv'
    BY <1>1, FreshHandler DEF Compose
  <1>2. CASE Navigate
    <2>1. /\ CallerAction
          /\ UNCHANGED <<stopping, token, latest, age, joined, workVars>>
          /\ \/ argument' = argument
             \/ argument' = NoRequest
             \/ /\ argument' \in Requests
                /\ argument'.generation = generation
                /\ argument'.query = composition
      BY <1>2, <1>a, RefreshIsCallerAction DEF Navigate
    <2>2. ServiceInv'
      BY <1>0, <2>1, CallerKeepsService
    <2>3. UNCHANGED engineVars
      BY <1>2 DEF Navigate, Handler, engineVars
    <2>4. Stamped(argument)'
      BY <1>0, <1>a, <2>1, <2>3 DEF Stamped, StampedBy, RequestsStamped, engineVars
    <2>5. RequestsStamped'
      BY <1>0, <2>1, <2>3, <2>4 DEF RequestsStamped, Stamped, engineVars, workVars
    <2> QED
      BY <1>0, <2>1, <2>2, <2>3, <2>5, CopiesKept
         DEF EngineInv, EngineVarsTypeOK, engineVars, ShownMatchComposition, LifeInv
  <1>3. CASE Invalidate
    BY <1>3, <1>a, FreshHandler DEF Invalidate
  <1>4. CASE Enable
    <2>1. FreshGeneration \in 1..MaxGeneration
      BY <1>4, <1>a, MaxGenerationAssumption DEF Enable, FreshGeneration
    <2>2. ASSUME NEW r \in Requests \cup {NoRequest}, Stamped(r)
          PROVE  Stamped(r)'
      BY <1>4, <1>a, <2>2, OlderAreStamped DEF Enable, FreshGeneration, Stamped
    <2>a. /\ latest \in Requests \cup {NoRequest} /\ argument \in Requests \cup {NoRequest}
          /\ \A w \in Sources : pending[w] \in Requests \cup {NoRequest}
          /\ \A i \in 1..Len(mainLoop) : mainLoop[i].request \in Requests
      BY <1>0, WhereRequestsAre
    <2>b. /\ Stamped(latest)' /\ Stamped(argument)'
          /\ \A w \in Sources : Stamped(pending[w])'
          /\ \A i \in 1..Len(mainLoop) : Stamped(mainLoop[i].request)'
      BY <1>0, <1>4, <2>2, <2>a DEF RequestsStamped, Enable, Handler, vars
    <2>3. RequestsStamped'
      BY <1>4, <2>b DEF RequestsStamped, Enable, Handler, vars
    <2>4. ServiceInv'
      BY <1>0, <1>4, StillService DEF Enable
    <2> QED
      BY <1>0, <1>4, <2>1, <2>3, <2>4
         DEF EngineInv, EngineVarsTypeOK, Enable, Handler, vars, ShownMatchComposition, LifeInv,
             CopiesPresent
  <1>5. CASE Reload
    BY <1>5, FreshHandler DEF Reload
  <1>6. ASSUME NEW w \in Sources, QueueResult(w) PROVE EngineInv'
    <2>1. ServiceInv'
      BY <1>0, <1>6, WorkerKeepsService DEF QueueResult, WorkerStep
    <2>2. pending[w] \in Requests
      BY <1>0, <1>6 DEF QueueResult, Callback, CopiesPresent, Fetching
    <2>3. /\ UNCHANGED <<latest, argument, joined, pending, composition, generation, shown,
                         handle, life>>
          /\ mainLoop' = Append(mainLoop, [request |-> pending[w], source |-> w])
      BY <1>6 DEF QueueResult, Callback, Goto, callVars
    <2>4. mainLoop \in Seq(Delivery) /\ [request |-> pending[w], source |-> w] \in Delivery
      BY <1>0, <2>2 DEF EngineVarsTypeOK, Delivery
    <2>5. EngineVarsTypeOK'
      BY <1>0, <2>3, <2>4 DEF EngineVarsTypeOK
    <2>6. \A i \in 1..Len(mainLoop') :
             \/ i \in 1..Len(mainLoop) /\ mainLoop'[i] = mainLoop[i]
             \/ mainLoop'[i].request = pending[w]
      BY <2>3, <2>4
    <2>7. RequestsStamped'
      BY <1>0, <2>3, <2>6 DEF RequestsStamped, Stamped
    <2>8. CopiesPresent'
      BY <1>0, <1>6, CopiesKept DEF QueueResult, WorkerStep
    <2> QED
      BY <1>0, <2>1, <2>3, <2>5, <2>7, <2>8 DEF EngineInv, ShownMatchComposition, LifeInv
  <1>7. CASE Deliver
    <2>1. ServiceInv'
      BY <1>0, <1>7, StillService DEF Deliver
    <2>2. mainLoop \in Seq(Delivery) /\ mainLoop # <<>> /\ mainLoop' = Tail(mainLoop)
      BY <1>0, <1>7 DEF Deliver, EngineVarsTypeOK
    <2>3. /\ Head(mainLoop) = mainLoop[1] /\ 1 \in 1..Len(mainLoop)
          /\ mainLoop' \in Seq(Delivery)
          /\ \A i \in 1..Len(mainLoop') : /\ i + 1 \in 1..Len(mainLoop)
                                          /\ mainLoop'[i] = mainLoop[i + 1]
      BY <2>2
    <2>4. /\ Stamped(Head(mainLoop).request)
          /\ Head(mainLoop) \in Delivery
      BY <1>0, <2>2, <2>3 DEF RequestsStamped
    <2>5. UNCHANGED <<vars, composition, generation, handle, life>>
      BY <1>7 DEF Deliver
    <2>6. RequestsStamped'
      BY <1>0, <2>3, <2>5 DEF RequestsStamped, Stamped, vars
    <2>7. CASE UNCHANGED shown
      BY <1>0, <2>1, <2>3, <2>5, <2>6, <2>7
         DEF EngineInv, EngineVarsTypeOK, ShownMatchComposition, LifeInv, CopiesPresent, vars
    <2>8. CASE ~UNCHANGED shown
      <3> DEFINE d == Head(mainLoop)
      <3>1. /\ d.request.generation = generation
            /\ shown' = shown \cup {[query |-> d.request.query, source |-> d.source]}
        BY <1>7, <2>8 DEF Deliver
      <3>2. d.request \in Requests /\ d.source \in Sources
        BY <2>4 DEF Delivery
      <3>3. d.request.query = composition /\ d.request.query \in Queries
        BY <2>4, <3>1, <3>2, RequestShape, NoRequestAssumption DEF Stamped, StampedBy
      <3>4. shown' \in SUBSET Candidate
        BY <1>0, <3>1, <3>2, <3>3 DEF EngineVarsTypeOK, Candidate
      <3>5. ShownMatchComposition'
        BY <1>0, <2>5, <3>1, <3>3 DEF ShownMatchComposition
      <3> QED
        BY <1>0, <2>1, <2>3, <2>5, <2>6, <3>4, <3>5
           DEF EngineInv, EngineVarsTypeOK, LifeInv, CopiesPresent, vars
    <2> QED
      BY <2>7, <2>8
  <1>8. CASE Dispose \/ Finalize
    <2>1. CallerAction /\ UNCHANGED <<latest, argument, joined, pending>>
      BY <1>8 DEF Dispose, Finalize, CallerAction, StopLocked, MarkStopping, workVars
    <2>2. ServiceInv' /\ CopiesPresent'
      BY <1>0, <2>1, CallerKeepsService, CopiesKept
    <2>3. UNCHANGED <<composition, generation, shown, mainLoop>>
      BY <1>8 DEF Dispose, Finalize
    <2>4. RequestsStamped' /\ ShownMatchComposition'
      BY <1>0, <2>1, <2>3 DEF RequestsStamped, Stamped, ShownMatchComposition
    <2>5. /\ handle' \in BOOLEAN /\ life' \in {"alive", "disposed", "finalizing", "freed"}
          /\ LifeInv'
      BY <1>0, <1>8, <2>1 DEF Dispose, Finalize, EngineVarsTypeOK, LifeInv
    <2> QED
      BY <1>0, <2>2, <2>3, <2>4, <2>5 DEF EngineInv, EngineVarsTypeOK
  <1>9. CASE Free
    <2>1. ServiceInv'
      BY <1>0, <1>9, StillService DEF Free
    <2>2. RequestsStamped' /\ ShownMatchComposition' /\ CopiesPresent'
      BY <1>0, <1>9 DEF Free, vars, RequestsStamped, Stamped, ShownMatchComposition, CopiesPresent
    <2> QED
      BY <1>0, <1>9, <2>1, <2>2 DEF EngineInv, Free, EngineVarsTypeOK, LifeInv, vars
  <1>10. CASE ServiceStep
    <2>1. \/ CallerAction \/ Tick
          \/ \E w \in Sources : WorkerStep(w) \/ SpuriousWake(w)
      BY <1>10 DEF ServiceStep, CallerAction, CallerStep, WorkerStep
    <2>2. ServiceInv'
      BY <1>0, <2>1, CallerKeepsService, WorkerKeepsService, ServiceInvNext DEF Next
    <2>3. CopiesPresent'
      BY <1>0, <2>1, CopiesKept
    <2>4. RequestsStamped'
      <3>1. /\ latest' = latest \/ latest' = argument \/ latest' = NoRequest
            /\ argument' = argument \/ argument' = NoRequest
            /\ \A w \in Sources : pending'[w] = pending[w] \/ pending'[w] = latest
            /\ UNCHANGED <<composition, generation, mainLoop>>
        BY <1>0, <1>10, ServiceHandsOn DEF ServiceStep, engineVars
      <3>2. Stamped(NoRequest)'
        BY DEF Stamped, StampedBy
      <3> QED
        BY <1>0, <3>1, <3>2 DEF RequestsStamped, Stamped
    <2>5. joined => joined'
      BY <1>10 DEF ServiceStep, CallerStep, SubmitLocked, ClearLocked, CallerNotify, StopNotify,
                   Join, Tick, LoopTop, DebounceWait, FetchEnd, CheckCancelled, SpuriousWake, callVars
    <2> QED
      BY <1>0, <1>10, <2>2, <2>3, <2>4, <2>5
         DEF EngineInv, ServiceStep, engineVars, EngineVarsTypeOK, ShownMatchComposition, LifeInv
  <1>11. CASE UNCHANGED allVars
    <2>1. ServiceInv'
      BY <1>0, <1>11, StillService DEF allVars
    <2> QED
      BY <1>0, <1>11, <2>1
         DEF EngineInv, allVars, vars, engineVars, EngineVarsTypeOK, RequestsStamped, Stamped,
             ShownMatchComposition, LifeInv, CopiesPresent
  <1> QED
    BY <1>1, <1>2, <1>3, <1>4, <1>5, <1>6, <1>7, <1>8, <1>9, <1>10, <1>11 DEF EngineNext

\* The inductive invariant of the engine and its service together.
THEOREM EngineInvariant == EngineSpec => []EngineInv
  BY EngineInvInit, EngineInvNext, PTL DEF EngineSpec

\* No late answer reaches another composition: what the candidate table shows
\* from an online source answers what is being composed.
THEOREM ShownAnswersComposition == EngineSpec => []ShownMatchComposition
  <1>1. EngineInv => ShownMatchComposition
    BY DEF EngineInv
  <1> QED
    BY <1>1, EngineInvariant, PTL

\* The values of all variables of the engine and of the service.
THEOREM EngineTypes == EngineSpec => []EngineTypeOK
  <1>1. EngineInv => EngineTypeOK
    BY DEF EngineInv, ServiceInv, EngineTypeOK, EngineVarsTypeOK
  <1> QED
    BY <1>1, EngineInvariant, PTL

\* After finalize neither a queued delivery nor a worker touches the engine.
THEOREM FreedIsUntouched == EngineSpec => FreedEngineIsUntouched
  <1>1. ASSUME EngineInv, [EngineNext]_allVars, life = "freed"
        PROVE  shown' = shown /\ \A w \in Sources : pc[w] = "done"
    <2>1. ~handle /\ joined
      BY <1>1 DEF EngineInv, LifeInv
    <2>2. \A w \in Sources : pc[w] = "done"
      BY <1>1, <2>1 DEF EngineInv, ServiceInv, StopInv, JoinedMeansQuiet
    <2>3. shown' = shown
      BY <1>1, <2>1 DEF EngineNext, Compose, Navigate, Invalidate, Enable, Reload, Handler,
                        QueueResult, Deliver, Dispose, Finalize, Free, ServiceStep, engineVars,
                        allVars
    <2> QED
      BY <2>2, <2>3
  <1> QED
    BY <1>1, EngineInvariant, PTL DEF EngineSpec, FreedEngineIsUntouched

=============================================================================
