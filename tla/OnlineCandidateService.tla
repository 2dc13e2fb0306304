------------------------ MODULE OnlineCandidateService ------------------------
(***************************************************************************)
(* The worker pool of src/online/OnlineCandidateService.cpp.               *)
(*                                                                         *)
(* One caller thread (the IBus main loop) calls submit, clear and stop.    *)
(* One worker thread per candidate source waits for the request token to   *)
(* change, lets the request settle for the debounce interval, fetches a    *)
(* candidate without the lock and hands it to the callback.                *)
(*                                                                         *)
(* Everything done under mutex_ without blocking is one step.  A condition *)
(* variable wait is left only through NotifyAll, the deadline or, for the  *)
(* safety properties, a spurious wake-up, so a lost wake-up is a behaviour *)
(* of the model and not something it rules out.                            *)
(***************************************************************************)
EXTENDS Integers, FiniteSets

CONSTANTS
    Sources,     \* the workers: CloudSuggestion and, with an AI provider, AiSuggestion
    Requests,    \* what submit may be given; r.eligible is the sources that may answer it
    NoRequest,   \* an empty latest_request_
    Debounce,    \* debounce_, in clock ticks
    MaxToken     \* bound: no call is started once this many changes were published

ASSUME SourcesAssumption == Sources # {}
ASSUME RequestsAssumption == \A r \in Requests : r.eligible \in SUBSET Sources
ASSUME NoRequestAssumption == NoRequest \notin Requests
ASSUME DebounceAssumption == Debounce \in Nat
ASSUME MaxTokenAssumption == MaxToken \in Nat

VARIABLES
    stopping,    \* stopping_
    token,       \* request_token_
    latest,      \* latest_request_
    age,         \* ticks since latest_update_, saturating at Debounce
    caller,      \* where the calling thread is inside submit, clear or stop
    argument,    \* the request a submit in progress carries
    joined,      \* a stop() of the calling thread has joined the workers
    pc,          \* where each worker is in worker_loop
    observed,    \* each worker's observed_token
    remaining,   \* ticks until each worker's deadline
    pending      \* the copy of latest_request_ each worker fetches for

callVars == <<caller, argument, joined>>
workVars == <<pc, observed, remaining, pending>>
vars == <<stopping, token, latest, age, caller, argument, joined,
          pc, observed, remaining, pending>>

CallerStates == {"idle", "submit", "clear", "notify", "stop notify", "join"}
WorkerStates == {"top", "wait", "debounce", "woken", "fetch", "fetched",
                 "callback", "self notify", "done"}

Init ==
    /\ stopping = FALSE
    /\ token = 0
    /\ latest = NoRequest
    /\ age = Debounce
    /\ caller = "idle"
    /\ argument = NoRequest
    /\ joined = FALSE
    /\ pc = [w \in Sources |-> "top"]
    /\ observed = [w \in Sources |-> 0]
    /\ remaining = [w \in Sources |-> 0]
    /\ pending = [w \in Sources |-> NoRequest]

-----------------------------------------------------------------------------
(* Helpers *)

\* changed_.notify_all(): both waits of worker_loop are left.
WakeAll(p) ==
    [w \in Sources |-> CASE p[w] = "wait" -> "top"
                         [] p[w] = "debounce" -> "woken"
                         [] OTHER -> p[w]]

\* What `cancelled` and both wait predicates of a worker test.
Changed(w) == stopping \/ token # observed[w]

-----------------------------------------------------------------------------
(* The calling thread *)

\* submit up to its lock: an ineligible request goes to clear(), and a
\* stopping service is left alone.
SubmitEnter(r) ==
    /\ caller = "idle"
    /\ ~stopping
    /\ caller' = IF r.eligible = {} THEN "clear" ELSE "submit"
    /\ argument' = IF r.eligible = {} THEN NoRequest ELSE r
    /\ UNCHANGED <<stopping, token, latest, age, joined, workVars>>

\* submit's critical section, which tests stopping_ a second time.
SubmitLocked ==
    /\ caller = "submit"
    /\ argument' = NoRequest
    /\ IF stopping
       THEN /\ caller' = "idle"
            /\ UNCHANGED <<token, latest, age>>
       ELSE /\ latest' = argument
            /\ age' = 0
            /\ token' = token + 1
            /\ caller' = "notify"
    /\ UNCHANGED <<stopping, joined, workVars>>

\* clear up to its lock.
ClearEnter ==
    /\ caller = "idle"
    /\ ~stopping
    /\ caller' = "clear"
    /\ UNCHANGED <<stopping, token, latest, age, argument, joined, workVars>>

\* clear's critical section, which does not test stopping_ again.
ClearLocked ==
    /\ caller = "clear"
    /\ latest' = NoRequest
    /\ age' = 0
    /\ token' = token + 1
    /\ caller' = "notify"
    /\ UNCHANGED <<stopping, argument, joined, workVars>>

\* Mutant: the change is published and nobody is notified.
CallerNotifyNobody ==
    /\ caller = "notify"
    /\ caller' = "idle"
    /\ UNCHANGED <<stopping, token, latest, age, argument, joined, workVars>>

\* submit's and clear's notify_all, after the lock is dropped.
CallerNotify ==
    /\ caller = "notify"
    /\ pc' = WakeAll(pc)
    /\ caller' = "idle"
    /\ UNCHANGED <<stopping, token, latest, age, argument, joined,
                   observed, remaining, pending>>

\* The critical section of stop(), shared by the caller and a worker.
MarkStopping ==
    /\ stopping' = TRUE
    /\ token' = IF stopping THEN token ELSE token + 1
    /\ UNCHANGED <<latest, age>>

\* stop() of the calling thread, up to its lock's release.
StopLocked ==
    /\ caller = "idle"
    /\ MarkStopping
    /\ caller' = "stop notify"
    /\ UNCHANGED <<argument, joined, workVars>>

\* Mutant: stop() leaves the waiting workers asleep.
StopNotifyNobody ==
    /\ caller = "stop notify"
    /\ caller' = "join"
    /\ UNCHANGED <<stopping, token, latest, age, argument, joined, workVars>>

\* stop()'s notify_all.
StopNotify ==
    /\ caller = "stop notify"
    /\ pc' = WakeAll(pc)
    /\ caller' = "join"
    /\ UNCHANGED <<stopping, token, latest, age, argument, joined,
                   observed, remaining, pending>>

\* Mutant: stop() returns after the first worker.
JoinFirst ==
    /\ caller = "join"
    /\ \E w \in Sources : pc[w] = "done"
    /\ caller' = "idle"
    /\ joined' = TRUE
    /\ UNCHANGED <<stopping, token, latest, age, argument, workVars>>

\* The joins at the end of stop(): they return once every worker has left.
Join ==
    /\ caller = "join"
    /\ \A w \in Sources : pc[w] = "done"
    /\ caller' = "idle"
    /\ joined' = TRUE
    /\ UNCHANGED <<stopping, token, latest, age, argument, workVars>>

-----------------------------------------------------------------------------
(* The workers *)

\* Mutant: a newer request keeps the deadline of the older one.
ObserveKeepingDeadline(w) ==
    /\ observed' = [observed EXCEPT ![w] = token]
    /\ pc' = [pc EXCEPT ![w] = "debounce"]
    /\ UNCHANGED <<remaining, pending>>

\* Mutant: the deadline is counted back from the last update.
ObserveBackwards(w) ==
    /\ observed' = [observed EXCEPT ![w] = token]
    /\ remaining' = [remaining EXCEPT ![w] = age - Debounce]
    /\ pc' = [pc EXCEPT ![w] = "debounce"]
    /\ UNCHANGED pending

\* observed_token and the deadline, read together under the lock.
Observe(w) ==
    /\ observed' = [observed EXCEPT ![w] = token]
    /\ remaining' = [remaining EXCEPT ![w] = Debounce - age]
    /\ pc' = [pc EXCEPT ![w] = "debounce"]
    /\ UNCHANGED pending

\* The loop ends.
Leave(w) ==
    /\ pc' = [pc EXCEPT ![w] = "done"]
    /\ UNCHANGED <<observed, remaining, pending>>

\* The worker goes on with nothing but its place changed.
Goto(w, state) ==
    /\ pc' = [pc EXCEPT ![w] = state]
    /\ UNCHANGED <<observed, remaining, pending>>

\* The head of the loop and the first wait.
LoopTop(w) ==
    /\ pc[w] = "top"
    /\ \/ stopping /\ Leave(w)
       \/ ~Changed(w) /\ Goto(w, "wait")
       \/ ~stopping /\ token # observed[w] /\ Observe(w)
    /\ UNCHANGED <<stopping, token, latest, age, callVars>>

\* latest_request_ is copied; an absent or ineligible one restarts the loop.
TakeRequest(w) ==
    /\ IF latest # NoRequest /\ w \in latest.eligible
       THEN /\ pc' = [pc EXCEPT ![w] = "fetch"]
            /\ pending' = [pending EXCEPT ![w] = latest]
       ELSE /\ pc' = [pc EXCEPT ![w] = "top"]
            /\ UNCHANGED pending
    /\ UNCHANGED <<observed, remaining>>

\* wait_until takes the lock back, after a wake-up or at the deadline, and tests
\* its predicate: a change moves the deadline along with the request, and only a
\* deadline that has passed with nothing changed ends the wait.
DebounceWait(w) ==
    /\ \/ pc[w] = "woken"
       \/ pc[w] = "debounce" /\ remaining[w] = 0
    /\ \/ stopping /\ Leave(w)
       \/ ~stopping /\ token # observed[w] /\ Observe(w)
       \/ ~Changed(w) /\ remaining[w] > 0 /\ Goto(w, "debounce")
       \/ ~Changed(w) /\ remaining[w] = 0 /\ TakeRequest(w)
    /\ UNCHANGED <<stopping, token, latest, age, callVars>>

\* A wait may also return without a notification.
SpuriousWake(w) ==
    /\ \/ pc[w] = "wait" /\ Goto(w, "top")
       \/ pc[w] = "debounce" /\ Goto(w, "woken")
    /\ UNCHANGED <<stopping, token, latest, age, callVars>>

\* fetch() returns a candidate, returns nothing, or throws.
FetchEnd(w) ==
    /\ pc[w] = "fetch"
    /\ \/ Goto(w, "fetched")
       \/ Goto(w, "top")
    /\ UNCHANGED <<stopping, token, latest, age, callVars>>

\* Mutant: only a stop cancels an answer.
CheckStoppingOnly(w) ==
    /\ pc[w] = "fetched"
    /\ Goto(w, IF stopping THEN "top" ELSE "callback")
    /\ UNCHANGED <<stopping, token, latest, age, callVars>>

\* The last test before the callback.  stop() always moves the token when it
\* sets stopping_, so reading the two atomics one after the other is the same
\* as reading them together.
CheckCancelled(w) ==
    /\ pc[w] = "fetched"
    /\ Goto(w, IF Changed(w) THEN "top" ELSE "callback")
    /\ UNCHANGED <<stopping, token, latest, age, callVars>>

\* The callback returns or throws; both continue the loop.
Callback(w) ==
    /\ pc[w] = "callback"
    /\ Goto(w, "top")
    /\ UNCHANGED <<stopping, token, latest, age, callVars>>

\* The callback calls stop(): active_worker_service is this service, so it
\* returns without joining.
SelfStop(w) ==
    /\ pc[w] = "callback"
    /\ MarkStopping
    /\ Goto(w, "self notify")
    /\ UNCHANGED callVars

\* The notify_all of that stop(), after which the callback returns.
SelfNotify(w) ==
    /\ pc[w] = "self notify"
    /\ pc' = [WakeAll(pc) EXCEPT ![w] = "top"]
    /\ UNCHANGED <<stopping, token, latest, age, callVars,
                   observed, remaining, pending>>

-----------------------------------------------------------------------------
(* The steady clock *)
Tick ==
    /\ age < Debounce \/ \E w \in Sources : remaining[w] > 0
    /\ age' = IF age < Debounce THEN age + 1 ELSE age
    /\ remaining' = [w \in Sources |->
                        IF remaining[w] > 0 THEN remaining[w] - 1 ELSE 0]
    /\ UNCHANGED <<stopping, token, latest, callVars, pc, observed, pending>>

-----------------------------------------------------------------------------
Call ==
    \/ token < MaxToken /\ \E r \in Requests : SubmitEnter(r)
    \/ token < MaxToken /\ ClearEnter
    \/ StopLocked

CallerStep == SubmitLocked \/ ClearLocked \/ CallerNotify \/ StopNotify \/ Join

WorkerStep(w) ==
    \/ LoopTop(w) \/ DebounceWait(w) \/ FetchEnd(w)
    \/ CheckCancelled(w) \/ Callback(w) \/ SelfNotify(w)

Next ==
    \/ Call
    \/ CallerStep
    \/ Tick
    \/ \E w \in Sources : WorkerStep(w) \/ SelfStop(w) \/ SpuriousWake(w)

\* A thread that can run does run, and time passes.  Nobody has to call the
\* service, and no wait has to return on its own.
Fairness ==
    /\ WF_vars(CallerStep)
    /\ WF_vars(Tick)
    /\ \A w \in Sources : WF_vars(WorkerStep(w))

Spec == Init /\ [][Next]_vars /\ Fairness

-----------------------------------------------------------------------------
(* Properties *)

\* The values every variable of the service keeps.
TypeOK ==
    /\ stopping \in BOOLEAN
    /\ token \in Nat
    /\ latest \in Requests \cup {NoRequest}
    /\ age \in 0..Debounce
    /\ caller \in CallerStates
    /\ argument \in Requests \cup {NoRequest}
    /\ caller = "submit" => argument \in Requests
    /\ joined \in BOOLEAN
    /\ pc \in [Sources -> WorkerStates]
    /\ observed \in [Sources -> Nat]
    /\ remaining \in [Sources -> 0..Debounce]
    /\ pending \in [Sources -> Requests \cup {NoRequest}]

\* A fetch starts only for the request the caller submitted last, only on a
\* source that request allows, and only after the caller has been quiet for the
\* whole debounce interval -- however submits, clears, wake-ups and deadlines
\* interleave.
StartsQuietLatest ==
    \A w \in Sources :
        pc[w] # "fetch" /\ pc'[w] = "fetch" =>
            /\ ~stopping
            /\ age = Debounce
            /\ latest \in Requests
            /\ w \in latest.eligible
            /\ pending'[w] = latest

FetchesOnlyQuietLatest == [][StartsQuietLatest]_vars

\* The callback is entered only while the answered request is still the latest
\* one and the service is not stopping: an answer that a newer submit, a clear
\* or a stop overtook during the fetch is dropped.
EntersLatest ==
    \A w \in Sources :
        pc[w] # "callback" /\ pc'[w] = "callback" =>
            /\ ~stopping
            /\ latest \in Requests
            /\ pending[w] = latest

CallsBackOnlyForLatest == [][EntersLatest]_vars

\* Once stop() has returned to the caller no worker is anywhere in its loop, so
\* the providers and the callback may be destroyed.
JoinedMeansQuiet == joined => stopping /\ \A w \in Sources : pc[w] = "done"

\* An eligible request that no later call replaces is fetched: no wake-up is lost
\* between a submit and a worker that is about to wait or already debouncing.
RequestIsFetched ==
    \A w \in Sources : \A t \in 1..MaxToken :
        (/\ token = t /\ observed[w] # t
         /\ latest # NoRequest /\ w \in latest.eligible)
        ~> (stopping \/ token # t \/ (observed[w] = t /\ pc[w] = "fetch"))

\* A stop, the caller's or a callback's own, ends every worker, and a caller
\* that waits for them is released.
StopEndsWorkers ==
    /\ stopping ~> \A w \in Sources : pc[w] = "done"
    /\ (caller = "join") ~> joined

=============================================================================
