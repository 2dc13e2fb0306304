----------------------------- MODULE OnlineEngine -----------------------------
(***************************************************************************)
(* An IBus engine object and its online candidate service: the handlers of *)
(* src/IBusEngine.cpp that change the composition and call refresh_online, *)
(* the generation InputController stamps on every request, the main-loop   *)
(* queue the callback posts to, and the end of the engine (dispose,        *)
(* finalize).                                                              *)
(*                                                                         *)
(* A handler runs on the main loop from start to end, so its changes to    *)
(* the controller and the entry into submit or clear are one step and the  *)
(* next main-loop turn needs caller = "idle" again.                        *)
(***************************************************************************)
EXTENDS OnlineCandidateService, Sequences

CONSTANTS
    Queries,         \* what the session may be composing
    NoComposition,   \* nothing is being composed: online_query() is empty
    MaxGeneration    \* bound on online_generation_

ASSUME RequestShape ==
    Requests = [generation : 1..MaxGeneration, query : Queries, eligible : SUBSET Sources]
ASSUME NoCompositionAssumption == NoComposition \notin Queries
ASSUME MaxGenerationAssumption == MaxGeneration \in Nat \ {0}

VARIABLES
    composition,     \* what the controller's session composes
    generation,      \* online_generation_
    shown,           \* the online candidates in the session, with the query they answer
    mainLoop,        \* deliveries posted with g_main_context_invoke_full
    handle,          \* DeliveryHandle.engine is not null
    life             \* the engine object's life

engineVars == <<composition, generation, shown, mainLoop, handle, life>>
allVars == <<vars, engineVars>>

Delivery == [request : Requests, source : Sources]
Candidate == [query : Queries, source : Sources]

EngineInit ==
    /\ Init
    /\ composition = NoComposition
    /\ generation = 1
    /\ shown = {}
    /\ mainLoop = <<>>
    /\ handle = TRUE
    /\ life = "alive"

-----------------------------------------------------------------------------
(* Handlers *)

\* refresh_online: without a query the service is cleared; otherwise the
\* settings and the credentials decide which sources stay eligible, and an
\* ineligible request is cleared by submit's first test.
RefreshOnline(query, gen) ==
    IF query = NoComposition
    THEN ClearEnter
    ELSE \E e \in SUBSET Sources :
            SubmitEnter([generation |-> gen, query |-> query, eligible |-> e])

\* next_online_generation: a value no controller of this process has had.
FreshGeneration == generation + 1

Handler ==
    /\ life = "alive"
    /\ token < MaxToken
    /\ UNCHANGED <<mainLoop, handle, life>>

\* A key, a click, a mode or scheme change, focus-out or reset that the session
\* handles: a new composition and its local candidates, a new generation.
Compose(query) ==
    /\ Handler
    /\ generation < MaxGeneration
    /\ composition' = query
    /\ generation' = FreshGeneration
    /\ shown' = {}
    /\ RefreshOnline(query, FreshGeneration)

\* Paging and moving the highlight republish the table and resubmit the same
\* query under the same generation.
Navigate ==
    /\ Handler
    /\ composition # NoComposition
    /\ UNCHANGED <<composition, generation, shown>>
    /\ RefreshOnline(composition, generation)

\* focus_in, or a punctuation or width change: the composition stays, the
\* generation does not.
Invalidate ==
    /\ Handler
    /\ generation < MaxGeneration
    /\ generation' = FreshGeneration
    /\ UNCHANGED <<composition, shown>>
    /\ RefreshOnline(composition, FreshGeneration)

\* enable, in the mode the engine is already in: invalidate_context without a
\* refresh, so a request in flight is orphaned until the next key.
Enable ==
    /\ Handler
    /\ caller = "idle"
    /\ generation < MaxGeneration
    /\ generation' = FreshGeneration
    /\ UNCHANGED <<composition, shown, vars>>

\* Mutant: every controller counts its generations from one.
ReloadWithOwnCounter ==
    /\ Handler
    /\ generation < MaxGeneration
    /\ composition' = NoComposition
    /\ generation' = 1
    /\ shown' = {}
    /\ RefreshOnline(NoComposition, 1)

\* reload_settings: the composition is committed and the controller replaced.
\* Its two clears in one turn have the effect of one.
Reload ==
    /\ Handler
    /\ generation < MaxGeneration
    /\ composition' = NoComposition
    /\ generation' = FreshGeneration
    /\ shown' = {}
    /\ RefreshOnline(NoComposition, FreshGeneration)

-----------------------------------------------------------------------------
(* Deliveries *)

\* Mutant: the request is moved out before the delivery copies it.
QueueMovedResult(w) ==
    /\ Callback(w)
    /\ mainLoop' = Append(mainLoop, [request |-> NoRequest, source |-> w])
    /\ UNCHANGED <<composition, generation, shown, handle, life>>

\* queue_online_result, called by a worker: the delivery joins the main loop.
QueueResult(w) ==
    /\ Callback(w)
    /\ mainLoop' = Append(mainLoop, [request |-> pending[w], source |-> w])
    /\ UNCHANGED <<composition, generation, shown, handle, life>>

\* deliver_online and apply_online_candidate: a null handle or an older
\* generation drops the answer, and the session may refuse it.
Deliver ==
    /\ caller = "idle"
    /\ mainLoop # <<>>
    /\ mainLoop' = Tail(mainLoop)
    /\ LET d == Head(mainLoop)
       IN \/ UNCHANGED shown
          \/ /\ handle
             /\ d.request.generation = generation
             /\ shown' = shown \cup {[query |-> d.request.query, source |-> d.source]}
    /\ UNCHANGED <<vars, composition, generation, handle, life>>

-----------------------------------------------------------------------------
(* The end of the engine *)

\* dispose: the service is stopped and joined while the engine is referenced.
Dispose ==
    /\ life = "alive"
    /\ StopLocked
    /\ life' = "disposed"
    /\ UNCHANGED <<composition, generation, shown, mainLoop, handle>>

\* Mutant: the handle keeps pointing at the engine.
FinalizeKeepingHandle ==
    /\ life = "disposed"
    /\ joined
    /\ StopLocked
    /\ life' = "finalizing"
    /\ UNCHANGED <<composition, generation, shown, mainLoop, handle>>

\* finalize up to the deletion of the service, whose destructor stops it again.
Finalize ==
    /\ life = "disposed"
    /\ joined
    /\ StopLocked
    /\ handle' = FALSE
    /\ life' = "finalizing"
    /\ UNCHANGED <<composition, generation, shown, mainLoop>>

\* The rest of finalize: the controller and the settings are deleted.
Free ==
    /\ life = "finalizing"
    /\ caller = "idle"
    /\ life' = "freed"
    /\ UNCHANGED <<vars, composition, generation, shown, mainLoop, handle>>

-----------------------------------------------------------------------------
ServiceStep ==
    /\ \/ CallerStep
       \/ Tick
       \/ \E w \in Sources :
            \/ LoopTop(w) \/ DebounceWait(w) \/ FetchEnd(w)
            \/ CheckCancelled(w) \/ SpuriousWake(w)
    /\ UNCHANGED engineVars

EngineNext ==
    \/ \E q \in Queries \cup {NoComposition} : Compose(q)
    \/ Navigate \/ Invalidate \/ Enable \/ Reload
    \/ \E w \in Sources : QueueResult(w)
    \/ Deliver
    \/ Dispose \/ Finalize \/ Free
    \/ ServiceStep

EngineSpec == EngineInit /\ [][EngineNext]_allVars

-----------------------------------------------------------------------------
(* Properties *)

\* The values the engine's variables keep.
EngineTypeOK ==
    /\ TypeOK
    /\ composition \in Queries \cup {NoComposition}
    /\ generation \in 1..MaxGeneration
    /\ shown \in SUBSET Candidate
    /\ mainLoop \in Seq(Delivery)
    /\ handle \in BOOLEAN
    /\ life \in {"alive", "disposed", "finalizing", "freed"}

\* Every online candidate in the table answers what is being composed now, no
\* matter how late it was fetched, queued or delivered, and also across a
\* settings reload that replaces the controller.
ShownMatchComposition == \A c \in shown : c.query = composition

\* An engine whose controller has been deleted is never touched: no delivery
\* still in the main loop reaches it and no worker can post another one.
FreedEngineIsUntouched ==
    [][life = "freed" => shown' = shown /\ \A w \in Sources : pc[w] = "done"]_allVars

=============================================================================
