-------------------------- MODULE NativePublication --------------------------
(***************************************************************************)
(* The installed dictionaries and the engine that switches them: the       *)
(* marker file that names the active generation, the directories of the    *)
(* generations, publish_native_dictionary step by step, and the programs   *)
(* that share the dictionaries with it.                                    *)
(*                                                                         *)
(* The engine serves D-Bus and key events from one main loop, so nothing   *)
(* of its own runs between two steps of a publication; other programs do,  *)
(* and the engine or the machine may die there.  The lease is used as      *)
(* LeaseSpec promises it, which DictionaryLease is shown to implement; an  *)
(* attempt to take it may also be refused while another one is under way.  *)
(***************************************************************************)
EXTENDS Naturals

CONSTANTS
    Contexts,      \* input contexts of the engine
    Generations,   \* names drawn for restored dictionaries
    Windows,       \* dictionary windows, each of a program of its own
    Legacy,        \* the dictionaries outside the generations, with no marker
    Absent,        \* there is no such context
    None,
    MaxLearned,    \* changes of one dictionary's content
    MaxStarts      \* starts of the engine

ASSUME MaxLearnedAssumption == MaxLearned \in Nat
ASSUME MaxStartsAssumption == MaxStarts \in Nat \ {0}
ASSUME NamesAssumption ==
    /\ Legacy \notin Generations
    /\ None \notin Generations \cup {Legacy, "busy", "conflict", "error", "published", "unheard"}
ASSUME WindowsAssumption == Windows \cap {"engine", "cleaner", "replay"} = {}

VARIABLES
    files,         \* the directory of each generation
    marker,        \* what active-dictionary names, Legacy when it is missing
    disk,          \* what it names after a power loss
    learned,       \* the revision of the content of each dictionary
    use,           \* the lease
    alive, epoch,  \* the engine process; its unique bus name
    pc, serving,   \* where publish_native_dictionary is, for which generation
    outcome,       \* what it answers once it has recovered
    runtime,       \* dictionary_runtime->paths
    controller,    \* the dictionary of each context's controller
    composing,     \* the contexts with a composition
    sent, reply,   \* Publish requests and their answers, by generation
    condemned, cleaning,   \* generations to discard, and the one being removed
    replaying      \* the dictionary a replay works on

engineVars == <<alive, epoch, pc, serving, outcome, runtime, controller, composing>>
requestVars == <<sent, reply>>
fileVars == <<files, marker, disk, learned>>
otherVars == <<condemned, cleaning, replaying>>
nativeVars == <<fileVars, use, engineVars, requestVars, otherVars>>

Dictionaries == Generations \cup {Legacy}
Lease == INSTANCE LeaseSpec WITH Holders <- Windows \cup {"engine", "cleaner", "replay"}

\* prepared_paths: the ready file names the content and the databases are there.
Whole(d) == d # Legacy => files[d] = "ready"

\* native_dictionary_revision: a digest of every record of the dictionary's state.
Revision(d) == learned[d]

NoController == [c \in Contexts |-> Absent]

\* The caller has the answer, unless it waits no longer.
Answer(g, status) ==
    /\ reply' = [reply EXCEPT ![g] = IF @ = None THEN status ELSE None]
    /\ sent' = [sent EXCEPT ![g] = None]

-----------------------------------------------------------------------------
(* The engine's main loop *)

\* main(): a shared lease, then the active dictionary.
Start ==
    /\ ~alive /\ epoch < MaxStarts /\ Whole(marker)
    /\ Lease!Share("engine")
    /\ alive' = TRUE /\ epoch' = epoch + 1 /\ runtime' = marker
    /\ UNCHANGED <<fileVars, pc, serving, outcome, controller, composing, requestVars, otherVars>>

Serves == alive /\ pc = "serve"

CreateContext(c) ==
    /\ Serves /\ controller[c] = Absent
    /\ controller' = [controller EXCEPT ![c] = runtime]
    /\ UNCHANGED <<fileVars, use, alive, epoch, pc, serving, outcome, runtime, composing,
                   requestVars, otherVars>>

DestroyContext(c) ==
    /\ Serves /\ controller[c] # Absent
    /\ controller' = [controller EXCEPT ![c] = Absent]
    /\ composing' = composing \ {c}
    /\ UNCHANGED <<fileVars, use, alive, epoch, pc, serving, outcome, runtime, requestVars,
                   otherVars>>

Type(c) ==
    /\ Serves /\ controller[c] # Absent /\ c \notin composing
    /\ composing' = composing \cup {c}
    /\ UNCHANGED <<fileVars, use, alive, epoch, pc, serving, outcome, runtime, controller,
                   requestVars, otherVars>>

\* A commit teaches the dictionary the controller has open.
Commit(c) ==
    /\ Serves /\ c \in composing /\ learned[controller[c]] < MaxLearned
    /\ composing' = composing \ {c}
    /\ learned' = [learned EXCEPT ![controller[c]] = @ + 1]
    /\ UNCHANGED <<files, marker, disk, use, alive, epoch, pc, serving, outcome, runtime,
                   controller, requestVars, otherVars>>

\* The process ends: requests it has not answered fail at their callers.
Ends(answered) ==
    /\ alive' = FALSE /\ pc' = "serve" /\ serving' = None /\ outcome' = None
    /\ runtime' = None /\ controller' = NoController /\ composing' = {}
    /\ reply' = [g \in Generations |->
                    IF sent[g] = None THEN reply[g]
                    ELSE IF reply[g] = "unheard" THEN None
                    ELSE IF g \in answered THEN "published" ELSE "error"]
    /\ sent' = [g \in Generations |-> None]
    /\ use' = [use EXCEPT !["engine"] = "none"]
    /\ UNCHANGED <<epoch, otherVars>>

EngineDies == alive /\ Ends({}) /\ UNCHANGED fileVars

-----------------------------------------------------------------------------
(* publish_native_dictionary *)

Doing(g, step) == pc' = step /\ serving' = g

\* A composition or an unusable generation is refused before anything happens;
\* then every controller and translation service is deleted.
PublishBegins(g) ==
    /\ Serves /\ sent[g] # None
    /\ IF composing # {} \/ ~Whole(g)
       THEN /\ Answer(g, IF composing # {} THEN "busy" ELSE "error")
            /\ UNCHANGED <<pc, serving, controller>>
       ELSE /\ controller' = [c \in Contexts |-> IF controller[c] = Absent THEN Absent ELSE None]
            /\ Doing(g, "closed")
            /\ UNCHANGED requestVars
    /\ UNCHANGED <<fileVars, use, alive, epoch, outcome, runtime, composing, otherVars>>

PublishLocks ==
    /\ pc = "closed"
    /\ Lease!TakeSole("engine")
    /\ pc' = "sole"
    /\ UNCHANGED <<fileVars, alive, epoch, serving, outcome, runtime, controller, composing,
                   requestVars, otherVars>>

PublishIsRefused ==
    /\ pc = "closed"
    /\ pc' = "recover" /\ outcome' = "busy"
    /\ UNCHANGED <<fileVars, use, alive, epoch, serving, runtime, controller, composing,
                   requestVars, otherVars>>

\* The operation returns or throws: the lease is shared again, then recover().
GiveUp(status) ==
    /\ Lease!Share("engine")
    /\ pc' = "recover" /\ outcome' = status
    /\ UNCHANGED <<fileVars, alive, epoch, serving, runtime, controller, composing,
                   requestVars, otherVars>>

\* Mutant: the content is not compared.
IsReviewedByName(request) == request.token = marker

\* The active dictionary is still the one that was reviewed, with its content.
IsReviewed(request) == request.token = marker /\ request.revision = Revision(marker)

\* Every replacement opens before the marker is touched.
PublishBuilds ==
    /\ pc = "sole" /\ IsReviewed(sent[serving])
    /\ pc' = "built"
    /\ UNCHANGED <<fileVars, use, alive, epoch, serving, outcome, runtime, controller,
                   composing, requestVars, otherVars>>

PublishConflicts == pc = "sole" /\ ~IsReviewed(sent[serving]) /\ GiveUp("conflict")

\* A database does not open, or the marker cannot be written.
PublishThrows == pc \in {"sole", "built"} /\ GiveUp("error")

\* NativeInstallation::publish: the generation and the token once more, then a
\* complete file is renamed over the marker.
PublishRenames ==
    /\ pc = "built" /\ Whole(serving) /\ sent[serving].token = marker
    /\ marker' = serving
    /\ pc' = "renamed"
    /\ UNCHANGED <<files, disk, learned, use, alive, epoch, serving, outcome, runtime,
                   controller, composing, requestVars, otherVars>>

Everywhere(d) == [c \in Contexts |-> IF controller[c] = Absent THEN Absent ELSE d]

\* The directory is synced or not, every context adopts its replacement and the
\* lease is shared again.
PublishAdopts(durable) ==
    /\ pc = "renamed"
    /\ disk' = IF durable THEN marker ELSE disk
    /\ runtime' = serving
    /\ controller' = Everywhere(serving)
    /\ Lease!Share("engine")
    /\ Doing(None, "serve")
    /\ Answer(serving, "published")
    /\ UNCHANGED <<files, marker, learned, alive, epoch, outcome, composing, otherVars>>

\* The lease cannot be shared again: ibus_quit after the truth has been told.
PublishQuits(durable) ==
    /\ pc = "renamed"
    /\ disk' = IF durable THEN marker ELSE disk
    /\ Ends({serving})
    /\ UNCHANGED <<files, marker, learned>>

\* Mutant: only contexts that are composing get a controller again.
RecoveredIfComposing == [c \in Contexts |-> IF c \in composing THEN runtime ELSE controller[c]]

\* recover(): every context reopens the previous dictionary.
Recovered == Everywhere(runtime)

Recover ==
    /\ pc = "recover"
    /\ controller' = Recovered
    /\ Doing(None, "serve") /\ outcome' = None
    /\ Answer(serving, outcome)
    /\ UNCHANGED <<fileVars, use, alive, epoch, runtime, composing, otherVars>>

\* The previous dictionary does not open either: _Exit(1).
RecoverFails == pc = "recover" /\ Ends({}) /\ UNCHANGED fileVars

-----------------------------------------------------------------------------
(* discard_worker and the replay program *)

CleanerBegins(g) ==
    /\ cleaning = None /\ g \in condemned
    /\ Lease!Share("cleaner")
    /\ IF marker = g THEN condemned' = condemned \ {g} /\ UNCHANGED cleaning
       ELSE cleaning' = g /\ UNCHANGED condemned
    /\ UNCHANGED <<fileVars, engineVars, requestVars, replaying>>

\* remove_all, file by file.
CleanerRemoves ==
    /\ cleaning # None /\ files[cleaning] \in {"ready", "partial"}
    /\ files' = [files EXCEPT ![cleaning] = IF @ = "ready" THEN "partial" ELSE "removed"]
    /\ UNCHANGED <<marker, disk, learned, use, engineVars, requestVars, otherVars>>

\* It is through, or its program ends first.
CleanerEnds ==
    /\ Lease!Release("cleaner")
    /\ cleaning' = None /\ condemned' = condemned \ {cleaning}
    /\ UNCHANGED <<fileVars, engineVars, requestVars, replaying>>

\* The lease is refused: the generation is retained.
CleanerIsRefused(g) ==
    /\ cleaning # g /\ g \in condemned
    /\ condemned' = condemned \ {g}
    /\ UNCHANGED <<fileVars, use, engineVars, requestVars, cleaning, replaying>>

ReplayBegins ==
    /\ Whole(marker) /\ replaying = None
    /\ Lease!Share("replay")
    /\ replaying' = marker
    /\ UNCHANGED <<fileVars, engineVars, requestVars, condemned, cleaning>>

ReplayApplies ==
    /\ replaying # None /\ learned[replaying] < MaxLearned
    /\ learned' = [learned EXCEPT ![replaying] = @ + 1]
    /\ UNCHANGED <<files, marker, disk, use, engineVars, requestVars, otherVars>>

ReplayEnds ==
    /\ Lease!Release("replay")
    /\ replaying' = None
    /\ UNCHANGED <<fileVars, engineVars, requestVars, condemned, cleaning>>

-----------------------------------------------------------------------------

NativeInit ==
    /\ files = [g \in Generations |-> "absent"]
    /\ marker = Legacy /\ disk = Legacy
    /\ learned = [d \in Dictionaries |-> 0]
    /\ Lease!Init
    /\ alive = FALSE /\ epoch = 0 /\ pc = "serve" /\ serving = None /\ outcome = None
    /\ runtime = None /\ controller = NoController /\ composing = {}
    /\ sent = [g \in Generations |-> None] /\ reply = [g \in Generations |-> None]
    /\ condemned = {} /\ cleaning = None /\ replaying = None

EngineNext ==
    \/ Start \/ EngineDies
    \/ \E c \in Contexts : CreateContext(c) \/ DestroyContext(c) \/ Type(c) \/ Commit(c)
    \/ \E g \in Generations : PublishBegins(g)
    \/ PublishLocks \/ PublishIsRefused \/ PublishBuilds \/ PublishConflicts
    \/ PublishThrows \/ PublishRenames
    \/ \E durable \in BOOLEAN : PublishAdopts(durable) \/ PublishQuits(durable)
    \/ Recover \/ RecoverFails
    \/ \E g \in Generations : CleanerBegins(g) \/ CleanerIsRefused(g)
    \/ CleanerRemoves \/ CleanerEnds
    \/ ReplayBegins \/ ReplayApplies \/ ReplayEnds

-----------------------------------------------------------------------------
(* Properties *)

\* Whenever the main loop takes events, after any failed or successful publication,
\* every context has a controller, and on the dictionary the marker names
\* (publish_native_dictionary: install, recover, _Exit and ibus_quit).
ServedIsActive ==
    Serves => /\ runtime = marker
              /\ \A c \in Contexts : controller[c] \in {Absent, runtime}

\* The dictionary a program finds active, now or after a power loss, is complete:
\* no discard of a review removes it, however late it runs or an answer comes
\* (NativeInstallation::publish, ~NativeRestoreReview, discard_worker).
ActiveIsWhole == Whole(marker) /\ Whole(disk)
=============================================================================
