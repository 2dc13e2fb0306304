--------------------------- MODULE DictionaryWindow ---------------------------
(***************************************************************************)
(* The dictionary window: one work at a time on a thread, a dialog between *)
(* a review and what it leads to, and a window that may be closed at any   *)
(* moment.  It restores the local dictionaries from the account, edits the *)
(* account's dictionary through a list, and restores it from a file.       *)
(*                                                                         *)
(* The account's dictionary is a revision that counts its changes; the     *)
(* server applies an edit or a restore only to the revision it was made    *)
(* for, and a request whose answer is lost was applied or never will be.   *)
(* A behaviour follows the local dictionaries or the list: they meet only  *)
(* in that a window does one thing at a time.                              *)
(***************************************************************************)
EXTENDS NativePublication

CONSTANTS MaxCloud, Sides    \* changes of the account's dictionary; what is followed
ASSUME MaxCloudAssumption == MaxCloud \in Nat

VARIABLES
    work,          \* the work of each window, with the review it holds
    closed,        \* the window is gone, its work may go on
    cloud,         \* the revision of the account's dictionary
    loaded, page,  \* whether a list is on screen, and its revision
    own,           \* the revision this window's last change made
    follows

windowVars == <<work, closed>>
cloudVars == <<cloud, loaded, page, own>>
vars == <<nativeVars, windowVars, cloudVars, follows>>

NoWork == [at |-> "idle", generation |-> None, token |-> None, revision |-> 0, epoch |-> 0]
Free(w) == ~closed[w] /\ work[w].at = "idle"
Goes(w, step) == work' = [work EXCEPT ![w].at = step]
Done(w) == work' = [work EXCEPT ![w] = NoWork]

-----------------------------------------------------------------------------
(* NativeRestoreReview::prepare *)

\* Inspect, answered by the engine's main loop; its bus name is pinned.
NativePrepare(w) ==
    /\ Free(w) /\ Serves
    /\ work' = [work EXCEPT ![w] = [at |-> "inspected", generation |-> None,
                                    token |-> marker, revision |-> Revision(marker),
                                    epoch |-> epoch]]
    /\ UNCHANGED <<nativeVars, closed, cloudVars>>

\* After the download: a shared lease, and a new generation is written.
StageBegins(w, g) ==
    /\ work[w].at = "inspected" /\ ~closed[w] /\ files[g] = "absent"
    /\ Lease!Share(w)
    /\ files' = [files EXCEPT ![g] = "partial"]
    /\ work' = [work EXCEPT ![w].at = "staging", ![w].generation = g]
    /\ UNCHANGED <<marker, disk, learned, engineVars, requestVars, otherVars, closed, cloudVars>>

StageEnds(w) ==
    /\ work[w].at = "staging"
    /\ files' = [files EXCEPT ![work[w].generation] = "ready"]
    /\ Goes(w, "staged")
    /\ UNCHANGED <<marker, disk, learned, use, engineVars, requestVars, otherVars, closed, cloudVars>>

\* The review is shown.
PrepareEnds(w) ==
    /\ work[w].at = "staged" /\ ~closed[w]
    /\ Lease!Release(w)
    /\ Goes(w, "review")
    /\ UNCHANGED <<fileVars, engineVars, requestVars, otherVars, closed, cloudVars>>

\* Before anything was staged completely: nothing to discard.
PrepareFails(w) ==
    /\ work[w].at \in {"inspected", "staging"}
    /\ use' = [use EXCEPT ![w] = "none"]
    /\ Done(w)
    /\ UNCHANGED <<fileVars, engineVars, requestVars, otherVars, closed, cloudVars>>

\* ~NativeRestoreReview, of a staged generation that was never sent: the user
\* declines, the window is closed or the account has changed.
Declines(w) ==
    /\ work[w].at \in {"staged", "review"}
    /\ use' = [use EXCEPT ![w] = "none"]
    /\ condemned' = condemned \cup {work[w].generation}
    /\ Done(w)
    /\ UNCHANGED <<fileVars, engineVars, requestVars, cleaning, replaying, closed, cloudVars>>

-----------------------------------------------------------------------------
(* NativeRestoreReview::publish *)

\* The request goes to the process that was inspected, or fails when that is gone.
NativePublish(w) ==
    LET g == work[w].generation IN
    /\ work[w].at = "review" /\ ~closed[w]
    /\ work' = [work EXCEPT ![w] = [NoWork EXCEPT !.at = "waiting", !.generation = g]]
    /\ IF alive /\ epoch = work[w].epoch
       THEN /\ sent' = [sent EXCEPT ![g] = [token |-> work[w].token,
                                            revision |-> work[w].revision]]
            /\ UNCHANGED reply
       ELSE Answer(g, "error")
    /\ UNCHANGED <<fileVars, use, engineVars, otherVars, closed, cloudVars>>

\* Mutant: the review is discarded whatever the answer was.
DiscardsAlways(status) == TRUE

\* attempted_ is taken back only by an answer that nothing was published.
Discards(status) == status \in {"busy", "conflict"}

Answered(w) ==
    LET g == work[w].generation IN
    /\ work[w].at = "waiting" /\ reply[g] # None
    /\ condemned' = IF Discards(reply[g]) THEN condemned \cup {g} ELSE condemned
    /\ reply' = [reply EXCEPT ![g] = None]
    /\ Done(w)
    /\ UNCHANGED <<fileVars, use, engineVars, sent, cleaning, replaying, closed, cloudVars>>

\* 120 seconds: the request may be served later, and nobody takes the answer.
TimesOut(w) ==
    /\ work[w].at = "waiting" /\ reply[work[w].generation] = None
    /\ reply' = [reply EXCEPT ![work[w].generation] = "unheard"]
    /\ Done(w)
    /\ UNCHANGED <<fileVars, use, engineVars, sent, otherVars, closed, cloudVars>>

\* NativeExport reads the active dictionary under a shared lease.
NativeExport(w) ==
    /\ Free(w)
    /\ Lease!Share(w)
    /\ Goes(w, "exporting")
    /\ UNCHANGED <<fileVars, engineVars, requestVars, otherVars, closed, cloudVars>>

ExportEnds(w) ==
    /\ work[w].at = "exporting"
    /\ Lease!Release(w)
    /\ Done(w)
    /\ UNCHANGED <<fileVars, engineVars, requestVars, otherVars, closed, cloudVars>>

-----------------------------------------------------------------------------
(* The account's dictionary *)

\* Update and Delete need the list, Add and Import do not.
EditBegins(w, selected) ==
    /\ Free(w) /\ (selected => loaded[w])
    /\ work' = [work EXCEPT ![w].at = "edit", ![w].revision = IF selected THEN page[w] ELSE 0,
                            ![w].token = selected]
    /\ UNCHANGED <<nativeVars, closed, cloudVars>>

\* Search, Previous and Next.
ListBegins(w) == Free(w) /\ Goes(w, "list") /\ UNCHANGED <<nativeVars, closed, cloudVars>>

\* SnapshotRestoreReview::prepare: the file is valid, and what it will replace.
SnapshotPrepare(w) ==
    /\ Free(w)
    /\ work' = [work EXCEPT ![w].at = "cloud review", ![w].revision = cloud, ![w].token = TRUE]
    /\ UNCHANGED <<nativeVars, closed, cloudVars>>

SnapshotAnswered(w, accepts) ==
    /\ work[w].at = "cloud review"
    /\ IF accepts /\ ~closed[w] THEN Goes(w, "edit") ELSE Done(w)
    /\ UNCHANGED <<nativeVars, closed, cloudVars>>

\* finished() after a failure: nothing on screen can be selected any more.
Emptied(w) == loaded' = [loaded EXCEPT ![w] = FALSE]

\* Mutant: the list stays when the change itself failed.
EmptiedAfterRefresh(w) == UNCHANGED loaded

\* finished() when the change failed or its answer was lost.
EmptiedAfterChange(w) == Emptied(w)

\* The server applies the change or refuses it; the answer comes or is lost.
Edited(w, applies, heard) ==
    /\ work[w].at = "edit"
    /\ applies => cloud < MaxCloud /\ (work[w].token => work[w].revision = cloud)
    /\ cloud' = IF applies THEN cloud + 1 ELSE cloud
    /\ own' = IF applies THEN [own EXCEPT ![w] = cloud'] ELSE own
    /\ IF applies /\ heard THEN Goes(w, "list") /\ UNCHANGED loaded
       ELSE Done(w) /\ (IF closed[w] THEN UNCHANGED loaded ELSE EmptiedAfterChange(w))
    /\ UNCHANGED <<nativeVars, closed, page>>

Listed(w) ==
    /\ work[w].at = "list"
    /\ Done(w)
    /\ IF closed[w] THEN UNCHANGED <<loaded, page>>
       ELSE loaded' = [loaded EXCEPT ![w] = TRUE] /\ page' = [page EXCEPT ![w] = cloud]
    /\ UNCHANGED <<nativeVars, closed, cloud, own>>

ListFails(w) ==
    /\ work[w].at = "list"
    /\ Done(w)
    /\ IF closed[w] THEN UNCHANGED loaded ELSE Emptied(w)
    /\ UNCHANGED <<nativeVars, closed, cloud, page, own>>

\* Another device changes the account's dictionary.
OthersEdit ==
    /\ cloud < MaxCloud /\ cloud' = cloud + 1
    /\ UNCHANGED <<nativeVars, windowVars, loaded, page, own>>

-----------------------------------------------------------------------------
(* Windows, programs and power *)

CloseWindow(w) ==
    /\ ~closed[w]
    /\ closed' = [closed EXCEPT ![w] = TRUE]
    /\ UNCHANGED <<nativeVars, work, cloudVars>>

\* create_dictionary_window
OpenWindow(w) ==
    /\ closed[w] /\ work[w].at = "idle"
    /\ closed' = [closed EXCEPT ![w] = FALSE]
    /\ loaded' = [loaded EXCEPT ![w] = FALSE]
    /\ UNCHANGED <<nativeVars, work, cloud, page, own>>

\* No destructor runs.
ProgramDies(w) ==
    /\ work[w].at # "idle"
    /\ use' = [use EXCEPT ![w] = "none"]
    /\ reply' = [g \in Generations |->
                    IF g # work[w].generation THEN reply[g]
                    ELSE IF sent[g] # None THEN "unheard" ELSE None]
    /\ Done(w) /\ closed' = [closed EXCEPT ![w] = TRUE]
    /\ UNCHANGED <<fileVars, engineVars, sent, otherVars, cloudVars>>

\* A rename that was not synced may be lost.
PowerLoss ==
    /\ alive
    /\ marker' \in {marker, disk} /\ disk' = marker'
    /\ alive' = FALSE /\ pc' = "serve" /\ serving' = None /\ outcome' = None
    /\ runtime' = None /\ controller' = NoController /\ composing' = {}
    /\ sent' = [g \in Generations |-> None] /\ reply' = [g \in Generations |-> None]
    /\ use' = [h \in DOMAIN use |-> "none"]
    /\ condemned' = {} /\ cleaning' = None /\ replaying' = None
    /\ work' = [w \in Windows |-> NoWork] /\ closed' = [w \in Windows |-> TRUE]
    /\ UNCHANGED <<files, learned, epoch, cloudVars>>

-----------------------------------------------------------------------------

Init ==
    /\ NativeInit
    /\ work = [w \in Windows |-> NoWork] /\ closed = [w \in Windows |-> FALSE]
    /\ cloud = 0 /\ loaded = [w \in Windows |-> FALSE] /\ page = [w \in Windows |-> 0]
    /\ own = [w \in Windows |-> 0]
    /\ follows \in Sides

LocalNext ==
    \/ EngineNext /\ UNCHANGED <<windowVars, cloudVars>>
    \/ \E w \in Windows :
          \/ NativePrepare(w) \/ StageEnds(w) \/ PrepareEnds(w) \/ PrepareFails(w)
          \/ \E g \in Generations : StageBegins(w, g)
          \/ Declines(w) \/ NativePublish(w) \/ Answered(w) \/ TimesOut(w)
          \/ NativeExport(w) \/ ExportEnds(w) \/ ProgramDies(w)
    \/ PowerLoss

ListNext ==
    \/ \E w \in Windows :
          \/ \E selected \in BOOLEAN : EditBegins(w, selected)
          \/ ListBegins(w) \/ SnapshotPrepare(w)
          \/ \E accepts \in BOOLEAN : SnapshotAnswered(w, accepts)
          \/ \E applies, heard \in BOOLEAN : Edited(w, applies, heard)
          \/ Listed(w) \/ ListFails(w)
    \/ OthersEdit

Next ==
    /\ \/ follows = "local" /\ LocalNext
       \/ follows = "list" /\ ListNext
       \/ \E w \in Windows : CloseWindow(w) \/ OpenWindow(w)
    /\ UNCHANGED follows

Spec == Init /\ [][Next]_vars

-----------------------------------------------------------------------------
(* Properties *)

\* A publication replaces exactly what its review saw: the same dictionary, with
\* nothing learned since, neither by typing nor by a replay, although it comes after
\* a download, a dialog and a queue (prepare, publish, the checks under the lease).
OnlyReviewedIsReplaced ==
    [][\A g \in Generations :
          marker' = g /\ marker # g /\ ~(alive /\ ~alive')
              => sent[g] = [token |-> marker, revision |-> learned[marker]]]_vars

\* Entries on screen are never older than this window's own last change: after a
\* change whose outcome is not known there is nothing left to select and edit
\* (finished, clicked; Add, Update, Delete, Import and SnapshotRestore).
ListShowsOwnChanges ==
    \A w \in Windows : loaded[w] /\ Free(w) => page[w] >= own[w]
=============================================================================
