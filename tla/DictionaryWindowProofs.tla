------------------------ MODULE DictionaryWindowProofs ------------------------
(***************************************************************************)
(* The publication of native dictionaries and the dictionary window, for   *)
(* any contexts, generations, windows and bounds.                          *)
(*                                                                         *)
(* None of the four properties is inductive.  That a publication replaces  *)
(* what was reviewed rests on the lease: between the comparison and the    *)
(* rename the engine has the dictionaries to itself, so no replay teaches  *)
(* the active one (Sole), and the request it serves stays the one it       *)
(* compared (Serving).  That the active dictionary is never removed rests  *)
(* on the life of a generation's name: being written, under review,        *)
(* requested, active and condemned follow each other and exclude each      *)
(* other (Names), whoever dies or stops waiting in between.                *)
(***************************************************************************)
EXTENDS DictionaryWindow, TLAPS

Programs == Windows \cup {"engine", "cleaner", "replay"}
Tokens == Dictionaries \cup BOOLEAN \cup {None}
WorkSteps == {"idle", "inspected", "staging", "staged", "review", "waiting", "exporting",
              "edit", "list", "cloud review"}
Works == [at : WorkSteps,
          generation : Generations \cup {None}, token : Tokens, revision : Nat, epoch : Nat]

\* The values every variable keeps.
FileShapes ==
    /\ files \in [Generations -> {"absent", "partial", "ready", "removed"}]
    /\ marker \in Dictionaries
    /\ disk \in Dictionaries
    /\ learned \in [Dictionaries -> Nat]
    /\ use \in [Programs -> {"none", "share", "sole"}]

EngineShapes ==
    /\ alive \in BOOLEAN
    /\ epoch \in Nat
    /\ pc \in {"serve", "closed", "sole", "built", "renamed", "recover"}
    /\ serving \in Generations \cup {None}
    /\ outcome \in {None, "busy", "conflict", "error"}
    /\ runtime \in Dictionaries \cup {None}
    /\ controller \in [Contexts -> Dictionaries \cup {Absent, None}]
    /\ composing \subseteq Contexts

RequestShapes ==
    /\ sent \in [Generations -> [token : Tokens, revision : Nat] \cup {None}]
    /\ reply \in [Generations -> {None, "busy", "conflict", "error", "published", "unheard"}]
    /\ condemned \subseteq Generations
    /\ cleaning \in Generations \cup {None}
    /\ replaying \in Dictionaries \cup {None}

WindowShapes ==
    /\ work \in [Windows -> Works]
    /\ closed \in [Windows -> BOOLEAN]
    /\ cloud \in Nat
    /\ loaded \in [Windows -> BOOLEAN]
    /\ page \in [Windows -> Nat]
    /\ own \in [Windows -> Nat]

Shapes == FileShapes /\ EngineShapes /\ RequestShapes /\ WindowShapes

\* While the engine has the dictionaries to itself nobody else uses them.
Sole ==
    /\ use["engine"] = "sole" => \A h \in Programs \ {"engine"} : use[h] = "none"
    /\ \A h \in Programs \ {"engine"} : use[h] # "sole"
    /\ pc \in {"sole", "built", "renamed"} => use["engine"] = "sole"
    /\ replaying # None => use["replay"] # "none"

\* Where the engine is, what its contexts have open and which request it serves.
Serving ==
    /\ pc # "serve" => alive /\ serving \in Generations /\ sent[serving] # None
    /\ pc = "recover" => outcome \in {"busy", "conflict", "error"}
    /\ alive /\ pc # "renamed" => runtime = marker
    /\ pc = "renamed" => marker = serving
    /\ alive /\ pc = "serve" => \A c \in Contexts : controller[c] \in {Absent, runtime}
    /\ ~alive => controller = NoController
    /\ pc = "built" => sent[serving] = [token |-> marker, revision |-> learned[marker]]

At(w) == work[w].at
Name(w) == work[w].generation

\* The generation is neither active nor will it be after a power loss.
Inactive(g) == marker # g /\ disk # g

\* A window has the generation to itself and nobody has been asked to publish it.
Private(w) == At(w) \in {"staging", "staged", "review"}

\* A generation has one window at most, from its first file to the answer.
Held ==
    /\ \A v, w \in Windows : Name(v) # None /\ Name(v) = Name(w) => v = w
    /\ \A w \in Windows : Name(w) # None <=> Private(w) \/ At(w) = "waiting"
    /\ \A w \in Windows : Name(w) # None => files[Name(w)] # "absent"

\* What is under review is not requested and was never active.
Reviewed ==
    \A w \in Windows : Private(w) =>
        sent[Name(w)] = None /\ reply[Name(w)] = None /\ Inactive(Name(w))

\* A name that was not drawn yet has no history.
Fresh ==
    \A g \in Generations : files[g] = "absent" =>
        sent[g] = None /\ reply[g] = None /\ Inactive(g)

\* What is to be removed is not active, cannot become it and has no window.
Condemned ==
    /\ \A g \in condemned :
          /\ Inactive(g) /\ sent[g] = None /\ files[g] # "absent"
          /\ \A w \in Windows : Name(w) # g
    /\ cleaning # None => cleaning \in condemned

\* A request is unanswered, and its generation active only after the rename.
Requested ==
    \A g \in Generations : sent[g] # None =>
        /\ reply[g] \in {None, "unheard"}
        /\ disk # g
        /\ marker # g \/ (pc = "renamed" /\ serving = g)

\* An answer that nothing was published is true and final.
Refused ==
    \A g \in Generations : reply[g] \in {"busy", "conflict"} => sent[g] = None /\ Inactive(g)

\* The life of a generation's name.
Names == Held /\ Reviewed /\ Fresh /\ Condemned /\ Requested /\ Refused /\ ActiveIsWhole

\* A list on screen is as new as this window's changes, unless it is being renewed.
Lists ==
    /\ \A w \in Windows : own[w] <= cloud
    /\ \A w \in Windows : loaded[w] /\ ~closed[w] /\ At(w) # "list" => page[w] >= own[w]

WindowInv == Shapes /\ Sole /\ Serving /\ Names /\ Lists

\* Window w has this work and this generation now, the other windows theirs.
Becomes(w, at, name) ==
    \A v \in Windows : /\ At(v)' = IF v = w THEN at ELSE At(v)
                       /\ Name(v)' = IF v = w THEN name ELSE Name(v)

-----------------------------------------------------------------------------
(* What the steps have in common *)

\* Teaching any dictionary, or none, counts up and nothing else.
LEMMA Taught ==
    ASSUME NEW f \in [Dictionaries -> Nat], NEW d
    PROVE  [f EXCEPT ![d] = f[d] + 1] \in [Dictionaries -> Nat]
  <1>1. CASE d \in Dictionaries
    <2>1. f[d] + 1 \in Nat BY <1>1
    <2> QED BY <2>1
  <1>2. CASE d \notin Dictionaries
    <2>1. \A e \in Dictionaries : [f EXCEPT ![d] = f[d] + 1][e] = f[e] BY <1>2
    <2> QED BY <2>1
  <1> QED BY <1>1, <1>2

\* A work that ends gives up its generation's name.
LEMMA WorkDone ==
    ASSUME NEW w \in Windows, WindowShapes, Done(w)
    PROVE  Becomes(w, "idle", None)
  BY DEF At, Name, WindowShapes, Becomes, Done, NoWork

\* A work that goes on keeps it.
LEMMA WorkGoes ==
    ASSUME NEW w \in Windows, NEW step, WindowShapes, Goes(w, step)
    PROVE  Becomes(w, step, Name(w))
  BY DEF At, Name, Goes, Works, WindowShapes, Becomes

\* A work is a record whichever of its fields a step sets.
LEMMA WorkAt ==
    ASSUME NEW x \in Works, NEW at \in WorkSteps
    PROVE  [x EXCEPT !.at = at] \in Works
  BY DEF Works

\* It is one with the generation it draws.
LEMMA WorkOn ==
    ASSUME NEW x \in Works, NEW at \in WorkSteps, NEW generation \in Generations
    PROVE  [x EXCEPT !.at = at, !.generation = generation] \in Works
  BY DEF Works

\* It is one with the revision it is for.
LEMMA WorkFor ==
    ASSUME NEW x \in Works, NEW at \in WorkSteps, NEW revision \in Nat, NEW token \in Tokens
    PROVE  [x EXCEPT !.at = at, !.revision = revision, !.token = token] \in Works
  BY DEF Works

\* So is the absence of one.
LEMMA NoWorkIsWork == NoWork \in Works
  BY DEF NoWork, Works, WorkSteps, Tokens

\* The account's dictionary and the windows' frames touch nothing local.
LEMMA ListLeavesNative ==
    ASSUME ListNext \/ \E w \in Windows : CloseWindow(w) \/ OpenWindow(w)
    PROVE  UNCHANGED nativeVars
  BY DEF ListNext, EditBegins, ListBegins, SnapshotPrepare, SnapshotAnswered, Edited, Listed,
         ListFails, OthersEdit, CloseWindow, OpenWindow

-----------------------------------------------------------------------------
(* The steps keep every part of the invariant *)

\* What is on disk and in the lease keeps its values.
LEMMA FilesKeepShape ==
    ASSUME WindowInv, Next
    PROVE  FileShapes'
  <1> USE DEF WindowInv, Shapes
  <1>1. ASSUME UNCHANGED <<files, marker, disk, learned, use>> PROVE FileShapes'
    BY <1>1 DEF FileShapes
  <1>2. ASSUME ListNext \/ \E w \in Windows : CloseWindow(w) \/ OpenWindow(w) PROVE FileShapes'
    BY <1>2, <1>1, ListLeavesNative DEF nativeVars, fileVars, engineVars, requestVars, otherVars
  <1>3. ASSUME \/ \E c \in Contexts : CreateContext(c) \/ DestroyContext(c) \/ Type(c)
               \/ \E g \in Generations : PublishBegins(g) \/ CleanerIsRefused(g)
               \/ PublishIsRefused \/ PublishBuilds \/ Recover
        PROVE  FileShapes'
    BY <1>3, <1>1 DEF CreateContext, DestroyContext, Type, PublishBegins, PublishIsRefused,
       PublishBuilds, Recover, CleanerIsRefused, Answer, Doing, fileVars
  <1>4. ASSUME \/ \E w \in Windows : NativePrepare(w) \/ NativePublish(w) \/ Answered(w)
                     \/ TimesOut(w)
        PROVE  FileShapes'
    BY <1>4, <1>1 DEF NativePrepare, NativePublish, Answered, TimesOut, Answer, Done,
       nativeVars, fileVars
  <1>5. ASSUME Start PROVE FileShapes'
    BY <1>5 DEF Start, Lease!Share, fileVars, FileShapes, Programs
  <1>6. ASSUME EngineDies PROVE FileShapes'
    BY <1>6 DEF EngineDies, Ends, fileVars, FileShapes, Programs
  <1>7. ASSUME NEW c \in Contexts, Commit(c) PROVE FileShapes'
    <2>1. learned' \in [Dictionaries -> Nat]
      BY <1>7, Taught DEF Commit, FileShapes
    <2> QED BY <1>7, <2>1 DEF Commit, FileShapes
  <1>8. ASSUME PublishLocks PROVE FileShapes'
    BY <1>8 DEF PublishLocks, Lease!TakeSole, Lease!Alone, fileVars, FileShapes, Programs
  <1>9. ASSUME PublishConflicts PROVE FileShapes'
    BY <1>9 DEF PublishConflicts, GiveUp, Lease!Share, fileVars, FileShapes, Programs
  <1>10. ASSUME PublishThrows PROVE FileShapes'
    BY <1>10 DEF PublishThrows, GiveUp, Lease!Share, fileVars, FileShapes, Programs
  <1>11. ASSUME PublishRenames PROVE FileShapes'
    BY <1>11 DEF PublishRenames, FileShapes, Serving, Dictionaries
  <1>12. ASSUME NEW durable \in BOOLEAN, PublishAdopts(durable) PROVE FileShapes'
    BY <1>12 DEF PublishAdopts, Lease!Share, Doing, Answer, FileShapes, Programs
  <1>13. ASSUME NEW durable \in BOOLEAN, PublishQuits(durable) PROVE FileShapes'
    BY <1>13 DEF PublishQuits, Ends, FileShapes, Programs
  <1>14. ASSUME RecoverFails PROVE FileShapes'
    BY <1>14 DEF RecoverFails, Ends, fileVars, FileShapes, Programs
  <1>15. ASSUME NEW g \in Generations, CleanerBegins(g) PROVE FileShapes'
    BY <1>15 DEF CleanerBegins, Lease!Share, fileVars, FileShapes, Programs
  <1>16. ASSUME CleanerRemoves PROVE FileShapes'
    BY <1>16 DEF CleanerRemoves, FileShapes, Programs
  <1>17. ASSUME CleanerEnds PROVE FileShapes'
    BY <1>17 DEF CleanerEnds, Lease!Release, fileVars, FileShapes, Programs
  <1>18. ASSUME ReplayBegins PROVE FileShapes'
    BY <1>18 DEF ReplayBegins, Lease!Share, fileVars, FileShapes, Programs
  <1>19. ASSUME ReplayApplies PROVE FileShapes'
    <2>1. learned' \in [Dictionaries -> Nat]
      BY <1>19, Taught DEF ReplayApplies, FileShapes
    <2> QED BY <1>19, <2>1 DEF ReplayApplies, FileShapes
  <1>20. ASSUME ReplayEnds PROVE FileShapes'
    BY <1>20 DEF ReplayEnds, Lease!Release, fileVars, FileShapes, Programs
  <1>21. ASSUME NEW w \in Windows, NEW g \in Generations, StageBegins(w, g) PROVE FileShapes'
    BY <1>21 DEF StageBegins, Lease!Share, FileShapes, Programs
  <1>22. ASSUME NEW w \in Windows, StageEnds(w) PROVE FileShapes'
    BY <1>22 DEF StageEnds, Goes, FileShapes, Programs
  <1>23. ASSUME NEW w \in Windows, PrepareEnds(w) PROVE FileShapes'
    BY <1>23 DEF PrepareEnds, Goes, Lease!Release, fileVars, FileShapes, Programs
  <1>24. ASSUME NEW w \in Windows, PrepareFails(w) PROVE FileShapes'
    BY <1>24 DEF PrepareFails, Done, fileVars, FileShapes, Programs
  <1>25. ASSUME NEW w \in Windows, Declines(w) PROVE FileShapes'
    BY <1>25 DEF Declines, Done, fileVars, FileShapes, Programs
  <1>26. ASSUME NEW w \in Windows, NativeExport(w) PROVE FileShapes'
    BY <1>26 DEF NativeExport, Goes, Lease!Share, fileVars, FileShapes, Programs
  <1>27. ASSUME NEW w \in Windows, ExportEnds(w) PROVE FileShapes'
    BY <1>27 DEF ExportEnds, Done, Lease!Release, fileVars, FileShapes, Programs
  <1>28. ASSUME NEW w \in Windows, ProgramDies(w) PROVE FileShapes'
    BY <1>28 DEF ProgramDies, Done, fileVars, FileShapes, Programs
  <1>29. ASSUME PowerLoss PROVE FileShapes'
    BY <1>29 DEF PowerLoss, FileShapes, Programs
  <1>30. ASSUME EngineNext PROVE FileShapes'
    BY <1>30, <1>3, <1>5, <1>6, <1>7, <1>8, <1>9, <1>10, <1>11, <1>12, <1>13, <1>14, <1>15,
       <1>16, <1>17, <1>18, <1>19, <1>20 DEF EngineNext
  <1>31. ASSUME LocalNext PROVE FileShapes'
    BY <1>31, <1>30, <1>4, <1>21, <1>22, <1>23, <1>24, <1>25, <1>26, <1>27, <1>28, <1>29
       DEF LocalNext
  <1> QED
    BY <1>2, <1>31 DEF Next

\* The engine keeps its shape.
LEMMA EngineKeepsShape ==
    ASSUME WindowInv, Next
    PROVE  EngineShapes'
  <1> USE DEF WindowInv, Shapes
  <1>1. ASSUME UNCHANGED <<alive, epoch, pc, serving, outcome, runtime, controller, composing>>
        PROVE EngineShapes'
    BY <1>1 DEF EngineShapes
  <1>2. ASSUME ListNext \/ \E w \in Windows : CloseWindow(w) \/ OpenWindow(w) PROVE EngineShapes'
    BY <1>2, <1>1, ListLeavesNative DEF nativeVars, fileVars, engineVars, requestVars, otherVars
  <1>3. ASSUME \/ \E g \in Generations : CleanerBegins(g) \/ CleanerIsRefused(g)
               \/ CleanerRemoves \/ CleanerEnds \/ ReplayBegins \/ ReplayApplies
                     \/ ReplayEnds
        PROVE  EngineShapes'
    BY <1>3, <1>1 DEF CleanerBegins, CleanerIsRefused, CleanerRemoves, CleanerEnds,
       ReplayBegins, ReplayApplies, ReplayEnds, engineVars
  <1>4. ASSUME \/ \E w \in Windows : NativePrepare(w) \/ StageEnds(w) \/ PrepareEnds(w)
                     \/ PrepareFails(w) \/ Declines(w) \/ NativePublish(w) \/ Answered(w)
                     \/ TimesOut(w) \/ NativeExport(w) \/ ExportEnds(w) \/ ProgramDies(w)
               \/ \E w \in Windows : \E g \in Generations : StageBegins(w, g)
        PROVE  EngineShapes'
    BY <1>4, <1>1 DEF NativePrepare, StageBegins, StageEnds, PrepareEnds, PrepareFails,
       Declines, NativePublish, Answered, TimesOut, NativeExport, ExportEnds, ProgramDies,
       Goes, Done, Answer, nativeVars, engineVars
  <1>5. ASSUME Start PROVE EngineShapes'
    BY <1>5 DEF Start, EngineShapes, FileShapes, Serving, NoController, Dictionaries
  <1>6. ASSUME EngineDies PROVE EngineShapes'
    BY <1>6 DEF EngineDies, Ends, EngineShapes, FileShapes, Serving, NoController, Dictionaries
  <1>7. ASSUME NEW c \in Contexts, CreateContext(c) PROVE EngineShapes'
    BY <1>7 DEF CreateContext, EngineShapes, FileShapes, Serving, NoController, Dictionaries
  <1>8. ASSUME NEW c \in Contexts, DestroyContext(c) PROVE EngineShapes'
    BY <1>8 DEF DestroyContext, EngineShapes, FileShapes, Serving, NoController, Dictionaries
  <1>9. ASSUME NEW c \in Contexts, Type(c) PROVE EngineShapes'
    BY <1>9 DEF Type, EngineShapes, FileShapes, Serving, NoController, Dictionaries
  <1>10. ASSUME NEW c \in Contexts, Commit(c) PROVE EngineShapes'
    BY <1>10 DEF Commit, EngineShapes, FileShapes, Serving, NoController, Dictionaries
  <1>11. ASSUME NEW g \in Generations, PublishBegins(g) PROVE EngineShapes'
    BY <1>11 DEF PublishBegins, Answer, Doing, EngineShapes, FileShapes, Serving, NoController,
       Dictionaries
  <1>12. ASSUME PublishLocks PROVE EngineShapes'
    BY <1>12 DEF PublishLocks, EngineShapes, FileShapes, Serving, NoController, Dictionaries
  <1>13. ASSUME PublishIsRefused PROVE EngineShapes'
    BY <1>13 DEF PublishIsRefused, EngineShapes, FileShapes, Serving, NoController,
       Dictionaries
  <1>14. ASSUME PublishBuilds PROVE EngineShapes'
    BY <1>14 DEF PublishBuilds, EngineShapes, FileShapes, Serving, NoController, Dictionaries
  <1>15. ASSUME PublishConflicts PROVE EngineShapes'
    BY <1>15 DEF PublishConflicts, GiveUp, EngineShapes, FileShapes, Serving, NoController,
       Dictionaries
  <1>16. ASSUME PublishThrows PROVE EngineShapes'
    BY <1>16 DEF PublishThrows, GiveUp, EngineShapes, FileShapes, Serving, NoController,
       Dictionaries
  <1>17. ASSUME PublishRenames PROVE EngineShapes'
    BY <1>17 DEF PublishRenames, EngineShapes, FileShapes, Serving, NoController, Dictionaries
  <1>18. ASSUME NEW durable \in BOOLEAN, PublishAdopts(durable) PROVE EngineShapes'
    BY <1>18 DEF PublishAdopts, Doing, Answer, Everywhere, EngineShapes, FileShapes, Serving,
       NoController, Dictionaries
  <1>19. ASSUME NEW durable \in BOOLEAN, PublishQuits(durable) PROVE EngineShapes'
    BY <1>19 DEF PublishQuits, Ends, EngineShapes, FileShapes, Serving, NoController,
       Dictionaries
  <1>20. ASSUME Recover PROVE EngineShapes'
    BY <1>20 DEF Recover, Doing, Answer, Recovered, Everywhere, EngineShapes, FileShapes,
       Serving, NoController, Dictionaries
  <1>21. ASSUME RecoverFails PROVE EngineShapes'
    BY <1>21 DEF RecoverFails, Ends, EngineShapes, FileShapes, Serving, NoController,
       Dictionaries
  <1>22. ASSUME PowerLoss PROVE EngineShapes'
    BY <1>22 DEF PowerLoss, NoController, EngineShapes, FileShapes, Serving, Dictionaries
  <1>23. ASSUME EngineNext PROVE EngineShapes'
    BY <1>23, <1>3, <1>5, <1>6, <1>7, <1>8, <1>9, <1>10, <1>11, <1>12, <1>13, <1>14, <1>15,
       <1>16, <1>17, <1>18, <1>19, <1>20, <1>21 DEF EngineNext
  <1>24. ASSUME LocalNext PROVE EngineShapes'
    BY <1>24, <1>23, <1>4, <1>22 DEF LocalNext
  <1> QED
    BY <1>2, <1>24 DEF Next

\* Requests, answers and what the other programs do keep their shape.
LEMMA RequestsKeepShape ==
    ASSUME WindowInv, Next
    PROVE  RequestShapes'
  <1> USE NamesAssumption DEF WindowInv, Shapes
  <1>1. ASSUME UNCHANGED <<sent, reply, condemned, cleaning, replaying>> PROVE RequestShapes'
    BY <1>1 DEF RequestShapes
  <1>2. ASSUME ListNext \/ \E w \in Windows : CloseWindow(w) \/ OpenWindow(w) PROVE RequestShapes'
    BY <1>2, <1>1, ListLeavesNative DEF nativeVars, fileVars, engineVars, requestVars, otherVars
  <1>3. ASSUME \/ Start \/ PublishLocks \/ PublishIsRefused \/ PublishBuilds
                     \/ PublishConflicts \/ PublishThrows \/ PublishRenames \/ CleanerRemoves
                     \/ ReplayApplies
               \/ \E c \in Contexts : CreateContext(c) \/ DestroyContext(c) \/ Type(c)
                     \/ Commit(c)
        PROVE  RequestShapes'
    BY <1>3, <1>1 DEF Start, CreateContext, DestroyContext, Type, Commit, PublishLocks,
       PublishIsRefused, PublishBuilds, PublishConflicts, PublishThrows, PublishRenames,
       CleanerRemoves, ReplayApplies, GiveUp, requestVars, otherVars
  <1>4. ASSUME \/ \E w \in Windows : NativePrepare(w) \/ StageEnds(w) \/ PrepareEnds(w)
                     \/ PrepareFails(w) \/ NativeExport(w) \/ ExportEnds(w)
               \/ \E w \in Windows : \E g \in Generations : StageBegins(w, g)
        PROVE  RequestShapes'
    BY <1>4, <1>1 DEF NativePrepare, StageBegins, StageEnds, PrepareEnds, PrepareFails,
       NativeExport, ExportEnds, Goes, Done, nativeVars, requestVars, otherVars
  <1>5. ASSUME EngineDies PROVE RequestShapes'
    BY <1>5 DEF EngineDies, Ends, otherVars, RequestShapes, EngineShapes, FileShapes, Serving
  <1>6. ASSUME NEW g \in Generations, PublishBegins(g) PROVE RequestShapes'
    BY <1>6 DEF PublishBegins, Answer, Doing, requestVars, otherVars, RequestShapes,
       EngineShapes, FileShapes, Serving
  <1>7. ASSUME NEW durable \in BOOLEAN, PublishAdopts(durable) PROVE RequestShapes'
    BY <1>7 DEF PublishAdopts, Doing, Answer, otherVars, RequestShapes, EngineShapes,
       FileShapes, Serving
  <1>8. ASSUME NEW durable \in BOOLEAN, PublishQuits(durable) PROVE RequestShapes'
    BY <1>8 DEF PublishQuits, Ends, otherVars, RequestShapes, EngineShapes, FileShapes, Serving
  <1>9. ASSUME Recover PROVE RequestShapes'
    BY <1>9 DEF Recover, Doing, Answer, otherVars, RequestShapes, EngineShapes, FileShapes,
       Serving
  <1>10. ASSUME RecoverFails PROVE RequestShapes'
    BY <1>10 DEF RecoverFails, Ends, otherVars, RequestShapes, EngineShapes, FileShapes,
       Serving
  <1>11. ASSUME NEW g \in Generations, CleanerBegins(g) PROVE RequestShapes'
    BY <1>11 DEF CleanerBegins, requestVars, RequestShapes
  <1>12. ASSUME NEW g \in Generations, CleanerIsRefused(g) PROVE RequestShapes'
    BY <1>12 DEF CleanerIsRefused, requestVars, RequestShapes, EngineShapes, FileShapes,
       Serving
  <1>13. ASSUME CleanerEnds PROVE RequestShapes'
    BY <1>13 DEF CleanerEnds, requestVars, RequestShapes, EngineShapes, FileShapes, Serving
  <1>14. ASSUME ReplayBegins PROVE RequestShapes'
    BY <1>14 DEF ReplayBegins, requestVars, RequestShapes, EngineShapes, FileShapes, Serving
  <1>15. ASSUME ReplayEnds PROVE RequestShapes'
    BY <1>15 DEF ReplayEnds, requestVars, RequestShapes, EngineShapes, FileShapes, Serving
  <1>16. ASSUME NEW w \in Windows, Declines(w) PROVE RequestShapes'
    BY <1>16 DEF Declines, Done, requestVars, RequestShapes, Names, Held, Private, At, Name,
       WindowShapes, Works
  <1>17. ASSUME NEW w \in Windows, NativePublish(w) PROVE RequestShapes'
    <2>1. work[w].token \in Tokens /\ work[w].revision \in Nat
      BY DEF WindowShapes, Works
    <2>2. [token |-> work[w].token, revision |-> work[w].revision] \in [token : Tokens, revision : Nat]
      BY <2>1
    <2> QED BY <1>17, <2>2 DEF NativePublish, Answer, otherVars, RequestShapes
  <1>18. ASSUME NEW w \in Windows, Answered(w) PROVE RequestShapes'
    BY <1>18 DEF Answered, Discards, Done, RequestShapes, WindowShapes, Works, Names, Held, At,
       Name
  <1>19. ASSUME NEW w \in Windows, TimesOut(w) PROVE RequestShapes'
    BY <1>19 DEF TimesOut, Done, otherVars, RequestShapes, EngineShapes, FileShapes, Serving
  <1>20. ASSUME NEW w \in Windows, ProgramDies(w) PROVE RequestShapes'
    BY <1>20 DEF ProgramDies, Done, otherVars, RequestShapes, EngineShapes, FileShapes, Serving
  <1>21. ASSUME PowerLoss PROVE RequestShapes'
    BY <1>21 DEF PowerLoss, RequestShapes, EngineShapes, FileShapes, Serving
  <1>22. ASSUME EngineNext PROVE RequestShapes'
    BY <1>22, <1>3, <1>5, <1>6, <1>7, <1>8, <1>9, <1>10, <1>11, <1>12, <1>13, <1>14, <1>15
       DEF EngineNext
  <1>23. ASSUME LocalNext PROVE RequestShapes'
    BY <1>23, <1>22, <1>4, <1>16, <1>17, <1>18, <1>19, <1>20, <1>21 DEF LocalNext
  <1> QED
    BY <1>2, <1>23 DEF Next

\* The windows and the account's dictionary keep their shape.
LEMMA WindowsKeepShape ==
    ASSUME WindowInv, Next
    PROVE  WindowShapes'
  <1> USE DEF WindowInv, Shapes
  <1>1. ASSUME UNCHANGED <<work, closed, cloud, loaded, page, own>> PROVE WindowShapes'
    BY <1>1 DEF WindowShapes
  <1>2. ASSUME EngineNext, UNCHANGED <<windowVars, cloudVars>> PROVE WindowShapes'
    BY <1>2, <1>1 DEF windowVars, cloudVars
  <1>3. ASSUME NEW w \in Windows, NativePrepare(w) PROVE WindowShapes'
    <2>1. [at |-> "inspected", generation |-> None, token |-> marker, revision |-> learned[marker],
            epoch |-> epoch] \in Works
      BY DEF Works, WorkSteps, Tokens, FileShapes, EngineShapes
    <2> QED BY <1>3, <2>1 DEF NativePrepare, Revision, cloudVars, WindowShapes
  <1>4. ASSUME NEW w \in Windows, NEW g \in Generations, StageBegins(w, g) PROVE WindowShapes'
    <2>1. [work[w] EXCEPT !.at = "staging", !.generation = g] \in Works
      BY WorkOn DEF WindowShapes, WorkSteps
    <2> QED BY <1>4, <2>1 DEF StageBegins, cloudVars, WindowShapes
  <1>5. ASSUME NEW w \in Windows, StageEnds(w) PROVE WindowShapes'
    <2>1. [work[w] EXCEPT !.at = "staged"] \in Works
      BY WorkAt DEF WindowShapes, WorkSteps
    <2> QED BY <1>5, <2>1 DEF StageEnds, Goes, cloudVars, WindowShapes
  <1>6. ASSUME NEW w \in Windows, PrepareEnds(w) PROVE WindowShapes'
    <2>1. [work[w] EXCEPT !.at = "review"] \in Works
      BY WorkAt DEF WindowShapes, WorkSteps
    <2> QED BY <1>6, <2>1 DEF PrepareEnds, Goes, cloudVars, WindowShapes
  <1>7. ASSUME NEW w \in Windows, PrepareFails(w) PROVE WindowShapes'
    BY <1>7 DEF PrepareFails, Done, NoWork, cloudVars, WindowShapes, WorkSteps, Works, Tokens,
       FileShapes, EngineShapes
  <1>8. ASSUME NEW w \in Windows, Declines(w) PROVE WindowShapes'
    BY <1>8 DEF Declines, Done, NoWork, cloudVars, WindowShapes, WorkSteps, Works, Tokens,
       FileShapes, EngineShapes
  <1>9. ASSUME NEW w \in Windows, NativePublish(w) PROVE WindowShapes'
    BY <1>9 DEF NativePublish, NoWork, Answer, cloudVars, WindowShapes, WorkSteps, Works,
       Tokens, FileShapes, EngineShapes
  <1>10. ASSUME NEW w \in Windows, Answered(w) PROVE WindowShapes'
    BY <1>10 DEF Answered, Done, NoWork, cloudVars, WindowShapes, WorkSteps, Works, Tokens,
       FileShapes, EngineShapes
  <1>11. ASSUME NEW w \in Windows, TimesOut(w) PROVE WindowShapes'
    BY <1>11 DEF TimesOut, Done, NoWork, cloudVars, WindowShapes, WorkSteps, Works, Tokens,
       FileShapes, EngineShapes
  <1>12. ASSUME NEW w \in Windows, NativeExport(w) PROVE WindowShapes'
    <2>1. [work[w] EXCEPT !.at = "exporting"] \in Works
      BY WorkAt DEF WindowShapes, WorkSteps
    <2> QED BY <1>12, <2>1 DEF NativeExport, Goes, cloudVars, WindowShapes
  <1>13. ASSUME NEW w \in Windows, ExportEnds(w) PROVE WindowShapes'
    BY <1>13 DEF ExportEnds, Done, NoWork, cloudVars, WindowShapes, WorkSteps, Works, Tokens,
       FileShapes, EngineShapes
  <1>14. ASSUME NEW w \in Windows, ProgramDies(w) PROVE WindowShapes'
    BY <1>14 DEF ProgramDies, Done, NoWork, cloudVars, WindowShapes, WorkSteps, Works, Tokens,
       FileShapes, EngineShapes
  <1>15. ASSUME PowerLoss PROVE WindowShapes'
    BY <1>15 DEF PowerLoss, NoWork, cloudVars, WindowShapes, WorkSteps, Works, Tokens,
       FileShapes, EngineShapes
  <1>16. ASSUME NEW w \in Windows, NEW selected \in BOOLEAN, EditBegins(w, selected)
         PROVE WindowShapes'
    <2>1. \A r \in Nat : [work[w] EXCEPT !.at = "edit", !.revision = r, !.token = selected] \in Works
      BY WorkFor DEF WindowShapes, WorkSteps, Tokens
    <2>2. (IF selected THEN page[w] ELSE 0) \in Nat
      BY DEF WindowShapes
    <2> QED BY <1>16, <2>1, <2>2 DEF EditBegins, cloudVars, WindowShapes
  <1>17. ASSUME NEW w \in Windows, ListBegins(w) PROVE WindowShapes'
    <2>1. [work[w] EXCEPT !.at = "list"] \in Works
      BY WorkAt DEF WindowShapes, WorkSteps
    <2> QED BY <1>17, <2>1 DEF ListBegins, Goes, cloudVars, WindowShapes
  <1>18. ASSUME NEW w \in Windows, SnapshotPrepare(w) PROVE WindowShapes'
    <2>1. [work[w] EXCEPT !.at = "cloud review", !.revision = cloud, !.token = TRUE] \in Works
      BY WorkFor DEF WindowShapes, WorkSteps, Tokens
    <2> QED BY <1>18, <2>1 DEF SnapshotPrepare, cloudVars, WindowShapes
  <1>19. ASSUME NEW w \in Windows, NEW accepts \in BOOLEAN, SnapshotAnswered(w, accepts)
         PROVE WindowShapes'
    <2>1. [work[w] EXCEPT !.at = "edit"] \in Works
      BY WorkAt DEF WindowShapes, WorkSteps
    <2> QED BY <1>19, <2>1, NoWorkIsWork DEF SnapshotAnswered, Goes, Done, cloudVars, WindowShapes
  <1>20. ASSUME NEW w \in Windows, NEW applies \in BOOLEAN, NEW heard \in BOOLEAN, Edited(w, applies, heard)
         PROVE WindowShapes'
    <2>1. [work[w] EXCEPT !.at = "list"] \in Works
      BY WorkAt DEF WindowShapes, WorkSteps
    <2>2. work' \in [Windows -> Works]
      BY <1>20, <2>1, NoWorkIsWork DEF Edited, Goes, Done, WindowShapes
    <2>3. cloud' \in Nat /\ own' \in [Windows -> Nat]
      BY <1>20 DEF Edited, WindowShapes
    <2> QED BY <1>20, <2>2, <2>3 DEF Edited, EmptiedAfterChange, Emptied, WindowShapes
  <1>21. ASSUME NEW w \in Windows, Listed(w) PROVE WindowShapes'
    BY <1>21 DEF Listed, Done, NoWork, WindowShapes, WorkSteps, Works, Tokens, FileShapes,
       EngineShapes
  <1>22. ASSUME NEW w \in Windows, ListFails(w) PROVE WindowShapes'
    BY <1>22 DEF ListFails, Done, NoWork, Emptied, WindowShapes, WorkSteps, Works, Tokens,
       FileShapes, EngineShapes
  <1>23. ASSUME OthersEdit PROVE WindowShapes'
    <2>1. cloud' \in Nat
      BY <1>23 DEF OthersEdit, WindowShapes
    <2> QED BY <1>23, <2>1 DEF OthersEdit, windowVars, WindowShapes
  <1>24. ASSUME NEW w \in Windows, CloseWindow(w) PROVE WindowShapes'
    BY <1>24 DEF CloseWindow, cloudVars, WindowShapes, WorkSteps, Works, Tokens, FileShapes,
       EngineShapes
  <1>25. ASSUME NEW w \in Windows, OpenWindow(w) PROVE WindowShapes'
    BY <1>25 DEF OpenWindow, WindowShapes, WorkSteps, Works, Tokens, FileShapes, EngineShapes
  <1> QED
    BY <1>2, <1>3, <1>4, <1>5, <1>6, <1>7, <1>8, <1>9, <1>10, <1>11, <1>12, <1>13,
     <1>14, <1>15, <1>16, <1>17, <1>18, <1>19, <1>20, <1>21, <1>22, <1>23, <1>24, <1>25
        DEF Next, LocalNext, ListNext

\* Whoever begins to use the dictionaries asks the lease, and the engine keeps it to itself
\* from the comparison to the rename.
LEMMA StepKeepsSole ==
    ASSUME WindowInv, Next
    PROVE  Sole'
  <1> USE NamesAssumption, WindowsAssumption DEF WindowInv, Shapes
  <1>1. ASSUME UNCHANGED <<use, pc, replaying>> PROVE Sole'
    BY <1>1 DEF Sole
  <1>2. ASSUME ListNext \/ \E w \in Windows : CloseWindow(w) \/ OpenWindow(w) PROVE Sole'
    BY <1>2, <1>1, ListLeavesNative DEF nativeVars, fileVars, engineVars, requestVars, otherVars
  <1>3. ASSUME \/ \E c \in Contexts : CreateContext(c) \/ DestroyContext(c) \/ Type(c)
                     \/ Commit(c)
               \/ \E g \in Generations : CleanerIsRefused(g)
               \/ CleanerRemoves \/ ReplayApplies
        PROVE  Sole'
    BY <1>3, <1>1 DEF CreateContext, DestroyContext, Type, Commit, CleanerIsRefused,
       CleanerRemoves, ReplayApplies, otherVars, engineVars
  <1>4. ASSUME \/ \E w \in Windows : NativePrepare(w) \/ StageEnds(w) \/ NativePublish(w)
                     \/ Answered(w) \/ TimesOut(w)
        PROVE  Sole'
    BY <1>4, <1>1 DEF NativePrepare, StageEnds, NativePublish, Answered, TimesOut, Goes,
       Answer, Done, nativeVars, engineVars, otherVars
  <1>5. ASSUME Start PROVE Sole'
    BY <1>5 DEF Start, Lease!Share, otherVars, Sole, Serving, FileShapes, EngineShapes,
       RequestShapes, Programs
  <1>6. ASSUME EngineDies PROVE Sole'
    BY <1>6 DEF EngineDies, Ends, otherVars, Sole, Serving, FileShapes, EngineShapes,
       RequestShapes, Programs
  <1>7. ASSUME NEW g \in Generations, PublishBegins(g) PROVE Sole'
    BY <1>7 DEF PublishBegins, Answer, Doing, otherVars, Sole, Serving, FileShapes,
       EngineShapes, RequestShapes, Programs
  <1>8. ASSUME PublishLocks PROVE Sole'
    BY <1>8 DEF PublishLocks, Lease!TakeSole, Lease!Alone, otherVars, Sole, Serving,
       FileShapes, EngineShapes, RequestShapes, Programs
  <1>9. ASSUME PublishIsRefused PROVE Sole'
    BY <1>9 DEF PublishIsRefused, otherVars, Sole, Serving, FileShapes, EngineShapes,
       RequestShapes, Programs
  <1>10. ASSUME PublishBuilds PROVE Sole'
    BY <1>10 DEF PublishBuilds, otherVars, Sole, Serving, FileShapes, EngineShapes,
       RequestShapes, Programs
  <1>11. ASSUME PublishConflicts PROVE Sole'
    BY <1>11 DEF PublishConflicts, GiveUp, Lease!Share, otherVars, Sole, Serving, FileShapes,
       EngineShapes, RequestShapes, Programs
  <1>12. ASSUME PublishThrows PROVE Sole'
    BY <1>12 DEF PublishThrows, GiveUp, Lease!Share, otherVars, Sole, Serving, FileShapes,
       EngineShapes, RequestShapes, Programs
  <1>13. ASSUME PublishRenames PROVE Sole'
    BY <1>13 DEF PublishRenames, otherVars, Sole, Serving, FileShapes, EngineShapes,
       RequestShapes, Programs
  <1>14. ASSUME NEW durable \in BOOLEAN, PublishAdopts(durable) PROVE Sole'
    BY <1>14 DEF PublishAdopts, Lease!Share, Doing, Answer, otherVars, Sole, Serving,
       FileShapes, EngineShapes, RequestShapes, Programs
  <1>15. ASSUME NEW durable \in BOOLEAN, PublishQuits(durable) PROVE Sole'
    BY <1>15 DEF PublishQuits, Ends, otherVars, Sole, Serving, FileShapes, EngineShapes,
       RequestShapes, Programs
  <1>16. ASSUME Recover PROVE Sole'
    BY <1>16 DEF Recover, Doing, Answer, otherVars, Sole, Serving, FileShapes, EngineShapes,
       RequestShapes, Programs
  <1>17. ASSUME RecoverFails PROVE Sole'
    BY <1>17 DEF RecoverFails, Ends, otherVars, Sole, Serving, FileShapes, EngineShapes,
       RequestShapes, Programs
  <1>18. ASSUME NEW g \in Generations, CleanerBegins(g) PROVE Sole'
    BY <1>18 DEF CleanerBegins, Lease!Share, engineVars, Sole, Serving, FileShapes,
       EngineShapes, RequestShapes, Programs
  <1>19. ASSUME CleanerEnds PROVE Sole'
    BY <1>19 DEF CleanerEnds, Lease!Release, engineVars, Sole, Serving, FileShapes,
       EngineShapes, RequestShapes, Programs
  <1>20. ASSUME ReplayBegins PROVE Sole'
    BY <1>20 DEF ReplayBegins, Lease!Share, engineVars, Sole, Serving, FileShapes,
       EngineShapes, RequestShapes, Programs
  <1>21. ASSUME ReplayEnds PROVE Sole'
    BY <1>21 DEF ReplayEnds, Lease!Release, engineVars, Sole, Serving, FileShapes,
       EngineShapes, RequestShapes, Programs
  <1>22. ASSUME NEW w \in Windows, NEW g \in Generations, StageBegins(w, g) PROVE Sole'
    BY <1>22 DEF StageBegins, Lease!Share, engineVars, otherVars, Sole, Serving, FileShapes,
       EngineShapes, RequestShapes, Programs
  <1>23. ASSUME NEW w \in Windows, PrepareEnds(w) PROVE Sole'
    BY <1>23 DEF PrepareEnds, Goes, Lease!Release, engineVars, otherVars, Sole, Serving,
       FileShapes, EngineShapes, RequestShapes, Programs
  <1>24. ASSUME NEW w \in Windows, PrepareFails(w) PROVE Sole'
    BY <1>24 DEF PrepareFails, Done, engineVars, otherVars, Sole, Serving, FileShapes,
       EngineShapes, RequestShapes, Programs
  <1>25. ASSUME NEW w \in Windows, Declines(w) PROVE Sole'
    BY <1>25 DEF Declines, Done, engineVars, Sole, Serving, FileShapes, EngineShapes,
       RequestShapes, Programs
  <1>26. ASSUME NEW w \in Windows, NativeExport(w) PROVE Sole'
    BY <1>26 DEF NativeExport, Goes, Lease!Share, engineVars, otherVars, Sole, Serving,
       FileShapes, EngineShapes, RequestShapes, Programs
  <1>27. ASSUME NEW w \in Windows, ExportEnds(w) PROVE Sole'
    BY <1>27 DEF ExportEnds, Done, Lease!Release, engineVars, otherVars, Sole, Serving,
       FileShapes, EngineShapes, RequestShapes, Programs
  <1>28. ASSUME NEW w \in Windows, ProgramDies(w) PROVE Sole'
    BY <1>28 DEF ProgramDies, Done, engineVars, otherVars, Sole, Serving, FileShapes,
       EngineShapes, RequestShapes, Programs
  <1>29. ASSUME PowerLoss PROVE Sole'
    BY <1>29 DEF PowerLoss, Sole, Serving, FileShapes, EngineShapes, RequestShapes, Programs
  <1>30. ASSUME EngineNext PROVE Sole'
    BY <1>30, <1>3, <1>5, <1>6, <1>7, <1>8, <1>9, <1>10, <1>11, <1>12, <1>13, <1>14, <1>15,
       <1>16, <1>17, <1>18, <1>19, <1>20, <1>21 DEF EngineNext
  <1>31. ASSUME LocalNext PROVE Sole'
    BY <1>31, <1>30, <1>4, <1>22, <1>23, <1>24, <1>25, <1>26, <1>27, <1>28, <1>29 DEF LocalNext
  <1> QED
    BY <1>2, <1>31 DEF Next

\* The engine's loop returns with every context on the active dictionary, and the request it
\* serves stays what it was: it is unanswered, so no window holds it under review.
LEMMA StepKeepsServing ==
    ASSUME WindowInv, Next
    PROVE  Serving'
  <1> USE NamesAssumption DEF WindowInv, Shapes
  <1>1. ASSUME UNCHANGED <<alive, pc, serving, outcome, runtime, marker, controller, learned, sent>>
        PROVE Serving'
    BY <1>1 DEF Serving
  <1>2. ASSUME ListNext \/ \E w \in Windows : CloseWindow(w) \/ OpenWindow(w) PROVE Serving'
    BY <1>2, <1>1, ListLeavesNative DEF nativeVars, fileVars, engineVars, requestVars, otherVars
  <1>3. ASSUME \/ \E c \in Contexts : Type(c)
               \/ \E g \in Generations : CleanerBegins(g) \/ CleanerIsRefused(g)
               \/ CleanerRemoves \/ CleanerEnds \/ ReplayBegins \/ ReplayEnds
        PROVE  Serving'
    BY <1>3, <1>1 DEF Type, CleanerBegins, CleanerIsRefused, CleanerRemoves, CleanerEnds,
       ReplayBegins, ReplayEnds, fileVars, requestVars, engineVars
  <1>4. ASSUME \/ \E w \in Windows : NativePrepare(w) \/ StageEnds(w) \/ PrepareEnds(w)
                     \/ PrepareFails(w) \/ Declines(w) \/ Answered(w) \/ TimesOut(w)
                     \/ NativeExport(w) \/ ExportEnds(w) \/ ProgramDies(w)
               \/ \E w \in Windows : \E g \in Generations : StageBegins(w, g)
        PROVE  Serving'
    BY <1>4, <1>1 DEF NativePrepare, StageBegins, StageEnds, PrepareEnds, PrepareFails,
       Declines, Answered, TimesOut, NativeExport, ExportEnds, ProgramDies, Goes, Done,
       nativeVars, fileVars, engineVars, requestVars
  <1>5. ASSUME Start PROVE Serving'
    BY <1>5 DEF Start, fileVars, requestVars, Serving, FileShapes, EngineShapes, NoController
  <1>6. ASSUME EngineDies PROVE Serving'
    BY <1>6 DEF EngineDies, Ends, fileVars, Serving, NoController
  <1>7. ASSUME NEW c \in Contexts, CreateContext(c) PROVE Serving'
    BY <1>7 DEF CreateContext, Serves, fileVars, requestVars, Serving, FileShapes,
       EngineShapes, NoController
  <1>8. ASSUME NEW c \in Contexts, DestroyContext(c) PROVE Serving'
    BY <1>8 DEF DestroyContext, Serves, fileVars, requestVars, Serving, FileShapes,
       EngineShapes, NoController
  <1>9. ASSUME NEW c \in Contexts, Commit(c) PROVE Serving'
    BY <1>9 DEF Commit, Serves, requestVars, Serving, EngineShapes, FileShapes, RequestShapes
  <1>10. ASSUME NEW g \in Generations, PublishBegins(g) PROVE Serving'
    BY <1>10 DEF PublishBegins, Serves, Answer, Doing, fileVars, requestVars, Serving,
       EngineShapes, FileShapes, RequestShapes
  <1>11. ASSUME PublishLocks PROVE Serving'
    BY <1>11 DEF PublishLocks, fileVars, requestVars, Serving, EngineShapes, FileShapes,
       RequestShapes
  <1>12. ASSUME PublishIsRefused PROVE Serving'
    BY <1>12 DEF PublishIsRefused, fileVars, requestVars, Serving, EngineShapes, FileShapes,
       RequestShapes
  <1>13. ASSUME PublishBuilds PROVE Serving'
    BY <1>13 DEF PublishBuilds, IsReviewed, Revision, fileVars, requestVars, Serving,
       EngineShapes, FileShapes, RequestShapes
  <1>14. ASSUME PublishConflicts PROVE Serving'
    BY <1>14 DEF PublishConflicts, GiveUp, fileVars, requestVars, Serving, EngineShapes,
       FileShapes, RequestShapes
  <1>15. ASSUME PublishThrows PROVE Serving'
    BY <1>15 DEF PublishThrows, GiveUp, fileVars, requestVars, Serving, EngineShapes,
       FileShapes, RequestShapes
  <1>16. ASSUME PublishRenames PROVE Serving'
    BY <1>16 DEF PublishRenames, requestVars, Serving, EngineShapes, FileShapes, RequestShapes
  <1>17. ASSUME NEW durable \in BOOLEAN, PublishAdopts(durable) PROVE Serving'
    BY <1>17 DEF PublishAdopts, Doing, Answer, Everywhere, Serving, EngineShapes, FileShapes,
       RequestShapes
  <1>18. ASSUME NEW durable \in BOOLEAN, PublishQuits(durable) PROVE Serving'
    BY <1>18 DEF PublishQuits, Ends, Serving, NoController
  <1>19. ASSUME Recover PROVE Serving'
    BY <1>19 DEF Recover, Doing, Answer, Recovered, Everywhere, fileVars, Serving,
       EngineShapes, FileShapes, RequestShapes
  <1>20. ASSUME RecoverFails PROVE Serving'
    BY <1>20 DEF RecoverFails, Ends, fileVars, Serving, NoController
  <1>21. ASSUME ReplayApplies PROVE Serving'
    BY <1>21 DEF ReplayApplies, engineVars, requestVars, Serving, Sole, Programs, FileShapes,
       EngineShapes, RequestShapes
  <1>22. ASSUME NEW w \in Windows, NativePublish(w) PROVE Serving'
    <2>1. Private(w) /\ UNCHANGED <<alive, pc, serving, outcome, runtime, marker, controller, learned>>
      BY <1>22 DEF NativePublish, Private, At, fileVars, engineVars
    <2>2. \A g \in Generations : g # Name(w) => sent'[g] = sent[g]
      BY <1>22 DEF NativePublish, Answer, Name, RequestShapes
    <2>3. pc # "serve" => serving # Name(w)
      BY <2>1 DEF Serving, Names, Reviewed
    <2> QED BY <2>1, <2>2, <2>3 DEF Serving
  <1>23. ASSUME PowerLoss PROVE Serving'
    BY <1>23 DEF PowerLoss, NoController, Serving
  <1>24. ASSUME EngineNext PROVE Serving'
    BY <1>24, <1>3, <1>5, <1>6, <1>7, <1>8, <1>9, <1>10, <1>11, <1>12, <1>13, <1>14, <1>15,
       <1>16, <1>17, <1>18, <1>19, <1>20, <1>21 DEF EngineNext
  <1>25. ASSUME LocalNext PROVE Serving'
    BY <1>25, <1>24, <1>4, <1>22, <1>23 DEF LocalNext
  <1> QED
    BY <1>2, <1>25 DEF Next

\* A list that a change of this window made old is emptied or being renewed.
LEMMA StepKeepsLists ==
    ASSUME WindowInv, Next
    PROVE  Lists'
  <1> USE DEF WindowInv, Shapes
  <1>1. ASSUME UNCHANGED <<own, cloud, loaded, closed, page, work>> PROVE Lists'
    BY <1>1 DEF Lists, At
  <1>2. ASSUME EngineNext, UNCHANGED <<windowVars, cloudVars>> PROVE Lists'
    BY <1>2, <1>1 DEF windowVars, cloudVars
  <1>3. ASSUME NEW w \in Windows, NativePrepare(w) PROVE Lists'
    BY <1>3 DEF NativePrepare, Free, cloudVars, Lists, WindowShapes, Works, At
  <1>4. ASSUME NEW w \in Windows, NEW g \in Generations, StageBegins(w, g) PROVE Lists'
    BY <1>4 DEF StageBegins, cloudVars, Lists, WindowShapes, Works, At
  <1>5. ASSUME NEW w \in Windows, StageEnds(w) PROVE Lists'
    BY <1>5 DEF StageEnds, Goes, cloudVars, Lists, WindowShapes, Works, At
  <1>6. ASSUME NEW w \in Windows, PrepareEnds(w) PROVE Lists'
    BY <1>6 DEF PrepareEnds, Goes, cloudVars, Lists, WindowShapes, Works, At
  <1>7. ASSUME NEW w \in Windows, PrepareFails(w) PROVE Lists'
    BY <1>7 DEF PrepareFails, Done, NoWork, cloudVars, Lists, WindowShapes, Works, At
  <1>8. ASSUME NEW w \in Windows, Declines(w) PROVE Lists'
    BY <1>8 DEF Declines, Done, NoWork, cloudVars, Lists, WindowShapes, Works, At
  <1>9. ASSUME NEW w \in Windows, NativePublish(w) PROVE Lists'
    BY <1>9 DEF NativePublish, NoWork, Answer, cloudVars, Lists, WindowShapes, Works, At
  <1>10. ASSUME NEW w \in Windows, Answered(w) PROVE Lists'
    BY <1>10 DEF Answered, Done, NoWork, cloudVars, Lists, WindowShapes, Works, At
  <1>11. ASSUME NEW w \in Windows, TimesOut(w) PROVE Lists'
    BY <1>11 DEF TimesOut, Done, NoWork, cloudVars, Lists, WindowShapes, Works, At
  <1>12. ASSUME NEW w \in Windows, NativeExport(w) PROVE Lists'
    BY <1>12 DEF NativeExport, Free, Goes, cloudVars, Lists, WindowShapes, Works, At
  <1>13. ASSUME NEW w \in Windows, ExportEnds(w) PROVE Lists'
    BY <1>13 DEF ExportEnds, Done, NoWork, cloudVars, Lists, WindowShapes, Works, At
  <1>14. ASSUME NEW w \in Windows, ProgramDies(w) PROVE Lists'
    BY <1>14 DEF ProgramDies, Done, NoWork, cloudVars, Lists, WindowShapes, Works, At
  <1>15. ASSUME PowerLoss PROVE Lists'
    BY <1>15 DEF PowerLoss, NoWork, cloudVars, Lists, WindowShapes, Works, At
  <1>16. ASSUME NEW w \in Windows, NEW selected \in BOOLEAN, EditBegins(w, selected) PROVE Lists'
    BY <1>16 DEF EditBegins, Free, cloudVars, Lists, WindowShapes, Works, At
  <1>17. ASSUME NEW w \in Windows, ListBegins(w) PROVE Lists'
    BY <1>17 DEF ListBegins, Free, Goes, cloudVars, Lists, WindowShapes, Works, At
  <1>18. ASSUME NEW w \in Windows, SnapshotPrepare(w) PROVE Lists'
    BY <1>18 DEF SnapshotPrepare, Free, cloudVars, Lists, WindowShapes, Works, At
  <1>19. ASSUME NEW w \in Windows, NEW accepts \in BOOLEAN, SnapshotAnswered(w, accepts)
         PROVE Lists'
    BY <1>19 DEF SnapshotAnswered, Goes, Done, NoWork, cloudVars, Lists, WindowShapes, Works,
       At
  <1>20. ASSUME NEW w \in Windows, NEW applies \in BOOLEAN, NEW heard \in BOOLEAN, Edited(w, applies, heard)
         PROVE Lists'
    BY <1>20 DEF Edited, Goes, Done, NoWork, EmptiedAfterChange, Emptied, Lists, WindowShapes,
       Works, At
  <1>21. ASSUME NEW w \in Windows, Listed(w) PROVE Lists'
    BY <1>21 DEF Listed, Done, NoWork, Lists, WindowShapes, Works, At
  <1>22. ASSUME NEW w \in Windows, ListFails(w) PROVE Lists'
    BY <1>22 DEF ListFails, Done, NoWork, Emptied, Lists, WindowShapes, Works, At
  <1>23. ASSUME OthersEdit PROVE Lists'
    <2>1. cloud' = cloud + 1 /\ UNCHANGED <<own, loaded, page, work, closed>>
      BY <1>23 DEF OthersEdit, windowVars
    <2>2. \A w \in Windows : own[w] <= cloud + 1
      BY MaxCloudAssumption DEF WindowShapes, Lists
    <2> QED BY <2>1, <2>2 DEF Lists, At
  <1>24. ASSUME NEW w \in Windows, CloseWindow(w) PROVE Lists'
    BY <1>24 DEF CloseWindow, cloudVars, Lists, WindowShapes, Works, At
  <1>25. ASSUME NEW w \in Windows, OpenWindow(w) PROVE Lists'
    BY <1>25 DEF OpenWindow, Lists, WindowShapes, Works, At
  <1> QED
    BY <1>2, <1>3, <1>4, <1>5, <1>6, <1>7, <1>8, <1>9, <1>10, <1>11, <1>12, <1>13,
     <1>14, <1>15, <1>16, <1>17, <1>18, <1>19, <1>20, <1>21, <1>22, <1>23, <1>24, <1>25
        DEF Next, LocalNext, ListNext

\* Nothing that the life of a name depends on changes.
NamesStay ==
    /\ UNCHANGED <<files, marker, disk, serving, sent, reply, condemned, cleaning>>
    /\ pc = "renamed" => pc' = "renamed"
    /\ \A w \in Windows : /\ Name(w)' = Name(w) /\ (Private(w)' <=> Private(w))
                          /\ At(w)' = "waiting" <=> At(w) = "waiting"

\* Then the names keep their lives.
LEMMA StayKeepsNames ==
    ASSUME Names, NamesStay
    PROVE  Names'
  <1>1. Held'
    BY DEF Names, NamesStay, Held
  <1>2. Reviewed'
    BY DEF Names, NamesStay, Reviewed, Inactive
  <1>3. Fresh' /\ Refused'
    BY DEF Names, NamesStay, Fresh, Refused, Inactive
  <1>4. Condemned'
    BY DEF Names, NamesStay, Condemned, Inactive
  <1>5. Requested' /\ ActiveIsWhole'
    BY DEF Names, NamesStay, Requested, ActiveIsWhole, Whole
  <1> QED BY <1>1, <1>2, <1>3, <1>4, <1>5 DEF Names

\* A window that has a generation has one of the names.
LEMMA HeldIsGeneration ==
    ASSUME WindowInv
    PROVE  \A w \in Windows : /\ Name(w) # None => Name(w) \in Generations
                              /\ Private(w) => Name(w) \in Generations
  BY DEF WindowInv, Shapes, WindowShapes, Works, Names, Held, Name


\* The engine, the cleaner and the replay keep the names' lives: a generation becomes active
\* only from a request, and then it is neither under review nor condemned.
LEMMA EngineKeepsNames ==
    ASSUME WindowInv, EngineNext, UNCHANGED windowVars
    PROVE  Names'
  <1> USE NamesAssumption DEF WindowInv, Shapes, Names
  <1>1. \A w \in Windows : At(w)' = At(w) /\ Name(w)' = Name(w) /\ (Private(w)' <=> Private(w))
    BY DEF windowVars, At, Name, Private
  <1>2. ASSUME \/ Start \/ PublishLocks \/ PublishIsRefused \/ PublishBuilds
                     \/ PublishConflicts \/ PublishThrows \/ ReplayBegins \/ ReplayApplies
                     \/ ReplayEnds
               \/ \E c \in Contexts : CreateContext(c) \/ DestroyContext(c) \/ Type(c)
                     \/ Commit(c)
        PROVE  Names'
    <2>1. NamesStay
      BY <1>1, <1>2 DEF NamesStay, Start, CreateContext, DestroyContext, Type, Commit,
         PublishLocks, PublishIsRefused, PublishBuilds, PublishConflicts, PublishThrows,
         ReplayBegins, ReplayApplies, ReplayEnds, GiveUp, fileVars, requestVars, otherVars,
         engineVars
    <2> QED BY <2>1, StayKeepsNames
  <1>3. ASSUME EngineDies PROVE Names'
    <2>1. Held' /\ Reviewed'
      BY <1>3, <1>1, HeldIsGeneration DEF EngineDies, Ends, fileVars, otherVars, Held,
         Reviewed, Inactive, FileShapes, EngineShapes, RequestShapes, Serving, Requested
    <2>2. Fresh' /\ Condemned'
      BY <1>3, <1>1 DEF EngineDies, Ends, fileVars, otherVars, Fresh, Condemned, Inactive,
         FileShapes, EngineShapes, RequestShapes, Serving, Requested
    <2>3. Requested' /\ Refused' /\ ActiveIsWhole'
      BY <1>3 DEF EngineDies, Ends, fileVars, otherVars, Requested, Refused, Inactive,
         ActiveIsWhole, Whole, FileShapes, EngineShapes, RequestShapes, Serving, Held,
         Reviewed, Fresh, Condemned
    <2> QED BY <2>1, <2>2, <2>3
  <1>4. ASSUME NEW g \in Generations, PublishBegins(g) PROVE Names'
    <2>1. Held' /\ Reviewed'
      BY <1>4, <1>1, HeldIsGeneration DEF PublishBegins, Serves, Answer, Doing, Whole,
         fileVars, requestVars, otherVars, Held, Reviewed, Inactive, FileShapes, EngineShapes,
         RequestShapes, Serving, Requested
    <2>2. Fresh' /\ Condemned'
      BY <1>4, <1>1 DEF PublishBegins, Serves, Answer, Doing, Whole, fileVars, requestVars,
         otherVars, Fresh, Condemned, Inactive, FileShapes, EngineShapes, RequestShapes,
         Serving, Requested
    <2>3. Requested' /\ Refused' /\ ActiveIsWhole'
      BY <1>4 DEF PublishBegins, Serves, Answer, Doing, Whole, fileVars, requestVars,
         otherVars, Requested, Refused, Inactive, ActiveIsWhole, FileShapes, EngineShapes,
         RequestShapes, Serving, Held, Reviewed, Fresh, Condemned
    <2> QED BY <2>1, <2>2, <2>3
  <1>5. ASSUME PublishRenames PROVE Names'
    <2>1. Held' /\ Reviewed'
      BY <1>5, <1>1, HeldIsGeneration DEF PublishRenames, Whole, requestVars, otherVars, Held,
         Reviewed, Inactive, FileShapes, EngineShapes, RequestShapes, Serving, Requested
    <2>2. Fresh' /\ Condemned'
      BY <1>5, <1>1 DEF PublishRenames, Whole, requestVars, otherVars, Fresh, Condemned,
         Inactive, FileShapes, EngineShapes, RequestShapes, Serving, Requested
    <2>3. Requested' /\ Refused' /\ ActiveIsWhole'
      BY <1>5 DEF PublishRenames, Whole, requestVars, otherVars, Requested, Refused, Inactive,
         ActiveIsWhole, FileShapes, EngineShapes, RequestShapes, Serving, Held, Reviewed,
         Fresh, Condemned
    <2> QED BY <2>1, <2>2, <2>3
  <1>6. ASSUME NEW durable \in BOOLEAN, PublishAdopts(durable) PROVE Names'
    <2>1. Held' /\ Reviewed'
      BY <1>6, <1>1, HeldIsGeneration DEF PublishAdopts, Doing, Answer, otherVars, Held,
         Reviewed, Inactive, FileShapes, EngineShapes, RequestShapes, Serving, Requested
    <2>2. Fresh' /\ Condemned'
      BY <1>6, <1>1 DEF PublishAdopts, Doing, Answer, otherVars, Fresh, Condemned, Inactive,
         FileShapes, EngineShapes, RequestShapes, Serving, Requested
    <2>3. Requested' /\ Refused' /\ ActiveIsWhole'
      BY <1>6 DEF PublishAdopts, Doing, Answer, otherVars, Requested, Refused, Inactive,
         ActiveIsWhole, Whole, FileShapes, EngineShapes, RequestShapes, Serving, Held,
         Reviewed, Fresh, Condemned
    <2> QED BY <2>1, <2>2, <2>3
  <1>7. ASSUME NEW durable \in BOOLEAN, PublishQuits(durable) PROVE Names'
    <2>1. Held' /\ Reviewed'
      BY <1>7, <1>1, HeldIsGeneration DEF PublishQuits, Ends, otherVars, Held, Reviewed,
         Inactive, FileShapes, EngineShapes, RequestShapes, Serving, Requested
    <2>2. Fresh' /\ Condemned'
      BY <1>7, <1>1 DEF PublishQuits, Ends, otherVars, Fresh, Condemned, Inactive, FileShapes,
         EngineShapes, RequestShapes, Serving, Requested
    <2>3. Requested' /\ Refused' /\ ActiveIsWhole'
      BY <1>7 DEF PublishQuits, Ends, otherVars, Requested, Refused, Inactive, ActiveIsWhole,
         Whole, FileShapes, EngineShapes, RequestShapes, Serving, Held, Reviewed, Fresh,
         Condemned
    <2> QED BY <2>1, <2>2, <2>3
  <1>8. ASSUME Recover PROVE Names'
    <2>1. Held' /\ Reviewed'
      BY <1>8, <1>1, HeldIsGeneration DEF Recover, Doing, Answer, fileVars, otherVars, Held,
         Reviewed, Inactive, FileShapes, EngineShapes, RequestShapes, Serving, Requested
    <2>2. Fresh' /\ Condemned'
      BY <1>8, <1>1 DEF Recover, Doing, Answer, fileVars, otherVars, Fresh, Condemned,
         Inactive, FileShapes, EngineShapes, RequestShapes, Serving, Requested
    <2>3. Requested' /\ Refused' /\ ActiveIsWhole'
      BY <1>8 DEF Recover, Doing, Answer, fileVars, otherVars, Requested, Refused, Inactive,
         ActiveIsWhole, Whole, FileShapes, EngineShapes, RequestShapes, Serving, Held,
         Reviewed, Fresh, Condemned
    <2> QED BY <2>1, <2>2, <2>3
  <1>9. ASSUME RecoverFails PROVE Names'
    <2>1. Held' /\ Reviewed'
      BY <1>9, <1>1, HeldIsGeneration DEF RecoverFails, Ends, fileVars, otherVars, Held,
         Reviewed, Inactive, FileShapes, EngineShapes, RequestShapes, Serving, Requested
    <2>2. Fresh' /\ Condemned'
      BY <1>9, <1>1 DEF RecoverFails, Ends, fileVars, otherVars, Fresh, Condemned, Inactive,
         FileShapes, EngineShapes, RequestShapes, Serving, Requested
    <2>3. Requested' /\ Refused' /\ ActiveIsWhole'
      BY <1>9 DEF RecoverFails, Ends, fileVars, otherVars, Requested, Refused, Inactive,
         ActiveIsWhole, Whole, FileShapes, EngineShapes, RequestShapes, Serving, Held,
         Reviewed, Fresh, Condemned
    <2> QED BY <2>1, <2>2, <2>3
  <1>10. ASSUME NEW g \in Generations, CleanerBegins(g) PROVE Names'
    <2>1. Held' /\ Reviewed'
      BY <1>10, <1>1, HeldIsGeneration DEF CleanerBegins, fileVars, engineVars, requestVars,
         Held, Reviewed, Inactive, FileShapes, EngineShapes, RequestShapes, Serving, Requested
    <2>2. Fresh' /\ Condemned'
      BY <1>10, <1>1 DEF CleanerBegins, fileVars, engineVars, requestVars, Fresh, Condemned,
         Inactive, FileShapes, EngineShapes, RequestShapes, Serving, Requested
    <2>3. Requested' /\ Refused' /\ ActiveIsWhole'
      BY <1>10 DEF CleanerBegins, fileVars, engineVars, requestVars, Requested, Refused,
         Inactive, ActiveIsWhole, Whole, FileShapes, EngineShapes, RequestShapes, Serving,
         Held, Reviewed, Fresh, Condemned
    <2> QED BY <2>1, <2>2, <2>3
  <1>11. ASSUME NEW g \in Generations, CleanerIsRefused(g) PROVE Names'
    <2>1. Held' /\ Reviewed'
      BY <1>11, <1>1, HeldIsGeneration DEF CleanerIsRefused, fileVars, engineVars, requestVars,
         Held, Reviewed, Inactive, FileShapes, EngineShapes, RequestShapes, Serving, Requested
    <2>2. Fresh' /\ Condemned'
      BY <1>11, <1>1 DEF CleanerIsRefused, fileVars, engineVars, requestVars, Fresh, Condemned,
         Inactive, FileShapes, EngineShapes, RequestShapes, Serving, Requested
    <2>3. Requested' /\ Refused' /\ ActiveIsWhole'
      BY <1>11 DEF CleanerIsRefused, fileVars, engineVars, requestVars, Requested, Refused,
         Inactive, ActiveIsWhole, Whole, FileShapes, EngineShapes, RequestShapes, Serving,
         Held, Reviewed, Fresh, Condemned
    <2> QED BY <2>1, <2>2, <2>3
  <1>12. ASSUME CleanerRemoves PROVE Names'
    <2>1. Held' /\ Reviewed'
      BY <1>12, <1>1, HeldIsGeneration DEF CleanerRemoves, engineVars, requestVars, otherVars,
         Held, Reviewed, Inactive, FileShapes, EngineShapes, RequestShapes, Serving, Requested
    <2>2. Fresh' /\ Condemned'
      BY <1>12, <1>1 DEF CleanerRemoves, engineVars, requestVars, otherVars, Fresh, Condemned,
         Inactive, FileShapes, EngineShapes, RequestShapes, Serving, Requested
    <2>3. Requested' /\ Refused' /\ ActiveIsWhole'
      BY <1>12 DEF CleanerRemoves, engineVars, requestVars, otherVars, Requested, Refused,
         Inactive, ActiveIsWhole, Whole, FileShapes, EngineShapes, RequestShapes, Serving,
         Held, Reviewed, Fresh, Condemned
    <2> QED BY <2>1, <2>2, <2>3
  <1>13. ASSUME CleanerEnds PROVE Names'
    <2>1. Held' /\ Reviewed'
      BY <1>13, <1>1, HeldIsGeneration DEF CleanerEnds, fileVars, engineVars, requestVars,
         Held, Reviewed, Inactive, FileShapes, EngineShapes, RequestShapes, Serving, Requested
    <2>2. Fresh' /\ Condemned'
      BY <1>13, <1>1 DEF CleanerEnds, fileVars, engineVars, requestVars, Fresh, Condemned,
         Inactive, FileShapes, EngineShapes, RequestShapes, Serving, Requested
    <2>3. Requested' /\ Refused' /\ ActiveIsWhole'
      BY <1>13 DEF CleanerEnds, fileVars, engineVars, requestVars, Requested, Refused,
         Inactive, ActiveIsWhole, Whole, FileShapes, EngineShapes, RequestShapes, Serving,
         Held, Reviewed, Fresh, Condemned
    <2> QED BY <2>1, <2>2, <2>3
  <1> QED
    BY <1>2, <1>3, <1>4, <1>5, <1>6, <1>7, <1>8, <1>9, <1>10, <1>11, <1>12, <1>13 DEF EngineNext

\* Nor do the windows' steps break a life: a name is drawn fresh, reviewed by one window,
\* requested once, and condemned only when it is not requested or was refused.
LEMMA WindowKeepsNames ==
    ASSUME WindowInv, NEW w \in Windows
    PROVE  /\ NativePrepare(w) \/ PrepareEnds(w) \/ NativeExport(w) \/ ExportEnds(w) => Names'
           /\ StageEnds(w) \/ PrepareFails(w) \/ Declines(w) \/ NativePublish(w) => Names'
           /\ (\E g \in Generations : StageBegins(w, g)) => Names'
           /\ Answered(w) \/ TimesOut(w) \/ ProgramDies(w) => Names'
  <1> USE NamesAssumption DEF WindowInv, Names, Shapes
  <1>1. ASSUME NativePrepare(w) PROVE Names'
    <2>1. Becomes(w, "inspected", None) /\ At(w) = "idle"
      BY <1>1 DEF NativePrepare, Free, WindowShapes, At, Name, Becomes
    <2>2. NamesStay
      BY <1>1, <2>1 DEF NativePrepare, nativeVars, fileVars, engineVars, requestVars, otherVars,
         Becomes, NamesStay, Held, Private
    <2> QED BY <2>2, StayKeepsNames
  <1>2. ASSUME NativeExport(w) PROVE Names'
    <2>1. Becomes(w, "exporting", Name(w)) /\ At(w) = "idle"
      BY <1>2, WorkGoes DEF NativeExport, Free, At
    <2>2. NamesStay
      BY <1>2, <2>1 DEF NativeExport, fileVars, engineVars, requestVars, otherVars, Becomes,
         NamesStay, Private
    <2> QED BY <2>2, StayKeepsNames
  <1>20. ASSUME ExportEnds(w) PROVE Names'
    <2>1. Becomes(w, "idle", None) /\ At(w) = "exporting"
      BY <1>20, WorkDone DEF ExportEnds, At
    <2>2. NamesStay
      BY <1>20, <2>1 DEF ExportEnds, fileVars, engineVars, requestVars, otherVars, Becomes,
         NamesStay, Held, Private
    <2> QED BY <2>2, StayKeepsNames
  <1>21. ASSUME PrepareEnds(w) PROVE Names'
    <2>1. Becomes(w, "review", Name(w)) /\ At(w) = "staged"
      BY <1>21, WorkGoes DEF PrepareEnds, At
    <2>2. NamesStay
      BY <1>21, <2>1 DEF PrepareEnds, fileVars, engineVars, requestVars, otherVars, Becomes,
         NamesStay, Private
    <2> QED BY <2>2, StayKeepsNames
  <1>3. ASSUME NEW g \in Generations, StageBegins(w, g) PROVE Names'
    <2>1. Becomes(w, "staging", g)
      BY <1>3 DEF StageBegins, WindowShapes, Works, At, Name, Becomes
    <2>2. /\ files[g] = "absent" /\ files' = [files EXCEPT ![g] = "partial"]
          /\ UNCHANGED <<sent, reply, condemned, cleaning, marker, disk, pc, serving>>
      BY <1>3 DEF StageBegins, engineVars, requestVars, otherVars
    <2>3. \A v \in Windows : Name(v) # g
      BY <2>2 DEF Held
    <2>4. Held'
      BY <2>1, <2>2, <2>3 DEF Becomes, Held, Private, FileShapes
    <2>5. Reviewed'
      BY <2>1, <2>2, <2>3 DEF Becomes, Held, Reviewed, Private, Fresh, Inactive
    <2>6. Condemned'
      BY <2>1, <2>2, <2>3 DEF Becomes, Condemned, Inactive, FileShapes, RequestShapes
    <2>7. Fresh' /\ Requested' /\ Refused' /\ ActiveIsWhole'
      BY <2>2 DEF Fresh, Requested, Refused, ActiveIsWhole, Whole, Inactive, FileShapes
    <2> QED BY <2>4, <2>5, <2>6, <2>7
  <1>4. ASSUME StageEnds(w) PROVE Names'
    <2>1. Becomes(w, "staged", Name(w))
      BY <1>4, WorkGoes DEF StageEnds
    <2>2. /\ Private(w) /\ files' = [files EXCEPT ![Name(w)] = "ready"]
          /\ UNCHANGED <<sent, reply, condemned, cleaning, marker, disk, pc, serving>>
      BY <1>4 DEF StageEnds, engineVars, requestVars, otherVars, Private, At, Name
    <2>4. Held'
      BY <2>1, <2>2 DEF Becomes, Held, Private, FileShapes
    <2>5. Reviewed'
      BY <2>1, <2>2 DEF Becomes, Held, Reviewed, Private, Inactive
    <2>6. Condemned'
      BY <2>1, <2>2 DEF Becomes, Condemned, Inactive, FileShapes, RequestShapes
    <2>7. Fresh' /\ Requested' /\ Refused' /\ ActiveIsWhole'
      BY <2>2 DEF Fresh, Requested, Refused, ActiveIsWhole, Whole, Inactive, FileShapes
    <2> QED BY <2>4, <2>5, <2>6, <2>7
  <1>5. ASSUME PrepareFails(w) PROVE Names'
    <2>1. Becomes(w, "idle", None)
      BY <1>5, WorkDone DEF PrepareFails
    <2>2. UNCHANGED <<files, sent, reply, condemned, cleaning, marker, disk, pc, serving>>
      BY <1>5 DEF PrepareFails, fileVars, engineVars, requestVars, otherVars
    <2>3. Held' /\ Reviewed'
      BY <2>1, <2>2 DEF Becomes, Held, Reviewed, Private, Inactive
    <2>6. Condemned'
      BY <2>1, <2>2 DEF Becomes, Condemned, Inactive, RequestShapes
    <2>7. Fresh' /\ Requested' /\ Refused' /\ ActiveIsWhole'
      BY <2>2 DEF Fresh, Requested, Refused, ActiveIsWhole, Whole, Inactive
    <2> QED BY <2>3, <2>6, <2>7
  <1>6. ASSUME Declines(w) PROVE Names'
    <2>1. Becomes(w, "idle", None)
      BY <1>6, WorkDone DEF Declines
    <2>2. /\ Private(w) /\ condemned' = condemned \cup {Name(w)}
          /\ UNCHANGED <<files, sent, reply, cleaning, marker, disk, pc, serving>>
      BY <1>6 DEF Declines, fileVars, engineVars, requestVars, Private, At, Name
    <2>3. Held' /\ Reviewed'
      BY <2>1, <2>2 DEF Becomes, Held, Reviewed, Private, Inactive
    <2>6. Condemned'
      BY <2>1, <2>2 DEF Becomes, Condemned, Inactive, RequestShapes, Held, Reviewed
    <2>7. Fresh' /\ Requested' /\ Refused' /\ ActiveIsWhole'
      BY <2>2 DEF Fresh, Requested, Refused, ActiveIsWhole, Whole, Inactive
    <2> QED BY <2>3, <2>6, <2>7
  <1>7. ASSUME NativePublish(w) PROVE Names'
    <2>1. Becomes(w, "waiting", Name(w))
      BY <1>7 DEF NativePublish, NoWork, WindowShapes, At, Name, Becomes
    <2>2. /\ Private(w)
          /\ UNCHANGED <<files, condemned, cleaning, marker, disk, pc, serving>>
      BY <1>7 DEF NativePublish, fileVars, engineVars, otherVars, Private, At, Name
    <2>g. Name(w) \in Generations
      BY <2>2 DEF Held, WindowShapes, Works, Name
    <2>3. /\ sent' = [sent EXCEPT ![Name(w)] = sent'[Name(w)]]
          /\ reply' = [reply EXCEPT ![Name(w)] = reply'[Name(w)]]
          /\ reply'[Name(w)] = None \/ (reply'[Name(w)] = "error" /\ sent'[Name(w)] = None)
      BY <1>7, <2>g, <2>2 DEF NativePublish, Answer, Name, Reviewed, RequestShapes
    <2>4. Held'
      BY <2>1, <2>2 DEF Becomes, Held, Private
    <2>5. Reviewed'
      <3>1. \A v \in Windows : Private(v)' => Private(v) /\ Name(v)' = Name(v) /\ Name(v) # Name(w)
        BY <2>1, <2>2 DEF Becomes, Held, Private
      <3> QED BY HeldIsGeneration, <3>1, <2>2, <2>3, <2>g DEF Reviewed, Inactive, RequestShapes
    <2>6. Condemned'
      BY <2>1, <2>2, <2>3, <2>g DEF Becomes, Condemned, Inactive, RequestShapes
    <2>7. Fresh'
      BY <2>2, <2>3, <2>g DEF Fresh, Inactive, RequestShapes, Held
    <2>8. Requested'
      BY <2>2, <2>3, <2>g DEF Requested, Reviewed, Inactive, RequestShapes, Held
    <2>9. Refused' /\ ActiveIsWhole'
      BY <2>2, <2>3, <2>g DEF Refused, Reviewed, Inactive, RequestShapes, ActiveIsWhole, Whole
    <2> QED BY <2>4, <2>5, <2>6, <2>7, <2>8, <2>9
  <1>8. ASSUME Answered(w) PROVE Names'
    <2>1. Becomes(w, "idle", None)
      BY <1>8, WorkDone DEF Answered
    <2>2. /\ At(w) = "waiting" /\ Name(w) # None
          /\ condemned' = IF reply[Name(w)] \in {"busy", "conflict"} THEN condemned \cup {Name(w)} ELSE condemned
          /\ reply' = [reply EXCEPT ![Name(w)] = None]
          /\ UNCHANGED <<files, sent, cleaning, marker, disk, pc, serving>>
      BY <1>8 DEF Answered, Discards, fileVars, engineVars, At, Name, Held
    <2>g. Name(w) \in Generations
      BY <2>2 DEF WindowShapes, Works, Name
    <2>3. Held' /\ Reviewed'
      BY <2>1, <2>2, <2>g DEF Becomes, Held, Reviewed, Private, Inactive, RequestShapes
    <2>6. Condemned'
      BY <2>1, <2>2, <2>g DEF Becomes, Condemned, Inactive, RequestShapes, Held, Refused
    <2>7. Fresh' /\ Requested' /\ Refused' /\ ActiveIsWhole'
      BY <2>2, <2>g DEF Fresh, Requested, Refused, ActiveIsWhole, Whole, Inactive, RequestShapes
    <2> QED BY <2>3, <2>6, <2>7
  <1>9. ASSUME TimesOut(w) PROVE Names'
    <2>1. Becomes(w, "idle", None)
      BY <1>9, WorkDone DEF TimesOut
    <2>2. /\ At(w) = "waiting" /\ Name(w) # None
          /\ reply' = [reply EXCEPT ![Name(w)] = "unheard"]
          /\ UNCHANGED <<files, sent, condemned, cleaning, marker, disk, pc, serving>>
      BY <1>9 DEF TimesOut, fileVars, engineVars, otherVars, At, Name, Held
    <2>g. Name(w) \in Generations
      BY <2>2 DEF WindowShapes, Works, Name
    <2>3. Held' /\ Reviewed'
      BY <2>1, <2>2, <2>g DEF Becomes, Held, Reviewed, Private, Inactive, RequestShapes
    <2>6. Condemned'
      BY <2>1, <2>2, <2>g DEF Becomes, Condemned, Inactive, RequestShapes
    <2>7. Fresh' /\ Requested' /\ Refused' /\ ActiveIsWhole'
      BY <2>2, <2>g
         DEF Fresh, Requested, Refused, ActiveIsWhole, Whole, Inactive, RequestShapes, Held
    <2> QED BY <2>3, <2>6, <2>7
  <1>10. ASSUME ProgramDies(w) PROVE Names'
    <2>1. Becomes(w, "idle", None)
      BY <1>10, WorkDone DEF ProgramDies
    <2>2. /\ \A g \in Generations :
                reply'[g] = IF g # Name(w) THEN reply[g] ELSE IF sent[g] # None THEN "unheard" ELSE None
          /\ UNCHANGED <<files, sent, condemned, cleaning, marker, disk, pc, serving>>
      BY <1>10 DEF ProgramDies, fileVars, engineVars, otherVars, Name
    <2>3. Held'
      BY <2>1, <2>2 DEF Becomes, Held, Private
    <2>4. Reviewed'
      <3>1. \A v \in Windows : Private(v)' => Private(v) /\ Name(v)' = Name(v) /\ Name(v) # Name(w)
        BY <2>1, <2>2 DEF Becomes, Held, Private
      <3> QED BY HeldIsGeneration, <3>1, <2>2 DEF Reviewed, Inactive
    <2>6. Condemned'
      BY <2>1, <2>2 DEF Becomes, Condemned, Inactive, RequestShapes
    <2>7. Fresh' /\ Requested' /\ Refused' /\ ActiveIsWhole'
      BY <2>2 DEF Fresh, Requested, Refused, ActiveIsWhole, Whole, Inactive, Held
    <2> QED BY <2>3, <2>4, <2>6, <2>7
  <1> QED
    BY <1>1, <1>2, <1>20, <1>21, <1>3, <1>4, <1>5, <1>6, <1>7, <1>8, <1>9, <1>10

\* The account's dictionary has no names at all.
LEMMA ListKeepsNames ==
    ASSUME WindowInv, ListNext \/ \E w \in Windows : CloseWindow(w) \/ OpenWindow(w)
    PROVE  Names'
  <1> DEFINE Nameless == {"idle", "edit", "list", "cloud review"}
             Moves(w, at) == Becomes(w, at, Name(w)) /\ At(w) \in Nameless /\ at \in Nameless
  <1> USE DEF WindowInv, Shapes, Names
  <1>1. \A w \in Windows : At(w) \in Nameless => Name(w) = None
    BY DEF Held, Private
  <1>2. ASSUME NEW w \in Windows, NEW at, Moves(w, at) PROVE Names'
    <2>1. \A v \in Windows : /\ Name(v)' = Name(v) /\ (Private(v)' <=> Private(v))
                             /\ At(v)' = "waiting" <=> At(v) = "waiting"
      <3> TAKE v \in Windows
      <3>1. CASE v = w
        <4>1. At(v) \in Nameless /\ At(v)' \in Nameless /\ Name(v)' = Name(v)
          BY <1>2, <3>1 DEF Becomes
        <4>2. ~Private(v) /\ ~Private(v)'
          BY <4>1 DEF Private
        <4> QED BY <4>1, <4>2
      <3>2. CASE v # w
        BY <1>2, <3>2 DEF Becomes, Private
      <3> QED BY <3>1, <3>2
    <2> QED BY <2>1, ListLeavesNative, StayKeepsNames
      DEF NamesStay, nativeVars, fileVars, engineVars, requestVars, otherVars
  <1>3. ASSUME UNCHANGED work PROVE Names'
    <2>1. NamesStay
      BY <1>3, ListLeavesNative
      DEF NamesStay, nativeVars, fileVars, engineVars, requestVars, otherVars, At, Name, Private
    <2> QED BY <2>1, StayKeepsNames
  <1>4. ASSUME NEW w \in Windows, At(w) \in Nameless, Done(w) PROVE Names'
    BY <1>1, <1>2, <1>4, WorkDone
  <1>5. ASSUME NEW w \in Windows, NEW at \in Nameless, At(w) \in Nameless, Goes(w, at) PROVE Names'
    BY <1>2, <1>5, WorkGoes
  <1>6. ASSUME NEW w \in Windows, NEW selected \in BOOLEAN, EditBegins(w, selected) PROVE Names'
    <2>1. Moves(w, "edit")
      BY <1>6 DEF EditBegins, Free, WindowShapes, Works, Becomes, At, Name
    <2> QED BY <2>1, <1>2
  <1>7. ASSUME NEW w \in Windows, SnapshotPrepare(w) PROVE Names'
    <2>1. Moves(w, "cloud review")
      BY <1>7 DEF SnapshotPrepare, Free, WindowShapes, Works, Becomes, At, Name
    <2> QED BY <2>1, <1>2
  <1>8. ASSUME NEW w \in Windows, ListBegins(w) PROVE Names'
    BY <1>8, <1>5 DEF ListBegins, Free, At
  <1>9. ASSUME NEW w \in Windows, NEW accepts \in BOOLEAN, SnapshotAnswered(w, accepts)
        PROVE Names'
    BY <1>9, <1>4, <1>5 DEF SnapshotAnswered, At
  <1>10. ASSUME NEW w \in Windows, NEW applies \in BOOLEAN, NEW heard \in BOOLEAN,
                Edited(w, applies, heard)
         PROVE Names'
    BY <1>10, <1>4, <1>5 DEF Edited, At
  <1>11. ASSUME NEW w \in Windows, Listed(w) \/ ListFails(w) PROVE Names'
    BY <1>11, <1>4 DEF Listed, ListFails, At
  <1>12. ASSUME OthersEdit \/ \E w \in Windows : CloseWindow(w) \/ OpenWindow(w) PROVE Names'
    BY <1>12, <1>3 DEF OthersEdit, CloseWindow, OpenWindow, windowVars
  <1> QED
    BY <1>6, <1>7, <1>8, <1>9, <1>10, <1>11, <1>12 DEF ListNext

\* After a power loss what is active is one of two dictionaries that were whole.
LEMMA PowerLossKeepsNames ==
    ASSUME WindowInv, PowerLoss
    PROVE  Names'
  <1> USE NamesAssumption DEF WindowInv, Shapes, Names
  <1>1. \A w \in Windows : At(w)' = "idle" /\ Name(w)' = None
    BY DEF PowerLoss, NoWork, At, Name
  <1>2. /\ \A g \in Generations : sent'[g] = None /\ reply'[g] = None
        /\ condemned' = {} /\ cleaning' = None /\ UNCHANGED files
        /\ marker' \in {marker, disk} /\ disk' = marker'
    BY DEF PowerLoss
  <1>3. Held' /\ Reviewed'
    BY <1>1 DEF Held, Reviewed, Private
  <1>4. Fresh' /\ Condemned' /\ Requested' /\ Refused'
    BY <1>2 DEF Fresh, Condemned, Requested, Refused, Inactive
  <1>5. ActiveIsWhole'
    BY <1>2 DEF ActiveIsWhole, Whole
  <1> QED BY <1>3, <1>4, <1>5

\* Every step keeps the names' lives.
LEMMA StepKeepsNames ==
    ASSUME WindowInv, Next
    PROVE  Names'
  BY EngineKeepsNames, WindowKeepsNames, PowerLossKeepsNames, ListKeepsNames DEF Next, LocalNext

-----------------------------------------------------------------------------
(* The invariant and what follows *)

\* Nothing is active but the dictionaries of the installation, nobody uses them.
LEMMA InitWindowInv == Init => WindowInv
  <1> SUFFICES ASSUME Init PROVE WindowInv
    OBVIOUS
  <1> USE NamesAssumption DEF Init, NativeInit
  <1>1. FileShapes
    BY DEF FileShapes, Dictionaries, Programs, Lease!Init
  <1>2. EngineShapes /\ RequestShapes
    BY DEF EngineShapes, RequestShapes, NoController
  <1>3. WindowShapes
    BY NoWorkIsWork DEF WindowShapes
  <1>4. Sole
    BY DEF Sole, Programs, Lease!Init
  <1>5. Serving
    BY DEF Serving, NoController
  <1>6. \A w \in Windows : At(w) = "idle" /\ Name(w) = None
    BY DEF At, Name, NoWork
  <1>7. Held /\ Reviewed
    BY <1>6 DEF Held, Reviewed, Private
  <1>8. Fresh /\ Condemned /\ Requested /\ Refused /\ ActiveIsWhole
    BY DEF Fresh, Condemned, Requested, Refused, ActiveIsWhole, Whole, Inactive
  <1>9. Lists
    BY DEF Lists
  <1> QED
    BY <1>1, <1>2, <1>3, <1>4, <1>5, <1>7, <1>8, <1>9 DEF WindowInv, Shapes, Names

\* The parts together are inductive.
LEMMA StepKeepsWindowInv ==
    ASSUME WindowInv, [Next]_vars
    PROVE  WindowInv'
  <1>1. CASE Next
    BY <1>1, FilesKeepShape, EngineKeepsShape, RequestsKeepShape, WindowsKeepShape,
       StepKeepsSole, StepKeepsServing, StepKeepsNames, StepKeepsLists DEF WindowInv, Shapes
  <1>2. CASE UNCHANGED vars
    <2>1. /\ UNCHANGED <<files, marker, disk, learned, use, alive, epoch, pc, serving, outcome>>
          /\ UNCHANGED <<runtime, controller, composing, sent, reply, condemned, cleaning>>
          /\ UNCHANGED <<replaying, work, closed, cloud, loaded, page, own>>
      BY <1>2 DEF vars, nativeVars, fileVars, engineVars, requestVars, otherVars, windowVars,
         cloudVars
    <2>2. Shapes'
      BY <2>1 DEF WindowInv, Shapes, FileShapes, EngineShapes, RequestShapes, WindowShapes
    <2>3. Sole' /\ Serving'
      BY <2>1 DEF WindowInv, Sole, Serving
    <2>4. NamesStay
      BY <2>1 DEF NamesStay, At, Name, Private
    <2>5. Lists'
      BY <2>1 DEF WindowInv, Lists, At
    <2> QED BY <2>2, <2>3, <2>4, <2>5, StayKeepsNames DEF WindowInv
  <1> QED BY <1>1, <1>2

\* The invariant holds in every state, whoever dies, times out or answers late.
THEOREM WindowInvariant == Spec => []WindowInv
  BY InitWindowInv, StepKeepsWindowInv, PTL DEF Spec

\* Whenever the engine's main loop takes events, every context has a controller on the
\* dictionary the marker names, for any contexts and generations
\* (publish_native_dictionary, install, recover).
THEOREM EngineServesActive == Spec => []ServedIsActive
  <1>1. WindowInv => ServedIsActive
    BY DEF WindowInv, Serving, ServedIsActive, Serves
  <1> QED BY <1>1, WindowInvariant, PTL

\* The dictionary found active, now or after a power loss, is complete, however late a
\* discard runs or an answer comes (NativeInstallation::publish, discard_worker).
THEOREM ActiveStaysWhole == Spec => []ActiveIsWhole
  <1>1. WindowInv => ActiveIsWhole
    BY DEF WindowInv, Names
  <1> QED BY <1>1, WindowInvariant, PTL

\* Entries on screen are never older than the window's own last change, for any number of
\* windows and changes (finished, clicked).
THEOREM ListIsRenewed == Spec => []ListShowsOwnChanges
  <1>1. WindowInv => ListShowsOwnChanges
    BY DEF WindowInv, Lists, ListShowsOwnChanges, Free, At
  <1> QED BY <1>1, WindowInvariant, PTL

\* Only the rename of a publication and a power loss change what is active.
LEMMA OnlyRenameChanges ==
    ASSUME WindowInv, Next, marker' # marker
    PROVE  PublishRenames \/ PowerLoss
  <1>1. ~(ListNext \/ \E w \in Windows : CloseWindow(w) \/ OpenWindow(w))
    BY ListLeavesNative DEF nativeVars, fileVars
  <1>2. EngineNext => PublishRenames
    BY DEF EngineNext, Start, EngineDies, CreateContext, DestroyContext, Type, Commit,
       PublishBegins, PublishLocks, PublishIsRefused, PublishBuilds, PublishConflicts,
       PublishThrows, PublishAdopts, PublishQuits, Recover, RecoverFails, CleanerBegins,
       CleanerIsRefused, CleanerRemoves, CleanerEnds, ReplayBegins, ReplayApplies, ReplayEnds,
       Ends, GiveUp, fileVars
  <1>3. ASSUME NEW w \in Windows
        PROVE  /\ ~NativePrepare(w) /\ ~StageEnds(w) /\ ~PrepareEnds(w) /\ ~PrepareFails(w)
               /\ \A g \in Generations : ~StageBegins(w, g)
               /\ ~Declines(w) /\ ~NativePublish(w) /\ ~Answered(w) /\ ~TimesOut(w)
               /\ ~NativeExport(w) /\ ~ExportEnds(w) /\ ~ProgramDies(w)
    BY DEF NativePrepare, StageBegins, StageEnds, PrepareEnds, PrepareFails, Declines,
       NativePublish, Answered, TimesOut, NativeExport, ExportEnds, ProgramDies, nativeVars,
       fileVars
  <1> QED BY <1>1, <1>2, <1>3 DEF Next, LocalNext

\* A publication replaces exactly the dictionary its review saw, with nothing learned since:
\* between comparison and rename the lease keeps every teacher away
\* (publish_native_dictionary, NativeInstallation::publish).
THEOREM PublicationReplacesReviewed == Spec => OnlyReviewedIsReplaced
  <1> DEFINE Replaces == \A g \in Generations :
                             marker' = g /\ marker # g /\ ~(alive /\ ~alive')
                                 => sent[g] = [token |-> marker, revision |-> learned[marker]]
  <1>1. ASSUME WindowInv, [Next]_vars PROVE [Replaces]_vars
    <2>1. CASE marker' = marker
      BY <2>1
    <2>2. CASE marker' # marker /\ PublishRenames
      BY <1>1, <2>2 DEF PublishRenames, WindowInv, Serving
    <2>3. CASE marker' # marker /\ PowerLoss
      BY <2>3 DEF PowerLoss
    <2>4. CASE UNCHANGED vars
      BY <2>4
    <2> QED BY <1>1, <2>1, <2>2, <2>3, <2>4, OnlyRenameChanges
  <1>2. [][Replaces]_vars <=> OnlyReviewedIsReplaced
    BY DEF OnlyReviewedIsReplaced
  <1> QED BY <1>1, <1>2, WindowInvariant, PTL DEF Spec
=============================================================================
