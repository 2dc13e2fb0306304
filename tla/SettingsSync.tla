----------------------------- MODULE SettingsSync -----------------------------
(***************************************************************************)
(* config.ini between the engines of the IBus process and the programs     *)
(* that write it: the settings window (SettingsUi.cpp), the clipboard tool *)
(* (ClipboardHistory.cpp) and the cloud download (AccountPanel.cpp).       *)
(*                                                                         *)
(* Every engine object (IBusEngine.cpp) keeps a copy of the file, saves it *)
(* half a second after a toggle, and watches the file to adopt what others *)
(* wrote, telling the echo of its own save by a digest.  A digest stands   *)
(* for the content it is computed from.  The engines share one main loop;  *)
(* the other programs run at any moment in between.                        *)
(***************************************************************************)
EXTENDS Naturals

CONSTANTS
    Engines,     \* engine objects of the IBus process, one per input context
    Writers,     \* the other programs
    Own,         \* values of what an engine may change: mode, scheme, widths ...
    Other,       \* values of what only the other programs change
    Nobody       \* no program, and no content in an object that does not exist

ASSUME NobodyAssumption == Nobody \notin Engines \cup Writers
ASSUME DisjointAssumption == Engines \cap Writers = {}
ASSUME ValuesAssumption == Own # {} /\ Other # {}

VARIABLES
    config,      \* the content of config.ini
    author,      \* who wrote it
    lock,        \* the save that holds config.ini.lock: its program, content and kind
    turn,        \* the engine whose handler occupies the main loop
    phase,       \* each engine's life and where its handler is
    settings,    \* each engine's retained copy
    digest,      \* the content each engine last wrote or adopted
    event,       \* a change event of each engine's monitor is queued
    timer,       \* settings_save_source is set
    failed,      \* the engine's last save failed
    raced,       \* another program wrote the file while the engine started
    version      \* the content each other program previewed

fileVars == <<config, author, lock>>
engineVars == <<turn, phase, settings, digest, event, timer, failed, raced>>
vars == <<config, author, lock, turn, phase, settings, digest, event, timer,
          failed, raced, version>>

Content == [own : Own, other : Other]
ASSUME ContentAssumption == Nobody \notin Content
Save == [by : Writers, content : Content, conditional : BOOLEAN]
Phases == {"none", "loaded", "remembered", "watching", "reloading"}

Init ==
    /\ config \in Content
    /\ author = Nobody
    /\ lock = Nobody
    /\ turn = Nobody
    /\ phase = [e \in Engines |-> "none"]
    /\ settings = [e \in Engines |-> Nobody]
    /\ digest = [e \in Engines |-> Nobody]
    /\ event = [e \in Engines |-> FALSE]
    /\ timer = [e \in Engines |-> FALSE]
    /\ failed = [e \in Engines |-> FALSE]
    /\ raced = [e \in Engines |-> FALSE]
    /\ version = [w \in Writers |-> config]

-----------------------------------------------------------------------------
\* A program replaces the file: every monitor queues an event, and an engine
\* that is starting has none yet.
Noticed == [e \in Engines |-> event[e] \/ phase[e] \in {"watching", "reloading"}]
Missed == [e \in Engines |-> raced[e] \/ phase[e] \in {"loaded", "remembered"}]

Replace(content, by) ==
    /\ config' = content
    /\ author' = by
    /\ event' = Noticed
    /\ raced' = Missed

\* The main loop is free for a handler of engine e.
Turn(e) == turn = Nobody /\ phase[e] = "watching"

-----------------------------------------------------------------------------
(* metasequoia_engine_init *)

\* load() of the settings; the credential lookup that may follow takes long.
StartLoad(e) ==
    /\ turn = Nobody
    /\ phase[e] = "none"
    /\ turn' = e
    /\ phase' = [phase EXCEPT ![e] = "loaded"]
    /\ settings' = [settings EXCEPT ![e] = config]
    /\ UNCHANGED <<fileVars, digest, event, timer, failed, raced, version>>

\* remember_settings_file.
StartRemember(e) ==
    /\ phase[e] = "loaded"
    /\ phase' = [phase EXCEPT ![e] = "remembered"]
    /\ digest' = [digest EXCEPT ![e] = config]
    /\ UNCHANGED <<fileVars, turn, settings, event, timer, failed, raced, version>>

\* g_file_monitor_file: only from here on are writes noticed.
StartWatch(e) ==
    /\ phase[e] = "remembered"
    /\ phase' = [phase EXCEPT ![e] = "watching"]
    /\ turn' = Nobody
    /\ UNCHANGED <<fileVars, settings, digest, event, timer, failed, raced, version>>

-----------------------------------------------------------------------------
(* Toggles and saves *)

\* save_settings: the controller's values enter the copy and the save is
\* scheduled unless one already is.
Toggle(e, value) ==
    /\ Turn(e)
    /\ settings' = [settings EXCEPT ![e].own = value]
    /\ timer' = [timer EXCEPT ![e] = TRUE]
    /\ UNCHANGED <<fileVars, turn, phase, digest, event, failed, raced, version>>

\* Mutant: the engine forgets what it wrote.
WriteWithoutDigest(e) ==
    /\ lock = Nobody
    /\ Replace(settings[e], e)
    /\ failed' = [failed EXCEPT ![e] = FALSE]
    /\ UNCHANGED digest

\* write_settings under the config lock: the bytes reach the file.
WriteDone(e) ==
    /\ lock = Nobody
    /\ Replace(settings[e], e)
    /\ digest' = [digest EXCEPT ![e] = settings[e]]
    /\ failed' = [failed EXCEPT ![e] = FALSE]

\* write_settings when the save fails after the bytes existed (their digest is
\* kept) or before (whatever is on disk is remembered).
WriteFailed(e) ==
    /\ \/ digest' = [digest EXCEPT ![e] = settings[e]]
       \/ digest' = [digest EXCEPT ![e] = config]
    /\ failed' = [failed EXCEPT ![e] = TRUE]
    /\ UNCHANGED <<config, author, event, raced>>

\* flush_settings when the timer fires, flush_pending_settings on focus-out and on
\* disable.
Flush(e) ==
    /\ Turn(e)
    /\ timer[e]
    /\ WriteDone(e) \/ WriteFailed(e)
    /\ timer' = [timer EXCEPT ![e] = FALSE]
    /\ UNCHANGED <<lock, turn, phase, settings, version>>

\* Mutant: the copy is deleted and the monitor stays.
FinalizeKeepingMonitor(e) ==
    /\ Turn(e)
    /\ ~timer[e]
    /\ settings' = [settings EXCEPT ![e] = Nobody]
    /\ UNCHANGED <<fileVars, turn, phase, digest, event, timer, failed, raced, version>>

\* finalize: the monitor is cancelled, a save that is due is written -- or fails --
\* and the copy is deleted.
Finalize(e) ==
    /\ Turn(e)
    /\ \/ /\ timer[e] /\ lock = Nobody
          /\ config' = settings[e]
          /\ author' = e
          /\ event' = [Noticed EXCEPT ![e] = FALSE]
          /\ raced' = [Missed EXCEPT ![e] = FALSE]
       \/ /\ event' = [event EXCEPT ![e] = FALSE]
          /\ raced' = [raced EXCEPT ![e] = FALSE]
          /\ UNCHANGED <<config, author>>
    /\ phase' = [phase EXCEPT ![e] = "none"]
    /\ settings' = [settings EXCEPT ![e] = Nobody]
    /\ digest' = [digest EXCEPT ![e] = Nobody]
    /\ timer' = [timer EXCEPT ![e] = FALSE]
    /\ failed' = [failed EXCEPT ![e] = FALSE]
    /\ UNCHANGED <<lock, turn, version>>

-----------------------------------------------------------------------------
(* settings_file_changed *)

\* Mutant: two contents count as the same when a part of them agrees.
FileChangedBySize(e) ==
    /\ Turn(e)
    /\ event[e]
    /\ event' = [event EXCEPT ![e] = FALSE]
    /\ IF config.own = digest[e].own
       THEN UNCHANGED <<turn, phase, digest>>
       ELSE /\ digest' = [digest EXCEPT ![e] = config]
            /\ phase' = [phase EXCEPT ![e] = "reloading"]
            /\ turn' = e
    /\ UNCHANGED <<fileVars, settings, timer, failed, raced, version>>

\* The file's digest is compared with the remembered one, which it replaces.
FileChanged(e) ==
    /\ Turn(e)
    /\ event[e]
    /\ event' = [event EXCEPT ![e] = FALSE]
    /\ IF config = digest[e]
       THEN UNCHANGED <<turn, phase, digest>>
       ELSE /\ digest' = [digest EXCEPT ![e] = config]
            /\ phase' = [phase EXCEPT ![e] = "reloading"]
            /\ turn' = e
    /\ UNCHANGED <<fileVars, settings, timer, failed, raced, version>>

\* reload_settings reads the file again, after whatever happened to it meanwhile.
\* A save that is already scheduled stays scheduled.
Reload(e) ==
    /\ phase[e] = "reloading"
    /\ settings' = [settings EXCEPT ![e] = config]
    /\ phase' = [phase EXCEPT ![e] = "watching"]
    /\ turn' = Nobody
    /\ failed' = [failed EXCEPT ![e] = FALSE]
    /\ raced' = [raced EXCEPT ![e] = FALSE]
    /\ UNCHANGED <<fileVars, digest, event, timer, version>>

-----------------------------------------------------------------------------
(* The other programs *)

\* The panel takes the version it previews.
Preview(w) ==
    /\ lock = Nobody
    /\ version' = [version EXCEPT ![w] = config]
    /\ UNCHANGED <<fileVars, engineVars>>

\* save(): the config lock is taken, and held across the credential transaction.
\* The content is what the program has in memory, however long ago it was read.
SaveLock(w, content) ==
    /\ lock = Nobody
    /\ lock' = [by |-> w, content |-> content, conditional |-> FALSE]
    /\ UNCHANGED <<config, author, engineVars, version>>

\* Mutant: the version is not compared again under the lock.
SaveUnlessChanged(w, content) ==
    /\ lock = Nobody
    /\ lock' = [by |-> w, content |-> content, conditional |-> TRUE]
    /\ UNCHANGED <<config, author, engineVars, version>>

\* save_if_unchanged(): the lock is taken and the file is the version that was
\* previewed; otherwise nothing happens.
SaveIfUnchanged(w, content) ==
    /\ lock = Nobody
    /\ config = version[w]
    /\ lock' = [by |-> w, content |-> content, conditional |-> TRUE]
    /\ UNCHANGED <<config, author, engineVars, version>>

\* The file is replaced and the lock closed; or the save fails and only closes it.
SaveEnd ==
    /\ lock # Nobody
    /\ lock' = Nobody
    /\ \/ Replace(lock.content, lock.by)
       \/ UNCHANGED <<config, author, event, raced>>
    /\ UNCHANGED <<turn, phase, settings, digest, timer, failed, version>>

-----------------------------------------------------------------------------
MainLoop(e) ==
    StartRemember(e) \/ StartWatch(e) \/ Flush(e) \/ FileChanged(e) \/ Reload(e)

Next ==
    \/ \E e \in Engines :
        \/ StartLoad(e) \/ MainLoop(e) \/ Finalize(e)
        \/ \E value \in Own : Toggle(e, value)
    \/ \E w \in Writers :
        \/ Preview(w)
        \/ \E content \in Content : SaveLock(w, content) \/ SaveIfUnchanged(w, content)
    \/ SaveEnd

\* The main loop runs and a program that holds the config lock goes on.
Fairness ==
    /\ \A e \in Engines : WF_vars(MainLoop(e))
    /\ WF_vars(SaveEnd)

Spec == Init /\ [][Next]_vars /\ Fairness

-----------------------------------------------------------------------------
(* Properties *)

\* The values every variable keeps.
TypeOK ==
    /\ config \in Content
    /\ author \in Engines \cup Writers \cup {Nobody}
    /\ lock \in Save \cup {Nobody}
    /\ turn \in Engines \cup {Nobody}
    /\ phase \in [Engines -> Phases]
    /\ settings \in [Engines -> Content \cup {Nobody}]
    /\ digest \in [Engines -> Content \cup {Nobody}]
    /\ \A e \in Engines : phase[e] # "none" => settings[e] # Nobody
    /\ event \in [Engines -> BOOLEAN]
    /\ timer \in [Engines -> BOOLEAN]
    /\ failed \in [Engines -> BOOLEAN]
    /\ raced \in [Engines -> BOOLEAN]
    /\ version \in [Writers -> Content]

\* No foreign content goes unnoticed: while a monitor has no event queued, the
\* file is the one the engine last wrote or remembered, however writes, events,
\* reloads and saves interleave -- unless the file was written while the engine
\* was starting, or its last save failed.
ChangeIsNoticed ==
    \A e \in Engines :
        phase[e] \in {"watching", "reloading"} /\ ~event[e] /\ ~raced[e] /\ ~failed[e]
            => digest[e] = config

\* The echo of an engine's own save never rebuilds its controller, which would
\* commit what the user is typing.
EchoIsIgnored ==
    [][\A e \in Engines : phase[e] # "reloading" /\ phase'[e] = "reloading"
            => author # e \/ failed[e]]_vars

\* save_if_unchanged replaces exactly the version that was previewed: no other
\* save can come between its comparison and its rename.
SaveReplacesReviewed ==
    [][lock # Nobody /\ config' # config => ~lock.conditional \/ config = version[lock.by]]_vars

\* What the comments of IBusEngine.cpp promise: a save made by an engine does not
\* revert what another program stored in the fields the engine does not own.
EngineKeepsForeignEdits ==
    [][author' \in Engines /\ config' # config => config'.other = config.other]_vars

=============================================================================
