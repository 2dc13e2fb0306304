-------------------------- MODULE SettingsSyncProofs --------------------------
(***************************************************************************)
(* The settings file between any number of engines and other programs.     *)
(*                                                                         *)
(* The digest is what tells an engine's own save from a foreign one, so    *)
(* the invariant says when it is the file's: after a start that nobody     *)
(* raced, and from the comparison of an event until the next write         *)
(* (Noticing); and for as long as the engine itself was the last to write  *)
(* (Echo).  A conditional save keeps what it compared under the lock,      *)
(* which every writer of the file takes (Reviewed).                        *)
(***************************************************************************)
EXTENDS SettingsSync, TLAPS

Running == {"remembered", "watching", "reloading"}

\* Whenever the digest must be the file's: nothing queued, raced or failed.
Noticing ==
    \A e \in Engines :
        /\ phase[e] = "remembered" /\ ~raced[e] => digest[e] = config
        /\ phase[e] = "watching" /\ ~event[e] /\ ~raced[e] /\ ~failed[e] => digest[e] = config
        /\ phase[e] = "reloading" /\ ~event[e] => digest[e] = config

\* What an engine wrote last it recognises, unless that save failed.
Echo ==
    \A e \in Engines :
        author = e /\ phase[e] \in Running /\ (failed[e] => phase[e] = "reloading")
            => digest[e] = config

\* A conditional save that holds the lock is about the file as it is.
Reviewed == lock # Nobody /\ lock.conditional => config = version[lock.by]

SyncInv == TypeOK /\ Noticing /\ Echo /\ Reviewed

-----------------------------------------------------------------------------
\* The monitors' events and the engines that miss one are flags.
LEMMA NoticedAreFlags ==
    ASSUME TypeOK
    PROVE  Noticed \in [Engines -> BOOLEAN] /\ Missed \in [Engines -> BOOLEAN]
  BY DEF TypeOK, Noticed, Missed

\* No engine exists yet.
LEMMA InitSyncInv == Init => SyncInv
  <1> SUFFICES ASSUME Init PROVE SyncInv
    OBVIOUS
  <1>1. TypeOK
    BY DEF Init, TypeOK, Phases
  <1>2. Noticing /\ Echo /\ Reviewed
    BY DEF Init, Noticing, Echo, Reviewed, Running
  <1> QED BY <1>1, <1>2 DEF SyncInv

\* Every handler of the main loop and every other program keeps the invariant.
LEMMA StepKeepsSyncInv ==
    ASSUME SyncInv, Next
    PROVE  SyncInv'
  <1> USE NobodyAssumption, ContentAssumption, DisjointAssumption DEF SyncInv
  <1>1. ASSUME NEW e \in Engines, StartLoad(e) PROVE SyncInv'
    <2>1. TypeOK'
      BY <1>1 DEF StartLoad, fileVars, TypeOK, Phases, Save, Content
    <2>2. Noticing'
      BY <1>1 DEF StartLoad, fileVars, TypeOK, Phases, Noticing
    <2>3. Echo'
      BY <1>1 DEF StartLoad, fileVars, TypeOK, Phases, Noticing, Echo, Running
    <2>4. Reviewed'
      BY <1>1 DEF StartLoad, fileVars, TypeOK, Reviewed
    <2> QED BY <2>1, <2>2, <2>3, <2>4
  <1>2. ASSUME NEW e \in Engines, StartRemember(e) PROVE SyncInv'
    <2>1. TypeOK'
      BY <1>2 DEF StartRemember, fileVars, TypeOK, Phases, Save, Content
    <2>2. Noticing'
      BY <1>2 DEF StartRemember, fileVars, TypeOK, Phases, Noticing
    <2>3. Echo'
      BY <1>2 DEF StartRemember, fileVars, TypeOK, Phases, Noticing, Echo, Running
    <2>4. Reviewed'
      BY <1>2 DEF StartRemember, fileVars, TypeOK, Reviewed
    <2> QED BY <2>1, <2>2, <2>3, <2>4
  <1>3. ASSUME NEW e \in Engines, StartWatch(e) PROVE SyncInv'
    <2>1. TypeOK'
      BY <1>3 DEF StartWatch, fileVars, TypeOK, Phases, Save, Content
    <2>2. Noticing'
      BY <1>3 DEF StartWatch, fileVars, TypeOK, Phases, Noticing
    <2>3. Echo'
      BY <1>3 DEF StartWatch, fileVars, TypeOK, Phases, Noticing, Echo, Running
    <2>4. Reviewed'
      BY <1>3 DEF StartWatch, fileVars, TypeOK, Reviewed
    <2> QED BY <2>1, <2>2, <2>3, <2>4
  <1>4. ASSUME NEW e \in Engines, NEW value \in Own, Toggle(e, value) PROVE SyncInv'
    <2>1. TypeOK'
      BY <1>4 DEF Toggle, Turn, fileVars, TypeOK, Phases, Save, Content
    <2>2. Noticing'
      BY <1>4 DEF Toggle, Turn, fileVars, TypeOK, Phases, Noticing
    <2>3. Echo'
      BY <1>4 DEF Toggle, Turn, fileVars, TypeOK, Phases, Noticing, Echo, Running
    <2>4. Reviewed'
      BY <1>4 DEF Toggle, fileVars, TypeOK, Reviewed
    <2> QED BY <2>1, <2>2, <2>3, <2>4
  <1>5. ASSUME NEW e \in Engines, Flush(e) PROVE SyncInv'
    <2>1. TypeOK'
      <3>1. settings[e] \in Content
        BY <1>5 DEF Flush, Turn, TypeOK
      <3>2. digest' \in [Engines -> Content \cup {Nobody}]
        BY <1>5, <3>1 DEF Flush, WriteDone, WriteFailed, TypeOK
      <3>3. failed' \in [Engines -> BOOLEAN]
        BY <1>5 DEF Flush, WriteDone, WriteFailed, TypeOK
      <3>4. event' \in [Engines -> BOOLEAN] /\ raced' \in [Engines -> BOOLEAN]
        BY <1>5, NoticedAreFlags DEF Flush, WriteDone, WriteFailed, Replace, TypeOK
      <3>5. config' \in Content /\ author' \in Engines \cup Writers \cup {Nobody}
        BY <1>5, <3>1 DEF Flush, WriteDone, WriteFailed, Replace, TypeOK
      <3>6. timer' \in [Engines -> BOOLEAN]
        BY <1>5 DEF Flush, TypeOK
      <3> QED BY <1>5, <3>2, <3>3, <3>4, <3>5, <3>6 DEF Flush, TypeOK
    <2>2. Noticing'
      BY <1>5 DEF Flush, Turn, WriteDone, WriteFailed, Replace, Noticed, Missed, TypeOK, Phases, Noticing
    <2>3. Echo'
      BY <1>5 DEF Flush, Turn, WriteDone, WriteFailed, Replace, TypeOK, Phases, Noticing, Echo, Running
    <2>4. Reviewed'
      BY <1>5 DEF Flush, WriteDone, WriteFailed, Replace, TypeOK, Reviewed
    <2> QED BY <2>1, <2>2, <2>3, <2>4
  <1>6. ASSUME NEW e \in Engines, Finalize(e) PROVE SyncInv'
    <2>1. TypeOK'
      <3>1. settings[e] \in Content
        BY <1>6 DEF Finalize, Turn, TypeOK
      <3> QED BY <1>6, <3>1, NoticedAreFlags DEF Finalize, TypeOK, Phases
    <2>2. Noticing'
      BY <1>6 DEF Finalize, Turn, Noticed, Missed, TypeOK, Phases, Noticing
    <2>3. Echo'
      BY <1>6 DEF Finalize, Turn, TypeOK, Phases, Noticing, Echo, Running
    <2>4. Reviewed'
      BY <1>6 DEF Finalize, TypeOK, Reviewed
    <2> QED BY <2>1, <2>2, <2>3, <2>4
  <1>7. ASSUME NEW e \in Engines, FileChanged(e) PROVE SyncInv'
    <2>1. TypeOK'
      BY <1>7 DEF FileChanged, Turn, fileVars, TypeOK, Phases, Save, Content
    <2>2. Noticing'
      BY <1>7 DEF FileChanged, Turn, fileVars, TypeOK, Phases, Noticing
    <2>3. Echo'
      BY <1>7 DEF FileChanged, Turn, fileVars, TypeOK, Phases, Noticing, Echo, Running
    <2>4. Reviewed'
      BY <1>7 DEF FileChanged, fileVars, TypeOK, Reviewed
    <2> QED BY <2>1, <2>2, <2>3, <2>4
  <1>8. ASSUME NEW e \in Engines, Reload(e) PROVE SyncInv'
    <2>1. TypeOK'
      BY <1>8 DEF Reload, fileVars, TypeOK, Phases, Save, Content
    <2>2. Noticing'
      BY <1>8 DEF Reload, fileVars, TypeOK, Phases, Noticing
    <2>3. Echo'
      BY <1>8 DEF Reload, fileVars, TypeOK, Phases, Noticing, Echo, Running
    <2>4. Reviewed'
      BY <1>8 DEF Reload, fileVars, TypeOK, Reviewed
    <2> QED BY <2>1, <2>2, <2>3, <2>4
  <1>9. ASSUME NEW w \in Writers, Preview(w) PROVE SyncInv'
    <2>1. TypeOK'
      BY <1>9 DEF Preview, engineVars, fileVars, TypeOK, Phases, Save, Content
    <2>2. Noticing'
      BY <1>9 DEF Preview, engineVars, fileVars, TypeOK, Phases, Noticing
    <2>3. Echo'
      BY <1>9 DEF Preview, engineVars, fileVars, TypeOK, Phases, Noticing, Echo, Running
    <2>4. Reviewed'
      BY <1>9 DEF Preview, engineVars, fileVars, TypeOK, Reviewed
    <2> QED BY <2>1, <2>2, <2>3, <2>4
  <1>10. ASSUME NEW w \in Writers, NEW content \in Content, SaveLock(w, content) PROVE SyncInv'
    <2>1. TypeOK'
      BY <1>10 DEF SaveLock, engineVars, TypeOK, Phases, Save, Content
    <2>2. Noticing'
      BY <1>10 DEF SaveLock, engineVars, TypeOK, Phases, Noticing
    <2>3. Echo'
      BY <1>10 DEF SaveLock, engineVars, TypeOK, Phases, Noticing, Echo, Running
    <2>4. Reviewed'
      BY <1>10 DEF SaveLock, engineVars, TypeOK, Reviewed
    <2> QED BY <2>1, <2>2, <2>3, <2>4
  <1>11. ASSUME NEW w \in Writers, NEW content \in Content, SaveIfUnchanged(w, content) PROVE SyncInv'
    <2>1. TypeOK'
      BY <1>11 DEF SaveIfUnchanged, engineVars, TypeOK, Phases, Save, Content
    <2>2. Noticing'
      BY <1>11 DEF SaveIfUnchanged, engineVars, TypeOK, Phases, Noticing
    <2>3. Echo'
      BY <1>11 DEF SaveIfUnchanged, engineVars, TypeOK, Phases, Noticing, Echo, Running
    <2>4. Reviewed'
      BY <1>11 DEF SaveIfUnchanged, engineVars, TypeOK, Reviewed
    <2> QED BY <2>1, <2>2, <2>3, <2>4
  <1>12. ASSUME SaveEnd PROVE SyncInv'
    <2>1. TypeOK'
      <3>1. lock.content \in Content /\ lock.by \in Writers
        BY <1>12 DEF SaveEnd, TypeOK, Save
      <3> QED BY <1>12, <3>1, NoticedAreFlags DEF SaveEnd, Replace, TypeOK
    <2>2. Noticing'
      BY <1>12 DEF SaveEnd, Replace, Noticed, Missed, TypeOK, Phases, Noticing
    <2>3. Echo'
      <3>1. CASE author' = lock.by
        BY <1>12, <3>1 DEF SaveEnd, Echo, TypeOK, Save
      <3>2. CASE UNCHANGED <<config, author>>
        BY <1>12, <3>2 DEF SaveEnd, Echo
      <3> QED BY <1>12, <3>1, <3>2 DEF SaveEnd, Replace
    <2>4. Reviewed'
      BY <1>12 DEF SaveEnd, Replace, TypeOK, Reviewed
    <2> QED BY <2>1, <2>2, <2>3, <2>4
  <1> QED
    BY <1>1, <1>2, <1>3, <1>4, <1>5, <1>6, <1>7, <1>8, <1>9, <1>10, <1>11, <1>12
       DEF Next, MainLoop

\* The invariant holds however writes, events, reloads and saves interleave.
THEOREM SyncInvariant == Spec => []SyncInv
  <1>1. ASSUME SyncInv, UNCHANGED vars PROVE SyncInv'
    BY <1>1 DEF vars, SyncInv, TypeOK, Noticing, Echo, Reviewed
  <1> QED BY <1>1, InitSyncInv, StepKeepsSyncInv, PTL DEF Spec

\* The variables keep their values, and every engine that exists has a copy.
THEOREM SyncTypes == Spec => []TypeOK
  <1>1. SyncInv => TypeOK
    BY DEF SyncInv
  <1> QED BY <1>1, SyncInvariant, PTL

\* While a monitor has no event queued the file is the one the engine wrote or remembered,
\* for any engines, programs and contents (settings_file_changed, write_settings).
THEOREM ForeignChangeIsNoticed == Spec => []ChangeIsNoticed
  <1>1. SyncInv => ChangeIsNoticed
    BY DEF SyncInv, Noticing, ChangeIsNoticed
  <1> QED BY <1>1, SyncInvariant, PTL

\* An engine starts to reload only when it handles an event of content it does not know.
LEMMA OnlyFileChangedReloads ==
    ASSUME SyncInv, Next, NEW e \in Engines, phase[e] # "reloading", phase'[e] = "reloading"
    PROVE  phase[e] = "watching" /\ config # digest[e]
  <1> USE DEF SyncInv, TypeOK
  <1>1. ASSUME NEW g \in Engines, FileChanged(g) PROVE phase[e] = "watching" /\ config # digest[e]
    BY <1>1 DEF FileChanged, Turn
  <1>2. ASSUME NEW g \in Engines, Flush(g) \/ Finalize(g) \/ \E value \in Own : Toggle(g, value)
        PROVE  FALSE
    BY <1>2 DEF Flush, Finalize, Toggle
  <1>3. ASSUME NEW g \in Engines, StartLoad(g) \/ StartRemember(g) \/ StartWatch(g) \/ Reload(g)
        PROVE  FALSE
    BY <1>3 DEF StartLoad, StartRemember, StartWatch, Reload
  <1>4. ASSUME NEW w \in Writers,
               Preview(w) \/ \E content \in Content : SaveLock(w, content) \/ SaveIfUnchanged(w, content)
        PROVE  FALSE
    BY <1>4 DEF Preview, SaveLock, SaveIfUnchanged, engineVars
  <1>5. ~SaveEnd
    BY DEF SaveEnd
  <1> QED BY <1>1, <1>2, <1>3, <1>4, <1>5 DEF Next, MainLoop

\* The echo of an engine's own save never rebuilds its controller (settings_file_changed:
\* the digest of what was written).
THEOREM OwnEchoIsIgnored == Spec => EchoIsIgnored
  <1> DEFINE Ignored == \A e \in Engines : phase[e] # "reloading" /\ phase'[e] = "reloading"
                                              => author # e \/ failed[e]
  <1>1. ASSUME SyncInv, [Next]_vars PROVE [Ignored]_vars
    <2>1. CASE Next
      BY <1>1, <2>1, OnlyFileChangedReloads DEF SyncInv, Echo, Running
    <2>2. CASE UNCHANGED vars
      BY <2>2
    <2> QED BY <1>1, <2>1, <2>2
  <1>2. [][Ignored]_vars <=> EchoIsIgnored
    BY DEF EchoIsIgnored
  <1> QED BY <1>1, <1>2, SyncInvariant, PTL DEF Spec

\* A conditional save replaces exactly the version that was previewed (save_if_unchanged:
\* the comparison and the rename under one config lock).
THEOREM ConditionalSaveReplacesReviewed == Spec => SaveReplacesReviewed
  <1> DEFINE Replaces == lock # Nobody /\ config' # config
                            => ~lock.conditional \/ config = version[lock.by]
  <1>1. SyncInv => [Replaces]_vars
    BY DEF SyncInv, Reviewed
  <1>2. [][Replaces]_vars <=> SaveReplacesReviewed
    BY DEF SaveReplacesReviewed
  <1> QED BY <1>1, <1>2, SyncInvariant, PTL
=============================================================================
