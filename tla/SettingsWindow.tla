--------------------------- MODULE SettingsWindow ---------------------------
(***************************************************************************)
(* The settings program: the model it edits, the editors of the page on    *)
(* screen, the unsaved-edits flag, saving and reloading, and the import of *)
(* settings from the account.                                              *)
(*                                                                         *)
(* Other programs and the user's own editor may write config.ini meanwhile.*)
(* How a save changes credentials and file together is the subject of      *)
(* CredentialTransaction; here it is one step that works or does nothing.  *)
(***************************************************************************)
EXTENDS FiniteSets, SettingsSchema

CONSTANTS
    Inputs,        \* Inputs[id] is what the user may put into an editor
    Raw,           \* Raw[f] is what others may write under a key
    Remotes,       \* the preferences the account may hold
    MaxEdits       \* editors changed and not yet applied

ASSUME MaxEditsAssumption == MaxEdits \in Nat
\* What is typed as a credential is nothing, a token, or what set() refuses.
ASSUME InputsAssumption ==
    \A id \in DOMAIN Inputs \cap CredentialRows : Inputs[id] \subseteq {"", "typed", Junk}

VARIABLES
    secrets,       \* the stored credential of each provider, by its owner
    model,         \* state.model
    dirty,         \* state.dirty
    page,          \* state.page
    editors,       \* what the widgets on the page hold
    rebuild,       \* state.rebuild_source
    preview,       \* a reviewed import waiting for the user
    base,          \* the model as it was loaded, while nothing is unsaved
    written,       \* what this program last wrote, until someone else writes
    meddled        \* someone wrote config.ini since it was last loaded

windowVars == <<secrets, model, dirty, page, editors, rebuild, preview, base,
                written, meddled>>

\* The rows a model follows, in the window's order, and the page of each.
UsedRows == Kept(Rows, Fields \cup CredentialRows \cup ClearRows)
PageOf == [id \in ToSet(UsedRows) |-> Section(id)]

\* build_model_page and make_editor: a credential is never put in its widget.
Editors(m, p) ==
    [id \in {r \in DOMAIN PageOf : PageOf[r] = p /\ Visible(m, r)} |->
        IF id \in CredentialRows THEN "" ELSE RowValue(m, id)]

\* flush_editors compares what it applies with the row as it was.
ChangesModel(m, id, v) ==
    IF id \in CredentialRows THEN v # "" ELSE v # RowValue(m, id)

Applied(acc, id) ==
    LET v == editors[id]
        ok == Accepts(acc.model, id, v)
    IN IF ~acc.ok THEN acc
       ELSE [model |-> IF ok THEN Set(acc.model, id, v) ELSE acc.model,
             dirty |-> acc.dirty \/ ChangesModel(model, id, v),
             ok |-> ok]

\* flush_editors: row by row, the hidden ones too while their editor is there, up to
\* the first one that is refused.
Flush ==
    LET rows == Kept(UsedRows, DOMAIN editors)
        flush[n \in 0 .. Len(rows)] ==
            IF n = 0 THEN [model |-> model, dirty |-> dirty, ok |-> TRUE]
            ELSE Applied(flush[n - 1], rows[n])
    IN flush[Len(rows)]

\* What every use of the page's editors does first.
Flushed(flush) == /\ model' = flush.model
                  /\ dirty' = flush.dirty
                  /\ base' = IF flush.dirty THEN None ELSE base

Idle == preview = None

-----------------------------------------------------------------------------
(* Pages *)

Edit(id, v) ==
    /\ Idle /\ id \in DOMAIN editors /\ v # editors[id]
    /\ editors' = [editors EXCEPT ![id] = v]
    /\ Cardinality({e \in DOMAIN editors :
                        ChangesModel(model, e, editors'[e])}) =< MaxEdits
    \* gating_editor_changed: the rows this one shows or hides
    /\ rebuild' = (rebuild \/ \E f \in Features :
                        \/ id = Feature[f].enabled
                        \/ id = "translation-provider")
    /\ UNCHANGED <<config, secrets, model, dirty, page, preview, base, written, meddled>>

\* show_page: nothing happens when an editor is refused.
ShowPage(p) ==
    \E flush \in {Flush} :
        /\ Flushed(flush)
        /\ page' = IF flush.ok THEN p ELSE page
        /\ editors' = IF flush.ok THEN Editors(flush.model, p) ELSE editors
        /\ UNCHANGED <<config, secrets, preview, written, meddled>>

SidebarClicked(p) == Idle /\ ShowPage(p) /\ UNCHANGED rebuild
RebuildPage == rebuild /\ ShowPage(page) /\ rebuild' = FALSE

-----------------------------------------------------------------------------
(* Saving *)

\* reload_from_store: of what is in the file now; lookups may fail.
Reload(fields, stored, down) ==
    /\ model' = Hydrate(fields, stored, down)
    /\ dirty' = FALSE
    /\ base' = model'
    /\ editors' = Editors(model', page)
    /\ meddled' = FALSE

\* Mutant: a token is pushed under whatever backend is selected.
FiledAsSelected(m, f) == IF Enabled(m, f) THEN Provider(m, f) ELSE None

\* The name a feature files its credential under, while it has a use for one.
FiledUnder(m, f) == IF Authenticates(m, f) THEN Owner(m, f) ELSE None

\* What SettingsStore::save does to the credentials when it works.  The credential
\* of a feature that stops authenticating, or that is to be forgotten, is erased
\* unless its lookup fails; a token is stored only for a feature that authenticates.
SavedSecrets(m, down) ==
    [f \in Features |->
        LET old == [fields |-> Load(config)]
            erased == IF f \in down THEN {}
                      ELSE {p \in DOMAIN secrets[f] :
                              \/ p = FiledUnder(old, f) /\ FiledUnder(m, f) = None
                              \/ m.cleared[f] /\ p = Owner(m, f)}
            stored == ~m.cleared[f] /\ m.token[f] # None /\ FiledUnder(m, f) # None
        IN [p \in DOMAIN secrets[f] |->
               IF p \in erased THEN None
               ELSE IF stored /\ p = FiledUnder(m, f)
               THEN IF m.token[f] = "typed" THEN p ELSE m.token[f]
               ELSE secrets[f][p]]]

\* The store refuses: settings that do not fit together, a credential that is
\* stored nowhere, or a change of one that cannot be looked up first.
StoreRefuses(m, down) ==
    \/ ~Valid(m.fields)
    \/ \E f \in Features :
          /\ Authenticates(m, f) /\ ~m.cleared[f]
          /\ IF f \in down THEN m.token[f] # None
             ELSE f # "translation" /\ m.token[f] = None /\ secrets[f][Owner(m, f)] = None

Written(m, down) ==
    /\ config' = Serialise(config, m.fields)
    /\ secrets' = SavedSecrets(m, down)
    /\ written' = [fields |-> m.fields, extra |-> IsFile(config) /\ config.extra]

\* save_clicked, nothing saved: an editor is refused, the window or the store
\* misses a credential, the settings do not fit together, or the save fails; a
\* failing save may have set a file that does not parse aside.
SaveRefused(down) ==
    /\ Idle
    /\ \E flush \in {Flush} :
          /\ Flushed(flush)
          /\ IF config = Broken /\ flush.ok /\ ~StoreRefuses(flush.model, down)
             THEN config' \in {Broken, Missing} ELSE UNCHANGED config
    /\ UNCHANGED <<secrets, page, editors, rebuild, preview, written, meddled>>

SaveStored(down) ==
    /\ Idle
    /\ \E flush \in {Flush} : /\ flush.ok /\ ~StoreRefuses(flush.model, down)
                             /\ Written(flush.model, down)
    /\ Reload(Load(config'), secrets', down)
    /\ UNCHANGED <<page, rebuild, preview>>

ResetClicked(down) ==
    /\ Idle
    /\ Reload(Load(config), secrets, down)
    /\ UNCHANGED <<config, secrets, page, rebuild, preview, written>>

-----------------------------------------------------------------------------
(* Import from the account *)

\* Mutant: a sync does not ask for unsaved edits.
SyncAlways == TRUE

\* sync.allow, asked before a review and again before its import; the page that
\* shows the account has no editors to flush.
SyncAllowed == ~dirty

\* SettingsDownloadReview: only of a clean window and a file read completely.
Review(remote) ==
    LET local == Hydrate(Load(config), secrets, {})
        next == PrepareDownload(local, remote)
    IN /\ Idle /\ page = "Account" /\ SyncAllowed
       /\ ~LoadWarns(config) /\ ~HydrateWarns(local, secrets, {})
       /\ ~DownloadRefused(local, remote) /\ next # local
       /\ preview' = [settings |-> next, version |-> config]
       /\ UNCHANGED <<config, secrets, model, dirty, page, editors, rebuild, base,
                      written, meddled>>

\* SettingsDownload: save_if_unchanged, then sync.applied.
ApplyImport(down) ==
    /\ ~Idle /\ SyncAllowed /\ config = preview.version
    /\ ~StoreRefuses(preview.settings, down)
    /\ Written(preview.settings, down)
    /\ model' = preview.settings
    /\ dirty' = FALSE
    /\ base' = IF dirty THEN None ELSE model'      \* edits it replaced are lost
    /\ preview' = None
    /\ meddled' = FALSE
    /\ UNCHANGED <<page, editors, rebuild>>

\* The user declines, the file has changed, or the save fails; the file it would
\* replace is one that parses.
DropImport ==
    /\ ~Idle
    /\ preview' = None
    /\ UNCHANGED <<config, secrets, model, dirty, page, editors, rebuild, base,
                   written, meddled>>

-----------------------------------------------------------------------------
(* Others *)

\* Another program or the user's editor; once between two loads.
OthersWrite ==
    /\ ~meddled
    /\ \/ \E f \in DOMAIN Raw : \E v \in Raw[f] :
             IsFile(config) /\ config' = [config EXCEPT !.keys[f] = v]
       \/ config' = Broken
    /\ config' # config
    /\ meddled' = TRUE
    /\ written' = None
    /\ UNCHANGED <<secrets, model, dirty, page, editors, rebuild, preview, base>>

\* A window whose user goes to some pages of the sidebar.
WindowNext(pages) ==
    \/ \E id \in DOMAIN Inputs : \E v \in Inputs[id] : Edit(id, v)
    \/ \E p \in pages : SidebarClicked(p)
    \/ RebuildPage
    \/ \E down \in SUBSET Features :
          SaveRefused(down) \/ SaveStored(down) \/ ResetClicked(down) \/ ApplyImport(down)
    \/ \E remote \in Remotes : Review(remote)
    \/ DropImport
    \/ OthersWrite

-----------------------------------------------------------------------------
(* Properties *)

\* While the window calls itself clean, its model is what it loaded: an import,
\* which replaces the model, or a sync never costs an edit (flush_editors,
\* sync.allow, sync.applied).
CleanIsLoaded == ~dirty => model = base

\* The clear row and the token never contradict each other, a token read from
\* Secret Service leaves the model with its provider, no credential is ever stored
\* for another provider than its own, and one typed for translation is not filed
\* under the local backend, where nothing reads it (SettingsUiModel::set,
\* SettingsStore::save).
CredentialsStayHome ==
    model # None => \A f \in Features :
        /\ model.cleared[f] => model.token[f] = None
        /\ model.token[f] \in {None, "typed", Provider(model, f)}
        /\ \A p \in DOMAIN secrets[f] : secrets[f][p] \in Filable(f, p)

\* What the window wrote comes back unchanged: any program reads it field by field,
\* unknown keys are still there and plain tokens are gone; and when it is uploaded
\* over whatever the account holds, the account keeps what only other programs know
\* and an import of it changes nothing (SettingsStore::save_unlocked and load,
\* CloudSettingsMapper::prepare_upload and prepare_download).
SavedIsReadBack ==
    written # None =>
        /\ IsFile(config) /\ Load(config) = written.fields /\ ~LoadWarns(config)
        /\ config.extra = written.extra
        /\ ~config.plain
        /\ LET m == Hydrate(written.fields, secrets, Features)
           IN \A remote \in Remotes :
                 LET uploaded == PrepareUpload(m, remote)
                 IN /\ ~DownloadRefused(m, uploaded) /\ PrepareDownload(m, uploaded) = m
                    /\ \A k \in DOMAIN remote \ Bindings : uploaded[k] = remote[k]
=============================================================================
