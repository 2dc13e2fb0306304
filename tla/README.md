# Verification of MSIME-Linux

TLA+ models of the stateful, concurrent and failure-prone parts of the
MSIME-Linux input method, TLC configurations that check them, and TLAPS proofs of their main
results. Paths are relative to the repository (`src/` here is `src/src/` in
PROJECT.json, which maps every definition to its lines).

## The system

MSIME-Linux is an IBus engine with a settings program and a few tools.

| Part | State | Operations | Interacts with |
|---|---|---|---|
| IBus engine (`IBusEngine.cpp`) | per input context: controller, settings copy and digest, timer, file monitor, delivery handle | key, focus, property and candidate handlers, delayed save, reload, dispose, finalize | everything below, all on one GLib main loop |
| Input controller (`InputController.cpp`, `TextTransform.cpp`) | session, mode, punctuation history, online generation | key handling, paging, punctuation, online requests | engine library (external) |
| Online candidate service (`online/OnlineCandidateService.cpp`) | latest request, token, stop flag, one thread per source | submit, clear, stop, worker loop | providers over HTTP; results return through the main loop |
| Translation service (`online/TranslationProvider.cpp`) | latest request, token, one thread | submit, clear, stop, batches | same |
| Dictionary lease (`DictionaryLease.cpp`) | two flock files | acquire, exclusively, close | every process that opens or rewrites dictionaries |
| Dictionary publication (`IBusEngine.cpp`, `account/NativeInstallation.cpp`, `NativeRestoreReview.cpp`) | installed generations, staged files | prepare, publish, recover | lease, all input contexts, D-Bus |
| Settings store (`SettingsStore.cpp`) | `config.ini`, `config.ini.lock` | load, save, save_if_unchanged, version | engine, settings window, clipboard tool, account panel, Secret Service |
| Secret store (`SecretStore.cpp`) | Secret Service items | lookup, store, erase | libsecret (external) |
| Account session (`account/AccountSession.cpp`, `AccountCredentialStore.cpp`) | tokens, generation, keyring record | restore, login, link, refresh, requests, logout | account server (external), panel, dictionary window |
| Settings window (`SettingsUi.cpp`, `SettingsUiModel.cpp`, `account/CloudSettingsMapper.cpp`) | model, editors of a page, unsaved-edits flag, reviewed import | edit, change page, save, reset, import | settings store, Secret Service, account |
| Desktop tools (`DesktopToolsUi.cpp`, `ClipboardHistory.cpp`) | history file and list, poll, strokes, recognition pass | poll, switch, clear, draw, recognise, destroy | clipboard owner, `config.ini`, a worker thread |
| Dictionary window (`account/DictionaryWindow.cpp`, `SnapshotTransfer.cpp`) | one work on a thread, list, reviews | list, edit, import, restore, export | account, engine over D-Bus, lease |
| Bootstrap, replay, voice, toolbar | files | seed, replay, upload | mostly sequential |

What is hard here: answers that arrive after the state they were asked for is
gone; several processes over one configuration file, one keyring and one set of
dictionaries; calls that fail after having been carried out; programs that end
between two steps; waits on the main loop. PROJECT.json lists these hazards at
their lines, with the property that watches each one or the reason why none does
yet.

What would make each component correct:

- online service: only the settled latest request is fetched and answered, no
  request is forgotten, a stop ends every thread;
- engine: what is displayed belongs to what is composed, a freed engine is never
  reached;
- lease: readers or one publisher, at every system call and after any death;
- settings file: edits of other programs are noticed and not reverted, own saves
  are not taken for edits, a reviewed version is the one replaced;
- credential transaction: all or nothing, and no token changes provider;
- account session: actions are bound to the account on screen, a published
  session survives a restart, a revoked one is not used;
- publication: after any failure every context is back on the dictionary the
  marker names, and that dictionary is complete and replaced only as reviewed;
- controller: closings it will step over are right of the caret, it erases only
  its own mark, a language switch needs a fresh tap of its key, and the client is
  shown what it composes;
- settings window: an import never costs an edit, credentials stay with their
  provider, what is saved is read back by every program and by an own import;
- desktop tools: a concealed text needs more than one change of the clipboard
  behind a poll's back to be recorded, a history given up stays empty, candidates
  belong to the canvas;
- dictionary window: nothing older than the user's own change can be selected.

## Modules

- `OnlineCandidateService` — the worker pool. Everything under `mutex_` is one
  step; the waits, the fetch, the last cancellation test and the callback are
  separate places (`pc`). A wait is left only by a notification, the deadline or
  a spurious wake-up, so lost wake-ups are possible behaviours. Time is a tick;
  `age` counts from `latest_update_`, `remaining` to a worker's deadline.
  `MCOnlineCandidateService` gives it two workers.
- `OnlineEngine` — extends it with the engine: a main-loop handler changes
  composition and generation and enters `submit` or `clear` in the same step;
  worker callbacks append to `mainLoop`; `Deliver` applies them. `Dispose`,
  `Finalize` and `Free` follow the code's order. Sessions, lookup tables and
  candidate texts are abstracted to the query they answer.
- `LeaseSpec`, `DictionaryLease` — the promise (share or sole use) and the two
  flocks, one action per system call, with non-atomic conversion and death at
  any point. `Use` is the refinement mapping.
- `SettingsSync` — `config.ini`, its lock and monitors. A content is a pair: what
  engines may change (`own`) and what only others do (`other`). A digest is the
  content it was computed from. Handlers of all engines exclude each other
  (`turn`), other processes do not; a handler that reads the file twice is two
  steps.
- `CredentialTransaction` — one save with a credential store, from any
  configuration and any stored tokens. The plan is one step because it only
  reads under the config lock; each store, erase, undo and the file replacement
  is a step that may fail with or without effect. Features stand for AI, voice
  (required credential) and translation (optional).
- `AccountSession` — the session under its mutex: authorize, refresh, request,
  exchange, save, discard as steps, with server revocation, expiry, failing
  keyring and restart in between. A token pair is its number.

- `TextTransform`, `InputController`, `InputEngine` — the formatter, the
  controller and one input context typing into a document. A controller is a
  record and a key is an operator from a controller to the set of its results
  (the engine library's composition and candidate count are free choices); a
  result says what to delete, commit and where to put the caret, and `Apply` is
  `apply_result`, on the client's side as well. `Observe` is the mode-toggle
  tracker, `Translation` the key table. The document keeps the glyph before the
  caret and the closings after it; `held`, `tap` (the modifier pressed last, with
  what was held beside it) and `lost` record what really happened, for the
  properties. The client is external: it reports its
  surrounding text before the next key or not at all, and it sends a reset when
  the user moves the caret.
- `SettingsSchema`, `SettingsWindow`, `DesktopTools`, `Desktop` — the schema is
  what `SettingsStore`, `SettingsUiModel` and `CloudSettingsMapper` know of each
  row: default, page, visibility, what is accepted, how it is written, read,
  uploaded and downloaded; a run or a theorem follows the fields in `Fields`.
  `Owner` is the name a credential is filed under: the chosen provider, and for
  translation DeepLX whatever backend is chosen. `SettingsWindow` is the program that edits it (a row
  that was hidden after its editor was made is still applied),
  `DesktopTools` the clipboard poll, whose every query spins a nested main loop
  and is therefore a step of its own, and the recognition worker. `Desktop` puts
  them over one `config.ini`; a behaviour follows the clipboard page, the
  handwriting page or one tour of the window, whose user goes to the pages the tour
  names (`follows`, `Tours`), since they meet only in that file, where
  `OthersWrite` and `OthersSwitch` stand for the rest. Another program may take the
  clipboard at any moment; `poll.moves` counts up to two changes since the owner was
  cleared, for the property.
- `NativePublication`, `DictionaryWindow` — the marker file, the generations and
  `publish_native_dictionary` step by step, with the discard worker, the replay
  program and death in between, on the lease as `LeaseSpec` promises it (which
  `DictionaryLease` implements); then the windows that review and publish, and
  their list of the account's dictionary. Which names a request carries and
  whether its answer is still awaited are state, so late, lost and repeated
  answers occur. `disk` is what the marker names after a power loss. A window
  follows the local dictionaries or the list.

The `...Proofs` modules hold the theorems. Operators commented `Mutant:` are
plausible bugs of the definition that follows them; PROJECT.json pairs each with
the property that detects it.

## Runs

| Run | Shows | Instance | States |
|---|---|---|---|
| online_service | debounce, cancellation, no lost request, stop ends all | 2 workers, 3 kinds of request, debounce 2, 3 changes | 75 k |
| online_engine | candidates fit the composition, freed engine untouched | 1 worker, 2 queries, 4 changes, 5 generations | 292 k |
| dictionary_lease | refinement of LeaseSpec, no waiting, publications end | 3 holders | 11 k |
| settings_sync | foreign content noticed, echo ignored, reviewed version replaced | 2 engines, 1 writer, 2 × 2 contents | 1.4 M |
| settings_foreign | violated: a pending save reverts a foreign edit | same | |
| credentials | all or nothing, no enabled provider known to lack its credential, what is to be forgotten is gone, no moved token | AI with 2 providers, translation, 2 tokens | 323 k |
| account_session | acts for the user shown, restart finds the session, revoked not used | 2 windows, 2 users, 3 token pairs, 4 generations | 1.5 M |
| input_engine | closings, nested marks and smart marks fit the text, display fits the composition, fresh taps | 2 settings files, 5 marks, up to 2 pending closings and nested titles | 213 k |
| modifier_tap | violated: Ctrl tapped while Shift is held switches the language | same | |
| desktop | no edit lost, credentials stay home, saves read back, clipboard and handwriting races | 6 fields, 2 features, 3 files, 2 vaults, 3 accounts, 2 tours; 4 texts, 3 kept; 3 strokes | 447 k |
| clipboard_handover | violated: a password between two ordinary texts is recorded | same | |
| dictionaries | contexts on the active dictionary, active is whole, only reviewed is replaced, list not stale | 2 contexts, 2 generations, 2 windows, 2 engine starts, 3 cloud changes | 1.1 M |

Bounds. `MaxToken` = 3 lets a request be replaced while it is debounced and
again while it is fetched; debounce 2 separates "just changed", "half way" and
"settled". Four changes and five generations in `OnlineEngine` allow an answer
to meet a later composition with the same text and a replaced controller. Three
holders are the publisher, a reader and a competing publisher. Two contents of
each kind are enough for the copy, the digest and the file to disagree pairwise;
the second engine of one process makes another engine's save a foreign one. In
the credential run every configuration, request and lookup failure is an initial
choice, and a behaviour is one save, so deadlock at its end is expected
(`CHECK_DEADLOCK FALSE`); likewise a freed engine ends `OnlineEngine`. Three
token pairs are login, refresh and link or a second login. Symmetry is used only
in runs without liveness.

The marks of `input_engine` are a smart mark that also pages, the nested pair, a
bracket that also pages and a plain mark; two closings and two levels show the
first and an inner pair. The two settings files differ in pairing, paging keys,
language lock, hidden preedit and the modifier that switches the language (Shift
in one, Ctrl in the other), and a reload goes from one to the other in the
middle of anything. A composition has no more than one unit and none or two
candidates on pages of one, which is enough for each boundary of the highlight.
Of the local modes only the temporary one is in the run, so the digits typed in
the Unicode mode are covered by the proofs and not by TLC; `ForwardKey("Left")`
stands for every key a held Ctrl or Alt forwards, which all do the same.
`desktop` has the voice feature with two offered providers and one that only a
file names, and translation with its local backend and DeepLX; one tour edits
voice and imports from the account, the other edits translation, which no import
carries. At most two editors are changed and not applied, and there is one foreign
write between two loads; four texts, one concealed, overflow a history of three.
The tools program ends
with its window (`CHECK_DEADLOCK FALSE`). In `dictionaries` two generations and
two windows let two reviews of one dictionary compete, and two engine starts let
a request outlive the process it was pinned to; one change of content per
dictionary makes a review stale. One engine process and one discard run at a
time, and files that were staged survive a power loss (the staging itself is in
the engine library). A request to the account whose answer is lost was applied or
never will be.

Fairness. `OnlineCandidateService`: weak fairness of each thread's own steps and
of the clock, because a runnable thread is scheduled; a fetch ends because curl
has a total timeout. Nobody has to call the service and no spurious wake-up has
to happen. `DictionaryLease`: weak fairness of the calls after the gate; starting
or ending a session is not fair. `SettingsSync`: the main loop and the lock
holder go on; no liveness is checked there. The three violations are safety
counterexamples. The other specifications have no fairness.

## What the violations show

1. `settings_foreign`: `write_settings` writes the retained copy. If the save
   timer, focus-out or disable runs before the queued monitor event, the foreign
   edit is replaced by old values, which the comments at `IBusEngine.cpp:107` and
   `:486` exclude.
2. `modifier_tap`: the tracker asks which other host modifiers are held, and Shift
   is not among them (`IBusKeyMapper.cpp:126`). With the Ctrl binding on, Shift
   down, Ctrl down, Ctrl up toggles, although `IBusKeyMapper.h:32` says a modifier
   toggles only when it was pressed and released alone and the comment at `:132` of
   the source file that Shift+Ctrl is neither toggle. What does hold, and is proved
   (`ToggleNeedsFreshTap`), is that nothing was pressed after the modifier and
   neither Ctrl nor Alt was held besides it.
3. `clipboard_handover`: a password that owns the clipboard only between the two
   questions to its owner is recorded, because the owners before and after it mark
   nothing. The comment at `DesktopToolsUi.cpp:149` and `PRIVACY.md:19` say that it
   is not. What does hold, and is proved (`HistoryHoldsOnlyAllowed`), is that it
   takes two changes of owner within one poll.

Seen while reading, not checked as violations: the digest and the load of
`settings_file_changed` can see different files; a save that fails before
serialising adopts the digest of a file the engine has not read; the comment at
`SettingsStore.cpp:1330` says close may fail after the rename, but close comes
first; the comment at `IBusEngine.cpp:934` speaks of references the deliveries
no longer take; a 401 answer to rename, link or logout keeps the session, while
the same answer to a read discards it. Further:

- Between the load of a starting engine at `IBusEngine.cpp:1321` and its monitor at
  `:1382`, with a possibly long credential lookup in between, a write is not
  noticed, also when it falls before the digest is taken at `:1379`: it then enters
  the digest without entering the copy. The comment at `:107` promises that an edit
  reaches the running engine, and the one at `:1377` that the watch keeps the engine
  from writing its old copy over it. `ChangeIsNoticed` excepts such a start by name
  (`raced`).
- A removal whose lookup fails is dropped (`SettingsStore.cpp:1581`), as intended
  for abandoned tokens, but also when it is an explicit request to forget one: the
  save succeeds, the credential stays, and the window says the clear requests "have
  now been carried out" (`SettingsUi.cpp:606`). `SavedHasCredential` excepts exactly
  the credentials whose lookup failed.
- `ClipboardHistory::clear` reports success when it cannot tell whether there is a
  history (`ClipboardHistory.cpp:244`), so the switch can be saved as off with the
  texts still there; a history counts as given up (`discarded`) only when it was
  emptied.
- A focus change does not disarm the tracker of the modifier keys.
- Interleaved pairs such as `<<(>)>` leave the formatter's nesting and the
  pending closings out of step with each other.
- A file with voice enabled and no endpoint is loaded without a warning, but every
  later save of any setting is then refused (`SettingsStore.cpp:198`). An import
  from the account can produce this combination and fails only at the save. A
  voice provider the store accepts and the window does not offer keeps the user
  on the Voice page.
- Switching the clipboard history off in the settings window leaves the recorded
  texts on disk; only the tools' own switch clears them. A failed save of that
  switch leaves the history cleared and the list as it was.
- A clear request followed by a change of provider forgets the new provider's
  credential.
- Two engines starting at once share the staging name of the seeder.
- A generation whose publication got no clear answer is kept for good, which is
  what makes `ActiveIsWhole` hold. The test for the active generation in
  `discard_worker` is never needed in the model.

## Proofs

Everything is proved for arbitrary sets and bounds, from the assumptions named
in the modules and evaluated by TLC on every run: `Sources` is not empty and
`Debounce` a natural number; requests are shaped as the engine builds them; the
model values for "nobody", "none" and the like are not members of the sets they
stand beside; bounds are natural numbers; the keyboard's marks are those
`is_ascii_punctuation` knows; a settings file holds values the store accepts; the
schema's defaults are legal and the window offers only what the store takes; a
followed feature has its switch and its provider among the fields, Secret Service
has one entry per provider, with nothing of translation but under DeepLX, what is
typed as a credential is nothing, a new token or what the window refuses, and no
tour of the settings window has the name of one of the tools' pages.

Each proof module states one inductive invariant, proves that the initial states
satisfy it and that every action keeps it (one step or one lemma per action), and
derives the properties. TLC has checked each of these invariants on the instance
of the corresponding run.

- `OnlineEngineProofs`, service: `ServiceInv`. The properties alone are not
  inductive: that a fetch is for the latest request depends on what the worker
  saw when it took its deadline. `WorkersInStep` says that while a worker's
  observed token is the current one, its deadline is that of the last update and
  its copy is the latest request; any change moves the token past all workers.
- `OnlineEngineProofs`, engine: `EngineInv`. Every request anywhere — argument, latest,
  copied, queued — is not newer than the controller's generation and, if it
  carries that generation, asks about the current composition. The service's
  invariant is reused through lemmas about its actions.
- `DictionaryLeaseProofs`: `LeaseInv`. Each place has exactly its flocks and no
  flock is exclusive beside another; so an exclusive session lock is always
  behind an exclusive gate, which gives `RestoreNeverWaits` and each step of the
  refinement.
- `SettingsSyncProofs`: `SyncInv`. `ChangeIsNoticed` speaks only of watching
  engines, so `Noticing` follows the digest from the moment it is remembered and
  through a reload; `Echo` says the engine that wrote last has the file's digest,
  which makes its own event a non-event; `Reviewed` says a conditional save that
  holds the lock has compared the file as it still is, because every writer takes
  that lock.
- `CredentialTransactionProofs`: `TransactionInv`. The three properties speak of
  the end of a save. `Journal` says each planned change remembers the credential
  before the save, `Progress` that at every moment the vault differs from then in
  exactly the changes tried and not undone (a failing call may or may not have
  been carried out), `Planned` what the plan leaves alone, and `Forgets` that it
  removes what is to be forgotten.
- `AccountSessionProofs`: `SessionInv`. What a window captured stays true while
  its generation is current (`Captures`), because a pair is replaced without a new
  generation only by one of the same user (`Renewal`); a pair found void is
  current only until the same method has discarded it (`Revocation`); and a pair
  is published after it was saved.
- `DictionaryWindowProofs`: `WindowInv`, about `NativePublication` and
  `DictionaryWindow` together. `Serving` says which contexts are on which
  dictionary at each place of a publication; `Sole` that the place where marker
  and contents must not move is under the sole lease; `Names` follows a generation
  from staging to request, discard or activity: a name is held by one window, sent
  once, and condemned only when it is neither active nor still requested, which is
  what `ActiveIsWhole` needs; `Lists` relates a list to the last own change.
- `InputEngineProofs`: `InputInv`. Lemmas say what each operation of the
  controller promises about its result: `Quiet` operations (paging, selecting,
  ending a composition) touch neither pending closings nor formatter, `Sound` ones
  (commit_punctuation in its five outcomes, and so handle_key) either leave the
  caret, open a pair or step over the innermost closing, and delete only the smart
  mark they were told of. `EditedIsSafe` then shows that `apply_result` of a sound
  result keeps the document in step. `Nested` says an open title has its closing
  pending, `Displayed` that the display was drawn after the last change, and
  `Watched` that an armed modifier is the one last pressed, with nothing but Shift
  beside it.
  Assumed of the engine library is only what its callers rely on: a refused call
  changes nothing, and ending a composition leaves none.
- `DesktopProofs`: `CanvasInv`. A running recognition is over strokes that are
  still on the canvas unless it is marked stale (`Current`); with that, what is
  delivered may be shown. `FollowInv` is the window and the clipboard page.
  `CleanIsLoaded` is about the end of a flush, so `WindowInv` needs what every row
  set by it keeps: legal values, a token that is none, new or the chosen
  provider's, and no token beside a clear request (`Models`); `FlushKeeps` carries
  this through the rows of a page and adds that a flush which changed no row left
  the model as it was. `AsWritten` says the file holds the last save unless
  somebody else wrote, and `LoadOfWritten` that legal values are read as written.
  `SavedSecretsAreFiled` says that what a save stores goes under the
  owner of its feature, which for translation is DeepLX (`Filable`).
  `Steady` says that a poll which read a marked text either saw the clipboard change
  hands twice or finds the text's owner still there at its recheck, so it adds
  nothing, and that a history given up goes with the saved switch being off.
  Applying a page and `Newest` are recursions over a sequence. They are written as
  recursive functions (`Kept` for the erase-remove idiom) and proved by induction
  over a set: of the positions where a claim fails, `WFMin` gives a least one
  (`LeastNatural`), which the step before refutes (`UpTo`, `Recursion`).

Every safety property a passing run checks is proved. Only model-checked: liveness
(`RequestIsFetched`, `StopEndsWorkers`, `PublicationEnds`) and anything with
`ENABLED`, which the prover cannot handle.

## Not modelled

- Translation service: a single worker with the protocol of
  `OnlineCandidateService`, plus cumulative batches.
- Credential lookups on a thread of their own after a settings reload.
- HTTP transport, candidate providers and the account's HTTP client: curl, JSON
  and validation, sequential; what they answer is a free choice of their callers.
- Snapshot archives: format, hashing and validation (`SnapshotEnvelope`,
  `SnapshotContents`, `NativeSnapshotExport`, `PreparedSnapshot`), and the fetch of
  native resources; long sequential checks of bytes.
- Seeding of the user directory, voice upload, floating toolbar, on-screen
  keyboard, process launching.
- GTK widgets and drawing, wording, Unicode and key tables, handwriting matching.

PROJECT.json lists every component with its status. IBus, GLib, flock, libsecret,
the account server, clipboard owners, client applications and the engine library
are external: each is a free choice over the outcomes its callers handle.

## Plan

1. More of what the invariants already carry, as action properties: that a marker
   never goes back to a condemned generation, that a generation number of the
   account is never shown for two users.
2. The translation service as a second instance of the worker protocol, and the
   credential lookups as an extension of `SettingsSync`.
