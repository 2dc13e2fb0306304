---------------------------- MODULE DesktopTools ----------------------------
(***************************************************************************)
(* The desktop tools program: the clipboard history with its poll and its  *)
(* switch, and handwriting recognition on a worker thread.                 *)
(*                                                                         *)
(* Asking for the clipboard spins a nested main loop, so that every other  *)
(* event of the program, the destruction of the window included, may be    *)
(* handled between two steps of a poll.  The poll itself is not re-entered.*)
(***************************************************************************)
EXTENDS FiniteSets, SettingsSchema

CONSTANTS
    Texts,         \* what may be on the clipboard
    Concealed,     \* those that a password manager marks
    kMaxItems,     \* ClipboardHistory::kMaxItems
    MaxStrokes,    \* strokes on the canvas
    Gone           \* the widget has been destroyed

ASSUME ConcealedAssumption == Concealed \subseteq Texts
ASSUME kMaxItemsAssumption == kMaxItems \in Nat \ {0}
ASSUME SwitchAssumption == "clipboard-history" \in Fields
ASSUME MaxStrokesAssumption == MaxStrokes \in Nat \ {0}

VARIABLES
    history,       \* clipboard_history.json, newest first
    owner,         \* the text its owner offers, or None
    poll,          \* where poll_clipboard is, the text it read, and how often the
                   \* clipboard changed hands since its owner was cleared (2: or more)
    checked,       \* the switch on screen
    discarded,     \* the history was emptied and given up with the switch, and not
                   \* begun again
    list,          \* the history on screen, or Gone
    strokes, drawing, debounce,
    pass,          \* the running recognition: its strokes, whether they have been
                   \* wiped since, and whether the worker is through
    restart, stale,
    shown,         \* the candidates on screen, as the pass they come from, or Gone
    shut           \* state.shutting_down

clipboardVars == <<history, owner, poll, checked, discarded, list>>
handVars == <<strokes, drawing, debounce, pass, restart, stale, shown>>
toolsVars == <<clipboardVars, handVars, shut>>

Steps == {"idle", "targets", "text", "recheck"}
NoPoll == [at |-> "idle", text |-> None, moves |-> 0]
On == Load(config)["clipboard-history"]

-----------------------------------------------------------------------------
(* Clipboard history *)

\* The newest first, each text once, the oldest dropped.
Newest(t) ==
    LET items == <<t>> \o Kept(history, Texts \ {t})
    IN SubSeq(items, 1, IF Len(items) > kMaxItems THEN kMaxItems ELSE Len(items))

\* ClipboardHistory::add reads the setting again.
Add(t) == IF On THEN Newest(t) ELSE history

\* refresh_clipboard_list, unless the window is gone.
Listed(items) == list' = IF shut THEN list ELSE items

\* Another program takes the selection.
Copy(t) ==
    /\ t # owner
    /\ owner' = t
    /\ poll' = [poll EXCEPT !.moves = IF poll.at \in {"text", "recheck"} /\ @ < 2 THEN @ + 1 ELSE @]
    /\ UNCHANGED <<config, history, checked, discarded, list, handVars, shut>>

PollBegins ==
    /\ ~shut /\ poll.at = "idle" /\ On
    /\ poll' = [NoPoll EXCEPT !.at = "targets"]
    /\ UNCHANGED <<config, history, owner, checked, discarded, list, handVars, shut>>

\* clipboard_content_is_recordable: an owner that does not answer is concealed.
Recordable(answers) == answers /\ owner # None /\ owner \notin Concealed

PollTargets(answers) ==
    /\ poll.at = "targets"
    /\ poll' = IF ~shut /\ Recordable(answers) THEN [poll EXCEPT !.at = "text"] ELSE NoPoll
    /\ UNCHANGED <<config, history, owner, checked, discarded, list, handVars, shut>>

PollText ==
    /\ poll.at = "text"
    /\ poll' = IF shut \/ owner = None THEN NoPoll
               ELSE [poll EXCEPT !.at = "recheck", !.text = owner]
    /\ UNCHANGED <<config, history, owner, checked, discarded, list, handVars, shut>>

\* Mutant: the owner is not asked again.
PollAddsUnchecked(answers) == ~shut

\* The text is kept when its owner may still be recorded.
PollAdds(answers) == ~shut /\ Recordable(answers)

\* Writing the history may fail.
PollRecheck(answers, works) ==
    /\ poll.at = "recheck"
    /\ IF PollAdds(answers) /\ works /\ (history = <<>> \/ Head(history) # poll.text)
       THEN history' = Add(poll.text) /\ Listed(history')
       ELSE UNCHANGED <<history, list>>
    /\ poll' = NoPoll
    /\ UNCHANGED <<config, owner, checked, discarded, handVars, shut>>

\* What ClipboardHistory::clear may leave; it also succeeds, with the history still
\* there, when it cannot tell whether there is one.
Cleared == {<<>>, history}

\* enabled_toggled and ClipboardHistory::set_enabled.  Switching off empties the
\* history before the setting is saved; a failed save leaves the setting alone, but
\* may have set a file that does not parse aside.
Toggle(clears, saves) ==
    LET on == ~checked
        settings == [Load(config) EXCEPT !["clipboard-history"] = on]
        tried == (on \/ clears) /\ Valid(settings)
        saved == tried /\ saves
    IN /\ ~shut
       /\ history' \in IF ~on /\ clears THEN Cleared ELSE {history}
       /\ config' \in IF saved THEN {Serialise(config, settings)}
                      ELSE IF tried /\ config = Broken THEN {Broken, Missing} ELSE {config}
       /\ checked' = IF saved THEN on ELSE checked
       /\ discarded' = IF saved THEN ~on /\ history' = <<>> ELSE discarded
       /\ IF saved THEN Listed(history') ELSE UNCHANGED list
       /\ UNCHANGED <<owner, poll, handVars, shut>>

ClearClicked ==
    /\ ~shut
    /\ history' \in Cleared /\ Listed(history')
    /\ UNCHANGED <<config, owner, poll, checked, discarded, handVars, shut>>

\* The settings window saves its own idea of the switch; the history stays.
OthersSwitch ==
    /\ config' = Serialise(config, [Load(config) EXCEPT !["clipboard-history"] = ~@])
    /\ discarded' = (discarded /\ On)
    /\ UNCHANGED <<history, owner, poll, checked, list, handVars, shut>>

-----------------------------------------------------------------------------
(* Handwriting *)

Passes == [strokes : 1 .. MaxStrokes, wiped : BOOLEAN, done : BOOLEAN]

\* start_handwriting_recognition, in the state deliver or a click leaves.
Start(running, again) ==
    IF running # None THEN pass' = running /\ restart' = TRUE
    ELSE /\ pass' = IF strokes = 0 THEN None
                    ELSE [strokes |-> strokes, wiped |-> FALSE, done |-> FALSE]
         /\ restart' = again

KeepClipboard == UNCHANGED <<config, clipboardVars>>

ButtonPress ==
    /\ ~shut /\ strokes < MaxStrokes
    /\ strokes' = strokes + 1 /\ drawing' = TRUE
    /\ UNCHANGED <<debounce, pass, restart, stale, shown, shut>> /\ KeepClipboard

ButtonRelease ==
    /\ ~shut
    /\ drawing' = FALSE /\ debounce' = TRUE
    /\ UNCHANGED <<strokes, pass, restart, stale, shown, shut>> /\ KeepClipboard

DebounceElapsed ==
    /\ ~shut /\ debounce
    /\ debounce' = FALSE
    /\ Start(pass, restart)
    /\ UNCHANGED <<strokes, drawing, stale, shown, shut>> /\ KeepClipboard

RecognizeClicked ==
    /\ ~shut
    /\ debounce' = FALSE
    /\ Start(pass, restart)
    /\ UNCHANGED <<strokes, drawing, stale, shown, shut>> /\ KeepClipboard

WorkerEnds ==
    /\ pass # None /\ ~pass.done
    /\ pass' = [pass EXCEPT !.done = TRUE]
    /\ UNCHANGED <<strokes, drawing, debounce, restart, stale, shown, shut>> /\ KeepClipboard

\* deliver_handwriting_result: a stale result is dropped, new strokes start over.
Deliver ==
    /\ pass # None /\ pass.done
    /\ stale' = FALSE
    /\ shown' = IF stale \/ shut THEN shown ELSE pass
    /\ IF restart /\ ~shut THEN Start(None, FALSE)
       ELSE pass' = None /\ UNCHANGED restart
    /\ UNCHANGED <<strokes, drawing, debounce, shut>> /\ KeepClipboard

\* Mutant: a clear forgets the pass that is still running.
StaleNever == stale

\* A running pass describes strokes that no longer exist.
StaleAfterClear == pass # None

HandwritingClear ==
    /\ ~shut
    /\ debounce' = FALSE /\ strokes' = 0 /\ drawing' = FALSE /\ restart' = FALSE
    /\ stale' = StaleAfterClear
    /\ pass' = IF pass = None THEN None ELSE [pass EXCEPT !.wiped = TRUE]
    /\ shown' = None
    /\ UNCHANGED shut /\ KeepClipboard

\* The window's destroy handler, perhaps inside a poll's nested loop.
Destroy ==
    /\ ~shut
    /\ shut' = TRUE /\ debounce' = FALSE
    /\ list' = Gone /\ shown' = Gone
    /\ UNCHANGED <<config, history, owner, poll, checked, discarded, strokes, drawing,
                   pass, restart, stale>>

ClipboardNext ==
    \/ \E t \in Texts \cup {None} : Copy(t)
    \/ PollBegins
    \/ \E answers \in BOOLEAN : PollTargets(answers)
    \/ PollText
    \/ \E answers, works \in BOOLEAN : PollRecheck(answers, works)
    \/ \E clears, saves \in BOOLEAN : Toggle(clears, saves)
    \/ ClearClicked
    \/ OthersSwitch
    \/ Destroy

HandwritingNext ==
    \/ ButtonPress \/ ButtonRelease \/ DebounceElapsed \/ RecognizeClicked
    \/ WorkerEnds \/ Deliver \/ HandwritingClear
    \/ Destroy

-----------------------------------------------------------------------------
(* Properties *)

\* A marked text enters the history only if the clipboard changed hands at least
\* twice between the two questions to its owner; and a history emptied and given up
\* with the switch stays empty until recording is allowed again, although a poll may
\* be parked when the switch is used (poll_clipboard, ClipboardHistory::add,
\* ClipboardHistory::set_enabled).
HistoryHoldsOnlyAllowed ==
    /\ [][\A t \in Concealed : t \in ToSet(history') \ ToSet(history) => poll.moves = 2]_clipboardVars
    /\ [](discarded => history = <<>>)

\* What PRIVACY.md:19 and the comment at DesktopToolsUi.cpp:149 claim: what a
\* password manager marks is never stored, whoever owns the clipboard in between.
NothingMarkedIsStored == ToSet(history) \cap Concealed = {}

\* Candidates on screen describe the drawing on the canvas, never a wiped one, and
\* nothing is put on a window that is gone (deliver_handwriting_result,
\* handwriting_clear, poll_clipboard after a nested loop).
ShownIsOnCanvas ==
    /\ shut => shown = Gone /\ list = Gone
    /\ ~shut /\ shown # None => ~shown.wiped /\ shown.strokes =< strokes
=============================================================================
