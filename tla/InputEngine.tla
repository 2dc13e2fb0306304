----------------------------- MODULE InputEngine -----------------------------
(***************************************************************************)
(* One IBus input context typing into a document: the key path of          *)
(* src/src/IBusEngine.cpp (process_key_event and the other handlers the    *)
(* daemon calls), the key mapping and the mode-toggle tracker of           *)
(* src/src/IBusKeyMapper.cpp, and the controller of InputController.       *)
(*                                                                         *)
(* The client is external: its document around the caret, its handling of  *)
(* keys the engine leaves to it, its focus, and the reset it sends when    *)
(* the user moves the caret. It reports its surrounding text before the    *)
(* next key, or not at all.                                                *)
(***************************************************************************)
EXTENDS InputController, FiniteSets, SequencesExt

CONSTANTS Marks,        \* ASCII punctuation keys in use
          Options,      \* option records a settings file may hold
          Persisted,    \* modes a settings file may hold, a subset of Saved
          Schemes, MaxPending, MaxNest

VARIABLES ctl,     \* the controller
          trk,     \* IBusModeToggleTracker: [shift, ctrl, chord]
          held,    \* modifiers physically held
          tap,     \* ghost: [key, with], the Shift or Ctrl last seen pressed without Alt and the
                   \* one then held besides it; "none" when another key was seen pressed since
          doc,     \* the client's text: [before, right, lost]
          shown,   \* what the client and the panel display
          focused

vars == <<ctl, trk, held, tap, doc, shown, focused>>

Modifiers == {"Shift", "Ctrl", "Alt"}
Bindings == [shift : BOOLEAN, ctrl : BOOLEAN, chord : BOOLEAN]
Saved == [mode : {"Ime", "Direct"}, punct : {"Chinese", "English"}, width : {"Half", "Full"}, scheme : Schemes]

ASSUME BoundsAssumption == MaxPending \in Nat /\ MaxNest \in Nat
\* is_ascii_punctuation: the marks TextTransform knows, and five more.
ASSUME MarksAssumption ==
    \A a \in Marks : IsPunctuation(a) \/ a \in {"-", "+", "=", "/", "|"}
ASSUME PersistedAssumption == Persisted \subseteq Saved
ASSUME OptionsAssumption ==
    \A o \in Options : /\ o.page_size \in Nat \ {0}
                       /\ o.default_mode \in {"Ime", "Direct"}
                       /\ o.lock \in {"Chinese", "English", "Follow"}
                       /\ o.bind \in Bindings

-----------------------------------------------------------------------------
(* The mode-toggle tracker.                                                *)

Unarmed == [shift |-> FALSE, ctrl |-> FALSE, chord |-> FALSE]

Configure(t, b) == [shift |-> t.shift /\ b.shift, ctrl |-> t.ctrl /\ b.ctrl, chord |-> t.chord /\ b.chord]

\* The host modifiers other than the key itself; Shift is not a host modifier.
Others(sym) == {"Ctrl", "Alt"} \ {sym}

\* Mutant: a key pressed while the modifier is down leaves it armed.
ObserveArmed(t, b, sym, release, mods) ==
    LET clear == mods \cap Others(sym) = {}
        armed == IF sym = "Shift" THEN t.shift /\ b.shift ELSE t.ctrl /\ b.ctrl
    IN CASE b.chord /\ ~release /\ sym = "space" /\ mods = {"Ctrl", "Alt"} ->
              [t |-> [t EXCEPT !.chord = TRUE], toggle |-> ~t.chord]
         [] sym \in {"Shift", "Ctrl"} /\ ~release ->
              [t |-> [shift |-> sym = "Shift" /\ b.shift /\ clear,
                      ctrl |-> sym = "Ctrl" /\ b.ctrl /\ clear, chord |-> FALSE], toggle |-> FALSE]
         [] sym \in {"Shift", "Ctrl"} /\ release ->
              [t |-> [shift |-> sym # "Shift" /\ t.shift, ctrl |-> sym # "Ctrl" /\ t.ctrl, chord |-> FALSE],
               toggle |-> armed /\ clear]
         [] OTHER -> [t |-> [t EXCEPT !.chord = FALSE], toggle |-> FALSE]

\* observe(keyval, state): the tracker after the event, and whether it toggles.
Observe(t, b, sym, release, mods) ==
    LET clear == mods \cap Others(sym) = {}
        armed == IF sym = "Shift" THEN t.shift /\ b.shift ELSE t.ctrl /\ b.ctrl
    IN CASE b.chord /\ ~release /\ sym = "space" /\ mods = {"Ctrl", "Alt"} ->
              [t |-> [t EXCEPT !.chord = TRUE], toggle |-> ~t.chord]
         [] sym \in {"Shift", "Ctrl"} /\ ~release ->
              [t |-> [shift |-> sym = "Shift" /\ b.shift /\ clear,
                      ctrl |-> sym = "Ctrl" /\ b.ctrl /\ clear, chord |-> FALSE], toggle |-> FALSE]
         [] sym \in {"Shift", "Ctrl"} /\ release ->
              [t |-> [shift |-> sym # "Shift" /\ t.shift, ctrl |-> sym # "Ctrl" /\ t.ctrl, chord |-> FALSE],
               toggle |-> armed /\ clear]
         [] OTHER -> [t |-> Unarmed, toggle |-> FALSE]

-----------------------------------------------------------------------------
(* The key mapping: keysyms and modifiers to FrontendKey events.           *)

Event(key, char, digit, mods) ==
    [key |-> key, char |-> char, digit |-> digit, shift |-> mods = {"Shift"}, prev |-> "none"]

CommandKeys == [BackSpace |-> "Backspace", Return |-> "Enter", Escape |-> "Escape", space |-> "Space",
                Up |-> "Up", Down |-> "Down", Page_Up |-> "PageUp", Page_Down |-> "PageDown"]
DigitOf == ("0" :> 0) @@ ("1" :> 1) @@ ("3" :> 3)
Letters == {"E"}

\* translate_ibus_key: the events to dispatch; none means forward. "Left" stands
\* for the keysyms the mapper does not know.
Translation(sym, mods) ==
    CASE sym = "." /\ mods = {"Ctrl"} -> {Event("TogglePunctuation", "", 0, mods)}
      [] sym = "space" /\ mods = {"Ctrl", "Shift"} -> {Event("ToggleWidth", "", 0, mods)}
      [] sym = "E" /\ mods = {"Ctrl", "Shift"} -> {Event("ToggleEnglish", "", 0, mods)}
      [] mods \cap {"Ctrl", "Alt"} # {} /\ ~(sym = "." /\ mods = {"Ctrl"})
           /\ ~(sym \in {"space", "E"} /\ mods = {"Ctrl", "Shift"}) -> {}
      [] mods \subseteq {"Shift"} /\ sym \in DOMAIN CommandKeys -> {Event(CommandKeys[sym], "", 0, mods)}
      [] mods \subseteq {"Shift"} /\ sym \in DOMAIN DigitOf -> {Event("Digit", "", DigitOf[sym], mods)}
      [] mods \subseteq {"Shift"} /\ sym \in Letters -> {Event("Character", "a", 0, mods)}
      [] mods \subseteq {"Shift"} /\ sym \in Marks -> {Event("Punctuation", sym, 0, mods)}
      [] OTHER -> {}

Keysyms == DOMAIN CommandKeys \cup DOMAIN DigitOf \cup Letters \cup Marks \cup {"Left"}

-----------------------------------------------------------------------------
(* The client's document: the glyph before the caret, the first glyphs     *)
(* after it, and (a ghost) whether the engine ever deleted anything but    *)
(* the ASCII form of the mark it then committed. Before the caret only     *)
(* letters and smart marks are told apart.                                 *)

Glyph(g) == IF g \in SmartMarks \cup {"a"} THEN g ELSE "other"
Before == (SmartMarks \cap Marks) \cup {"a", "other"}
Right(s) == SubSeq(s, 1, IF Len(s) > MaxPending THEN MaxPending ELSE Len(s))

\* Arbitrary text around a caret that moved.
Elsewhere(d) == {[d EXCEPT !.before = b, !.right = <<>>] : b \in Before}

\* What the application does with a key the engine left to it.
ClientKey(d, sym, mods) ==
    CASE mods \subseteq {"Shift"} /\ sym \in DOMAIN DigitOf \cup Letters ->
            {[d EXCEPT !.before = "a"]}
      [] mods \subseteq {"Shift"} /\ sym \in Marks \cup {"space"} ->
            {[d EXCEPT !.before = Glyph(sym)]}
      [] mods \subseteq {"Shift"} /\ sym = "BackSpace" ->
            {[d EXCEPT !.before = b] : b \in Before}
      [] OTHER -> Elsewhere(d)

\* apply_result's calls, in its order: delete, commit, caret left, caret right.
Edited(d, r) ==
    LET erased == [d EXCEPT !.lost = @ \/ (r.del > 0 /\ r.commit # <<Chinese(ResetFormatter, d.before).mark>>)]
        n == Len(r.commit)
        put == IF n - r.left = 0 THEN erased
               ELSE [erased EXCEPT !.before = Glyph(r.commit[n - r.left]),
                                   !.right = Right(SubSeq(r.commit, n - r.left + 1, n) \o @)]
    IN IF r.right > 0 /\ put.right # <<>>
       THEN [put EXCEPT !.before = Glyph(Head(put.right)), !.right = Tail(@)]
       ELSE put

\* preedit(), candidates() and highlighted_candidate() as update_preedit and
\* update_lookup_table draw them, and update_property_values.
Preedit(c) == IF c.opt.hidden THEN 0 ELSE c.comp.pre
Table(c) == IF Composing(c) /\ c.comp.n > 0 THEN [n |-> c.comp.n, high |-> c.high] ELSE [n |-> 0, high |-> 0]
Panel(c) == [mode |-> c.mode, punct |-> c.punct, width |-> c.width, scheme |-> c.scheme]
Drawn(c, panel) == [pre |-> Preedit(c), table |-> Table(c), panel |-> panel]

\* apply_result; the caller syncs the panel or leaves it.
Apply(r, d, sync) ==
    /\ Len(r.c.pending) <= MaxPending
    /\ r.c.fmt.nest <= MaxNest
    /\ ctl' = r.c
    /\ doc' = Edited(d, r)
    /\ shown' = Drawn(r.c, IF sync THEN Panel(r.c) ELSE shown.panel)

\* Mutant: a result without text is not applied.
PassthroughIfText(c, sym, mods) ==
    \E r \in HostShortcut(c) :
        \E d \in ClientKey(Edited(doc, r), sym, mods) :
            /\ ctl' = r.c
            /\ doc' = d
            /\ shown' = IF r.commit = <<>> THEN shown ELSE Drawn(r.c, shown.panel)

\* commit_for_passthrough, and then the application's own handling of the key.
Passthrough(c, sym, mods) ==
    \E r \in HostShortcut(c) :
        \E d \in ClientKey(Edited(doc, r), sym, mods) :
            /\ ctl' = r.c
            /\ doc' = d
            /\ shown' = Drawn(r.c, shown.panel)

\* Ghost: the tap under way after the event; a repeated press begins it anew.
NoTap == [key |-> "none", with |-> {}]
Tapped(sym, release) ==
    IF release THEN IF tap.key = sym THEN NoTap ELSE tap
    ELSE IF sym \in {"Shift", "Ctrl"} /\ "Alt" \notin held THEN [key |-> sym, with |-> held \ {sym}]
    ELSE NoTap

-----------------------------------------------------------------------------
(* process_key_event for one event: sym, pressed or released, with the     *)
(* modifiers held before it.                                               *)

Observed(sym, release) == Observe(trk, ctl.opt.bind, sym, release, held)

Physical(sym, release) ==
    /\ focused
    /\ sym \in held => release \/ tap.key = sym   \* a held modifier may auto-repeat
    /\ release /\ sym \in Modifiers => sym \in held
    /\ held' = IF sym \notin Modifiers THEN held
               ELSE IF release THEN held \ {sym} ELSE held \cup {sym}
    /\ tap' = Tapped(sym, release)
    /\ trk' = Observed(sym, release).t
    /\ UNCHANGED focused

ToggleKey(sym, release) ==
    /\ Physical(sym, release)
    /\ Observed(sym, release).toggle
    /\ \E r \in ToggleMode(ctl) : Apply(r, doc, TRUE)

\* Auto-repeats of the chord are swallowed; bare modifiers and releases are ignored.
IgnoreKey(sym, release) ==
    /\ Physical(sym, release)
    /\ ~Observed(sym, release).toggle
    /\ trk'.chord \/ release \/ sym \in Modifiers
    /\ UNCHANGED <<ctl, doc, shown>>

\* With Ctrl or Alt held every key without a binding is forwarded the way Left is.
ForwardKey(sym) ==
    /\ Physical(sym, FALSE)
    /\ ~trk'.chord
    /\ Translation(sym, held) = {}
    /\ Passthrough(ctl, sym, held)

\* preceding_character: the client reports the text before the caret or nothing.
Reported(events) ==
    UNION {IF e.key = "Punctuation" THEN {e, [e EXCEPT !.prev = doc.before]} ELSE {e} : e \in events}

DispatchKey(sym) ==
    /\ Physical(sym, FALSE)
    /\ ~trk'.chord
    /\ \E e \in Reported(Translation(sym, held)) : \E r \in HandleKey(ctl, e) :
          IF r.handled
          THEN Apply(r, doc, e.key \in {"TogglePunctuation", "ToggleWidth"})
          ELSE Passthrough(r.c, sym, held)

-----------------------------------------------------------------------------
(* The other handlers.                                                     *)

FocusIn ==
    /\ ~focused
    /\ focused' = TRUE
    /\ ctl' = InvalidateContext(ctl)
    /\ shown' = Drawn(ctl', shown.panel)
    /\ held' \in {{}, held}                       \* modifiers may be released elsewhere
    /\ doc' \in Elsewhere(doc)
    /\ UNCHANGED <<trk, tap>>

FocusOut ==
    /\ focused
    /\ focused' = FALSE
    /\ ctl' \in Reset(ctl)
    /\ shown' = [Drawn(ctl', shown.panel) EXCEPT !.pre = 0]
    /\ UNCHANGED <<trk, held, tap, doc>>

\* The user moves the caret; the client sends reset.
ClientReset ==
    /\ focused
    /\ ctl' \in Reset(ctl)
    /\ shown' = Drawn(ctl', shown.panel)
    /\ doc' \in Elsewhere(doc)
    /\ UNCHANGED <<trk, held, tap, focused>>

\* The application changes the text before the caret without telling.
ClientEdit ==
    /\ focused
    /\ doc' \in {[doc EXCEPT !.before = b] : b \in Before}
    /\ UNCHANGED <<ctl, trk, held, tap, shown, focused>>

Enable ==
    /\ focused
    /\ \E r \in SetMode(ctl, ctl.opt.default_mode) :
          IF r.handled
          THEN Apply([r EXCEPT !.c = InvalidateContext(@)], doc, TRUE)
          ELSE ctl' = InvalidateContext(r.c) /\ UNCHANGED <<doc, shown>>
    /\ UNCHANGED <<trk, held, tap, focused>>

\* A click on a candidate or on a paging arrow of the lookup table.
Click(i) ==
    /\ focused
    /\ \E r \in SelectPageCandidate(ctl, i) : r.handled /\ Apply(r, doc, FALSE)
    /\ UNCHANGED <<trk, held, tap, focused>>

Navigate(key) ==
    /\ focused
    /\ \E r \in HandleKey(ctl, Event(key, "", 0, {})) :
          IF r.handled THEN Apply(r, doc, FALSE) ELSE ctl' = r.c /\ UNCHANGED <<doc, shown>>
    /\ UNCHANGED <<trk, held, tap, focused>>

\* property_activate: each panel entry with the state it was given.
PropertyActivate ==
    /\ focused
    /\ \E r \in (UNION {SetMode(ctl, m) : m \in {"Ime", "Direct"}})
                \cup {SetPunctuationMode(ctl, m) : m \in {"Chinese", "English"}}
                \cup {SetCharacterWidth(ctl, w) : w \in {"Half", "Full"}}
                \cup (UNION {SwitchScheme(ctl, s) : s \in Schemes}) : Apply(r, doc, TRUE)
    /\ UNCHANGED <<trk, held, tap, focused>>

\* deliver_result: an online candidate merged into the list and redrawn.
OnlineArrives ==
    /\ Composing(ctl)
    /\ ctl' \in {ApplyOnline(ctl, n) : n \in CandidateCounts \ {0}}
    /\ shown' = [shown EXCEPT !.table = Table(ctl')]
    /\ UNCHANGED <<trk, held, tap, doc, focused>>

\* reload_settings: the composition is committed and the controller rebuilt.
Reload ==
    /\ focused
    /\ \E r \in HostShortcut(ctl), o \in Options, s \in Persisted :
          /\ ctl' = CreateController(o, s)
          /\ doc' = Edited(doc, r)
          /\ trk' = Configure(trk, o.bind)
    /\ shown' = Drawn(ctl', Panel(ctl'))
    /\ UNCHANGED <<held, tap, focused>>

\* Two seconds pass since the last smart mark.
TwoSeconds ==
    /\ ctl.hist.recent
    /\ ctl' = [ctl EXCEPT !.hist.recent = FALSE]
    /\ UNCHANGED <<trk, held, tap, doc, shown, focused>>

-----------------------------------------------------------------------------
Init ==
    /\ \E o \in Options, s \in Persisted : ctl = CreateController(o, s)
    /\ trk = Unarmed
    /\ held = {}
    /\ tap = NoTap
    /\ doc = [before |-> "other", right |-> <<>>, lost |-> FALSE]
    /\ shown = Drawn(ctl, Panel(ctl))
    /\ focused = FALSE

Next ==
    \/ \E sym \in Modifiers \cup {"space"}, release \in BOOLEAN : ToggleKey(sym, release)
    \/ \E sym \in Modifiers \cup {"space"}, release \in BOOLEAN : IgnoreKey(sym, release)
    \/ ForwardKey("Left")                         \* any other forwarded key does the same
    \/ \E sym \in Keysyms : DispatchKey(sym)
    \/ FocusIn
    \/ FocusOut
    \/ ClientReset
    \/ ClientEdit
    \/ Enable
    \/ \E i \in 0..2 : Click(i)
    \/ \E key \in {"Up", "Down", "PageUp", "PageDown"} : Navigate(key)
    \/ PropertyActivate
    \/ OnlineArrives
    \/ Reload
    \/ TwoSeconds

Spec == Init /\ [][Next]_vars

-----------------------------------------------------------------------------
(* Properties.                                                             *)

\* Every variable has its type; a highlight is a candidate of the list.
TypeOK ==
    /\ ctl.comp \in Compositions \cup {Nothing}
    /\ ctl.high \in 0..(IF ctl.comp.n = 0 THEN 0 ELSE ctl.comp.n - 1)
    /\ Panel(ctl) \in Saved
    /\ ctl.english \in BOOLEAN
    /\ ctl.fmt \in [dq : BOOLEAN, sq : BOOLEAN, nest : 0..MaxNest]
    /\ ctl.pending \in BoundedSeq(Range(Closings), MaxPending)
    /\ ctl.hist \in [key : SmartMarks \cup {""}, recent : BOOLEAN]
    /\ ctl.opt \in Options
    /\ trk \in [shift : BOOLEAN, ctrl : BOOLEAN, chord : BOOLEAN]
    /\ held \subseteq Modifiers
    /\ tap \in [key : {"Shift", "Ctrl", "none"}, with : SUBSET {"Shift", "Ctrl"}]
    /\ doc \in [before : Before, right : BoundedSeq(Range(Closings), MaxPending), lost : BOOLEAN]
    /\ shown.panel \in Saved
    /\ focused \in BOOLEAN

\* The closing marks the controller means to step over (pending_paired_closings_)
\* are, innermost first, the text right of the caret: stepping over one never
\* skips text of the user's own.
PendingAreRight == focused => IsPrefix(Reverse(ctl.pending), doc.right)

\* The formatter writes an inner book-title mark only while an outer one it
\* paired is still open around the caret.
NestedMarkIsInside ==
    focused /\ ctl.opt.paired /\ ctl.fmt.nest > 0 => "rtitle" \in Range(doc.right)

\* What the client draws (preedit, candidate table, panel entries) is what the
\* controller has, after every handler, the ones that commit nothing included.
ShownIsComposed == focused => shown = Drawn(ctl, Panel(ctl))

\* Replacing a repeated smart mark by its Chinese form deletes that mark and
\* nothing else, even when the application changed the text before the caret.
OnlyTheMarkIsErased == ~doc.lost

\* Releasing a modifier switches the language only when this context saw it
\* pressed with neither Ctrl nor Alt besides it, and saw no key pressed in between
\* (IBusModeToggleTracker::observe, process_key_event). Shift may have been down
\* before Ctrl: see ToggleNeedsLoneTap.
ToggleNeedsFreshTap ==
    [][focused /\ focused' /\ ctl'.mode # ctl.mode
          => \A m \in held \ held' : tap.key = m /\ tap.with \subseteq {"Shift"}]_vars

\* What IBusKeyMapper.h:32 claims: Shift and Ctrl toggle only when the key was
\* pressed and released alone.
ToggleNeedsLoneTap ==
    [][focused /\ focused' /\ ctl'.mode # ctl.mode
          => \A m \in held \ held' : tap = [key |-> m, with |-> {}]]_vars
==============================================================================
