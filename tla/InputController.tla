--------------------------- MODULE InputController ---------------------------
(***************************************************************************)
(* src/src/InputController.cpp: what one call of the controller does. A    *)
(* controller is a record; every operation maps it to the set of results   *)
(* it may return, because the candidate engine behind it (Session, an      *)
(* external library) is a choice over what its answers may be. A result is *)
(* the controller after the call together with the ControllerResult: was   *)
(* the key handled, the text to commit, characters to delete before the    *)
(* caret and caret steps to the left and to the right.                     *)
(*                                                                         *)
(* Online request generations, which every handled mutation renews, are in *)
(* OnlineEngine.                                                           *)
(***************************************************************************)
EXTENDS TextTransform, Sequences

CONSTANTS MaxPreedit,       \* preedits told apart: 1..MaxPreedit
          LocalModes,       \* local input modes in use, "None" included
          CandidateCounts   \* candidate list lengths the session may offer

ASSUME SessionAssumption == MaxPreedit \in Nat /\ CandidateCounts \subseteq Nat

-----------------------------------------------------------------------------
(* The session: an external engine. A composition has a preedit, a local   *)
(* mode entered by its prefix and a number of candidates.                  *)

Nothing == [pre |-> 0, local |-> "None", n |-> 0]
Compositions == [pre : 1..MaxPreedit, local : LocalModes, n : CandidateCounts]

Answer(s, text) == [comp |-> s, handled |-> TRUE, text |-> text]
Refused(s) == [comp |-> s, handled |-> FALSE, text |-> <<>>]
IsComposing(s) == s.pre > 0

\* Text the session commits: nothing, Chinese, or the letters that were typed.
Texts == {<<>>, <<"han">>, <<"a">>}

\* A character extends the composition, perhaps committing a full code first,
\* or is refused.
SessionCharacter(s) ==
    {Refused(s)} \cup {Answer(Nothing, <<"han">>)}
    \cup {Answer(t, x) : t \in {t \in Compositions : IsComposing(s) => t.local = s.local},
                         x \in {<<>>, <<"han">>}}

\* Selecting commits the candidate and may leave the rest of the input composed.
SessionSelect(s, i) ==
    IF i >= s.n THEN {Refused(s)}
    ELSE {Answer(t, x) : t \in {Nothing} \cup {t \in Compositions : t.local = s.local},
                         x \in Texts \ {<<>>}}

\* finish, CommitRaw, CommitCandidate and Cancel end the composition.
SessionEnd(s, texts) ==
    IF IsComposing(s) THEN {Answer(Nothing, x) : x \in texts} ELSE {Refused(s)}

SessionBackspace(s) ==
    IF IsComposing(s)
    THEN {Answer(t, <<>>) : t \in {Nothing} \cup {t \in Compositions : t.local = s.local}}
    ELSE {Refused(s)}

-----------------------------------------------------------------------------
(* Results and the helpers every operation ends in.                        *)

Result(c, handled, text) ==
    [c |-> c, handled |-> handled, commit |-> text, del |-> 0, left |-> 0, right |-> 0]

Composing(c) == IsComposing(c.comp)

NoHistory == [key |-> "", recent |-> FALSE]
ClearHistory(c) == [c EXCEPT !.hist = NoHistory]

\* Mutant: the highlight stays where it was.
MutationKeepingHighlight(c, a) == Result([c EXCEPT !.comp = a.comp], a.handled, a.text)

\* finish_composition_mutation: the new snapshot; a handled answer moves the
\* highlight back to the first candidate.
Mutation(c, a) ==
    Result([c EXCEPT !.comp = a.comp, !.high = IF a.handled THEN 0 ELSE @], a.handled, a.text)

Mutations(c, answers) == {Mutation(c, a) : a \in answers}

FinishComposition(c) == Mutations(c, SessionEnd(c.comp, Texts))

\* Mutants: a context change keeps the closing marks, or the open book titles.
InvalidateKeepingPending(c) == [c EXCEPT !.hist = NoHistory, !.fmt = ResetFormatter]
InvalidateKeepingNesting(c) == [c EXCEPT !.hist = NoHistory, !.pending = <<>>]

\* Nothing guarantees the closing marks once the caret moved or the client changed.
InvalidateContext(c) == [c EXCEPT !.hist = NoHistory, !.pending = <<>>, !.fmt = ResetFormatter]

Reset(c) == {InvalidateContext(r.c) : r \in Mutations(c, SessionEnd(c.comp, {<<>>}))}

-----------------------------------------------------------------------------
(* Candidates.                                                             *)

PageStart(c) == (c.high \div c.opt.page_size) * c.opt.page_size

SelectCandidate(c, i) == Mutations(c, SessionSelect(c.comp, i))

SelectPageCandidate(c, i) ==
    IF ~Composing(c) \/ i >= c.opt.page_size THEN {Result(c, FALSE, <<>>)}
    ELSE SelectCandidate(c, PageStart(c) + i)

CommitHighlighted(c) ==
    IF c.comp.n = 0 THEN Mutations(c, SessionEnd(c.comp, Texts)) ELSE SelectCandidate(c, c.high)

\* move_cursor (step 1) and move_page (step page_size), clamped to the list.
Move(c, step, forward) ==
    LET last == c.comp.n - 1
    IN IF ~Composing(c) \/ c.comp.n = 0 THEN {Result(c, FALSE, <<>>)}
       ELSE {Result([c EXCEPT !.high = IF forward THEN (IF @ + step > last THEN last ELSE @ + step)
                                       ELSE (IF @ > step THEN @ - step ELSE 0)], TRUE, <<>>)}

MovePage(c, forward) == Move(c, c.opt.page_size, forward)

\* apply_online_candidate: the merged list may be longer or shorter.
ApplyOnline(c, n) ==
    [c EXCEPT !.comp.n = n, !.high = IF n # c.comp.n /\ n > 0 /\ @ > n - 1 THEN n - 1 ELSE @]

-----------------------------------------------------------------------------
(* Modes.                                                                  *)

Flip(x, a, b) == IF x = a THEN b ELSE a

SetPunctuationMode(c, m) == Result([ClearHistory(c) EXCEPT !.punct = m], c.punct # m, <<>>)

SetCharacterWidth(c, w) == Result([ClearHistory(c) EXCEPT !.width = w], c.width # w, <<>>)

\* apply_punctuation_lock: held, or following the language.
ApplyLock(c) ==
    SetPunctuationMode(c, CASE c.opt.lock = "Chinese" -> "Chinese"
                            [] c.opt.lock = "English" -> "English"
                            [] c.opt.lock = "Follow" -> IF c.mode = "Ime" THEN "Chinese" ELSE "English").c

SetMode(c0, m) ==
    LET c == ClearHistory(c0)
    IN IF c.mode = m THEN {Result(c, FALSE, <<>>)}
       ELSE {Result(ApplyLock([r.c EXCEPT !.english = FALSE, !.mode = m, !.high = 0]), TRUE, r.commit)
             : r \in IF m = "Direct" THEN FinishComposition(c) ELSE {Result(c, FALSE, <<>>)}}

ToggleMode(c) == SetMode(c, Flip(c.mode, "Ime", "Direct"))

\* toggle_dedicated_english_mode: inert in Direct mode; the session drops its
\* composition with the flag, so the text is committed first.
ToggleEnglish(c0) ==
    LET c == ClearHistory(c0)
    IN IF c.mode # "Ime" THEN {Result(c, TRUE, <<>>)}
       ELSE {Result([r.c EXCEPT !.english = ~@, !.high = 0], TRUE, r.commit) : r \in FinishComposition(c)}

SwitchScheme(c0, s) ==
    LET c == ClearHistory(c0)
    IN IF c.scheme = s /\ c.comp.local = "None" THEN {Result(c, FALSE, <<>>)}
       ELSE {Result([r.c EXCEPT !.english = FALSE, !.scheme = s, !.high = 0], TRUE, r.commit)
             : r \in FinishComposition(c)}

-----------------------------------------------------------------------------
(* Punctuation.                                                            *)

\* The character before the mark: the last one just committed when there is
\* one (Chinese text ends in no ASCII character), else what the client reports.
Preceding(text, prev) ==
    IF text = <<>> THEN prev ELSE IF text[Len(text)] = "a" THEN "a" ELSE "none"

\* Mutant: whatever is before the caret is taken for the mark.
ReplacesUnseen(c, a, prev) ==
    /\ c.punct = "Chinese" /\ c.opt.smart /\ c.opt.repeat
    /\ c.hist.key = a /\ c.hist.recent

\* can_replace_recent_ascii without a composition: the same smart mark again,
\* within two seconds, and still before the caret.
Replaces(c, a, prev) ==
    /\ c.punct = "Chinese" /\ c.opt.smart /\ c.opt.repeat
    /\ c.hist.key = a /\ c.hist.recent
    /\ prev = a

\* commit_punctuation after finish_composition returned f: c is the controller
\* before it, a the key, prev the character before the caret.
Punctuate(c, f, a, prev0) ==
    LET d == f.c
        had == Composing(c)
        prev == Preceding(f.commit, prev0)
        chinese == d.punct = "Chinese"
        zh == Chinese(d.fmt, a)
        replaces == ~had /\ Replaces(d, a, prev) /\ zh.mark # ""
        keep == chinese /\ IsPunctuation(a) /\ d.opt.smart /\ KeepAscii(a, prev)
        wide == ~had /\ d.width = "Full"
        formatted == chinese /\ IsPunctuation(a) /\ ~keep
        mark == CASE keep -> a
                  [] formatted -> IF wide /\ zh.mark = a THEN FullWidth(a) ELSE zh.mark
                  [] OTHER -> IF wide THEN FullWidth(a) ELSE IF had THEN a ELSE ""
        paired == d.opt.paired /\ chinese
        shown == CASE paired /\ a = "quot" /\ mark = "rdquo" -> "ldquo"
                   [] paired /\ a = "apos" /\ mark = "rsquo" -> "lsquo"
                   [] OTHER -> mark
        closing == PairedClosing(shown)
        e == [ClearHistory(d) EXCEPT !.fmt = IF formatted THEN zh.fmt ELSE @]
        n == Len(d.pending)
    IN CASE replaces -> [Result([e EXCEPT !.fmt = zh.fmt], TRUE, <<zh.mark>>) EXCEPT !.del = 1]
         [] ~replaces /\ mark = "" -> [f EXCEPT !.c = e]
         [] ~replaces /\ mark # "" /\ paired /\ closing # "" ->
              [Result([e EXCEPT !.pending = Append(@, closing)], TRUE, f.commit \o <<shown, closing>>)
                 EXCEPT !.left = 1]
         [] ~replaces /\ mark # "" /\ paired /\ closing = "" /\ n > 0 /\ d.pending[n] = shown ->
              [Result([e EXCEPT !.pending = SubSeq(@, 1, n - 1)], TRUE, f.commit) EXCEPT !.right = 1]
         [] OTHER ->
              Result([e EXCEPT !.hist = IF keep THEN [key |-> a, recent |-> TRUE] ELSE NoHistory],
                     TRUE, f.commit \o <<shown>>)

CommitPunctuation(c, a, prev) == {Punctuate(c, f, a, prev) : f \in FinishComposition(c)}

CommitFullWidth(c) ==
    {IF c.width = "Full" THEN Result(c, TRUE, <<"wide">>) ELSE Result(c, FALSE, <<>>)}

-----------------------------------------------------------------------------
(* handle_key. An event is [key, char, digit, shift, prev]; char and digit *)
(* are meaningful for the keys that carry them.                            *)

ShiftedDigits == <<"!", "@", "#", "$", "%", "^", "&", "*", "(">>
ShiftedDigit(a) == {i \in 1..9 : ShiftedDigits[i] = a}

\* The keys that turn the page while composing, and the forward ones among them.
PageKeys(c) == {"-", "_", "=", "+"} \cup (IF c.opt.bracket_paging THEN {"[", "]"} ELSE {})
               \cup (IF c.opt.comma_period_paging THEN {",", "."} ELSE {})
ForwardKeys == {"]", "=", "+", "."}

\* The switch after the one for Ime mode: what Direct mode does with every key.
DirectKey(c, e) ==
    CASE e.key \in {"Character", "Space", "Digit"} -> CommitFullWidth(c)
      [] e.key = "Punctuation" -> CommitPunctuation(c, e.char, e.prev)
      [] OTHER -> {Result(c, FALSE, <<>>)}

ImeCharacter(c, e) ==
    UNION {IF a.handled \/ IsComposing(a.comp) THEN {Mutation(c, a)} ELSE DirectKey(c, e)
           : a \in SessionCharacter(c.comp)}

LocalPunctuation(c, e) ==
    IF e.shift /\ ShiftedDigit(e.char) # {}
    THEN UNION {SelectPageCandidate(c, i - 1) : i \in ShiftedDigit(e.char)}
    ELSE IF c.comp.local = "Temporary" /\ e.char \in PageKeys(c)
    THEN MovePage(c, e.char \in ForwardKeys)
    ELSE UNION {IF a.handled THEN {Mutation(c, a)} ELSE CommitPunctuation(c, e.char, e.prev)
                : a \in SessionCharacter(c.comp)}

ComposingPunctuation(c, e) ==
    CASE e.char = "apos" -> Mutations(c, SessionCharacter(c.comp))
      [] e.char \in PageKeys(c) -> MovePage(c, e.char \in ForwardKeys)
      [] c.opt.word_to_character /\ ~c.opt.bracket_paging /\ e.char \in {"[", "]"} ->
           UNION {IF a.handled THEN {Mutation(c, a)} ELSE CommitPunctuation(c, e.char, e.prev)
                  : a \in {Refused(c.comp)} \cup SessionSelect(c.comp, c.high)}
      [] OTHER -> CommitPunctuation(c, e.char, e.prev)

ImePunctuation(c, e) ==
    CASE c.comp.local # "None" -> LocalPunctuation(c, e)
      [] c.comp.local = "None" /\ Composing(c) -> ComposingPunctuation(c, e)
      [] OTHER -> CommitPunctuation(c, e.char, e.prev)

ImeDigit(c, e) ==
    CASE c.comp.local = "Unicode" /\ ~e.shift -> Mutations(c, SessionCharacter(c.comp))
      [] ~Composing(c) -> DirectKey(c, e)
      [] e.digit = 0 -> {Result(c, FALSE, <<>>)}
      [] e.digit > c.opt.page_size \/ PageStart(c) + e.digit - 1 >= c.comp.n -> {Result(c, TRUE, <<>>)}
      [] OTHER -> SelectCandidate(c, PageStart(c) + e.digit - 1)

ImeKey(c, e) ==
    CASE e.key = "Character" -> ImeCharacter(c, e)
      [] e.key = "Punctuation" -> ImePunctuation(c, e)
      [] e.key = "Backspace" -> Mutations(c, SessionBackspace(c.comp))
      [] e.key = "Enter" -> Mutations(c, SessionEnd(c.comp, {<<>>, <<"a">>}))
      [] e.key = "Escape" -> Mutations(c, SessionEnd(c.comp, {<<>>}))
      [] e.key = "Space" -> IF Composing(c) THEN CommitHighlighted(c) ELSE DirectKey(c, e)
      [] e.key = "Digit" -> ImeDigit(c, e)
      [] e.key \in {"Up", "Down"} -> Move(c, 1, e.key = "Down")
      [] e.key \in {"PageUp", "PageDown"} -> MovePage(c, e.key = "PageDown")

HandleKey(c0, e) ==
    LET c == IF e.key = "Punctuation" /\ e.char = c0.hist.key THEN c0 ELSE ClearHistory(c0)
    IN CASE e.key = "TogglePunctuation" -> {SetPunctuationMode(c, Flip(c.punct, "Chinese", "English"))}
         [] e.key = "ToggleWidth" -> {SetCharacterWidth(c, Flip(c.width, "Half", "Full"))}
         [] e.key = "ToggleEnglish" -> ToggleEnglish(c)
         [] OTHER -> IF c.mode = "Ime" THEN ImeKey(c, e) ELSE DirectKey(c, e)

\* handle_key for a host shortcut: ends the composition and is never handled.
HostShortcut(c) ==
    {[r EXCEPT !.c = InvalidateContext(@), !.handled = FALSE] : r \in FinishComposition(ClearHistory(c))}

-----------------------------------------------------------------------------
\* The constructor: in Ime mode, with the persisted punctuation and width.
NewController(opt, saved) ==
    [comp |-> Nothing, high |-> 0, mode |-> "Ime", punct |-> saved.punct, width |-> saved.width,
     english |-> FALSE, scheme |-> saved.scheme, fmt |-> ResetFormatter, pending |-> <<>>,
     hist |-> NoHistory, opt |-> opt]

\* create_controller sets the mode, then the lock; Follow recomputes the
\* punctuation from the language, so the persisted one is put back.
CreateController(opt, saved) ==
    LET locked == ApplyLock([NewController(opt, saved) EXCEPT !.mode = saved.mode])
    IN IF opt.lock = "Follow" THEN SetPunctuationMode(locked, saved.punct).c ELSE locked
==============================================================================
