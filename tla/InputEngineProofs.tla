------------------------- MODULE InputEngineProofs -------------------------
(***************************************************************************)
(* The properties of InputEngine for every keyboard, option file, session  *)
(* and bound: the invariant its handlers keep, built from what each        *)
(* operation of the controller promises about its result.                  *)
(***************************************************************************)
EXTENDS InputEngine, TLAPS, SequenceTheorems

-----------------------------------------------------------------------------
(* Punctuation marks (TextTransform).                                      *)

\* The closing marks commit_punctuation may leave right of the caret.
Closers == {"rdquo", "rsquo", "rbracket", "}", "rtitle", "rangle", "rparen"}

\* Every opening mark closes with one of them (paired_closing).
LEMMA ClosingOf ==
    ASSUME NEW m \in Openings
    PROVE  Closings[m] \in Closers
  BY DEF Openings, Closings, Closers

\* ... and they are exactly the values of Closings.
LEMMA ClosersAreRange == Range(Closings) = Closers
  <1>1. DOMAIN Closings = Openings
    BY DEF Closings
  <1>2. ASSUME NEW x \in Range(Closings) PROVE x \in Closers
    BY <1>1, <1>2, ClosingOf DEF Range
  <1>3. ASSUME NEW x \in Closers PROVE \E m \in Openings : Closings[m] = x
    BY <1>3 DEF Closers, Openings, Closings
  <1> QED BY <1>1, <1>2, <1>3 DEF Range

\* The formatter's states, with any number of open book titles.
Formats == [dq : BOOLEAN, sq : BOOLEAN, nest : Nat]

\* The marks chinese() writes.
ZhMarks ==
    {"middot", "exclaim", "yen", "ellipsis", "lparen", "rparen", "dash", "lbracket", "rbracket",
     "enum", "semicolon", "colon", "comma", "stop", "question", "ldquo", "rdquo", "lsquo", "rsquo",
     "ltitle", "langle", "rtitle", "rangle"} \cup PassThrough

\* A mark with one Chinese form gets a form, and never the closing book title.
LEMMA FixedMarks ==
    ASSUME NEW a \in Fixed
    PROVE  FixedMark[a] \in ZhMarks \ {"rtitle", ""}
  BY DEF Fixed, FixedMark, ZhMarks, PassThrough

\* chinese() passes these marks through and leaves the formatter alone.
LEMMA ChinesePass ==
    ASSUME NEW f, NEW a \in PassThrough
    PROVE  Chinese(f, a) = [mark |-> a, fmt |-> f]
  BY Zenon DEF Chinese, Fixed, PassThrough

\* chinese() writes the one form of these marks and leaves the formatter alone.
LEMMA ChineseFixed ==
    ASSUME NEW f, NEW a \in Fixed
    PROVE  Chinese(f, a) = [mark |-> FixedMark[a], fmt |-> f]
  BY Zenon DEF Chinese, Fixed, PassThrough

\* What chinese() answers: a known mark has a form; a closing book title leaves no
\* title open; a title is open afterwards only when one was before or this mark opens
\* one; and no other mark moves the formatter.
LEMMA ChineseAnswer ==
    ASSUME NEW f \in Formats, NEW a, NEW z, z = Chinese(f, a)
    PROVE  /\ z.fmt \in Formats
           /\ z.mark \in ZhMarks \cup {""}
           /\ IsPunctuation(a) => z.mark # ""
           /\ z.mark = "rtitle" => z.fmt.nest = 0
           /\ z.fmt.nest > 0 => f.nest > 0 \/ z.mark = "ltitle"
           /\ ~IsPunctuation(a) \/ a \in SmartMarks => z.fmt = f
  <1>1. CASE a = "quot"
    <2>1. z = [mark |-> IF f.dq THEN "ldquo" ELSE "rdquo", fmt |-> [f EXCEPT !.dq = ~@]]
      BY <1>1, Zenon DEF Chinese, Fixed, PassThrough
    <2>2. z.mark \in ZhMarks /\ z.mark # ""
      BY <2>1 DEF ZhMarks
    <2>3. z.fmt \in Formats
      <3>1. z.fmt = [f EXCEPT !.dq = ~@]
        BY <2>1
      <3> QED BY <3>1 DEF Formats
    <2>4. z.mark = "rtitle" => z.fmt.nest = 0
      BY <2>1 DEF Formats
    <2>5. z.fmt.nest > 0 => f.nest > 0 \/ z.mark = "ltitle"
      BY <2>1 DEF Formats
    <2>6. IsPunctuation(a) /\ a \notin SmartMarks
      BY <1>1 DEF IsPunctuation, Quotes, SmartMarks
    <2> QED BY <2>2, <2>3, <2>4, <2>5, <2>6
  <1>2. CASE a = "apos"
    <2>1. z = [mark |-> IF f.sq THEN "lsquo" ELSE "rsquo", fmt |-> [f EXCEPT !.sq = ~@]]
      BY <1>2, Zenon DEF Chinese, Fixed, PassThrough
    <2>2. z.mark \in ZhMarks /\ z.mark # ""
      BY <2>1 DEF ZhMarks
    <2>3. z.fmt \in Formats
      <3>1. z.fmt = [f EXCEPT !.sq = ~@]
        BY <2>1
      <3> QED BY <3>1 DEF Formats
    <2>4. z.mark = "rtitle" => z.fmt.nest = 0
      BY <2>1 DEF Formats
    <2>5. z.fmt.nest > 0 => f.nest > 0 \/ z.mark = "ltitle"
      BY <2>1 DEF Formats
    <2>6. IsPunctuation(a) /\ a \notin SmartMarks
      BY <1>2 DEF IsPunctuation, Quotes, SmartMarks
    <2> QED BY <2>2, <2>3, <2>4, <2>5, <2>6
  <1>3. CASE a = "<"
    <2>1. z = [mark |-> IF f.nest = 0 THEN "ltitle" ELSE "langle", fmt |-> [f EXCEPT !.nest = @ + 1]]
      BY <1>3, Zenon DEF Chinese, Fixed, PassThrough
    <2>2. z.mark \in ZhMarks /\ z.mark # ""
      BY <2>1 DEF ZhMarks
    <2>3. z.fmt \in Formats
      BY <2>1 DEF Formats
    <2>4. z.mark = "rtitle" => z.fmt.nest = 0
      BY <2>1 DEF Formats
    <2>5. z.fmt.nest > 0 => f.nest > 0 \/ z.mark = "ltitle"
      BY <2>1 DEF Formats
    <2>6. IsPunctuation(a) /\ a \notin SmartMarks
      BY <1>3 DEF IsPunctuation, Quotes, SmartMarks
    <2> QED BY <2>2, <2>3, <2>4, <2>5, <2>6
  <1>4. CASE a = ">"
    <2>1. z = [mark |-> IF (IF f.nest > 0 THEN f.nest - 1 ELSE 0) = 0 THEN "rtitle" ELSE "rangle",
               fmt |-> [f EXCEPT !.nest = IF f.nest > 0 THEN f.nest - 1 ELSE 0]]
      BY <1>4, Zenon DEF Chinese, Fixed, PassThrough
    <2>2. z.mark \in ZhMarks /\ z.mark # ""
      BY <2>1 DEF ZhMarks
    <2>3. z.fmt \in Formats
      BY <2>1 DEF Formats
    <2>4. z.mark = "rtitle" => z.fmt.nest = 0
      BY <2>1 DEF Formats
    <2>5. z.fmt.nest > 0 => f.nest > 0 \/ z.mark = "ltitle"
      BY <2>1 DEF Formats
    <2>6. IsPunctuation(a) /\ a \notin SmartMarks
      BY <1>4 DEF IsPunctuation, Quotes, SmartMarks
    <2> QED BY <2>2, <2>3, <2>4, <2>5, <2>6
  <1>5. CASE a \in PassThrough
    <2>1. z.fmt = f /\ z.mark = a
      BY <1>5, ChinesePass
    <2>2. a \in ZhMarks /\ a # "" /\ a # "rtitle"
      BY <1>5 DEF ZhMarks, PassThrough
    <2> QED BY <2>1, <2>2
  <1>6. CASE a \in Fixed
    <2>1. z.fmt = f /\ z.mark = FixedMark[a]
      BY <1>6, ChineseFixed
    <2> QED BY <1>6, <2>1, FixedMarks
  <1>7. CASE ~IsPunctuation(a)
    <2>1. z.fmt = f /\ z.mark = ""
      BY <1>7, Zenon DEF Chinese, IsPunctuation, Fixed, PassThrough, Quotes
    <2> QED BY <1>7, <2>1
  <1> QED BY <1>1, <1>2, <1>3, <1>4, <1>5, <1>6, <1>7 DEF IsPunctuation, Quotes

\* The Chinese form of a smart mark does not depend on what was typed before it.
LEMMA SmartForm ==
    ASSUME NEW f, NEW g, NEW a \in SmartMarks
    PROVE  Chinese(f, a).mark = Chinese(g, a).mark
  <1>1. a \in Fixed
    BY DEF SmartMarks, Fixed
  <1> QED BY <1>1, ChineseFixed

-----------------------------------------------------------------------------
(* Controllers and results (InputController).                              *)

\* The smart-mark history.
Histories == [key : SmartMarks \cup {""}, recent : BOOLEAN]

\* The controllers the operations return.
Controllers ==
    [comp : Compositions \cup {Nothing}, high : Nat, mode : {"Ime", "Direct"},
     punct : {"Chinese", "English"}, width : {"Half", "Full"}, english : BOOLEAN,
     scheme : Schemes, fmt : Formats, pending : Seq(Closers), hist : Histories, opt : Options]

\* The highlight is a candidate of the list, or the first of none.
Fits(c) == IF c.comp.n = 0 THEN c.high = 0 ELSE c.high < c.comp.n

\* What only punctuation and a context change touch: closing marks, formatter, options.
Kept(c, d) == d.opt = c.opt /\ d.pending = c.pending /\ d.fmt = c.fmt

\* The session counts its candidates and its preedit.
LEMMA CandidatesAreCounted ==
    ASSUME NEW s \in Compositions \cup {Nothing}
    PROVE  s.n \in Nat /\ s.pre \in Nat
  <1>1. CASE s = Nothing
    BY <1>1 DEF Nothing
  <1>2. CASE s \in Compositions
    <2>1. s.n \in CandidateCounts
      BY <1>2 DEF Compositions
    <2>2. s.pre \in 1..MaxPreedit
      BY <1>2 DEF Compositions
    <2>3. s.n \in Nat
      BY <2>1, SessionAssumption
    <2>4. s.pre \in Nat
      BY <2>2, SessionAssumption
    <2> QED BY <2>3, <2>4
  <1> QED BY <1>1, <1>2

\* Setting the history changes nothing else.
LEMMA SetHistory ==
    ASSUME NEW c \in Controllers, NEW h \in Histories,
           NEW d, d = [c EXCEPT !.hist = h]
    PROVE  /\ d \in Controllers
           /\ Kept(c, d)
           /\ Panel(d) = Panel(c)
           /\ d.comp = c.comp
           /\ d.high = c.high
       /\ d.english = c.english /\ d.hist = h
  BY DEF Controllers, Kept, Panel

\* What a result may commit, piece by piece.
Words == {"han", "a", "wide"} \cup ZhMarks \cup Marks

\* Texts made of such pieces.
Lines == Seq(Words)

\* The results the operations return.
Results == [c : Controllers, handled : BOOLEAN, commit : Lines, del : Nat, left : Nat, right : Nat]

\* A result that neither deletes nor moves the caret, and keeps what Kept names.
Steady(c, r) == /\ r \in Results /\ Fits(r.c) /\ Kept(c, r.c)
                /\ r.del = 0 /\ r.left = 0 /\ r.right = 0

\* ... and the panel's entries too.
Quiet(c, r) == Steady(c, r) /\ Panel(r.c) = Panel(c)

\* What the session commits is such a text.
LEMMA TextsAreLines == Texts \subseteq Lines
  <1>1. "han" \in Words /\ "a" \in Words
    BY DEF Words
  <1>2. <<>> \in Seq(Words)
    OBVIOUS
  <1>3. <<"han">> \in Seq(Words)
    BY <1>1
  <1>4. <<"a">> \in Seq(Words)
    BY <1>1
  <1> QED BY <1>2, <1>3, <1>4 DEF Texts, Lines

\* Result puts its arguments together, without deletion or caret steps.
LEMMA ResultOf ==
    ASSUME NEW d \in Controllers, NEW h \in BOOLEAN, NEW t \in Lines, NEW r, r = Result(d, h, t)
    PROVE  /\ r \in Results /\ r.c = d /\ r.handled = h /\ r.commit = t
           /\ r.del = 0 /\ r.left = 0 /\ r.right = 0
  BY DEF Result, Results

\* An answer of the session s was asked for: refused, it leaves s as it was.
IsAnswer(a, s) ==
    /\ a.comp \in Compositions \cup {Nothing}
    /\ a.handled \in BOOLEAN
    /\ a.text \in Texts
    /\ ~a.handled => a.comp = s

\* A handled answer is one.
LEMMA AnswerOf ==
    ASSUME NEW s, NEW t \in Compositions \cup {Nothing}, NEW x \in Texts
    PROVE  IsAnswer(Answer(t, x), s)
  BY DEF IsAnswer, Answer

\* A refusal is one.
LEMMA RefusedOf ==
    ASSUME NEW s \in Compositions \cup {Nothing}
    PROVE  IsAnswer(Refused(s), s)
  BY DEF IsAnswer, Refused, Texts

\* Typing a character is answered so ...
LEMMA CharacterAnswers ==
    ASSUME NEW s \in Compositions \cup {Nothing}, NEW a \in SessionCharacter(s)
    PROVE  IsAnswer(a, s)
  <1>1. {<<>>, <<"han">>} \subseteq Texts
    BY DEF Texts
  <1> QED BY <1>1, AnswerOf, RefusedOf DEF SessionCharacter

\* ... and so is selecting a candidate ...
LEMMA SelectAnswers ==
    ASSUME NEW s \in Compositions \cup {Nothing}, NEW i, NEW a \in SessionSelect(s, i)
    PROVE  IsAnswer(a, s)
  BY AnswerOf, RefusedOf DEF SessionSelect

\* ... and backspace ...
LEMMA BackspaceAnswers ==
    ASSUME NEW s \in Compositions \cup {Nothing}, NEW a \in SessionBackspace(s)
    PROVE  IsAnswer(a, s)
  <1>1. <<>> \in Texts
    BY DEF Texts
  <1> QED BY <1>1, AnswerOf, RefusedOf DEF SessionBackspace

\* ... and ending the composition, which commits only when there was one and leaves none.
LEMMA EndAnswers ==
    ASSUME NEW s \in Compositions \cup {Nothing}, NEW T \in SUBSET Texts, NEW a \in SessionEnd(s, T)
    PROVE  /\ IsAnswer(a, s)
           /\ (a.text = <<>> \/ IsComposing(s))
           /\ (a.comp = Nothing \/ (~IsComposing(s) /\ a.comp = s))
  <1>1. CASE IsComposing(s)
    <2>1. PICK x \in T : a = Answer(Nothing, x)
      BY <1>1 DEF SessionEnd
    <2>2. IsAnswer(a, s)
      BY <2>1, AnswerOf
    <2>3. a.comp = Nothing
      BY <2>1 DEF Answer
    <2> QED BY <1>1, <2>2, <2>3
  <1>2. CASE ~IsComposing(s)
    BY <1>2, RefusedOf DEF SessionEnd, Refused
  <1> QED BY <1>1, <1>2

\* finish_composition_mutation keeps the highlight inside the new list.
LEMMA MutationIsQuiet ==
    ASSUME NEW c \in Controllers, Fits(c), NEW a, IsAnswer(a, c.comp), NEW r, r = Mutation(c, a)
    PROVE  /\ Quiet(c, r) /\ r.commit = a.text /\ r.handled = a.handled
           /\ r.c.comp = a.comp /\ r.c.hist = c.hist /\ r.c.english = c.english
           /\ ~r.handled => r.c.high = c.high
  <1> DEFINE h == IF a.handled THEN 0 ELSE c.high
  <1>1. h \in Nat
    BY DEF Controllers
  <1>2. a.comp \in Compositions \cup {Nothing} /\ a.handled \in BOOLEAN /\ a.text \in Lines
    BY TextsAreLines DEF IsAnswer
  <1>3. PICK d : d = [c EXCEPT !.comp = a.comp, !.high = h]
    OBVIOUS
  <1>4. d \in Controllers /\ Kept(c, d) /\ Panel(d) = Panel(c) /\ d.comp = a.comp /\ d.high = h
        /\ d.hist = c.hist /\ d.english = c.english
    <2> HIDE DEF h
    <2>1. PICK s \in Compositions \cup {Nothing} : s = a.comp
      BY <1>2
    <2>2. d = [c EXCEPT !.comp = s, !.high = h]
      BY <1>3, <2>1
    <2>3. d \in Controllers /\ Kept(c, d) /\ Panel(d) = Panel(c) /\ d.comp = s /\ d.high = h
          /\ d.hist = c.hist /\ d.english = c.english
      BY <1>1, <2>2 DEF Controllers, Kept, Panel
    <2> QED BY <2>1, <2>3
  <1>5. r = Result(d, a.handled, a.text)
    BY <1>3 DEF Mutation, Controllers
  <1>6. Fits(d)
    BY <1>2, <1>4, CandidatesAreCounted DEF Fits, IsAnswer
  <1> QED BY <1>2, <1>4, <1>5, <1>6, ResultOf DEF Quiet, Steady

\* The same for a set of answers.
LEMMA MutationsAreQuiet ==
    ASSUME NEW c \in Controllers, Fits(c), NEW A, \A a \in A : IsAnswer(a, c.comp),
           NEW r \in Mutations(c, A)
    PROVE  Quiet(c, r) /\ r.c.hist = c.hist /\ r.commit \in Texts
  <1>1. PICK a \in A : r = Mutation(c, a)
    BY DEF Mutations
  <1>2. IsAnswer(a, c.comp)
    BY <1>1
  <1>3. a.text \in Texts
    BY <1>2 DEF IsAnswer
  <1> QED BY <1>1, <1>2, <1>3, MutationIsQuiet

\* A controller's composition is one of the session's.
LEMMA CompositionOf ==
    ASSUME NEW c \in Controllers
    PROVE  c.comp \in Compositions \cup {Nothing}
  BY DEF Controllers

\* Ending the composition leaves nothing composed and commits only composed text.
LEMMA FinishIsQuiet ==
    ASSUME NEW c \in Controllers, Fits(c), NEW T \in SUBSET Texts,
           NEW f \in Mutations(c, SessionEnd(c.comp, T))
    PROVE  /\ Quiet(c, f)
           /\ f.c.hist = c.hist
           /\ f.commit \in Texts
           /\ (f.commit = <<>> \/ Composing(c))
           /\ ~Composing(f.c) /\ f.c.english = c.english
  <1>1. PICK a \in SessionEnd(c.comp, T) : f = Mutation(c, a)
    BY DEF Mutations
  <1>2. /\ IsAnswer(a, c.comp)
        /\ (a.text = <<>> \/ IsComposing(c.comp))
        /\ (a.comp = Nothing \/ (~IsComposing(c.comp) /\ a.comp = c.comp))
    BY <1>1, EndAnswers, CompositionOf
  <1>3. a.text \in Texts
    BY <1>2 DEF IsAnswer
  <1>4. ~IsComposing(a.comp)
    BY <1>2 DEF IsComposing, Nothing
  <1> QED BY <1>1, <1>2, <1>3, <1>4, MutationIsQuiet DEF Composing

\* Forgetting the smart mark changes nothing else.
LEMMA ClearedHistory ==
    ASSUME NEW c \in Controllers, NEW d, d = ClearHistory(c)
    PROVE  /\ d \in Controllers
           /\ Kept(c, d)
           /\ Panel(d) = Panel(c)
           /\ d.comp = c.comp
           /\ d.high = c.high
       /\ (Fits(c) => Fits(d))
  <1>1. NoHistory \in Histories
    BY DEF NoHistory, Histories
  <1> QED BY <1>1, SetHistory DEF ClearHistory, Fits

\* A context change forgets closing marks, open titles and the smart mark, and keeps
\* composition, options and panel.
LEMMA Invalidated ==
    ASSUME NEW c \in Controllers, Fits(c), NEW d, d = InvalidateContext(c)
    PROVE  d \in Controllers /\ Fits(d) /\ Panel(d) = Panel(c) /\ d.comp = c.comp /\ d.high = c.high
       /\ d.opt = c.opt /\ d.pending = <<>> /\ d.fmt.nest = 0 /\ d.hist = NoHistory
  <1>1. NoHistory \in Histories
    BY DEF NoHistory, Histories
  <1>2. ResetFormatter \in Formats /\ ResetFormatter.nest = 0
    BY DEF ResetFormatter, Formats
  <1>3. <<>> \in Seq(Closers)
    OBVIOUS
  <1>4. d = [c EXCEPT !.hist = NoHistory, !.pending = <<>>, !.fmt = ResetFormatter]
    BY DEF InvalidateContext
  <1>5. d \in Controllers /\ d.fmt = ResetFormatter /\ d.pending = <<>>
    BY <1>1, <1>2, <1>3, <1>4 DEF Controllers
  <1>6. /\ Panel(d) = Panel(c)
        /\ d.comp = c.comp
        /\ d.high = c.high
        /\ d.opt = c.opt
        /\ d.hist = NoHistory
    BY <1>4 DEF Controllers, Panel
  <1> QED BY <1>2, <1>5, <1>6 DEF Fits

\* A host shortcut commits the composition and forgets the context.
LEMMA ShortcutResult ==
    ASSUME NEW c \in Controllers, Fits(c), NEW r \in HostShortcut(c)
    PROVE  /\ r \in Results /\ Fits(r.c) /\ Panel(r.c) = Panel(c) /\ r.c.opt = c.opt
           /\ r.c.pending = <<>> /\ r.c.fmt.nest = 0 /\ r.del = 0 /\ r.left = 0 /\ r.right = 0
           /\ ~Composing(r.c)
  <1>1. PICK f \in FinishComposition(ClearHistory(c)) :
            r = [f EXCEPT !.c = InvalidateContext(@), !.handled = FALSE]
    BY DEF HostShortcut
  <1>2. PICK d : d = ClearHistory(c)
    OBVIOUS
  <1>3. d \in Controllers /\ Fits(d) /\ Panel(d) = Panel(c) /\ d.opt = c.opt
    BY <1>2, ClearedHistory DEF Kept
  <1>4. f \in Mutations(d, SessionEnd(d.comp, Texts))
    BY <1>1, <1>2 DEF FinishComposition
  <1>5. Quiet(d, f) /\ ~Composing(f.c)
    BY <1>3, <1>4, FinishIsQuiet
  <1>6. /\ f \in Results
        /\ f.c \in Controllers
        /\ Fits(f.c)
        /\ Panel(f.c) = Panel(d)
        /\ f.c.opt = d.opt
        /\ f.del = 0 /\ f.left = 0 /\ f.right = 0
    BY <1>5 DEF Quiet, Steady, Results, Kept
  <1>7. PICK g : g = InvalidateContext(f.c)
    OBVIOUS
  <1>8. /\ g \in Controllers
        /\ Fits(g)
        /\ Panel(g) = Panel(f.c)
        /\ g.opt = f.c.opt
        /\ g.pending = <<>>
        /\ g.fmt.nest = 0
        /\ g.comp = f.c.comp
    BY <1>6, <1>7, Invalidated
  <1>9. r = [f EXCEPT !.c = g, !.handled = FALSE]
    BY <1>1, <1>6, <1>7 DEF Results
  <1>10. r \in Results /\ r.c = g /\ r.del = 0 /\ r.left = 0 /\ r.right = 0
    BY <1>6, <1>8, <1>9 DEF Results
  <1> QED BY <1>3, <1>5, <1>6, <1>8, <1>10 DEF Composing

-----------------------------------------------------------------------------
(* Candidates and modes.                                                   *)

\* An operation that leaves the controller alone is quiet.
LEMMA UnchangedIsQuiet ==
    ASSUME NEW c \in Controllers, Fits(c), NEW h \in BOOLEAN, NEW t \in Lines,
           NEW r, r = Result(c, h, t)
    PROVE  Quiet(c, r) /\ r.c = c /\ r.handled = h
  BY ResultOf DEF Quiet, Steady, Kept

\* select_candidate is quiet ...
LEMMA SelectIsQuiet ==
    ASSUME NEW c \in Controllers, Fits(c), NEW i, NEW r \in SelectCandidate(c, i)
    PROVE  Quiet(c, r)
  BY SelectAnswers, CompositionOf, MutationsAreQuiet DEF SelectCandidate

\* The empty text is a text.
LEMMA EmptyLine == <<>> \in Lines
  BY DEF Lines

\* ... and so is select_page_candidate ...
LEMMA SelectPageIsQuiet ==
    ASSUME NEW c \in Controllers, Fits(c), NEW i, NEW r \in SelectPageCandidate(c, i)
    PROVE  Quiet(c, r)
  <1>1. CASE r = Result(c, FALSE, <<>>)
    BY <1>1, EmptyLine, UnchangedIsQuiet
  <1>2. CASE r \in SelectCandidate(c, PageStart(c) + i)
    BY <1>2, SelectIsQuiet
  <1> QED BY <1>1, <1>2 DEF SelectPageCandidate

\* ... and commit_highlighted_candidate.
LEMMA HighlightedIsQuiet ==
    ASSUME NEW c \in Controllers, Fits(c), NEW r \in CommitHighlighted(c)
    PROVE  Quiet(c, r)
  <1>1. CASE r \in Mutations(c, SessionEnd(c.comp, Texts))
    BY <1>1, FinishIsQuiet
  <1>2. CASE r \in SelectCandidate(c, c.high)
    BY <1>2, SelectIsQuiet
  <1> QED BY <1>1, <1>2 DEF CommitHighlighted

\* Moving the highlight, clamped, keeps it inside the list; what it does not handle it
\* leaves alone.
LEMMA MoveIsQuiet ==
    ASSUME NEW c \in Controllers, Fits(c), NEW step \in Nat, NEW forward,
           NEW r \in Move(c, step, forward)
    PROVE  Quiet(c, r) /\ (r.handled \/ r.c = c)
  <1>1. CASE r = Result(c, FALSE, <<>>)
    BY <1>1, EmptyLine, UnchangedIsQuiet
  <1>2. CASE r # Result(c, FALSE, <<>>)
    <2> DEFINE h == IF forward THEN (IF c.high + step > c.comp.n - 1 THEN c.comp.n - 1 ELSE c.high + step)
                    ELSE (IF c.high > step THEN c.high - step ELSE 0)
    <2>1. c.comp.n # 0 /\ r = Result([c EXCEPT !.high = h], TRUE, <<>>)
      BY <1>2 DEF Move, Controllers
    <2>2. c.high \in Nat /\ c.comp.n \in Nat
      BY CompositionOf, CandidatesAreCounted DEF Controllers
    <2>3. c.high < c.comp.n
      BY <2>1 DEF Fits
    <2>4. h \in Nat /\ h < c.comp.n
      BY <2>1, <2>2, <2>3
    <2> HIDE DEF h
    <2>5. PICK d : d = [c EXCEPT !.high = h]
      OBVIOUS
    <2>6. d \in Controllers /\ Kept(c, d) /\ Panel(d) = Panel(c) /\ d.comp = c.comp /\ d.high = h
      BY <2>4, <2>5 DEF Controllers, Kept, Panel
    <2>7. Fits(d)
      BY <2>1, <2>4, <2>6 DEF Fits
    <2>8. r = Result(d, TRUE, <<>>)
      BY <2>1, <2>5
    <2>9. Steady(c, r) /\ r.c = d /\ r.handled = TRUE
      BY <2>6, <2>7, <2>8, EmptyLine DEF Result, Results, Steady
    <2> QED BY <2>6, <2>9 DEF Quiet
  <1> QED BY <1>1, <1>2

\* Setting the punctuation mode is steady and touches no other mode.
LEMMA SetPunctuation ==
    ASSUME NEW c \in Controllers, Fits(c), NEW m \in {"Chinese", "English"},
           NEW r, r = SetPunctuationMode(c, m)
    PROVE  /\ Steady(c, r) /\ r.c.comp = c.comp /\ r.c.high = c.high /\ r.c.mode = c.mode
           /\ r.c.width = c.width /\ r.c.scheme = c.scheme /\ r.c.punct = m
  <1>1. PICK d : d = ClearHistory(c)
    OBVIOUS
  <1>2. d \in Controllers /\ Kept(c, d) /\ Panel(d) = Panel(c) /\ d.comp = c.comp /\ d.high = c.high
    BY <1>1, ClearedHistory
  <1>3. d.mode = c.mode /\ d.width = c.width /\ d.scheme = c.scheme
    BY <1>1 DEF ClearHistory, Controllers
  <1>4. PICK g : g = [d EXCEPT !.punct = m]
    OBVIOUS
  <1>5. g \in Controllers /\ Kept(d, g) /\ g.comp = d.comp /\ g.high = d.high /\ g.mode = d.mode
        /\ g.width = d.width /\ g.scheme = d.scheme /\ g.punct = m
    BY <1>2, <1>4 DEF Controllers, Kept
  <1>6. PICK h \in BOOLEAN : r = Result(g, h, <<>>)
    BY <1>1, <1>4 DEF SetPunctuationMode
  <1>7. Fits(g) /\ Kept(c, g)
    BY <1>2, <1>5 DEF Fits, Kept
  <1> QED BY <1>2, <1>3, <1>5, <1>6, <1>7, EmptyLine, ResultOf DEF Steady

\* Setting the character width is steady.
LEMMA SetWidth ==
    ASSUME NEW c \in Controllers, Fits(c), NEW w \in {"Half", "Full"},
           NEW r, r = SetCharacterWidth(c, w)
    PROVE  Steady(c, r)
  <1>1. PICK d : d = ClearHistory(c)
    OBVIOUS
  <1>2. d \in Controllers /\ Kept(c, d) /\ d.comp = c.comp /\ d.high = c.high
    BY <1>1, ClearedHistory
  <1>3. PICK g : g = [d EXCEPT !.width = w]
    OBVIOUS
  <1>4. g \in Controllers /\ Kept(d, g) /\ g.comp = d.comp /\ g.high = d.high
    BY <1>2, <1>3 DEF Controllers, Kept
  <1>5. PICK h \in BOOLEAN : r = Result(g, h, <<>>)
    BY <1>1, <1>3 DEF SetCharacterWidth
  <1>6. Fits(g) /\ Kept(c, g)
    BY <1>2, <1>4 DEF Fits, Kept
  <1> QED BY <1>4, <1>5, <1>6, EmptyLine, ResultOf DEF Steady

\* apply_punctuation_lock keeps composition and highlight.
LEMMA LockApplied ==
    ASSUME NEW c \in Controllers, Fits(c), NEW d, d = ApplyLock(c)
    PROVE  d \in Controllers /\ Fits(d) /\ Kept(c, d) /\ d.comp = c.comp /\ d.high = c.high
  <1>1. c.opt \in Options
    BY DEF Controllers
  <1>2. c.opt.lock \in {"Chinese", "English", "Follow"}
    BY <1>1, OptionsAssumption
  <1>3. PICK m \in {"Chinese", "English"} : d = SetPunctuationMode(c, m).c
    BY <1>2 DEF ApplyLock
  <1>4. PICK r : r = SetPunctuationMode(c, m)
    OBVIOUS
  <1>5. Steady(c, r) /\ r.c.comp = c.comp /\ r.c.high = c.high
    BY <1>4, SetPunctuation
  <1> QED BY <1>3, <1>4, <1>5 DEF Steady, Results

\* set_mode is steady; unhandled, it only forgets the smart mark.
LEMMA ModeIsSteady ==
    ASSUME NEW c \in Controllers, Fits(c), NEW m \in {"Ime", "Direct"}, NEW r \in SetMode(c, m)
    PROVE  Steady(c, r) /\ (r.handled \/ r.c = ClearHistory(c))
  <1>1. PICK b : b = ClearHistory(c)
    OBVIOUS
  <1>2. b \in Controllers /\ Kept(c, b) /\ Fits(b)
    BY <1>1, ClearedHistory
  <1>3. CASE r = Result(b, FALSE, <<>>)
    <2>1. Steady(c, r) /\ r.c = b
      BY <1>2, <1>3, EmptyLine DEF Result, Results, Steady
    <2> QED BY <1>1, <2>1
  <1>4. CASE r # Result(b, FALSE, <<>>)
    <2>1. PICK f \in (IF m = "Direct" THEN FinishComposition(b) ELSE {Result(b, FALSE, <<>>)}) :
             r = Result(ApplyLock([f.c EXCEPT !.english = FALSE, !.mode = m, !.high = 0]), TRUE, f.commit)
      BY <1>1, <1>4 DEF SetMode
    <2>2. Quiet(b, f)
      <3>1. CASE f \in FinishComposition(b)
        BY <1>2, <3>1, FinishIsQuiet DEF FinishComposition
      <3>2. CASE f = Result(b, FALSE, <<>>)
        BY <1>2, <3>2, EmptyLine, UnchangedIsQuiet
      <3> QED BY <2>1, <3>1, <3>2
    <2>3. f.c \in Controllers /\ Kept(b, f.c) /\ f.commit \in Lines
      BY <2>2 DEF Quiet, Steady, Results
    <2>4. PICK g : g = [f.c EXCEPT !.english = FALSE, !.mode = m, !.high = 0]
      OBVIOUS
    <2>5. g \in Controllers /\ Kept(f.c, g) /\ g.high = 0
      BY <2>3, <2>4 DEF Controllers, Kept
    <2>6. Fits(g)
      BY <2>5, CompositionOf, CandidatesAreCounted DEF Fits
    <2>7. PICK k : k = ApplyLock(g)
      OBVIOUS
    <2>8. k \in Controllers /\ Fits(k) /\ Kept(g, k)
      BY <2>5, <2>6, <2>7, LockApplied
    <2>9. r = Result(k, TRUE, f.commit)
      BY <2>1, <2>4, <2>7
    <2>10. Kept(c, k)
      BY <1>2, <2>3, <2>5, <2>8 DEF Kept
    <2> QED BY <2>3, <2>8, <2>9, <2>10 DEF Result, Results, Steady
  <1> QED BY <1>3, <1>4

\* Toggling dedicated English is quiet.
LEMMA EnglishIsQuiet ==
    ASSUME NEW c \in Controllers, Fits(c), NEW r \in ToggleEnglish(c)
    PROVE  Quiet(c, r)
  <1>1. PICK b : b = ClearHistory(c)
    OBVIOUS
  <1>2. b \in Controllers /\ Kept(c, b) /\ Fits(b) /\ Panel(b) = Panel(c)
    BY <1>1, ClearedHistory
  <1>3. CASE r = Result(b, TRUE, <<>>)
    <2>1. Steady(c, r) /\ r.c = b
      BY <1>2, <1>3, EmptyLine DEF Result, Results, Steady
    <2> QED BY <1>2, <2>1 DEF Quiet
  <1>4. CASE r # Result(b, TRUE, <<>>)
    <2>1. PICK f \in FinishComposition(b) :
             r = Result([f.c EXCEPT !.english = ~@, !.high = 0], TRUE, f.commit)
      BY <1>1, <1>4 DEF ToggleEnglish
    <2>2. Quiet(b, f)
      BY <1>2, FinishIsQuiet DEF FinishComposition
    <2>3. f.c \in Controllers /\ Kept(b, f.c) /\ f.commit \in Lines /\ Panel(f.c) = Panel(b)
      BY <2>2 DEF Quiet, Steady, Results
    <2>4. PICK v \in BOOLEAN : v = ~f.c.english
      OBVIOUS
    <2>5. PICK g : g = [f.c EXCEPT !.english = v, !.high = 0]
      OBVIOUS
    <2>6. g \in Controllers /\ Kept(f.c, g) /\ g.high = 0 /\ Panel(g) = Panel(f.c)
      BY <2>3, <2>5 DEF Controllers, Kept, Panel
    <2>7. Fits(g)
      BY <2>6, CompositionOf, CandidatesAreCounted DEF Fits
    <2>8. r = Result(g, TRUE, f.commit)
      BY <2>1, <2>3, <2>4, <2>5 DEF Controllers
    <2>9. Kept(c, g)
      BY <1>2, <2>3, <2>6 DEF Kept
    <2>10. Steady(c, r) /\ r.c = g
      BY <2>3, <2>6, <2>7, <2>8, <2>9 DEF Result, Results, Steady
    <2> QED BY <1>2, <2>3, <2>6, <2>10 DEF Quiet
  <1> QED BY <1>3, <1>4

\* switch_scheme is steady.
LEMMA SchemeIsSteady ==
    ASSUME NEW c \in Controllers, Fits(c), NEW s \in Schemes, NEW r \in SwitchScheme(c, s)
    PROVE  Steady(c, r)
  <1>1. PICK b : b = ClearHistory(c)
    OBVIOUS
  <1>2. b \in Controllers /\ Kept(c, b) /\ Fits(b)
    BY <1>1, ClearedHistory
  <1>3. CASE r = Result(b, FALSE, <<>>)
    BY <1>2, <1>3, EmptyLine DEF Result, Results, Steady
  <1>4. CASE r # Result(b, FALSE, <<>>)
    <2>1. PICK f \in FinishComposition(b) :
             r = Result([f.c EXCEPT !.english = FALSE, !.scheme = s, !.high = 0], TRUE, f.commit)
      BY <1>1, <1>4 DEF SwitchScheme
    <2>2. Quiet(b, f)
      BY <1>2, FinishIsQuiet DEF FinishComposition
    <2>3. f.c \in Controllers /\ Kept(b, f.c) /\ f.commit \in Lines
      BY <2>2 DEF Quiet, Steady, Results
    <2>4. PICK g : g = [f.c EXCEPT !.english = FALSE, !.scheme = s, !.high = 0]
      OBVIOUS
    <2>5. g \in Controllers /\ Kept(f.c, g) /\ g.high = 0
      BY <2>3, <2>4 DEF Controllers, Kept
    <2>6. Fits(g)
      BY <2>5, CompositionOf, CandidatesAreCounted DEF Fits
    <2>7. r = Result(g, TRUE, f.commit)
      BY <2>1, <2>4
    <2>8. Kept(c, g)
      BY <1>2, <2>3, <2>5 DEF Kept
    <2> QED BY <2>3, <2>5, <2>6, <2>7, <2>8 DEF Result, Results, Steady
  <1> QED BY <1>3, <1>4

\* A new controller has its options and nothing pending.
LEMMA NewControllers ==
    ASSUME NEW o \in Options, NEW s \in Persisted, NEW c, c = CreateController(o, s)
    PROVE  c \in Controllers /\ Fits(c) /\ c.pending = <<>> /\ c.fmt.nest = 0 /\ c.opt = o
  <1>1. s \in Saved
    BY PersistedAssumption
  <1>2. PICK a : a = [NewController(o, s) EXCEPT !.mode = s.mode]
    OBVIOUS
  <1>3. NoHistory \in Histories /\ ResetFormatter \in Formats /\ <<>> \in Seq(Closers)
        /\ Nothing.n = 0 /\ ResetFormatter.nest = 0
    BY DEF NoHistory, Histories, ResetFormatter, Formats, Nothing
  <1>4. a = [comp |-> Nothing, high |-> 0, mode |-> s.mode, punct |-> s.punct, width |-> s.width,
             english |-> FALSE, scheme |-> s.scheme, fmt |-> ResetFormatter, pending |-> <<>>,
             hist |-> NoHistory, opt |-> o]
    BY <1>2 DEF NewController
  <1>5. a \in Controllers /\ Fits(a) /\ a.pending = <<>> /\ a.fmt = ResetFormatter /\ a.opt = o
    BY <1>1, <1>3, <1>4 DEF Controllers, Saved, Fits
  <1>6. PICK k : k = ApplyLock(a)
    OBVIOUS
  <1>7. k \in Controllers /\ Fits(k) /\ Kept(a, k)
    BY <1>5, <1>6, LockApplied
  <1>8. PICK m \in {"Chinese", "English"} : m = s.punct
    BY <1>1 DEF Saved
  <1>9. PICK r : r = SetPunctuationMode(k, m)
    OBVIOUS
  <1>10. r.c \in Controllers /\ Fits(r.c) /\ Kept(k, r.c)
    <2>1. Steady(k, r)
      BY <1>7, <1>9, SetPunctuation, Zenon
    <2> QED BY <2>1 DEF Steady, Results
  <1>11. c = k \/ c = r.c
    BY <1>2, <1>6, <1>9, <1>8 DEF CreateController
  <1> QED BY <1>3, <1>5, <1>7, <1>10, <1>11 DEF Kept

-----------------------------------------------------------------------------
(* Punctuation: what a result promises the document.                       *)

\* The formatter counts an open title only while its closing mark is pending.
Nested(c) == c.opt.paired /\ c.fmt.nest > 0 => \E i \in 1..Len(c.pending) : c.pending[i] = "rtitle"

\* The three ways a result moves the caret among closing marks: not at all ...
Plainly(c, r) == r.left = 0 /\ r.right = 0 /\ r.c.pending = c.pending

\* ... into a new pair ...
Opens(c, r) ==
    /\ r.left = 1 /\ r.right = 0 /\ Len(r.commit) >= 2
    /\ r.commit[Len(r.commit)] \in Closers
    /\ r.c.pending = Append(c.pending, r.commit[Len(r.commit)])

\* ... or over the innermost closing mark.
StepsOver(c, r) ==
    /\ r.left = 0 /\ r.right = 1 /\ Len(c.pending) > 0
    /\ r.c.pending = SubSeq(c.pending, 1, Len(c.pending) - 1)

\* What every key's result guarantees, prev being the character reported before the
\* caret: a deletion replaces that very smart mark by its Chinese form, and the pending
\* marks move with the caret.
Sound(c, r, prev) ==
    /\ r \in Results
    /\ Fits(r.c)
    /\ r.c.opt = c.opt
    /\ Nested(c) => Nested(r.c)
    /\ r.del > 0 => prev \in SmartMarks /\ r.commit = <<Chinese(ResetFormatter, prev).mark>>
    /\ Plainly(c, r) \/ Opens(c, r) \/ StepsOver(c, r)

\* A steady result is sound.
LEMMA SteadyIsSound ==
    ASSUME NEW c, NEW r, Steady(c, r), NEW p
    PROVE Sound(c, r, p)
  BY DEF Steady, Sound, Nested, Plainly, Kept

\* commit_punctuation is sound, in each of its five outcomes, and keeps the panel.
LEMMA PunctuateIsSound ==
    ASSUME NEW c \in Controllers, Fits(c), NEW f \in FinishComposition(c), NEW a \in Marks, NEW p,
           NEW r, r = Punctuate(c, f, a, p)
    PROVE  Sound(c, r, p) /\ Panel(r.c) = Panel(c)
  <1> DEFINE d == f.c
             had == Composing(c)
             prev == Preceding(f.commit, p)
             chinese == d.punct = "Chinese"
             zh == Chinese(d.fmt, a)
             replaces == ~had /\ Replaces(d, a, prev) /\ zh.mark # ""
             keep == chinese /\ IsPunctuation(a) /\ d.opt.smart /\ KeepAscii(a, prev)
             wide == ~had /\ d.width = "Full"
             formatted == chinese /\ IsPunctuation(a) /\ ~keep
             mark == CASE keep -> a
                       [] formatted -> IF wide /\ zh.mark = a THEN FullWidth(a) ELSE zh.mark
                       [] OTHER -> IF wide THEN FullWidth(a) ELSE IF had THEN a ELSE ""
             paired == d.opt.paired /\ chinese
             shn == CASE paired /\ a = "quot" /\ mark = "rdquo" -> "ldquo"
                      [] paired /\ a = "apos" /\ mark = "rsquo" -> "lsquo"
                      [] OTHER -> mark
             closing == PairedClosing(shn)
             e == [ClearHistory(d) EXCEPT !.fmt = IF formatted THEN zh.fmt ELSE @]
             n == Len(d.pending)
  <1>1. /\ Quiet(c, f) /\ f.commit \in Texts /\ (f.commit = <<>> \/ had)
    BY FinishIsQuiet DEF FinishComposition
  <1>2. /\ d \in Controllers /\ Fits(d) /\ Kept(c, d) /\ Panel(d) = Panel(c)
        /\ f \in Results /\ f.del = 0 /\ f.left = 0 /\ f.right = 0
        /\ f.commit \in Lines
    BY <1>1 DEF Quiet, Steady, Results
  <1>3. d.fmt \in Formats /\ d.hist \in Histories /\ d.pending \in Seq(Closers)
    BY <1>2 DEF Controllers
  <1>4. /\ zh.fmt \in Formats
        /\ zh.mark \in ZhMarks \cup {""}
        /\ IsPunctuation(a) => zh.mark # ""
        /\ zh.mark = "rtitle" => zh.fmt.nest = 0
        /\ zh.fmt.nest > 0 => d.fmt.nest > 0 \/ zh.mark = "ltitle"
        /\ ~IsPunctuation(a) \/ a \in SmartMarks => zh.fmt = d.fmt
    <2>1. PICK g \in Formats : g = d.fmt
      BY <1>3
    <2>2. PICK z : z = Chinese(g, a)
      OBVIOUS
    <2>3. /\ z.fmt \in Formats
          /\ z.mark \in ZhMarks \cup {""}
          /\ IsPunctuation(a) => z.mark # ""
          /\ z.mark = "rtitle" => z.fmt.nest = 0
          /\ z.fmt.nest > 0 => g.nest > 0 \/ z.mark = "ltitle"
          /\ ~IsPunctuation(a) \/ a \in SmartMarks => z.fmt = g
      BY <2>2, ChineseAnswer
    <2>4. zh = z
      BY <2>1, <2>2
    <2> HIDE DEF zh, d
    <2> QED BY <2>1, <2>3, <2>4
  <1>5. a # "" /\ a # "rtitle" /\ a # "ltitle"
    BY MarksAssumption DEF IsPunctuation, Fixed, PassThrough, Quotes
  <1>6. /\ keep => mark = a
        /\ formatted => mark = (IF wide /\ zh.mark = a THEN "wide" ELSE zh.mark)
        /\ ~keep /\ ~formatted => mark \in {"wide", a, ""}
    <2>1. keep => mark = a
      BY Zenon
    <2>2. formatted => mark = (IF wide /\ zh.mark = a THEN "wide" ELSE zh.mark)
      BY Zenon DEF FullWidth
    <2>3. ASSUME ~keep /\ ~formatted PROVE mark \in {"wide", a, ""}
      <3>1. mark = (IF wide THEN "wide" ELSE IF had THEN a ELSE "")
        BY <2>3, Zenon DEF FullWidth
      <3> HIDE DEF mark, wide, had
      <3> QED BY <3>1
    <2> HIDE DEF mark, wide, formatted, keep, zh
    <2> QED BY <2>1, <2>2, <2>3
  <1>7. /\ paired /\ a = "quot" /\ mark = "rdquo" => shn = "ldquo"
        /\ ~(paired /\ a = "quot" /\ mark = "rdquo") /\ paired /\ a = "apos" /\ mark = "rsquo"
           => shn = "lsquo"
        /\ ~(paired /\ a = "quot" /\ mark = "rdquo") /\ ~(paired /\ a = "apos" /\ mark = "rsquo")
           => shn = mark
    <2> HIDE DEF mark, paired
    <2> QED BY Zenon
  <1>8. keep => a \in SmartMarks
    BY DEF KeepAscii
  <1>9. keep => ~formatted
    OBVIOUS
  <1>10. formatted => IsPunctuation(a)
    OBVIOUS
  <1>11. e = [d EXCEPT !.hist = NoHistory, !.fmt = IF formatted THEN zh.fmt ELSE d.fmt]
    <2> HIDE DEF formatted, zh, d
    <2> QED BY <1>2 DEF ClearHistory, Controllers
  <1>12. closing = PairedClosing(shn)
    OBVIOUS
  <1>13. replaces => r = [Result([e EXCEPT !.fmt = zh.fmt], TRUE, <<zh.mark>>) EXCEPT !.del = 1]
    BY Zenon DEF Punctuate
  <1>14. replaces => ~had /\ d.hist.key = a /\ prev = a /\ zh.mark # ""
    BY DEF Replaces
  <1>15. prev = Preceding(f.commit, p)
    OBVIOUS
  <1>16. zh = Chinese(d.fmt, a)
    OBVIOUS
  <1>17. ~replaces /\ mark = "" => r = [f EXCEPT !.c = e]
    BY Zenon DEF Punctuate
  <1>18. ~replaces /\ mark # "" /\ paired /\ closing # "" =>
           r = [Result([e EXCEPT !.pending = Append(@, closing)], TRUE, f.commit \o <<shn, closing>>)
                 EXCEPT !.left = 1]
    BY Zenon DEF Punctuate
  <1>19. ~replaces /\ mark # "" /\ paired /\ closing = "" /\ n > 0 /\ d.pending[n] = shn =>
           r = [Result([e EXCEPT !.pending = SubSeq(@, 1, n - 1)], TRUE, f.commit) EXCEPT !.right = 1]
    BY Zenon DEF Punctuate
  <1>20. /\ ~replaces /\ mark # ""
         /\ ~(paired /\ closing # "")
         /\ ~(paired /\ closing = "" /\ n > 0 /\ d.pending[n] = shn)
         => r = Result([e EXCEPT !.hist = IF keep THEN [key |-> a, recent |-> TRUE] ELSE NoHistory],
                     TRUE, f.commit \o <<shn>>)
    BY Zenon DEF Punctuate
  <1>21. n = Len(d.pending)
    OBVIOUS
  <1>22. paired => d.opt.paired
    OBVIOUS
  <1>23. d.opt.paired /\ formatted => paired
    OBVIOUS
  <1> HIDE DEF d, had, prev, chinese, zh, replaces, keep, wide, formatted, mark, paired, shn, closing, e, n
  <1>24. /\ formatted => mark # ""
         /\ mark = "rtitle" => formatted /\ zh.fmt.nest = 0
         /\ formatted /\ zh.fmt.nest > 0 => d.fmt.nest > 0 \/ mark = "ltitle"
    BY <1>4, <1>5, <1>6, <1>10
  <1>25. mark \in Words \cup {""}
    BY <1>4, <1>6 DEF Words
  <1>26. /\ shn \in Words \cup {""}
         /\ mark # "" => shn # ""
         /\ shn = "rtitle" => mark = "rtitle"
         /\ mark = "ltitle" => shn = "ltitle"
    BY <1>7, <1>25 DEF Words, ZhMarks
  <1>27. /\ closing # "" => closing \in Closers
         /\ shn = "ltitle" => closing = "rtitle"
    BY <1>12, ClosingOf DEF PairedClosing, Openings, Closings
  <1>28. NoHistory \in Histories
    BY DEF NoHistory, Histories
  <1>29. PICK t \in Formats : t = IF formatted THEN zh.fmt ELSE d.fmt
    BY <1>3, <1>4
  <1>30. e = [d EXCEPT !.hist = NoHistory, !.fmt = t]
    BY <1>11, <1>29
  <1>31. /\ e \in Controllers /\ Panel(e) = Panel(d) /\ e.comp = d.comp /\ e.high = d.high
         /\ e.pending = d.pending /\ e.opt = d.opt /\ e.fmt = t /\ e.hist = NoHistory
    BY <1>2, <1>28, <1>30 DEF Controllers, Panel
  <1>32. Fits(e)
    BY <1>2, <1>31 DEF Fits
  <1>33. Len(d.pending) \in Nat /\ d.pending = c.pending /\ d.opt = c.opt /\ d.fmt = c.fmt
    BY <1>2, <1>3 DEF Kept
  <1>34. CASE replaces
    <2>1. p = a
      BY <1>1, <1>14, <1>15, <1>34 DEF Preceding
    <2>2. a \in SmartMarks
      BY <1>3, <1>5, <1>14, <1>34 DEF Histories
    <2>3. zh.mark = Chinese(ResetFormatter, p).mark
      BY <1>16, <2>1, <2>2, SmartForm
    <2>4. zh.fmt = d.fmt /\ t = d.fmt
      BY <1>4, <1>29, <2>2
    <2>5. zh.mark \in Words
      BY <1>4, <1>14, <1>34 DEF Words
    <2>6. <<zh.mark>> \in Lines
      BY <2>5 DEF Lines
    <2>7. PICK x \in Lines : x = <<zh.mark>>
      BY <2>6
    <2>8. PICK g : g = [e EXCEPT !.fmt = t]
      OBVIOUS
    <2>9. /\ g \in Controllers /\ Panel(g) = Panel(e) /\ g.comp = e.comp /\ g.high = e.high
           /\ g.pending = e.pending /\ g.opt = e.opt /\ g.fmt = t
      BY <1>31, <2>8 DEF Controllers, Panel
    <2>10. PICK y : y = Result(g, TRUE, x)
      OBVIOUS
    <2>11. y \in Results /\ y.c = g /\ y.commit = x /\ y.left = 0 /\ y.right = 0
      BY <2>9, <2>10 DEF Result, Results
    <2>12. r = [y EXCEPT !.del = 1]
      BY <1>13, <1>34, <2>4, <2>7, <2>8, <2>10
    <2>13. r \in Results /\ r.c = g /\ r.commit = x /\ r.left = 0 /\ r.right = 0 /\ r.del = 1
      BY <2>11, <2>12 DEF Results
    <2>14. Nested(c) => Nested(g)
      BY <1>31, <1>33, <2>4, <2>9 DEF Nested
    <2>15. Fits(g)
      BY <1>32, <2>9 DEF Fits
    <2> QED BY <1>2, <1>31, <1>33, <2>1, <2>2, <2>3, <2>7, <2>9, <2>13, <2>14, <2>15 DEF Sound, Plainly
  <1>35. CASE ~replaces /\ mark = ""
    <2>1. r = [f EXCEPT !.c = e]
      BY <1>17, <1>35
    <2>2. ~formatted
      BY <1>24, <1>35
    <2>3. r \in Results /\ r.c = e /\ r.left = 0 /\ r.right = 0 /\ r.del = 0
      BY <1>2, <1>31, <2>1 DEF Results
    <2>4. Nested(c) => Nested(e)
      BY <1>29, <1>31, <1>33, <2>2 DEF Nested
    <2> QED BY <1>2, <1>31, <1>32, <1>33, <2>3, <2>4 DEF Sound, Plainly
  <1>36. CASE ~replaces /\ mark # "" /\ paired /\ closing # ""
    <2>1. closing \in Closers /\ closing \in Words /\ shn \in Words
      BY <1>26, <1>27, <1>36 DEF Closers, Words, ZhMarks, PassThrough
    <2>2. PICK x : x = f.commit \o <<shn, closing>>
      OBVIOUS
    <2>3. x \in Lines /\ Len(x) >= 2 /\ x[Len(x)] = closing
      BY <1>2, <2>1, <2>2 DEF Lines
    <2>4. PICK g : g = [e EXCEPT !.pending = Append(e.pending, closing)]
      OBVIOUS
    <2>5. Append(e.pending, closing) \in Seq(Closers)
      BY <1>3, <1>31, <2>1
    <2>6. /\ g \in Controllers /\ Panel(g) = Panel(e) /\ g.comp = e.comp /\ g.high = e.high
          /\ g.pending = Append(e.pending, closing) /\ g.opt = e.opt /\ g.fmt = e.fmt
      BY <1>31, <2>4, <2>5 DEF Controllers, Panel
    <2>7. r = [Result(g, TRUE, x) EXCEPT !.left = 1]
      BY <1>18, <1>31, <1>36, <2>2, <2>4 DEF Controllers
    <2>8. PICK y : y = Result(g, TRUE, x)
      OBVIOUS
    <2>9. y \in Results /\ y.c = g /\ y.commit = x /\ y.right = 0 /\ y.del = 0
      BY <2>3, <2>6, <2>8 DEF Result, Results
    <2>10. r = [y EXCEPT !.left = 1]
      BY <2>7, <2>8
    <2>11. r \in Results /\ r.c = g /\ r.commit = x /\ r.left = 1 /\ r.right = 0 /\ r.del = 0
      BY <2>10, <2>9 DEF Results
    <2>12. Fits(g)
      BY <1>32, <2>6 DEF Fits
    <2>13. ASSUME Nested(c) PROVE Nested(g)
      <3>1. SUFFICES ASSUME g.opt.paired, g.fmt.nest > 0
                     PROVE  \E i \in 1..Len(g.pending) : g.pending[i] = "rtitle"
        BY DEF Nested
      <3>2. CASE d.fmt.nest > 0
        <4>1. PICK i \in 1..Len(c.pending) : c.pending[i] = "rtitle"
          BY <1>31, <1>33, <2>6, <2>13, <3>1, <3>2 DEF Nested
        <4>2. i \in 1..Len(g.pending) /\ g.pending[i] = "rtitle"
          BY <1>3, <1>31, <1>33, <2>6, <4>1
        <4> QED BY <4>2
      <3>3. CASE ~(d.fmt.nest > 0)
        <4>1. closing = "rtitle"
          BY <1>24, <1>26, <1>27, <1>29, <1>31, <2>6, <3>1, <3>3
        <4>2. Len(g.pending) \in 1..Len(g.pending) /\ g.pending[Len(g.pending)] = "rtitle"
          BY <1>3, <1>31, <2>6, <4>1
        <4> QED BY <4>2
      <3> QED BY <3>2, <3>3
    <2>14. Opens(c, r)
      BY <1>31, <1>33, <2>1, <2>3, <2>6, <2>11 DEF Opens
    <2> QED BY <1>2, <1>31, <1>33, <2>6, <2>11, <2>12, <2>13, <2>14 DEF Sound
  <1>37. CASE ~replaces /\ mark # "" /\ paired /\ closing = "" /\ n > 0 /\ d.pending[n] = shn
    <2>1. PICK k \in Nat : n = k + 1
      <3>1. n \in Nat /\ n > 0
        BY <1>21, <1>33, <1>37
      <3>2. n - 1 \in Nat /\ n = (n - 1) + 1
        BY <3>1
      <3> QED BY <3>2
    <2>2. k = Len(d.pending) - 1 /\ d.pending[k + 1] = shn
      <3>1. k = Len(d.pending) - 1
        BY <1>21, <1>33, <2>1
      <3>2. d.pending[k + 1] = shn
        BY <1>37, <2>1, Zenon
      <3> QED BY <3>1, <3>2
    <2>3. PICK q : q = SubSeq(d.pending, 1, k)
      OBVIOUS
    <2>4. q \in Seq(Closers) /\ Len(q) = k /\ \A i \in 1..k : q[i] = d.pending[i]
      BY <1>3, <2>2, <2>3
    <2>5. PICK g : g = [e EXCEPT !.pending = q]
      OBVIOUS
    <2>6. /\ g \in Controllers /\ Panel(g) = Panel(e) /\ g.comp = e.comp /\ g.high = e.high
          /\ g.pending = q /\ g.opt = e.opt /\ g.fmt = e.fmt
      BY <1>31, <2>4, <2>5 DEF Controllers, Panel
    <2>7. r = [Result(g, TRUE, f.commit) EXCEPT !.right = 1]
      BY <1>19, <1>21, <1>31, <1>37, <2>2, <2>3, <2>5 DEF Controllers
    <2>8. PICK y : y = Result(g, TRUE, f.commit)
      OBVIOUS
    <2>9. y \in Results /\ y.c = g /\ y.left = 0 /\ y.del = 0
      BY <1>2, <2>6, <2>8 DEF Result, Results
    <2>10. r = [y EXCEPT !.right = 1]
      BY <2>7, <2>8
    <2>11. r \in Results /\ r.c = g /\ r.left = 0 /\ r.right = 1 /\ r.del = 0
      BY <2>10, <2>9 DEF Results
    <2>12. Fits(g)
      BY <1>32, <2>6 DEF Fits
    <2>13. ASSUME Nested(c) PROVE Nested(g)
      <3>1. SUFFICES ASSUME g.opt.paired, g.fmt.nest > 0
                     PROVE  \E i \in 1..Len(g.pending) : g.pending[i] = "rtitle"
        BY DEF Nested
      <3>2. shn # "rtitle"
        <4>1. SUFFICES ASSUME shn = "rtitle" PROVE FALSE
          OBVIOUS
        <4>2. formatted /\ zh.fmt.nest = 0
          BY <1>24, <1>26, <4>1
        <4> QED BY <1>29, <1>31, <2>6, <3>1, <4>2
      <3>3. d.fmt.nest > 0
        BY <1>24, <1>26, <1>27, <1>29, <1>31, <1>37, <2>6, <3>1
      <3>4. PICK i \in 1..Len(d.pending) : d.pending[i] = "rtitle"
        BY <1>31, <1>33, <2>6, <2>13, <3>1, <3>3 DEF Nested
      <3>5. i \in 1..k
        BY <1>33, <2>2, <3>2, <3>4
      <3> QED BY <2>4, <2>6, <3>4, <3>5
    <2>14. StepsOver(c, r)
      BY <1>33, <2>2, <2>3, <2>6, <2>11 DEF StepsOver
    <2> QED BY <1>2, <1>31, <1>33, <2>6, <2>11, <2>12, <2>13, <2>14 DEF Sound
  <1>38. CASE /\ ~replaces /\ mark # ""
              /\ ~(paired /\ closing # "")
              /\ ~(paired /\ closing = "" /\ n > 0 /\ d.pending[n] = shn)
    <2>1. PICK h \in Histories : h = IF keep THEN [key |-> a, recent |-> TRUE] ELSE NoHistory
      BY <1>8, <1>28 DEF Histories
    <2>2. PICK x : x = f.commit \o <<shn>>
      OBVIOUS
    <2>3. shn \in Words
      BY <1>26, <1>38
    <2>4. x \in Lines
      BY <1>2, <2>2, <2>3 DEF Lines
    <2>5. PICK g : g = [e EXCEPT !.hist = h]
      OBVIOUS
    <2>6. /\ g \in Controllers /\ Panel(g) = Panel(e) /\ g.comp = e.comp /\ g.high = e.high
          /\ g.pending = e.pending /\ g.opt = e.opt /\ g.fmt = e.fmt
      BY <1>31, <2>5 DEF Controllers, Panel
    <2>7. r = Result(g, TRUE, x)
      BY <1>20, <1>38, <2>1, <2>2, <2>5
    <2>8. r \in Results /\ r.c = g /\ r.left = 0 /\ r.right = 0 /\ r.del = 0
      BY <2>4, <2>6, <2>7 DEF Result, Results
    <2>9. Fits(g)
      BY <1>32, <2>6 DEF Fits
    <2>10. ASSUME Nested(c) PROVE Nested(g)
      <3>1. SUFFICES ASSUME g.opt.paired, g.fmt.nest > 0
                     PROVE  \E i \in 1..Len(g.pending) : g.pending[i] = "rtitle"
        BY DEF Nested
      <3>2. d.fmt.nest > 0
        <4>1. CASE formatted
          <5>1. paired
            BY <1>23, <1>31, <2>6, <3>1, <4>1
          <5> QED BY <1>24, <1>26, <1>27, <1>29, <1>31, <1>38, <2>6, <3>1, <4>1, <5>1
        <4>2. CASE ~formatted
          BY <1>29, <1>31, <2>6, <3>1, <4>2
        <4> QED BY <4>1, <4>2
      <3> QED BY <1>31, <1>33, <2>6, <2>10, <3>1, <3>2 DEF Nested
    <2> QED BY <1>2, <1>31, <1>33, <2>6, <2>8, <2>9, <2>10 DEF Sound, Plainly
  <1> QED BY <1>34, <1>35, <1>36, <1>37, <1>38

\* Sound, with the panel's entries kept.
Good(c, r, prev) == Sound(c, r, prev) /\ Panel(r.c) = Panel(c)

\* A quiet result is good.
LEMMA QuietIsGood ==
    ASSUME NEW c, NEW r, Quiet(c, r), NEW p
    PROVE Good(c, r, p)
  BY SteadyIsSound DEF Quiet, Good

\* commit_full_width is quiet.
LEMMA FullWidthIsQuiet ==
    ASSUME NEW c \in Controllers, Fits(c), NEW r \in CommitFullWidth(c)
    PROVE Quiet(c, r)
  <1>1. PICK h \in BOOLEAN, x \in {<<"wide">>, <<>>} : r = Result(c, h, x)
    BY DEF CommitFullWidth
  <1>2. "wide" \in Words
    BY DEF Words
  <1>3. <<"wide">> \in Lines
    BY <1>2 DEF Lines
  <1>4. x \in Lines
    BY <1>3, EmptyLine
  <1> QED BY <1>1, <1>4, UnchangedIsQuiet

\* commit_punctuation as a whole is good.
LEMMA PunctuationIsGood ==
    ASSUME NEW c \in Controllers, Fits(c), NEW a \in Marks, NEW p,
           NEW r \in CommitPunctuation(c, a, p)
    PROVE Good(c, r, p)
  <1>1. PICK f \in FinishComposition(c) : r = Punctuate(c, f, a, p)
    BY DEF CommitPunctuation
  <1> QED BY <1>1, PunctuateIsSound DEF Good

\* Direct mode's switch is good.
LEMMA DirectIsGood ==
    ASSUME NEW c \in Controllers, Fits(c), NEW e, e.key = "Punctuation" => e.char \in Marks,
           NEW r \in DirectKey(c, e)
    PROVE  Good(c, r, e.prev)
  <1>1. CASE r \in CommitFullWidth(c)
    BY <1>1, FullWidthIsQuiet, QuietIsGood
  <1>2. CASE e.key = "Punctuation" /\ r \in CommitPunctuation(c, e.char, e.prev)
    BY <1>2, PunctuationIsGood
  <1>3. CASE r = Result(c, FALSE, <<>>)
    BY <1>3, EmptyLine, UnchangedIsQuiet, QuietIsGood
  <1>4. \/ r \in CommitFullWidth(c)
        \/ e.key = "Punctuation" /\ r \in CommitPunctuation(c, e.char, e.prev)
        \/ r \in {Result(c, FALSE, <<>>)}
    BY Zenon DEF DirectKey
  <1> QED BY <1>1, <1>2, <1>3, <1>4

\* A letter in Ime mode is good.
LEMMA CharacterIsGood ==
    ASSUME NEW c \in Controllers, Fits(c), NEW e, e.key = "Punctuation" => e.char \in Marks,
           NEW r \in ImeCharacter(c, e)
    PROVE  Good(c, r, e.prev)
  <1>1. PICK a \in SessionCharacter(c.comp) : r = Mutation(c, a) \/ r \in DirectKey(c, e)
    BY DEF ImeCharacter
  <1>2. CASE r = Mutation(c, a)
    <2>1. IsAnswer(a, c.comp)
      BY CompositionOf, CharacterAnswers
    <2> QED BY <1>2, <2>1, MutationIsQuiet, QuietIsGood
  <1>3. CASE r \in DirectKey(c, e)
    BY <1>3, DirectIsGood
  <1> QED BY <1>1, <1>2, <1>3

\* Turning the page is quiet.
LEMMA PageIsQuiet ==
    ASSUME NEW c \in Controllers, Fits(c), NEW forward, NEW r \in MovePage(c, forward)
    PROVE  Quiet(c, r) /\ (r.handled \/ r.c = c)
  <1>1. c.opt \in Options
    BY DEF Controllers
  <1>2. c.opt.page_size \in Nat
    BY <1>1, OptionsAssumption
  <1>3. PICK k \in Nat : k = c.opt.page_size
    BY <1>2
  <1>4. r \in Move(c, k, forward)
    BY <1>3 DEF MovePage
  <1> QED BY <1>4, MoveIsQuiet

\* A mutation after any answer of the session is good.
LEMMA SessionMutationIsGood ==
    ASSUME NEW c \in Controllers, Fits(c), NEW a, IsAnswer(a, c.comp), NEW p,
           NEW r, r = Mutation(c, a)
    PROVE Good(c, r, p)
  BY MutationIsQuiet, QuietIsGood

\* Punctuation in a local mode is good ...
LEMMA LocalIsGood ==
    ASSUME NEW c \in Controllers, Fits(c), NEW e, e.char \in Marks, NEW r \in LocalPunctuation(c, e)
    PROVE  Good(c, r, e.prev)
  <1>1. \/ r \in UNION {SelectPageCandidate(c, i - 1) : i \in ShiftedDigit(e.char)}
        \/ r \in MovePage(c, e.char \in ForwardKeys)
        \/ r \in UNION {IF a.handled THEN {Mutation(c, a)} ELSE CommitPunctuation(c, e.char, e.prev)
                         : a \in SessionCharacter(c.comp)}
    BY DEF LocalPunctuation
  <1>2. CASE r \in UNION {SelectPageCandidate(c, i - 1) : i \in ShiftedDigit(e.char)}
    <2>1. PICK i : r \in SelectPageCandidate(c, i - 1)
      BY <1>2
    <2>2. PICK j : r \in SelectPageCandidate(c, j)
      BY <2>1
    <2> QED BY <2>2, SelectPageIsQuiet, QuietIsGood
  <1>3. CASE r \in MovePage(c, e.char \in ForwardKeys)
    <2>1. PICK v : r \in MovePage(c, v)
      BY <1>3
    <2> QED BY <2>1, PageIsQuiet, QuietIsGood
  <1>4. CASE r \in UNION {IF a.handled THEN {Mutation(c, a)} ELSE CommitPunctuation(c, e.char, e.prev)
                         : a \in SessionCharacter(c.comp)}
    <2>1. PICK a \in SessionCharacter(c.comp) :
        r = Mutation(c, a) \/ r \in CommitPunctuation(c, e.char, e.prev)
      BY <1>4
    <2>2. IsAnswer(a, c.comp)
      BY CompositionOf, CharacterAnswers
    <2> QED BY <2>1, <2>2, SessionMutationIsGood, PunctuationIsGood
  <1> QED BY <1>1, <1>2, <1>3, <1>4

\* ... and while composing ...
LEMMA ComposingIsGood ==
    ASSUME NEW c \in Controllers, Fits(c), NEW e, e.char \in Marks,
           NEW r \in ComposingPunctuation(c, e)
    PROVE  Good(c, r, e.prev)
  <1>1. \/ r \in Mutations(c, SessionCharacter(c.comp))
        \/ r \in MovePage(c, e.char \in ForwardKeys)
        \/ r \in UNION {IF a.handled THEN {Mutation(c, a)} ELSE CommitPunctuation(c, e.char, e.prev)
                         : a \in {Refused(c.comp)} \cup SessionSelect(c.comp, c.high)}
        \/ r \in CommitPunctuation(c, e.char, e.prev)
    BY Zenon DEF ComposingPunctuation
  <1>2. CASE r \in Mutations(c, SessionCharacter(c.comp))
    BY <1>2, CompositionOf, CharacterAnswers, MutationsAreQuiet, QuietIsGood
  <1>3. CASE r \in MovePage(c, e.char \in ForwardKeys)
    <2>1. PICK v : r \in MovePage(c, v)
      BY <1>3
    <2> QED BY <2>1, PageIsQuiet, QuietIsGood
  <1>4. CASE r \in UNION {IF a.handled THEN {Mutation(c, a)} ELSE CommitPunctuation(c, e.char, e.prev)
                         : a \in {Refused(c.comp)} \cup SessionSelect(c.comp, c.high)}
    <2>1. PICK a \in {Refused(c.comp)} \cup SessionSelect(c.comp, c.high) :
        r = Mutation(c, a) \/ r \in CommitPunctuation(c, e.char, e.prev)
      BY <1>4
    <2>2. IsAnswer(a, c.comp)
      BY CompositionOf, RefusedOf, SelectAnswers
    <2> QED BY <2>1, <2>2, SessionMutationIsGood, PunctuationIsGood
  <1>5. CASE r \in CommitPunctuation(c, e.char, e.prev)
    BY <1>5, PunctuationIsGood
  <1> QED BY <1>1, <1>2, <1>3, <1>4, <1>5

\* ... and so in Ime mode altogether.
LEMMA ImePunctuationIsGood ==
    ASSUME NEW c \in Controllers, Fits(c), NEW e, e.char \in Marks, NEW r \in ImePunctuation(c, e)
    PROVE  Good(c, r, e.prev)
  <1>1. \/ r \in LocalPunctuation(c, e)
        \/ r \in ComposingPunctuation(c, e)
        \/ r \in CommitPunctuation(c, e.char, e.prev)
    BY Zenon DEF ImePunctuation
  <1> QED BY <1>1, LocalIsGood, ComposingIsGood, PunctuationIsGood

\* A digit in Ime mode is good.
LEMMA DigitIsGood ==
    ASSUME NEW c \in Controllers, Fits(c), NEW e, e.key = "Digit", NEW r \in ImeDigit(c, e)
    PROVE  Good(c, r, e.prev)
  <1>1. \/ r \in Mutations(c, SessionCharacter(c.comp))
        \/ r \in DirectKey(c, e)
        \/ r \in {Result(c, FALSE, <<>>)}
        \/ r \in {Result(c, TRUE, <<>>)}
        \/ r \in SelectCandidate(c, PageStart(c) + e.digit - 1)
    BY Zenon DEF ImeDigit
  <1>2. CASE r \in Mutations(c, SessionCharacter(c.comp))
    BY <1>2, CompositionOf, CharacterAnswers, MutationsAreQuiet, QuietIsGood
  <1>3. CASE r \in DirectKey(c, e)
    BY <1>3, DirectIsGood
  <1>4. CASE r \in {Result(c, FALSE, <<>>)} \/ r \in {Result(c, TRUE, <<>>)}
    <2>1. PICK h \in BOOLEAN, t \in Lines : r = Result(c, h, t)
      BY <1>4, EmptyLine
    <2> QED BY <2>1, UnchangedIsQuiet, QuietIsGood
  <1>5. CASE r \in SelectCandidate(c, PageStart(c) + e.digit - 1)
    <2>1. PICK i : r \in SelectCandidate(c, i)
      BY <1>5
    <2> QED BY <2>1, SelectIsQuiet, QuietIsGood
  <1> QED BY <1>1, <1>2, <1>3, <1>4, <1>5

-----------------------------------------------------------------------------
(* handle_key.                                                             *)

\* The keys of an event, those that switch a mode apart.
PlainKeys == {"Character", "Punctuation", "Backspace", "Enter", "Escape", "Space", "Digit",
              "Up", "Down", "PageUp", "PageDown"}

\* The keys that switch a mode.
ToggleKeys == {"TogglePunctuation", "ToggleWidth", "ToggleEnglish"}

\* Enter and Escape are good.
LEMMA EndIsGood ==
    ASSUME NEW c \in Controllers, Fits(c), NEW T \in SUBSET Texts, NEW p,
           NEW r \in Mutations(c, SessionEnd(c.comp, T))
    PROVE  Good(c, r, p)
  BY FinishIsQuiet, QuietIsGood

\* Ime mode's switch is good.
LEMMA ImeKeyIsGood ==
    ASSUME NEW c \in Controllers, Fits(c), NEW e, e.key \in PlainKeys,
           e.key = "Punctuation" => e.char \in Marks, NEW r \in ImeKey(c, e)
    PROVE  Good(c, r, e.prev)
  <1>1. CASE e.key = "Character"
    <2>1. r \in ImeCharacter(c, e)
      BY <1>1, Zenon DEF ImeKey
    <2> QED BY <2>1, CharacterIsGood
  <1>2. CASE e.key = "Punctuation"
    <2>1. r \in ImePunctuation(c, e)
      BY <1>2, Zenon DEF ImeKey
    <2> QED BY <1>2, <2>1, ImePunctuationIsGood
  <1>3. CASE e.key = "Backspace"
    <2>1. r \in Mutations(c, SessionBackspace(c.comp))
      BY <1>3, Zenon DEF ImeKey
    <2> QED BY <2>1, CompositionOf, BackspaceAnswers, MutationsAreQuiet, QuietIsGood
  <1>4. CASE e.key = "Enter"
    <2>1. r \in Mutations(c, SessionEnd(c.comp, {<<>>, <<"a">>}))
      BY <1>4, Zenon DEF ImeKey
    <2>2. PICK T \in SUBSET Texts : T = {<<>>, <<"a">>}
      BY DEF Texts
    <2> QED BY <2>1, <2>2, EndIsGood
  <1>5. CASE e.key = "Escape"
    <2>1. r \in Mutations(c, SessionEnd(c.comp, {<<>>}))
      BY <1>5, Zenon DEF ImeKey
    <2>2. PICK T \in SUBSET Texts : T = {<<>>}
      BY DEF Texts
    <2> QED BY <2>1, <2>2, EndIsGood
  <1>6. CASE e.key = "Space"
    <2>1. r \in CommitHighlighted(c) \/ r \in DirectKey(c, e)
      BY <1>6, Zenon DEF ImeKey
    <2>2. CASE r \in CommitHighlighted(c)
      BY <2>2, HighlightedIsQuiet, QuietIsGood
    <2>3. CASE r \in DirectKey(c, e)
      BY <2>3, DirectIsGood
    <2> QED BY <2>1, <2>2, <2>3
  <1>7. CASE e.key = "Digit"
    <2>1. r \in ImeDigit(c, e)
      BY <1>7, Zenon DEF ImeKey
    <2> QED BY <1>7, <2>1, DigitIsGood
  <1>8. CASE e.key \in {"Up", "Down"}
    <2>1. r \in Move(c, 1, e.key = "Down")
      BY <1>8, Zenon DEF ImeKey
    <2>2. PICK k, v : k \in Nat /\ r \in Move(c, k, v)
      BY <2>1
    <2> QED BY <2>2, MoveIsQuiet, QuietIsGood
  <1>9. CASE e.key \in {"PageUp", "PageDown"}
    <2>1. r \in MovePage(c, e.key = "PageDown")
      BY <1>9, Zenon DEF ImeKey
    <2>2. PICK v : r \in MovePage(c, v)
      BY <2>1
    <2> QED BY <2>2, PageIsQuiet, QuietIsGood
  <1> QED BY <1>1, <1>2, <1>3, <1>4, <1>5, <1>6, <1>7, <1>8, <1>9 DEF PlainKeys

\* A result sound after the history was forgotten was sound before.
LEMMA SoundAfterClear ==
    ASSUME NEW c \in Controllers, NEW b, b = c \/ b = ClearHistory(c), NEW r, NEW p, Sound(b, r, p)
    PROVE  Sound(c, r, p)
  <1>1. CASE b = ClearHistory(c)
    <2>1. Kept(c, b)
      BY <1>1, ClearedHistory
    <2> QED BY <2>1 DEF Kept, Sound, Nested, Plainly, Opens, StepsOver
  <1> QED BY <1>1

\* handle_key is sound; only the punctuation and width keys change the panel, and those
\* are always handled.
LEMMA KeyIsSound ==
    ASSUME NEW c \in Controllers, Fits(c), NEW e, e.key \in PlainKeys \cup ToggleKeys,
           e.key = "Punctuation" => e.char \in Marks, NEW r \in HandleKey(c, e)
    PROVE  /\ Sound(c, r, e.prev)
           /\ e.key \notin {"TogglePunctuation", "ToggleWidth"} => Panel(r.c) = Panel(c)
           /\ e.key \in {"TogglePunctuation", "ToggleWidth"} => r.handled
  <1>1. PICK b : b = IF e.key = "Punctuation" /\ e.char = c.hist.key THEN c ELSE ClearHistory(c)
    OBVIOUS
  <1>2. b \in Controllers /\ Fits(b) /\ Panel(b) = Panel(c) /\ (b = c \/ b = ClearHistory(c))
    BY <1>1, ClearedHistory
  <1>3. CASE e.key = "TogglePunctuation"
    <2>1. r \in {SetPunctuationMode(b, Flip(b.punct, "Chinese", "English"))}
      BY <1>1, <1>3, Zenon DEF HandleKey
    <2>2. PICK m \in {"Chinese", "English"} : m # b.punct /\ r = SetPunctuationMode(b, m)
      BY <2>1 DEF Flip
    <2>3. Steady(b, r)
      BY <1>2, <2>2, SetPunctuation
    <2>4. r.handled
      BY <2>2 DEF SetPunctuationMode, Result
    <2> QED BY <1>2, <1>3, <2>3, <2>4, SteadyIsSound, SoundAfterClear
  <1>4. CASE e.key = "ToggleWidth"
    <2>1. r \in {SetCharacterWidth(b, Flip(b.width, "Half", "Full"))}
      BY <1>1, <1>4, Zenon DEF HandleKey
    <2>2. PICK m \in {"Half", "Full"} : m # b.width /\ r = SetCharacterWidth(b, m)
      BY <2>1 DEF Flip
    <2>3. Steady(b, r)
      BY <1>2, <2>2, SetWidth
    <2>4. r.handled
      BY <2>2 DEF SetCharacterWidth, Result
    <2> QED BY <1>2, <1>4, <2>3, <2>4, SteadyIsSound, SoundAfterClear
  <1>5. CASE e.key = "ToggleEnglish"
    <2>1. r \in ToggleEnglish(b)
      BY <1>1, <1>5, Zenon DEF HandleKey
    <2>2. Quiet(b, r)
      BY <1>2, <2>1, EnglishIsQuiet
    <2> QED BY <1>2, <1>5, <2>2, SteadyIsSound, SoundAfterClear DEF Quiet
  <1>6. CASE e.key \in PlainKeys
    <2>1. r \in ImeKey(b, e) \/ r \in DirectKey(b, e)
      BY <1>1, <1>6, Zenon DEF HandleKey, PlainKeys
    <2>2. Good(b, r, e.prev)
      BY <1>2, <1>6, <2>1, ImeKeyIsGood, DirectIsGood
    <2>3. e.key \notin {"TogglePunctuation", "ToggleWidth"}
      BY <1>6 DEF PlainKeys
    <2> QED BY <1>2, <2>2, <2>3, SoundAfterClear DEF Good
  <1> QED BY <1>3, <1>4, <1>5, <1>6 DEF ToggleKeys

\* An arrow key that is not handled only forgets the smart mark.
LEMMA ArrowIsQuiet ==
    ASSUME NEW c \in Controllers, Fits(c), NEW e, e.key \in {"Up", "Down", "PageUp", "PageDown"},
           NEW r \in HandleKey(c, e)
    PROVE  r.handled \/ r.c = ClearHistory(c)
  <1>1. PICK b : b = ClearHistory(c)
    OBVIOUS
  <1>2. b \in Controllers /\ Fits(b)
    BY <1>1, ClearedHistory
  <1>3. r \in ImeKey(b, e) \/ r \in DirectKey(b, e)
    BY <1>1, Zenon DEF HandleKey
  <1>4. CASE r \in DirectKey(b, e)
    <2>1. r \in {Result(b, FALSE, <<>>)}
      BY <1>4, Zenon DEF DirectKey
    <2> QED BY <1>1, <2>1 DEF Result
  <1>5. CASE r \in ImeKey(b, e)
    <2>1. CASE e.key \in {"Up", "Down"}
      <3>1. r \in Move(b, 1, e.key = "Down")
        BY <1>5, <2>1, Zenon DEF ImeKey
      <3>2. PICK k, v : k \in Nat /\ r \in Move(b, k, v)
        BY <3>1
      <3> QED BY <1>1, <1>2, <3>2, MoveIsQuiet
    <2>2. CASE e.key \in {"PageUp", "PageDown"}
      <3>1. r \in MovePage(b, e.key = "PageDown")
        BY <1>5, <2>2, Zenon DEF ImeKey
      <3>2. PICK v : r \in MovePage(b, v)
        BY <3>1
      <3> QED BY <1>1, <1>2, <3>2, PageIsQuiet
    <2> QED BY <2>1, <2>2
  <1> QED BY <1>3, <1>4, <1>5

-----------------------------------------------------------------------------
(* The document.                                                           *)

\* The client's document as InputEngine models it.
Documents ==
    {d \in [before : Before, right : Seq(Closers), lost : BOOLEAN] : Len(d.right) <= MaxPending}

\* p, read backwards, begins q.
Mirrors(p, q) == Len(p) <= Len(q) /\ \A i \in 1..Len(p) : p[Len(p) + 1 - i] = q[i]

\* A committed piece is a glyph the document may have before its caret.
LEMMA Glyphs ==
    ASSUME NEW g \in Words \cup Closers \cup {"space"}
    PROVE  Glyph(g) \in Before
  <1>1. g \in SmartMarks => g \in Marks
    BY DEF Words, ZhMarks, PassThrough, Closers, SmartMarks
  <1> QED BY <1>1 DEF Glyph, Before

\* What is kept of the text right of the caret is its beginning.
LEMMA Cut ==
    ASSUME NEW q \in Seq(Closers), NEW s, s = Right(q)
    PROVE  /\ s \in Seq(Closers) /\ Len(s) <= MaxPending /\ Len(s) <= Len(q)
           /\ Len(q) <= MaxPending => Len(s) = Len(q)
           /\ Len(q) > MaxPending => Len(s) = MaxPending
           /\ \A i \in 1..Len(s) : s[i] = q[i]
  <1>1. PICK k \in Nat : k = IF Len(q) > MaxPending THEN MaxPending ELSE Len(q)
    BY BoundsAssumption
  <1>2. k <= Len(q) /\ k <= MaxPending
    BY <1>1, BoundsAssumption
  <1>3. s = SubSeq(q, 1, k)
    BY <1>1 DEF Right
  <1>4. s \in Seq(Closers) /\ Len(s) = k /\ \A i \in 1..k : s[i] = q[i]
    BY <1>2, <1>3
  <1> QED BY <1>1, <1>2, <1>4, BoundsAssumption

\* A text within the bound is kept whole.
LEMMA CutWhole ==
    ASSUME NEW q \in Seq(Closers), Len(q) <= MaxPending
    PROVE  Right(q) = q
  <1>1. PICK s : s = Right(q)
    OBVIOUS
  <1>2. s \in Seq(Closers) /\ Len(s) = Len(q) /\ \A i \in 1..Len(s) : s[i] = q[i]
    BY <1>1, Cut
  <1>3. s = q
    BY <1>2, SeqEqual
  <1> QED BY <1>1, <1>3

\* A deletion that replaces the mark before the caret by its Chinese form loses nothing.
LEMMA Erased ==
    ASSUME NEW d \in Documents, ~d.lost,
           NEW r, r.del > 0 => r.commit = <<Chinese(ResetFormatter, d.before).mark>>,
           NEW e,
           e = [d EXCEPT !.lost = @ \/ (r.del > 0 /\ r.commit # <<Chinese(ResetFormatter, d.before).mark>>)]
    PROVE  e \in Documents /\ e.right = d.right /\ e.before = d.before /\ ~e.lost
  <1>1. PICK v \in BOOLEAN :
      v = (d.lost \/ (r.del > 0 /\ r.commit # <<Chinese(ResetFormatter, d.before).mark>>))
    OBVIOUS
  <1>2. ~v
    BY <1>1
  <1>3. e = [d EXCEPT !.lost = v]
    BY <1>1 DEF Documents
  <1> QED BY <1>2, <1>3 DEF Documents

\* apply_result without caret steps leaves the text right of the caret.
LEMMA EditedPlainly ==
    ASSUME NEW d \in Documents, ~d.lost, NEW r \in Results, r.left = 0, r.right = 0,
           r.del > 0 => r.commit = <<Chinese(ResetFormatter, d.before).mark>>,
           NEW e, e = Edited(d, r)
    PROVE  e \in Documents /\ ~e.lost /\ e.right = d.right
  <1>1. PICK x :
      x = [d EXCEPT !.lost = @ \/ (r.del > 0 /\ r.commit # <<Chinese(ResetFormatter, d.before).mark>>)]
    OBVIOUS
  <1>2. x \in Documents /\ x.right = d.right /\ ~x.lost
    BY <1>1, Erased
  <1>3. PICK t \in Lines : t = r.commit
    BY DEF Results
  <1>4. PICK n \in Nat : n = Len(t)
    BY DEF Lines
  <1>5. x.right \in Seq(Closers) /\ Len(x.right) <= MaxPending
    BY <1>2 DEF Documents
  <1>6. CASE n = 0
    <2>1. e = x
      BY <1>1, <1>3, <1>4, <1>6 DEF Edited
    <2> QED BY <1>2, <2>1
  <1>7. CASE n # 0
    <2>1. e = [x EXCEPT !.before = Glyph(t[n]), !.right = Right(SubSeq(t, n + 1, n) \o x.right)]
      <3>1. n - r.left = n
        BY <1>4
      <3>2. ~(r.right > 0)
        OBVIOUS
      <3> QED BY <1>1, <1>2, <1>3, <1>4, <1>7, <3>1, <3>2 DEF Edited, Documents
    <2>2. SubSeq(t, n + 1, n) = <<>>
      BY <1>4 DEF Lines
    <2>3. Right(SubSeq(t, n + 1, n) \o x.right) = x.right
      <3>1. PICK q \in Seq(Closers) : q = x.right /\ Len(q) <= MaxPending
        BY <1>5
      <3>2. <<>> \o q = q
        BY ConcatEmptySeq
      <3>3. Right(q) = q
        BY <3>1, CutWhole
      <3> QED BY <2>2, <3>1, <3>2, <3>3
    <2>4. t[n] \in Words
      BY <1>4, <1>7 DEF Lines
    <2>5. PICK b \in Before : b = Glyph(t[n])
      BY <2>4, Glyphs
    <2>6. PICK q \in Seq(Closers) : q = x.right
      BY <1>5
    <2>7. e = [x EXCEPT !.before = b, !.right = q]
      BY <2>1, <2>3, <2>5, <2>6
    <2> QED BY <1>2, <1>5, <2>6, <2>7 DEF Documents
  <1> QED BY <1>6, <1>7

\* apply_result of a new pair puts its closing mark right of the caret.
LEMMA EditedOpens ==
    ASSUME NEW d \in Documents, ~d.lost,
           NEW r \in Results, r.left = 1, r.right = 0, Len(r.commit) >= 2,
           r.del > 0 => r.commit = <<Chinese(ResetFormatter, d.before).mark>>,
           NEW z \in Closers, z = r.commit[Len(r.commit)],
           NEW e, e = Edited(d, r)
    PROVE  e \in Documents /\ ~e.lost /\ e.right = Right(<<z>> \o d.right)
  <1>1. PICK x :
      x = [d EXCEPT !.lost = @ \/ (r.del > 0 /\ r.commit # <<Chinese(ResetFormatter, d.before).mark>>)]
    OBVIOUS
  <1>2. x \in Documents /\ x.right = d.right /\ ~x.lost
    <2>1. PICK v \in BOOLEAN :
        v = (d.lost \/ (r.del > 0 /\ r.commit # <<Chinese(ResetFormatter, d.before).mark>>))
      OBVIOUS
    <2>2. ~v
      BY <2>1
    <2>3. x = [d EXCEPT !.lost = v]
      BY <1>1, <2>1 DEF Documents
    <2> QED BY <2>2, <2>3 DEF Documents
  <1>3. PICK t \in Lines : t = r.commit
    BY DEF Results
  <1>4. PICK n \in Nat : n = Len(t)
    BY DEF Lines
  <1>5. x.right \in Seq(Closers)
    BY <1>2 DEF Documents
  <1>6. n >= 2 /\ z = t[n]
    BY <1>3, <1>4
  <1>7. e = [x EXCEPT !.before = Glyph(t[n - 1]), !.right = Right(SubSeq(t, n, n) \o x.right)]
    <2>1. n - r.left = n - 1 /\ n - r.left # 0 /\ n - r.left + 1 = n
      BY <1>4, <1>6
    <2>2. ~(r.right > 0)
      OBVIOUS
    <2> QED BY <1>1, <1>2, <1>3, <1>4, <2>1, <2>2 DEF Edited, Documents
  <1>8. SubSeq(t, n, n) = <<z>>
    <2>1. PICK u : u = SubSeq(t, n, n)
      OBVIOUS
    <2>2. u \in Seq(Words) /\ Len(u) = 1 /\ u[1] = z
      BY <1>4, <1>6, <2>1 DEF Lines
    <2>3. z \in Words
      BY <1>4, <1>6 DEF Lines
    <2>4. PICK v : v = <<z>>
      OBVIOUS
    <2>5. v \in Seq(Words) /\ Len(v) = 1 /\ v[1] = z
      BY <2>3, <2>4
    <2>6. u = v
      BY <2>2, <2>5, SeqEqual
    <2> QED BY <2>1, <2>4, <2>6
  <1>9. PICK q : q = Right(<<z>> \o x.right)
    OBVIOUS
  <1>10. q \in Seq(Closers) /\ Len(q) <= MaxPending
    <2>1. <<z>> \in Seq(Closers)
      OBVIOUS
    <2>2. PICK s \in Seq(Closers) : s = <<z>> \o x.right
      BY <1>5, <2>1, ConcatProperties
    <2> QED BY <1>9, <2>2, Cut
  <1>11. t[n - 1] \in Words
    BY <1>4, <1>6 DEF Lines
  <1>12. PICK b \in Before : b = Glyph(t[n - 1])
    BY <1>11, Glyphs
  <1>13. e = [x EXCEPT !.before = b, !.right = q]
    BY <1>7, <1>8, <1>9, <1>12
  <1>14. e \in Documents /\ e.right = q /\ e.lost = x.lost
    BY <1>2, <1>10, <1>13 DEF Documents
  <1> QED BY <1>2, <1>9, <1>14

\* apply_result of a step to the right takes the first mark right of the caret.
LEMMA EditedStepsOver ==
    ASSUME NEW d \in Documents, ~d.lost, NEW r \in Results, r.left = 0, r.right = 1, d.right # <<>>,
           r.del > 0 => r.commit = <<Chinese(ResetFormatter, d.before).mark>>,
           NEW e, e = Edited(d, r)
    PROVE  e \in Documents /\ ~e.lost /\ e.right = Tail(d.right)
  <1>1. PICK s : s = [r EXCEPT !.right = 0]
    OBVIOUS
  <1>2. s \in Results /\ s.left = 0 /\ s.right = 0 /\ s.del = r.del /\ s.commit = r.commit
    BY <1>1 DEF Results
  <1>3. PICK x : x = Edited(d, s)
    OBVIOUS
  <1>4. x \in Documents /\ ~x.lost /\ x.right = d.right
    BY <1>2, <1>3, EditedPlainly
  <1>5. e = [x EXCEPT !.before = Glyph(Head(x.right)), !.right = Tail(@)]
    <2>1. s.left = r.left
      BY <1>2
    <2>2. ~(s.right > 0) /\ r.right > 0
      BY <1>2
    <2> QED BY <1>2, <1>3, <1>4, <2>1, <2>2 DEF Edited
  <1>6. PICK q \in Seq(Closers) : q = x.right
    BY <1>4 DEF Documents
  <1>7. q # <<>> /\ Len(q) <= MaxPending
    BY <1>4, <1>6 DEF Documents
  <1>8. Head(q) \in Closers /\ Tail(q) \in Seq(Closers) /\ Len(Tail(q)) <= Len(q)
    BY <1>7
  <1>9. PICK b \in Before : b = Glyph(Head(q))
    BY <1>8, Glyphs
  <1>10. PICK u \in Seq(Closers) : u = Tail(q) /\ Len(u) <= MaxPending
    <2>1. Len(q) \in Nat /\ Len(Tail(q)) \in Nat
      BY <1>8
    <2>2. Len(Tail(q)) <= MaxPending
      BY <1>7, <1>8, <2>1, BoundsAssumption
    <2> QED BY <1>8, <2>2
  <1>11. e = [x EXCEPT !.before = b, !.right = u]
    BY <1>4, <1>5, <1>6, <1>9, <1>10 DEF Documents
  <1> QED BY <1>4, <1>6, <1>10, <1>11 DEF Documents

\* A new pair keeps pending marks and text in step ...
LEMMA MirrorsAfterOpening ==
    ASSUME NEW p \in Seq(Closers), NEW q \in Seq(Closers), NEW z \in Closers, Mirrors(p, q),
           NEW pp, pp = Append(p, z), Len(pp) <= MaxPending, NEW s, s = Right(<<z>> \o q)
    PROVE  Mirrors(pp, s)
  <1>1. <<z>> \in Seq(Closers) /\ Len(<<z>>) = 1 /\ <<z>>[1] = z
    OBVIOUS
  <1>2. PICK qq : qq = <<z>> \o q
    OBVIOUS
  <1>3. /\ qq \in Seq(Closers)
        /\ Len(qq) = Len(q) + 1
        /\ qq[1] = z
        /\ \A i \in 1..Len(q) : qq[i + 1] = q[i]
    <2>1. qq \in Seq(Closers) /\ Len(qq) = 1 + Len(q)
      BY <1>1, <1>2, ConcatProperties
    <2>2. Len(q) \in Nat
      OBVIOUS
    <2>3. \A i \in 1..Len(qq) : qq[i] = IF i <= 1 THEN z ELSE q[i - 1]
      BY <1>2, <2>1
    <2>4. \A i \in 1..Len(q) : i + 1 \in 1..Len(qq) /\ ~(i + 1 <= 1) /\ (i + 1) - 1 = i
      BY <2>1, <2>2
    <2> QED BY <2>1, <2>2, <2>3, <2>4
  <1>4. /\ s \in Seq(Closers) /\ Len(s) <= Len(qq)
        /\ Len(qq) <= MaxPending => Len(s) = Len(qq)
        /\ Len(qq) > MaxPending => Len(s) = MaxPending
        /\ \A i \in 1..Len(s) : s[i] = qq[i]
    BY <1>2, <1>3, Cut
  <1>5. PICK n \in Nat : n = Len(p)
    OBVIOUS
  <1>6. Len(pp) = n + 1 /\ pp[n + 1] = z /\ \A i \in 1..n : pp[i] = p[i]
    BY <1>5
  <1>7. n <= Len(q) /\ \A i \in 1..n : p[n + 1 - i] = q[i]
    BY <1>5 DEF Mirrors
  <1>8. Len(q) \in Nat /\ Len(qq) \in Nat /\ Len(s) \in Nat
    BY <1>3, <1>4
  <1>9. n + 1 <= Len(s)
    BY <1>3, <1>4, <1>6, <1>7, <1>8, BoundsAssumption
  <1>10. ASSUME NEW i \in 1..(n + 1) PROVE pp[n + 1 + 1 - i] = s[i]
    <2>1. s[i] = qq[i]
      BY <1>4, <1>8, <1>9
    <2>2. CASE i = 1
      BY <1>3, <1>6, <2>1, <2>2
    <2>3. CASE i # 1
      <3>1. PICK j \in 1..n : i = j + 1
        <4>1. i - 1 \in 1..n /\ i = (i - 1) + 1
          BY <2>3
        <4> QED BY <4>1
      <3>2. qq[i] = q[j] /\ p[n + 1 - j] = q[j]
        BY <1>3, <1>7, <1>8, <3>1
      <3>3. n + 1 + 1 - i = n + 1 - j /\ n + 1 - j \in 1..n
        BY <3>1
      <3> QED BY <1>6, <2>1, <3>2, <3>3
    <2> QED BY <2>2, <2>3
  <1> QED BY <1>6, <1>9, <1>10 DEF Mirrors

\* ... and so does stepping over one, which is always there to be stepped over.
LEMMA MirrorsAfterStep ==
    ASSUME NEW p \in Seq(Closers), NEW q \in Seq(Closers), Mirrors(p, q), Len(p) > 0,
           NEW pp, pp = SubSeq(p, 1, Len(p) - 1)
    PROVE  q # <<>> /\ Mirrors(pp, Tail(q))
  <1>1. PICK n \in Nat : Len(p) = n + 1
    <2>1. Len(p) \in Nat /\ Len(p) - 1 \in Nat /\ Len(p) = (Len(p) - 1) + 1
      OBVIOUS
    <2> QED BY <2>1
  <1>2. n + 1 <= Len(q) /\ \A i \in 1..(n + 1) : p[n + 1 + 1 - i] = q[i]
    BY <1>1 DEF Mirrors
  <1>3. Len(q) \in Nat /\ q # <<>>
    BY <1>2
  <1>4. PICK s : s = Tail(q)
    OBVIOUS
  <1>5. s \in Seq(Closers) /\ Len(s) = Len(q) - 1 /\ \A i \in 1..Len(s) : s[i] = q[i + 1]
    BY <1>3, <1>4, HeadTailProperties
  <1>6. Len(pp) = n /\ \A i \in 1..n : pp[i] = p[i]
    BY <1>1
  <1>7. n <= Len(s)
    BY <1>2, <1>3, <1>5
  <1>8. ASSUME NEW i \in 1..n PROVE pp[n + 1 - i] = s[i]
    <2>1. n + 1 - i \in 1..n /\ i + 1 \in 1..(n + 1) /\ n + 1 + 1 - (i + 1) = n + 1 - i
      OBVIOUS
    <2>2. i \in 1..Len(s)
      BY <1>3, <1>5, <1>7
    <2>3. pp[n + 1 - i] = p[n + 1 - i] /\ s[i] = q[i + 1]
      BY <1>5, <1>6, <2>1, <2>2
    <2>4. p[n + 1 + 1 - (i + 1)] = q[i + 1]
      BY <1>2, <2>1
    <2> QED BY <2>1, <2>3, <2>4
  <1> QED BY <1>3, <1>4, <1>6, <1>7, <1>8 DEF Mirrors

\* Nothing pending agrees with any text.
LEMMA MirrorsNothing ==
    ASSUME NEW q \in Seq(Closers), NEW p, p = <<>>
    PROVE  Mirrors(p, q)
  BY DEF Mirrors

\* The document lost nothing, and right of the caret are the pending marks.
Safe(c, d) == d \in Documents /\ ~d.lost /\ Mirrors(c.pending, d.right)

\* apply_result of a sound result keeps the document safe.
LEMMA EditedIsSafe ==
    ASSUME NEW c \in Controllers, NEW d, Safe(c, d), NEW p \in {"none", d.before},
           NEW r, Sound(c, r, p),
           Len(r.c.pending) <= MaxPending, NEW e, e = Edited(d, r)
    PROVE  Safe(r.c, e)
  <1>1. r \in Results /\ d \in Documents /\ ~d.lost /\ Mirrors(c.pending, d.right)
    BY DEF Sound, Safe
  <1>2. r.del > 0 => r.commit = <<Chinese(ResetFormatter, d.before).mark>>
    BY DEF Sound, SmartMarks
  <1>3. c.pending \in Seq(Closers) /\ d.right \in Seq(Closers)
    BY <1>1 DEF Controllers, Documents
  <1>4. CASE Plainly(c, r)
    <2>1. r.left = 0 /\ r.right = 0 /\ r.c.pending = c.pending
      BY <1>4 DEF Plainly
    <2>2. e \in Documents /\ ~e.lost /\ e.right = d.right
      BY <1>1, <1>2, <2>1, EditedPlainly
    <2> QED BY <1>1, <2>1, <2>2 DEF Safe
  <1>5. CASE Opens(c, r)
    <2>1. PICK z \in Closers : z = r.commit[Len(r.commit)]
      BY <1>5 DEF Opens
    <2>2. r.left = 1 /\ r.right = 0 /\ Len(r.commit) >= 2 /\ r.c.pending = Append(c.pending, z)
      BY <1>5, <2>1 DEF Opens
    <2>3. e \in Documents /\ ~e.lost /\ e.right = Right(<<z>> \o d.right)
      BY <1>1, <1>2, <2>1, <2>2, EditedOpens
    <2>4. Mirrors(r.c.pending, e.right)
      BY <1>1, <1>3, <2>2, <2>3, MirrorsAfterOpening
    <2> QED BY <2>3, <2>4 DEF Safe
  <1>6. CASE StepsOver(c, r)
    <2>1. /\ r.left = 0
          /\ r.right = 1
          /\ Len(c.pending) > 0
          /\ r.c.pending = SubSeq(c.pending, 1, Len(c.pending) - 1)
      BY <1>6 DEF StepsOver
    <2>2. d.right # <<>> /\ Mirrors(r.c.pending, Tail(d.right))
      BY <1>1, <1>3, <2>1, MirrorsAfterStep
    <2>3. e \in Documents /\ ~e.lost /\ e.right = Tail(d.right)
      BY <1>1, <1>2, <2>1, <2>2, EditedStepsOver
    <2> QED BY <2>2, <2>3 DEF Safe
  <1> QED BY <1>4, <1>5, <1>6 DEF Sound

\* A caret that moved has nothing known right of it.
LEMMA Elsewheres ==
    ASSUME NEW d \in Documents, ~d.lost, NEW x \in Elsewhere(d)
    PROVE  x \in Documents /\ ~x.lost /\ x.right = <<>>
  <1>1. PICK b \in Before : x = [d EXCEPT !.before = b, !.right = <<>>]
    BY DEF Elsewhere
  <1>2. PICK q \in Seq(Closers) : q = <<>>
    BY EmptySeq
  <1>3. Len(q) = 0
    BY <1>2
  <1>4. 0 <= MaxPending
    BY BoundsAssumption
  <1>5. x = [d EXCEPT !.before = b, !.right = q]
    BY <1>1, <1>2
  <1> QED BY <1>2, <1>3, <1>4, <1>5 DEF Documents

\* Another glyph before the caret changes nothing else.
LEMMA Retyped ==
    ASSUME NEW d \in Documents, ~d.lost, NEW b \in Before, NEW x, x = [d EXCEPT !.before = b]
    PROVE  x \in Documents /\ ~x.lost /\ x.right = d.right
  BY DEF Documents

\* A key left to the application loses nothing the engine is to blame for.
LEMMA ClientKeys ==
    ASSUME NEW d \in Documents, ~d.lost, NEW sym, NEW mods, NEW x \in ClientKey(d, sym, mods)
    PROVE  x \in Documents /\ ~x.lost
  <1>1. \/ x \in {[d EXCEPT !.before = "a"]}
        \/ sym \in Marks \cup {"space"} /\ x \in {[d EXCEPT !.before = Glyph(sym)]}
        \/ x \in {[d EXCEPT !.before = b] : b \in Before}
        \/ x \in Elsewhere(d)
    BY Zenon DEF ClientKey
  <1>2. CASE x \in {[d EXCEPT !.before = "a"]}
    <2>1. PICK b \in Before : x = [d EXCEPT !.before = b]
      BY <1>2 DEF Before
    <2> QED BY <2>1, Retyped
  <1>3. CASE sym \in Marks \cup {"space"} /\ x \in {[d EXCEPT !.before = Glyph(sym)]}
    <2>1. Glyph(sym) \in Before
      BY <1>3, Glyphs DEF Words
    <2>2. PICK b \in Before : x = [d EXCEPT !.before = b]
      BY <1>3, <2>1
    <2> QED BY <2>2, Retyped
  <1>4. CASE x \in {[d EXCEPT !.before = b] : b \in Before}
    BY <1>4, Retyped
  <1>5. CASE x \in Elsewhere(d)
    BY <1>5, Elsewheres
  <1> QED BY <1>1, <1>2, <1>3, <1>4, <1>5

-----------------------------------------------------------------------------
(* The key mapping and the mode-toggle tracker.                            *)

\* A command keysym maps to a key other than punctuation.
LEMMA CommandsAreKeys ==
    ASSUME NEW sym \in DOMAIN CommandKeys
    PROVE  CommandKeys[sym] \in PlainKeys \ {"Punctuation"}
  BY DEF CommandKeys, PlainKeys

\* The events handle_key is given.
IsEvent(e) ==
    /\ e.key \in PlainKeys \cup ToggleKeys
    /\ e.key = "Punctuation" => e.char \in Marks
    /\ e = [key |-> e.key, char |-> e.char, digit |-> e.digit, shift |-> e.shift, prev |-> e.prev]

\* Event makes such events.
LEMMA EventOf ==
    ASSUME NEW k \in PlainKeys \cup ToggleKeys, NEW ch, k = "Punctuation" => ch \in Marks, NEW n,
           NEW mods,
           NEW e, e = Event(k, ch, n, mods)
    PROVE  IsEvent(e) /\ e.prev = "none"
  BY DEF Event, IsEvent

\* translate_ibus_key makes such events.
LEMMA Translations ==
    ASSUME NEW sym, NEW mods, NEW e \in Translation(sym, mods)
    PROVE  IsEvent(e) /\ e.prev = "none"
  <1>1. \/ e \in {Event("TogglePunctuation", "", 0, mods)}
        \/ e \in {Event("ToggleWidth", "", 0, mods)}
        \/ e \in {Event("ToggleEnglish", "", 0, mods)}
        \/ e \in {}
        \/ sym \in DOMAIN CommandKeys /\ e \in {Event(CommandKeys[sym], "", 0, mods)}
        \/ e \in {Event("Digit", "", DigitOf[sym], mods)}
        \/ e \in {Event("Character", "a", 0, mods)}
        \/ sym \in Marks /\ e \in {Event("Punctuation", sym, 0, mods)}
    BY Zenon DEF Translation
  <1>2. PICK k \in PlainKeys \cup ToggleKeys :
          \E ch, n : e = Event(k, ch, n, mods) /\ (k = "Punctuation" => ch \in Marks)
    <2>1. {"TogglePunctuation", "ToggleWidth", "ToggleEnglish", "Digit", "Character", "Punctuation"}
            \subseteq PlainKeys \cup ToggleKeys
      BY DEF PlainKeys, ToggleKeys
    <2>2. CASE e \in {Event("TogglePunctuation", "", 0, mods)}
      BY <2>1, <2>2
    <2>3. CASE e \in {Event("ToggleWidth", "", 0, mods)}
      BY <2>1, <2>3
    <2>4. CASE e \in {Event("ToggleEnglish", "", 0, mods)}
      BY <2>1, <2>4
    <2>5. CASE sym \in DOMAIN CommandKeys /\ e \in {Event(CommandKeys[sym], "", 0, mods)}
      <3>1. CommandKeys[sym] \in PlainKeys \cup ToggleKeys /\ CommandKeys[sym] # "Punctuation"
        BY <2>5, CommandsAreKeys
      <3> QED BY <2>5, <3>1
    <2>6. CASE e \in {Event("Digit", "", DigitOf[sym], mods)}
      BY <2>1, <2>6
    <2>7. CASE e \in {Event("Character", "a", 0, mods)}
      BY <2>1, <2>7
    <2>8. CASE sym \in Marks /\ e \in {Event("Punctuation", sym, 0, mods)}
      BY <2>1, <2>8
    <2> QED BY <1>1, <2>2, <2>3, <2>4, <2>5, <2>6, <2>7, <2>8
  <1>3. PICK ch, n : e = Event(k, ch, n, mods) /\ (k = "Punctuation" => ch \in Marks)
    BY <1>2
  <1> QED BY <1>3, EventOf

\* preceding_character adds nothing but the glyph before the caret.
LEMMA Reports ==
    ASSUME NEW sym, NEW mods, NEW e \in Reported(Translation(sym, mods))
    PROVE  IsEvent(e) /\ e.prev \in {"none", doc.before}
  <1>1. PICK g \in Translation(sym, mods) : e = g \/ e = [g EXCEPT !.prev = doc.before]
    BY DEF Reported
  <1>2. IsEvent(g) /\ g.prev = "none"
    BY Translations
  <1>3. CASE e = [g EXCEPT !.prev = doc.before]
    <2>1. g = [key |-> g.key, char |-> g.char, digit |-> g.digit, shift |-> g.shift, prev |-> g.prev]
      BY <1>2 DEF IsEvent
    <2>2. e = [key |-> g.key, char |-> g.char, digit |-> g.digit, shift |-> g.shift, prev |-> doc.before]
      BY <1>3, <2>1
    <2> QED BY <1>2, <2>2 DEF IsEvent
  <1> QED BY <1>1, <1>2, <1>3

\* What observe() arms and when it toggles: a modifier is armed by its own press without
\* Ctrl or Alt besides it, or stays armed through the other one's release or the chord;
\* it toggles only on the release of an armed one, or with the chord.
LEMMA Observations ==
    ASSUME NEW t \in Bindings, NEW b \in Bindings, NEW sym, NEW release \in BOOLEAN, NEW mods,
           NEW o, o = Observe(t, b, sym, release, mods)
    PROVE  /\ o.t \in Bindings
           /\ o.t.shift => \/ t.shift /\ sym = "space" /\ mods = {"Ctrl", "Alt"}
                           \/ sym = "Shift" /\ ~release /\ mods \cap {"Ctrl", "Alt"} = {}
                           \/ sym = "Ctrl" /\ release /\ t.shift
           /\ o.t.ctrl => \/ t.ctrl /\ sym = "space" /\ mods = {"Ctrl", "Alt"}
                          \/ sym = "Ctrl" /\ ~release /\ mods \cap {"Alt"} = {}
                          \/ sym = "Shift" /\ release /\ t.ctrl
           /\ o.toggle => \/ sym = "space" /\ ~release
                          \/ sym = "Shift" /\ release /\ t.shift
                          \/ sym = "Ctrl" /\ release /\ t.ctrl
  <1> DEFINE clear == mods \cap Others(sym) = {}
             armed == IF sym = "Shift" THEN t.shift /\ b.shift ELSE t.ctrl /\ b.ctrl
  <1>1. CASE b.chord /\ ~release /\ sym = "space" /\ mods = {"Ctrl", "Alt"}
    <2>1. o = [t |-> [t EXCEPT !.chord = TRUE], toggle |-> ~t.chord]
      BY <1>1, Zenon DEF Observe
    <2>2. PICK u : u = [t EXCEPT !.chord = TRUE]
      OBVIOUS
    <2>3. o.t = u
      BY <2>1, <2>2
    <2>4. u \in Bindings /\ u.shift = t.shift /\ u.ctrl = t.ctrl
      BY <2>2 DEF Bindings
    <2> QED BY <1>1, <2>3, <2>4
  <1>2. CASE sym \in {"Shift", "Ctrl"} /\ ~release
    <2>1. o = [t |-> [shift |-> sym = "Shift" /\ b.shift /\ clear,
                      ctrl |-> sym = "Ctrl" /\ b.ctrl /\ clear, chord |-> FALSE], toggle |-> FALSE]
      BY <1>2, Zenon DEF Observe
    <2>2. sym = "Shift" => (clear <=> mods \cap {"Ctrl", "Alt"} = {})
      BY DEF Others
    <2>3. sym = "Ctrl" => (clear <=> mods \cap {"Alt"} = {})
      BY DEF Others
    <2> HIDE DEF clear
    <2>4. PICK v \in BOOLEAN : v = (sym = "Shift" /\ b.shift /\ clear)
      OBVIOUS
    <2>5. PICK w \in BOOLEAN : w = (sym = "Ctrl" /\ b.ctrl /\ clear)
      OBVIOUS
    <2>6. o = [t |-> [shift |-> v, ctrl |-> w, chord |-> FALSE], toggle |-> FALSE]
      BY <2>1, <2>4, <2>5
    <2>7. o.t \in Bindings /\ o.t.shift = v /\ o.t.ctrl = w /\ o.toggle = FALSE
      BY <2>6 DEF Bindings
    <2> QED BY <1>2, <2>2, <2>3, <2>4, <2>5, <2>7
  <1>3. CASE sym \in {"Shift", "Ctrl"} /\ release
    <2>1. o = [t |-> [shift |-> sym # "Shift" /\ t.shift, ctrl |-> sym # "Ctrl" /\ t.ctrl, chord |-> FALSE],
               toggle |-> armed /\ clear]
      BY <1>3, Zenon DEF Observe
    <2>2. armed => (IF sym = "Shift" THEN t.shift ELSE t.ctrl)
      OBVIOUS
    <2> HIDE DEF armed, clear
    <2>3. PICK v \in BOOLEAN : v = (sym # "Shift" /\ t.shift)
      OBVIOUS
    <2>4. PICK w \in BOOLEAN : w = (sym # "Ctrl" /\ t.ctrl)
      OBVIOUS
    <2>5. PICK x \in BOOLEAN : x = (armed /\ clear)
      OBVIOUS
    <2>6. o = [t |-> [shift |-> v, ctrl |-> w, chord |-> FALSE], toggle |-> x]
      BY <2>1, <2>3, <2>4, <2>5
    <2>7. o.t \in Bindings /\ o.t.shift = v /\ o.t.ctrl = w /\ o.toggle = x
      BY <2>6 DEF Bindings
    <2> QED BY <1>3, <2>2, <2>3, <2>4, <2>5, <2>7
  <1>4. CASE /\ ~(b.chord /\ ~release /\ sym = "space" /\ mods = {"Ctrl", "Alt"})
             /\ sym \notin {"Shift", "Ctrl"}
    <2>1. o = [t |-> Unarmed, toggle |-> FALSE]
      BY <1>4, Zenon DEF Observe
    <2> QED BY <2>1 DEF Unarmed, Bindings
  <1> QED BY <1>1, <1>2, <1>3, <1>4

-----------------------------------------------------------------------------
(* The inductive invariant: the pending closing marks are the text right   *)
(* of the caret, an open title has its closing mark pending, the display   *)
(* is drawn, and an armed modifier is the one whose tap is under way.      *)

\* The controller between two handlers.
Ready(c) ==
    /\ c \in Controllers /\ Fits(c) /\ Nested(c)
    /\ Len(c.pending) <= MaxPending /\ c.fmt.nest <= MaxNest

\* The panel always shows the controller's modes; with the focus the rest is current too.
Displayed(c, s, f) ==
    /\ s = [pre |-> s.pre, table |-> s.table, panel |-> Panel(c)]
    /\ f => s = Drawn(c, Panel(c))

\* An armed modifier is the one last pressed, then and now without Ctrl or Alt besides it.
Taps == [key : {"Shift", "Ctrl", "none"}, with : SUBSET {"Shift", "Ctrl"}]
Watched(t, h, a) ==
    /\ t \in Bindings
    /\ h \subseteq Modifiers
    /\ a \in Taps
    /\ t.shift => a.key = "Shift" /\ a.with \subseteq {"Shift"} /\ h \cap {"Ctrl", "Alt"} = {}
    /\ t.ctrl => a.key = "Ctrl" /\ a.with \subseteq {"Shift"} /\ "Alt" \notin h

\* The part of the invariant about text, controller and display ...
Typing == Ready(ctl) /\ Safe(ctl, doc) /\ Displayed(ctl, shown, focused)

\* ... and the part about the mode-toggle tracker.
Watching == Watched(trk, held, tap)

\* The inductive invariant.
InputInv == Typing /\ Watching /\ focused \in BOOLEAN

\* Drawing the controller displays it.
LEMMA Drawings ==
    ASSUME NEW c, NEW f, NEW s, s = Drawn(c, Panel(c))
    PROVE  Displayed(c, s, f)
  BY DEF Displayed, Drawn

\* apply_result keeps the typing part ...
LEMMA Applied ==
    ASSUME Typing, NEW r \in Results, Fits(r.c), Nested(r.c), Safe(r.c, Edited(doc, r)),
           NEW sync \in BOOLEAN, sync \/ Panel(r.c) = Panel(ctl), Apply(r, doc, sync)
    PROVE  Typing'
  <1>1. r.c \in Controllers /\ ctl' = r.c /\ doc' = Edited(doc, r)
    BY DEF Apply, Results
  <1>2. Ready(ctl')
    BY <1>1 DEF Apply, Ready
  <1>3. Safe(ctl', doc')
    BY <1>1
  <1>4. shown.panel = Panel(ctl)
    BY DEF Typing, Displayed
  <1>5. shown' = Drawn(ctl', Panel(ctl'))
    BY <1>1, <1>4 DEF Apply
  <1>6. Displayed(ctl', shown', focused')
    BY <1>5, Drawings
  <1> QED BY <1>2, <1>3, <1>6 DEF Typing

\* ... in particular of a sound result.
LEMMA SoundlyApplied ==
    ASSUME Typing, NEW p \in {"none", doc.before}, NEW r, Sound(ctl, r, p),
           NEW sync \in BOOLEAN, sync \/ Panel(r.c) = Panel(ctl), Apply(r, doc, sync)
    PROVE  Typing'
  <1>1. ctl \in Controllers /\ Safe(ctl, doc) /\ Nested(ctl)
    BY DEF Typing, Ready
  <1>2. r \in Results /\ Fits(r.c) /\ Nested(r.c)
    BY <1>1 DEF Sound
  <1>3. Len(r.c.pending) <= MaxPending
    BY DEF Apply
  <1>4. Safe(r.c, Edited(doc, r))
    BY <1>1, <1>3, EditedIsSafe
  <1> QED BY <1>2, <1>4, Applied

\* A controller with no context fits every document.
LEMMA Cleared ==
    ASSUME NEW c \in Controllers, c.pending = <<>>, c.fmt.nest = 0, NEW d \in Documents, ~d.lost
    PROVE  (Fits(c) => Ready(c)) /\ Safe(c, d)
  <1>1. d.right \in Seq(Closers)
    BY DEF Documents
  <1>2. Mirrors(c.pending, d.right)
    BY <1>1, MirrorsNothing
  <1>3. Len(c.pending) = 0
    OBVIOUS
  <1>4. Nested(c) /\ Len(c.pending) <= MaxPending /\ c.fmt.nest <= MaxNest
    BY <1>3, BoundsAssumption DEF Nested
  <1> QED BY <1>2, <1>4 DEF Ready, Safe

\* commit_for_passthrough and the application's own key keep the typing part.
LEMMA PassedOn ==
    ASSUME Typing, NEW c \in Controllers, Fits(c), Panel(c) = Panel(ctl), NEW sym, NEW mods,
           Passthrough(c, sym, mods)
    PROVE  Typing'
  <1>1. PICK r \in HostShortcut(c) : \E d \in ClientKey(Edited(doc, r), sym, mods) :
            ctl' = r.c /\ doc' = d /\ shown' = Drawn(r.c, shown.panel)
    BY DEF Passthrough
  <1>2. PICK d \in ClientKey(Edited(doc, r), sym, mods) :
            ctl' = r.c /\ doc' = d /\ shown' = Drawn(r.c, shown.panel)
    BY <1>1
  <1>3. /\ r \in Results
        /\ Fits(r.c)
        /\ Panel(r.c) = Panel(c)
        /\ r.c.pending = <<>>
        /\ r.c.fmt.nest = 0
        /\ r.del = 0 /\ r.left = 0 /\ r.right = 0
    BY ShortcutResult
  <1>4. doc \in Documents /\ ~doc.lost
    BY DEF Typing, Safe
  <1>5. PICK x : x = Edited(doc, r)
    OBVIOUS
  <1>6. x \in Documents /\ ~x.lost
    BY <1>3, <1>4, <1>5, EditedPlainly
  <1>7. d \in Documents /\ ~d.lost
    BY <1>5, <1>6, ClientKeys
  <1>8. r.c \in Controllers
    BY <1>3 DEF Results
  <1>9. Ready(ctl') /\ Safe(ctl', doc')
    BY <1>2, <1>3, <1>7, <1>8, Cleared
  <1>10. shown' = Drawn(ctl', Panel(ctl'))
    BY <1>2, <1>3 DEF Typing, Displayed
  <1> QED BY <1>9, <1>10, Drawings DEF Typing

\* Every key event keeps the tracker's part.
LEMMA PhysicalIsWatched ==
    ASSUME InputInv, NEW sym, NEW release \in BOOLEAN, Physical(sym, release)
    PROVE  Watching' /\ focused' \in BOOLEAN
  <1>1. ctl.opt \in Options
    BY DEF InputInv, Typing, Ready, Controllers
  <1>2. PICK b \in Bindings : b = ctl.opt.bind
    BY <1>1, OptionsAssumption
  <1>3. /\ trk \in Bindings /\ held \subseteq Modifiers /\ tap \in Taps
        /\ trk.shift => tap.key = "Shift" /\ tap.with \subseteq {"Shift"} /\ held \cap {"Ctrl", "Alt"} = {}
        /\ trk.ctrl => tap.key = "Ctrl" /\ tap.with \subseteq {"Shift"} /\ "Alt" \notin held
    BY DEF InputInv, Watching, Watched
  <1>4. PICK o : o = Observe(trk, b, sym, release, held)
    OBVIOUS
  <1>5. trk' = o.t
    BY <1>2, <1>4 DEF Physical, Observed
  <1>6. /\ o.t \in Bindings
        /\ o.t.shift => \/ trk.shift /\ sym = "space" /\ held = {"Ctrl", "Alt"}
                        \/ sym = "Shift" /\ ~release /\ held \cap {"Ctrl", "Alt"} = {}
                        \/ sym = "Ctrl" /\ release /\ trk.shift
        /\ o.t.ctrl => \/ trk.ctrl /\ sym = "space" /\ held = {"Ctrl", "Alt"}
                       \/ sym = "Ctrl" /\ ~release /\ held \cap {"Alt"} = {}
                       \/ sym = "Shift" /\ release /\ trk.ctrl
    BY <1>3, <1>4, Observations
  <1>7. /\ held' = IF sym \notin Modifiers THEN held
                   ELSE IF release THEN held \ {sym} ELSE held \cup {sym}
        /\ tap' = IF release THEN IF tap.key = sym THEN NoTap ELSE tap
                  ELSE IF sym \in {"Shift", "Ctrl"} /\ "Alt" \notin held
                       THEN [key |-> sym, with |-> held \ {sym}] ELSE NoTap
        /\ focused' = focused
    BY DEF Physical, Tapped
  <1>8. held' \subseteq Modifiers
    BY <1>3, <1>7
  <1>9. tap' \in Taps
    BY <1>3, <1>7 DEF Taps, NoTap, Modifiers
  <1>10. ASSUME o.t.shift
               PROVE  tap'.key = "Shift" /\ tap'.with \subseteq {"Shift"} /\ held' \cap {"Ctrl", "Alt"} = {}
    <2>1. CASE trk.shift /\ sym = "space" /\ held = {"Ctrl", "Alt"}
      BY <1>3, <2>1
    <2>2. CASE sym = "Shift" /\ ~release /\ held \cap {"Ctrl", "Alt"} = {}
      BY <1>3, <1>7, <2>2 DEF Modifiers
    <2>3. CASE sym = "Ctrl" /\ release /\ trk.shift
      BY <1>3, <1>7, <2>3 DEF Modifiers
    <2> QED BY <1>6, <1>10, <2>1, <2>2, <2>3
  <1>11. ASSUME o.t.ctrl
               PROVE  tap'.key = "Ctrl" /\ tap'.with \subseteq {"Shift"} /\ "Alt" \notin held'
    <2>1. CASE trk.ctrl /\ sym = "space" /\ held = {"Ctrl", "Alt"}
      BY <1>3, <2>1
    <2>2. CASE sym = "Ctrl" /\ ~release /\ held \cap {"Alt"} = {}
      BY <1>3, <1>7, <2>2 DEF Modifiers
    <2>3. CASE sym = "Shift" /\ release /\ trk.ctrl
      BY <1>3, <1>7, <2>3 DEF Modifiers
    <2> QED BY <1>6, <1>11, <2>1, <2>2, <2>3
  <1>12. Watched(trk', held', tap')
    BY <1>5, <1>6, <1>8, <1>9, <1>10, <1>11 DEF Watched
  <1> QED BY <1>7, <1>12 DEF Watching, InputInv

\* A handler that is no key event leaves the tracker alone.
LEMMA Stepped ==
    ASSUME InputInv, Typing', UNCHANGED <<trk, held, tap>>, focused' \in BOOLEAN
    PROVE  InputInv'
  BY DEF InputInv, Watching

\* What the invariant says of the current state.
LEMMA Current ==
    ASSUME InputInv
    PROVE  /\ ctl \in Controllers /\ Fits(ctl) /\ Typing /\ ctl.opt \in Options
           /\ doc \in Documents /\ ~doc.lost /\ shown.panel = Panel(ctl) /\ focused \in BOOLEAN
  BY DEF InputInv, Typing, Ready, Safe, Displayed, Controllers

\* One lemma per action: the invariant is kept by a key that switches the language,
LEMMA ToggleKeyInv ==
    ASSUME InputInv, NEW sym, NEW release \in BOOLEAN, ToggleKey(sym, release)
    PROVE  InputInv'
  <1>1. Watching' /\ focused' \in BOOLEAN
    BY PhysicalIsWatched DEF ToggleKey
  <1>2. PICK r \in ToggleMode(ctl) : Apply(r, doc, TRUE)
    BY DEF ToggleKey
  <1>3. PICK m \in {"Ime", "Direct"} : r \in SetMode(ctl, m)
    BY <1>2 DEF ToggleMode, Flip
  <1>4. Steady(ctl, r)
    BY <1>3, Current, ModeIsSteady
  <1>5. Sound(ctl, r, "none")
    BY <1>4, SteadyIsSound
  <1>6. Typing'
    BY <1>2, <1>5, Current, SoundlyApplied
  <1> QED BY <1>1, <1>6 DEF InputInv

\* a key that is ignored,
LEMMA IgnoreKeyInv ==
    ASSUME InputInv, NEW sym, NEW release \in BOOLEAN, IgnoreKey(sym, release)
    PROVE  InputInv'
  <1>1. Watching' /\ focused' \in BOOLEAN
    BY PhysicalIsWatched DEF IgnoreKey
  <1>2. ctl' = ctl /\ doc' = doc /\ shown' = shown /\ focused' = focused
    BY DEF IgnoreKey, Physical
  <1>3. Typing'
    BY <1>2, Current DEF Typing
  <1> QED BY <1>1, <1>3 DEF InputInv

\* a key that is forwarded,
LEMMA ForwardKeyInv ==
    ASSUME InputInv, NEW sym, ForwardKey(sym)
    PROVE  InputInv'
  <1>1. Watching' /\ focused' \in BOOLEAN
    BY PhysicalIsWatched DEF ForwardKey
  <1>2. Passthrough(ctl, sym, held)
    BY DEF ForwardKey
  <1>3. Typing'
    BY <1>2, Current, PassedOn
  <1> QED BY <1>1, <1>3 DEF InputInv

\* a key that is dispatched,
LEMMA DispatchKeyInv ==
    ASSUME InputInv, NEW sym, DispatchKey(sym)
    PROVE  InputInv'
  <1>1. Watching' /\ focused' \in BOOLEAN
    BY PhysicalIsWatched DEF DispatchKey
  <1>2. PICK e \in Reported(Translation(sym, held)) : \E r \in HandleKey(ctl, e) :
          IF r.handled
          THEN Apply(r, doc, e.key \in {"TogglePunctuation", "ToggleWidth"})
          ELSE Passthrough(r.c, sym, held)
    BY DEF DispatchKey
  <1>3. PICK r \in HandleKey(ctl, e) :
          IF r.handled
          THEN Apply(r, doc, e.key \in {"TogglePunctuation", "ToggleWidth"})
          ELSE Passthrough(r.c, sym, held)
    BY <1>2
  <1>4. IsEvent(e) /\ e.prev \in {"none", doc.before}
    BY <1>2, Reports
  <1>5. /\ Sound(ctl, r, e.prev)
        /\ e.key \notin {"TogglePunctuation", "ToggleWidth"} => Panel(r.c) = Panel(ctl)
        /\ e.key \in {"TogglePunctuation", "ToggleWidth"} => r.handled
    BY <1>3, <1>4, Current, KeyIsSound DEF IsEvent
  <1>6. ASSUME r.handled PROVE Typing'
    <2>1. PICK sync \in BOOLEAN : sync = (e.key \in {"TogglePunctuation", "ToggleWidth"})
      <3>1. (e.key \in {"TogglePunctuation", "ToggleWidth"}) \in BOOLEAN
        OBVIOUS
      <3> QED BY <3>1, Zenon
    <2>2. Apply(r, doc, sync) /\ (sync \/ Panel(r.c) = Panel(ctl))
      BY <1>3, <1>5, <1>6, <2>1
    <2>3. PICK p \in {"none", doc.before} : Sound(ctl, r, p)
      BY <1>4, <1>5
    <2> QED BY <2>2, <2>3, Current, SoundlyApplied
  <1>7. ASSUME ~r.handled PROVE Typing'
    <2>1. Passthrough(r.c, sym, held) /\ Panel(r.c) = Panel(ctl)
      BY <1>3, <1>5, <1>7
    <2>2. r.c \in Controllers /\ Fits(r.c)
      BY <1>5 DEF Sound, Results
    <2> QED BY <2>1, <2>2, Current, PassedOn
  <1>8. Typing'
    BY <1>6, <1>7
  <1> QED BY <1>1, <1>8 DEF InputInv

\* Reset ends the composition and forgets the context.
LEMMA ResetIsReady ==
    ASSUME NEW c \in Controllers, Fits(c), NEW g \in Reset(c), NEW d \in Documents, ~d.lost
    PROVE  Ready(g) /\ Safe(g, d) /\ Panel(g) = Panel(c)
  <1>1. PICK r \in Mutations(c, SessionEnd(c.comp, {<<>>})) : g = InvalidateContext(r.c)
    BY DEF Reset
  <1>2. PICK T \in SUBSET Texts : T = {<<>>}
    BY DEF Texts
  <1>3. Quiet(c, r)
    BY <1>1, <1>2, FinishIsQuiet
  <1>4. r.c \in Controllers /\ Fits(r.c) /\ Panel(r.c) = Panel(c)
    BY <1>3 DEF Quiet, Steady, Results
  <1>5. g \in Controllers /\ Fits(g) /\ Panel(g) = Panel(r.c) /\ g.pending = <<>> /\ g.fmt.nest = 0
    BY <1>1, <1>4, Invalidated
  <1> QED BY <1>4, <1>5, Cleared

\* invalidate_context fits every document.
LEMMA InvalidIsReady ==
    ASSUME NEW c \in Controllers, Fits(c), NEW g, g = InvalidateContext(c),
           NEW d \in Documents, ~d.lost
    PROVE  /\ Ready(g)
           /\ Safe(g, d)
           /\ Panel(g) = Panel(c)
           /\ g.comp = c.comp
           /\ g.high = c.high
           /\ g.opt = c.opt
  BY Invalidated, Cleared

\* focus_in,
LEMMA FocusInInv ==
    ASSUME InputInv, FocusIn
    PROVE  InputInv'
  <1>1. doc' \in Documents /\ ~doc'.lost
    BY Current, Elsewheres DEF FocusIn
  <1>2. ctl' = InvalidateContext(ctl) /\ shown' = Drawn(ctl', shown.panel)
    BY DEF FocusIn
  <1>3. Ready(ctl') /\ Safe(ctl', doc') /\ Panel(ctl') = Panel(ctl)
    BY <1>1, <1>2, Current, InvalidIsReady
  <1>4. shown' = Drawn(ctl', Panel(ctl'))
    BY <1>2, <1>3, Current
  <1>5. Typing'
    BY <1>3, <1>4, Drawings DEF Typing
  <1>6. held' \in {{}, held} /\ trk' = trk /\ tap' = tap /\ focused' = TRUE
    BY DEF FocusIn
  <1>7. Watched(trk, held, tap)
    BY DEF InputInv, Watching
  <1>8. Watched(trk', held', tap')
    BY <1>6, <1>7 DEF Watched
  <1> QED BY <1>5, <1>6, <1>8 DEF InputInv, Watching

\* focus_out,
LEMMA FocusOutInv ==
    ASSUME InputInv, FocusOut
    PROVE  InputInv'
  <1>1. /\ ctl' \in Reset(ctl)
        /\ doc' = doc
        /\ focused' = FALSE
        /\ shown' = [Drawn(ctl', shown.panel) EXCEPT !.pre = 0]
        /\ UNCHANGED <<trk, held, tap>>
    BY DEF FocusOut
  <1>2. Ready(ctl') /\ Safe(ctl', doc') /\ Panel(ctl') = Panel(ctl)
    BY <1>1, Current, ResetIsReady
  <1>3. shown' = [pre |-> 0, table |-> Table(ctl'), panel |-> Panel(ctl')]
    BY <1>1, <1>2, Current DEF Drawn
  <1>4. Displayed(ctl', shown', focused')
    BY <1>1, <1>3 DEF Displayed
  <1>5. Typing'
    BY <1>2, <1>4 DEF Typing
  <1> QED BY <1>1, <1>5, Stepped

\* reset,
LEMMA ClientResetInv ==
    ASSUME InputInv, ClientReset
    PROVE  InputInv'
  <1>1. /\ ctl' \in Reset(ctl)
        /\ doc' \in Elsewhere(doc)
        /\ focused' = focused
        /\ shown' = Drawn(ctl', shown.panel)
        /\ UNCHANGED <<trk, held, tap>>
    BY DEF ClientReset
  <1>2. doc' \in Documents /\ ~doc'.lost
    BY <1>1, Current, Elsewheres
  <1>3. Ready(ctl') /\ Safe(ctl', doc') /\ Panel(ctl') = Panel(ctl)
    BY <1>1, <1>2, Current, ResetIsReady
  <1>4. shown' = Drawn(ctl', Panel(ctl'))
    BY <1>1, <1>3, Current
  <1>5. Typing'
    BY <1>3, <1>4, Drawings DEF Typing
  <1> QED BY <1>1, <1>5, Current, Stepped

\* a change of the text by the application,
LEMMA ClientEditInv ==
    ASSUME InputInv, ClientEdit
    PROVE  InputInv'
  <1>1. PICK b \in Before : doc' = [doc EXCEPT !.before = b]
    BY DEF ClientEdit
  <1>2. ctl' = ctl /\ shown' = shown /\ focused' = focused /\ UNCHANGED <<trk, held, tap>>
    BY DEF ClientEdit
  <1>3. doc' \in Documents /\ ~doc'.lost /\ doc'.right = doc.right
    BY <1>1, Current, Retyped
  <1>4. Typing'
    BY <1>2, <1>3, Current DEF Typing, Safe
  <1> QED BY <1>2, <1>4, Current, Stepped

\* enable,
LEMMA EnableInv ==
    ASSUME InputInv, Enable
    PROVE  InputInv'
  <1>1. PICK m \in {"Ime", "Direct"} : m = ctl.opt.default_mode
    BY Current, OptionsAssumption
  <1>2. PICK r \in SetMode(ctl, m) :
          IF r.handled
          THEN Apply([r EXCEPT !.c = InvalidateContext(@)], doc, TRUE)
          ELSE ctl' = InvalidateContext(r.c) /\ UNCHANGED <<doc, shown>>
    BY <1>1 DEF Enable
  <1>3. UNCHANGED <<trk, held, tap>> /\ focused' = focused
    BY DEF Enable
  <1>4. Steady(ctl, r) /\ (r.handled \/ r.c = ClearHistory(ctl))
    BY <1>2, Current, ModeIsSteady
  <1>5. r \in Results /\ r.c \in Controllers /\ Fits(r.c) /\ r.del = 0 /\ r.left = 0 /\ r.right = 0
    BY <1>4 DEF Steady, Results
  <1>6. PICK g : g = InvalidateContext(r.c)
    OBVIOUS
  <1>7. g \in Controllers /\ Fits(g) /\ g.pending = <<>> /\ g.fmt.nest = 0 /\ Panel(g) = Panel(r.c)
        /\ g.comp = r.c.comp /\ g.high = r.c.high /\ g.opt = r.c.opt
    BY <1>5, <1>6, Invalidated
  <1>8. ASSUME r.handled PROVE Typing'
    <2>1. PICK s : s = [r EXCEPT !.c = g]
      OBVIOUS
    <2>2. s \in Results /\ s.c = g /\ s.del = 0 /\ s.left = 0 /\ s.right = 0
      BY <1>5, <1>7, <2>1 DEF Results
    <2>3. [r EXCEPT !.c = InvalidateContext(@)] = s
      BY <1>5, <1>6, <2>1 DEF Results
    <2>4. Apply(s, doc, TRUE)
      BY <1>2, <1>8, <2>3
    <2>5. PICK x : x = Edited(doc, s)
      OBVIOUS
    <2>6. x \in Documents /\ ~x.lost
      BY <2>2, <2>5, Current, EditedPlainly
    <2>7. Ready(g) /\ Safe(g, x)
      BY <1>7, <2>6, Cleared
    <2>8. Fits(s.c) /\ Nested(s.c) /\ Safe(s.c, Edited(doc, s))
      BY <2>2, <2>5, <2>7 DEF Ready
    <2>9. PICK sync \in BOOLEAN : sync /\ Apply(s, doc, sync)
      BY <2>4
    <2> QED BY <2>2, <2>8, <2>9, Current, Applied
  <1>9. ASSUME ~r.handled PROVE Typing'
    <2>1. ctl' = g /\ doc' = doc /\ shown' = shown
      BY <1>2, <1>6, <1>9
    <2>2. Ready(ctl') /\ Safe(ctl', doc')
      BY <1>7, <2>1, Current, Cleared
    <2>3. /\ Panel(r.c) = Panel(ctl)
          /\ r.c.comp = ctl.comp
          /\ r.c.high = ctl.high
          /\ r.c.opt = ctl.opt
      BY <1>4, <1>9, Current, ClearedHistory DEF Kept
    <2>4. /\ Panel(ctl') = Panel(ctl)
          /\ ctl'.comp = ctl.comp
          /\ ctl'.high = ctl.high
          /\ ctl'.opt = ctl.opt
      BY <1>7, <2>1, <2>3
    <2>5. Drawn(ctl', Panel(ctl')) = Drawn(ctl, Panel(ctl))
      BY <2>4 DEF Drawn, Preedit, Table, Composing
    <2>6. Displayed(ctl, shown, focused)
      BY Current DEF Typing
    <2>7. Displayed(ctl', shown', focused')
      BY <1>3, <2>1, <2>4, <2>5, <2>6 DEF Displayed
    <2> QED BY <2>2, <2>7 DEF Typing
  <1> QED BY <1>3, <1>8, <1>9, Current, Stepped

\* a click on a candidate,
LEMMA ClickInv ==
    ASSUME InputInv, NEW i, Click(i)
    PROVE  InputInv'
  <1>1. PICK r \in SelectPageCandidate(ctl, i) : Apply(r, doc, FALSE)
    BY DEF Click
  <1>2. UNCHANGED <<trk, held, tap>> /\ focused' = focused
    BY DEF Click
  <1>3. Quiet(ctl, r)
    BY <1>1, Current, SelectPageIsQuiet
  <1>4. Sound(ctl, r, "none") /\ Panel(r.c) = Panel(ctl)
    BY <1>3, SteadyIsSound DEF Quiet
  <1>5. Typing'
    BY <1>1, <1>4, Current, SoundlyApplied
  <1> QED BY <1>2, <1>5, Current, Stepped

\* a paging arrow,
LEMMA NavigateInv ==
    ASSUME InputInv, NEW key \in {"Up", "Down", "PageUp", "PageDown"}, Navigate(key)
    PROVE  InputInv'
  <1>1. PICK e : e = Event(key, "", 0, {})
    OBVIOUS
  <1>2. PICK r \in HandleKey(ctl, e) :
          IF r.handled THEN Apply(r, doc, FALSE) ELSE ctl' = r.c /\ UNCHANGED <<doc, shown>>
    BY <1>1 DEF Navigate
  <1>3. UNCHANGED <<trk, held, tap>> /\ focused' = focused
    BY DEF Navigate
  <1>4. e.key = key /\ e.prev = "none"
    BY <1>1 DEF Event
  <1>5. key \in PlainKeys /\ key # "Punctuation" /\ key \notin {"TogglePunctuation", "ToggleWidth"}
    BY DEF PlainKeys
  <1>6. Sound(ctl, r, e.prev) /\ Panel(r.c) = Panel(ctl)
    BY <1>2, <1>4, <1>5, Current, KeyIsSound
  <1>7. r.handled \/ r.c = ClearHistory(ctl)
    BY <1>2, <1>4, Current, ArrowIsQuiet
  <1>8. ASSUME r.handled PROVE Typing'
    <2>1. Apply(r, doc, FALSE)
      BY <1>2, <1>8
    <2> QED BY <1>4, <1>6, <2>1, Current, SoundlyApplied
  <1>9. ASSUME ~r.handled PROVE Typing'
    <2>1. ctl' = r.c /\ doc' = doc /\ shown' = shown
      BY <1>2, <1>9
    <2>2. /\ r.c \in Controllers /\ Fits(r.c) /\ Kept(ctl, r.c) /\ Panel(r.c) = Panel(ctl)
          /\ r.c.comp = ctl.comp /\ r.c.high = ctl.high
      BY <1>7, <1>9, Current, ClearedHistory
    <2>3. Ready(ctl) /\ Safe(ctl, doc) /\ Displayed(ctl, shown, focused)
      BY Current DEF Typing
    <2>4. Ready(ctl')
      BY <2>1, <2>2, <2>3 DEF Ready, Kept, Nested
    <2>5. Safe(ctl', doc')
      BY <2>1, <2>2, <2>3 DEF Safe, Kept
    <2>6. Drawn(ctl', Panel(ctl')) = Drawn(ctl, Panel(ctl))
      BY <2>1, <2>2 DEF Drawn, Preedit, Table, Composing, Kept
    <2>7. Displayed(ctl', shown', focused')
      BY <1>3, <2>1, <2>2, <2>3, <2>6 DEF Displayed
    <2> QED BY <2>4, <2>5, <2>7 DEF Typing
  <1> QED BY <1>3, <1>8, <1>9, Current, Stepped

\* a panel entry,
LEMMA PropertyActivateInv ==
    ASSUME InputInv, PropertyActivate
    PROVE  InputInv'
  <1> DEFINE modes == UNION {SetMode(ctl, m) : m \in {"Ime", "Direct"}}
             puncts == {SetPunctuationMode(ctl, m) : m \in {"Chinese", "English"}}
             widths == {SetCharacterWidth(ctl, w) : w \in {"Half", "Full"}}
             schemes == UNION {SwitchScheme(ctl, s) : s \in Schemes}
  <1>1. PICK r \in modes \cup puncts \cup widths \cup schemes : Apply(r, doc, TRUE)
    BY DEF PropertyActivate
  <1>2. \/ \E m \in {"Ime", "Direct"} : r \in SetMode(ctl, m)
        \/ \E m \in {"Chinese", "English"} : r = SetPunctuationMode(ctl, m)
        \/ \E w \in {"Half", "Full"} : r = SetCharacterWidth(ctl, w)
        \/ \E s \in Schemes : r \in SwitchScheme(ctl, s)
    <2>1. r \in modes => \E m \in {"Ime", "Direct"} : r \in SetMode(ctl, m)
      OBVIOUS
    <2>2. r \in puncts => \E m \in {"Chinese", "English"} : r = SetPunctuationMode(ctl, m)
      OBVIOUS
    <2>3. r \in widths => \E w \in {"Half", "Full"} : r = SetCharacterWidth(ctl, w)
      OBVIOUS
    <2>4. r \in schemes => \E s \in Schemes : r \in SwitchScheme(ctl, s)
      OBVIOUS
    <2> HIDE DEF modes, puncts, widths, schemes
    <2> QED BY <1>1, <2>1, <2>2, <2>3, <2>4, Zenon
  <1>3. UNCHANGED <<trk, held, tap>> /\ focused' = focused
    BY DEF PropertyActivate
  <1>4. Steady(ctl, r)
    BY <1>2, Current, ModeIsSteady, SetPunctuation, SetWidth, SchemeIsSteady
  <1>5. Sound(ctl, r, "none")
    BY <1>4, SteadyIsSound
  <1>6. Typing'
    BY <1>1, <1>5, Current, SoundlyApplied
  <1> QED BY <1>3, <1>6, Current, Stepped

\* an online candidate,
LEMMA OnlineArrivesInv ==
    ASSUME InputInv, OnlineArrives
    PROVE  InputInv'
  <1>1. PICK n \in CandidateCounts \ {0} : ctl' = ApplyOnline(ctl, n)
    BY DEF OnlineArrives
  <1>2. doc' = doc /\ focused' = focused /\ UNCHANGED <<trk, held, tap>>
        /\ shown' = [shown EXCEPT !.table = Table(ctl')]
    BY DEF OnlineArrives
  <1>3. n \in Nat /\ n > 0
    <2>1. n \in Nat /\ n # 0
      BY SessionAssumption
    <2> QED BY <2>1
  <1>4. ctl.comp \in Compositions
    <2>1. ctl.comp \in Compositions \cup {Nothing}
      BY Current, CompositionOf
    <2>2. ctl.comp # Nothing
      BY DEF OnlineArrives, Composing, IsComposing, Nothing
    <2> QED BY <2>1, <2>2
  <1>5. PICK s : s = [ctl.comp EXCEPT !.n = n]
    OBVIOUS
  <1>6. s \in Compositions /\ s.n = n /\ s.pre = ctl.comp.pre
    BY <1>4, <1>5 DEF Compositions
  <1>7. ctl.high \in Nat /\ ctl.comp.n \in Nat
    BY Current, CompositionOf, CandidatesAreCounted DEF Controllers
  <1>8. PICK h \in Nat : h = IF n # ctl.comp.n /\ n > 0 /\ ctl.high > n - 1 THEN n - 1 ELSE ctl.high
    BY <1>3, <1>7
  <1>9. h < n
    <2>1. IF ctl.comp.n = 0 THEN ctl.high = 0 ELSE ctl.high < ctl.comp.n
      BY Current DEF Fits
    <2> QED BY <1>3, <1>7, <1>8, <2>1
  <1>10. ctl' = [ctl EXCEPT !.comp = s, !.high = h]
    BY <1>1, <1>5, <1>8, Current DEF ApplyOnline, Controllers
  <1>11. /\ ctl' \in Controllers /\ Kept(ctl, ctl') /\ Panel(ctl') = Panel(ctl)
         /\ ctl'.comp = s /\ ctl'.high = h
    <2>1. PICK t \in Compositions \cup {Nothing} : t = s
      BY <1>6
    <2>2. ctl' = [ctl EXCEPT !.comp = t, !.high = h]
      BY <1>10, <2>1
    <2>3. ctl \in Controllers
      BY Current
    <2>4. /\ ctl' \in Controllers /\ Kept(ctl, ctl') /\ Panel(ctl') = Panel(ctl)
          /\ ctl'.comp = t /\ ctl'.high = h
      BY <2>2, <2>3 DEF Controllers, Kept, Panel
    <2> QED BY <2>1, <2>4
  <1>12. Fits(ctl')
    BY <1>3, <1>6, <1>9, <1>11 DEF Fits
  <1>13. Ready(ctl) /\ Safe(ctl, doc) /\ Displayed(ctl, shown, focused)
    BY Current DEF Typing
  <1>14. Ready(ctl')
    BY <1>11, <1>12, <1>13 DEF Ready, Kept, Nested
  <1>15. Safe(ctl', doc')
    BY <1>2, <1>11, <1>13 DEF Safe, Kept
  <1>16. shown' = [pre |-> shown.pre, table |-> Table(ctl'), panel |-> Panel(ctl')]
    BY <1>2, <1>11, <1>13 DEF Displayed
  <1>17. Preedit(ctl') = Preedit(ctl)
    BY <1>6, <1>11 DEF Preedit, Kept
  <1>18. focused => shown.pre = Preedit(ctl)
    BY <1>13 DEF Displayed, Drawn
  <1>19. Displayed(ctl', shown', focused')
    BY <1>2, <1>16, <1>17, <1>18 DEF Displayed, Drawn
  <1>20. Typing'
    BY <1>14, <1>15, <1>19 DEF Typing
  <1> QED BY <1>2, <1>20, Current, Stepped

\* a reload of the settings,
LEMMA ReloadInv ==
    ASSUME InputInv, Reload
    PROVE  InputInv'
  <1>1. PICK r \in HostShortcut(ctl), o \in Options, s \in Persisted :
          /\ ctl' = CreateController(o, s)
          /\ doc' = Edited(doc, r)
          /\ trk' = Configure(trk, o.bind)
    BY DEF Reload
  <1>2. shown' = Drawn(ctl', Panel(ctl')) /\ held' = held /\ tap' = tap /\ focused' = focused
    BY DEF Reload
  <1>3. r \in Results /\ r.del = 0 /\ r.left = 0 /\ r.right = 0
    BY <1>1, Current, ShortcutResult
  <1>4. doc' \in Documents /\ ~doc'.lost
    BY <1>1, <1>3, Current, EditedPlainly
  <1>5. ctl' \in Controllers /\ Fits(ctl') /\ ctl'.pending = <<>> /\ ctl'.fmt.nest = 0
    BY <1>1, NewControllers
  <1>6. Ready(ctl') /\ Safe(ctl', doc')
    BY <1>4, <1>5, Cleared
  <1>7. Typing'
    BY <1>2, <1>6, Drawings DEF Typing
  <1>8. Watched(trk, held, tap)
    BY DEF InputInv, Watching
  <1>9. trk' \in Bindings /\ (trk'.shift => trk.shift) /\ (trk'.ctrl => trk.ctrl)
    <2>1. PICK u \in BOOLEAN, v \in BOOLEAN, w \in BOOLEAN :
             /\ u = (trk.shift /\ o.bind.shift)
             /\ v = (trk.ctrl /\ o.bind.ctrl)
             /\ w = (trk.chord /\ o.bind.chord)
      OBVIOUS
    <2>2. trk' = [shift |-> u, ctrl |-> v, chord |-> w]
      BY <1>1, <2>1 DEF Configure
    <2> QED BY <2>1, <2>2 DEF Bindings
  <1>10. Watched(trk', held', tap')
    BY <1>2, <1>8, <1>9 DEF Watched
  <1> QED BY <1>2, <1>7, <1>10, Current DEF InputInv, Watching

\* and the time that passes.
LEMMA TwoSecondsInv ==
    ASSUME InputInv, TwoSeconds
    PROVE  InputInv'
  <1>1. /\ ctl' = [ctl EXCEPT !.hist.recent = FALSE]
        /\ doc' = doc
        /\ shown' = shown
        /\ focused' = focused
        /\ UNCHANGED <<trk, held, tap>>
    BY DEF TwoSeconds
  <1>2. PICK h : h = [ctl.hist EXCEPT !.recent = FALSE]
    OBVIOUS
  <1>3. h \in Histories
    BY <1>2, Current DEF Controllers, Histories
  <1>4. ctl' = [ctl EXCEPT !.hist = h]
    BY <1>1, <1>2, Current DEF Controllers
  <1>5. /\ ctl' \in Controllers /\ Kept(ctl, ctl') /\ Panel(ctl') = Panel(ctl)
        /\ ctl'.comp = ctl.comp /\ ctl'.high = ctl.high
    BY <1>3, <1>4, Current, SetHistory
  <1>6. Ready(ctl) /\ Safe(ctl, doc) /\ Displayed(ctl, shown, focused)
    BY Current DEF Typing
  <1>7. Ready(ctl')
    BY <1>5, <1>6 DEF Ready, Kept, Nested, Fits
  <1>8. Safe(ctl', doc')
    BY <1>1, <1>5, <1>6 DEF Safe, Kept
  <1>9. Drawn(ctl', Panel(ctl')) = Drawn(ctl, Panel(ctl))
    BY <1>5 DEF Drawn, Preedit, Table, Composing, Kept
  <1>10. Displayed(ctl', shown', focused')
    BY <1>1, <1>5, <1>6, <1>9 DEF Displayed
  <1>11. Typing'
    BY <1>7, <1>8, <1>10 DEF Typing
  <1> QED BY <1>1, <1>11, Current, Stepped

\* InputInv is an invariant: every handler of src/src/IBusEngine.cpp keeps it, whatever
\* the session answers and whatever the client reports.
THEOREM InputInvariant == Spec => []InputInv
  <1>1. Init => InputInv
    <2> SUFFICES ASSUME Init PROVE InputInv
      OBVIOUS
    <2>1. PICK o \in Options, s \in Persisted : ctl = CreateController(o, s)
      BY DEF Init
    <2>2. ctl \in Controllers /\ Fits(ctl) /\ ctl.pending = <<>> /\ ctl.fmt.nest = 0
      BY <2>1, NewControllers
    <2>3. doc \in Documents /\ ~doc.lost
      <3>1. doc = [before |-> "other", right |-> <<>>, lost |-> FALSE]
        BY DEF Init
      <3>2. <<>> \in Seq(Closers) /\ Len(<<>>) = 0 /\ 0 <= MaxPending
        BY EmptySeq, BoundsAssumption
      <3>3. "other" \in Before
        BY DEF Before
      <3> QED BY <3>1, <3>2, <3>3 DEF Documents
    <2>4. Ready(ctl) /\ Safe(ctl, doc)
      BY <2>2, <2>3, Cleared
    <2>5. Displayed(ctl, shown, focused)
      BY Drawings DEF Init
    <2>6. trk = Unarmed /\ held = {} /\ tap = NoTap /\ focused = FALSE
      BY DEF Init
    <2>7. Watched(trk, held, tap)
      BY <2>6 DEF Watched, Unarmed, Bindings, Taps, NoTap
    <2> QED BY <2>4, <2>5, <2>6, <2>7 DEF InputInv, Typing, Watching
  <1>2. InputInv /\ [Next]_vars => InputInv'
    <2> SUFFICES ASSUME InputInv, [Next]_vars PROVE InputInv'
      OBVIOUS
    <2>1. CASE \E sym \in Modifiers \cup {"space"}, release \in BOOLEAN : ToggleKey(sym, release)
      BY <2>1, ToggleKeyInv
    <2>2. CASE \E sym \in Modifiers \cup {"space"}, release \in BOOLEAN : IgnoreKey(sym, release)
      BY <2>2, IgnoreKeyInv
    <2>3. CASE ForwardKey("Left")
      BY <2>3, ForwardKeyInv
    <2>4. CASE \E sym \in Keysyms : DispatchKey(sym)
      BY <2>4, DispatchKeyInv
    <2>5. CASE FocusIn
      BY <2>5, FocusInInv
    <2>6. CASE FocusOut
      BY <2>6, FocusOutInv
    <2>7. CASE ClientReset
      BY <2>7, ClientResetInv
    <2>8. CASE ClientEdit
      BY <2>8, ClientEditInv
    <2>9. CASE Enable
      BY <2>9, EnableInv
    <2>10. CASE \E i \in 0..2 : Click(i)
      BY <2>10, ClickInv
    <2>11. CASE \E key \in {"Up", "Down", "PageUp", "PageDown"} : Navigate(key)
      BY <2>11, NavigateInv
    <2>12. CASE PropertyActivate
      BY <2>12, PropertyActivateInv
    <2>13. CASE OnlineArrives
      BY <2>13, OnlineArrivesInv
    <2>14. CASE Reload
      BY <2>14, ReloadInv
    <2>15. CASE TwoSeconds
      BY <2>15, TwoSecondsInv
    <2>16. CASE UNCHANGED vars
      BY <2>16 DEF vars, InputInv, Typing, Watching
    <2> QED BY <2>1, <2>2, <2>3, <2>4, <2>5, <2>6, <2>7, <2>8, <2>9, <2>10, <2>11, <2>12, <2>13, <2>14,
               <2>15, <2>16 DEF Next
  <1> QED BY <1>1, <1>2, PTL DEF Spec

-----------------------------------------------------------------------------
(* The properties.                                                         *)

\* A short sequence is a bounded one.
LEMMA BoundedSequences ==
    ASSUME NEW S, NEW n \in Nat, NEW s \in Seq(S), Len(s) <= n
    PROVE  s \in BoundedSeq(S, n)
  <1>1. PICK m \in 0..n : m = Len(s)
    OBVIOUS
  <1>2. s \in [1..m -> S]
    BY <1>1
  <1> QED BY <1>1, <1>2 DEF BoundedSeq, SeqOf

\* Mirrors says what the property says with the community modules' operators.
LEMMA MirrorsIsPrefix ==
    ASSUME NEW p \in Seq(Closers), NEW q \in Seq(Closers), Mirrors(p, q)
    PROVE  IsPrefix(Reverse(p), q)
  <1>1. PICK n \in Nat : n = Len(p)
    OBVIOUS
  <1>2. n <= Len(q) /\ \A i \in 1..n : p[n + 1 - i] = q[i]
    BY <1>1 DEF Mirrors
  <1>3. PICK r : r = Reverse(p)
    OBVIOUS
  <1>4. r = [i \in 1..n |-> p[(n - i) + 1]]
    BY <1>1, <1>3 DEF Reverse
  <1>5. \A i \in 1..n : (n - i) + 1 \in 1..n /\ (n - i) + 1 = n + 1 - i
    OBVIOUS
  <1>6. \A i \in 1..n : r[i] = q[i] /\ r[i] \in Closers
    BY <1>1, <1>2, <1>4, <1>5
  <1>7. r \in [1..n -> Closers]
    BY <1>1, <1>4, <1>5
  <1>8. r \in Seq(Closers) /\ Len(r) = n
    BY <1>7, IsASeq
  <1>9. PICK u : u = SubSeq(r, 1, n)
    OBVIOUS
  <1>10. u \in Seq(Closers) /\ Len(u) = n /\ \A i \in 1..n : u[i] = r[i]
    BY <1>8, <1>9
  <1>11. PICK v : v = SubSeq(q, 1, n)
    OBVIOUS
  <1>12. v \in Seq(Closers) /\ Len(v) = n /\ \A i \in 1..n : v[i] = q[i]
    BY <1>2, <1>11
  <1>13. u = v
    BY <1>6, <1>10, <1>12, SeqEqual
  <1>14. IsPrefix(r, q)
    BY <1>2, <1>8, <1>9, <1>11, <1>13 DEF IsPrefix
  <1> QED BY <1>3, <1>14

\* The invariant implies the types.
LEMMA InputInvTypes == InputInv => TypeOK
  <1> SUFFICES ASSUME InputInv PROVE TypeOK
    OBVIOUS
  <1>1. /\ ctl \in Controllers
        /\ Fits(ctl)
        /\ Len(ctl.pending) <= MaxPending
        /\ ctl.fmt.nest <= MaxNest
    BY DEF InputInv, Typing, Ready
  <1>2. ctl.comp \in Compositions \cup {Nothing} /\ ctl.english \in BOOLEAN /\ ctl.opt \in Options
    BY <1>1 DEF Controllers
  <1>3. ctl.high \in 0..(IF ctl.comp.n = 0 THEN 0 ELSE ctl.comp.n - 1)
    <2>1. ctl.high \in Nat /\ ctl.comp.n \in Nat
      BY <1>1, CompositionOf, CandidatesAreCounted DEF Controllers
    <2> QED BY <1>1, <2>1 DEF Fits
  <1>4. Panel(ctl) \in Saved
    BY <1>1 DEF Panel, Saved, Controllers
  <1>5. ctl.fmt \in [dq : BOOLEAN, sq : BOOLEAN, nest : 0..MaxNest]
    <2>1. ctl.fmt \in Formats
      BY <1>1 DEF Controllers
    <2>2. ctl.fmt.nest \in 0..MaxNest
      BY <1>1, <2>1, BoundsAssumption DEF Formats
    <2> QED BY <2>1, <2>2 DEF Formats
  <1>6. ctl.pending \in BoundedSeq(Range(Closings), MaxPending)
    <2>1. ctl.pending \in Seq(Closers)
      BY <1>1 DEF Controllers
    <2> QED BY <1>1, <2>1, BoundsAssumption, BoundedSequences, ClosersAreRange
  <1>7. ctl.hist \in [key : SmartMarks \cup {""}, recent : BOOLEAN]
    BY <1>1 DEF Controllers, Histories
  <1>8. /\ trk \in [shift : BOOLEAN, ctrl : BOOLEAN, chord : BOOLEAN]
        /\ held \subseteq Modifiers
        /\ tap \in [key : {"Shift", "Ctrl", "none"}, with : SUBSET {"Shift", "Ctrl"}]
    BY DEF InputInv, Watching, Watched, Bindings, Taps
  <1>9. doc \in [before : Before, right : BoundedSeq(Range(Closings), MaxPending), lost : BOOLEAN]
    <2>1. /\ doc \in [before : Before, right : Seq(Closers), lost : BOOLEAN]
          /\ Len(doc.right) <= MaxPending
      BY Current DEF Documents
    <2>2. doc.right \in BoundedSeq(Range(Closings), MaxPending)
      BY <2>1, BoundsAssumption, BoundedSequences, ClosersAreRange
    <2> QED BY <2>1, <2>2
  <1>10. shown.panel \in Saved /\ focused \in BOOLEAN
    BY <1>4, Current
  <1> QED BY <1>2, <1>3, <1>4, <1>5, <1>6, <1>7, <1>8, <1>9, <1>10 DEF TypeOK

\* Every variable keeps its type; the highlight of the lookup table is always a candidate
\* of the list (finish_composition_mutation, move_cursor, apply_online_candidate).
THEOREM InputTypes == Spec => []TypeOK
  BY InputInvariant, InputInvTypes, PTL

\* The closing marks commit_punctuation means to step over are always the text right of
\* the caret, for any sequence of keys, resets, focus changes and reloads.
THEOREM PendingStaysRight == Spec => []PendingAreRight
  <1>1. InputInv => PendingAreRight
    <2> SUFFICES ASSUME InputInv PROVE IsPrefix(Reverse(ctl.pending), doc.right)
      BY DEF PendingAreRight
    <2>1. ctl.pending \in Seq(Closers) /\ doc.right \in Seq(Closers)
      BY Current DEF Controllers, Documents
    <2>2. Mirrors(ctl.pending, doc.right)
      BY DEF InputInv, Typing, Safe
    <2> QED BY <2>1, <2>2, MirrorsIsPrefix
  <1> QED BY <1>1, InputInvariant, PTL

\* The formatter writes an inner title mark only inside a pair still open around the caret.
THEOREM NestingStaysInside == Spec => []NestedMarkIsInside
  <1>1. InputInv => NestedMarkIsInside
    <2> SUFFICES ASSUME InputInv, ctl.opt.paired, ctl.fmt.nest > 0 PROVE "rtitle" \in Range(doc.right)
      BY DEF NestedMarkIsInside
    <2>1. ctl.pending \in Seq(Closers) /\ doc.right \in Seq(Closers)
      BY Current DEF Controllers, Documents
    <2>2. PICK n \in Nat : n = Len(ctl.pending)
      BY <2>1
    <2>3. n <= Len(doc.right) /\ \A i \in 1..n : ctl.pending[n + 1 - i] = doc.right[i]
      BY <2>2 DEF InputInv, Typing, Safe, Mirrors
    <2>4. PICK i \in 1..n : ctl.pending[i] = "rtitle"
      BY <2>2 DEF InputInv, Typing, Ready, Nested
    <2>5. PICK j \in 1..n : n + 1 - j = i
      <3>1. n + 1 - i \in 1..n /\ n + 1 - (n + 1 - i) = i
        BY <2>4
      <3> QED BY <3>1
    <2>6. doc.right[j] = "rtitle"
      BY <2>3, <2>4, <2>5
    <2>7. j \in DOMAIN doc.right
      BY <2>1, <2>3
    <2> QED BY <2>6, <2>7 DEF Range
  <1> QED BY <1>1, InputInvariant, PTL

\* What client and panel display is what the controller has, after every handler.
THEOREM ShownStaysComposed == Spec => []ShownIsComposed
  <1>1. InputInv => ShownIsComposed
    BY DEF InputInv, Typing, Displayed, ShownIsComposed
  <1> QED BY <1>1, InputInvariant, PTL

\* The replacement of a repeated smart mark deletes that mark and nothing else, although
\* the application may change the text before the caret at any time.
THEOREM OnlyMarksAreErased == Spec => []OnlyTheMarkIsErased
  <1>1. InputInv => OnlyTheMarkIsErased
    BY DEF InputInv, Typing, Safe, OnlyTheMarkIsErased
  <1> QED BY <1>1, InputInvariant, PTL

\* A release that changes the mode is that of the armed modifier.
LEMMA ReleaseTogglesTap ==
    ASSUME InputInv, [Next]_vars,
           NEW m \in Modifiers, m \in held \ held', focused, ctl'.mode # ctl.mode
    PROVE  tap.key = m /\ tap.with \subseteq {"Shift"}
  <1>1. PICK sym \in Modifiers \cup {"space"}, release \in BOOLEAN : ToggleKey(sym, release)
    <2>1. ASSUME NEW sym, NEW release \in BOOLEAN, IgnoreKey(sym, release) PROVE FALSE
      BY <2>1 DEF IgnoreKey
    <2>2. ASSUME NEW sym, Physical(sym, FALSE) PROVE FALSE
      <3>1. held' = held \/ held' = held \cup {sym}
        BY <2>2 DEF Physical
      <3> QED BY <3>1
    <2>3. ASSUME NEW sym, ForwardKey(sym) \/ DispatchKey(sym) PROVE FALSE
      BY <2>2, <2>3 DEF ForwardKey, DispatchKey
    <2>4. ~FocusIn
      BY DEF FocusIn
    <2>5. held' # held
      OBVIOUS
    <2>6. ~FocusOut /\ ~ClientReset /\ ~ClientEdit /\ ~Enable /\ ~PropertyActivate /\ ~OnlineArrives
          /\ ~Reload /\ ~TwoSeconds /\ ~UNCHANGED vars
      BY <2>5 DEF FocusOut, ClientReset, ClientEdit, Enable, PropertyActivate, OnlineArrives,
                  Reload, TwoSeconds, vars
    <2>7. ASSUME NEW i, Click(i) PROVE FALSE
      BY <2>5, <2>7 DEF Click
    <2>8. ASSUME NEW key, Navigate(key) PROVE FALSE
      BY <2>5, <2>8 DEF Navigate
    <2>9. /\ ~\E sym \in Modifiers \cup {"space"}, release \in BOOLEAN : IgnoreKey(sym, release)
          /\ ~ForwardKey("Left")
          /\ ~\E sym \in Keysyms : DispatchKey(sym)
          /\ ~\E i \in 0..2 : Click(i)
          /\ ~\E key \in {"Up", "Down", "PageUp", "PageDown"} : Navigate(key)
      BY <2>1, <2>3, <2>7, <2>8, Zenon
    <2>10. \E sym \in Modifiers \cup {"space"}, release \in BOOLEAN : ToggleKey(sym, release)
      BY <2>4, <2>6, <2>9, Zenon DEF Next
    <2> QED BY <2>10
  <1>2. Physical(sym, release) /\ Observed(sym, release).toggle
    BY <1>1 DEF ToggleKey
  <1>3. sym = m /\ release
    BY <1>2 DEF Physical
  <1>4. PICK b \in Bindings : b = ctl.opt.bind
    BY Current, OptionsAssumption
  <1>5. PICK o : o = Observe(trk, b, sym, release, held)
    OBVIOUS
  <1>6. /\ trk \in Bindings
        /\ trk.shift => tap.key = "Shift" /\ tap.with \subseteq {"Shift"}
        /\ trk.ctrl => tap.key = "Ctrl" /\ tap.with \subseteq {"Shift"}
    BY DEF InputInv, Watching, Watched
  <1>7. o.toggle
    BY <1>2, <1>4, <1>5 DEF Observed
  <1>8. \/ sym = "space" /\ ~release
        \/ sym = "Shift" /\ release /\ trk.shift
        \/ sym = "Ctrl" /\ release /\ trk.ctrl
    BY <1>5, <1>6, <1>7, Observations
  <1> QED BY <1>3, <1>6, <1>8

\* Releasing a modifier switches the language only when it was the last key pressed, with
\* neither Ctrl nor Alt besides it, for any settings and marks (IBusModeToggleTracker::observe).
THEOREM ReleaseNeedsFreshTap == Spec => ToggleNeedsFreshTap
  <1> DEFINE Fresh == focused /\ focused' /\ ctl'.mode # ctl.mode
                        => \A m \in held \ held' : tap.key = m /\ tap.with \subseteq {"Shift"}
  <1>1. InputInv /\ [Next]_vars => [Fresh]_vars
    <2> SUFFICES ASSUME InputInv, [Next]_vars, focused, ctl'.mode # ctl.mode, NEW m \in held \ held'
                 PROVE  tap.key = m /\ tap.with \subseteq {"Shift"}
      OBVIOUS
    <2>1. m \in Modifiers
      BY DEF InputInv, Watching, Watched
    <2> QED BY <2>1, ReleaseTogglesTap
  <1> QED BY <1>1, InputInvariant, PTL DEF Spec, ToggleNeedsFreshTap

=============================================================================
