---------------------------- MODULE DesktopProofs ----------------------------
(***************************************************************************)
(* The settings window, the clipboard page and the handwriting page, for   *)
(* any fields, features, inputs, texts and number of strokes.              *)
(*                                                                         *)
(* Handwriting: a recognition runs on its own thread while the user goes   *)
(* on drawing, clears the canvas or closes the window, so its result may   *)
(* describe what is no longer there.  CanvasInv says that a pass which is  *)
(* not marked stale always describes a part of the drawing on the canvas   *)
(* (Current), and what a window that is gone still shows: nothing          *)
(* (Screen).                                                               *)
(*                                                                         *)
(* Settings window: every model in it, the one on screen and the one an    *)
(* import proposes, has a legal value in each field and no credential but  *)
(* its provider's (Models), which a page applied row by row keeps          *)
(* (FlushKeeps); what a save wrote stays known until somebody else writes  *)
(* (AsWritten).                                                            *)
(*                                                                         *)
(* Clipboard page: what a parked poll may still put into the history       *)
(* (Steady).                                                               *)
(*                                                                         *)
(* The rows of a page and the items of the history are as many as they     *)
(* are, so both need induction: over a set, from the least natural number  *)
(* outside it (LeastNatural, UpTo), which also gives a recursive function  *)
(* its defining equation (Recursion).                                      *)
(***************************************************************************)
EXTENDS Desktop, WellFoundedInduction, TLAPS

-----------------------------------------------------------------------------
(* The handwriting page *)

\* A pass over strokes that are all still on the canvas.
OnCanvas(p) == p \in Passes /\ ~p.wiped /\ p.strokes <= strokes

CanvasTypes ==
    /\ strokes \in 0 .. MaxStrokes
    /\ stale \in BOOLEAN /\ shut \in BOOLEAN
    /\ pass # None => pass \in Passes

\* The running pass describes the canvas, or its result will be dropped.
Current == ~shut /\ pass # None => stale \/ OnCanvas(pass)

\* What is on screen: nothing of a window that is gone, else no wiped drawing.
Screen ==
    /\ shut => shown = Gone /\ list = Gone
    /\ ~shut => shown = None \/ OnCanvas(shown)

CanvasInv == CanvasTypes /\ Current /\ Screen

\* The tools program starts with an empty canvas and nothing running.
LEMMA InitCanvasInv ==
    ASSUME Init
    PROVE  CanvasInv
  <1>1. ToolsInit
    BY DEF Init
  <1>2. strokes \in 0 .. MaxStrokes
    BY <1>1, MaxStrokesAssumption DEF ToolsInit
  <1>3. stale \in BOOLEAN /\ shut \in BOOLEAN
    BY <1>1, Zenon DEF ToolsInit
  <1>4. ~shut /\ pass = None /\ shown = None
    BY <1>1, Zenon DEF ToolsInit
  <1> QED BY <1>2, <1>3, <1>4 DEF CanvasInv, CanvasTypes, Current, Screen

\* The handlers of the clipboard page, and another program's switch, leave the canvas
\* alone; a list is drawn only in a window that is there.
LEMMA ClipboardKeepsCanvasInv ==
    ASSUME CanvasInv, ClipboardNext
    PROVE  CanvasInv'
  <1> USE DEF handVars
  <1>1. CASE Destroy
    BY <1>1 DEF Destroy, CanvasInv, CanvasTypes, Current, Screen
  <1>2. ASSUME UNCHANGED <<handVars, shut>>, shut => UNCHANGED list
        PROVE  CanvasInv'
    BY <1>2 DEF CanvasInv, CanvasTypes, Current, Screen, OnCanvas
  <1>3. ASSUME NEW t \in Texts \cup {None}, Copy(t) PROVE CanvasInv'
    BY <1>2, <1>3 DEF Copy
  <1>4. CASE PollBegins
    BY <1>2, <1>4 DEF PollBegins
  <1>5. ASSUME NEW answers \in BOOLEAN, PollTargets(answers) PROVE CanvasInv'
    BY <1>2, <1>5 DEF PollTargets
  <1>6. CASE PollText
    BY <1>2, <1>6 DEF PollText
  <1>7. ASSUME NEW answers \in BOOLEAN, NEW works \in BOOLEAN, PollRecheck(answers, works)
        PROVE  CanvasInv'
    BY <1>2, <1>7 DEF PollRecheck, PollAdds
  <1>8. ASSUME NEW clears \in BOOLEAN, NEW saves \in BOOLEAN, Toggle(clears, saves)
        PROVE  CanvasInv'
    BY <1>2, <1>8, Zenon DEF Toggle
  <1>9. CASE ClearClicked
    BY <1>2, <1>9 DEF ClearClicked
  <1>10. CASE OthersSwitch
    BY <1>2, <1>10 DEF OthersSwitch
  <1> QED BY <1>1, <1>3, <1>4, <1>5, <1>6, <1>7, <1>8, <1>9, <1>10 DEF ClipboardNext

\* What start_handwriting_recognition leaves running is the pass it found, or a pass
\* over the canvas as it is.
LEMMA StartIsCurrent ==
    ASSUME NEW p, NEW again, strokes \in 0 .. MaxStrokes, Start(p, again)
    PROVE  pass' = p \/ pass' = None \/ OnCanvas(pass')
  <1>1. CASE p # None
    BY <1>1 DEF Start
  <1>2. CASE p = None /\ strokes # 0
    <2>1. strokes \in 1 .. MaxStrokes
      BY <1>2, MaxStrokesAssumption
    <2>2. pass' = [strokes |-> strokes, wiped |-> FALSE, done |-> FALSE]
      BY <1>2, Zenon DEF Start
    <2>3. pass' \in Passes /\ ~(pass').wiped /\ (pass').strokes <= strokes
      BY <2>1, <2>2, MaxStrokesAssumption DEF Passes
    <2> QED BY <2>3 DEF OnCanvas
  <1>3. CASE p = None /\ strokes = 0
    BY <1>3 DEF Start
  <1> QED BY <1>1, <1>2, <1>3

\* The user's strokes, the two ways to start a recognition, its worker, its delivery,
\* a clear and the end of the window keep the invariant.
LEMMA HandwritingKeepsCanvasInv ==
    ASSUME CanvasInv, HandwritingNext
    PROVE  CanvasInv'
  <1> USE MaxStrokesAssumption DEF CanvasInv, KeepClipboard, clipboardVars
  <1>1. CASE ButtonPress
    <2>1. CanvasTypes'
      BY <1>1 DEF ButtonPress, CanvasTypes
    <2>2. \A p : OnCanvas(p) => OnCanvas(p)'
      BY <1>1 DEF ButtonPress, CanvasTypes, OnCanvas, Passes
    <2>3. Current'
      BY <1>1, <2>2 DEF ButtonPress, Current, OnCanvas
    <2>4. Screen'
      BY <1>1, <2>2 DEF ButtonPress, Screen, OnCanvas
    <2> QED BY <2>1, <2>3, <2>4
  <1>2. CASE ButtonRelease
    BY <1>2 DEF ButtonRelease, CanvasTypes, Current, Screen, OnCanvas
  <1>3. CASE DebounceElapsed \/ RecognizeClicked
    <2>1. /\ ~shut /\ Start(pass, restart)
          /\ UNCHANGED <<strokes, stale, shown, shut, list>>
      BY <1>3 DEF DebounceElapsed, RecognizeClicked
    <2>2. pass' = pass \/ pass' = None \/ OnCanvas(pass')
      BY <2>1, StartIsCurrent DEF CanvasTypes
    <2> QED BY <2>1, <2>2 DEF CanvasTypes, Current, Screen, OnCanvas
  <1>4. CASE WorkerEnds
    <2>1. PICK p \in Passes : p = pass /\ pass' = [p EXCEPT !.done = TRUE]
      BY <1>4 DEF WorkerEnds, CanvasTypes
    <2>2. pass' \in Passes /\ (pass').wiped = p.wiped /\ (pass').strokes = p.strokes
      BY <2>1 DEF Passes
    <2> QED BY <1>4, <2>1, <2>2 DEF WorkerEnds, CanvasTypes, Current, Screen, OnCanvas
  <1>5. CASE Deliver
    <2>1. /\ pass # None /\ stale' = FALSE
          /\ shown' = (IF stale \/ shut THEN shown ELSE pass)
          /\ UNCHANGED <<strokes, shut, list>>
      BY <1>5 DEF Deliver
    <2>2. pass' = None \/ OnCanvas(pass')
      BY <1>5, StartIsCurrent DEF Deliver, CanvasTypes
    <2>3. CanvasTypes' /\ Current'
      BY <2>1, <2>2 DEF CanvasTypes, Current, OnCanvas
    <2>4. Screen'
      BY <2>1 DEF CanvasTypes, Current, Screen, OnCanvas
    <2> QED BY <2>3, <2>4
  <1>6. CASE HandwritingClear
    <2>1. pass # None => pass' \in Passes
      <3>1. SUFFICES ASSUME pass # None PROVE pass' \in Passes
        OBVIOUS
      <3>2. PICK p \in Passes : p = pass
        BY <3>1 DEF CanvasTypes
      <3>3. pass' = [p EXCEPT !.wiped = TRUE]
        BY <1>6, <3>1, <3>2, Zenon DEF HandwritingClear
      <3> QED BY <3>3 DEF Passes
    <2>2. pass = None => pass' = None
      BY <1>6 DEF HandwritingClear
    <2>3. /\ ~shut /\ shut' = shut /\ strokes' = 0 /\ shown' = None
          /\ stale' = (pass # None)
      BY <1>6 DEF HandwritingClear, StaleAfterClear
    <2>4. stale' \in BOOLEAN /\ shut' \in BOOLEAN
      BY <2>3, Zenon DEF CanvasTypes
    <2>5. strokes' \in 0 .. MaxStrokes
      BY <2>3
    <2>6. pass' # None => pass' \in Passes /\ stale'
      BY <2>1, <2>2, <2>3
    <2>7. CanvasTypes'
      BY <2>4, <2>5, <2>6 DEF CanvasTypes
    <2>8. Current' /\ Screen'
      BY <2>3, <2>6, Zenon DEF Current, Screen
    <2> QED BY <2>7, <2>8
  <1>7. CASE Destroy
    BY <1>7 DEF Destroy, CanvasTypes, Current, Screen
  <1> QED BY <1>1, <1>2, <1>3, <1>4, <1>5, <1>6, <1>7 DEF HandwritingNext

\* CanvasInv is an invariant of the programs over one config.ini: no order of strokes,
\* clicks, timers, results and closing breaks it (src/src/DesktopToolsUi.cpp).
THEOREM CanvasInvariant == Spec => []CanvasInv
  <1>1. Init => CanvasInv
    BY InitCanvasInv
  <1>2. CanvasInv /\ [Next]_vars => CanvasInv'
    <2> SUFFICES ASSUME CanvasInv, [Next]_vars PROVE CanvasInv'
      OBVIOUS
    <2>1. CASE ClipboardNext
      BY <2>1, ClipboardKeepsCanvasInv
    <2>2. CASE HandwritingNext
      BY <2>2, HandwritingKeepsCanvasInv
    <2>3. CASE UNCHANGED toolsVars
      BY <2>3 DEF toolsVars, clipboardVars, handVars, CanvasInv, CanvasTypes, Current, Screen,
                  OnCanvas
    <2> QED BY <2>1, <2>2, <2>3 DEF Next, vars
  <1> QED BY <1>1, <1>2, PTL DEF Spec

\* Candidates on screen describe the drawing on the canvas, and nothing is put on a
\* window that is gone, although recognition and clipboard answers arrive late
\* (deliver_handwriting_result, handwriting_clear, poll_clipboard).
THEOREM ShownStaysOnCanvas == Spec => []ShownIsOnCanvas
  <1>1. CanvasInv => ShownIsOnCanvas
    BY DEF CanvasInv, Screen, OnCanvas, ShownIsOnCanvas
  <1> QED BY <1>1, CanvasInvariant, PTL

-----------------------------------------------------------------------------
(* Sequences and recursions *)

\* A set of natural numbers that is not empty has a least one: the only use of
\* well-founded induction here, from which UpTo and Recursion follow.
LEMMA LeastNatural ==
    ASSUME NEW T \in SUBSET Nat, T # {}
    PROVE  \E n \in T : \A m \in T : n <= m
  <1>1. \E x \in T : \A y \in T : ~ (<<y, x>> \in OpToRel(<, Nat))
    BY WFMin, NatLessThanWellFounded
  <1>2. PICK x \in T : \A y \in T : ~ (<<y, x>> \in OpToRel(<, Nat))
    BY <1>1
  <1>3. \A y \in T : ~ (y < x)
    BY <1>2 DEF OpToRel
  <1> QED BY <1>3

\* Induction up to N over a set.
LEMMA UpTo ==
    ASSUME NEW N \in Nat, NEW T, 0 \in T, \A n \in 1 .. N : n - 1 \in T => n \in T
    PROVE  \A n \in 0 .. N : n \in T
  <1> DEFINE Out == {n \in 0 .. N : n \notin T}
  <1>1. Out \in SUBSET Nat
    OBVIOUS
  <1>2. SUFFICES ASSUME Out # {} PROVE FALSE
    OBVIOUS
  <1> HIDE DEF Out
  <1>3. PICK n \in Out : \A m \in Out : n <= m
    BY <1>1, <1>2, LeastNatural
  <1>4. n \in 0 .. N /\ n \notin T
    BY <1>3 DEF Out
  <1>5. n \in 1 .. N
    BY <1>4
  <1>6. n - 1 \in 0 .. N /\ ~ (n <= n - 1)
    BY <1>5
  <1>7. n - 1 \notin Out
    BY <1>3, <1>6
  <1>8. n - 1 \in T
    BY <1>6, <1>7 DEF Out
  <1> QED BY <1>4, <1>5, <1>8

\* The first N + 1 values of the recursion that begins with d.
Iterates(f, N, d, step) == f[0] = d /\ \A n \in 1 .. N : f[n] = step[<<n, f[n - 1]>>]

\* A recursion whose steps stay in D has a solution, and its values are in D.
LEMMA Recursion ==
    ASSUME NEW N \in Nat, NEW D, NEW d \in D, NEW step \in [(1 .. N) \X D -> D]
    PROVE  \E f \in [0 .. N -> D] : Iterates(f, N, d, step)
  <1> DEFINE Run(f, n) == Iterates(f, n, d, step)
             T == {n \in 0 .. N : \E f \in [0 .. n -> D] : Run(f, n)}
  <1> USE DEF Iterates
  <1>1. 0 \in T
    <2>1. [i \in 0 .. 0 |-> d] \in [0 .. 0 -> D] /\ Run([i \in 0 .. 0 |-> d], 0)
      OBVIOUS
    <2>2. 0 \in 0 .. N /\ \A i \in 1 .. 0 : FALSE
      OBVIOUS
    <2> QED BY <2>1, <2>2
  <1>2. ASSUME NEW n \in 1 .. N, n - 1 \in T PROVE n \in T
    <2>1. PICK f \in [0 .. n - 1 -> D] : Run(f, n - 1)
      BY <1>2
    <2> DEFINE g == [i \in 0 .. n |-> IF i = n THEN step[<<n, f[n - 1]>>] ELSE f[i]]
    <2>2. f[n - 1] \in D
      BY <2>1
    <2>3. step[<<n, f[n - 1]>>] \in D
      BY <2>2
    <2>4. \A i \in 0 .. n : i # n => i \in 0 .. n - 1
      OBVIOUS
    <2>5. g \in [0 .. n -> D]
      BY <2>1, <2>3, <2>4
    <2>6. g[0] = d
      BY <2>1
    <2>7. ASSUME NEW i \in 1 .. n PROVE g[i] = step[<<i, g[i - 1]>>]
      <3>1. g[i - 1] = f[i - 1]
        OBVIOUS
      <3>2. CASE i = n
        <4>1. g[n] = step[<<n, f[n - 1]>>]
          OBVIOUS
        <4> QED BY <3>1, <3>2, <4>1, Zenon
      <3>3. CASE i # n
        <4>1. i \in 1 .. n - 1 /\ g[i] = f[i]
          BY <3>3
        <4> QED BY <4>1, <3>1, <2>1
      <3> QED BY <3>2, <3>3
    <2>8. n \in 0 .. N
      OBVIOUS
    <2> HIDE DEF g
    <2>9. Run(g, n)
      BY <2>6, <2>7
    <2> QED BY <2>5, <2>8, <2>9
  <1> HIDE DEF T
  <1>3. N \in T
    <2>1. \A n \in 0 .. N : n \in T
      BY <1>1, <1>2, UpTo
    <2> QED BY <2>1
  <1> QED BY <1>3 DEF T

\* What Kept leaves of s is a sequence of elements of s that are in the set
\* (the filter of the rows, ClipboardHistory::add).
LEMMA KeptElements ==
    ASSUME NEW S, NEW s, Len(s) \in Nat, \A n \in 1 .. Len(s) : s[n] \in S, NEW set
    PROVE  Kept(s, set) \in Seq(S \cap set)
  <1> DEFINE N == Len(s)
             D == Seq(S \cap set)
             empty == <<>>
             Push(n, q) == IF s[n] \in set THEN Append(q, s[n]) ELSE q
             kept[n \in 0 .. N] == IF n = 0 THEN <<>>
                                   ELSE IF s[n] \in set THEN Append(kept[n - 1], s[n])
                                        ELSE kept[n - 1]
             step == [p \in (1 .. N) \X D |-> Push(p[1], p[2])]
             Run(f) == f = [n \in 0 .. N |-> IF n = 0 THEN <<>>
                                   ELSE IF s[n] \in set THEN Append(f[n - 1], s[n])
                                        ELSE f[n - 1]]
  <1>1. N \in Nat /\ empty \in D
    OBVIOUS
  <1>2. ASSUME NEW n \in 1 .. N, NEW q \in D
        PROVE  Push(n, q) \in D
    <2>1. s[n] \in S
      OBVIOUS
    <2> QED BY <2>1
  <1>3. step \in [(1 .. N) \X D -> D]
    BY <1>2
  <1>4. \A n \in 1 .. N : \A q \in D : step[<<n, q>>] = Push(n, q)
    OBVIOUS
  <1> HIDE DEF step, N, D
  <1>5. PICK f \in [0 .. N -> D] : Iterates(f, N, empty, step)
    <2> HIDE DEF empty
    <2> QED BY <1>1, <1>3, Recursion
  <1>6. \A n \in 0 .. N : f[n] = IF n = 0 THEN <<>> ELSE Push(n, f[n - 1])
    <2> HIDE DEF Push
    <2>1. ASSUME NEW n \in 0 .. N, n # 0
          PROVE  f[n] = Push(n, f[n - 1])
      <3>1. n \in 1 .. N /\ f[n - 1] \in D
        BY <1>1, <2>1
      <3> QED BY <3>1, <1>4, <1>5 DEF Iterates
    <2> QED BY <1>5, <2>1 DEF Iterates
  <1>7. \E g : Run(g)
    <2>1. Run(f)
      BY <1>5, <1>6
    <2> QED BY <2>1
  <1>8. Run(kept)
    BY <1>7
  <1>9. Kept(s, set) = kept[N]
    BY DEF Kept, N
  <1> HIDE DEF kept
  <1> DEFINE K == {n \in 0 .. N : kept[n] \in D}
  <1>10. 0 \in K
    BY <1>1, <1>8
  <1>11. ASSUME NEW n \in 1 .. N, n - 1 \in K PROVE n \in K
    <2>1. n \in 0 .. N /\ n # 0
      BY <1>1
    <2>2. kept[n] = Push(n, kept[n - 1])
      BY <1>8, <2>1, Zenon
    <2> QED BY <2>1, <2>2, <1>2, <1>11
  <1> HIDE DEF K
  <1>12. N \in K
    <2>1. \A n \in 0 .. N : n \in K
      BY <1>1, <1>10, <1>11, UpTo
    <2> QED BY <1>1, <2>1
  <1> QED BY <1>9, <1>12 DEF K, D

\* rebuild_rows makes 69 rows.
LEMMA RowsLength == Len(Rows) = 69
  BY SMTT(30) DEF Rows

\* Every row a model follows is a field, a credential or a clear request.
LEMMA UsedRowsElements ==
    UsedRows \in Seq(Fields \cup CredentialRows \cup ClearRows)
  <1> DEFINE S == {Rows[n] : n \in 1 .. Len(Rows)}
             used == Fields \cup CredentialRows \cup ClearRows
  <1>1. Len(Rows) \in Nat
    BY RowsLength
  <1>2. \A n \in 1 .. Len(Rows) : Rows[n] \in S
    OBVIOUS
  <1> HIDE DEF S, used
  <1>3. Kept(Rows, used) \in Seq(S \cap used)
    BY <1>1, <1>2, KeptElements
  <1>4. Kept(Rows, used) \in Seq(used)
    BY <1>3
  <1> QED BY <1>4 DEF UsedRows, used

-----------------------------------------------------------------------------
(* The settings and the model of the window *)

\* Every value some field may have.
Legal == UNION {Values[f] : f \in Fields}
\* A legal value for every field.
Settings == {s \in [Fields -> Legal] : \A f \in Fields : s[f] \in Values[f]}

\* A ticked clear row has no token, and a stored token is its provider's.
AtHome(s, t, c) ==
    \A f \in Features : /\ c[f] => t[f] = None
                        /\ t[f] \in {None, "typed", s[Feature[f].provider]}

\* What the window may edit.
Models ==
    {m \in [fields : Settings, token : [Features -> Legal \cup {None, "typed"}],
            cleared : [Features -> BOOLEAN]] :
        AtHome(m.fields, m.token, m.cleared)}

\* Each credential is filed under its own provider, that of translation under DeepLX.
Filed(vault) ==
    \A f \in Features :
        /\ DOMAIN vault[f] = Values[Feature[f].provider]
        /\ \A p \in DOMAIN vault[f] : vault[f][p] \in Filable(f, p)

\* A feature's switch and provider are among the fields.
LEMMA FeatureFields ==
    ASSUME NEW f \in Features
    PROVE  Feature[f].enabled \in Fields /\ Feature[f].provider \in Fields
  BY FeaturesAssumption

\* The three features.
LEMMA FeatureNames ==
    ASSUME NEW f \in Features
    PROVE  f \in {"voice", "ai", "translation"}
  BY FeaturesAssumption DEF Feature

\* A credential, clear or provider row belongs to one feature only.
LEMMA Owners ==
    ASSUME NEW f \in Features
    PROVE  /\ OwnerOf(Feature[f].credential) = f
           /\ OwnerOf(Feature[f].clear) = f
           /\ OwnerOf(Feature[f].provider) = f
  <1>1. \A g, h \in Features : g # h =>
            {Feature[g].credential, Feature[g].clear, Feature[g].provider}
              \cap {Feature[h].credential, Feature[h].clear, Feature[h].provider} = {}
    BY FeatureNames DEF Feature
  <1> QED BY <1>1 DEF OwnerOf

\* No row is of two kinds, and nothing shared through the account is a credential.
LEMMA RowsApart ==
    /\ CredentialRows \cap ClearRows = {}
    /\ CredentialRows \cap ProviderRows = {}
    /\ ClearRows \cap ProviderRows = {}
    /\ Bindings \cap (CredentialRows \cup ClearRows) = {}
  BY FeatureNames DEF CredentialRows, ClearRows, ProviderRows, Feature, Bindings

\* load() returns a legal value for every field, whatever the file holds.
LEMMA LoadIsSettings ==
    ASSUME NEW c
    PROVE  Load(c) \in Settings
  <1>1. \A f \in Fields : Defaults[f] \in Values[f]
    BY FieldsAssumption, DefaultsAreLegal DEF Defaults, Values
  <1>2. Defaults \in Settings
    <2>1. Defaults = [f \in Fields |-> Defaults[f]]
      BY DEF Defaults
    <2> QED BY <1>1, <2>1 DEF Settings, Legal
  <1> DEFINE s == [f \in Fields |-> IF c.keys[f] \in Values[f] THEN c.keys[f]
                                    ELSE Defaults[f]]
  <1>3. s \in Settings
    BY <1>1 DEF Settings, Legal
  <1> QED BY <1>2, <1>3 DEF Load

\* A file with a legal value for every field is read back as it is, without a warning.
LEMMA LoadOfWritten ==
    ASSUME NEW s \in Settings, NEW c, c.is = "file", c.keys = s
    PROVE  IsFile(c) /\ Load(c) = s /\ ~LoadWarns(c)
  <1>1. \A f \in Fields : s[f] \in Values[f]
    BY DEF Settings
  <1>2. s = [f \in Fields |-> s[f]]
    BY DEF Settings
  <1>3. IsFile(c) /\ ~LoadWarns(c)
    BY <1>1 DEF IsFile, LoadWarns
  <1>4. Load(c) = [f \in Fields |-> IF s[f] \in Values[f] THEN s[f] ELSE Defaults[f]]
    BY <1>3 DEF Load
  <1>5. Load(c) = [f \in Fields |-> s[f]]
    BY <1>1, <1>4
  <1> QED BY <1>2, <1>3, <1>5

\* What the window offers for a field the store accepts.
LEMMA OfferedIsLegal ==
    ASSUME NEW f \in Fields
    PROVE  Offered[f] \subseteq Values[f] /\ Values[f] \subseteq Legal
  BY FieldsAssumption, WindowMirrorsStore DEF Offered, Values, Legal

\* A model put together from its parts.
LEMMA ModelOf ==
    ASSUME NEW s \in Settings, NEW t, NEW c \in [Features -> BOOLEAN],
           t = [f \in Features |-> t[f]], AtHome(s, t, c)
    PROVE  [fields |-> s, token |-> t, cleared |-> c] \in Models
  <1>1. \A f \in Features : t[f] \in Legal \cup {None, "typed"}
    BY FeatureFields DEF Settings, AtHome
  <1>2. t \in [Features -> Legal \cup {None, "typed"}]
    BY <1>1
  <1> QED BY <1>2 DEF Models

\* The parts of a model.
LEMMA ModelParts ==
    ASSUME NEW m \in Models
    PROVE  /\ m = [fields |-> m.fields, token |-> m.token, cleared |-> m.cleared]
           /\ m.fields \in Settings
           /\ m.token = [f \in Features |-> m.token[f]]
           /\ m.cleared \in [Features -> BOOLEAN]
           /\ AtHome(m.fields, m.token, m.cleared)
  BY DEF Models

\* A legal value may be put into any field.
LEMMA ChangedField ==
    ASSUME NEW s \in Settings, NEW id \in Fields, NEW v \in Values[id]
    PROVE  [s EXCEPT ![id] = v] \in Settings
  BY DEF Settings, Legal

\* A model read from the file and Secret Service holds, of each credential, nothing or
\* its own provider's (SettingsStore::load).
LEMMA HydrateIsModel ==
    ASSUME NEW s \in Settings, NEW vault, Filed(vault), NEW down
    PROVE  Hydrate(s, vault, down) \in Models
  <1> DEFINE c == [f \in Features |-> FALSE]
             m == [fields |-> s, token |-> [f \in Features |-> None], cleared |-> c]
             t == [f \in Features |-> IF Authenticates(m, f) /\ f \notin down
                                      THEN vault[f][Owner(m, f)] ELSE None]
  <1>1. Hydrate(s, vault, down) = [fields |-> s, token |-> t, cleared |-> c]
    <2>1. Hydrate(s, vault, down) = [m EXCEPT !.token = t]
      BY Zenon DEF Hydrate
    <2> HIDE DEF c, t
    <2> QED BY <2>1
  <1>2. ASSUME NEW f \in Features, Authenticates(m, f)
        PROVE  vault[f][Owner(m, f)] \in {None, s[Feature[f].provider]}
    <2>1. Owner(m, f) = s[Feature[f].provider]
      BY <1>2 DEF Owner, Provider, Authenticates
    <2>2. s[Feature[f].provider] \in Values[Feature[f].provider]
      BY FeatureFields DEF Settings
    <2> QED BY <2>1, <2>2 DEF Filed, Filable
  <1>3. \A f \in Features : t[f] \in {None, s[Feature[f].provider]}
    BY <1>2
  <1>4. c \in [Features -> BOOLEAN] /\ t = [f \in Features |-> t[f]]
    OBVIOUS
  <1>5. \A f \in Features : ~c[f]
    OBVIOUS
  <1> HIDE DEF c, t
  <1>6. AtHome(s, t, c)
    BY <1>3, <1>5 DEF AtHome
  <1> QED BY <1>1, <1>4, <1>6, ModelOf

\* SettingsUiModel::set, by the kind of the row.
LEMMA SetCases ==
    ASSUME NEW m, NEW id, NEW v
    PROVE  /\ id \in ClearRows => Set(m, id, v) = SetClear(m, id, v)
           /\ id \in CredentialRows => Set(m, id, v) = SetCredential(m, id, v)
           /\ id \in ProviderRows => Set(m, id, v) = SetProvider(m, id, v)
           /\ id \notin ClearRows \cup CredentialRows \cup ProviderRows =>
                Set(m, id, v) = [m EXCEPT !.fields[id] = v]
  BY RowsApart, Zenon DEF Set

\* A provider row.
LEMMA SetOfProvider ==
    ASSUME NEW m, NEW id \in ProviderRows, NEW v
    PROVE  Set(m, id, v) = SetProvider(m, id, v)
  BY SetCases

\* A row that is none of the three kinds.
LEMMA SetOfOther ==
    ASSUME NEW m, NEW id, id \notin ClearRows \cup CredentialRows \cup ProviderRows, NEW v
    PROVE  Set(m, id, v) = [m EXCEPT !.fields[id] = v]
  BY SetCases

\* What a clear row and a plain row show.
LEMMA RowValueCases ==
    ASSUME NEW m, NEW id
    PROVE  /\ id \in ClearRows => RowValue(m, id) = m.cleared[OwnerOf(id)]
           /\ id \notin ClearRows \cup CredentialRows => RowValue(m, id) = m.fields[id]
  BY RowsApart, Zenon DEF RowValue

\* What set() accepts, by the kind of the row.
LEMMA AcceptsCases ==
    ASSUME NEW m, NEW id, NEW v
    PROVE  /\ Accepts(m, id, v) \in BOOLEAN
           /\ id \in ClearRows /\ Accepts(m, id, v) => v \in BOOLEAN
           /\ id \in CredentialRows /\ Accepts(m, id, v) => v # Junk
           /\ id \notin ClearRows \cup CredentialRows /\ Accepts(m, id, v) =>
                v \in Offered[id]
  <1>1. Accepts(m, id, v) \in BOOLEAN
    BY Zenon DEF Accepts
  <1> QED BY <1>1 DEF Accepts

\* An accepted value leaves a model: a new provider drops the old one's token, a new
\* token unticks the clear row, a ticked clear row drops the token.
LEMMA SetKeepsModel ==
    ASSUME NEW m \in Models, NEW id \in Fields \cup CredentialRows \cup ClearRows, NEW v,
           Accepts(m, id, v), id \in CredentialRows => v \in {"", "typed", Junk}
    PROVE  Set(m, id, v) \in Models
  <1> DEFINE s == m.fields
             t == m.token
             c == m.cleared
             f == OwnerOf(id)
  <1>1. /\ m = [fields |-> s, token |-> t, cleared |-> c]
        /\ s \in Settings
        /\ t = [g \in Features |-> t[g]]
        /\ c \in [Features -> BOOLEAN]
        /\ AtHome(s, t, c)
    BY ModelParts
  <1> HIDE DEF s, t, c
  <1>2. CASE id \in ClearRows
    <2>1. f \in Features
      BY <1>2, Owners DEF ClearRows
    <2>2. v \in BOOLEAN
      BY <1>2, AcceptsCases
    <2> DEFINE t2 == [t EXCEPT ![f] = IF v THEN None ELSE @]
               c2 == [c EXCEPT ![f] = v]
    <2>3. Set(m, id, v) = [fields |-> s, token |-> t2, cleared |-> c2]
      <3>1. Set(m, id, v) = SetClear(m, id, v)
        BY <1>2, SetCases
      <3>2. SetClear(m, id, v) =
                [m EXCEPT !.cleared[f] = v, !.token[f] = IF v THEN None ELSE @]
        BY DEF SetClear
      <3> HIDE DEF f
      <3> QED BY <1>1, <3>1, <3>2
    <2> HIDE DEF f
    <2>4. t2 = [g \in Features |-> t2[g]] /\ c2 \in [Features -> BOOLEAN]
      BY <1>1, <2>1, <2>2
    <2>5. AtHome(s, t2, c2)
      BY <1>1, <2>1, <2>2 DEF AtHome
    <2> HIDE DEF t2, c2
    <2>6. [fields |-> s, token |-> t2, cleared |-> c2] \in Models
      BY <1>1, <2>4, <2>5, ModelOf
    <2> QED BY <2>3, <2>6
  <1>3. CASE id \in CredentialRows
    <2>1. f \in Features
      BY <1>3, Owners DEF CredentialRows
    <2>2. v \in {"", "typed"}
      BY <1>3, AcceptsCases
    <2> DEFINE t2 == [t EXCEPT ![f] = v]
               c2 == [c EXCEPT ![f] = FALSE]
    <2>3. CASE v = ""
      <3>1. Set(m, id, v) = m
        BY <1>3, <2>3, SetCases, Zenon DEF SetCredential
      <3> QED BY <3>1
    <2>4. CASE v = "typed"
      <3>1. Set(m, id, v) = [fields |-> s, token |-> t2, cleared |-> c2]
        <4>1. Set(m, id, v) = SetCredential(m, id, v)
          BY <1>3, SetCases
        <4>2. SetCredential(m, id, v) = [m EXCEPT !.token[f] = v, !.cleared[f] = FALSE]
          BY <2>4 DEF SetCredential
        <4> HIDE DEF f
        <4> QED BY <1>1, <4>1, <4>2
      <3> HIDE DEF f
      <3>2. t2 = [g \in Features |-> t2[g]] /\ c2 \in [Features -> BOOLEAN]
        BY <1>1, <2>1
      <3>3. AtHome(s, t2, c2)
        BY <1>1, <2>1, <2>4 DEF AtHome
      <3> HIDE DEF t2, c2
      <3>4. [fields |-> s, token |-> t2, cleared |-> c2] \in Models
        BY <1>1, <3>2, <3>3, ModelOf
      <3> QED BY <3>1, <3>4
    <2> QED BY <2>2, <2>3, <2>4
  <1>4. CASE id \notin ClearRows \cup CredentialRows
    <2>1. id \in Fields /\ v \in Values[id]
      BY <1>4, AcceptsCases, OfferedIsLegal
    <2> DEFINE s2 == [s EXCEPT ![id] = v]
    <2>2. s2 \in Settings
      BY <1>1, <2>1, ChangedField
    <2>3. \A h \in Fields : s2[h] = IF h = id THEN v ELSE s[h]
      BY <1>1 DEF Settings
    <2>4. CASE id \in ProviderRows
      <3>1. f \in Features /\ Feature[f].provider = id
        BY <2>4, Owners DEF ProviderRows
      <3>2. \A g \in Features : Feature[g].provider = id => g = f
        BY Owners
      <3> DEFINE t2 == [t EXCEPT ![f] = IF v = s[id] THEN @ ELSE None]
      <3>3. Set(m, id, v) = [fields |-> s2, token |-> t2, cleared |-> c]
        <4>1. Set(m, id, v) = SetProvider(m, id, v)
          BY <2>4, SetOfProvider
        <4>2. SetProvider(m, id, v) =
                  [m EXCEPT !.fields[id] = v,
                            !.token[f] = IF v = m.fields[id] THEN @ ELSE None]
          BY DEF SetProvider
        <4>3. m.fields[id] = s[id]
          BY DEF s
        <4> HIDE DEF f
        <4> QED BY <1>1, <4>1, <4>2, <4>3
      <3> HIDE DEF f
      <3>4. t2 = [g \in Features |-> t2[g]]
        BY <1>1, <3>1
      <3>5. ASSUME NEW g \in Features
            PROVE  /\ c[g] => t2[g] = None
                   /\ t2[g] \in {None, "typed", s2[Feature[g].provider]}
        <4>1. CASE g = f
          BY <4>1, <1>1, <2>3, <3>1, FeatureFields DEF AtHome
        <4>2. CASE g # f
          <5>1. Feature[g].provider # id /\ s2[Feature[g].provider] = s[Feature[g].provider]
            BY <4>2, <3>2, <2>3, FeatureFields
          <5>2. t2[g] = t[g]
            BY <4>2, <1>1
          <5> QED BY <5>1, <5>2, <1>1 DEF AtHome
        <4> QED BY <4>1, <4>2
      <3>6. AtHome(s2, t2, c)
        <4> HIDE DEF s2, t2
        <4> QED BY <3>5 DEF AtHome
      <3> HIDE DEF s2, t2
      <3>7. [fields |-> s2, token |-> t2, cleared |-> c] \in Models
        BY <1>1, <2>2, <3>4, <3>6, ModelOf
      <3> QED BY <3>3, <3>7
    <2>5. CASE id \notin ProviderRows
      <3>1. id \notin ClearRows \cup CredentialRows \cup ProviderRows
        BY <1>4, <2>5
      <3>2. Set(m, id, v) = [fields |-> s2, token |-> t, cleared |-> c]
        <4>1. Set(m, id, v) = [m EXCEPT !.fields[id] = v]
          BY <3>1, SetOfOther
        <4> QED BY <1>1, <4>1
      <3>3. \A g \in Features : s2[Feature[g].provider] = s[Feature[g].provider]
        <4>1. \A g \in Features : Feature[g].provider \in ProviderRows
          BY DEF ProviderRows
        <4> HIDE DEF s2
        <4> QED BY <4>1, <2>5, <2>3, FeatureFields
      <3> HIDE DEF s2
      <3>4. AtHome(s2, t, c)
        BY <1>1, <3>3 DEF AtHome
      <3>5. [fields |-> s2, token |-> t, cleared |-> c] \in Models
        BY <1>1, <2>2, <3>4, ModelOf
      <3> QED BY <3>2, <3>5
    <2> QED BY <2>4, <2>5
  <1> QED BY <1>2, <1>3, <1>4

\* A value that flush_editors does not count as a change is none: setting it again
\* leaves the model as it was.
LEMMA SetSame ==
    ASSUME NEW m \in Models, NEW id, NEW v, ~ChangesModel(m, id, v)
    PROVE  Set(m, id, v) = m
  <1> DEFINE s == m.fields
             t == m.token
             c == m.cleared
             f == OwnerOf(id)
  <1>1. /\ m = [fields |-> s, token |-> t, cleared |-> c]
        /\ s = [g \in Fields |-> s[g]]
        /\ t = [g \in Features |-> t[g]]
        /\ c = [g \in Features |-> c[g]]
        /\ \A g \in Features : c[g] => t[g] = None
    BY ModelParts DEF Settings, AtHome
  <1> HIDE DEF s, t, c
  <1>2. CASE id \in ClearRows
    <2>1. f \in Features
      BY <1>2, Owners DEF ClearRows
    <2>2. v = c[f]
      <3>1. v = RowValue(m, id)
        BY <1>2, RowsApart DEF ChangesModel
      <3> QED BY <1>2, <3>1, RowValueCases DEF c
    <2>3. Set(m, id, v) = [m EXCEPT !.cleared[f] = v, !.token[f] = IF v THEN None ELSE @]
      <3>1. Set(m, id, v) = SetClear(m, id, v)
        BY <1>2, SetCases
      <3> QED BY <3>1 DEF SetClear
    <2> HIDE DEF f
    <2>4. [c EXCEPT ![f] = v] = c
      BY <1>1, <2>2
    <2>5. [t EXCEPT ![f] = IF v THEN None ELSE @] = t
      BY <1>1, <2>1, <2>2
    <2> QED BY <1>1, <2>3, <2>4, <2>5
  <1>3. CASE id \in CredentialRows
    <2>1. v = ""
      BY <1>3 DEF ChangesModel
    <2> QED BY <1>3, <2>1, SetCases, Zenon DEF SetCredential
  <1>4. CASE id \notin ClearRows \cup CredentialRows
    <2>1. v = s[id]
      <3>1. v = RowValue(m, id)
        BY <1>4 DEF ChangesModel
      <3> QED BY <1>4, <3>1, RowValueCases DEF s
    <2>2. [s EXCEPT ![id] = v] = s
      BY <1>1, <2>1
    <2>3. CASE id \in ProviderRows
      <3>1. Set(m, id, v) = [m EXCEPT !.fields[id] = v,
                                      !.token[f] = IF v = m.fields[id] THEN @ ELSE None]
        <4>1. Set(m, id, v) = SetProvider(m, id, v)
          BY <2>3, SetCases
        <4> QED BY <4>1 DEF SetProvider
      <3>2. v = m.fields[id]
        BY <2>1 DEF s
      <3> HIDE DEF f
      <3>3. [t EXCEPT ![f] = IF v = m.fields[id] THEN @ ELSE None] = t
        BY <1>1, <3>2
      <3> QED BY <1>1, <2>2, <3>1, <3>3
    <2>4. CASE id \notin ProviderRows
      <3>1. Set(m, id, v) = [m EXCEPT !.fields[id] = v]
        BY <1>4, <2>4, SetCases
      <3> QED BY <1>1, <2>2, <3>1
    <2> QED BY <2>3, <2>4
  <1> QED BY <1>2, <1>3, <1>4

-----------------------------------------------------------------------------
(* Saving, importing, applying the editors of a page *)

\* What is typed into a credential's editor.
Typed == \A id \in DOMAIN editors \cap CredentialRows : editors[id] \in {"", "typed", Junk}

\* The file as this program wrote it.
AsWritten ==
    written # None =>
        /\ config = [is |-> "file", keys |-> written.fields, extra |-> written.extra,
                     plain |-> FALSE]
        /\ written.fields \in Settings

\* The settings window: its model and that of a reviewed import, the unsaved-edits flag,
\* Secret Service, the editors, and the file after a save.
WindowInv ==
    /\ model \in Models
    /\ dirty \in BOOLEAN /\ CleanIsLoaded
    /\ Filed(secrets)
    /\ Typed
    /\ preview # None => preview.settings \in Models
    /\ AsWritten

\* SettingsStore::save stores a credential under its own provider only: a token that was
\* read goes back where it came from, a typed one to the provider now chosen.
LEMMA SavedSecretsAreFiled ==
    ASSUME NEW m \in Models, NEW down, Filed(secrets)
    PROVE  Filed(SavedSecrets(m, down))
  <1> DEFINE saved == SavedSecrets(m, down)
  <1>1. SUFFICES ASSUME NEW f \in Features
                 PROVE  /\ DOMAIN saved[f] = Values[Feature[f].provider]
                        /\ \A p \in DOMAIN saved[f] : saved[f][p] \in Filable(f, p)
    BY DEF Filed
  <1> DEFINE old == [fields |-> Load(config)]
             erased == IF f \in down THEN {}
                       ELSE {p \in DOMAIN secrets[f] :
                              \/ p = FiledUnder(old, f) /\ FiledUnder(m, f) = None
                              \/ m.cleared[f] /\ p = Owner(m, f)}
             stored == ~m.cleared[f] /\ m.token[f] # None /\ FiledUnder(m, f) # None
             kept(p) == IF p \in erased THEN None
                        ELSE IF stored /\ p = FiledUnder(m, f)
                        THEN IF m.token[f] = "typed" THEN p ELSE m.token[f]
                        ELSE secrets[f][p]
  <1>2. saved[f] = [p \in DOMAIN secrets[f] |-> kept(p)]
    BY Zenon DEF SavedSecrets
  <1>3. m.token[f] \in {None, "typed", Provider(m, f)}
    BY ModelParts DEF AtHome, Provider
  <1>4. ASSUME NEW p \in DOMAIN secrets[f]
        PROVE  kept(p) \in Filable(f, p)
    <2>1. secrets[f][p] \in Filable(f, p) /\ None \in Filable(f, p)
      BY DEF Filed, Filable
    <2>2. ASSUME p = FiledUnder(m, f), p # None
          PROVE  p = Provider(m, f) /\ Filable(f, p) = {None, p}
      BY <2>2 DEF FiledUnder, Owner, Authenticates, Filable
    <2>3. CASE p = FiledUnder(m, f) /\ p # None
      <3> HIDE DEF erased
      <3> QED BY <2>1, <2>2, <2>3, <1>3
    <2>4. CASE p = None
      <3> HIDE DEF erased
      <3> QED BY <2>1, <2>4
    <2>5. CASE p # FiledUnder(m, f)
      <3> HIDE DEF erased
      <3> QED BY <2>1, <2>5
    <2> QED BY <2>3, <2>4, <2>5
  <1> HIDE DEF kept, saved
  <1>5. DOMAIN saved[f] = DOMAIN secrets[f]
    BY <1>2
  <1>6. \A p \in DOMAIN saved[f] : saved[f][p] \in Filable(f, p)
    BY <1>2, <1>4, <1>5
  <1> QED BY <1>5, <1>6 DEF Filed

\* An import that is not refused leaves a model: its values are legal and its providers
\* are those of the model (CloudSettingsMapper::prepare_download).
LEMMA DownloadKeepsModel ==
    ASSUME NEW m \in Models, NEW remote, ~DownloadRefused(m, remote)
    PROVE  PrepareDownload(m, remote) \in Models
  <1> DEFINE s == m.fields
             t == m.token
             c == m.cleared
             s2 == [f \in Fields |-> IF f \in DOMAIN remote \cap Bindings
                                     THEN remote[f] ELSE s[f]]
  <1>1. /\ m = [fields |-> s, token |-> t, cleared |-> c]
        /\ s \in Settings
        /\ t = [g \in Features |-> t[g]]
        /\ c \in [Features -> BOOLEAN]
        /\ AtHome(s, t, c)
    BY ModelParts
  <1>2. PrepareDownload(m, remote) = [m EXCEPT !.fields = s2]
    BY DEF PrepareDownload
  <1>3. DOMAIN Export(m) = Fields \cap Bindings
    BY DEF Export
  <1>4. ASSUME NEW f \in Fields, f \in DOMAIN remote \cap Bindings
        PROVE  /\ remote[f] \in Values[f]
               /\ f \in ProviderRows => remote[f] = s[f]
    <2>1. /\ remote[f] # m.fields[f] => Accepts(m, f, remote[f])
          /\ f \in ProviderRows => remote[f] = m.fields[f]
      BY <1>3, <1>4 DEF DownloadRefused
    <2>2. f \notin ClearRows \cup CredentialRows
      BY <1>4, RowsApart
    <2>3. Accepts(m, f, remote[f]) => remote[f] \in Values[f]
      BY <2>2, AcceptsCases, OfferedIsLegal
    <2>4. s[f] \in Values[f]
      BY <1>1 DEF Settings
    <2> QED BY <2>1, <2>3, <2>4
  <1> HIDE DEF s, t, c
  <1>5. \A f \in Fields : /\ s2[f] \in Values[f]
                          /\ f \in ProviderRows => s2[f] = s[f]
    BY <1>1, <1>4 DEF Settings
  <1>6. s2 \in Settings
    <2>1. s2 = [f \in Fields |-> s2[f]]
      OBVIOUS
    <2> HIDE DEF s2
    <2> QED BY <1>5, <2>1, OfferedIsLegal DEF Settings
  <1> HIDE DEF s2
  <1>7. AtHome(s2, t, c)
    <2>1. \A f \in Features : s2[Feature[f].provider] = s[Feature[f].provider]
      BY <1>5, FeatureFields DEF ProviderRows
    <2> QED BY <1>1, <2>1 DEF AtHome
  <1>8. [fields |-> s2, token |-> t, cleared |-> c] \in Models
    BY <1>1, <1>6, <1>7, ModelOf
  <1> QED BY <1>1, <1>2, <1>8

\* What flush_editors has when some of the rows are applied.
Flushes ==
    {a \in [model : Models, dirty : BOOLEAN, ok : BOOLEAN] :
        ~a.dirty => ~dirty /\ a.model = model}

\* One more row applied: the window is dirty if this or an earlier one changed the model.
LEMMA AppliedKeeps ==
    ASSUME model \in Models, Typed, NEW acc \in Flushes,
           NEW id \in DOMAIN editors, id \in Fields \cup CredentialRows \cup ClearRows
    PROVE  Applied(acc, id) \in Flushes
  <1> DEFINE v == editors[id]
             ok == Accepts(acc.model, id, v)
             next == [model |-> IF ok THEN Set(acc.model, id, v) ELSE acc.model,
                      dirty |-> acc.dirty \/ ChangesModel(model, id, v), ok |-> ok]
  <1>1. acc.model \in Models /\ acc.dirty \in BOOLEAN
        /\ (~acc.dirty => ~dirty /\ acc.model = model)
    BY DEF Flushes
  <1>2. id \in CredentialRows => v \in {"", "typed", Junk}
    BY DEF Typed
  <1>3. ok \in BOOLEAN
    BY AcceptsCases
  <1>4. (IF ok THEN Set(acc.model, id, v) ELSE acc.model) \in Models
    BY <1>1, <1>2, SetKeepsModel
  <1>5. (acc.dirty \/ ChangesModel(model, id, v)) \in BOOLEAN
    BY Zenon
  <1>6. ~ (acc.dirty \/ ChangesModel(model, id, v)) =>
            ~dirty /\ (IF ok THEN Set(acc.model, id, v) ELSE acc.model) = model
    BY <1>1, SetSame
  <1>7. next \in Flushes
    <2> HIDE DEF ok, v
    <2>1. next \in [model : Models, dirty : BOOLEAN, ok : BOOLEAN]
      BY <1>3, <1>4, <1>5
    <2>2. ~next.dirty => ~dirty /\ next.model = model
      BY <1>6
    <2> HIDE DEF next
    <2> QED BY <2>1, <2>2 DEF Flushes
  <1>8. Applied(acc, id) = IF ~acc.ok THEN acc ELSE next
    BY DEF Applied
  <1> QED BY <1>7, <1>8

\* flush_editors, for any number of rows and however many of them are refused.
LEMMA FlushKeeps ==
    ASSUME model \in Models, dirty \in BOOLEAN, Typed
    PROVE  Flush \in Flushes
  <1> DEFINE used == Fields \cup CredentialRows \cup ClearRows
             rows == Kept(UsedRows, DOMAIN editors)
             N == Len(rows)
             begin == [model |-> model, dirty |-> dirty, ok |-> TRUE]
             flush[n \in 0 .. N] == IF n = 0 THEN [model |-> model, dirty |-> dirty, ok |-> TRUE]
                                    ELSE Applied(flush[n - 1], rows[n])
             step == [p \in (1 .. N) \X Flushes |-> Applied(p[2], rows[p[1]])]
             Run(f) == f = [n \in 0 .. N |->
                              IF n = 0 THEN [model |-> model, dirty |-> dirty, ok |-> TRUE]
                              ELSE Applied(f[n - 1], rows[n])]
  <1>1. rows \in Seq(used \cap DOMAIN editors)
    <2> HIDE DEF used
    <2>1. UsedRows \in Seq(used)
      BY UsedRowsElements DEF used
    <2>2. Len(UsedRows) \in Nat /\ \A n \in 1 .. Len(UsedRows) : UsedRows[n] \in used
      BY <2>1
    <2> QED BY <2>2, KeptElements
  <1> HIDE DEF rows
  <1>2. N \in Nat
    BY <1>1
  <1>3. \A n \in 1 .. N : rows[n] \in used /\ rows[n] \in DOMAIN editors
    BY <1>1
  <1>4. begin \in Flushes
    BY DEF Flushes
  <1>5. ASSUME NEW n \in 1 .. N, NEW q \in Flushes
        PROVE  Applied(q, rows[n]) \in Flushes
    BY <1>3, AppliedKeeps
  <1>6. step \in [(1 .. N) \X Flushes -> Flushes]
    BY <1>5
  <1>7. \A n \in 1 .. N : \A q \in Flushes : step[<<n, q>>] = Applied(q, rows[n])
    OBVIOUS
  <1> HIDE DEF step, N
  <1>8. PICK f \in [0 .. N -> Flushes] : Iterates(f, N, begin, step)
    <2> HIDE DEF begin
    <2> QED BY <1>2, <1>4, <1>6, Recursion
  <1>9. \A n \in 0 .. N : f[n] = IF n = 0 THEN begin ELSE Applied(f[n - 1], rows[n])
    <2>1. ASSUME NEW n \in 0 .. N, n # 0
          PROVE  f[n] = Applied(f[n - 1], rows[n])
      <3>1. n \in 1 .. N /\ f[n - 1] \in Flushes
        BY <1>2, <2>1
      <3> QED BY <3>1, <1>7, <1>8 DEF Iterates
    <2> QED BY <1>8, <2>1 DEF Iterates
  <1>10. \E g : Run(g)
    <2>1. Run(f)
      BY <1>8, <1>9
    <2> QED BY <2>1
  <1>11. Run(flush)
    BY <1>10
  <1>12. Flush = flush[N]
    BY DEF Flush, N, rows
  <1> HIDE DEF flush
  <1> DEFINE K == {n \in 0 .. N : flush[n] \in Flushes}
  <1>13. 0 \in K
    BY <1>2, <1>4, <1>11
  <1>14. ASSUME NEW n \in 1 .. N, n - 1 \in K PROVE n \in K
    <2>1. n \in 0 .. N /\ n # 0
      BY <1>2
    <2>2. flush[n] = Applied(flush[n - 1], rows[n])
      BY <1>11, <2>1, Zenon
    <2> QED BY <2>1, <2>2, <1>5, <1>14
  <1> HIDE DEF K
  <1>15. N \in K
    <2>1. \A n \in 0 .. N : n \in K
      BY <1>2, <1>13, <1>14, UpTo
    <2> QED BY <1>2, <2>1
  <1> QED BY <1>12, <1>15 DEF K

-----------------------------------------------------------------------------
(* The steps of the settings window *)

\* The window after flush_editors: as long as it is not dirty its model is the loaded one.
LEMMA FlushedKeeps ==
    ASSUME WindowInv, Flushed(Flush)
    PROVE  /\ Flush.model \in Models
           /\ model' \in Models
           /\ dirty' \in BOOLEAN /\ CleanIsLoaded'
  <1>1. PICK flush \in Flushes : flush = Flush
    BY FlushKeeps DEF WindowInv
  <1>2. /\ flush.model \in Models /\ flush.dirty \in BOOLEAN
        /\ ~flush.dirty => ~dirty /\ flush.model = model
    BY DEF Flushes
  <1>3. /\ model' = flush.model /\ dirty' = flush.dirty
        /\ base' = IF flush.dirty THEN None ELSE base
    BY <1>1 DEF Flushed
  <1> QED BY <1>1, <1>2, <1>3 DEF WindowInv, CleanIsLoaded

\* make_editor never fills a credential's widget.
LEMMA EditorsAreTyped ==
    ASSUME NEW m, NEW p, NEW id \in DOMAIN Editors(m, p), id \in CredentialRows
    PROVE  Editors(m, p)[id] = ""
  BY DEF Editors

\* The settings program starts with a model of what is in the file and in Secret Service.
LEMMA WindowInitInv ==
    ASSUME WindowInit
    PROVE  WindowInv
  <1>1. Filed(secrets)
    BY VaultsAssumption DEF WindowInit, Filed
  <1>2. model \in Models
    <2>1. PICK down \in SUBSET Features : model = Hydrate(Load(config), secrets, down)
      BY DEF WindowInit
    <2> QED BY <1>1, <2>1, LoadIsSettings, HydrateIsModel
  <1>3. dirty \in BOOLEAN /\ CleanIsLoaded /\ preview = None /\ AsWritten
    BY DEF WindowInit, CleanIsLoaded, AsWritten
  <1>4. Typed
    BY EditorsAreTyped DEF WindowInit, Typed
  <1> QED BY <1>1, <1>2, <1>3, <1>4 DEF WindowInv

\* What reload_from_store leaves.
LEMMA ReloadKeeps ==
    ASSUME NEW fields \in Settings, NEW stored, Filed(stored), NEW down,
           Reload(fields, stored, down)
    PROVE  model' \in Models /\ dirty' \in BOOLEAN /\ CleanIsLoaded' /\ Typed'
  <1>1. model' \in Models
    BY HydrateIsModel DEF Reload
  <1>2. dirty' \in BOOLEAN /\ CleanIsLoaded'
    BY DEF Reload, CleanIsLoaded
  <1>3. editors' = Editors(model', page)
    BY DEF Reload
  <1>4. Typed'
    BY <1>3, EditorsAreTyped DEF Typed
  <1> QED BY <1>1, <1>2, <1>4

\* What a save leaves: the file holds the model's fields, each credential its own provider's.
LEMMA WrittenKeeps ==
    ASSUME WindowInv, NEW m \in Models, NEW down, Written(m, down)
    PROVE  Filed(secrets)' /\ AsWritten' /\ Load(config') \in Settings
  <1>1. Filed(SavedSecrets(m, down))
    BY SavedSecretsAreFiled DEF WindowInv
  <1>2. Filed(secrets)'
    BY <1>1 DEF Written, Filed
  <1>3. AsWritten'
    BY ModelParts DEF Written, Serialise, AsWritten
  <1> QED BY <1>2, <1>3, LoadIsSettings

\* Every step of the settings window, and of others on its file, keeps the invariant.
LEMMA WindowStep ==
    ASSUME WindowInv, NEW pages, WindowNext(pages)
    PROVE  WindowInv'
  <1>1. ASSUME NEW id \in DOMAIN Inputs, NEW v \in Inputs[id], Edit(id, v)
        PROVE  WindowInv'
    <2>1. Typed'
      <3>1. editors' = [editors EXCEPT ![id] = v]
        BY <1>1 DEF Edit
      <3>2. id \in CredentialRows => v \in {"", "typed", Junk}
        BY <1>1, InputsAssumption
      <3> QED BY <3>1, <3>2 DEF WindowInv, Typed
    <2> QED BY <1>1, <2>1 DEF Edit, WindowInv, CleanIsLoaded, AsWritten, Filed
  <1>2. ASSUME NEW p, ShowPage(p)
        PROVE  WindowInv'
    <2>1. /\ Flushed(Flush)
          /\ editors' = IF Flush.ok THEN Editors(Flush.model, p) ELSE editors
          /\ UNCHANGED <<config, secrets, preview, written>>
      BY <1>2, Zenon DEF ShowPage
    <2>2. Typed'
      BY <2>1, EditorsAreTyped DEF Typed, WindowInv
    <2> QED BY <2>1, <2>2, FlushedKeeps DEF WindowInv, AsWritten, Filed
  <1>3. ASSUME NEW down, SaveRefused(down)
        PROVE  WindowInv'
    <2>1. /\ Flushed(Flush) /\ UNCHANGED <<secrets, editors, preview, written>>
          /\ config' = config \/ config = Broken
      BY <1>3, Zenon DEF SaveRefused
    <2>2. AsWritten'
      BY <2>1 DEF WindowInv, AsWritten, Broken
    <2> QED BY <2>1, <2>2, FlushedKeeps DEF WindowInv, Filed, Typed
  <1>4. ASSUME NEW down, SaveStored(down)
        PROVE  WindowInv'
    <2>1. Written(Flush.model, down) /\ preview' = preview
          /\ Reload(Load(config'), secrets', down)
      BY <1>4, Zenon DEF SaveStored
    <2>2. Flush.model \in Models
      BY FlushKeeps DEF WindowInv, Flushes
    <2>3. Filed(secrets)' /\ AsWritten' /\ Load(config') \in Settings
      BY <2>1, <2>2, WrittenKeeps
    <2>4. Filed(secrets')
      BY <2>3 DEF Filed
    <2>5. model' \in Models /\ dirty' \in BOOLEAN /\ CleanIsLoaded' /\ Typed'
      BY <2>1, <2>3, <2>4, ReloadKeeps
    <2> QED BY <2>1, <2>3, <2>5 DEF WindowInv
  <1>5. ASSUME NEW down, ResetClicked(down)
        PROVE  WindowInv'
    <2>1. /\ Reload(Load(config), secrets, down)
          /\ UNCHANGED <<config, secrets, preview, written>>
      BY <1>5 DEF ResetClicked
    <2>2. model' \in Models /\ dirty' \in BOOLEAN /\ CleanIsLoaded' /\ Typed'
      BY <2>1, LoadIsSettings, ReloadKeeps DEF WindowInv
    <2> QED BY <2>1, <2>2 DEF WindowInv, AsWritten, Filed
  <1>6. ASSUME NEW down, ApplyImport(down)
        PROVE  WindowInv'
    <2>1. /\ preview # None /\ Written(preview.settings, down)
          /\ model' = preview.settings /\ dirty' = FALSE /\ base' = model'
          /\ preview' = None /\ editors' = editors
      BY <1>6 DEF ApplyImport, Idle, SyncAllowed
    <2>2. preview.settings \in Models
      BY <2>1 DEF WindowInv
    <2>3. Filed(secrets)' /\ AsWritten'
      BY <2>1, <2>2, WrittenKeeps
    <2> QED BY <2>1, <2>2, <2>3 DEF WindowInv, CleanIsLoaded, Typed
  <1>7. ASSUME NEW remote \in Remotes, Review(remote)
        PROVE  WindowInv'
    <2> DEFINE local == Hydrate(Load(config), secrets, {})
    <2>1. /\ ~DownloadRefused(local, remote)
          /\ preview' = [settings |-> PrepareDownload(local, remote), version |-> config]
          /\ UNCHANGED <<config, secrets, model, dirty, editors, base, written>>
      BY <1>7 DEF Review
    <2>2. local \in Models
      BY LoadIsSettings, HydrateIsModel DEF WindowInv
    <2> HIDE DEF local
    <2>3. (preview').settings \in Models
      BY <2>1, <2>2, DownloadKeepsModel
    <2> QED BY <2>1, <2>3 DEF WindowInv, CleanIsLoaded, Typed, AsWritten, Filed
  <1>8. CASE DropImport
    BY <1>8 DEF DropImport, WindowInv, CleanIsLoaded, Typed, AsWritten, Filed
  <1>9. CASE OthersWrite
    <2>1. written' = None /\ UNCHANGED <<secrets, model, dirty, editors, preview, base>>
      BY <1>9 DEF OthersWrite
    <2> QED BY <2>1 DEF WindowInv, CleanIsLoaded, Typed, AsWritten, Filed
  <1>10. ASSUME NEW p \in pages, SidebarClicked(p)
         PROVE  WindowInv'
    BY <1>2, <1>10 DEF SidebarClicked
  <1>11. CASE RebuildPage
    BY <1>2, <1>11 DEF RebuildPage
  <1> QED BY <1>1, <1>3, <1>4, <1>5, <1>6, <1>7, <1>8, <1>9, <1>10, <1>11 DEF WindowNext

-----------------------------------------------------------------------------
(* The clipboard page, and the programs together *)

Polls == [at : Steps, text : Texts \cup {None}, moves : 0 .. 2]

\* The clipboard page: before the text is read an owner that has not changed is not marked;
\* a marked text that was read came by a change, and while there was no other its owner
\* still has the clipboard at the recheck.
Steady ==
    /\ poll \in Polls
    /\ owner \in Texts \cup {None}
    /\ history \in Seq(Texts)
    /\ poll.at \in {"idle", "targets"} => poll.moves = 0
    /\ poll.at = "text" /\ poll.moves = 0 => owner \notin Concealed
    /\ poll.at = "recheck" => poll.text # None
    /\ poll.at = "recheck" /\ poll.text \in Concealed
          => poll.moves = 2 \/ (poll.moves = 1 /\ owner \in Concealed)
    /\ discarded => ~On /\ history = <<>>

\* Recording a text adds nothing else to the history.
LEMMA NewestAddsOne ==
    ASSUME NEW S, history \in Seq(S), NEW t \in S
    PROVE  Newest(t) \in Seq(S)
  <1> DEFINE kept == Kept(history, Texts \ {t})
             items == <<t>> \o kept
             n == IF Len(items) > kMaxItems THEN kMaxItems ELSE Len(items)
  <1>1. kept \in Seq(S)
    <2>1. Len(history) \in Nat /\ \A i \in 1 .. Len(history) : history[i] \in S
      OBVIOUS
    <2>2. kept \in Seq(S \cap (Texts \ {t}))
      BY <2>1, KeptElements
    <2> HIDE DEF kept
    <2> QED BY <2>2
  <1> HIDE DEF kept
  <1>2. items \in Seq(S)
    BY <1>1
  <1> HIDE DEF items
  <1>3. n \in 0 .. Len(items)
    BY <1>2, kMaxItemsAssumption
  <1>4. SubSeq(items, 1, n) \in Seq(S)
    BY <1>2, <1>3
  <1> QED BY <1>4 DEF Newest, items, kept

\* The switch is read back as it was saved.
LEMMA ToggledSettings ==
    ASSUME NEW on, Valid([Load(config) EXCEPT !["clipboard-history"] = on])
    PROVE  Load(Serialise(config, [Load(config) EXCEPT !["clipboard-history"] = on])
                )["clipboard-history"] = on
  <1> DEFINE s == [Load(config) EXCEPT !["clipboard-history"] = on]
             c == Serialise(config, s)
  <1>1. Load(config) \in Settings
    BY LoadIsSettings
  <1>2. s \in [Fields -> Legal]
    <2>1. on \in Values["clipboard-history"]
      BY <1>1, SwitchAssumption DEF Valid, Settings
    <2> QED BY <1>1, <2>1, SwitchAssumption, OfferedIsLegal DEF Settings
  <1>3. s["clipboard-history"] = on
    BY <1>1, SwitchAssumption DEF Settings
  <1>4. s \in Settings
    <2> HIDE DEF s
    <2> QED BY <1>2 DEF Valid, Settings, s
  <1>5. c.is = "file" /\ c.keys = s
    <2> HIDE DEF s
    <2> QED BY DEF Serialise
  <1> HIDE DEF s, c
  <1>6. Load(c) = s
    BY <1>4, <1>5, LoadOfWritten
  <1> QED BY <1>3, <1>6 DEF c, s

\* Between two polls.
LEMMA NoPollIsPoll == NoPoll \in Polls
  BY DEF NoPoll, Polls, Steps

\* The tools program starts with an empty history.
LEMMA ToolsInitSteady ==
    ASSUME ToolsInit
    PROVE  Steady /\ ~discarded
  BY NoPollIsPoll DEF ToolsInit, Steady, NoPoll

\* Emptied or not, the history keeps its type, and an empty one stays empty.
LEMMA ClearedIsHistory ==
    ASSUME history \in Seq(Texts), NEW items \in Cleared
    PROVE  items \in Seq(Texts) /\ (history = <<>> => items = <<>>)
  <1>1. <<>> \in Seq(Texts)
    OBVIOUS
  <1> QED BY <1>1, Zenon DEF Cleared

\* Every step of a poll, of the switch and of others keeps the invariant.
LEMMA ClipboardKeepsSteady ==
    ASSUME Steady, ClipboardNext
    PROVE  Steady'
  <1>1. PICK q \in Polls : q = poll
    BY DEF Steady
  <1>2. On' = On \/ config' # config
    BY DEF On
  <1>3. ASSUME NEW t \in Texts \cup {None}, Copy(t)
        PROVE  Steady'
    <2> DEFINE moves == IF q.at \in {"text", "recheck"} /\ q.moves < 2 THEN q.moves + 1
                        ELSE q.moves
    <2>1. /\ owner' = t /\ poll' = [q EXCEPT !.moves = moves]
          /\ UNCHANGED <<config, history, discarded>>
      BY <1>1, <1>3 DEF Copy, Polls
    <2>2. moves \in 0 .. 2
      BY <1>1 DEF Polls
    <2>3. /\ q.at \in {"text", "recheck"} => moves # 0 /\ (q.moves # 0 => moves = 2)
          /\ q.at \notin {"text", "recheck"} => moves = q.moves
      BY <1>1 DEF Polls
    <2> HIDE DEF moves
    <2>4. /\ poll' \in Polls
          /\ (poll').at = q.at /\ (poll').text = q.text /\ (poll').moves = moves
      BY <1>1, <2>1, <2>2 DEF Polls
    <2> QED BY <1>1, <1>2, <2>1, <2>3, <2>4 DEF Steady, Polls, Steps
  <1>4. CASE PollBegins
    <2>1. poll' = [NoPoll EXCEPT !.at = "targets"]
          /\ UNCHANGED <<config, history, owner, discarded>>
      BY <1>4 DEF PollBegins
    <2>2. /\ poll' \in Polls
          /\ (poll').at = "targets" /\ (poll').moves = 0
      BY <2>1 DEF Polls, Steps, NoPoll
    <2> QED BY <1>2, <2>1, <2>2 DEF Steady
  <1>5. ASSUME poll' = NoPoll, UNCHANGED <<config, history, owner, discarded>>
        PROVE  Steady'
    <2>1. /\ poll' \in Polls
          /\ (poll').at = "idle" /\ (poll').moves = 0
      BY <1>5, NoPollIsPoll DEF NoPoll
    <2> QED BY <1>2, <1>5, <2>1 DEF Steady
  <1>6. ASSUME NEW answers \in BOOLEAN, PollTargets(answers)
        PROVE  Steady'
    <2>1. UNCHANGED <<config, history, owner, discarded>>
      BY <1>6 DEF PollTargets
    <2>2. CASE poll' = NoPoll
      BY <1>5, <2>1, <2>2
    <2>3. CASE poll' # NoPoll
      <3>1. owner \notin Concealed /\ poll' = [q EXCEPT !.at = "text"]
        BY <1>1, <1>6, <2>3 DEF PollTargets, Recordable
      <3>2. /\ poll' \in Polls
            /\ (poll').at = "text"
        BY <1>1, <3>1 DEF Polls, Steps
      <3> QED BY <1>2, <2>1, <3>1, <3>2 DEF Steady
    <2> QED BY <2>2, <2>3
  <1>7. CASE PollText
    <2>1. q.at = "text" /\ UNCHANGED <<config, history, owner, discarded>>
      BY <1>1, <1>7 DEF PollText
    <2>2. CASE poll' = NoPoll
      BY <1>5, <2>1, <2>2
    <2>3. CASE poll' # NoPoll
      <3>1. owner # None /\ poll' = [q EXCEPT !.at = "recheck", !.text = owner]
        BY <1>1, <1>7, <2>3 DEF PollText
      <3>2. /\ poll' \in Polls
            /\ (poll').at = "recheck" /\ (poll').text = owner /\ (poll').moves = q.moves
        BY <1>1, <3>1 DEF Polls, Steps, Steady
      <3>3. owner \in Concealed => q.moves = 1 \/ q.moves = 2
        BY <1>1, <2>1 DEF Steady, Polls
      <3> QED BY <1>2, <2>1, <3>1, <3>2, <3>3 DEF Steady
    <2> QED BY <2>2, <2>3
  <1>8. ASSUME NEW answers \in BOOLEAN, NEW works \in BOOLEAN, PollRecheck(answers, works)
        PROVE  Steady'
    <2>1. /\ q.at = "recheck" /\ poll' = NoPoll
          /\ UNCHANGED <<config, owner, discarded>>
      BY <1>1, <1>8 DEF PollRecheck
    <2>2. CASE history' = history
      BY <1>5, <2>1, <2>2
    <2>3. CASE history' # history
      <3>1. PollAdds(answers) /\ history' = Add(q.text)
        BY <1>1, <1>8, <2>3 DEF PollRecheck
      <3>2. q.text \in Texts
        BY <1>1, <2>1 DEF Steady, Polls
      <3>3. On /\ history' = Newest(q.text)
        BY <2>3, <3>1 DEF Add
      <3>4. history' \in Seq(Texts)
        BY <3>2, <3>3, NewestAddsOne DEF Steady
      <3>5. ~discarded'
        BY <2>1, <3>3 DEF Steady
      <3>6. poll' \in Polls
            /\ (poll').at = "idle" /\ (poll').moves = 0
        BY <2>1, NoPollIsPoll DEF NoPoll
      <3> QED BY <2>1, <3>4, <3>5, <3>6 DEF Steady
    <2> QED BY <2>2, <2>3
  <1>9. ASSUME NEW clears \in BOOLEAN, NEW saves \in BOOLEAN, Toggle(clears, saves)
        PROVE  Steady'
    <2> DEFINE on == ~checked
               settings == [Load(config) EXCEPT !["clipboard-history"] = on]
               tried == (on \/ clears) /\ Valid(settings)
               saved == tried /\ saves
    <2>1. /\ saved => config' = Serialise(config, settings)
          /\ ~saved => config' = config \/ (config = Broken /\ config' = Missing)
          /\ discarded' = IF saved THEN ~on /\ history' = <<>> ELSE discarded
          /\ UNCHANGED <<owner, poll>>
      BY <1>9 DEF Toggle, Cleared
    <2>2. history' \in Seq(Texts) /\ (history = <<>> => history' = <<>>)
      <3>1. history' \in Cleared
        BY <1>9 DEF Toggle, Cleared
      <3> QED BY <3>1, ClearedIsHistory DEF Steady
    <2>3. ASSUME saved, ~on
          PROVE  ~On'
      <3>1. config' = Serialise(config, settings) /\ Valid(settings)
        BY <2>1, <2>3
      <3>2. Load(config')["clipboard-history"] = on
        BY <3>1, ToggledSettings
      <3> QED BY <2>3, <3>2 DEF On
    <2>4. discarded' => ~On' /\ history' = <<>>
      <3>1. CASE saved
        BY <3>1, <2>1, <2>3
      <3>2. CASE ~saved
        <4>1. On' = On
          BY <3>2, <2>1 DEF On, Load, IsFile, Broken, Missing
        <4> QED BY <3>2, <2>1, <2>2, <4>1 DEF Steady
      <3> QED BY <3>1, <3>2
    <2> HIDE DEF on, settings, tried, saved
    <2> QED BY <2>1, <2>2, <2>4 DEF Steady
  <1>10. CASE ClearClicked
    <2>1. history' \in Cleared /\ UNCHANGED <<config, owner, poll, discarded>>
      BY <1>10 DEF ClearClicked
    <2>2. history' \in Seq(Texts) /\ (history = <<>> => history' = <<>>)
      BY <2>1, ClearedIsHistory DEF Steady
    <2> QED BY <1>2, <2>1, <2>2 DEF Steady
  <1>11. CASE OthersSwitch
    <2>1. ~discarded' /\ UNCHANGED <<history, owner, poll>>
      BY <1>11 DEF OthersSwitch, Steady
    <2> QED BY <2>1 DEF Steady
  <1>12. CASE Destroy
    BY <1>2, <1>12 DEF Destroy, Steady
  <1> QED BY <1>3, <1>4, <1>6, <1>7, <1>8, <1>9, <1>10, <1>11, <1>12 DEF ClipboardNext

\* The handwriting page leaves the clipboard alone.
LEMMA HandwritingKeepsSteady ==
    ASSUME Steady, HandwritingNext
    PROVE  Steady' /\ discarded' = discarded
  <1>1. UNCHANGED <<config, history, owner, poll, discarded>>
    BY DEF HandwritingNext, ButtonPress, ButtonRelease, DebounceElapsed, RecognizeClicked,
           WorkerEnds, Deliver, HandwritingClear, Destroy, KeepClipboard, clipboardVars
  <1> QED BY <1>1 DEF Steady, On

\* Whatever a behaviour follows.
FollowInv ==
    /\ follows \in DOMAIN Tours => WindowInv
    /\ follows \notin DOMAIN Tours => WindowClosed
    /\ follows # "clipboard" => ~discarded
    /\ Steady

\* FollowInv is an invariant of the programs over one config.ini, for any fields, features,
\* inputs, preferences, credentials and texts (src/src/SettingsUi.cpp,
\* src/src/SettingsStore.cpp, src/src/ClipboardHistory.cpp).
THEOREM FollowInvariant == Spec => []FollowInv
  <1>1. Init => FollowInv
    BY WindowInitInv, ToolsInitSteady, ToursAssumption DEF Init, FollowInv
  <1>2. FollowInv /\ [Next]_vars => FollowInv'
    <2> SUFFICES ASSUME FollowInv, [Next]_vars PROVE FollowInv'
      OBVIOUS
    <2>1. CASE follows \in DOMAIN Tours /\ WindowNext(Tours[follows]) /\ UNCHANGED <<toolsVars, follows>>
      <3>1. WindowInv'
        BY <2>1, WindowStep DEF FollowInv
      <3>2. Steady' /\ ~discarded'
        BY <2>1, ToursAssumption DEF FollowInv, Steady, toolsVars, clipboardVars
      <3> QED BY <2>1, <3>1, <3>2 DEF FollowInv
    <2>2. CASE follows = "clipboard" /\ ClipboardNext /\ UNCHANGED <<windowVars, follows>>
      BY <2>2, ClipboardKeepsSteady, ToursAssumption DEF FollowInv, windowVars, WindowClosed
    <2>3. CASE follows = "handwriting" /\ HandwritingNext /\ UNCHANGED <<windowVars, follows>>
      BY <2>3, HandwritingKeepsSteady, ToursAssumption DEF FollowInv, windowVars, WindowClosed
    <2>4. CASE UNCHANGED vars
      BY <2>4 DEF vars, windowVars, toolsVars, clipboardVars, FollowInv, WindowInv, WindowClosed,
                  Steady, On, CleanIsLoaded, Typed, AsWritten, Filed
    <2> QED BY <2>1, <2>2, <2>3, <2>4 DEF Next
  <1> QED BY <1>1, <1>2, PTL DEF Spec

\* A window that calls itself clean shows what it loaded, so an import or a reload never
\* costs an edit, however many editors the page has (flush_editors, sync.allow,
\* sync.applied).
THEOREM CleanStaysLoaded == Spec => []CleanIsLoaded
  <1>1. FollowInv => CleanIsLoaded
    BY DEF FollowInv, WindowInv, WindowClosed, CleanIsLoaded
  <1> QED BY <1>1, FollowInvariant, PTL

\* No credential is ever stored for, or shown with, another provider than its own, that of
\* translation always being DeepLX, and a ticked clear row has no token
\* (SettingsUiModel::set, SettingsStore::save).
THEOREM CredentialsAlwaysStayHome == Spec => []CredentialsStayHome
  <1>1. FollowInv => CredentialsStayHome
    <2> SUFFICES ASSUME FollowInv, model # None, NEW f \in Features
                 PROVE  /\ model.cleared[f] => model.token[f] = None
                        /\ model.token[f] \in {None, "typed", Provider(model, f)}
                        /\ \A p \in DOMAIN secrets[f] : secrets[f][p] \in Filable(f, p)
      BY DEF CredentialsStayHome
    <2>1. model \in Models /\ Filed(secrets)
      BY DEF FollowInv, WindowInv, WindowClosed
    <2> QED BY <2>1, ModelParts DEF AtHome, Filed, Provider
  <1> QED BY <1>1, FollowInvariant, PTL

\* What is uploaded over any preferences may be imported again and changes nothing, and
\* what only other programs know stays (CloudSettingsMapper::prepare_upload and
\* prepare_download).
LEMMA UploadIsHarmless ==
    ASSUME NEW s \in Settings, NEW vault, NEW remote
    PROVE  LET m == Hydrate(s, vault, Features)
               uploaded == PrepareUpload(m, remote)
           IN /\ ~DownloadRefused(m, uploaded) /\ PrepareDownload(m, uploaded) = m
              /\ \A k \in DOMAIN remote \ Bindings : uploaded[k] = remote[k]
  <1> DEFINE m == Hydrate(s, vault, Features)
             uploaded == PrepareUpload(m, remote)
             shared == Fields \cap Bindings
  <1>1. m.fields = s /\ m = [fields |-> s, token |-> m.token, cleared |-> m.cleared]
    <2> DEFINE c == [f \in Features |-> FALSE]
               m0 == [fields |-> s, token |-> [f \in Features |-> None], cleared |-> c]
               t == [f \in Features |-> IF Authenticates(m0, f) /\ f \notin Features
                                        THEN vault[f][Owner(m0, f)] ELSE None]
    <2>1. m = [m0 EXCEPT !.token = t]
      BY Zenon DEF Hydrate
    <2> HIDE DEF m, c, t
    <2> QED BY <2>1
  <1> HIDE DEF m
  <1>2. DOMAIN Export(m) = shared
    BY DEF Export
  <1>3. \A f \in shared : Export(m)[f] = s[f]
    <2>1. ASSUME NEW f \in shared PROVE RowValue(m, f) = s[f]
      BY <1>1, RowValueCases, RowsApart
    <2> QED BY <2>1 DEF Export
  <1>4. /\ DOMAIN uploaded = DOMAIN remote \cup shared
        /\ \A f \in shared : uploaded[f] = s[f]
        /\ \A k \in DOMAIN remote \ shared : uploaded[k] = remote[k]
    <2>1. uploaded = [f \in DOMAIN remote \cup shared |->
                        IF f \in shared THEN Export(m)[f] ELSE remote[f]]
      BY <1>2 DEF PrepareUpload
    <2> HIDE DEF uploaded
    <2> QED BY <1>3, <2>1
  <1> HIDE DEF uploaded
  <1>5. ~DownloadRefused(m, uploaded)
    <2>1. DOMAIN uploaded \cap DOMAIN Export(m) = shared
      BY <1>2, <1>4
    <2>2. \A f \in shared : uploaded[f] = m.fields[f]
      BY <1>1, <1>4
    <2> HIDE DEF shared
    <2> QED BY <2>1, <2>2 DEF DownloadRefused
  <1>6. PrepareDownload(m, uploaded) = m
    <2> DEFINE s2 == [f \in Fields |-> IF f \in DOMAIN uploaded \cap Bindings
                                       THEN uploaded[f] ELSE s[f]]
    <2>1. s2 = s
      BY <1>4 DEF Settings
    <2>2. PrepareDownload(m, uploaded) = [m EXCEPT !.fields = s2]
      BY <1>1 DEF PrepareDownload
    <2> HIDE DEF s2
    <2> QED BY <1>1, <2>1, <2>2
  <1> QED BY <1>4, <1>5, <1>6 DEF m, uploaded

\* What the window wrote is read back as it was until somebody else writes, and its upload
\* is harmless (SettingsStore::save_unlocked and load, CloudSettingsMapper).
THEOREM SavedStaysReadBack == Spec => []SavedIsReadBack
  <1>1. FollowInv => SavedIsReadBack
    <2> SUFFICES ASSUME FollowInv, written # None PROVE SavedIsReadBack
      BY DEF SavedIsReadBack
    <2>1. AsWritten
      BY DEF FollowInv, WindowInv, WindowClosed
    <2>2. /\ written.fields \in Settings
          /\ config.is = "file" /\ config.keys = written.fields
          /\ config.extra = written.extra /\ ~config.plain
      BY <2>1 DEF AsWritten
    <2>3. IsFile(config) /\ Load(config) = written.fields /\ ~LoadWarns(config)
      BY <2>2, LoadOfWritten
    <2> QED BY <2>2, <2>3, UploadIsHarmless DEF SavedIsReadBack
  <1> QED BY <1>1, FollowInvariant, PTL

\* Only a poll records, and only the text it read.
LEMMA OnlyPollsRecord ==
    ASSUME FollowInv, [Next]_vars, ~(ToSet(history') \subseteq ToSet(history))
    PROVE  /\ poll.at = "recheck" /\ owner \notin Concealed
           /\ history' = Newest(poll.text)
  <1>1. history' # history /\ history' # <<>>
    BY DEF ToSet
  <1>2. ClipboardNext
    <2>1. UNCHANGED toolsVars => FALSE
      BY <1>1 DEF toolsVars, clipboardVars
    <2>2. HandwritingNext => FALSE
      BY <1>1 DEF HandwritingNext, ButtonPress, ButtonRelease, DebounceElapsed, RecognizeClicked,
             WorkerEnds, Deliver, HandwritingClear, Destroy, KeepClipboard, clipboardVars
    <2> QED BY <2>1, <2>2 DEF Next, vars
  <1>3. PICK answers \in BOOLEAN, works \in BOOLEAN : PollRecheck(answers, works)
    <2>1. ASSUME NEW t, Copy(t) PROVE FALSE
      BY <1>1, <2>1 DEF Copy
    <2>2. ASSUME NEW answers, PollTargets(answers) PROVE FALSE
      BY <1>1, <2>2 DEF PollTargets
    <2>3. ASSUME NEW clears, NEW saves, Toggle(clears, saves) PROVE FALSE
      BY <1>1, <2>3 DEF Toggle, Cleared
    <2>4. ~PollBegins /\ ~PollText /\ ~ClearClicked /\ ~OthersSwitch /\ ~Destroy
      BY <1>1 DEF PollBegins, PollText, ClearClicked, Cleared, OthersSwitch, Destroy
    <2> QED BY <1>2, <2>1, <2>2, <2>3, <2>4 DEF ClipboardNext
  <1>4. poll.at = "recheck" /\ PollAdds(answers) /\ history' = Add(poll.text)
    BY <1>1, <1>3 DEF PollRecheck
  <1> QED BY <1>1, <1>4 DEF PollAdds, Recordable, Add

\* A marked text is recorded only by a poll during which the clipboard changed hands at
\* least twice, and a history emptied and given up with the switch stays empty
\* (poll_clipboard, ClipboardHistory::add, ClipboardHistory::set_enabled).
THEOREM HistoryStaysAllowed == Spec => HistoryHoldsOnlyAllowed
  <1>1. FollowInv /\ [Next]_vars
          => [\A t \in Concealed : t \in ToSet(history') \ ToSet(history)
                                   => poll.moves = 2]_clipboardVars
    <2> SUFFICES ASSUME FollowInv, [Next]_vars, NEW t \in Concealed,
                        t \in ToSet(history') \ ToSet(history)
                 PROVE  poll.moves = 2
      OBVIOUS
    <2>1. poll.at = "recheck" /\ owner \notin Concealed /\ history' = Newest(poll.text)
      BY OnlyPollsRecord
    <2>2. poll \in Polls /\ history \in Seq(Texts) /\ poll.text # None
      BY <2>1 DEF FollowInv, Steady
    <2> DEFINE S == ToSet(history) \cup {poll.text}
    <2>3. history \in Seq(S)
      BY <2>2 DEF ToSet
    <2>4. history' \in Seq(S)
      BY <2>1, <2>3, NewestAddsOne
    <2>5. ToSet(history') \subseteq S
      BY <2>4 DEF ToSet
    <2>6. t = poll.text
      BY <2>5
    <2> QED BY <2>1, <2>6 DEF FollowInv, Steady
  <1>2. FollowInv => (discarded => history = <<>>)
    BY DEF FollowInv, Steady
  <1> QED BY <1>1, <1>2, FollowInvariant, PTL DEF Spec, HistoryHoldsOnlyAllowed
=============================================================================
