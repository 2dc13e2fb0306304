---------------------------- MODULE TextTransform ----------------------------
(***************************************************************************)
(* The punctuation rules of src/src/TextTransform.cpp as operators. A      *)
(* typed ASCII mark is its own string, a letter or a digit is "a", and the *)
(* marks a string cannot hold have names (quot, apos, grave, backslash). A *)
(* Chinese mark is named too (rtitle closes a book title), and every full- *)
(* width form is "wide": no caller tells two of them apart.                *)
(***************************************************************************)
EXTENDS Naturals, TLC

\* PunctuationFormatter's state: which quote comes next, and how many
\* book-title marks are open.
ResetFormatter == [dq |-> TRUE, sq |-> TRUE, nest |-> 0]

\* Marks with one Chinese form whatever was typed before ...
Fixed == {"grave", "!", "$", "^", "(", ")", "_", "[", "]", "backslash", ";", ":", ",", ".", "?"}
FixedMark ==
    [a \in Fixed |->
        CASE a = "grave" -> "middot" [] a = "!" -> "exclaim" [] a = "$" -> "yen"
          [] a = "^" -> "ellipsis" [] a = "(" -> "lparen" [] a = ")" -> "rparen"
          [] a = "_" -> "dash" [] a = "[" -> "lbracket" [] a = "]" -> "rbracket"
          [] a = "backslash" -> "enum" [] a = ";" -> "semicolon" [] a = ":" -> "colon"
          [] a = "," -> "comma" [] a = "." -> "stop" [] a = "?" -> "question"]

\* ... and marks the formatter passes through unchanged.
PassThrough == {"~", "@", "#", "%", "&", "*", "{", "}"}

Quotes == {"quot", "apos"}

IsPunctuation(a) == a \in Fixed \cup PassThrough \cup Quotes \cup {"<", ">"}

\* chinese(ascii): the mark ("" when there is none) and the formatter after it.
Chinese(f, a) ==
    CASE a = "quot" -> [mark |-> IF f.dq THEN "ldquo" ELSE "rdquo", fmt |-> [f EXCEPT !.dq = ~@]]
      [] a = "apos"  -> [mark |-> IF f.sq THEN "lsquo" ELSE "rsquo", fmt |-> [f EXCEPT !.sq = ~@]]
      [] a = "<"  -> [mark |-> IF f.nest = 0 THEN "ltitle" ELSE "langle",
                      fmt |-> [f EXCEPT !.nest = @ + 1]]
      [] a = ">"  -> LET n == IF f.nest > 0 THEN f.nest - 1 ELSE 0
                     IN [mark |-> IF n = 0 THEN "rtitle" ELSE "rangle", fmt |-> [f EXCEPT !.nest = n]]
      [] a \in PassThrough -> [mark |-> a, fmt |-> f]
      [] a \in Fixed -> [mark |-> FixedMark[a], fmt |-> f]
      [] OTHER -> [mark |-> "", fmt |-> f]

SmartMarks == {",", ".", ":"}

\* should_keep_ascii_punctuation: "a" is any ASCII letter or digit.
KeepAscii(a, prev) == a \in SmartMarks /\ prev = "a"

Openings == {"ldquo", "lsquo", "lbracket", "{", "ltitle", "langle", "lparen"}
Closings ==
    [m \in Openings |->
        CASE m = "ldquo" -> "rdquo" [] m = "lsquo" -> "rsquo" [] m = "lbracket" -> "rbracket"
          [] m = "{" -> "}" [] m = "ltitle" -> "rtitle" [] m = "langle" -> "rangle"
          [] m = "lparen" -> "rparen"]

PairedClosing(mark) == IF mark \in Openings THEN Closings[mark] ELSE ""

\* to_full_width of a printable ASCII character; the keys that reach it are all printable.
FullWidth(a) == "wide"
==============================================================================
