--------------------------- MODULE MCInputEngine ---------------------------
(* A small keyboard for InputEngine: a paging and smart-mark key (, and -), *)
(* nested and quoted pairs, a bracket and a shifted digit; two settings     *)
(* files, one with every paging key and pairing, one without pairing where  *)
(* Ctrl alone switches the language.                                        *)
EXTENDS InputEngine

MCMarks == {".", "<", ">", "[", "!"}
Paired == [page_size |-> 1, bracket_paging |-> TRUE, comma_period_paging |-> TRUE, word_to_character |-> FALSE,
           smart |-> TRUE, repeat |-> TRUE, paired |-> TRUE, hidden |-> FALSE, lock |-> "Follow",
           default_mode |-> "Ime", bind |-> [shift |-> TRUE, ctrl |-> FALSE, chord |-> TRUE]]
Plain == [Paired EXCEPT !.bracket_paging = FALSE, !.comma_period_paging = FALSE, !.word_to_character = TRUE,
                        !.paired = FALSE, !.hidden = TRUE, !.lock = "Chinese", !.default_mode = "Direct",
                        !.bind = [shift |-> FALSE, ctrl |-> TRUE, chord |-> FALSE]]
MCOptions == {Paired, Plain}
MCPersisted == {[mode |-> "Ime", punct |-> "English", width |-> "Half", scheme |-> "Quanpin"],
                [mode |-> "Direct", punct |-> "English", width |-> "Full", scheme |-> "Quanpin"]}
MCLocalModes == {"None", "Temporary"}
MCCandidateCounts == {0, 2}
============================================================================
