----------------------------- MODULE MCSubtitles -----------------------------
(***************************************************************************)
(* An instance of Subtitles for TLC.                                       *)
(***************************************************************************)
EXTENDS Subtitles

\* Narrations of one sentence and up to three words, 0.1 s or 0.6 s apart, with
\* or without punctuation after each.
Sentence == [time |-> 0, word |-> FALSE, ends |-> TRUE]
Word(t, e) == [time |-> t, word |-> TRUE, ends |-> e]

Narrations ==
    {<<Sentence>>}
    \cup {<<Sentence, Word(0, e)>> : e \in BOOLEAN}
    \cup {<<Sentence, Word(0, e), Word(g, f)>> : e, f \in BOOLEAN, g \in {1, 6}}
    \cup {<<Sentence, Word(0, e), Word(g, f), Word(g + h, TRUE)>> :
             e, f \in BOOLEAN, g, h \in {1, 6}}
    \cup {<<Word(5, FALSE), Word(6, FALSE), Word(12, FALSE)>>}
=============================================================================
