--------------------------------- MODULE Text ---------------------------------
(***************************************************************************)
(* Strings as sequences of characters, and the loops that go through them. *)
(* Characters that no algorithm tells apart are represented by a few; a    *)
(* control character is represented by its name.                           *)
(***************************************************************************)
EXTENDS Naturals, Sequences, SequencesExt

CONSTANT Chars   \* the characters

Backslash == "\\"
Quote     == "\""
Blanks    == {" ", "\t"}

ASSUME PunctuationAssumption == {Backslash, Quote} \cup Blanks \subseteq Chars

String == Seq(Chars)

\* A loop over text that starts in state from; next[st] says what each
\* character makes of state st.
Folded(next, from, text) == FoldLeft(LAMBDA st, c : next[st][c], from, text)
=============================================================================
