----------------------------- MODULE MCHandover -----------------------------
(***************************************************************************)
(* The launches that TLC goes through: every argument of up to four of the *)
(* characters that the quoting tells apart, pairs of short ones, control   *)
(* characters, what is not UTF-8, and limits around the bounds of their    *)
(* fields, with a SIZE_T of 6 bits and a MiB of 2.                         *)
(***************************************************************************)
EXTENDS Handover

Shell   == {"a", " ", "\\", "\""}
Control == {"a", "\t", "LF", "NUL", "ESC", "BS", "\\", "stray"}

MCStray == {"stray"}

MCChars == Shell \cup Control \cup
    {"e", "n", "r", "t", "b", "f", "u", "0000", "001b", "LF", "CR", "FF"}

MCArgs ==
    {<<>>} \cup {<<s>> : s \in BoundedSeq(Shell, 4) \cup BoundedSeq(Control, 2)}
           \cup (BoundedSeq(Shell, 2) \X BoundedSeq(Shell, 1))

MCExe == {<<"e">>, <<"e", " ", "e">>, <<"e", " ", "\\">>, <<"e", "stray">>}

Usual == [native |-> FALSE, exe |-> <<"e">>, args |-> <<>>, max |-> 50, min |-> 5,
          skipCpu |-> FALSE, mb |-> None, modern |-> TRUE]

MCConfigs ==
    {[Usual EXCEPT !.exe = e, !.args = a] : e \in MCExe, a \in MCArgs}
    \cup
    {[Usual EXCEPT !.native = n, !.max = p, !.min = q, !.skipCpu = s, !.mb = m,
                   !.modern = w] :
        n \in BOOLEAN, s \in BOOLEAN, w \in BOOLEAN, p \in {0, 1, 50, 100, 101},
        q \in {0, 1, 50, 100, 656}, m \in {None, 0, 1, 15, 16, 17, 64, 65}}

MCOutputs == BoundedSeq({"a", "\"", "LF", "ESC", "FF", "stray"}, 2)
=============================================================================
