------------------------------- MODULE CmdLine -------------------------------
(***************************************************************************)
(* The command line of the target: quote_arg and build_cmdline of main.cpp *)
(* on one side, and on the other what the target's C runtime makes of the  *)
(* line (CommandLineToArgvW), which is Windows and not this program.       *)
(***************************************************************************)
EXTENDS Text

Backslashes(n) == [i \in 1..n |-> Backslash]

NeedsQuotes(arg) == arg = <<>> \/ \E c \in Blanks : Contains(arg, c)

\* Faulty: a quote is escaped, the backslashes before it are not.
EscapeQuoteAlone(n, c) ==
    Backslashes(n) \o (IF c = Quote THEN <<Backslash, Quote>> ELSE <<c>>)

\* The n backslashes that come before c, and c: doubled before a quote.
Escape(n, c) ==
    IF c = Quote THEN Backslashes(2 * n) \o <<Backslash, Quote>>
                 ELSE Backslashes(n) \o <<c>>

\* bs counts the backslashes that are held back.
Quoted == [out : String, bs : Nat]

QuoteChar == [st \in Quoted |-> [c \in Chars |->
    IF c = Backslash THEN [out |-> st.out, bs |-> st.bs + 1]
                     ELSE [out |-> st.out \o Escape(st.bs, c), bs |-> 0]]]

\* The backslashes that end a quoted argument are doubled, so that they do
\* not escape the closing quote.
quote_arg(arg) ==
    LET body == Folded(QuoteChar, [out |-> <<>>, bs |-> 0], arg)
    IN  IF NeedsQuotes(arg)
          THEN <<Quote>> \o body.out \o Backslashes(2 * body.bs) \o <<Quote>>
          ELSE body.out \o Backslashes(body.bs)

AddArg == [line \in String |-> [arg \in String |-> line \o <<" ">> \o quote_arg(arg)]]

build_cmdline(exe, args) == Folded(AddArg, quote_arg(exe), args)

-----------------------------------------------------------------------------
(* The reader: argv[0] ends at the next quote or blank; in the rest a      *)
(* backslash escapes only before a quote.                                  *)

FirstIn(line, from, set) ==
    LET ends == {i \in from..Len(line) : line[i] \in set}
    IN  IF ends = {} THEN Len(line) + 1 ELSE CHOOSE i \in ends : \A j \in ends : i <= j

NameEnd(line) ==
    IF line[1] = Quote THEN FirstIn(line, 2, {Quote}) ELSE FirstIn(line, 1, Blanks) - 1

ProgramName(line) ==
    IF line[1] = Quote THEN SubSeq(line, 2, NameEnd(line) - 1)
                       ELSE SubSeq(line, 1, NameEnd(line))

AfterName(line) == SubSeq(line, NameEnd(line) + 1, Len(line))

\* The argument being read is cur and bs backslashes; the reader is between
\* arguments, in a bare part of one, inside quotes, or has just shut them.
ArgvState == [ args : Seq(String), cur : String, bs : Nat,
               mode : {"blank", "bare", "inside", "shut"} ]

\* A character of an argument ends neither it nor the quotes it is in.
Within(mode) == IF mode = "inside" THEN "inside" ELSE "bare"

Argument(st) == st.cur \o Backslashes(st.bs)

Halved(st) == st.cur \o Backslashes(st.bs \div 2)

\* The arguments up to here.
Arguments(st) == IF st.mode = "blank" THEN st.args ELSE Append(st.args, Argument(st))

Between(args) == [args |-> args, cur |-> <<>>, bs |-> 0, mode |-> "blank"]

\* A quote after an odd number of backslashes is meant, and so is one right
\* after a closing quote, which opens the quotes again.
Meant(st) == st.bs % 2 = 1 \/ st.mode = "shut"

MeantQuote(st) ==
    [args |-> st.args, cur |-> Append(Halved(st), Quote), bs |-> 0,
     mode |-> IF st.mode = "shut" THEN "inside" ELSE Within(st.mode)]

\* Any other opens or closes quotes.
OtherQuote(st) ==
    [args |-> st.args, cur |-> Halved(st), bs |-> 0,
     mode |-> IF st.mode = "inside" THEN "shut" ELSE "inside"]

ArgvChar == [st \in ArgvState |-> [c \in Chars |->
    IF c = Backslash THEN
        [args |-> st.args, cur |-> st.cur, bs |-> st.bs + 1, mode |-> Within(st.mode)]
    ELSE IF c = Quote THEN
        IF Meant(st) THEN MeantQuote(st) ELSE OtherQuote(st)
    ELSE IF c \in Blanks /\ st.mode # "inside" THEN
        Between(Arguments(st))
    ELSE
        [args |-> st.args, cur |-> Append(Argument(st), c), bs |-> 0,
         mode |-> Within(st.mode)]]]

CommandLineToArgv(line) ==
    <<ProgramName(line)>> \o Arguments(Folded(ArgvChar, Between(<<>>), AfterName(line)))
=============================================================================
