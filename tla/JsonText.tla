------------------------------- MODULE JsonText -------------------------------
(***************************************************************************)
(* The strings of the two JSON messages between sandbox.py and the host:   *)
(* parse_str and JsonOut::quote of json_parse.h, against json.dumps (with  *)
(* ensure_ascii=False) and json.loads of Python.                           *)
(*                                                                         *)
(* The four digits of a \u escape are one character here, and so are the   *)
(* bytes of one character in UTF-8.                                        *)
(***************************************************************************)
EXTENDS Text

CONSTANT Stray   \* what UTF-8 has no place for: a byte of no character, which a
                 \* target may write, or a lone surrogate, which a Python
                 \* string may hold

\* The escapes of one letter, and what they stand for.
Short == [l \in {"\"", "\\", "n", "r", "t", "b", "f"} |->
    CASE l = "n" -> "LF" [] l = "r" -> "CR" [] l = "t" -> "\t"
      [] l = "b" -> "BS" [] l = "f" -> "FF" [] OTHER  -> l]

\* The other control characters, with their digits.
Digits == [d \in {"0000", "001b"} |-> IF d = "0000" THEN "NUL" ELSE "ESC"]

Escapes(escape) == {escape[l] : l \in DOMAIN escape}

Controls == (Escapes(Short) \cup Escapes(Digits)) \ {"\"", "\\"}

ASSUME EscapesAssumption ==
    {"u"} \cup DOMAIN Short \cup DOMAIN Digits \cup Controls \subseteq Chars

\* All that the writers add is ASCII.
ASSUME StrayAssumption ==
    /\ Stray \subseteq Chars
    /\ Stray \cap ({"\\", "\"", "u"} \cup DOMAIN Short \cup DOMAIN Digits \cup Controls) = {}

\* UTF-8, from the first to the last.
IsText(s) == \A i \in 1..Len(s) : s[i] \notin Stray

Letter(escape, c) == CHOOSE l \in DOMAIN escape : escape[l] = c

\* Both writers escape a character like this.
Escaped(c) ==
    IF c \in Escapes(Short) THEN <<"\\", Letter(Short, c)>>
    ELSE IF c \in Escapes(Digits) THEN <<"\\", "u", Letter(Digits, c)>>
    ELSE <<c>>

WriteChar == [out \in String |-> [c \in Chars |-> out \o Escaped(c)]]

Written(s) == <<"\"">> \o Folded(WriteChar, <<>>, s) \o <<"\"">>

\* Faulty: only a quote is escaped.
quoteNoControls(s) ==
    <<"\"">> \o FlattenSeq([i \in DOMAIN s |-> IF s[i] = "\"" THEN <<"\\", "\"">>
                                                             ELSE <<s[i]>>]) \o <<"\"">>

\* JsonOut::quote
quote(s) == Written(s)

dumps(s) == Written(s)

-----------------------------------------------------------------------------
ReaderState == [ out : String, in : {"string", "escape", "digits", "done", "junk"} ]

\* What an escape of one letter, and the digits of one, stand for; meant is
\* what the reader takes the letters for.
Unescaped(st, c, meant) ==
    IF c = "u" THEN [out |-> st.out, in |-> "digits"]
    ELSE IF c \in DOMAIN meant THEN [out |-> Append(st.out, meant[c]), in |-> "string"]
    ELSE [out |-> st.out, in |-> "junk"]

Numbered(st, c) ==
    IF c \in DOMAIN Digits THEN [out |-> Append(st.out, Digits[c]), in |-> "string"]
                           ELSE [out |-> st.out, in |-> "junk"]

\* The characters of bare are taken as they come.
Unquoted(st, c, bare) ==
    IF c = "\\" THEN [out |-> st.out, in |-> "escape"]
    ELSE IF c = "\"" THEN [out |-> st.out, in |-> "done"]
    ELSE IF c \in bare THEN [out |-> Append(st.out, c), in |-> "string"]
    ELSE [out |-> st.out, in |-> "junk"]

StringChar(meant, bare) == [st \in ReaderState |-> [c \in Chars |->
    IF st.in = "string" THEN Unquoted(st, c, bare)
    ELSE IF st.in = "escape" THEN Unescaped(st, c, meant)
    ELSE IF st.in = "digits" THEN Numbered(st, c)
    ELSE [out |-> st.out, in |-> "junk"]]]

Opened == [out |-> <<>>, in |-> "string"]

\* Reading starts after the opening quote.  A string that does not end with
\* the text is malformed.
Read(text, meant, bare) ==
    LET last == Folded(StringChar(meant, bare), Opened, Tail(text))
    IN  IF last.in = "done" THEN last.out ELSE <<"malformed">>

\* parse_str does not know \b and \f: what it does not know stands for
\* itself.
Understood == [l \in Chars |-> IF l \in DOMAIN Short \ {"b", "f"} THEN Short[l] ELSE l]

\* It lets a bare control character pass, Python does not.
parse_str(text) == Read(text, Understood, Chars)

loads(text) == Read(text, Short, Chars \ Controls)
=============================================================================
