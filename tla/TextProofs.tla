------------------------------ MODULE TextProofs ------------------------------
(***************************************************************************)
(* Proofs about the strings that cross a boundary: what the target's C     *)
(* runtime reads in the command line is what build_cmdline was given, and  *)
(* what each JSON reader reads in a string is what the other side's writer *)
(* was given, for strings of every length over every set of characters.    *)
(***************************************************************************)
EXTENDS CmdLine, JsonText, SequenceTheorems, WellFoundedInduction, TLAPS

-----------------------------------------------------------------------------
(* Induction.  The library's induction theorems take a predicate as their  *)
(* parameter; a set takes its place here.                                  *)

\* A set that holds 0, and n + 1 with every n, holds every number: there is
\* no least one that it does not hold.
LEMMA NatInduct ==
    ASSUME NEW S, 0 \in S, \A n \in S \cap Nat : n + 1 \in S
    PROVE  Nat \subseteq S
<1> DEFINE T == Nat \ S
           R == OpToRel(<, Nat)
<1> SUFFICES ASSUME T # {} PROVE FALSE
  OBVIOUS
<1>1. PICK n \in T : \A m \in T : ~(<<m, n>> \in R)
  <2>1. IsWellFoundedOn(R, Nat)
    BY NatLessThanWellFounded
  <2>2. T \subseteq Nat
    OBVIOUS
  <2> HIDE DEF R, T
  <2> QED
    BY <2>1, <2>2, WFMin
<1>2. \A k \in Nat : k < n => <<k, n>> \in R
  BY <1>1 DEF OpToRel
<1> HIDE DEF R
<1>3. n # 0 /\ n - 1 \in Nat
  BY <1>1
<1>4. n - 1 \in T
  BY <1>1, <1>3
<1>5. <<n - 1, n>> \in R
  BY <1>1, <1>2, <1>3
<1> QED
  BY <1>1, <1>4, <1>5

\* A set that holds the empty sequence, and with every sequence those that
\* are longer by one, holds every sequence.
LEMMA SeqInduct ==
    ASSUME NEW C, NEW S,
           <<>> \in S,
           \A s \in S \cap Seq(C), c \in C : Append(s, c) \in S
    PROVE  Seq(C) \subseteq S
<1> DEFINE N == {n \in Nat : \A s \in Seq(C) : Len(s) = n => s \in S}
<1>1. 0 \in N
  <2>1. \A s \in Seq(C) : Len(s) = 0 => s = <<>>
    BY EmptySeq
  <2> QED
    BY <2>1
<1>2. ASSUME NEW n \in N \cap Nat PROVE n + 1 \in N
  <2> SUFFICES ASSUME NEW s \in Seq(C), Len(s) = n + 1 PROVE s \in S
    OBVIOUS
  <2>1. s # <<>>
    BY EmptySeq
  <2>2. PICK t \in Seq(C), c \in C : s = Append(t, c)
    BY <2>1, SequenceEmptyOrAppend
  <2>3. Len(s) = Len(t) + 1 /\ Len(t) \in Nat
    BY <2>2, AppendProperties, LenProperties
  <2>4. t \in S
    BY <1>2, <2>3
  <2> QED
    BY <2>2, <2>4
<1> HIDE DEF N
<1>3. Nat \subseteq N
  BY <1>1, <1>2, NatInduct
<1>4. \A s \in Seq(C) : Len(s) \in N
  BY <1>3, LenProperties
<1> QED
  BY <1>4 DEF N

-----------------------------------------------------------------------------
(* Loops.  The library defines a fold by a function on all the sets of     *)
(* places of the sequence; that there is one must be proved.               *)

Rounds(it, next, from, text, places) ==
    it = [u \in SUBSET places |->
            IF u = {} THEN from ELSE next[it[u \ {Max(u)}]][text[Max(u)]]]

LEMMA FoldIsRounds ==
    ASSUME NEW next, NEW from, NEW text
    PROVE  Folded(next, from, text)
             = (CHOOSE it : Rounds(it, next, from, text, DOMAIN text))[DOMAIN text]
BY Zenon DEF Folded, FoldLeft, MapThenFoldSet, Rounds

LEMMA LastPlace ==
    ASSUME NEW n \in Nat, NEW u, u \subseteq 1..n + 1, n + 1 \in u
    PROVE  Max(u) = n + 1 /\ u \ {Max(u)} \subseteq 1..n
<1>1. n + 1 \in u /\ \A y \in u : n + 1 >= y
  OBVIOUS
<1>2. \A x \in u : (\A y \in u : x >= y) => x = n + 1
  OBVIOUS
<1>3. Max(u) = n + 1
  BY <1>1, <1>2 DEF Max
<1> QED
  BY <1>3

LEMMA RoundsExist ==
    ASSUME NEW next, NEW from, NEW text
    PROVE  \A n \in Nat : \E it : Rounds(it, next, from, text, 1..n)
<1> DEFINE S == {n \in Nat : \E it : Rounds(it, next, from, text, 1..n)}
<1>1. 0 \in S
  <2>1. Rounds([u \in SUBSET (1..0) |-> from], next, from, text, 1..0)
    BY DEF Rounds
  <2> QED
    BY <2>1
<1>2. ASSUME NEW n \in S \cap Nat PROVE n + 1 \in S
  <2>1. PICK it : Rounds(it, next, from, text, 1..n)
    BY <1>2
  <2> DEFINE jt == [u \in SUBSET (1..n + 1) |->
                      IF n + 1 \in u THEN next[it[u \ {n + 1}]][text[n + 1]] ELSE it[u]]
             kt == [u \in SUBSET (1..n + 1) |->
                      IF u = {} THEN from ELSE next[jt[u \ {Max(u)}]][text[Max(u)]]]
  <2>2. ASSUME NEW u \in SUBSET (1..n + 1) PROVE jt[u] = kt[u]
    <3>1. CASE n + 1 \in u
      <4>1. Max(u) = n + 1 /\ u \ {n + 1} \subseteq 1..n
        BY <3>1, LastPlace
      <4>2. jt[u \ {n + 1}] = it[u \ {n + 1}]
        BY <4>1
      <4> QED
        BY <3>1, <4>1, <4>2
    <3>2. CASE n + 1 \notin u
      <4>1. u \in SUBSET (1..n)
        BY <3>2
      <4>2. it[u] = IF u = {} THEN from ELSE next[it[u \ {Max(u)}]][text[Max(u)]]
        BY <2>1, <4>1 DEF Rounds
      <4>3. jt[u \ {Max(u)}] = it[u \ {Max(u)}]
        BY <3>2, <4>1
      <4> QED
        BY <3>2, <4>2, <4>3
    <3> QED
      BY <3>1, <3>2
  <2>3. jt = kt
    BY <2>2
  <2>4. Rounds(jt, next, from, text, 1..n + 1)
    BY <2>3 DEF Rounds
  <2> QED
    BY <2>4
<1> HIDE DEF S
<1>3. Nat \subseteq S
  BY <1>1, <1>2, NatInduct
<1> QED
  BY <1>3 DEF S

LEMMA FoldRounds ==
    ASSUME NEW next, NEW from, NEW C, NEW text \in Seq(C)
    PROVE  \E it : /\ Folded(next, from, text) = it[1..Len(text)]
                   /\ it[{}] = from
                   /\ \A n \in 1..Len(text) :
                        it[1..n] = next[it[1..n - 1]][text[n]]
<1> DEFINE len == Len(text)
           it == CHOOSE it : Rounds(it, next, from, text, 1..len)
<1>1. len \in Nat /\ DOMAIN text = 1..len
  BY LenProperties
<1>2. Rounds(it, next, from, text, 1..len)
  <2>1. \E jt : Rounds(jt, next, from, text, 1..len)
    BY <1>1, RoundsExist
  <2> QED
    BY <2>1
<1>3. Folded(next, from, text) = it[1..len]
  BY <1>1, FoldIsRounds
<1> HIDE DEF it, len
<1>4. it[{}] = from
  BY <1>2 DEF Rounds
<1>5. ASSUME NEW n \in 1..len
      PROVE  it[1..n] = next[it[1..n - 1]][text[n]]
  <2>1. n - 1 \in Nat /\ n = (n - 1) + 1 /\ 1..n \subseteq 1..(n - 1) + 1
    BY <1>1
  <2>2. Max(1..n) = n
    BY <2>1, LastPlace, n \in 1..n
  <2>3. (1..n) \ {n} = 1..n - 1
    BY <1>1
  <2>4. 1..n \in SUBSET (1..len) /\ 1..n # {}
    BY <1>1
  <2>5. \A u \in SUBSET (1..len) : u # {} =>
           it[u] = next[it[u \ {Max(u)}]][text[Max(u)]]
    BY <1>2 DEF Rounds
  <2>6. it[1..n] = next[it[(1..n) \ {Max(1..n)}]][text[Max(1..n)]]
    BY <2>4, <2>5
  <2> QED
    BY <2>2, <2>3, <2>6
<1> QED
  BY <1>3, <1>4, <1>5 DEF len

\* A loop over no text stays where it starts.
LEMMA FoldEmpty ==
    ASSUME NEW next, NEW from
    PROVE  Folded(next, from, <<>>) = from
<1>1. PICK text \in Seq({}) : text = <<>>
  BY EmptySeq
<1>2. PICK it : Folded(next, from, text) = it[1..Len(text)] /\ it[{}] = from
  BY FoldRounds
<1>3. Len(text) = 0 /\ 1..0 = {}
  BY <1>1, EmptySeq
<1> QED
  BY <1>1, <1>2, <1>3

\* One more character is one more step.
LEMMA FoldAppend ==
    ASSUME NEW next, NEW from, NEW C, NEW s \in Seq(C), NEW c \in C
    PROVE  Folded(next, from, Append(s, c)) = next[Folded(next, from, s)][c]
<1> DEFINE t == Append(s, c)
<1>1. /\ Len(s) \in Nat /\ t \in Seq(C) /\ Len(t) = Len(s) + 1
      /\ t[Len(s) + 1] = c /\ \A i \in 1..Len(s) : t[i] = s[i]
  BY AppendProperties, LenProperties
<1> HIDE DEF t
<1>2. PICK it : /\ Folded(next, from, s) = it[1..Len(s)]
                /\ it[{}] = from
                /\ \A n \in 1..Len(s) : it[1..n] = next[it[1..n - 1]][s[n]]
  BY FoldRounds
<1>3. PICK jt : /\ Folded(next, from, t) = jt[1..Len(t)]
                /\ jt[{}] = from
                /\ \A n \in 1..Len(t) : jt[1..n] = next[jt[1..n - 1]][t[n]]
  BY <1>1, FoldRounds
<1> DEFINE S == {n \in Nat : n <= Len(s) => it[1..n] = jt[1..n]}
<1>4. 0 \in S
  <2>1. 1..0 = {}
    OBVIOUS
  <2> QED
    BY <1>2, <1>3, <2>1
<1>5. ASSUME NEW n \in S \cap Nat PROVE n + 1 \in S
  <2> SUFFICES ASSUME n + 1 <= Len(s) PROVE it[1..n + 1] = jt[1..n + 1]
    OBVIOUS
  <2>1. n + 1 \in 1..Len(s) /\ n + 1 \in 1..Len(t) /\ (n + 1) - 1 = n /\ n <= Len(s)
    BY <1>1
  <2>2. it[1..n + 1] = next[it[1..n]][s[n + 1]]
    BY <1>2, <2>1
  <2>3. jt[1..n + 1] = next[jt[1..n]][t[n + 1]]
    BY <1>3, <2>1
  <2>4. it[1..n] = jt[1..n] /\ t[n + 1] = s[n + 1]
    BY <1>1, <1>5, <2>1
  <2> QED
    BY <2>2, <2>3, <2>4
<1> HIDE DEF S
<1>6. Len(s) \in S
  BY <1>1, <1>4, <1>5, NatInduct
<1>7. it[1..Len(s)] = jt[1..Len(s)]
  BY <1>1, <1>6 DEF S
<1>8. Len(t) \in 1..Len(t) /\ Len(t) - 1 = Len(s) /\ t[Len(t)] = c
  BY <1>1
<1>9. jt[1..Len(t)] = next[jt[1..Len(s)]][c]
  BY <1>3, <1>8
<1> QED
  BY <1>2, <1>3, <1>7, <1>9 DEF t

\* What every step keeps, the loop keeps.
LEMMA FoldType ==
    ASSUME NEW next, NEW C, NEW A, NEW from \in A,
           \A st \in A, c \in C : next[st][c] \in A
    PROVE  \A s \in Seq(C) : Folded(next, from, s) \in A
<1> DEFINE S == {s \in Seq(C) : Folded(next, from, s) \in A}
<1>1. <<>> \in S
  BY FoldEmpty, EmptySeq
<1>2. ASSUME NEW s \in S \cap Seq(C), NEW c \in C PROVE Append(s, c) \in S
  BY FoldAppend, AppendProperties
<1> HIDE DEF S
<1>3. Seq(C) \subseteq S
  BY <1>1, <1>2, SeqInduct
<1> QED
  BY <1>3 DEF S

\* A character by itself.
LEMMA FoldOne ==
    ASSUME NEW next, NEW from, NEW C, NEW c \in C
    PROVE  Folded(next, from, <<c>>) = next[from][c]
<1>1. PICK s \in Seq(C) : s = <<>>
  BY EmptySeq
<1>2. Folded(next, from, Append(s, c)) = next[Folded(next, from, s)][c]
  BY FoldAppend
<1>3. <<c>> = Append(s, c)
  BY <1>1
<1> QED
  BY <1>1, <1>2, <1>3, FoldEmpty

LEMMA AppendToConcat ==
    ASSUME NEW C, NEW s \in Seq(C), NEW t \in Seq(C), NEW c \in C
    PROVE  s \o Append(t, c) = Append(s \o t, c)
<1>1. <<c>> \in Seq(C)
  OBVIOUS
<1>2. Append(t, c) = t \o <<c>> /\ Append(s \o t, c) = (s \o t) \o <<c>>
  BY AppendIsConcat, ConcatProperties
<1> QED
  BY <1>1, <1>2, ConcatAssociative

\* A loop over two texts goes on in the second where it left the first.
LEMMA FoldConcat ==
    ASSUME NEW next, NEW from, NEW C, NEW s \in Seq(C)
    PROVE  \A t \in Seq(C) :
             Folded(next, from, s \o t) = Folded(next, Folded(next, from, s), t)
<1> DEFINE st == Folded(next, from, s)
           S == {t \in Seq(C) : Folded(next, from, s \o t) = Folded(next, st, t)}
<1> HIDE DEF st
<1>1. <<>> \in S
  BY FoldEmpty, EmptySeq, ConcatEmptySeq DEF st
<1>2. ASSUME NEW t \in S \cap Seq(C), NEW c \in C PROVE Append(t, c) \in S
  <2> DEFINE u == s \o t
  <2>1. s \o Append(t, c) = Append(u, c) /\ u \in Seq(C)
    BY AppendToConcat, ConcatProperties
  <2>4. Folded(next, from, u) = Folded(next, st, t)
    BY <1>2
  <2> HIDE DEF u
  <2>2. Folded(next, from, Append(u, c)) = next[Folded(next, from, u)][c]
    BY <2>1, FoldAppend
  <2>3. Folded(next, st, Append(t, c)) = next[Folded(next, st, t)][c]
    BY FoldAppend
  <2> QED
    BY <2>1, <2>2, <2>3, <2>4, AppendProperties
<1> HIDE DEF S
<1>3. Seq(C) \subseteq S
  BY <1>1, <1>2, SeqInduct
<1> QED
  BY <1>3 DEF S, st

-----------------------------------------------------------------------------
(* The characters, and runs of backslashes.                                *)

LEMMA Characters ==
    /\ Backslash \in Chars /\ Quote \in Chars /\ " " \in Chars
    /\ Blanks \subseteq Chars /\ " " \in Blanks
    /\ Backslash # Quote /\ Backslash \notin Blanks /\ Quote \notin Blanks
BY PunctuationAssumption DEF Backslash, Quote, Blanks

LEMMA BackslashesType ==
    ASSUME NEW n \in Nat
    PROVE  Backslashes(n) \in String /\ Len(Backslashes(n)) = n
<1>1. Backslashes(n) \in [1..n -> Chars]
  BY Characters DEF Backslashes
<1>2. Backslashes(n) \in String
  BY <1>1 DEF String
<1>3. DOMAIN Backslashes(n) = 1..Len(Backslashes(n)) /\ Len(Backslashes(n)) \in Nat
  BY <1>2, LenProperties DEF String
<1>4. DOMAIN Backslashes(n) = 1..n
  BY DEF Backslashes
<1>5. \A m \in Nat : 1..m = 1..n => m = n
  OBVIOUS
<1> QED
  BY <1>2, <1>3, <1>4, <1>5

LEMMA NoBackslashes == Backslashes(0) = <<>>
<1>1. Backslashes(0) \in Seq(Chars) /\ Len(Backslashes(0)) = 0
  BY BackslashesType, 0 \in Nat DEF String
<1> QED
  BY <1>1, EmptySeq

LEMMA OneBackslashMore ==
    ASSUME NEW n \in Nat
    PROVE  Backslashes(n + 1) = Append(Backslashes(n), Backslash)
<1>0. PICK c \in Chars : c = Backslash
  BY Characters
<1> DEFINE r == Backslashes(n)
           s == Backslashes(n + 1)
           t == Append(r, c)
<1>1. r \in Seq(Chars) /\ Len(r) = n
  BY BackslashesType DEF String
<1>2. s \in Seq(Chars) /\ Len(s) = n + 1
  BY BackslashesType DEF String
<1>3. /\ \A i \in 1..n + 1 : s[i] = Backslash
      /\ \A i \in 1..n : r[i] = Backslash
  BY DEF Backslashes
<1> HIDE DEF r, s
<1>4. /\ t \in Seq(Chars) /\ Len(t) = n + 1 /\ t[n + 1] = c
      /\ \A i \in 1..n : t[i] = r[i]
  BY <1>1, AppendProperties
<1>5. \A i \in 1..n + 1 : s[i] = t[i]
  BY <1>0, <1>3, <1>4
<1> HIDE DEF t
<1>6. s = t
  BY <1>2, <1>4, <1>5, SeqEqual
<1> QED
  BY <1>0, <1>6 DEF r, s, t

-----------------------------------------------------------------------------
(* The reader of the command line, one character at a time.                *)

Reading(st, text) == Folded(ArgvChar, st, text)

LEMMA ReadBackslash ==
    ASSUME NEW st \in ArgvState
    PROVE  ArgvChar[st][Backslash] = [ args |-> st.args, cur |-> st.cur, bs |-> st.bs + 1,
                                       mode |-> Within(st.mode) ]
BY Characters DEF ArgvChar

LEMMA ReadQuote ==
    ASSUME NEW st \in ArgvState
    PROVE  ArgvChar[st][Quote] = IF Meant(st) THEN MeantQuote(st) ELSE OtherQuote(st)
BY Characters DEF ArgvChar

LEMMA ReadBlank ==
    ASSUME NEW st \in ArgvState, st.mode # "inside"
    PROVE  ArgvChar[st][" "] = Between(Arguments(st))
BY Characters DEF ArgvChar

LEMMA ReadOther ==
    ASSUME NEW st \in ArgvState, NEW c \in Chars, c \notin {Backslash, Quote},
           st.mode # "inside" => c \notin Blanks
    PROVE  ArgvChar[st][c] = [ args |-> st.args, cur |-> Append(Argument(st), c), bs |-> 0,
                               mode |-> Within(st.mode) ]
BY DEF ArgvChar

LEMMA HalfType ==
    ASSUME NEW st \in ArgvState
    PROVE  /\ Argument(st) \in String /\ Halved(st) \in String
           /\ Arguments(st) \in Seq(String)
<1>1. /\ st.cur \in Seq(Chars) /\ st.bs \in Nat /\ st.args \in Seq(String)
      /\ st.bs \div 2 \in Nat
  BY DEF ArgvState, String
<1>2. Backslashes(st.bs) \in Seq(Chars) /\ Backslashes(st.bs \div 2) \in Seq(Chars)
  BY <1>1, BackslashesType DEF String
<1>3. Argument(st) \in String /\ Halved(st) \in String
  BY <1>1, <1>2, ConcatProperties DEF Argument, Halved, String
<1> QED
  BY <1>1, <1>3, AppendProperties DEF Arguments

LEMMA StepType ==
    ASSUME NEW st \in ArgvState, NEW c \in Chars
    PROVE  ArgvChar[st][c] \in ArgvState
<1>1. /\ st.cur \in Seq(Chars) /\ st.bs \in Nat /\ st.args \in Seq(String)
      /\ st.mode \in {"blank", "bare", "inside", "shut"}
  BY DEF ArgvState, String
<1>2. /\ Argument(st) \in Seq(Chars) /\ Halved(st) \in Seq(Chars)
      /\ Arguments(st) \in Seq(String)
  BY HalfType DEF String
<1>3. Append(Argument(st), c) \in Seq(Chars) /\ Append(Halved(st), Quote) \in Seq(Chars)
  BY <1>2, Characters, AppendProperties
<1>4. Within(st.mode) \in {"bare", "inside"} /\ <<>> \in Seq(Chars)
  BY EmptySeq DEF Within
<1> QED
  BY <1>1, <1>2, <1>3, <1>4
     DEF ArgvChar, ArgvState, String, Between, MeantQuote, OtherQuote

LEMMA Reads ==
    ASSUME NEW st \in ArgvState
    PROVE  /\ Reading(st, <<>>) = st
           /\ \A s \in String : Reading(st, s) \in ArgvState
           /\ \A s \in String, c \in Chars :
                Reading(st, Append(s, c)) = ArgvChar[Reading(st, s)][c]
           /\ \A s, t \in String : Reading(st, s \o t) = Reading(Reading(st, s), t)
           /\ \A c \in Chars : Reading(st, <<c>>) = ArgvChar[st][c]
<1>1. Reading(st, <<>>) = st
  BY FoldEmpty DEF Reading
<1>2. \A s \in String : Reading(st, s) \in ArgvState
  BY StepType, FoldType DEF Reading, String
<1>3. \A s \in String, c \in Chars :
        Reading(st, Append(s, c)) = ArgvChar[Reading(st, s)][c]
  BY FoldAppend DEF Reading, String
<1>4. \A s, t \in String : Reading(st, s \o t) = Reading(Reading(st, s), t)
  BY FoldConcat DEF Reading, String
<1>5. ASSUME NEW c \in Chars PROVE Reading(st, <<c>>) = ArgvChar[st][c]
  BY FoldOne DEF Reading
<1> QED
  BY <1>1, <1>2, <1>3, <1>4, <1>5

\* Backslashes are only counted.
LEMMA ReadBackslashes ==
    ASSUME NEW st \in ArgvState
    PROVE  \A n \in Nat :
             Reading(st, Backslashes(n)) =
               [ args |-> st.args, cur |-> st.cur, bs |-> st.bs + n,
                 mode |-> IF n = 0 THEN st.mode ELSE Within(st.mode) ]
<1> DEFINE At(n) == [ args |-> st.args, cur |-> st.cur, bs |-> st.bs + n,
                      mode |-> IF n = 0 THEN st.mode ELSE Within(st.mode) ]
           S == {n \in Nat : Reading(st, Backslashes(n)) = At(n)}
<1>1. 0 \in S
  BY NoBackslashes, Reads DEF ArgvState
<1>2. ASSUME NEW n \in S \cap Nat PROVE n + 1 \in S
  <2> DEFINE b == Backslashes(n)
  <2>1. b \in String /\ Reading(st, b) = At(n) /\ At(n) \in ArgvState
    BY Reads, BackslashesType
  <2>5. Append(b, Backslash) = Backslashes(n + 1)
    BY OneBackslashMore
  <2>6. PICK c \in Chars : c = Backslash
    BY Characters
  <2> HIDE DEF b
  <2>2. Reading(st, Append(b, c)) = ArgvChar[At(n)][c]
    BY <2>1, Reads
  <2>3. Within(Within(st.mode)) = Within(st.mode)
    BY DEF Within
  <2>4. ArgvChar[At(n)][Backslash] = At(n + 1)
    BY <2>1, <2>3, ReadBackslash DEF ArgvState
  <2>7. Reading(st, Append(b, Backslash)) = At(n + 1)
    BY <2>2, <2>4, <2>6
  <2>8. Reading(st, Backslashes(n + 1)) = At(n + 1)
    BY <2>5, <2>7
  <2> QED
    BY <2>8
<1> HIDE DEF S
<1>3. Nat \subseteq S
  BY <1>1, <1>2, NatInduct
<1> QED
  BY <1>3 DEF S

\* What Escape makes of some backslashes and a character reads as these
\* backslashes and the character.
LEMMA ReadEscape ==
    ASSUME NEW st \in ArgvState, st.bs = 0, st.mode # "shut",
           NEW n \in Nat, NEW c \in Chars, c # Backslash,
           st.mode # "inside" => c \notin Blanks
    PROVE  /\ Escape(n, c) \in String
           /\ Reading(st, Escape(n, c)) =
                [ args |-> st.args, cur |-> Append(st.cur \o Backslashes(n), c), bs |-> 0,
                  mode |-> Within(st.mode) ]
<1>0. PICK b \in Chars, q \in Chars : b = Backslash /\ q = Quote
  BY Characters
<1>1. /\ st.cur \in String /\ st.args \in Seq(String)
      /\ st.mode \in {"blank", "bare", "inside"}
      /\ Within(st.mode) \in {"bare", "inside"}
      /\ Within(Within(st.mode)) = Within(st.mode)
  BY DEF ArgvState, Within
<1>2. CASE c = Quote
  <2> DEFINE s == Backslashes(2 * n)
             u == Append(<<b>>, q)
             st1 == [ args |-> st.args, cur |-> st.cur, bs |-> 2 * n,
                      mode |-> IF 2 * n = 0 THEN st.mode ELSE Within(st.mode) ]
             st2 == [ args |-> st.args, cur |-> st.cur, bs |-> 2 * n + 1,
                      mode |-> Within(st.mode) ]
  <2>1. Escape(n, c) = s \o u
    BY <1>0, <1>2 DEF Escape
  <2>2. 2 * n \in Nat /\ (2 * n + 1) % 2 = 1 /\ (2 * n + 1) \div 2 = n
    OBVIOUS
  <2>3. s \in String /\ <<b>> \in String /\ u \in String
    BY <2>2, BackslashesType, AppendProperties DEF String
  <2>4. st1 \in ArgvState /\ st2 \in ArgvState
    BY <1>1, <2>2 DEF ArgvState
  <2>5. Reading(st, s) = st1
    BY <2>2, ReadBackslashes
  <2>6. ArgvChar[st1][b] = st2
    <3>1. Within(st1.mode) = Within(st.mode)
      BY <1>1
    <3> QED
      BY <1>0, <2>4, <3>1, ReadBackslash
  <2>7. ArgvChar[st2][q] = [ args |-> st.args, cur |-> Append(st.cur \o Backslashes(n), c),
                             bs |-> 0, mode |-> Within(st.mode) ]
    <3>1. Meant(st2) /\ Halved(st2) = st.cur \o Backslashes(n)
      BY <2>2 DEF Meant, Halved
    <3>2. Within(st2.mode) = Within(st.mode) /\ st2.mode # "shut"
      BY <1>1
    <3>3. ArgvChar[st2][q] = MeantQuote(st2)
      BY <1>0, <2>4, <3>1, ReadQuote
    <3> QED
      BY <1>2, <3>1, <3>2, <3>3 DEF MeantQuote
  <2> HIDE DEF s, u, st1, st2
  <2>8. Reading(st, s \o u) = Reading(st1, u) /\ s \o u \in String
    BY <2>3, <2>5, Reads, ConcatProperties DEF String
  <2>9. Reading(st1, <<b>>) = st2
    BY <2>4, <2>6, Reads
  <2>10. Reading(st1, u) = ArgvChar[st2][q]
    BY <2>3, <2>4, <2>9, Reads DEF u
  <2> QED
    BY <2>1, <2>7, <2>8, <2>10
<1>3. CASE c # Quote
  <2> DEFINE s == Backslashes(n)
             u == <<c>>
             st1 == [ args |-> st.args, cur |-> st.cur, bs |-> n,
                      mode |-> IF n = 0 THEN st.mode ELSE Within(st.mode) ]
  <2>1. Escape(n, c) = s \o u
    BY <1>3 DEF Escape
  <2>2. s \in String /\ u \in String
    BY BackslashesType DEF String
  <2>3. st1 \in ArgvState
    BY <1>1 DEF ArgvState
  <2>4. Reading(st, s) = st1
    BY ReadBackslashes
  <2>5. ArgvChar[st1][c] = [ args |-> st.args, cur |-> Append(st.cur \o Backslashes(n), c),
                             bs |-> 0, mode |-> Within(st.mode) ]
    <3>1. Argument(st1) = st.cur \o Backslashes(n)
      BY DEF Argument
    <3>2. Within(st1.mode) = Within(st.mode) /\ (st1.mode # "inside" => c \notin Blanks)
      BY <1>1 DEF Within
    <3> QED
      BY <1>3, <2>3, <3>1, <3>2, ReadOther
  <2> HIDE DEF s, st1, u
  <2>6. Reading(st, s \o u) = Reading(st1, u) /\ s \o u \in String
    BY <2>2, <2>4, Reads, ConcatProperties DEF String
  <2>7. Reading(st1, u) = ArgvChar[st1][c]
    BY <2>3, Reads DEF u
  <2> QED
    BY <2>1, <2>5, <2>6, <2>7
<1> QED
  BY <1>2, <1>3

-----------------------------------------------------------------------------
(* What quote_arg writes, read back.                                       *)

Body(arg) == Folded(QuoteChar, [out |-> <<>>, bs |-> 0], arg)

LEMMA EscapeType ==
    ASSUME NEW n \in Nat, NEW c \in Chars
    PROVE  Escape(n, c) \in String
<1>1. PICK b \in Chars, q \in Chars : b = Backslash /\ q = Quote
  BY Characters
<1>2. /\ Backslashes(n) \in String /\ Backslashes(2 * n) \in String
      /\ <<c>> \in String /\ <<b, q>> \in String
  BY BackslashesType DEF String
<1>3. Escape(n, c) \in {Backslashes(2 * n) \o <<b, q>>, Backslashes(n) \o <<c>>}
  BY <1>1 DEF Escape
<1> QED
  BY <1>2, <1>3, ConcatProperties DEF String

LEMMA QuoteStep ==
    ASSUME NEW st \in Quoted, NEW c \in Chars
    PROVE  /\ QuoteChar[st][c] = IF c = Backslash
                                   THEN [out |-> st.out, bs |-> st.bs + 1]
                                   ELSE [out |-> st.out \o Escape(st.bs, c), bs |-> 0]
           /\ QuoteChar[st][c] \in Quoted
<1>1. QuoteChar[st][c] = IF c = Backslash
                           THEN [out |-> st.out, bs |-> st.bs + 1]
                           ELSE [out |-> st.out \o Escape(st.bs, c), bs |-> 0]
  BY DEF QuoteChar
<1>2. st.out \in String /\ st.bs \in Nat /\ Escape(st.bs, c) \in String
  BY EscapeType DEF Quoted
<1>3. st.out \o Escape(st.bs, c) \in String
  BY <1>2, ConcatProperties DEF String
<1> QED
  BY <1>1, <1>2, <1>3 DEF Quoted

LEMMA BodyEmpty == Body(<<>>) = [out |-> <<>>, bs |-> 0]
BY FoldEmpty DEF Body

LEMMA BodyType ==
    ASSUME NEW s \in String
    PROVE  Body(s) \in Quoted
<1> DEFINE start == [out |-> <<>>, bs |-> 0]
<1>1. start \in Quoted
  BY EmptySeq DEF Quoted, String
<1> HIDE DEF start
<1> QED
  BY <1>1, QuoteStep, FoldType DEF Body, String, start

LEMMA BodyGrows ==
    ASSUME NEW s \in String, NEW c \in Chars
    PROVE  Body(Append(s, c)) =
             IF c = Backslash
               THEN [out |-> Body(s).out, bs |-> Body(s).bs + 1]
               ELSE [out |-> Body(s).out \o Escape(Body(s).bs, c), bs |-> 0]
<1>1. Body(Append(s, c)) = QuoteChar[Body(s)][c]
  BY FoldAppend DEF Body, String
<1> QED
  BY <1>1, BodyType, QuoteStep

Unblank(s) == \A i \in 1..Len(s) : s[i] \notin Blanks

LEMMA UnblankAppend ==
    ASSUME NEW s \in String, NEW c \in Chars, Unblank(Append(s, c))
    PROVE  Unblank(s) /\ c \notin Blanks
<1>1. /\ Len(s) \in Nat /\ Len(Append(s, c)) = Len(s) + 1
      /\ \A i \in 1..Len(s) : Append(s, c)[i] = s[i]
      /\ Append(s, c)[Len(s) + 1] = c
  BY AppendProperties, LenProperties DEF String
<1> QED
  BY <1>1 DEF Unblank

\* The loop of quote_arg: what it has written reads as what it has gone
\* through, up to the backslashes that it still holds back.
LEMMA ReadBody ==
    ASSUME NEW st \in ArgvState, st.bs = 0, st.cur = <<>>, st.mode \in {"inside", "blank"}
    PROVE  \A s \in String : st.mode = "inside" \/ Unblank(s) =>
             LET r == Reading(st, Body(s).out)
             IN  /\ r.args = st.args /\ r.bs = 0
                 /\ r.cur \o Backslashes(Body(s).bs) = s
                 /\ (r.mode = st.mode /\ r.cur = <<>>) \/ r.mode = Within(st.mode)
<1> DEFINE Out(s) == Body(s).out
           Bs(s) == Body(s).bs
           R(s) == Reading(st, Out(s))
           Good(s) == /\ R(s).args = st.args /\ R(s).bs = 0
                      /\ R(s).cur \o Backslashes(Bs(s)) = s
                      /\ (R(s).mode = st.mode /\ R(s).cur = <<>>) \/ R(s).mode = Within(st.mode)
           S == {s \in String : st.mode = "inside" \/ Unblank(s) => Good(s)}
<1>1. <<>> \in S
  <2>1. Out(<<>>) = <<>> /\ Bs(<<>>) = 0
    BY BodyEmpty
  <2>2. R(<<>>) = st
    BY <2>1, Reads
  <2>3. <<>> \in String /\ <<>> \o <<>> = <<>>
    BY EmptySeq, ConcatEmptySeq DEF String
  <2> QED
    BY <2>1, <2>2, <2>3, NoBackslashes
<1>2. ASSUME NEW s \in S \cap String, NEW c \in Chars
      PROVE  Append(s, c) \in S
  <2> DEFINE t == Append(s, c)
  <2>1. t \in String
    BY AppendProperties DEF String
  <2> SUFFICES ASSUME st.mode = "inside" \/ Unblank(t) PROVE Good(t)
    BY <2>1
  <2>2. st.mode = "inside" \/ (Unblank(s) /\ c \notin Blanks)
    BY UnblankAppend
  <2>3. Good(s)
    BY <2>2
  <2>4. Out(s) \in String /\ Bs(s) \in Nat
    BY BodyType DEF Quoted
  <2>5. R(s) \in ArgvState /\ R(s).cur \in String
    BY <2>4, Reads DEF ArgvState
  <2>6. CASE c = Backslash
    <3>1. Out(t) = Out(s) /\ Bs(t) = Bs(s) + 1
      <4>1. Body(t) = [out |-> Out(s), bs |-> Bs(s) + 1]
        BY <2>6, BodyGrows
      <4> QED
        BY <4>1
    <3>2. R(s).cur \o Backslashes(Bs(s) + 1) = t
      <4>1. Backslashes(Bs(s) + 1) = Append(Backslashes(Bs(s)), c)
        BY <2>4, <2>6, OneBackslashMore
      <4>2. R(s).cur \o Append(Backslashes(Bs(s)), c) = Append(R(s).cur \o Backslashes(Bs(s)), c)
        <5> DEFINE u == R(s).cur
                   v == Backslashes(Bs(s))
        <5>1. u \in Seq(Chars) /\ v \in Seq(Chars)
          BY <2>4, <2>5, BackslashesType DEF String
        <5> HIDE DEF u, v
        <5>2. u \o Append(v, c) = Append(u \o v, c)
          BY <5>1, AppendToConcat
        <5> QED
          BY <5>2 DEF u, v
      <4> QED
        BY <2>3, <4>1, <4>2
    <3> QED
      BY <2>3, <3>1, <3>2
  <2>7. CASE c # Backslash
    <3> DEFINE e == Escape(Bs(s), c)
    <3>1. Out(t) = Out(s) \o e /\ Bs(t) = 0
      <4>1. Body(t) = [out |-> Out(s) \o e, bs |-> 0]
        BY <2>7, BodyGrows
      <4> HIDE DEF e
      <4>2. Body(t).out = Out(s) \o e
        BY <4>1
      <4>3. Body(t).bs = 0
        BY <4>1
      <4> QED
        BY <4>2, <4>3
    <3>2. /\ R(s).mode # "shut" /\ (R(s).mode # "inside" => c \notin Blanks)
          /\ Within(R(s).mode) = Within(st.mode)
      BY <2>2, <2>3 DEF Within
    <3>3. /\ e \in String
          /\ Reading(R(s), e) = [ args |-> R(s).args, cur |-> Append(R(s).cur \o Backslashes(Bs(s)), c),
                                  bs |-> 0, mode |-> Within(R(s).mode) ]
      BY <2>3, <2>4, <2>5, <2>7, <3>2, ReadEscape
    <3>4. Reading(R(s), e) = [ args |-> st.args, cur |-> t, bs |-> 0, mode |-> Within(st.mode) ]
      BY <2>3, <3>2, <3>3
    <3>5. Reading(st, Out(s) \o e) = Reading(R(s), e)
      BY <2>4, <3>3, Reads
    <3>6. t \o Backslashes(0) = t
      BY <2>1, NoBackslashes, ConcatEmptySeq DEF String
    <3> QED
      BY <3>1, <3>4, <3>5, <3>6
  <2> QED
    BY <2>6, <2>7
<1> HIDE DEF S
<1>3. String \subseteq S
  BY <1>1, <1>2, SeqInduct DEF String
<1> QED
  BY <1>3 DEF S

LEMMA QuoteArgIs ==
    ASSUME NEW a \in String, NEW u, u = <<Quote>>
    PROVE  quote_arg(a) = IF NeedsQuotes(a)
                            THEN ((u \o Body(a).out) \o Backslashes(2 * Body(a).bs)) \o u
                            ELSE Body(a).out \o Backslashes(Body(a).bs)
BY DEF quote_arg, Body

LEMMA QuoteArgType ==
    ASSUME NEW a \in String
    PROVE  quote_arg(a) \in String
<1>1. PICK q \in Chars : q = Quote
  BY Characters
<1> DEFINE u == <<q>>
           out == Body(a).out
           bs == Body(a).bs
<1>2. u \in Seq(Chars) /\ u = <<Quote>>
  BY <1>1
<1>3. out \in Seq(Chars) /\ bs \in Nat /\ 2 * bs \in Nat
  BY BodyType DEF Quoted, String
<1>4. Backslashes(bs) \in Seq(Chars) /\ Backslashes(2 * bs) \in Seq(Chars)
  BY <1>3, BackslashesType DEF String
<1>5. quote_arg(a) \in { ((u \o out) \o Backslashes(2 * bs)) \o u, out \o Backslashes(bs) }
  BY <1>2, QuoteArgIs
<1> HIDE DEF u, out, bs
<1>6. u \o out \in Seq(Chars) /\ out \o Backslashes(bs) \in Seq(Chars)
  BY <1>2, <1>3, <1>4, ConcatProperties
<1>7. (u \o out) \o Backslashes(2 * bs) \in Seq(Chars)
  BY <1>4, <1>6, ConcatProperties
<1>8. ((u \o out) \o Backslashes(2 * bs)) \o u \in Seq(Chars)
  BY <1>2, <1>7, ConcatProperties
<1> QED
  BY <1>5, <1>6, <1>8 DEF String

\* One argument reads as itself, whatever it holds.
LEMMA ReadArgument ==
    ASSUME NEW A \in Seq(String), NEW a \in String
    PROVE  LET r == Reading(Between(A), quote_arg(a))
           IN  /\ r \in ArgvState /\ r.args = A /\ r.mode \in {"bare", "shut"}
               /\ Argument(r) = a
<1> DEFINE st == Between(A)
           out == Body(a).out
           bs == Body(a).bs
<1>1. /\ st \in ArgvState /\ st.args = A /\ st.bs = 0 /\ st.cur = <<>>
      /\ st.mode = "blank"
  BY EmptySeq DEF Between, ArgvState, String
<1>2. out \in String /\ bs \in Nat
  BY BodyType DEF Quoted
<1>3. CASE NeedsQuotes(a)
  <2>1. PICK q \in Chars : q = Quote
    BY Characters
  <2> DEFINE u == <<q>>
             t == Backslashes(2 * bs)
             in == [args |-> A, cur |-> <<>>, bs |-> 0, mode |-> "inside"]
             r1 == Reading(in, out)
             r2 == [args |-> A, cur |-> r1.cur, bs |-> 2 * bs, mode |-> "inside"]
             r3 == [args |-> A, cur |-> a, bs |-> 0, mode |-> "shut"]
  <2>2. u \in String /\ u = <<Quote>> /\ t \in String /\ 2 * bs \in Nat
    BY <1>2, <2>1, BackslashesType DEF String
  <2>3. in \in ArgvState
    BY EmptySeq DEF ArgvState, String
  <2>4. Reading(st, u) = in
    <3>1. ~Meant(st) /\ Halved(st) = <<>>
      BY <1>1, NoBackslashes, ConcatEmptySeq, EmptySeq, 0 \div 2 = 0, 0 % 2 = 0
         DEF Meant, Halved
    <3>2. ArgvChar[st][q] = in
      BY <1>1, <2>1, <3>1, ReadQuote DEF OtherQuote
    <3> HIDE DEF st, in
    <3> QED
      BY <1>1, <3>2, Reads
  <2>5. /\ r1 \in ArgvState /\ r1.args = A /\ r1.bs = 0 /\ r1.mode = "inside"
        /\ r1.cur \o Backslashes(bs) = a /\ r1.cur \in String
    <3>1. r1 \in ArgvState
      BY <1>2, <2>3, Reads
    <3>2. in.mode = "inside" /\ in.bs = 0 /\ in.cur = <<>> /\ in.args = A
      OBVIOUS
    <3>3. Within(in.mode) = "inside"
      BY DEF Within
    <3> HIDE DEF in
    <3> QED
      BY <2>3, <3>1, <3>2, <3>3, ReadBody DEF ArgvState
  <2>6. Reading(r1, t) = r2
    BY <2>2, <2>5, ReadBackslashes DEF Within
  <2>7. r2 \in ArgvState
    BY <2>2, <2>5 DEF ArgvState
  <2>8. Reading(r2, u) = r3
    <3>1. (2 * bs) % 2 = 0 /\ (2 * bs) \div 2 = bs
      BY <1>2
    <3>2. ~Meant(r2) /\ Halved(r2) = a
      <4>1. r2.bs = 2 * bs /\ r2.mode = "inside" /\ r2.cur = r1.cur
        OBVIOUS
      <4>2. r2.bs % 2 = 0 /\ r2.bs \div 2 = bs
        BY <3>1, <4>1
      <4> HIDE DEF r2, r1, bs
      <4>3. ~Meant(r2)
        BY <4>1, <4>2 DEF Meant
      <4>4. Halved(r2) = r1.cur \o Backslashes(bs)
        BY <4>1, <4>2 DEF Halved
      <4> QED
        BY <2>5, <4>3, <4>4
    <3>3. ArgvChar[r2][q] = r3
      BY <2>1, <2>7, <3>2, ReadQuote DEF OtherQuote
    <3> HIDE DEF r2, r3
    <3> QED
      BY <2>7, <3>3, Reads
  <2>9. r3 \in ArgvState
    BY DEF ArgvState
  <2>10. Argument(r3) = a
    BY NoBackslashes, ConcatEmptySeq DEF Argument, String
  <2>11. quote_arg(a) = ((u \o out) \o t) \o u
    BY <1>3, <2>2, QuoteArgIs
  <2>12. r3.args = A /\ r3.mode = "shut"
    OBVIOUS
  <2> HIDE DEF st, in, r2, r3, t, u, out
  <2>13. u \o out \in String /\ (u \o out) \o t \in String
    BY <1>2, <2>2, ConcatProperties DEF String
  <2>14. Reading(st, u \o out) = r1
    BY <1>1, <1>2, <2>2, <2>4, Reads
  <2>15. Reading(st, (u \o out) \o t) = r2
    BY <1>1, <2>2, <2>6, <2>13, <2>14, Reads
  <2>16. Reading(st, ((u \o out) \o t) \o u) = r3
    BY <1>1, <2>2, <2>8, <2>13, <2>15, Reads
  <2> QED
    BY <2>9, <2>10, <2>11, <2>12, <2>16 DEF st
<1>4. CASE ~NeedsQuotes(a)
  <2> DEFINE t == Backslashes(bs)
             r1 == Reading(st, out)
             r2 == [ args |-> A, cur |-> r1.cur, bs |-> bs,
                     mode |-> IF bs = 0 THEN r1.mode ELSE Within(r1.mode) ]
  <2>1. a # <<>> /\ Unblank(a)
    BY <1>4 DEF NeedsQuotes, Contains, Unblank
  <2>2. t \in String
    BY <1>2, BackslashesType
  <2>3. /\ r1 \in ArgvState /\ r1.args = A /\ r1.bs = 0 /\ r1.cur \o t = a
        /\ (r1.mode = "blank" /\ r1.cur = <<>>) \/ r1.mode = "bare"
    <3>1. r1 \in ArgvState
      BY <1>1, <1>2, Reads
    <3>2. Within(st.mode) = "bare"
      BY <1>1 DEF Within
    <3> HIDE DEF st
    <3> QED
      BY <1>1, <2>1, <3>1, <3>2, ReadBody
  <2>4. Reading(r1, t) = r2
    <3> HIDE DEF r1, bs
    <3>1. Reading(r1, t) = [ args |-> r1.args, cur |-> r1.cur, bs |-> r1.bs + bs,
                             mode |-> IF bs = 0 THEN r1.mode ELSE Within(r1.mode) ]
      BY <1>2, <2>3, ReadBackslashes
    <3> QED
      BY <1>2, <2>3, <3>1
  <2>5. r2.mode = "bare"
    <3>1. CASE bs = 0
      <4>1. r1.cur = a
        BY <2>3, <3>1, NoBackslashes, ConcatEmptySeq DEF ArgvState, String
      <4> QED
        BY <2>1, <2>3, <3>1, <4>1
    <3>2. CASE bs # 0
      BY <2>3, <3>2 DEF Within
    <3> QED
      BY <3>1, <3>2
  <2>6. r2 \in ArgvState /\ Argument(r2) = a /\ r2.args = A
    BY <1>2, <2>3, <2>5 DEF ArgvState, Argument
  <2>7. quote_arg(a) = out \o t
    BY <1>4, QuoteArgIs
  <2> HIDE DEF st, r2, t, out
  <2>8. Reading(st, out \o t) = r2
    BY <1>1, <1>2, <2>2, <2>4, Reads
  <2> QED
    BY <2>5, <2>6, <2>7, <2>8 DEF st
<1> QED
  BY <1>3, <1>4

-----------------------------------------------------------------------------
(* The whole line: the program's name, and the arguments behind it.        *)

Rest(args) == Folded(AddArg, <<>>, args)

LEMMA TextConcat ==
    /\ <<>> \in String
    /\ \A s \in String : s \o <<>> = s /\ <<>> \o s = s
    /\ \A s, t \in String : s \o t \in String
    /\ \A s, t, u \in String : (s \o t) \o u = s \o (t \o u)
<1>1. <<>> \in String /\ \A s \in String : s \o <<>> = s /\ <<>> \o s = s
  BY EmptySeq, ConcatEmptySeq DEF String
<1>2. \A s, t \in String : s \o t \in String
  BY ConcatProperties DEF String
<1>3. ASSUME NEW s \in String, NEW t \in String, NEW u \in String
      PROVE  (s \o t) \o u = s \o (t \o u)
  BY ConcatAssociative DEF String
<1> QED
  BY <1>1, <1>2, <1>3

LEMMA TextPlaces ==
    ASSUME NEW s \in String, NEW t \in String
    PROVE  /\ Len(s) \in Nat /\ Len(t) \in Nat /\ Len(s \o t) = Len(s) + Len(t)
           /\ \A i \in 1..Len(s) : (s \o t)[i] = s[i]
           /\ \A i \in 1..Len(t) : (s \o t)[Len(s) + i] = t[i]
<1>1. Len(s) \in Nat /\ Len(t) \in Nat
  BY LenProperties DEF String
<1>2. /\ Len(s \o t) = Len(s) + Len(t)
      /\ \A i \in 1..Len(s) + Len(t) : (s \o t)[i] = IF i <= Len(s) THEN s[i]
                                                                 ELSE t[i - Len(s)]
  BY ConcatProperties DEF String
<1>3. ASSUME NEW i \in 1..Len(s) PROVE (s \o t)[i] = s[i]
  BY <1>1, <1>2
<1>4. ASSUME NEW i \in 1..Len(t) PROVE (s \o t)[Len(s) + i] = t[i]
  <2>1. /\ Len(s) + i \in 1..Len(s) + Len(t) /\ ~(Len(s) + i <= Len(s))
        /\ (Len(s) + i) - Len(s) = i
    BY <1>1
  <2> QED
    BY <1>2, <2>1
<1> QED
  BY <1>1, <1>2, <1>3, <1>4

LEMMA TextNonempty ==
    ASSUME NEW s \in String, NEW t \in String, t # <<>>
    PROVE  s \o t # <<>>
<1>1. s \o t = <<>> <=> s = <<>> /\ t = <<>>
  BY ConcatEqualIffEmpty DEF String
<1> QED
  BY <1>1

LEMMA SpaceText ==
    \E c \in Chars : c = " " /\ <<c>> \in Seq(Chars) /\ <<c>> = <<" ">>
<1>1. PICK c \in Chars : c = " "
  BY Characters
<1>2. <<c>> \in Seq(Chars)
  OBVIOUS
<1>3. <<c>> = <<" ">>
  BY <1>1
<1> QED
  BY <1>1, <1>2, <1>3

LEMMA AddArgIs ==
    ASSUME NEW line \in String, NEW a \in String
    PROVE  /\ AddArg[line][a] = (line \o <<" ">>) \o quote_arg(a)
           /\ AddArg[line][a] \in String
<1>1. PICK c \in Chars : c = " " /\ <<c>> \in Seq(Chars) /\ <<c>> = <<" ">>
  BY SpaceText
<1> DEFINE u == <<c>>
           q == quote_arg(a)
<1>2. AddArg[line][a] = (line \o u) \o q /\ u = <<" ">>
  BY <1>1 DEF AddArg
<1>3. u \in Seq(Chars) /\ q \in Seq(Chars) /\ line \in Seq(Chars)
  BY <1>1, QuoteArgType DEF String
<1> HIDE DEF u, q
<1>4. line \o u \in Seq(Chars)
  BY <1>3, ConcatProperties
<1>5. (line \o u) \o q \in Seq(Chars)
  BY <1>3, <1>4, ConcatProperties
<1> QED
  BY <1>2, <1>5 DEF q, String

LEMMA RestEmpty == Rest(<<>>) = <<>>
BY FoldEmpty DEF Rest

LEMMA RestType ==
    ASSUME NEW args \in Seq(String)
    PROVE  Rest(args) \in String
<1>1. PICK e \in String : e = <<>>
  BY EmptySeq DEF String
<1>2. Folded(AddArg, e, args) \in String
  BY AddArgIs, FoldType
<1> QED
  BY <1>1, <1>2 DEF Rest

LEMMA RestGrows ==
    ASSUME NEW args \in Seq(String), NEW a \in String
    PROVE  Rest(Append(args, a)) = (Rest(args) \o <<" ">>) \o quote_arg(a)
<1>1. Rest(Append(args, a)) = AddArg[Rest(args)][a]
  BY FoldAppend DEF Rest
<1> QED
  BY <1>1, RestType, AddArgIs

LEMMA LineIs ==
    ASSUME NEW q \in String
    PROVE  \A args \in Seq(String) : Folded(AddArg, q, args) = q \o Rest(args)
<1> DEFINE S == {args \in Seq(String) : Folded(AddArg, q, args) = q \o Rest(args)}
<1>1. <<>> \in S
  BY FoldEmpty, RestEmpty, EmptySeq, ConcatEmptySeq DEF String
<1>2. ASSUME NEW args \in S \cap Seq(String), NEW a \in String
      PROVE  Append(args, a) \in S
  <2>1. PICK c \in Chars : c = " " /\ <<c>> \in Seq(Chars) /\ <<c>> = <<" ">>
    BY SpaceText
  <2> DEFINE u == <<c>>
             r == Rest(args)
             x == quote_arg(a)
             l == Folded(AddArg, q, args)
  <2>2. l = q \o r
    BY <1>2
  <2>3. q \in String /\ r \in String /\ x \in String /\ u \in String
    BY <2>1, RestType, QuoteArgType DEF String
  <2>4. Folded(AddArg, q, Append(args, a)) = AddArg[l][a]
    BY FoldAppend
  <2>5. Rest(Append(args, a)) = (r \o u) \o x
    BY <2>1, RestGrows
  <2>6. Append(args, a) \in Seq(String)
    BY AppendProperties
  <2> HIDE DEF u, r, l
  <2>7. l \in String /\ r \o u \in String
    BY <2>2, <2>3, TextConcat
  <2>8. AddArg[l][a] = (l \o u) \o x
    BY <2>1, <2>7, AddArgIs DEF u
  <2> HIDE DEF x
  <2>12. (q \o r) \o u = q \o (r \o u)
    BY <2>3, TextConcat
  <2> DEFINE w == r \o u
  <2>9. (q \o r) \o u = q \o w /\ w \in String
    BY <2>7, <2>12
  <2>11. Rest(Append(args, a)) = w \o x
    BY <2>5
  <2> HIDE DEF w
  <2>10. (q \o w) \o x = q \o (w \o x)
    BY <2>3, <2>9, TextConcat
  <2> QED
    BY <2>2, <2>4, <2>11, <2>6, <2>8, <2>9, <2>10
<1> HIDE DEF S
<1>3. Seq(String) \subseteq S
  BY <1>1, <1>2, SeqInduct
<1> QED
  BY <1>3 DEF S

\* The arguments read as themselves, all of them, in their order.
LEMMA ReadRest ==
    \A args \in Seq(String) :
        LET r == Reading(Between(<<>>), Rest(args))
        IN  r \in ArgvState /\ r.mode # "inside" /\ Arguments(r) = args
<1> DEFINE st == Between(<<>>)
           S == {args \in Seq(String) : /\ Reading(st, Rest(args)) \in ArgvState
                                        /\ Reading(st, Rest(args)).mode # "inside"
                                        /\ Arguments(Reading(st, Rest(args))) = args}
<1>1. /\ st \in ArgvState /\ st.mode # "inside" /\ Arguments(st) = <<>>
  BY EmptySeq DEF Between, ArgvState, Arguments, String
<1>2. <<>> \in S
  BY <1>1, RestEmpty, Reads, EmptySeq
<1>3. ASSUME NEW args \in S \cap Seq(String), NEW a \in String
      PROVE  Append(args, a) \in S
  <2>1. PICK c \in Chars : c = " " /\ <<c>> \in Seq(Chars) /\ <<c>> = <<" ">>
    BY SpaceText
  <2> DEFINE u == <<c>>
             r == Rest(args)
             x == quote_arg(a)
             st1 == Reading(st, r)
             st2 == Between(args)
             st3 == Reading(st2, x)
  <2>2. r \in String /\ x \in String /\ u \in String
    BY <2>1, RestType, QuoteArgType DEF String
  <2>3. st1 \in ArgvState /\ st1.mode # "inside" /\ Arguments(st1) = args
    BY <1>3
  <2>4. ArgvChar[st1][c] = st2
    BY <2>1, <2>3, ReadBlank
  <2>5. /\ st3 \in ArgvState /\ st3.args = args /\ st3.mode \in {"bare", "shut"}
        /\ Argument(st3) = a
    BY ReadArgument
  <2>6. Arguments(st3) = Append(args, a)
    BY <2>5 DEF Arguments
  <2>7. Rest(Append(args, a)) = (r \o u) \o x
    BY <2>1, RestGrows
  <2>8. Append(args, a) \in Seq(String)
    BY AppendProperties
  <2>9. Reading(st1, u) = st2
    BY <2>3, <2>4, Reads
  <2> HIDE DEF st, r, x, u, st2
  <2>10. Reading(st, r \o u) = st2 /\ r \o u \in String
    BY <1>1, <2>2, <2>9, Reads, ConcatProperties DEF String
  <2>11. Reading(st, (r \o u) \o x) = st3
    BY <1>1, <2>2, <2>10, Reads
  <2> QED
    BY <2>5, <2>6, <2>7, <2>8, <2>11
<1> HIDE DEF S
<1>4. Seq(String) \subseteq S
  BY <1>2, <1>3, SeqInduct
<1> QED
  BY <1>4 DEF S

LEMMA ConcatFirst ==
    ASSUME NEW C, NEW s \in Seq(C), NEW t \in Seq(C), s # <<>>
    PROVE  (s \o t)[1] = s[1]
<1>1. Len(s) \in Nat \ {0} /\ Len(t) \in Nat
  BY EmptySeq, LenProperties
<1>2. 1 \in 1..Len(s) + Len(t) /\ 1 <= Len(s)
  BY <1>1
<1> QED
  BY <1>2, ConcatProperties

LEMMA RestStarts ==
    \A args \in Seq(String) : Rest(args) = <<>> \/ Rest(args)[1] = " "
<1> DEFINE S == {args \in Seq(String) : Rest(args) = <<>> \/ Rest(args)[1] = " "}
<1>1. <<>> \in S
  BY RestEmpty, EmptySeq
<1>2. ASSUME NEW args \in S \cap Seq(String), NEW a \in String
      PROVE  Append(args, a) \in S
  <2>1. PICK c \in Chars : c = " " /\ <<c>> \in Seq(Chars) /\ <<c>> = <<" ">>
    BY SpaceText
  <2> DEFINE u == <<c>>
             r == Rest(args)
             x == quote_arg(a)
  <2>2. r \in String /\ x \in String /\ u \in String
    BY <2>1, RestType, QuoteArgType DEF String
  <2>3. Rest(Append(args, a)) = (r \o u) \o x
    BY <2>1, RestGrows
  <2>4. Append(args, a) \in Seq(String)
    BY AppendProperties
  <2>5. r = <<>> \/ r[1] = " "
    BY <1>2
  <2>6. u # <<>> /\ u[1] = c
    OBVIOUS
  <2> HIDE DEF u, r, x
  <2> DEFINE v == r \o u
  <2>7. v \in String /\ v # <<>> /\ v[1] = c
    <3>1. v \in String /\ v # <<>>
      BY <2>2, <2>6, TextConcat, TextNonempty
    <3>2. CASE r = <<>>
      BY <2>2, <2>6, <3>1, <3>2, TextConcat
    <3>3. CASE r # <<>>
      <4>1. v[1] = r[1]
        BY <2>2, <3>3, ConcatFirst DEF String
      <4> QED
        BY <2>1, <2>5, <3>1, <3>3, <4>1
    <3> QED
      BY <3>2, <3>3
  <2> HIDE DEF v
  <2>8. (v \o x)[1] = v[1]
    BY <2>2, <2>7, ConcatFirst DEF String
  <2> QED
    BY <2>1, <2>3, <2>4, <2>7, <2>8 DEF v
<1> HIDE DEF S
<1>3. Seq(String) \subseteq S
  BY <1>1, <1>2, SeqInduct
<1> QED
  BY <1>3 DEF S

\* Two texts side by side are told apart by their lengths.
LEMMA SplitText ==
    ASSUME NEW C, NEW s \in Seq(C), NEW t \in Seq(C)
    PROVE  /\ SubSeq(s \o t, 1, Len(s)) = s
           /\ SubSeq(s \o t, Len(s) + 1, Len(s \o t)) = t
<1> DEFINE w == s \o t
           a == SubSeq(w, 1, Len(s))
           b == SubSeq(w, Len(s) + 1, Len(w))
<1>1. Len(s) \in Nat /\ Len(t) \in Nat
  BY LenProperties
<1>2. /\ w \in Seq(C) /\ Len(w) = Len(s) + Len(t)
      /\ \A i \in 1..Len(s) + Len(t) : w[i] = IF i <= Len(s) THEN s[i] ELSE t[i - Len(s)]
  BY ConcatProperties
<1>3. \A i \in 1..Len(w) : w[i] \in C
  BY <1>2, ElementOfSeq
<1> HIDE DEF w
<1>4. /\ a \in Seq(C) /\ Len(a) = Len(s)
      /\ \A i \in 1..Len(s) : a[i] = w[i]
  <2>1. \A i \in 1..Len(s) : w[i] \in C
    BY <1>1, <1>2, <1>3
  <2>2. /\ a \in Seq(C) /\ Len(a) = IF 1 <= Len(s) THEN Len(s) - 1 + 1 ELSE 0
        /\ \A i \in 1..Len(s) - 1 + 1 : a[i] = w[1 + i - 1]
    BY <1>1, <2>1, SubSeqProperties
  <2> QED
    BY <1>1, <2>2
<1>5. /\ b \in Seq(C) /\ Len(b) = Len(t)
      /\ \A i \in 1..Len(t) : b[i] = w[Len(s) + i]
  <2>1. \A i \in Len(s) + 1..Len(w) : w[i] \in C
    BY <1>1, <1>2, <1>3
  <2>2. /\ b \in Seq(C)
        /\ Len(b) = IF Len(s) + 1 <= Len(w) THEN Len(w) - (Len(s) + 1) + 1 ELSE 0
        /\ \A i \in 1..Len(w) - (Len(s) + 1) + 1 : b[i] = w[Len(s) + 1 + i - 1]
    BY <1>1, <1>2, <2>1, SubSeqProperties
  <2> QED
    BY <1>1, <1>2, <2>2
<1> HIDE DEF a, b
<1>6. \A i \in 1..Len(s) : a[i] = s[i]
  BY <1>1, <1>2, <1>4
<1>7. ASSUME NEW i \in 1..Len(t) PROVE b[i] = t[i]
  <2>1. /\ Len(s) + i \in 1..Len(s) + Len(t) /\ ~(Len(s) + i <= Len(s))
        /\ (Len(s) + i) - Len(s) = i
    BY <1>1
  <2>2. w[Len(s) + i] = t[(Len(s) + i) - Len(s)]
    BY <1>2, <2>1
  <2> QED
    BY <1>5, <2>1, <2>2
<1>8. a = s
  BY <1>4, <1>6, SeqEqual
<1>9. b = t
  BY <1>5, <1>7, SeqEqual
<1> QED
  BY <1>8, <1>9 DEF a, b, w

LEMMA FirstInIs ==
    ASSUME NEW line \in String, NEW from \in Nat, NEW set,
           NEW n \in from..Len(line) + 1,
           \A i \in from..n - 1 : line[i] \notin set,
           n <= Len(line) => line[n] \in set
    PROVE  FirstIn(line, from, set) = n
<1> DEFINE ends == {i \in from..Len(line) : line[i] \in set}
<1>0. Len(line) \in Nat
  BY LenProperties DEF String
<1>1. CASE n <= Len(line)
  <2>1. n \in ends /\ \A j \in ends : n <= j
    BY <1>0, <1>1
  <2>2. \A i \in ends : (\A j \in ends : i <= j) => i = n
    BY <1>0, <2>1
  <2>3. (CHOOSE i \in ends : \A j \in ends : i <= j) = n
    BY <2>1, <2>2
  <2> QED
    BY <2>1, <2>3 DEF FirstIn
<1>2. CASE n > Len(line)
  <2>1. n = Len(line) + 1 /\ ends = {}
    BY <1>0, <1>2
  <2> QED
    BY <2>1 DEF FirstIn
<1> QED
  BY <1>0, <1>1, <1>2

\* Without a quote in it, a text is left as it is.
LEMMA BodyWithoutQuote ==
    \A s \in String : (\A i \in 1..Len(s) : s[i] # Quote) =>
        Body(s).out \o Backslashes(Body(s).bs) = s
<1> DEFINE Out(s) == Body(s).out
           Bs(s) == Body(s).bs
           Bare(s) == \A i \in 1..Len(s) : s[i] # Quote
           S == {s \in String : Bare(s) => Out(s) \o Backslashes(Bs(s)) = s}
<1>1. <<>> \in S
  <2>1. Out(<<>>) = <<>> /\ Backslashes(Bs(<<>>)) = <<>>
    BY BodyEmpty, NoBackslashes
  <2>2. <<>> \in String /\ <<>> \o <<>> = <<>>
    BY TextConcat
  <2> HIDE DEF Out, Bs
  <2> QED
    BY <2>1, <2>2
<1>2. ASSUME NEW s \in S \cap Seq(Chars), NEW c \in Chars
      PROVE  Append(s, c) \in S
  <2> DEFINE t == Append(s, c)
             u == <<c>>
             out == Out(s)
             b == Backslashes(Bs(s))
  <2>0. t \in String /\ s \in String
    BY AppendProperties DEF String
  <2> SUFFICES ASSUME Bare(t) PROVE Out(t) \o Backslashes(Bs(t)) = t
    BY <2>0
  <2>1. Bare(s) /\ c # Quote
    <3>1. /\ Len(s) \in Nat /\ Len(t) = Len(s) + 1
          /\ \A i \in 1..Len(s) : t[i] = s[i]
          /\ t[Len(s) + 1] = c
      BY AppendProperties, LenProperties
    <3> HIDE DEF t
    <3> QED
      BY <3>1
  <2>2. out \o b = s
    BY <2>1
  <2>3. out \in String /\ Bs(s) \in Nat /\ b \in String
    BY <2>0, BodyType, BackslashesType DEF Quoted
  <2>4. CASE c = Backslash
    <3>1. Body(t) = [out |-> out, bs |-> Bs(s) + 1]
      BY <2>0, <2>4, BodyGrows
    <3>2. Out(t) = out /\ Bs(t) = Bs(s) + 1
      BY <3>1
    <3>3. Backslashes(Bs(s) + 1) = Append(b, c)
      BY <2>3, <2>4, OneBackslashMore
    <3> HIDE DEF out, b
    <3>4. out \o Append(b, c) = Append(out \o b, c)
      BY <2>3, AppendToConcat DEF String
    <3> QED
      BY <2>2, <3>2, <3>3, <3>4
  <2>5. CASE c # Backslash
    <3>1. Body(t) = [out |-> out \o Escape(Bs(s), c), bs |-> 0]
      BY <2>0, <2>5, BodyGrows
    <3>2. Out(t) = out \o Escape(Bs(s), c) /\ Bs(t) = 0
      <4> HIDE DEF out
      <4>1. Body(t).out = out \o Escape(Bs(s), c)
        BY <3>1
      <4>2. Body(t).bs = 0
        BY <3>1
      <4> QED
        BY <4>1, <4>2
    <3>3. Escape(Bs(s), c) = b \o u
      BY <2>1 DEF Escape
    <3>4. t = s \o u /\ u \in String
      BY AppendIsConcat DEF String
    <3> HIDE DEF out, b, u, t
    <3>5. out \o (b \o u) = t
      BY <2>2, <2>3, <3>4, TextConcat
    <3>6. Out(t) \o Backslashes(0) = Out(t) \o <<>>
      BY NoBackslashes
    <3> QED
      BY <2>0, <3>2, <3>3, <3>5, <3>6, TextConcat
  <2> QED
    BY <2>4, <2>5
<1> HIDE DEF S
<1>3. String \subseteq S
  BY <1>1, <1>2, SeqInduct DEF String
<1> QED
  BY <1>3 DEF S

LEMMA NothingHeldBack ==
    ASSUME NEW s \in String, s # <<>>, s[Len(s)] # Backslash
    PROVE  Body(s).bs = 0
<1>1. PICK t \in String, c \in Chars : s = Append(t, c)
  BY SequenceEmptyOrAppend DEF String
<1>2. c # Backslash
  <2>1. Len(s) = Len(t) + 1 /\ s[Len(t) + 1] = c
    BY <1>1, AppendProperties DEF String
  <2> QED
    BY <2>1
<1>3. Body(s) = [out |-> Body(t).out \o Escape(Body(t).bs, c), bs |-> 0]
  BY <1>1, <1>2, BodyGrows
<1> QED
  BY <1>3

\* The line of a program that is a file, and of any arguments, reads as they
\* are.
THEOREM ArgvIsAsWritten ==
    ASSUME NEW exe \in String, NEW args \in Seq(String),
           exe # <<>>, exe[Len(exe)] # Backslash,
           \A i \in 1..Len(exe) : exe[i] # Quote
    PROVE  CommandLineToArgv(build_cmdline(exe, args)) = <<exe>> \o args
<1> DEFINE q == quote_arg(exe)
           R == Rest(args)
           line == q \o R
<1>1. q \in String /\ R \in String
  BY QuoteArgType, RestType
<1>2. build_cmdline(exe, args) = line
  BY <1>1, LineIs DEF build_cmdline
<1>3. Body(exe).out = exe /\ Body(exe).bs = 0
  <2>1. Body(exe).bs = 0 /\ Body(exe).out \in String
    BY NothingHeldBack, BodyType DEF Quoted
  <2>2. Body(exe).out \o Backslashes(0) = exe
    BY <2>1, BodyWithoutQuote
  <2> QED
    BY <2>1, <2>2, NoBackslashes, TextConcat
<1>4. line \in String
  BY <1>1, TextConcat
<1>5. Len(exe) \in Nat \ {0} /\ Len(R) \in Nat
  BY <1>1, EmptySeq, LenProperties DEF String
<1>6. ProgramName(line) = exe /\ AfterName(line) = R
  <2>1. CASE NeedsQuotes(exe)
    <3>1. PICK c \in Chars : c = Quote
      BY Characters
    <3> DEFINE u == <<c>>
               n == Len(exe) + 2
    <3>2. u \in String /\ Len(u) = 1 /\ u[1] = c
      BY DEF String
    <3>3. q = (u \o exe) \o u
      <4>1. u = <<Quote>>
        BY <3>1
      <4>2. q = ((u \o exe) \o Backslashes(2 * 0)) \o u
        BY <1>3, <2>1, <4>1, QuoteArgIs
      <4>3. Backslashes(2 * 0) = <<>>
        BY NoBackslashes, 2 * 0 = 0
      <4> HIDE DEF u, q
      <4>4. u \o exe \in String
        BY <3>2, TextConcat
      <4> QED
        BY <4>2, <4>3, <4>4, TextConcat
    <3> HIDE DEF u, q, R
    <3>4. /\ Len(q) = n /\ q[1] = Quote /\ q[n] = Quote
          /\ \A i \in 2..n - 1 : q[i] = exe[i - 1]
      <4> DEFINE v == u \o exe
      <4>1. /\ v \in String /\ Len(v) = 1 + Len(exe) /\ v[1] = c
            /\ \A i \in 1..Len(exe) : v[1 + i] = exe[i]
        <5>1. v \in String
          BY <3>2, TextConcat
        <5>2. /\ Len(v) = Len(u) + Len(exe)
              /\ \A i \in 1..Len(u) : v[i] = u[i]
              /\ \A i \in 1..Len(exe) : v[Len(u) + i] = exe[i]
          BY <3>2, TextPlaces
        <5> HIDE DEF v
        <5> QED
          BY <3>2, <5>1, <5>2
      <4>2. q = v \o u
        BY <3>3
      <4> HIDE DEF v
      <4>3. /\ Len(q) = Len(v) + 1 /\ q[Len(v) + 1] = c
            /\ \A i \in 1..Len(v) : q[i] = v[i]
        <5>1. /\ Len(q) = Len(v) + Len(u)
              /\ \A i \in 1..Len(v) : q[i] = v[i]
              /\ \A i \in 1..Len(u) : q[Len(v) + i] = u[i]
          BY <3>2, <4>1, <4>2, TextPlaces
        <5> QED
          BY <3>2, <5>1
      <4>4. Len(q) = n /\ q[1] = Quote /\ q[n] = Quote
        BY <1>5, <3>1, <4>1, <4>3
      <4>5. ASSUME NEW i \in 2..n - 1 PROVE q[i] = exe[i - 1]
        <5>1. i \in 1..Len(v) /\ i - 1 \in 1..Len(exe) /\ 1 + (i - 1) = i
          BY <1>5, <4>1
        <5> QED
          BY <4>1, <4>3, <5>1
      <4> QED
        BY <4>4, <4>5
    <3>5. Len(line) = n + Len(R) /\ \A i \in 1..n : line[i] = q[i]
      <4>1. Len(line) = Len(q) + Len(R) /\ \A i \in 1..Len(q) : line[i] = q[i]
        BY <1>1, TextPlaces
      <4> HIDE DEF line
      <4> QED
        BY <3>4, <4>1
    <3>6. FirstIn(line, 2, {Quote}) = n
      <4>1. n \in 2..Len(line) + 1 /\ line[n] \in {Quote}
        BY <1>5, <3>4, <3>5
      <4>2. \A i \in 2..n - 1 : line[i] \notin {Quote}
        BY <1>5, <3>4, <3>5
      <4> HIDE DEF line, n
      <4> QED
        BY <1>4, <4>1, <4>2, FirstInIs
    <3>7. line[1] = Quote
      BY <1>5, <3>4, <3>5
    <3>8. NameEnd(line) = n
      BY <3>6, <3>7 DEF NameEnd
    <3>9. AfterName(line) = R
      BY <1>1, <3>4, <3>8, SplitText DEF AfterName, String
    <3>10. ProgramName(line) = exe
      <4>1. ProgramName(line) = SubSeq(line, 2, Len(exe) + 1)
        <5>1. n - 1 = Len(exe) + 1
          BY <1>5
        <5> HIDE DEF line, n
        <5> QED
          BY <3>7, <3>8, <5>1 DEF ProgramName
      <4> DEFINE p == SubSeq(line, 2, Len(exe) + 1)
      <4>2. \A i \in 2..Len(exe) + 1 : line[i] = exe[i - 1] /\ line[i] \in Chars
        <5>1. \A i \in 2..Len(exe) + 1 : line[i] = exe[i - 1]
          BY <1>5, <3>4, <3>5
        <5>2. \A i \in 1..Len(exe) : exe[i] \in Chars
          BY ElementOfSeq DEF String
        <5> HIDE DEF line
        <5> QED
          BY <1>5, <5>1, <5>2
      <4> HIDE DEF line
      <4>3. /\ p \in Seq(Chars)
            /\ Len(p) = IF 2 <= Len(exe) + 1 THEN Len(exe) + 1 - 2 + 1 ELSE 0
            /\ \A i \in 1..Len(exe) + 1 - 2 + 1 : p[i] = line[2 + i - 1]
        BY <1>5, <4>2, SubSeqProperties
      <4> HIDE DEF p
      <4>4. Len(p) = Len(exe) /\ \A i \in 1..Len(exe) : p[i] = exe[i]
        BY <1>5, <4>2, <4>3
      <4>5. p = exe
        BY <4>3, <4>4, SeqEqual DEF String
      <4> QED
        BY <4>1, <4>5 DEF p
    <3> QED
      BY <3>9, <3>10
  <2>2. CASE ~NeedsQuotes(exe)
    <3>1. q = exe
      BY <1>3, <2>2, QuoteArgIs, NoBackslashes, TextConcat
    <3>2. \A i \in 1..Len(exe) : exe[i] \notin Blanks
      BY <2>2 DEF NeedsQuotes, Contains
    <3> HIDE DEF q, R
    <3>3. /\ Len(line) = Len(exe) + Len(R)
          /\ \A i \in 1..Len(exe) + Len(R) : line[i] = IF i <= Len(exe) THEN exe[i]
                                                                       ELSE R[i - Len(exe)]
      BY <1>1, <1>5, <3>1, ConcatProperties DEF String
    <3>4. R = <<>> \/ R[1] = " "
      BY RestStarts DEF R
    <3>5. R = <<>> => Len(R) = 0
      BY EmptySeq
    <3>6. FirstIn(line, 1, Blanks) = Len(exe) + 1
      <4>1. Len(exe) + 1 \in 1..Len(line) + 1
        BY <1>5, <3>3
      <4>2. \A i \in 1..(Len(exe) + 1) - 1 : line[i] \notin Blanks
        BY <1>5, <3>2, <3>3
      <4>3. Len(exe) + 1 <= Len(line) => line[Len(exe) + 1] \in Blanks
        <5> SUFFICES ASSUME Len(exe) + 1 <= Len(line) PROVE line[Len(exe) + 1] \in Blanks
          OBVIOUS
        <5>1. line[Len(exe) + 1] = R[1] /\ R # <<>>
          BY <1>5, <3>3, <3>5
        <5> QED
          BY <3>4, <5>1, Characters
      <4> HIDE DEF line
      <4> QED
        BY <1>4, <4>1, <4>2, <4>3, FirstInIs
    <3>7. line[1] # Quote
      BY <1>5, <3>3
    <3>8. NameEnd(line) = Len(exe)
      <4>1. (Len(exe) + 1) - 1 = Len(exe)
        BY <1>5
      <4> HIDE DEF line
      <4> QED
        BY <3>6, <3>7, <4>1 DEF NameEnd
    <3>9. AfterName(line) = R /\ SubSeq(line, 1, Len(exe)) = exe
      BY <1>1, <3>1, <3>8, SplitText DEF AfterName, String
    <3> QED
      BY <3>7, <3>8, <3>9 DEF ProgramName
  <2> QED
    BY <2>1, <2>2
<1>7. Arguments(Reading(Between(<<>>), R)) = args
  BY ReadRest
<1> HIDE DEF line, R
<1>8. CommandLineToArgv(line) = <<exe>> \o args
  BY <1>6, <1>7 DEF CommandLineToArgv, Reading
<1> QED
  BY <1>2, <1>8

-----------------------------------------------------------------------------
(* The strings of JSON.                                                    *)

\* What the writers leave within a line.
Lineless == Chars \ {"LF"}

\* How a character is escaped.
LEMMA EscapedIs ==
    ASSUME NEW c \in Chars
    PROVE  \/ /\ c \in Escapes(Short)
              /\ \E l \in DOMAIN Short : Short[l] = c /\ Escaped(c) = <<"\\", l>>
           \/ /\ c \in Escapes(Digits)
              /\ \E d \in DOMAIN Digits : Digits[d] = c /\ Escaped(c) = <<"\\", "u", d>>
           \/ /\ c \notin Escapes(Short) \cup Escapes(Digits)
              /\ Escaped(c) = <<c>>
<1>1. CASE c \in Escapes(Short)
  <2>1. PICK l \in DOMAIN Short : Short[l] = c
    BY <1>1 DEF Escapes
  <2>2. Letter(Short, c) \in DOMAIN Short /\ Short[Letter(Short, c)] = c
    BY <2>1 DEF Letter
  <2>3. Escaped(c) = <<"\\", Letter(Short, c)>>
    BY <1>1 DEF Escaped
  <2> QED
    BY <1>1, <2>2, <2>3
<1>2. CASE c \notin Escapes(Short) /\ c \in Escapes(Digits)
  <2>1. PICK d \in DOMAIN Digits : Digits[d] = c
    BY <1>2 DEF Escapes
  <2>2. Letter(Digits, c) \in DOMAIN Digits /\ Digits[Letter(Digits, c)] = c
    BY <2>1 DEF Letter
  <2>3. Escaped(c) = <<"\\", "u", Letter(Digits, c)>>
    BY <1>2 DEF Escaped
  <2> QED
    BY <1>2, <2>2, <2>3
<1>3. CASE c \notin Escapes(Short) \cup Escapes(Digits)
  BY <1>3 DEF Escaped
<1> QED
  BY <1>1, <1>2, <1>3

\* The letters of the escapes are characters, and no line feed is one.
LEMMA JsonCharacters ==
    /\ "\\" \in Lineless /\ "\"" \in Lineless /\ "u" \in Lineless
    /\ DOMAIN Short \subseteq Lineless /\ DOMAIN Digits \subseteq Lineless
    /\ "u" \notin DOMAIN Short /\ "LF" \in Escapes(Short)
    /\ "\\" \in Escapes(Short) /\ "\"" \in Escapes(Short)
<1>1. /\ "\\" \in Lineless /\ "\"" \in Lineless /\ "u" \in Lineless
      /\ DOMAIN Short \subseteq Lineless /\ DOMAIN Digits \subseteq Lineless
      /\ "u" \notin DOMAIN Short
  BY PunctuationAssumption, EscapesAssumption DEF Backslash, Quote, Lineless, Short, Digits
<1>2. Short["n"] = "LF" /\ Short["\\"] = "\\" /\ Short["\""] = "\""
  BY DEF Short
<1>3. {"n", "\\", "\""} \subseteq DOMAIN Short
  BY DEF Short
<1> QED
  BY <1>1, <1>2, <1>3 DEF Escapes

LEMMA EscapedType ==
    ASSUME NEW c \in Chars
    PROVE  Escaped(c) \in Seq(Lineless)
<1>0. PICK b \in Lineless, u \in Lineless : b = "\\" /\ u = "u"
  BY JsonCharacters
<1>1. CASE \E l \in DOMAIN Short : Escaped(c) = <<"\\", l>>
  <2>1. PICK l \in Lineless : Escaped(c) = <<b, l>>
    BY <1>0, <1>1, JsonCharacters
  <2> QED
    BY <2>1
<1>2. CASE \E d \in DOMAIN Digits : Escaped(c) = <<"\\", "u", d>>
  <2>1. PICK d \in Lineless : Escaped(c) = <<b, u, d>>
    BY <1>0, <1>2, JsonCharacters
  <2> QED
    BY <2>1
<1>3. CASE c \notin Escapes(Short) /\ Escaped(c) = <<c>>
  <2>1. c \in Lineless
    BY <1>3, JsonCharacters DEF Lineless
  <2> QED
    BY <1>3, <2>1
<1> QED
  BY <1>1, <1>2, <1>3, EscapedIs

Inner(s) == Folded(WriteChar, <<>>, s)

LEMMA WriteStep ==
    ASSUME NEW out \in Seq(Lineless), NEW c \in Chars
    PROVE  WriteChar[out][c] = out \o Escaped(c) /\ WriteChar[out][c] \in Seq(Lineless)
<1>1. out \in String
  BY SeqMonotonic DEF String, Lineless
<1>2. WriteChar[out][c] = out \o Escaped(c)
  BY <1>1 DEF WriteChar
<1> QED
  BY <1>2, EscapedType, ConcatProperties

LEMMA InnerType ==
    ASSUME NEW s \in String
    PROVE  Inner(s) \in Seq(Lineless) /\ Inner(s) \in String
<1>1. PICK e \in Seq(Lineless) : e = <<>>
  BY EmptySeq
<1>2. Folded(WriteChar, e, s) \in Seq(Lineless)
  BY WriteStep, FoldType DEF String
<1>3. Inner(s) \in Seq(Lineless)
  BY <1>1, <1>2 DEF Inner
<1> QED
  BY <1>3, SeqMonotonic DEF String, Lineless

LEMMA InnerGrows ==
    ASSUME NEW s \in String, NEW c \in Chars
    PROVE  Inner(Append(s, c)) = Inner(s) \o Escaped(c)
<1>1. Inner(Append(s, c)) = WriteChar[Inner(s)][c]
  BY FoldAppend DEF Inner, String
<1> QED
  BY <1>1, InnerType, WriteStep

\* Neither writer writes a line feed.
LEMMA OneLine ==
    ASSUME NEW s \in String
    PROVE  ~Contains(Written(s), "LF")
<1>1. PICK q \in Lineless : q = "\""
  BY JsonCharacters
<1> DEFINE u == <<q>>
           t == Inner(s)
           w == (u \o t) \o u
<1>2. u \in Seq(Lineless) /\ t \in Seq(Lineless)
  BY InnerType
<1>3. u = <<"\"">>
  BY <1>1
<1>4. Written(s) = w
  BY <1>3 DEF Written, Inner
<1> HIDE DEF u, t
<1>5. u \o t \in Seq(Lineless)
  BY <1>2, ConcatProperties
<1>6. w \in Seq(Lineless)
  BY <1>2, <1>5, ConcatProperties
<1> HIDE DEF w
<1>7. \A i \in 1..Len(w) : w[i] # "LF"
  BY <1>6, ElementOfSeq DEF Lineless
<1> QED
  BY <1>4, <1>7 DEF Contains

-----------------------------------------------------------------------------
(* What UTF-8 has no place for passes a writer as it came.                 *)

LEMMA JoinedText ==
    ASSUME NEW s \in String, NEW t \in String
    PROVE  IsText(s \o t) <=> IsText(s) /\ IsText(t)
<1>1. /\ Len(s) \in Nat /\ Len(t) \in Nat /\ Len(s \o t) = Len(s) + Len(t)
      /\ \A i \in 1..Len(s) : (s \o t)[i] = s[i]
      /\ \A i \in 1..Len(t) : (s \o t)[Len(s) + i] = t[i]
  BY TextPlaces
<1>2. ASSUME IsText(s \o t) PROVE IsText(s) /\ IsText(t)
  <2>1. ASSUME NEW i \in 1..Len(s) PROVE s[i] \notin Stray
    <3>1. i \in 1..Len(s \o t) /\ (s \o t)[i] = s[i]
      BY <1>1
    <3> QED
      BY <1>2, <3>1 DEF IsText
  <2>2. ASSUME NEW i \in 1..Len(t) PROVE t[i] \notin Stray
    <3>1. Len(s) + i \in 1..Len(s \o t) /\ (s \o t)[Len(s) + i] = t[i]
      BY <1>1
    <3> QED
      BY <1>2, <3>1 DEF IsText
  <2> QED
    BY <2>1, <2>2 DEF IsText
<1>3. ASSUME IsText(s), IsText(t), NEW i \in 1..Len(s \o t)
      PROVE  (s \o t)[i] \notin Stray
  <2>1. CASE i \in 1..Len(s)
    BY <1>1, <1>3, <2>1 DEF IsText
  <2>2. CASE i \notin 1..Len(s)
    <3>1. i - Len(s) \in 1..Len(t) /\ Len(s) + (i - Len(s)) = i
      BY <1>1, <2>2
    <3>2. (s \o t)[i] = t[i - Len(s)]
      BY <1>1, <3>1
    <3> QED
      BY <1>3, <3>1, <3>2 DEF IsText
  <2> QED
    BY <2>1, <2>2
<1> QED
  BY <1>2, <1>3 DEF IsText

LEMMA EscapedText ==
    ASSUME NEW c \in Chars
    PROVE  IsText(Escaped(c)) <=> c \notin Stray
<1>1. /\ "\\" \notin Stray /\ "\"" \notin Stray /\ "u" \notin Stray
      /\ \A l \in DOMAIN Short : l \notin Stray
      /\ \A d \in DOMAIN Digits : d \notin Stray
      /\ \A k \in Controls : k \notin Stray
  BY StrayAssumption
<1>2. \A k \in Escapes(Short) \cup Escapes(Digits) : k \notin Stray
  BY <1>1 DEF Controls
<1>0. PICK b, u : b = "\\" /\ u = "u" /\ b \notin Stray /\ u \notin Stray
  BY <1>1
<1>3. CASE c \in Escapes(Short) /\ \E l \in DOMAIN Short : Escaped(c) = <<"\\", l>>
  <2>1. PICK l \in DOMAIN Short : Escaped(c) = <<b, l>>
    BY <1>0, <1>3
  <2>2. b \notin Stray /\ l \notin Stray
    BY <1>0, <1>1
  <2>3. IsText(<<b, l>>)
    BY <2>2 DEF IsText
  <2> QED
    BY <1>2, <1>3, <2>1, <2>3
<1>4. CASE c \in Escapes(Digits) /\ \E d \in DOMAIN Digits : Escaped(c) = <<"\\", "u", d>>
  <2>1. PICK d \in DOMAIN Digits : Escaped(c) = <<b, u, d>>
    BY <1>0, <1>4
  <2>2. b \notin Stray /\ u \notin Stray /\ d \notin Stray
    BY <1>0, <1>1
  <2>3. IsText(<<b, u, d>>)
    BY <2>2 DEF IsText
  <2> QED
    BY <1>2, <1>4, <2>1, <2>3
<1>5. CASE Escaped(c) = <<c>>
  BY <1>5 DEF IsText
<1> QED
  BY <1>3, <1>4, <1>5, EscapedIs

\* What a writer writes is UTF-8 exactly if what it was given is.
LEMMA WrittenText ==
    ASSUME NEW s \in String
    PROVE  IsText(Written(s)) <=> IsText(s)
<1> DEFINE S == {x \in String : IsText(Inner(x)) <=> IsText(x)}
<1>1. <<>> \in S
  <2>1. Inner(<<>>) = <<>>
    BY FoldEmpty DEF Inner
  <2> QED
    BY <2>1, TextConcat
<1>2. ASSUME NEW x \in S \cap Seq(Chars), NEW c \in Chars PROVE Append(x, c) \in S
  <2>0. x \in String /\ <<c>> \in String /\ Append(x, c) \in String
    BY AppendProperties DEF String
  <2>1. Append(x, c) = x \o <<c>>
    BY <2>0, AppendIsConcat DEF String
  <2>2. IsText(<<c>>) <=> c \notin Stray
    BY DEF IsText
  <2>3. IsText(Append(x, c)) <=> IsText(x) /\ c \notin Stray
    BY <2>0, <2>1, <2>2, JoinedText
  <2>4. Inner(x) \in String /\ Escaped(c) \in String
    BY <2>0, InnerType, EscapedType, SeqMonotonic DEF String, Lineless
  <2>5. Inner(Append(x, c)) = Inner(x) \o Escaped(c)
    BY <2>0, InnerGrows
  <2>6. IsText(Inner(Append(x, c))) <=> IsText(Inner(x)) /\ c \notin Stray
    BY <2>4, <2>5, JoinedText, EscapedText
  <2> QED
    BY <2>0, <2>3, <2>6
<1>3. s \in S
  <2> HIDE DEF S
  <2>1. Seq(Chars) \subseteq S
    BY <1>1, <1>2, SeqInduct
  <2> QED
    BY <2>1 DEF String
<1>4. PICK q \in Chars : q = "\"" /\ q \notin Stray
  BY JsonCharacters, StrayAssumption DEF Lineless
<1>5. <<q>> \in String /\ IsText(<<q>>)
  <2>1. q \in Chars /\ q \notin Stray
    BY <1>4
  <2>2. <<q>> \in String
    BY <2>1 DEF String
  <2>3. IsText(<<q>>)
    BY <2>1 DEF IsText
  <2> QED
    BY <2>2, <2>3
<1>6. Written(s) = (<<q>> \o Inner(s)) \o <<q>>
  BY <1>4 DEF Written, Inner
<1>7. Inner(s) \in String
  BY InnerType
<1>8. <<q>> \o Inner(s) \in String
  BY <1>5, <1>7, TextConcat
<1>9. IsText(Written(s)) <=> IsText(Inner(s))
  BY <1>5, <1>6, <1>7, <1>8, JoinedText
<1> QED
  BY <1>3, <1>9

-----------------------------------------------------------------------------
(* What is written, read back.                                             *)

Scanned(out) == [out |-> out, in |-> "string"]

Scanning(st, text, meant, bare) == Folded(StringChar(meant, bare), st, text)

\* A reader takes c as it was meant: the letter of its escape, or c as it is.
Takes(meant, bare, c) ==
    /\ \A l \in DOMAIN Short : Short[l] = c => l \in DOMAIN meant /\ meant[l] = c
    /\ c \notin Escapes(Short) \cup Escapes(Digits) => c \in bare

LEMMA ScanStep ==
    ASSUME NEW meant, NEW bare, NEW st \in ReaderState, NEW c \in Chars
    PROVE  StringChar(meant, bare)[st][c] =
             IF st.in = "string" THEN Unquoted(st, c, bare)
             ELSE IF st.in = "escape" THEN Unescaped(st, c, meant)
             ELSE IF st.in = "digits" THEN Numbered(st, c)
             ELSE [out |-> st.out, in |-> "junk"]
BY DEF StringChar

LEMMA ScanBackslash ==
    ASSUME NEW meant, NEW bare, NEW out \in String, NEW b \in Chars, b = "\\"
    PROVE  StringChar(meant, bare)[Scanned(out)][b] = [out |-> out, in |-> "escape"]
<1> DEFINE st == Scanned(out)
<1>1. st \in ReaderState /\ st.in = "string" /\ st.out = out
  BY DEF ReaderState, Scanned
<1> HIDE DEF st
<1>2. StringChar(meant, bare)[st][b] = Unquoted(st, b, bare)
  BY <1>1, ScanStep
<1> QED
  BY <1>1, <1>2 DEF st, Unquoted

\* An escape reads as the character that it stands for.
LEMMA ScanEscaped ==
    ASSUME NEW meant, NEW bare, NEW out \in String, NEW c \in Chars, Takes(meant, bare, c)
    PROVE  Scanning(Scanned(out), Escaped(c), meant, bare) = Scanned(Append(out, c))
<1> DEFINE step == StringChar(meant, bare)
           st0 == Scanned(out)
           st1 == [out |-> out, in |-> "escape"]
           st2 == [out |-> out, in |-> "digits"]
<1>0. PICK b \in Chars, u \in Chars : b = "\\" /\ u = "u"
  BY JsonCharacters DEF Lineless
<1>1. st0 \in ReaderState /\ st1 \in ReaderState /\ st2 \in ReaderState
  BY DEF ReaderState, Scanned
<1>2. step[st0][b] = st1
  BY <1>0, ScanBackslash
<1>3. CASE \E l \in DOMAIN Short : Short[l] = c /\ Escaped(c) = <<"\\", l>>
  <2>1. PICK l \in DOMAIN Short : Short[l] = c /\ Escaped(c) = <<b, l>>
    BY <1>0, <1>3
  <2>2. l \in Chars /\ l # "u" /\ l \in DOMAIN meant /\ meant[l] = c
    BY <2>1, JsonCharacters DEF Takes, Lineless
  <2>3. step[st1][l] = Scanned(Append(out, c))
    <3>1. step[st1][l] = Unescaped(st1, l, meant)
      BY <1>1, <2>2, ScanStep
    <3>2. Unescaped(st1, l, meant) = [out |-> Append(out, meant[l]), in |-> "string"]
      BY <2>2 DEF Unescaped
    <3> QED
      BY <2>2, <3>1, <3>2 DEF Scanned
  <2> HIDE DEF step, st0, st1
  <2> DEFINE x == <<b>>
  <2>4. Folded(step, st0, x) = st1
    BY <1>2, FoldOne
  <2>5. x \in Seq(Chars) /\ <<b, l>> = Append(x, l)
    BY <2>2
  <2> HIDE DEF x
  <2>6. Folded(step, st0, Append(x, l)) = step[st1][l]
    BY <2>2, <2>4, <2>5, FoldAppend
  <2> QED
    BY <2>1, <2>3, <2>5, <2>6 DEF Scanning, step, st0
<1>4. CASE \E d \in DOMAIN Digits : Digits[d] = c /\ Escaped(c) = <<"\\", "u", d>>
  <2>1. PICK d \in DOMAIN Digits : Digits[d] = c /\ Escaped(c) = <<b, u, d>>
    BY <1>0, <1>4
  <2>2. d \in Chars
    BY JsonCharacters DEF Lineless
  <2>3. step[st1][u] = st2
    <3>1. step[st1][u] = Unescaped(st1, u, meant)
      BY <1>1, ScanStep
    <3> QED
      BY <1>0, <3>1 DEF Unescaped
  <2>4. step[st2][d] = Scanned(Append(out, c))
    <3>1. step[st2][d] = Numbered(st2, d)
      <4>1. st2.in = "digits"
        OBVIOUS
      <4> HIDE DEF st2
      <4>2. step[st2][d] = IF st2.in = "string" THEN Unquoted(st2, d, bare)
                           ELSE IF st2.in = "escape" THEN Unescaped(st2, d, meant)
                           ELSE IF st2.in = "digits" THEN Numbered(st2, d)
                           ELSE [out |-> st2.out, in |-> "junk"]
        BY <1>1, <2>2, ScanStep
      <4> QED
        BY <4>1, <4>2
    <3> QED
      BY <2>1, <3>1 DEF Numbered, Scanned
  <2> HIDE DEF step, st0, st1, st2
  <2> DEFINE x == <<b>>
             bu == Append(x, u)
  <2>5. Folded(step, st0, x) = st1
    BY <1>2, FoldOne
  <2>6. x \in Seq(Chars) /\ bu \in Seq(Chars) /\ <<b, u, d>> = Append(bu, d)
    BY <2>2
  <2> HIDE DEF x
  <2>7. Folded(step, st0, bu) = st2
    BY <2>3, <2>5, <2>6, FoldAppend
  <2> HIDE DEF bu
  <2>8. Folded(step, st0, Append(bu, d)) = step[st2][d]
    BY <2>2, <2>6, <2>7, FoldAppend
  <2> QED
    BY <2>1, <2>4, <2>6, <2>8 DEF Scanning, step, st0
<1>5. CASE c \notin Escapes(Short) \cup Escapes(Digits) /\ Escaped(c) = <<c>>
  <2>1. c \in bare /\ c # "\\" /\ c # "\""
    BY <1>5, JsonCharacters DEF Takes
  <2>2. step[st0][c] = Scanned(Append(out, c))
    <3>1. step[st0][c] = Unquoted(st0, c, bare)
      BY <1>1, ScanStep DEF Scanned
    <3> QED
      BY <2>1, <3>1 DEF Unquoted, Scanned
  <2> HIDE DEF step, st0
  <2>3. Folded(step, st0, <<c>>) = step[st0][c]
    BY FoldOne
  <2> QED
    BY <1>5, <2>2, <2>3 DEF Scanning, step, st0
<1> QED
  BY <1>3, <1>4, <1>5, EscapedIs

LEMMA ScanInner ==
    ASSUME NEW meant, NEW bare, NEW G, G \subseteq Chars,
           \A c \in G : Takes(meant, bare, c)
    PROVE  \A s \in Seq(G) : Scanning(Opened, Inner(s), meant, bare) = Scanned(s)
<1> DEFINE S == {s \in Seq(G) : Scanning(Opened, Inner(s), meant, bare) = Scanned(s)}
<1>1. <<>> \in S
  <2>1. Inner(<<>>) = <<>> /\ Opened = Scanned(<<>>) /\ <<>> \in Seq(G)
    BY FoldEmpty, EmptySeq DEF Inner, Opened, Scanned
  <2>2. Scanning(Opened, <<>>, meant, bare) = Opened
    BY FoldEmpty DEF Scanning
  <2> QED
    BY <2>1, <2>2
<1>2. ASSUME NEW s \in S \cap Seq(G), NEW c \in G
      PROVE  Append(s, c) \in S
  <2>1. s \in String /\ c \in Chars
    BY SeqMonotonic DEF String
  <2>2. Inner(Append(s, c)) = Inner(s) \o Escaped(c)
    BY <2>1, InnerGrows
  <2>3. Inner(s) \in Seq(Chars) /\ Escaped(c) \in Seq(Chars)
    BY <2>1, InnerType, EscapedType, SeqMonotonic DEF String, Lineless
  <2>4. Scanning(Opened, Inner(s), meant, bare) = Scanned(s)
    BY <1>2
  <2> DEFINE i == Inner(s)
             e == Escaped(c)
  <2>5. Scanning(Scanned(s), e, meant, bare) = Scanned(Append(s, c))
    BY <2>1, ScanEscaped
  <2>6. i \in Seq(Chars) /\ e \in Seq(Chars) /\ Scanning(Opened, i, meant, bare) = Scanned(s)
    BY <2>3, <2>4
  <2> HIDE DEF i, e
  <2>7. Scanning(Opened, i \o e, meant, bare) = Scanning(Scanned(s), e, meant, bare)
    BY <2>6, FoldConcat DEF Scanning
  <2>8. Append(s, c) \in Seq(G)
    BY AppendProperties
  <2> QED
    BY <2>2, <2>5, <2>7, <2>8 DEF i, e
<1> HIDE DEF S
<1>3. Seq(G) \subseteq S
  BY <1>1, <1>2, SeqInduct
<1> QED
  BY <1>3 DEF S

\* A reader that takes the characters of a text as they were meant reads the
\* text.
LEMMA ReadWritten ==
    ASSUME NEW meant, NEW bare, NEW G, G \subseteq Chars,
           \A c \in G : Takes(meant, bare, c),
           NEW s \in Seq(G)
    PROVE  Read(Written(s), meant, bare) = s
<1>1. PICK q \in Chars : q = "\""
  BY JsonCharacters DEF Lineless
<1> DEFINE u == <<q>>
           i == Inner(s)
           step == StringChar(meant, bare)
           done == [out |-> s, in |-> "done"]
<1>2. s \in String
  BY SeqMonotonic DEF String
<1>3. u \in String /\ i \in String /\ Len(u) = 1
  BY <1>2, InnerType DEF String
<1>4. Written(s) = (u \o i) \o u
  <2>1. u = <<"\"">>
    BY <1>1
  <2> HIDE DEF u
  <2> QED
    BY <2>1 DEF Written, Inner
<1>5. step[Scanned(s)][q] = done
  <2>1. Scanned(s) \in ReaderState /\ Scanned(s).in = "string"
    BY <1>2 DEF ReaderState, Scanned
  <2>2. step[Scanned(s)][q] = Unquoted(Scanned(s), q, bare)
    BY <2>1, ScanStep
  <2> QED
    BY <1>1, <2>2 DEF Unquoted, Scanned
<1>6. Folded(step, Scanned(s), u) = done
  <2> HIDE DEF step, done
  <2> QED
    BY <1>5, FoldOne
<1>7. Folded(step, Opened, i) = Scanned(s)
  BY ScanInner DEF Scanning
<1> HIDE DEF u, i, step
<1>8. Folded(step, Opened, i \o u) = done
  BY <1>3, <1>6, <1>7, FoldConcat DEF String
<1>9. Tail(Written(s)) = i \o u
  <2> DEFINE v == i \o u
  <2>1. v \in String /\ Written(s) = u \o v
    BY <1>3, <1>4, TextConcat
  <2> HIDE DEF v
  <2> DEFINE w == u \o v
  <2>2. SubSeq(w, 2, Len(w)) = v
    <3>1. SubSeq(w, Len(u) + 1, Len(w)) = v
      BY <1>3, <2>1, SplitText DEF String
    <3> HIDE DEF w
    <3> QED
      BY <1>3, <3>1
  <2>3. w \in String /\ Len(w) = 1 + Len(v) /\ Len(v) \in Nat
    <3>1. w \in String
      BY <1>3, <2>1, TextConcat
    <3>2. Len(w) = Len(u) + Len(v) /\ Len(v) \in Nat
      BY <1>3, <2>1, TextPlaces
    <3> HIDE DEF w
    <3> QED
      BY <1>3, <3>1, <3>2
  <2> HIDE DEF w
  <2>4. w # <<>>
    BY <2>3, EmptySeq
  <2>5. Tail(w) = SubSeq(w, 2, Len(w))
    BY <2>3, <2>4, TailIsSubSeq DEF String
  <2> QED
    BY <2>1, <2>2, <2>5 DEF w, v
<1> HIDE DEF done
<1>10. Read(Written(s), meant, bare) = IF done.in = "done" THEN done.out ELSE <<"malformed">>
  BY Zenon, <1>8, <1>9 DEF Read, step
<1> QED
  BY <1>10 DEF done

\* Python reads in the host's line what the host has written, all of Chars.
\* The line has only as much of UTF-8 as what is in it.
THEOREM LoadsWhatIsQuoted ==
    ASSUME NEW s \in String
    PROVE  /\ loads(quote(s)) = s /\ ~Contains(quote(s), "LF")
           /\ IsText(quote(s)) <=> IsText(s)
<1>1. ASSUME NEW c \in Chars PROVE Takes(Short, Chars \ Controls, c)
  BY DEF Takes, Controls
<1>2. Read(Written(s), Short, Chars \ Controls) = s
  <2> DEFINE bare == Chars \ Controls
  <2>1. \A c \in Chars : Takes(Short, bare, c)
    BY <1>1
  <2> HIDE DEF bare
  <2>2. Read(Written(s), Short, bare) = s
    BY <2>1, ReadWritten DEF String
  <2> QED
    BY <2>2 DEF bare
<1> QED
  BY <1>2, OneLine, WrittenText DEF loads, quote

\* The host reads in Python's line what Python has written, but for \b and \f.
THEOREM ParsesWhatIsDumped ==
    ASSUME NEW s \in Seq(Chars \ {"BS", "FF"})
    PROVE  parse_str(dumps(s)) = s
<1> DEFINE G == Chars \ {"BS", "FF"}
<1>1. ASSUME NEW c \in G PROVE Takes(Understood, Chars, c)
  <2>1. ASSUME NEW l \in DOMAIN Short, Short[l] = c
        PROVE  l \in DOMAIN Understood /\ Understood[l] = c
    <3>1. Short["b"] = "BS" /\ Short["f"] = "FF"
      BY DEF Short
    <3>2. l \notin {"b", "f"} /\ l \in Chars
      BY <2>1, <3>1, JsonCharacters DEF Lineless
    <3> QED
      BY <2>1, <3>2 DEF Understood
  <2> QED
    BY <2>1 DEF Takes
<1>2. G \subseteq Chars /\ s \in Seq(G)
  OBVIOUS
<1> HIDE DEF G
<1>3. Read(Written(s), Understood, Chars) = s
  BY <1>1, <1>2, ReadWritten
<1> QED
  BY <1>3 DEF parse_str, dumps
=============================================================================
