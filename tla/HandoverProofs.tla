---------------------------- MODULE HandoverProofs ----------------------------
(***************************************************************************)
(* Proofs about the limits of a job, for every SIZE_T, every launch and    *)
(* every limit that Windows knows of, and about the texts that a launch    *)
(* carries there and back, for every set of characters.                    *)
(***************************************************************************)
EXTENDS Handover, TextProofs

\* The rates that the two validations let through.
Percent(rate) == rate \in Int /\ 1 <= rate /\ rate <= 100

\* What fits into a word.
Fits(rate) == rate \in Int /\ 0 <= rate /\ rate < WORD

\* Each of the two halves of CpuRate is read as it was written.
LEMMA HalvesApart ==
    ASSUME NEW low, NEW high, Fits(low), Fits(high)
    PROVE  Floor(MinMax(low, high)) = low /\ Cap(MinMax(low, high)) = high
<1>1. low % WORD = low /\ high % WORD = high
  BY DEF Fits, WORD
<1>2. MinMax(low, high) = [control |-> "minmax", CpuRate |-> high * WORD + low]
  BY <1>1 DEF MinMax
<1>3. (high * WORD + low) % WORD = low
  BY DEF Fits, WORD
<1>4. (high * WORD + low) \div WORD = high
  BY DEF Fits, WORD
<1>5. /\ Floor(MinMax(low, high)) = (high * WORD + low) % WORD
      /\ Cap(MinMax(low, high)) = (high * WORD + low) \div WORD
  BY <1>2 DEF Floor, Cap
<1> QED
  BY <1>3, <1>4, <1>5

\* A hard cap is the rate itself.
LEMMA RawRate ==
    ASSUME NEW rate \in Int
    PROVE  Cap(HardCap(rate)) = rate
<1>1. HardCap(rate).control = "hardcap" /\ HardCap(rate).CpuRate = rate
  BY DEF HardCap
<1> QED
  BY <1>1 DEF Cap

\* A number within SIZE_T does not wrap.
LEMMA NoWrap ==
    ASSUME NEW mb \in Int, 0 < mb, mb * MiB < SizeT
    PROVE  Bytes(mb) = mb * MiB
<1>1. mb * MiB \in Nat
  BY WidthAssumption
<1>2. \A x \in Nat : x < SizeT => x % SizeT = x
  BY WidthAssumption
<1> QED
  BY <1>1, <1>2 DEF Bytes

\* Such a number of megabytes is within SIZE_T itself.
LEMMA StaysSmall ==
    ASSUME NEW mb \in Int, 0 < mb, mb * MiB < SizeT
    PROVE  mb < SizeT
<1>1. \A a, b \in Nat : a > 0 /\ b > 0 => a <= a * b
  BY SMTT(30)
<1>2. mb <= mb * MiB
  BY <1>1, WidthAssumption
<1> QED
  BY <1>2, WidthAssumption

\* The CPU limit of a container.
LEMMA HostCpuAsAsked ==
    ASSUME NEW low, NEW high, Percent(low), Percent(high), low <= high,
           NEW headers \in BOOLEAN
    PROVE  /\ headers => Floor(HostCpu(headers, low, high)) = 100 * low
           /\ Cap(HostCpu(headers, low, high)) = 100 * high
<1>1. Fits(low * 100) /\ Fits(high * 100)
  BY DEF Percent, Fits, WORD
<1>2. CASE headers
  BY <1>1, <1>2, HalvesApart DEF HostCpu, Percent
<1>3. CASE ~headers
  <2>1. HostCpu(headers, low, high) = HardCap(high * 100)
    BY <1>3 DEF HostCpu
  <2> QED
    BY <1>3, <2>1, RawRate DEF Percent
<1> QED
  BY <1>2, <1>3

\* That of a native target, whose cap is raised to the floor.
LEMMA NativeRangeAsAsked ==
    ASSUME NEW low, NEW percent, Percent(low), Percent(percent)
    PROVE  /\ Floor(NativeCpu(FALSE, low, percent)) = 100 * low
           /\ Cap(NativeCpu(FALSE, low, percent)) = 100 * AtLeast(low, percent)
<1> DEFINE high == AtLeast(low * 100, AtMost(10000, percent * 100))
<1>1. high = 100 * AtLeast(low, percent)
  BY DEF AtLeast, AtMost, Percent
<1>2. Fits(low * 100) /\ Fits(high)
  BY <1>1 DEF Percent, Fits, WORD, AtLeast
<1>3. NativeCpu(FALSE, low, percent) = MinMax(low * 100, high)
  BY DEF NativeCpu
<1> HIDE DEF high
<1>4. Floor(MinMax(low * 100, high)) = low * 100 /\ Cap(MinMax(low * 100, high)) = high
  BY <1>2, HalvesApart
<1>5. low * 100 = 100 * low
  BY DEF Percent
<1> QED
  BY <1>1, <1>3, <1>4, <1>5

\* And on a Windows that has no MIN_MAX_RATE.
LEMMA NativeCapAsAsked ==
    ASSUME NEW low, NEW percent, Percent(percent)
    PROVE  Cap(NativeCpu(TRUE, low, percent)) = 100 * percent
<1>1. AtLeast(1, AtMost(10000, percent * 100)) = 100 * percent
  BY DEF AtLeast, AtMost, Percent
<1>2. NativeCpu(TRUE, low, percent) = HardCap(100 * percent)
  BY <1>1 DEF NativeCpu
<1>3. 100 * percent \in Int
  BY DEF Percent
<1>4. Cap(HardCap(100 * percent)) = 100 * percent
  BY <1>3, RawRate
<1> QED
  BY <1>2, <1>4

-----------------------------------------------------------------------------
\* Whose steps these are, and that only a valid launch goes to a host.
Paths ==
    /\ config \in Config
    /\ pc \in {"validate", "write", "parse", "create", "answered", "resolved"} => ~config.native
    /\ ~config.native /\ pc \notin {"validate", "refused"} => Valid(config)

\* What the memory limit has become on the wire, and in the host.
Carried ==
    ~config.native =>
        /\ pc = "parse" => /\ wire.skipMemory <=> config.mb = None
                           /\ config.mb # None => wire.mb = config.mb
        /\ pc = "limit" => /\ cfg.skipMemory <=> config.mb = None
                           /\ config.mb # None /\ config.mb < SizeT =>
                                cfg.bytes = Bytes(config.mb)

HandoverInv == Paths /\ Carried /\ LimitsAsAsked

\* The invariant that LimitsAsAsked needs: how each launch has come to its
\* limits, and what has been carried there.
THEOREM Carriage == Spec => []HandoverInv
<1>1. Init => HandoverInv
  <2> SUFFICES ASSUME Init PROVE HandoverInv
    OBVIOUS
  <2>1. config \in Config
    BY ConfigsAssumption DEF Init
  <2> QED
    BY <2>1 DEF Init, HandoverInv, Paths, Carried, LimitsAsAsked, Config
<1>2. HandoverInv /\ [Next]_vars => HandoverInv'
  <2> SUFFICES ASSUME HandoverInv, [Next]_vars PROVE HandoverInv'
    OBVIOUS
  <2>0. config' = config
    BY DEF Next, vars, Validate, Write, Parse, ApplyLimits, SetLimits, Create, Answer,
           ResolveOutput
  <2>t. /\ config \in Config /\ config.native \in BOOLEAN /\ config.max \in Int
        /\ config.min \in Int /\ config.skipCpu \in BOOLEAN
        /\ config.mb \in Int \cup {None} /\ config.modern \in BOOLEAN
    BY DEF HandoverInv, Paths, Config
  <2>1. CASE Validate
    BY <2>0, <2>1 DEF Validate, HandoverInv, Paths, Carried, LimitsAsAsked
  <2>2. CASE Write
    <3>1. pc' = "parse" => /\ wire'.skipMemory <=> config.mb = None
                           /\ config.mb # None => wire'.mb = config.mb
      <4>1. CASE pc' = "refused"
        BY <4>1
      <4>2. CASE wire'.skipMemory = (config.mb = None)
                 /\ wire'.mb = IF config.mb = None THEN 0 ELSE config.mb
        BY <4>2
      <4> QED
        BY <2>2, <4>1, <4>2 DEF Write
    <3>2. ~config.native /\ pc = "write" /\ pc' \in {"parse", "refused"}
      BY <2>2 DEF Write, HandoverInv, Paths
    <3> QED
      BY <2>0, <3>1, <3>2 DEF HandoverInv, Paths, Carried, LimitsAsAsked
  <2>3. CASE Parse
    <3>1. ~config.native /\ pc = "parse" /\ pc' \in {"limit", "refused"}
      BY <2>3 DEF Parse, HandoverInv, Paths
    <3>2. CASE pc' = "limit"
      <4>1. PICK mb \in Gets(wire.mb) :
               cfg'.bytes = Bytes(mb) /\ cfg'.skipMemory = wire.skipMemory
        BY <2>3, <3>2 DEF Parse
      <4>2. config.mb # None /\ config.mb < SizeT => mb = config.mb
        BY <3>1, <4>1 DEF Gets, HandoverInv, Carried
      <4> QED
        BY <2>0, <3>1, <3>2, <4>1, <4>2 DEF HandoverInv, Paths, Carried, LimitsAsAsked
    <3> QED
      BY <2>0, <3>1, <3>2 DEF HandoverInv, Paths, Carried, LimitsAsAsked
  <2>4. CASE ApplyLimits
    <3>1. ~config.native /\ pc = "limit" /\ pc' = "create" /\ Valid(config)
      BY <2>4 DEF ApplyLimits, HandoverInv, Paths
    <3>2. /\ job'.cpu = IF config.skipCpu THEN NoCpu
                          ELSE HostCpu(config.modern, config.min, config.max)
          /\ job'.memory = IF cfg.skipMemory THEN 0 ELSE cfg.bytes
      BY <2>4 DEF ApplyLimits
    <3>3. /\ Percent(config.min) /\ Percent(config.max) /\ config.min <= config.max
          /\ AtLeast(config.min, config.max) = config.max
      BY <2>t, <3>1 DEF Valid, Percent, AtLeast
    <3>4. ~config.skipCpu => /\ config.modern => Floor(job'.cpu) = 100 * config.min
                             /\ Cap(job'.cpu) = 100 * config.max
      BY <2>t, <3>2, <3>3, HostCpuAsAsked
    <3>5. /\ config.mb = None => job'.memory = 0
          /\ config.mb # None /\ 0 < config.mb /\ config.mb * MiB < SizeT =>
               job'.memory = config.mb * MiB
      BY <2>t, <3>1, <3>2, NoWrap, StaysSmall DEF HandoverInv, Carried
    <3> QED
      BY <2>0, <2>t, <3>1, <3>2, <3>3, <3>4, <3>5
         DEF HandoverInv, Paths, Carried, LimitsAsAsked
  <2>5. CASE SetLimits
    <3>1. CASE pc' = "refused"
      BY <2>0, <2>5, <3>1 DEF SetLimits, HandoverInv, Paths, Carried, LimitsAsAsked
    <3>2. CASE pc' = "runs"
      <4>1. /\ config.native
            /\ job'.cpu = IF config.skipCpu THEN NoCpu
                            ELSE NativeCpu(~config.modern, config.min, config.max)
            /\ job'.memory = IF config.mb = None THEN 0 ELSE Bytes(config.mb)
        BY <2>5, <3>2 DEF SetLimits
      <4>2. Percent(config.min) /\ Percent(config.max) /\ ~config.skipCpu =>
              /\ config.modern => Floor(job'.cpu) = 100 * config.min
              /\ Cap(job'.cpu) = 100 * (IF config.modern
                                          THEN AtLeast(config.min, config.max)
                                          ELSE config.max)
        <5>1. CASE config.modern
          <6>1. (~config.modern) = FALSE
            BY <5>1
          <6>2. ~config.skipCpu => job'.cpu = NativeCpu(FALSE, config.min, config.max)
            BY <4>1, <6>1
          <6>3. Percent(config.min) /\ Percent(config.max) =>
                  /\ Floor(NativeCpu(FALSE, config.min, config.max)) = 100 * config.min
                  /\ Cap(NativeCpu(FALSE, config.min, config.max))
                       = 100 * AtLeast(config.min, config.max)
            BY NativeRangeAsAsked
          <6> QED
            BY <5>1, <6>2, <6>3
        <5>2. CASE ~config.modern
          <6>1. (~config.modern) = TRUE
            BY <5>2
          <6>2. ~config.skipCpu => job'.cpu = NativeCpu(TRUE, config.min, config.max)
            BY <4>1, <6>1
          <6> QED
            BY <5>2, <6>2, NativeCapAsAsked
        <5> QED
          BY <5>1, <5>2
      <4>3. /\ config.mb = None => job'.memory = 0
            /\ config.mb # None /\ 0 < config.mb /\ config.mb * MiB < SizeT =>
                 job'.memory = config.mb * MiB
        BY <2>t, <4>1, NoWrap
      <4> QED
        BY <2>0, <2>t, <3>2, <4>1, <4>2, <4>3
           DEF HandoverInv, Paths, Carried, LimitsAsAsked, Percent
    <3> QED
      BY <2>5, <3>1, <3>2 DEF SetLimits
  <2>6. CASE Create
    <3>1. ~config.native /\ pc = "create" /\ pc' \in {"runs", "refused"} /\ job' = job
      BY <2>6 DEF Create, HandoverInv, Paths
    <3> QED
      BY <2>0, <3>1 DEF HandoverInv, Paths, Carried, LimitsAsAsked
  <2>7. CASE Answer
    <3>1. ~config.native /\ pc = "runs" /\ pc' = "answered" /\ job' = job
      BY <2>7 DEF Answer
    <3> QED
      BY <2>0, <3>1 DEF HandoverInv, Paths, Carried, LimitsAsAsked
  <2>9. CASE ResolveOutput
    <3>1. pc = "answered" /\ pc' = "resolved" /\ job' = job
      BY <2>9 DEF ResolveOutput
    <3> QED
      BY <2>0, <3>1 DEF HandoverInv, Paths, Carried, LimitsAsAsked
  <2>8. CASE UNCHANGED vars
    BY <2>8 DEF vars, HandoverInv, Paths, Carried, LimitsAsAsked
  <2> QED
    BY <2>1, <2>2, <2>3, <2>4, <2>5, <2>6, <2>7, <2>8, <2>9 DEF Next
<1> QED
  BY <1>1, <1>2, PTL DEF Spec

\* The limits of every job are those that were asked for, whatever the width
\* of SIZE_T, up to where the memory limit would wrap around.
THEOREM LimitsAreKept == Spec => []LimitsAsAsked
<1>1. HandoverInv => LimitsAsAsked
  BY DEF HandoverInv
<1> QED
  BY <1>1, Carriage, PTL

-----------------------------------------------------------------------------
(* The texts.                                                              *)

\* A plain text comes to the host as it was.
LEMMA PlainIsCarried ==
    ASSUME NEW s \in String, Plain(s)
    PROVE  to_wide(parse_str(dumps(s))) = s
<1>1. Len(s) \in Nat /\ DOMAIN s = 1..Len(s)
  BY LenProperties DEF String
<1>2. s \in Seq(Chars \ {"BS", "FF"})
  <2>1. s \in [1..Len(s) -> Chars \ {"BS", "FF"}]
    BY <1>1, ElementOfSeq, LenProperties DEF Plain, String
  <2> QED
    BY <1>1, <2>1
<1>3. parse_str(dumps(s)) = s
  BY <1>2, ParsesWhatIsDumped
<1>4. FirstIn(s, 1, {"NUL"}) = Len(s) + 1
  <2>1. \A i \in 1..(Len(s) + 1) - 1 : s[i] \notin {"NUL"}
    BY <1>1 DEF Plain
  <2>2. Len(s) + 1 \in 1..Len(s) + 1 /\ ~(Len(s) + 1 <= Len(s))
    BY <1>1
  <2> QED
    BY <2>1, <2>2, FirstInIs
<1>5. SubSeq(s, 1, Len(s)) = s
  BY SubSeqFull DEF String
<1>6. (Len(s) + 1) - 1 = Len(s)
  BY <1>1
<1> QED
  BY <1>3, <1>4, <1>5, <1>6 DEF to_wide

LEMMA FileIsPlain ==
    ASSUME NEW path \in String, IsFile(path)
    PROVE  /\ Plain(path)
           /\ \A i \in 1..Len(path) : path[i] # Quote
<1>1. "NUL" \in Controls /\ "BS" \in Controls /\ "FF" \in Controls
  <2>1. Short["b"] = "BS" /\ Short["f"] = "FF" /\ {"b", "f"} \subseteq DOMAIN Short
    BY DEF Short
  <2>2. Digits["0000"] = "NUL" /\ "0000" \in DOMAIN Digits
    BY DEF Digits
  <2> QED
    BY <2>1, <2>2 DEF Controls, Escapes
<1> QED
  BY <1>1 DEF IsFile, Plain

AllPlain == \A i \in DOMAIN config.args : Plain(config.args[i])

\* What the texts have become on the wire, and in the host.
TextsCarried ==
    /\ pc = "parse" => /\ wire.exe = dumps(config.exe)
                       /\ wire.args = [i \in DOMAIN config.args |-> dumps(config.args[i])]
    /\ (~config.native /\ pc = "limit") \/ pc = "create" =>
         cfg.exe = config.exe /\ (AllPlain => cfg.args = config.args)

TextInv ==
    /\ config \in Config /\ IsFile(config.exe)
    /\ TextsCarried
    /\ ArgvSurvives
    /\ OutputArrives
    /\ pc = "answered" => written \in String /\ answer = quote(written)

\* The invariant that ArgvSurvives needs: what has been carried where.
THEOREM TextCarriage == Spec => []TextInv
<1>1. Init => TextInv
  <2> SUFFICES ASSUME Init PROVE TextInv
    OBVIOUS
  <2>1. config \in Config /\ IsFile(config.exe)
    BY ConfigsAssumption DEF Init
  <2>2. /\ pc \notin {"parse", "create"} /\ (pc = "limit" => config.native)
        /\ argv = None /\ answer = None /\ pc \notin {"answered", "resolved"}
    BY <2>1 DEF Init, Config
  <2> QED
    BY <2>1, <2>2 DEF TextInv, TextsCarried, ArgvSurvives, OutputArrives
<1>2. TextInv /\ [Next]_vars => TextInv'
  <2> SUFFICES ASSUME TextInv, [Next]_vars PROVE TextInv'
    OBVIOUS
  <2>0. config' = config
    BY DEF Next, vars, Validate, Write, Parse, ApplyLimits, SetLimits, Create, Answer,
           ResolveOutput
  <2>t. /\ config \in Config /\ IsFile(config.exe) /\ config.exe \in String
        /\ config.args \in Seq(String)
    BY DEF TextInv, Config
  <2>k. AllPlain' <=> AllPlain
    BY <2>0 DEF AllPlain
  <2>1. CASE Validate
    <3>1. pc' \in {"write", "refused"} /\ argv' = argv /\ answer' = answer /\ written' = written
      BY <2>1 DEF Validate
    <3> QED
      BY <2>0, <3>1 DEF TextInv, TextsCarried, ArgvSurvives, OutputArrives
  <2>2. CASE Write
    <3>1. /\ pc' \in {"parse", "refused"}
          /\ pc' = "parse" =>
               /\ wire'.exe = dumps(config.exe)
               /\ wire'.args = [i \in DOMAIN config.args |-> dumps(config.args[i])]
          /\ argv' = argv /\ answer' = answer /\ written' = written
      BY <2>2 DEF Write
    <3> QED
      BY <2>0, <3>1 DEF TextInv, TextsCarried, ArgvSurvives, OutputArrives
  <2>3. CASE Parse
    <3>1. /\ pc = "parse" /\ argv' = argv /\ answer' = answer /\ written' = written
          /\ pc' \in {"limit", "refused"}
      BY <2>3 DEF Parse
    <3>2. CASE pc' = "refused"
      BY <2>0, <3>1, <3>2 DEF TextInv, TextsCarried, ArgvSurvives, OutputArrives
    <3>3. CASE pc' = "limit"
      <4>1. /\ cfg'.exe = to_wide(parse_str(wire.exe))
            /\ cfg'.args = [i \in DOMAIN wire.args |-> to_wide(parse_str(wire.args[i]))]
        BY <2>3, <3>3 DEF Parse
      <4>2. /\ wire.exe = dumps(config.exe)
            /\ wire.args = [i \in DOMAIN config.args |-> dumps(config.args[i])]
        BY <3>1 DEF TextInv, TextsCarried
      <4>3. cfg'.exe = config.exe
        BY <2>t, <4>1, <4>2, FileIsPlain, PlainIsCarried
      <4>4. ASSUME AllPlain PROVE cfg'.args = config.args
        <5>1. cfg'.args = [i \in DOMAIN config.args |->
                             to_wide(parse_str(dumps(config.args[i])))]
          BY <4>1, <4>2
        <5>2. ASSUME NEW i \in DOMAIN config.args
              PROVE  to_wide(parse_str(dumps(config.args[i]))) = config.args[i]
          <6>1. config.args[i] \in String
            BY <2>t, ElementOfSeq, LenProperties
          <6> QED
            BY <4>4, <6>1, PlainIsCarried DEF AllPlain
        <5>3. config.args = [i \in DOMAIN config.args |-> config.args[i]]
          BY <2>t, LenProperties
        <5> QED
          BY <5>1, <5>2, <5>3
      <4> QED
        BY <2>0, <2>k, <3>1, <3>3, <4>3, <4>4
           DEF TextInv, TextsCarried, ArgvSurvives, OutputArrives
    <3> QED
      BY <3>1, <3>2, <3>3
  <2>4. CASE ApplyLimits
    <3>1. /\ pc = "limit" /\ ~config.native /\ pc' = "create" /\ cfg' = cfg
          /\ argv' = argv /\ answer' = answer /\ written' = written
      BY <2>4 DEF ApplyLimits
    <3> QED
      BY <2>0, <2>k, <3>1 DEF TextInv, TextsCarried, ArgvSurvives, OutputArrives
  <2>5. CASE SetLimits
    <3>1. /\ pc' \in {"refused", "runs"}
          /\ argv' = argv /\ answer' = answer /\ written' = written
      BY <2>5 DEF SetLimits
    <3> QED
      BY <2>0, <3>1 DEF TextInv, TextsCarried, ArgvSurvives, OutputArrives
  <2>6. CASE Create
    <3>1. /\ pc = "create" /\ answer' = answer /\ written' = written
          /\ pc' \in {"runs", "refused"}
      BY <2>6 DEF Create
    <3>2. cfg.exe = config.exe /\ (AllPlain => cfg.args = config.args)
      BY <3>1 DEF TextInv, TextsCarried
    <3>3. \/ argv' = argv
          \/ /\ Opens(cfg.exe)
             /\ argv' = CommandLineToArgv(build_cmdline(cfg.exe, cfg.args))
      BY <2>6 DEF Create
    <3>4. argv' = argv \/ (AllPlain => argv' = <<config.exe>> \o config.args)
      BY <2>t, <3>2, <3>3, FileIsPlain, ArgvIsAsWritten DEF Opens
    <3> QED
      BY <2>0, <3>1, <3>4 DEF TextInv, TextsCarried, ArgvSurvives, OutputArrives, AllPlain
  <2>7. CASE Answer
    <3>1. PICK s \in Outputs : written' = s /\ answer' = quote(s)
      BY <2>7 DEF Answer
    <3>2. pc' = "answered" /\ argv' = argv
      BY <2>7 DEF Answer
    <3>3. s \in String /\ ~Contains(quote(s), "LF")
      BY OutputsAssumption, LoadsWhatIsQuoted
    <3> QED
      BY <2>0, <3>1, <3>2, <3>3 DEF TextInv, TextsCarried, ArgvSurvives, OutputArrives
  <2>9. CASE ResolveOutput
    <3>1. /\ pc = "answered" /\ pc' = "resolved"
          /\ argv' = argv /\ answer' = answer /\ written' = written
          /\ output' = IF IsText(answer) THEN loads(answer) ELSE None
      BY <2>9 DEF ResolveOutput
    <3>2. written \in String /\ answer = quote(written)
      BY <3>1 DEF TextInv
    <3>3. loads(answer) = written /\ (IsText(answer) <=> IsText(written))
      BY <3>2, LoadsWhatIsQuoted
    <3> QED
      BY <2>0, <3>1, <3>3 DEF TextInv, TextsCarried, ArgvSurvives, OutputArrives
  <2>8. CASE UNCHANGED vars
    BY <2>8 DEF vars, TextInv, TextsCarried, AllPlain, ArgvSurvives, OutputArrives
  <2> QED
    BY <2>1, <2>2, <2>3, <2>4, <2>5, <2>6, <2>7, <2>8, <2>9 DEF Next
<1> QED
  BY <1>1, <1>2, PTL DEF Spec

\* The target finds in argv the program and the arguments of the launch,
\* whatever the arguments hold that the wire lets through.
THEOREM ArgvIsKept == Spec => []ArgvSurvives
<1>1. TextInv => ArgvSurvives
  BY DEF TextInv
<1> QED
  BY <1>1, TextCarriage, PTL

\* Whatever bytes the target writes, the host answers with one line; if they
\* are UTF-8 they come to target_output as they were, if not, not at all.
THEOREM OutputIsKept == Spec => []OutputArrives
<1>1. TextInv => OutputArrives
  BY DEF TextInv
<1> QED
  BY <1>1, TextCarriage, PTL
=============================================================================
