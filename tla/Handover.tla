------------------------------- MODULE Handover -------------------------------
(***************************************************************************)
(* The data of one launch, on its way from the caller's arguments to the   *)
(* target and its job, and of the captured output on its way back:         *)
(*                                                                         *)
(*   SandboxConfig -> _validate -> JSON line -> parse_config -> job limits *)
(*     -> command line -> argv ... output -> JSON line -> target_output    *)
(*                                                                         *)
(* or, for a native target, from run_under_job's arguments straight to the *)
(* job.  When each of these steps may happen, and what if one fails, is in *)
(* SandboxLifecycle, HostLaunch and NativeJob.                             *)
(***************************************************************************)
EXTENDS CmdLine, JsonText, JobLimits

CONSTANTS
    Configs,   \* the launches
    Outputs,   \* what a target may write
    None       \* no value

Config == [ native : BOOLEAN, exe : String, args : Seq(String),
            max : Int, min : Int, skipCpu : BOOLEAN, mb : Int \cup {None},
            modern : BOOLEAN ]   \* MIN_MAX_RATE is there, and accepted

\* _validate: exe_path is the path of a file.  Windows lets no such path hold
\* a quote or a control character; pathlib overlooks a backslash at its end.
IsFile(path) ==
    path # <<>> /\ \A i \in 1..Len(path) : path[i] \notin {Quote} \cup Controls

\* CreateProcessW does not: what ends with a backslash is a directory.
Opens(path) == path # <<>> /\ path[Len(path)] # Backslash

ASSUME ConfigsAssumption ==
    Configs \subseteq Config /\ \A c \in Configs : IsFile(c.exe)

ASSUME OutputsAssumption == Outputs \subseteq String

VARIABLES
    pc,
    config,   \* what the caller asks for
    wire,     \* the JSON line to the host
    cfg,      \* the host's LaunchConfig
    job,      \* the limits of the job object
    argv,     \* what the target finds
    written,  \* what it writes
    answer,   \* the host's JSON line
    output    \* SandboxHandle.target_output

vars == <<pc, config, wire, cfg, job, argv, written, answer, output>>

Init ==
    /\ config \in Configs
    /\ pc = IF config.native THEN "limit" ELSE "validate"
    /\ wire = None
    /\ cfg = None
    /\ job = [cpu |-> NoCpu, memory |-> 0]
    /\ argv = None
    /\ written = None
    /\ answer = None
    /\ output = None

-----------------------------------------------------------------------------

\* _validate: 1 <= cpu_min_rate <= cpu_max_rate <= 100, a positive limit.
Valid(c) ==
    /\ 1 <= c.min /\ c.min <= c.max /\ c.max <= 100
    /\ c.mb # None => c.mb > 0

Validate ==
    /\ pc = "validate"
    /\ pc' = IF Valid(config) THEN "write" ELSE "refused"
    /\ UNCHANGED <<config, wire, cfg, job, argv, written, answer, output>>

\* The bytes of the request exist: encode() does not raise.
Encodes(c) == IsText(c.exe) /\ \A i \in DOMAIN c.args : IsText(c.args[i])

\* _build_stdin_payload, json.dumps and encode.
Write ==
    /\ pc = "write"
    /\ \/ /\ Encodes(config)
          /\ wire' = [ exe        |-> dumps(config.exe),
                       args       |-> [i \in DOMAIN config.args |-> dumps(config.args[i])],
                       mb         |-> IF config.mb = None THEN 0 ELSE config.mb,
                       skipMemory |-> config.mb = None ]
          /\ pc' = "parse"
       \/ /\ ~Encodes(config)
          /\ pc' = "refused"
          /\ UNCHANGED wire
    /\ UNCHANGED <<config, cfg, job, argv, written, answer, output>>

\* to_wide stops at a NUL.
to_wide(s) == SubSeq(s, 1, FirstIn(s, 1, {"NUL"}) - 1)

\* get<SIZE_T>: a number beyond the range is refused.  2^64 itself is within
\* it, as a double, and its conversion is undefined.
Gets(mb) == IF mb < SizeT THEN {mb} ELSE {0, SizeT - 1}

\* json_parse and parse_config.
Parse ==
    /\ pc = "parse"
    /\ \/ /\ wire.mb <= SizeT
          /\ \E mb \in Gets(wire.mb) :
                cfg' = [ exe        |-> to_wide(parse_str(wire.exe)),
                         args       |-> [i \in DOMAIN wire.args |->
                                            to_wide(parse_str(wire.args[i]))],
                         bytes      |-> Bytes(mb),
                         skipMemory |-> wire.skipMemory ]
          /\ pc' = "limit"
       \/ /\ wire.mb > SizeT
          /\ pc' = "refused"
          /\ UNCHANGED cfg
    /\ UNCHANGED <<config, wire, job, argv, written, answer, output>>

\* JobObject::apply_limits.  Its own check of the rates is that of _validate.
ApplyLimits ==
    /\ pc = "limit"
    /\ ~config.native
    /\ job' = [ cpu    |-> IF config.skipCpu THEN NoCpu
                             ELSE HostCpu(config.modern, config.min, config.max),
                memory |-> IF cfg.skipMemory THEN 0 ELSE cfg.bytes ]
    /\ pc' = "create"
    /\ UNCHANGED <<config, wire, cfg, argv, written, answer, output>>

\* set_cpu_limit, whose assertion on the rate an old Windows does not reach,
\* and set_memory_limit.
SetLimits ==
    /\ pc = "limit"
    /\ config.native
    /\ \/ /\ ~config.skipCpu /\ config.min * 100 >= WORD
          /\ pc' = "refused"
          /\ UNCHANGED job
       \/ /\ config.skipCpu \/ config.min * 100 < WORD \/ ~config.modern
          /\ job' = [ cpu    |-> IF config.skipCpu THEN NoCpu
                                   ELSE NativeCpu(~config.modern, config.min, config.max),
                      memory |-> IF config.mb = None THEN 0 ELSE Bytes(config.mb) ]
          /\ pc' = "runs"
    /\ UNCHANGED <<config, wire, cfg, argv, written, answer, output>>

\* CreateProcessW with exe_path and build_cmdline's result.
Create ==
    /\ pc = "create"
    /\ \/ /\ Opens(cfg.exe)
          /\ argv' = CommandLineToArgv(build_cmdline(cfg.exe, cfg.args))
          /\ pc' = "runs"
       \/ /\ ~Opens(cfg.exe)
          /\ pc' = "refused"
          /\ UNCHANGED argv
    /\ UNCHANGED <<config, wire, cfg, job, written, answer, output>>

\* The target has ended; its output, which are bytes, goes into the last line.
Answer ==
    /\ pc = "runs"
    /\ ~config.native
    /\ \E s \in Outputs :
         /\ written' = s
         /\ answer' = quote(s)
    /\ pc' = "answered"
    /\ UNCHANGED <<config, wire, cfg, job, argv, output>>

\* _resolve_target_output: json.loads of the bytes decodes them first, and an
\* exception is logged and dropped.
ResolveOutput ==
    /\ pc = "answered"
    /\ output' = IF IsText(answer) THEN loads(answer) ELSE None
    /\ pc' = "resolved"
    /\ UNCHANGED <<config, wire, cfg, job, argv, written, answer>>

Next == Validate \/ Write \/ Parse \/ ApplyLimits \/ SetLimits \/ Create \/ Answer
        \/ ResolveOutput

Spec == Init /\ [][Next]_vars

-----------------------------------------------------------------------------
(* Properties                                                              *)

\* The characters that parse_str and to_wide let through unharmed.
Plain(s) == \A i \in 1..Len(s) : s[i] \notin {"NUL", "BS", "FF"}

\* The target finds in argv what the caller has put into args: spaces,
\* quotes, runs of backslashes, empty strings and all.
ArgvSurvives ==
    argv # None /\ (\A i \in DOMAIN config.args : Plain(config.args[i])) =>
        argv = <<config.exe>> \o config.args

\* The job's limits are those that were asked for, in a container and
\* natively, unless the memory limit is beyond SIZE_T: the cap that was
\* asked for, or the floor where that is higher, and as many bytes.
LimitsAsAsked ==
    pc \in {"create", "runs", "answered", "resolved"}
        /\ 1 <= config.min /\ config.min <= 100 /\ 1 <= config.max /\ config.max <= 100 =>
        /\ config.skipCpu => job.cpu = NoCpu
        /\ ~config.skipCpu =>
             /\ config.modern => Floor(job.cpu) = 100 * config.min
             /\ Cap(job.cpu) = 100 * (IF config.modern THEN AtLeast(config.min, config.max)
                                                       ELSE config.max)
        /\ config.mb = None => job.memory = 0
        /\ config.mb # None /\ 0 < config.mb /\ config.mb * MiB < SizeT =>
             job.memory = config.mb * MiB

\* The host's last line is one line, whatever the bytes that the target has
\* written, and target_output is what they are in UTF-8.  Of bytes that are
\* not UTF-8 everything is lost, and nothing is made up.
OutputArrives ==
    /\ answer # None => ~Contains(answer, "LF")
    /\ pc = "resolved" => output = IF IsText(written) THEN written ELSE None
=============================================================================
