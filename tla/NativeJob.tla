----------------------------- MODULE NativeJob ------------------------------
(***************************************************************************)
(* launch_suspended and run_under_job (process.py) with the two objects    *)
(* they return, SandboxProcess (sandbox_process.py) and WindowsJobObject   *)
(* (job.py): start a target, natively suspended or in a container where    *)
(* the host has resumed it already, put it into a job, start it once more  *)
(* with breakaway when the assignment is denied, resume it; and then what  *)
(* the caller does with both objects.                                      *)
(*                                                                         *)
(* A native target runs for this code alone.  A container's target is also *)
(* in the job of its host (HostLaunch) and goes when the host goes.        *)
(***************************************************************************)
EXTENDS Integers

CONSTANTS
    Containers,    \* sandbox_config is given: TRUE, FALSE, or either
    Codes,         \* exit codes of the target
    WaitMayFail,   \* WaitForSingleObject may return WAIT_FAILED
    None           \* no value

STILL_ACTIVE == 259    \* what GetExitCodeProcess says of a live process

ASSUME ConfigAssumption ==
    /\ Containers \subseteq BOOLEAN
    /\ Codes \subseteq Nat
    /\ WaitMayFail \in BOOLEAN
    /\ None \notin Nat

VARIABLES
    cfg,    \* the arguments that run_under_job tells apart
    call,   \* where the call has got to
    proc,   \* proc[i]: the target of the i-th attempt
    obj,    \* obj[i]: its SandboxProcess
    job     \* the WindowsJobObject and the job behind it

vars == <<cfg, call, proc, obj, job>>

\* The first launch and the one with breakaway.
Attempts == 1..2

Config == [container : Containers, limits : BOOLEAN]

\* then: what the cleanup of a target goes on to; cut: a kill() or wait()
\* was given up before it had seen the target's end.
Call == [pc : {"launch", "create", "limit", "add", "stub", "kill", "wait",
               "resume", "teardown", "ok", "raised"},
         att : Attempts, then : {"launch", "teardown"}, cut : BOOLEAN]

\* A dying process has been terminated and executes nothing any more; its
\* handle is not signalled yet.
Process == [st : {"none", "suspended", "running", "dying", "dead"},
            inJob : BOOLEAN, ran : BOOLEAN, code : Codes \cup {0, 1, None}]

Object == [handle : {"none", "open", "closed"}, thread : {"none", "open", "closed"},
           hosted : BOOLEAN, returncode : Codes \cup {0, 1, STILL_ACTIVE, None}]

JobState == [st : {"none", "open", "closed"}, kill : BOOLEAN, limits : BOOLEAN]

Live(i) == proc[i].st \in {"suspended", "running"}

\* Termination with code c: no news to a process that has ended.
Ended(p, c) ==
    IF p.st \in {"suspended", "running"} THEN [p EXCEPT !.st = "dying", !.code = c] ELSE p

Goto(step) == call' = [call EXCEPT !.pc = step]

At(step) == call.pc = step

\* The target is killed and waited for, and then?
Doom(then) == call' = [call EXCEPT !.pc = "kill", !.then = then]

Init ==
    /\ cfg \in Config
    /\ call = [pc |-> "launch", att |-> 1, then |-> "teardown", cut |-> FALSE]
    /\ proc = [i \in Attempts |-> [st |-> "none", inJob |-> FALSE, ran |-> FALSE, code |-> None]]
    /\ obj = [i \in Attempts |-> [handle |-> "none", thread |-> "none", hosted |-> FALSE,
                                  returncode |-> None]]
    /\ job = [st |-> "none", kill |-> FALSE, limits |-> FALSE]

-----------------------------------------------------------------------------
(* SandboxProcess.                                                         *)

\* Faulty: the thread handle of a target that was never resumed is forgotten.
ReleasedForgetsThread(o, code) ==
    [o EXCEPT !.handle = "closed", !.hosted = FALSE, !.returncode = code]

\* The exit code is noted and _close_handles lets everything go.
Released(o, code) ==
    [o EXCEPT !.handle = "closed", !.hosted = FALSE, !.returncode = code,
              !.thread = IF @ = "open" THEN "closed" ELSE @]

\* Faulty: the -1 of a timeout is kept as the exit code.
WaitedKeepsTimeout(i, seen) ==
    IF seen
    THEN /\ proc[i].st = "dead"
         /\ obj' = [obj EXCEPT ![i] = Released(@, proc[i].code)]
    ELSE obj' = [obj EXCEPT ![i].returncode = -1]

\* wait() has seen the end of the process, or has not: it has timed out, or
\* GetExitCodeProcess has failed and it raises.  A failed wait is not told
\* from a successful one, so that the end it sees need not have come.
Waited(i, seen) ==
    IF seen
    THEN \/ /\ proc[i].st = "dead"
            /\ obj' = [obj EXCEPT ![i] = Released(@, proc[i].code)]
         \/ /\ WaitMayFail
            /\ proc[i].st # "dead"
            /\ obj' = [obj EXCEPT ![i] = Released(@, STILL_ACTIVE)]
    ELSE UNCHANGED obj

-----------------------------------------------------------------------------
(* launch_suspended and run_under_job.                                     *)

\* launch_suspended: CreateProcessW with CREATE_SUSPENDED, or the container
\* path, which returns a process that its host has resumed.
Launch ==
    LET i == call.att
        c == cfg.container
    IN  /\ At("launch")
        /\ proc' = [proc EXCEPT ![i].st = IF c THEN "running" ELSE "suspended", ![i].ran = c]
        /\ obj' = [obj EXCEPT ![i].handle = "open", ![i].hosted = c,
                              ![i].thread = IF c THEN "none" ELSE "open"]
        /\ Goto(IF i = 1 THEN "create" ELSE "add")
        /\ UNCHANGED <<cfg, job>>

\* It raises: nothing has been left running (SandboxLifecycle).
LaunchFails ==
    /\ At("launch")
    /\ Goto(IF call.att = 1 THEN "raised" ELSE "teardown")
    /\ UNCHANGED <<cfg, proc, obj, job>>

\* WindowsJobObject.create, which refuses a name that exists.
Create ==
    /\ At("create")
    /\ \/ /\ job' = [job EXCEPT !.st = "open"]
          /\ Goto("limit")
       \/ /\ Doom("teardown")
          /\ UNCHANGED job
    /\ UNCHANGED <<cfg, proc, obj>>

\* The limits asked for, CPU first; each way ends with kill-on-close set.
ApplyLimits ==
    /\ At("limit")
    /\ \/ /\ job' = [job EXCEPT !.kill = TRUE, !.limits = cfg.limits]
          /\ Goto("add")
       \/ /\ Doom("teardown")
          /\ \E cpu \in {FALSE, cfg.limits} : job' = [job EXCEPT !.limits = cpu]
    /\ UNCHANGED <<cfg, proc, obj>>

\* Faulty: a second denial is answered with another launch as well.
DeniedForEver ==
    /\ call' = [call EXCEPT !.pc = "stub"]
    /\ UNCHANGED <<cfg, proc, obj, job>>

\* ERROR_ACCESS_DENIED on the first attempt asks for breakaway; on the
\* second it is a failure like any other.
Denied ==
    /\ IF call.att = 1 THEN Goto("stub") ELSE Doom("teardown")
    /\ UNCHANGED <<cfg, proc, obj, job>>

\* Faulty: the target of a failed assignment goes on as if it were assigned.
AddGoesOn ==
    /\ At("add")
    /\ \/ /\ Live(call.att)
          /\ proc' = [proc EXCEPT ![call.att].inJob = TRUE]
          /\ Goto(IF cfg.container THEN "ok" ELSE "resume")
          /\ UNCHANGED <<cfg, obj, job>>
       \/ Denied
       \/ /\ Goto(IF cfg.container THEN "ok" ELSE "resume")
          /\ UNCHANGED <<cfg, proc, obj, job>>

\* add_process: AssignProcessToJobObject works, is denied, or fails.  It
\* never works for a process that has ended.
Add ==
    /\ At("add")
    /\ \/ /\ Live(call.att)
          /\ proc' = [proc EXCEPT ![call.att].inJob = TRUE]
          /\ Goto(IF cfg.container THEN "ok" ELSE "resume")
          /\ UNCHANGED <<cfg, obj, job>>
       \/ Denied
       \/ /\ Doom("teardown")
          /\ UNCHANGED <<cfg, proc, obj, job>>

\* Faulty: the first target is not killed before the second is launched.
StubOnly ==
    /\ At("stub")
    /\ obj' = [obj EXCEPT ![call.att].hosted = FALSE]
    /\ call' = [call EXCEPT !.pc = "launch", !.att = 2]
    /\ UNCHANGED <<cfg, proc, job>>

\* Before the second attempt: the host of the first, if it has one, is told
\* to terminate, within 5 seconds or else by force, which takes its target
\* along, or that fails and is logged; the target is killed in any case.
Stub ==
    LET i == call.att
    IN  /\ At("stub")
        /\ obj' = [obj EXCEPT ![i].hosted = FALSE]
        /\ \/ /\ obj[i].hosted
              /\ proc' = [proc EXCEPT ![i] = Ended(@, 0)]
           \/ UNCHANGED proc
        /\ Doom("launch")
        /\ UNCHANGED <<cfg, job>>

\* process.kill(): TerminateProcess, then the host's terminate(), which
\* raises where asyncio.run may not be called: wait() is then left out.
Kill ==
    LET i == call.att
    IN  /\ At("kill")
        /\ proc' = [proc EXCEPT ![i] = Ended(@, 1)]
        /\ \/ Goto("wait")
           \/ /\ obj[i].hosted
              /\ call' = [call EXCEPT !.pc = call.then, !.cut = TRUE,
                                      !.att = IF call.then = "launch" THEN 2 ELSE @]
        /\ UNCHANGED <<cfg, obj, job>>

\* process.wait(), whose 10 seconds may be too short.
Wait ==
    /\ At("wait")
    /\ \E seen \in BOOLEAN :
          /\ Waited(call.att, seen)
          /\ call' = [call EXCEPT !.pc = call.then, !.cut = @ \/ ~seen,
                                  !.att = IF call.then = "launch" THEN 2 ELSE @]
    /\ UNCHANGED <<cfg, proc, job>>

\* Faulty: a target that cannot be resumed is left to the caller.
ResumeRaises ==
    LET i == call.att
    IN  /\ At("resume")
        /\ obj' = [obj EXCEPT ![i].thread = "closed"]
        /\ \/ /\ proc[i].st = "suspended"
              /\ proc' = [proc EXCEPT ![i].st = "running", ![i].ran = TRUE]
              /\ Goto("ok")
           \/ /\ Goto("raised")
              /\ UNCHANGED proc
        /\ UNCHANGED <<cfg, job>>

\* process.resume(), which closes the thread handle whatever ResumeThread says.
Resume ==
    LET i == call.att
    IN  /\ At("resume")
        /\ obj' = [obj EXCEPT ![i].thread = "closed"]
        /\ \/ /\ proc[i].st = "suspended"
              /\ proc' = [proc EXCEPT ![i].st = "running", ![i].ran = TRUE]
              /\ Goto("ok")
           \/ /\ Doom("teardown")
              /\ UNCHANGED proc
        /\ UNCHANGED <<cfg, job>>

\* The last handle of the job goes: TerminateJobObject, or kill-on-close, or
\* both have ended its members.
CloseJob(terminated) ==
    /\ job' = IF job.st = "open" THEN [job EXCEPT !.st = "closed"] ELSE job
    /\ proc' = [i \in Attempts |->
           IF job.st = "open" /\ proc[i].inJob /\ (terminated \/ job.kill)
           THEN Ended(proc[i], IF terminated THEN 1 ELSE 0) ELSE proc[i]]

\* job_object.teardown(), whose own errors are swallowed; then the exception.
Teardown ==
    /\ At("teardown")
    /\ \E terminated \in BOOLEAN : CloseJob(terminated)
    /\ Goto("raised")
    /\ UNCHANGED <<cfg, obj>>

Run == Launch \/ LaunchFails \/ Create \/ ApplyLimits \/ Add \/ Stub \/ Kill
       \/ Wait \/ Resume \/ Teardown

-----------------------------------------------------------------------------
(* What the caller does with the process and the job that it was given.    *)

\* Faulty: what GetExitCodeProcess says is believed.
PollTrusts ==
    LET i == call.att
    IN  /\ At("ok")
        /\ obj[i].handle = "open"
        /\ obj' = [obj EXCEPT ![i] =
               Released(@, IF proc[i].st = "dead" THEN proc[i].code ELSE STILL_ACTIVE)]
        /\ UNCHANGED <<cfg, call, proc, job>>

\* poll() that finds the process ended: a 259 is believed only when the
\* handle is signalled.  Otherwise it changes nothing.
Poll ==
    LET i == call.att
    IN  /\ At("ok")
        /\ obj[i].handle = "open"
        /\ proc[i].st = "dead"
        /\ obj' = [obj EXCEPT ![i] = Released(@, proc[i].code)]
        /\ UNCHANGED <<cfg, call, proc, job>>

CallerWaits ==
    /\ At("ok")
    /\ obj[call.att].handle = "open"
    /\ \E seen \in BOOLEAN : Waited(call.att, seen)
    /\ UNCHANGED <<cfg, call, proc, job>>

\* terminate() or kill().
CallerTerminates ==
    /\ At("ok")
    /\ obj[call.att].handle = "open"
    /\ proc' = [proc EXCEPT ![call.att] = Ended(@, 1)]
    /\ UNCHANGED <<cfg, call, obj, job>>

\* teardown(), or close(), or the last reference goes and __del__ runs.
CallerClosesJob ==
    /\ At("ok")
    /\ \E terminated \in BOOLEAN : CloseJob(terminated)
    /\ UNCHANGED <<cfg, call, obj>>

Caller == Poll \/ CallerWaits \/ CallerTerminates \/ CallerClosesJob

-----------------------------------------------------------------------------
(* The targets.                                                            *)

TargetExits ==
    /\ \E i \in Attempts, c \in Codes :
          /\ proc[i].st = "running"
          /\ proc' = [proc EXCEPT ![i].st = "dead", ![i].code = c]
    /\ UNCHANGED <<cfg, call, obj, job>>

\* A terminated process is through with it.
TargetDies ==
    /\ \E i \in Attempts :
          /\ proc[i].st = "dying"
          /\ proc' = [proc EXCEPT ![i].st = "dead"]
    /\ UNCHANGED <<cfg, call, obj, job>>

\* The host of a container's target ends, and its job with it.
HostEnds ==
    /\ cfg.container
    /\ \E i \in Attempts : proc' = [proc EXCEPT ![i] = Ended(@, 0)]
    /\ UNCHANGED <<cfg, call, obj, job>>

Environment == TargetExits \/ TargetDies \/ HostEnds

Next == Run \/ Caller \/ Environment

Spec == Init /\ [][Next]_vars

\* No call of run_under_job waits without a bound, except for the host's
\* terminate(), which always answers (SandboxLifecycle).  Nothing makes the
\* caller or the target do anything.
Fairness == WF_vars(Run)

FairSpec == Spec /\ Fairness

-----------------------------------------------------------------------------
(* Properties                                                              *)

\* Every variable has its type.
TypeOK ==
    /\ cfg \in Config
    /\ call \in Call
    /\ proc \in [Attempts -> Process]
    /\ obj \in [Attempts -> Object]
    /\ job \in JobState

\* "The process must not run before the Job Object limits are applied and it
\* is assigned, so it can never execute uncapped": a native target executes
\* only in a job that is open, has the limits that were asked for and takes
\* the target along when it is dropped.
NeverUncapped ==
    \A i \in Attempts : ~cfg.container /\ proc[i].st = "running" =>
        proc[i].inJob /\ job = [st |-> "open", kill |-> TRUE, limits |-> cfg.limits]

\* "There is no unsandboxed fallback": when run_under_job raises, at whatever
\* step, no target of it lives on and no job is open.
RaisedMeansGone ==
    At("raised") => job.st # "open" /\ \A i \in Attempts : ~Live(i)

\* When it raises, every handle of either target has been closed, unless a
\* kill or a wait was given up.
HandlesReleased ==
    At("raised") /\ ~call.cut =>
        \A i \in Attempts : obj[i].handle # "open" /\ obj[i].thread # "open"

\* The retry never has two targets alive.
OneLives == \A i, j \in Attempts : Live(i) /\ Live(j) => i = j

\* A return code is that of a process that has ended.  poll() takes care not
\* to "risk a false exit report" when "the wait itself failed".
ReturncodeIsReal ==
    \A i \in Attempts : obj[i].returncode # None =>
        proc[i].st = "dead" /\ proc[i].code = obj[i].returncode

\* "Retries once", and "kill while still suspended": the target of a launch
\* that is given up has executed nothing, so that no target executes twice.
RunsOnce == ~(proc[1].ran /\ proc[2].ran)

\* run_under_job returns or raises: the retry does not go round and round.
CallEnds == At("create") ~> call.pc \in {"ok", "raised"}
=============================================================================
