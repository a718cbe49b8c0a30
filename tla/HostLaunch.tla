----------------------------- MODULE HostLaunch -----------------------------
(***************************************************************************)
(* One run of sandbox_host as run_launch (src/wincage/src/main.cpp) goes   *)
(* through it: prepare the container, create the target suspended, put it  *)
(* into a job with its limits, let it go, hand its handle to the parent    *)
(* process, and wait for the target's exit or the parent's death; with the *)
(* watchdog thread (watchdog.cpp), the job object (job.cpp), the named     *)
(* event (event.cpp) and the thread that reads the target's output.        *)
(*                                                                         *)
(* Every Windows call may fail where the code has a branch for it, and the *)
(* host may be killed before any step (sandbox.py kills it when the        *)
(* handshake takes too long, and in terminate()).                          *)
(***************************************************************************)
EXTENDS Integers, Sequences

CONSTANTS
    Captures,     \* values of capture_target_stdout to consider
    Breakaways,   \* values of breakaway to consider
    Codes,        \* exit codes of the target
    None          \* no value

STILL_ACTIVE == 259     \* what GetExitCodeProcess says of a live process

ASSUME ConfigAssumption ==
    /\ Captures \subseteq BOOLEAN
    /\ Breakaways \subseteq BOOLEAN
    /\ Codes \subseteq Nat

VARIABLES
    cfg,      \* the launch configuration
    host,     \* the thread of run_launch
    target,   \* target[i]: the i-th process created for the launch
    heir,     \* a process that the target started
    job,      \* the job object
    dog,      \* the watchdog and the event it sets
    reader,   \* the thread that reads the target's output
    evt,      \* the named event that Python waits for
    out,      \* what the host has written to its stdout
    parent    \* the parent process is alive

vars == <<cfg, host, target, heir, job, dog, reader, evt, out, parent>>

\* run_launch creates the target once, and once more after a denied assignment.
Attempts == 1..2

Steps == {"prepare", "pipe", "event", "create", "job", "limits", "assign",
          "recreate", "reassign", "resume", "handover", "report", "watch",
          "wait", "stop", "join", "direct", "code", "close", "drain",
          "answer", "signal", "return"}

Over == {"exited", "killed"}

NoProcess == [st |-> "none", inJob |-> FALSE, code |-> None]

HostState == [pc : Steps \cup Over, cur : Attempts, writeEnd : BOOLEAN,
              woke : {None, "child", "parent", "failed"},
              got : Codes \cup {0, STILL_ACTIVE, None}]

Process == [st : {"none", "suspended", "running", "dead"},
            inJob : BOOLEAN, code : Codes \cup {0, None}]

HeirState == [st : {"none", "running", "dead"}, pipe : BOOLEAN]

JobState == [st : {"none", "open", "closed"}, kill : BOOLEAN, limits : BOOLEAN]

DogState == [usable : BOOLEAN, thread : {"none", "watching", "ended", "failed"},
             cancel : BOOLEAN, done : {"none", "clear", "set", "closed"}]

Message == [stage : {"error", "started", "exited"},
            code : Codes \cup {0, STILL_ACTIVE, None}, running : BOOLEAN]

Say(stage, code, running) ==
    out' = Append(out, [stage |-> stage, code |-> code, running |-> running])

Goto(step) == host' = [host EXCEPT !.pc = step]

At(step) == host.pc = step

\* The process that pi refers to.
Current == target[host.cur]

Live(i) == target[i].st \in {"suspended", "running"}

\* Faulty: the exit code of SandboxProcess.terminate.
KilledWithOne(p) == [p EXCEPT !.st = "dead", !.code = 1]

\* TerminateProcess(pi.hProcess, 0)
Killed(p) == [p EXCEPT !.st = "dead", !.code = 0]

Init ==
    /\ cfg \in [capture : Captures, breakaway : Breakaways]
    /\ host = [pc |-> "prepare", cur |-> 1, writeEnd |-> FALSE,
               woke |-> None, got |-> None]
    /\ target = [i \in Attempts |-> NoProcess]
    /\ heir = [st |-> "none", pipe |-> FALSE]
    /\ job = [st |-> "none", kill |-> FALSE, limits |-> FALSE]
    /\ dog = [usable |-> FALSE, thread |-> "none", cancel |-> FALSE, done |-> "none"]
    /\ reader = "none"
    /\ evt = "none"
    /\ out = <<>>
    /\ parent = TRUE

-----------------------------------------------------------------------------
(* Leaving run_launch.                                                     *)

\* ~JobObject: the last handle of a kill-on-close job takes its members along.
CloseJob(processes) ==
    /\ job' = IF job.st = "open" THEN [job EXCEPT !.st = "closed"] ELSE job
    /\ target' = [i \in Attempts |->
           IF job.st = "open" /\ job.kill /\ processes[i].inJob /\ processes[i].st # "dead"
             THEN Killed(processes[i]) ELSE processes[i]]
    /\ heir' = IF job.st = "open" /\ job.kill /\ heir.st = "running"
                 THEN [heir EXCEPT !.st = "dead"] ELSE heir

\* A failed step before "started": kill_process if there is one, close the
\* handles, report the error, return 1.
Abort ==
    /\ CloseJob([i \in Attempts |-> IF i = host.cur /\ Live(i)
                                      THEN Killed(target[i]) ELSE target[i]])
    /\ host' = [host EXCEPT !.pc = "exited", !.writeEnd = FALSE]
    /\ Say("error", None, FALSE)
    /\ UNCHANGED <<cfg, dog, reader, evt, parent>>

\* The host process dies where it stands; Windows closes its handles.
Kill ==
    /\ host.pc \notin Over
    /\ CloseJob(target)
    /\ host' = [host EXCEPT !.pc = "killed", !.writeEnd = FALSE]
    /\ dog' = [dog EXCEPT !.thread = IF @ = "watching" THEN "ended" ELSE @]
    /\ reader' = IF reader = "reading" THEN "ended" ELSE reader
    /\ UNCHANGED <<cfg, evt, out, parent>>

-----------------------------------------------------------------------------
(* Up to "started".                                                        *)

\* provision, grant_window_station and the broker_files loop.
Prepare ==
    /\ At("prepare")
    /\ \/ Goto("pipe") /\ UNCHANGED <<target, heir, job, out>>
       \/ Abort
    /\ UNCHANGED <<cfg, dog, reader, evt, parent>>

\* The pipe for the target's output; its write end is inheritable.
OpenPipe ==
    /\ At("pipe")
    /\ \/ /\ host' = [host EXCEPT !.pc = "event", !.writeEnd = cfg.capture]
          /\ UNCHANGED <<target, heir, job, out>>
       \/ cfg.capture /\ Abort
    /\ UNCHANGED <<cfg, dog, reader, evt, parent>>

CreateEvent ==
    /\ At("event")
    /\ \/ /\ evt' = "open"
          /\ Goto("create")
          /\ UNCHANGED <<cfg, target, heir, job, dog, reader, out, parent>>
       \/ Abort

\* create_sandboxed: CreateProcessW with CREATE_SUSPENDED.
CreateTarget ==
    /\ At("create") \/ At("recreate")
    /\ \/ /\ target' = [target EXCEPT ![host.cur].st = "suspended"]
          /\ Goto(IF At("create") THEN "job" ELSE "reassign")
          /\ UNCHANGED <<cfg, heir, job, dog, reader, evt, out, parent>>
       \/ Abort

\* JobObject::create: kill-on-close before anything is in the job.
CreateJob ==
    /\ At("job")
    /\ \/ /\ job' = [st |-> "open", kill |-> TRUE, limits |-> FALSE]
          /\ Goto("limits")
          /\ UNCHANGED <<cfg, target, heir, dog, reader, evt, out, parent>>
       \/ Abort

\* Faulty: the memory limit replaces the flags that create() has set.
ApplyLimitsDropsKill ==
    /\ At("limits")
    /\ \/ /\ job' = [job EXCEPT !.limits = TRUE, !.kill = FALSE]
          /\ Goto("assign")
          /\ UNCHANGED <<cfg, target, heir, dog, reader, evt, out, parent>>
       \/ Abort

\* JobObject::apply_limits.  The memory limit replaces the whole structure
\* and repeats the kill-on-close flag.
ApplyLimits ==
    /\ At("limits")
    /\ \/ /\ job' = [job EXCEPT !.limits = TRUE, !.kill = TRUE]
          /\ Goto("assign")
          /\ UNCHANGED <<cfg, target, heir, dog, reader, evt, out, parent>>
       \/ Abort

\* Faulty: the retry forgets the process that was denied.
AssignLeavesFirst ==
    /\ At("assign") \/ At("reassign")
    /\ \/ /\ target' = [target EXCEPT ![host.cur].inJob = TRUE]
          /\ Goto("resume")
          /\ UNCHANGED <<cfg, heir, job, dog, reader, evt, out, parent>>
       \/ /\ At("assign") /\ ~cfg.breakaway
          /\ host' = [host EXCEPT !.pc = "recreate", !.cur = 2]
          /\ UNCHANGED <<cfg, target, heir, job, dog, reader, evt, out, parent>>
       \/ Abort

\* JobObject::assign; when it is denied, and the target was not created with
\* CREATE_BREAKAWAY_FROM_JOB yet, the target is created anew that way.
Assign ==
    /\ At("assign") \/ At("reassign")
    /\ \/ /\ target' = [target EXCEPT ![host.cur].inJob = TRUE]
          /\ Goto("resume")
          /\ UNCHANGED <<cfg, heir, job, dog, reader, evt, out, parent>>
       \/ /\ At("assign") /\ ~cfg.breakaway
          /\ target' = [target EXCEPT ![host.cur] = Killed(Current)]
          /\ host' = [host EXCEPT !.pc = "recreate", !.cur = 2]
          /\ UNCHANGED <<cfg, heir, job, dog, reader, evt, out, parent>>
       \/ Abort

\* close_inherit_handles and ResumeThread.
Resume ==
    /\ At("resume")
    /\ \/ /\ target' = [target EXCEPT ![host.cur].st = "running"]
          /\ host' = [host EXCEPT !.pc = "handover", !.writeEnd = FALSE]
          /\ UNCHANGED <<cfg, heir, job, dog, reader, evt, out, parent>>
       \/ Abort

\* DuplicateHandle of the target into the parent, which has to be alive.
Handover ==
    /\ At("handover")
    /\ \/ /\ parent
          /\ Goto("report")
          /\ UNCHANGED <<cfg, target, heir, job, dog, reader, evt, out, parent>>
       \/ Abort

Report ==
    /\ At("report")
    /\ Say("started", None, FALSE)
    /\ Goto("watch")
    /\ UNCHANGED <<cfg, target, heir, job, dog, reader, evt, parent>>

-----------------------------------------------------------------------------
(* Waiting.                                                                *)

\* OpenProcess(parent), CreateEventW(done_event), the Watchdog with its own
\* cancel event, and the reader thread.  The thread does not start without
\* a cancel event, though the watchdog counts as usable then.
SetUp ==
    /\ At("watch")
    /\ \E opened, made, cancellable \in BOOLEAN :
          dog' = [ usable |-> opened /\ made,
                   thread |-> IF opened /\ made /\ cancellable THEN "watching" ELSE "none",
                   cancel |-> FALSE,
                   done   |-> IF made THEN "clear" ELSE "none" ]
    /\ reader' = IF cfg.capture THEN "reading" ELSE "none"
    /\ Goto("wait")
    /\ UNCHANGED <<cfg, target, heir, job, evt, out, parent>>

\* Faulty: bWaitAll is TRUE.
WaitForAll ==
    /\ At("wait")
    /\ Current.st = "dead"
    /\ dog.usable => dog.done = "set"
    /\ host' = [host EXCEPT !.pc = "stop", !.woke = "child"]
    /\ UNCHANGED <<cfg, target, heir, job, dog, reader, evt, out, parent>>

\* WaitForMultipleObjects names the child first when both are signalled.
Wait ==
    /\ At("wait")
    /\ \E woke \in {"child", "parent"} :
          /\ woke = "child"  => Current.st = "dead"
          /\ woke = "parent" => Current.st # "dead" /\ dog.usable /\ dog.done = "set"
          /\ host' = [host EXCEPT !.pc = "stop", !.woke = woke]
    /\ UNCHANGED <<cfg, target, heir, job, dog, reader, evt, out, parent>>

\* A failed wait is made good after the watchdog is stopped.
WaitFails ==
    /\ At("wait")
    /\ dog.usable
    /\ host' = [host EXCEPT !.pc = "stop", !.woke = "failed"]
    /\ UNCHANGED <<cfg, target, heir, job, dog, reader, evt, out, parent>>

\* Watchdog::stop sets the cancel event ...
Stop ==
    /\ At("stop")
    /\ dog' = [dog EXCEPT !.cancel = TRUE]
    /\ Goto("join")
    /\ UNCHANGED <<cfg, target, heir, job, reader, evt, out, parent>>

\* Faulty: the thread is told to stop and not waited for.
JoinDetaches ==
    /\ At("join")
    /\ Goto(IF host.woke = "failed" THEN "direct" ELSE "code")
    /\ UNCHANGED <<cfg, target, heir, job, dog, reader, evt, out, parent>>

\* ... and joins the thread.
Join ==
    /\ At("join")
    /\ dog.thread # "watching"
    /\ Goto(IF host.woke = "failed" THEN "direct" ELSE "code")
    /\ UNCHANGED <<cfg, target, heir, job, dog, reader, evt, out, parent>>

\* The direct wait after a failed one.
DirectWait ==
    /\ At("direct")
    /\ Current.st = "dead"
    /\ host' = [host EXCEPT !.pc = "code", !.woke = "child"]
    /\ UNCHANGED <<cfg, target, heir, job, dog, reader, evt, out, parent>>

\* GetExitCodeProcess; None when it fails.
ReadCode ==
    /\ At("code")
    /\ \E got \in {None, IF Current.st = "dead" THEN Current.code ELSE STILL_ACTIVE} :
          host' = [host EXCEPT !.pc = "close", !.got = got]
    /\ UNCHANGED <<cfg, target, heir, job, dog, reader, evt, out, parent>>

CloseDone ==
    /\ At("close")
    /\ dog' = [dog EXCEPT !.done = IF @ = "none" THEN @ ELSE "closed"]
    /\ Goto("drain")
    /\ UNCHANGED <<cfg, target, heir, job, reader, evt, out, parent>>

\* target_output_thread.join()
Drain ==
    /\ At("drain")
    /\ cfg.capture => reader = "ended"
    /\ Goto("answer")
    /\ UNCHANGED <<cfg, target, heir, job, dog, reader, evt, out, parent>>

\* Faulty: 259 is passed on as an exit code like any other.
AnswerUnflagged ==
    /\ At("answer")
    /\ IF host.got = None THEN Say("error", None, FALSE)
                              ELSE Say("exited", host.got, FALSE)
    /\ Goto("signal")
    /\ UNCHANGED <<cfg, target, heir, job, dog, reader, evt, parent>>

\* The final line: the exit code, with a note when it is 259 only because
\* the parent died before the target; or the error that there is none.
Answer ==
    /\ At("answer")
    /\ IF host.got = None
         THEN Say("error", None, FALSE)
         ELSE Say("exited", host.got, host.woke = "parent" /\ host.got = STILL_ACTIVE)
    /\ Goto("signal")
    /\ UNCHANGED <<cfg, target, heir, job, dog, reader, evt, parent>>

\* Faulty: a failed GetExitCodeProcess returns without signalling.
SignalOnlyOnSuccess ==
    /\ At("signal")
    /\ evt' = IF host.got = None THEN evt ELSE "signalled"
    /\ Goto("return")
    /\ UNCHANGED <<cfg, target, heir, job, dog, reader, out, parent>>

\* SandboxEvent::signal
Signal ==
    /\ At("signal")
    /\ evt' = "signalled"
    /\ Goto("return")
    /\ UNCHANGED <<cfg, target, heir, job, dog, reader, out, parent>>

\* Faulty: a host that returns leaves its job object open.
ReturnKeepsJob ==
    /\ At("return")
    /\ Goto("exited")
    /\ UNCHANGED <<cfg, target, heir, job, dog, reader, evt, out, parent>>

\* The destructors at the end of run_launch.
Return ==
    /\ At("return")
    /\ CloseJob(target)
    /\ Goto("exited")
    /\ UNCHANGED <<cfg, dog, reader, evt, out, parent>>

Run ==
    \/ Prepare \/ OpenPipe \/ CreateEvent \/ CreateTarget \/ CreateJob
    \/ ApplyLimits \/ Assign \/ Resume \/ Handover \/ Report \/ SetUp
    \/ Wait \/ Stop \/ Join \/ DirectWait \/ ReadCode \/ CloseDone
    \/ Drain \/ Answer \/ Signal \/ Return

-----------------------------------------------------------------------------
(* Around the thread of run_launch.                                        *)

\* Faulty: the indices of the two handles are mixed up.
MonitorLoopSwapped ==
    /\ dog.thread = "watching"
    /\ \/ /\ ~parent
          /\ dog' = [dog EXCEPT !.thread = "ended"]
       \/ /\ parent /\ dog.cancel
          /\ dog' = [dog EXCEPT !.thread = "ended",
                                !.done = IF @ = "clear" THEN "set" ELSE @]
    /\ UNCHANGED <<cfg, host, target, heir, job, reader, evt, out, parent>>

\* Watchdog::monitor_loop: the parent's handle or the cancel event, the
\* parent's first when both are signalled.
MonitorLoop ==
    /\ dog.thread = "watching"
    /\ \/ /\ ~parent
          /\ dog' = [dog EXCEPT !.thread = "ended",
                                !.done = IF @ = "clear" THEN "set" ELSE @]
       \/ /\ parent /\ dog.cancel
          /\ dog' = [dog EXCEPT !.thread = "ended"]
    /\ UNCHANGED <<cfg, host, target, heir, job, reader, evt, out, parent>>

\* WAIT_FAILED says nothing of the parent.
MonitorFails ==
    /\ dog.thread = "watching"
    /\ dog' = [dog EXCEPT !.thread = "failed"]
    /\ UNCHANGED <<cfg, host, target, heir, job, reader, evt, out, parent>>

\* ReadFile fails once nobody holds the pipe's write end.
ReaderEnds ==
    /\ reader = "reading"
    /\ ~host.writeEnd
    /\ \A i \in Attempts : ~Live(i)
    /\ ~(heir.st = "running" /\ heir.pipe)
    /\ reader' = "ended"
    /\ UNCHANGED <<cfg, host, target, heir, job, dog, evt, out, parent>>

TargetExits ==
    /\ \E i \in Attempts, c \in Codes :
          /\ target[i].st = "running"
          /\ target' = [target EXCEPT ![i].st = "dead", ![i].code = c]
    /\ UNCHANGED <<cfg, host, heir, job, dog, reader, evt, out, parent>>

\* The target starts a process of its own, which is in its job, and lets it
\* inherit its output or not.
TargetSpawns ==
    /\ \E i \in Attempts : target[i].st = "running"
    /\ heir.st = "none"
    /\ \E pipe \in {FALSE, cfg.capture} : heir' = [st |-> "running", pipe |-> pipe]
    /\ UNCHANGED <<cfg, host, target, job, dog, reader, evt, out, parent>>

HeirExits ==
    /\ heir.st = "running"
    /\ heir' = [heir EXCEPT !.st = "dead"]
    /\ UNCHANGED <<cfg, host, target, job, dog, reader, evt, out, parent>>

ParentDies ==
    /\ parent
    /\ parent' = FALSE
    /\ UNCHANGED <<cfg, host, target, heir, job, dog, reader, evt, out>>

Environment == TargetExits \/ TargetSpawns \/ HeirExits \/ ParentDies

Next == Run \/ WaitFails \/ Kill \/ MonitorLoop \/ MonitorFails
        \/ ReaderEnds \/ Environment

Spec == Init /\ [][Next]_vars

\* The host's threads run when they can.  Nothing makes the target exit, the
\* parent die, a wait fail or anybody kill the host.
Fairness == WF_vars(Run) /\ WF_vars(MonitorLoop) /\ WF_vars(ReaderEnds)

FairSpec == Spec /\ Fairness

-----------------------------------------------------------------------------
(* Properties                                                              *)

\* Every variable has its type.
TypeOK ==
    /\ cfg \in [capture : Captures, breakaway : Breakaways]
    /\ host \in HostState
    /\ target \in [Attempts -> Process]
    /\ heir \in HeirState
    /\ job \in JobState
    /\ dog \in DogState
    /\ reader \in {"none", "reading", "ended"}
    /\ evt \in {"none", "open", "signalled"}
    /\ out \in Seq(Message)
    /\ parent \in BOOLEAN

\* Nothing of the target runs an instruction outside a job that is open, has
\* the limits and dies with its last handle ("the process can never run
\* outside its caps once resumed", main.cpp).
NeverUncapped ==
    (\E i \in Attempts : target[i].st = "running") \/ heir.st = "running" =>
        /\ job = [st |-> "open", kill |-> TRUE, limits |-> TRUE]
        /\ \A i \in Attempts : target[i].st = "running" => target[i].inJob

\* A host that returns, however early, leaves no process behind; one that is
\* killed leaves at most a target that has never run.
NothingLeftBehind ==
    /\ host.pc = "exited" => \A i \in Attempts : ~Live(i)
    /\ host.pc \in Over => /\ \A i \in Attempts : target[i].st # "running"
                           /\ heir.st # "running"

\* There is at most one live target, also across the breakaway retry.
OneTarget == \A i, j \in Attempts : Live(i) /\ Live(j) => i = j

\* Once "started" is out, every way in which run_launch returns has signalled
\* the event and written one final line, so that no watcher hangs on it.
StartedIsAnswered ==
    host.pc = "exited" /\ out # <<>> /\ Head(out).stage = "started" =>
        evt = "signalled" /\ Len(out) = 2

\* An exit code that is reported without the note is that of a target that
\* has exited: STILL_ACTIVE is never passed off as one.
ReportedCodeIsReal ==
    \A k \in 1..Len(out) :
        out[k].stage = "exited" /\ ~out[k].running =>
            Current.st = "dead" /\ Current.code = out[k].code

\* The watchdog thread never sets an event that has been closed under it.
EventOutlivesWatchdog == dog.thread = "watching" => dog.done \in {"clear", "set"}

\* When the parent dies under a watchdog, nothing of the target runs on,
\* except where a WaitForMultipleObjects has failed: the watchdog's own, or
\* that of the host, who is then down to waiting for the target alone.  With
\* capture the host may be held up in the join of its reader instead.
ParentDeathEndsTarget ==
    ~cfg.capture /\ dog.thread = "watching" /\ ~parent ~>
        \/ host.pc \in Over /\ heir.st # "running"
                           /\ \A i \in Attempts : target[i].st # "running"
        \/ At("direct") \/ dog.thread = "failed"

\* When the target has exited, the host ends too, whichever step it has got
\* to, unless a process that the target has left behind holds its output.
HostFollowsTargetUnlessHeld ==
    host.pc \notin Over /\ Current.st = "dead" ~>
        host.pc \in Over \/ (heir.st = "running" /\ heir.pipe)

\* The same without the exception: "this join then blocks until the target
\* exits or writes enough for ReadFile to return".
HostFollowsTarget ==
    host.pc = "wait" /\ Current.st = "dead" ~> host.pc \in Over
=============================================================================
