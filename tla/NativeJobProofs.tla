-------------------------- MODULE NativeJobProofs ---------------------------
(***************************************************************************)
(* Theorems about NativeJob, for every set of configurations and exit      *)
(* codes.  CallInv says in which order the targets live, what the job is   *)
(* at each step, and who still holds a handle; the properties follow.      *)
(***************************************************************************)
EXTENDS NativeJob, TLAPS

\* An attempt that has not been launched.
Fresh(i) ==
    /\ proc[i].st = "none"
    /\ ~proc[i].ran
    /\ obj[i] = [handle |-> "none", thread |-> "none", hosted |-> FALSE, returncode |-> None]

\* The cleanup of the first target goes on to the second launch.
Retrying == call.pc \in {"kill", "wait"} /\ call.then = "launch"

\* The second attempt begins when the first has ended.
OneAtATime ==
    /\ call.att = 1 => Fresh(2)
    /\ call.att = 2 => ~Live(1)
    /\ At("launch") => Fresh(call.att)
    /\ At("stub") \/ Retrying => call.att = 1
    /\ call.pc \in {"wait", "teardown", "raised"} => ~Live(call.att)

\* The job that a target may run in.
Ready == job.st = "open" /\ job.kill /\ job.limits = cfg.limits

\* What has become of the job at each step.
JobAtStep ==
    /\ At("launch") => IF call.att = 1 THEN job.st = "none" ELSE Ready
    /\ At("limit") => job.st = "open"
    /\ call.pc \in {"add", "stub", "resume"} \/ Retrying => Ready
    /\ At("ok") => job.kill /\ job.limits = cfg.limits
    /\ call.pc \in {"resume", "ok"} => proc[call.att].inJob
    /\ At("raised") => job.st # "open"

\* A native target executes only once the call has returned.
RunsWhenReturned ==
    ~cfg.container => \A i \in Attempts :
        /\ proc[i].st = "running" \/ proc[i].ran => At("ok") /\ i = call.att
        /\ proc[i].st = "running" => job.st = "open"

\* Only the target at hand has handles, and not beyond its cleanup.
HandlesHeld ==
    ~call.cut => \A i \in Attempts :
        obj[i].handle = "open" \/ obj[i].thread = "open" =>
            i = call.att /\ call.pc \notin {"launch", "teardown", "raised"}

CallInv ==
    /\ TypeOK
    /\ OneAtATime
    /\ JobAtStep
    /\ RunsWhenReturned
    /\ HandlesHeld
    /\ ~WaitMayFail => ReturncodeIsReal

-----------------------------------------------------------------------------
(* Lemmas about the helpers.                                               *)

\* Going to a step changes nothing else of the call.
LEMMA GotoFacts ==
    ASSUME call \in Call,
           NEW step \in {"launch", "create", "limit", "add", "stub", "kill", "wait",
                         "resume", "teardown", "ok", "raised"},
           Goto(step)
    PROVE  /\ call' \in Call
           /\ call'.pc = step /\ call'.att = call.att
           /\ call'.then = call.then /\ call'.cut = call.cut
BY DEF Goto, Call

LEMMA DoomFacts ==
    ASSUME call \in Call, NEW then \in {"launch", "teardown"}, Doom(then)
    PROVE  /\ call' \in Call
           /\ call'.pc = "kill" /\ call'.att = call.att
           /\ call'.then = then /\ call'.cut = call.cut
BY DEF Doom, Call

\* The end of a cleanup: on to what it was for.
LEMMA GaveUpFacts ==
    ASSUME call \in Call, NEW gaveUp \in BOOLEAN,
           call' = [call EXCEPT !.pc = call.then, !.cut = gaveUp,
                                !.att = IF call.then = "launch" THEN 2 ELSE @]
    PROVE  /\ call' \in Call
           /\ call'.pc = call.then /\ call'.then = call.then /\ call'.cut = gaveUp
           /\ call'.att = IF call.then = "launch" THEN 2 ELSE call.att
<1>1. call.then \in {"launch", "teardown"} /\ call.att \in Attempts /\ 2 \in Attempts
  BY DEF Call, Attempts
<1>2. CASE call.then = "launch"
  BY <1>1, <1>2 DEF Call
<1>3. CASE call.then = "teardown"
  BY <1>1, <1>3 DEF Call
<1> QED
  BY <1>1, <1>2, <1>3

\* No process comes to life, and what has ended stays as it is.
Declines ==
    \A i \in Attempts :
        /\ proc'[i].inJob = proc[i].inJob /\ proc'[i].ran = proc[i].ran
        /\ proc'[i].st \in {"suspended", "running"} => proc'[i].st = proc[i].st
        /\ proc[i].st = "none" => proc'[i].st = "none"
        /\ proc[i].st = "dead" => proc'[i] = proc[i]

LEMMA EndedFacts ==
    ASSUME NEW p \in Process, NEW c \in {0, 1}
    PROVE  /\ Ended(p, c) \in Process
           /\ Ended(p, c).st \notin {"suspended", "running"}
           /\ Ended(p, c).inJob = p.inJob /\ Ended(p, c).ran = p.ran
           /\ p.st \in {"none", "dead"} => Ended(p, c) = p
BY DEF Ended, Process

\* Ending one process is a decline.
LEMMA EndOneFacts ==
    ASSUME TypeOK, NEW i \in Attempts, NEW c \in {0, 1},
           proc' = [proc EXCEPT ![i] = Ended(@, c)]
    PROVE  /\ proc' \in [Attempts -> Process] /\ Declines
           /\ proc'[i].st \notin {"suspended", "running"}
<1>1. proc \in [Attempts -> Process] /\ proc[i] \in Process
  BY DEF TypeOK
<1>2. proc' \in [Attempts -> Process]
  BY <1>1, EndedFacts
<1>3. \A k \in Attempts : proc'[k] = IF k = i THEN Ended(proc[i], c) ELSE proc[k]
  BY <1>1
<1> QED
  BY <1>1, <1>2, <1>3, EndedFacts DEF Declines

\* Closing the job is a decline, and ends whoever may run in it.
LEMMA CloseJobFacts ==
    ASSUME TypeOK, NEW terminated \in BOOLEAN, CloseJob(terminated)
    PROVE  /\ proc' \in [Attempts -> Process] /\ Declines
           /\ job' \in JobState /\ job'.st # "open"
           /\ job'.kill = job.kill /\ job'.limits = job.limits
           /\ \A i \in Attempts : job.st = "open" /\ job.kill /\ proc[i].inJob => ~Live(i)'
<1>1. /\ job' \in JobState /\ job'.st # "open"
      /\ job'.kill = job.kill /\ job'.limits = job.limits
  BY DEF CloseJob, TypeOK, JobState
<1>2. \A i \in Attempts : proc[i] \in Process
  BY DEF TypeOK
<1>3. PICK c \in {0, 1} :
          proc' = [i \in Attempts |->
              IF job.st = "open" /\ proc[i].inJob /\ (terminated \/ job.kill)
              THEN Ended(proc[i], c) ELSE proc[i]]
  <2>1. CASE terminated
    BY <2>1 DEF CloseJob
  <2>2. CASE ~terminated
    BY <2>2 DEF CloseJob
  <2> QED
    BY <2>1, <2>2
<1>4. proc' \in [Attempts -> Process]
  BY <1>2, <1>3, EndedFacts
<1>5. Declines
  BY <1>2, <1>3, EndedFacts DEF Declines
<1>6. \A i \in Attempts : job.st = "open" /\ job.kill /\ proc[i].inJob => ~Live(i)'
  BY <1>2, <1>3, EndedFacts DEF Live
<1> QED
  BY <1>1, <1>4, <1>5, <1>6

\* A released object is an object, without an open handle.
LEMMA ReleasedFacts ==
    ASSUME NEW o \in Object, NEW code \in Codes \cup {0, 1, STILL_ACTIVE, None}
    PROVE  /\ Released(o, code) \in Object
           /\ Released(o, code).handle # "open" /\ Released(o, code).thread # "open"
           /\ Released(o, code).returncode = code
BY DEF Released, Object

\* wait() touches the object of one process only, which it releases, and when
\* waiting cannot fail, only after the process has ended.
LEMMA WaitedFacts ==
    ASSUME TypeOK, NEW i \in Attempts, NEW seen \in BOOLEAN, Waited(i, seen)
    PROVE  /\ obj' \in [Attempts -> Object]
           /\ \A k \in Attempts : k # i => obj'[k] = obj[k]
           /\ seen \/ obj' # obj => obj'[i].handle # "open" /\ obj'[i].thread # "open"
           /\ ~WaitMayFail /\ obj' # obj =>
                  proc[i].st = "dead" /\ obj'[i].returncode = proc[i].code
<1>1. obj[i] \in Object /\ proc[i].code \in Codes \cup {0, 1, None}
  BY DEF TypeOK, Process
<1>2. CASE UNCHANGED obj /\ ~seen
  BY <1>2 DEF TypeOK
<1>3. ASSUME NEW code \in Codes \cup {0, 1, STILL_ACTIVE, None},
             obj' = [obj EXCEPT ![i] = Released(@, code)]
      PROVE  /\ obj' \in [Attempts -> Object]
             /\ \A k \in Attempts : k # i => obj'[k] = obj[k]
             /\ obj'[i].handle # "open" /\ obj'[i].thread # "open"
             /\ obj'[i].returncode = code
  BY <1>1, <1>3, ReleasedFacts DEF TypeOK
<1>4. CASE seen /\ proc[i].st = "dead" /\ obj' = [obj EXCEPT ![i] = Released(@, proc[i].code)]
  BY <1>1, <1>3, <1>4
<1>5. CASE seen /\ WaitMayFail /\ obj' = [obj EXCEPT ![i] = Released(@, STILL_ACTIVE)]
  BY <1>3, <1>5
<1> QED
  BY <1>2, <1>4, <1>5 DEF Waited

-----------------------------------------------------------------------------
(* The invariant.                                                          *)

LEMMA InitContains ==
    Init => CallInv
<1> SUFFICES ASSUME Init PROVE CallInv
  OBVIOUS
<1>1. TypeOK
  <2>1. call \in Call /\ job \in JobState
    BY DEF Init, Call, JobState, Attempts
  <2>2. proc \in [Attempts -> Process]
    BY DEF Init, Process
  <2>3. obj \in [Attempts -> Object]
    BY DEF Init, Object
  <2> QED
    BY <2>1, <2>2, <2>3 DEF Init, TypeOK
<1>2. OneAtATime
  BY DEF Init, OneAtATime, Fresh, Live, Retrying, At, Attempts
<1>3. JobAtStep
  BY DEF Init, JobAtStep, Retrying, At
<1>4. RunsWhenReturned /\ HandlesHeld /\ ReturncodeIsReal
  BY DEF Init, RunsWhenReturned, HandlesHeld, ReturncodeIsReal
<1> QED
  BY <1>1, <1>2, <1>3, <1>4 DEF CallInv

\* Processes that only end disturb no return code.
LEMMA DeclineKeepsCodes ==
    ASSUME ~WaitMayFail => ReturncodeIsReal, Declines, obj' = obj
    PROVE  ~WaitMayFail => ReturncodeIsReal'
BY DEF Declines, ReturncodeIsReal

\* An attempt is launched.
LEMMA LaunchContains ==
    ASSUME CallInv, Launch
    PROVE  CallInv'
<1> USE DEF CallInv
<1> DEFINE i == call.att
           c == cfg.container
<1>1. i \in Attempts /\ c \in BOOLEAN /\ Fresh(i) /\ At("launch")
  BY ConfigAssumption DEF Launch, TypeOK, Call, Config, OneAtATime
<1>2. /\ call' \in Call /\ call'.pc = (IF i = 1 THEN "create" ELSE "add")
      /\ call'.att = i /\ call'.then = call.then /\ call'.cut = call.cut
  BY GotoFacts DEF Launch, TypeOK
<1>3. /\ proc' \in [Attempts -> Process]
      /\ proc'[i] = [proc[i] EXCEPT !.st = IF c THEN "running" ELSE "suspended", !.ran = c]
      /\ \A k \in Attempts : k # i => proc'[k] = proc[k]
  <2>1. proc[i] \in Process /\ proc \in [Attempts -> Process]
    BY <1>1 DEF TypeOK
  <2>2. proc' = [proc EXCEPT ![i] =
            [proc[i] EXCEPT !.st = IF c THEN "running" ELSE "suspended", !.ran = c]]
    BY DEF Launch
  <2>3. [proc[i] EXCEPT !.st = IF c THEN "running" ELSE "suspended", !.ran = c] \in Process
    BY <1>1, <2>1 DEF Process
  <2> QED
    BY <1>1, <2>1, <2>2, <2>3
<1>4. /\ obj' \in [Attempts -> Object]
      /\ obj'[i].returncode = None
      /\ \A k \in Attempts : k # i => obj'[k] = obj[k]
  BY <1>1 DEF Launch, TypeOK, Object, Fresh
<1>5. TypeOK'
  BY <1>2, <1>3, <1>4 DEF Launch, TypeOK
<1>6. OneAtATime'
  BY <1>1, <1>2, <1>3, <1>4 DEF OneAtATime, Fresh, Live, Retrying, At, Attempts
<1>7. JobAtStep'
  BY <1>1, <1>2 DEF Launch, JobAtStep, Ready, Retrying, At, Attempts
<1>8. RunsWhenReturned'
  BY <1>1, <1>2, <1>3 DEF Launch, RunsWhenReturned, At, Fresh, Process
<1>9. HandlesHeld'
  BY <1>1, <1>2, <1>4 DEF HandlesHeld, At, Attempts
<1>10. ~WaitMayFail => ReturncodeIsReal'
  BY <1>3, <1>4 DEF ReturncodeIsReal
<1> QED
  BY <1>5, <1>6, <1>7, <1>8, <1>9, <1>10

\* The steps before the assignment, and the launch that fails.
LEMMA SetUpContains ==
    ASSUME CallInv, LaunchFails \/ Create \/ ApplyLimits
    PROVE  CallInv'
<1> USE DEF CallInv
<1>1. call \in Call /\ call.att \in Attempts /\ job \in JobState
  BY DEF TypeOK, Call
<1>2. CASE LaunchFails
  <2>1. /\ call' \in Call
        /\ call'.pc = (IF call.att = 1 THEN "raised" ELSE "teardown")
        /\ call'.att = call.att /\ call'.then = call.then /\ call'.cut = call.cut
    BY <1>1, <1>2, GotoFacts DEF LaunchFails
  <2>2. TypeOK'
    BY <1>2, <2>1 DEF LaunchFails, TypeOK
  <2>3. OneAtATime' /\ JobAtStep'
    BY <1>1, <1>2, <2>1
    DEF LaunchFails, OneAtATime, JobAtStep, Ready, Fresh, Live, Retrying, At
  <2>4. RunsWhenReturned' /\ HandlesHeld' /\ (~WaitMayFail => ReturncodeIsReal')
    BY <1>2, <2>1
    DEF LaunchFails, RunsWhenReturned, HandlesHeld, ReturncodeIsReal, At
  <2> QED
    BY <2>2, <2>3, <2>4
<1>3. CASE Create \/ ApplyLimits
  <2>1. /\ call.pc \in {"create", "limit"}
        /\ proc' = proc /\ obj' = obj /\ cfg' = cfg
    BY <1>3 DEF Create, ApplyLimits, At
  <2>2. /\ call' \in Call /\ call'.att = call.att /\ call'.cut = call.cut
        /\ \/ call'.pc = "limit" /\ job'.st = "open"
           \/ call'.pc = "add" /\ Ready'
           \/ call'.pc = "kill" /\ call'.then = "teardown"
    BY <1>1, <1>3, <2>1, GotoFacts, DoomFacts
    DEF Create, ApplyLimits, Ready, JobAtStep, JobState
  <2>3. job' \in JobState
    BY <1>1, <1>3, ConfigAssumption DEF Create, ApplyLimits, JobState, TypeOK, Config
  <2>4. TypeOK'
    BY <2>1, <2>2, <2>3 DEF TypeOK
  <2>5. OneAtATime' /\ JobAtStep'
    BY <2>1, <2>2 DEF OneAtATime, JobAtStep, Fresh, Live, Retrying, At
  <2>6. RunsWhenReturned' /\ HandlesHeld' /\ (~WaitMayFail => ReturncodeIsReal')
    BY <2>1, <2>2 DEF RunsWhenReturned, HandlesHeld, ReturncodeIsReal, At
  <2> QED
    BY <2>4, <2>5, <2>6
<1> QED
  BY <1>2, <1>3

\* The assignment.
LEMMA AddContains ==
    ASSUME CallInv, Add
    PROVE  CallInv'
<1> USE DEF CallInv
<1> DEFINE i == call.att
<1>1. call \in Call /\ i \in Attempts /\ call.pc = "add" /\ Ready
  BY DEF Add, TypeOK, Call, At, JobAtStep
<1>2. CASE /\ Live(i)
           /\ proc' = [proc EXCEPT ![i].inJob = TRUE]
           /\ Goto(IF cfg.container THEN "ok" ELSE "resume")
           /\ UNCHANGED <<cfg, obj, job>>
  <2>1. /\ call' \in Call /\ call'.pc = (IF cfg.container THEN "ok" ELSE "resume")
        /\ call'.att = i /\ call'.cut = call.cut
    BY <1>1, <1>2, GotoFacts
  <2>2. /\ proc' \in [Attempts -> Process]
        /\ proc'[i].inJob
        /\ \A k \in Attempts : /\ proc'[k].st = proc[k].st /\ proc'[k].ran = proc[k].ran
                               /\ proc'[k].code = proc[k].code
    BY <1>1, <1>2 DEF TypeOK, Process
  <2>3. TypeOK'
    BY <1>2, <2>1, <2>2 DEF TypeOK
  <2>4. OneAtATime' /\ JobAtStep'
    BY <1>1, <1>2, <2>1, <2>2
    DEF OneAtATime, JobAtStep, Ready, Fresh, Live, Retrying, At, Attempts
  <2>5. RunsWhenReturned' /\ HandlesHeld' /\ (~WaitMayFail => ReturncodeIsReal')
    BY <1>1, <1>2, <2>1, <2>2 DEF RunsWhenReturned, HandlesHeld, ReturncodeIsReal, At
  <2> QED
    BY <2>3, <2>4, <2>5
<1>3. CASE Denied \/ (Doom("teardown") /\ UNCHANGED <<cfg, proc, obj, job>>)
  <2>1. /\ call' \in Call /\ call'.att = i /\ call'.cut = call.cut
        /\ \/ call'.pc = "stub" /\ i = 1
           \/ call'.pc = "kill" /\ call'.then = "teardown"
        /\ UNCHANGED <<cfg, proc, obj, job>>
    BY <1>1, <1>3, GotoFacts, DoomFacts DEF Denied
  <2>2. TypeOK'
    BY <2>1 DEF TypeOK
  <2>3. OneAtATime' /\ JobAtStep'
    BY <1>1, <2>1 DEF OneAtATime, JobAtStep, Ready, Fresh, Live, Retrying, At
  <2>4. RunsWhenReturned' /\ HandlesHeld' /\ (~WaitMayFail => ReturncodeIsReal')
    BY <1>1, <2>1 DEF RunsWhenReturned, HandlesHeld, ReturncodeIsReal, At
  <2> QED
    BY <2>2, <2>3, <2>4
<1> QED
  BY <1>2, <1>3 DEF Add

\* The cleanup of a target, up to its wait.
LEMMA CleanupContains ==
    ASSUME CallInv, Stub \/ Kill \/ Wait
    PROVE  CallInv'
<1> USE DEF CallInv
<1> DEFINE i == call.att
<1>1. call \in Call /\ i \in Attempts /\ i \in {1, 2}
  BY DEF TypeOK, Call, Attempts
<1>2. CASE Stub
  <2>1. /\ call' \in Call /\ call'.pc = "kill" /\ call'.then = "launch"
        /\ call'.att = i /\ call'.cut = call.cut
    BY <1>1, <1>2, DoomFacts DEF Stub
  <2>2. proc' \in [Attempts -> Process] /\ Declines
    <3>1. CASE UNCHANGED proc
      BY <3>1 DEF TypeOK, Declines
    <3>2. CASE proc' = [proc EXCEPT ![i] = Ended(@, 0)]
      BY <1>1, <3>2, EndOneFacts
    <3> QED
      BY <1>2, <3>1, <3>2 DEF Stub
  <2>3. /\ obj' \in [Attempts -> Object]
        /\ \A k \in Attempts : /\ obj'[k].handle = obj[k].handle
                               /\ obj'[k].thread = obj[k].thread
                               /\ obj'[k].returncode = obj[k].returncode
        /\ \A k \in Attempts : k # i => obj'[k] = obj[k]
    BY <1>1, <1>2 DEF Stub, TypeOK, Object
  <2>4. At("stub") /\ i = 1 /\ cfg' = cfg /\ job' = job
    BY <1>2 DEF Stub, OneAtATime
  <2>5. TypeOK'
    BY <2>1, <2>2, <2>3, <2>4 DEF TypeOK
  <2>6. OneAtATime' /\ JobAtStep'
    BY <2>1, <2>2, <2>3, <2>4
    DEF OneAtATime, JobAtStep, Ready, Fresh, Live, Retrying, At, Declines, Attempts
  <2>7. RunsWhenReturned' /\ HandlesHeld'
    BY <2>1, <2>2, <2>3, <2>4 DEF RunsWhenReturned, HandlesHeld, At, Declines
  <2>8. ~WaitMayFail => ReturncodeIsReal'
    BY <2>2, <2>3 DEF ReturncodeIsReal, Declines
  <2> QED
    BY <2>5, <2>6, <2>7, <2>8
<1>3. CASE Kill
  <2>1. At("kill") /\ cfg' = cfg /\ job' = job /\ obj' = obj
    BY <1>3 DEF Kill
  <2>2. /\ proc' \in [Attempts -> Process] /\ Declines
        /\ proc'[i].st \notin {"suspended", "running"}
    <3>1. proc' = [proc EXCEPT ![i] = Ended(@, 1)]
      BY <1>3 DEF Kill
    <3> QED
      BY <1>1, <3>1, EndOneFacts
  <2>3. /\ call' \in Call /\ call'.then = call.then
        /\ \/ call'.pc = "wait" /\ call'.att = i /\ call'.cut = call.cut
           \/ /\ call'.pc = call.then /\ call'.cut
              /\ call'.att = IF call.then = "launch" THEN 2 ELSE i
    <3>1. CASE Goto("wait")
      BY <1>1, <3>1, GotoFacts
    <3>2. CASE call' = [call EXCEPT !.pc = call.then, !.cut = TRUE,
                                    !.att = IF call.then = "launch" THEN 2 ELSE @]
      BY <1>1, <3>2, GaveUpFacts
    <3> QED
      BY <1>3, <3>1, <3>2 DEF Kill
  <2>4. TypeOK'
    BY <2>1, <2>2, <2>3 DEF TypeOK
  <2>5. call.then \in {"launch", "teardown"} /\ (call.then = "launch" => i = 1)
    BY <1>1, <2>1 DEF Call, OneAtATime, Retrying, At
  <2>6. OneAtATime'
    <3>1. /\ proc'[i].st \notin {"suspended", "running"}
          /\ i = 2 => proc'[1].st \notin {"suspended", "running"}
          /\ i = 1 => Fresh(2)'
      BY <1>1, <2>1, <2>2 DEF OneAtATime, Fresh, Live, Declines, Attempts
    <3>2. CASE call'.pc = "wait"
      BY <1>1, <2>3, <2>5, <3>1, <3>2 DEF OneAtATime, Live, Retrying, At
    <3>3. CASE call'.pc = "launch"
      BY <1>1, <2>3, <2>5, <3>1, <3>3 DEF OneAtATime, Live, Retrying, At
    <3>4. CASE call'.pc = "teardown"
      BY <1>1, <2>3, <2>5, <3>1, <3>4 DEF OneAtATime, Live, Retrying, At
    <3> QED
      BY <2>3, <2>5, <3>2, <3>3, <3>4
  <2>7. JobAtStep'
    BY <2>1, <2>3, <2>5 DEF JobAtStep, Ready, Retrying, At
  <2>8. RunsWhenReturned' /\ HandlesHeld'
    BY <2>1, <2>2, <2>3 DEF RunsWhenReturned, HandlesHeld, At, Declines
  <2> QED
    BY <2>1, <2>2, <2>4, <2>6, <2>7, <2>8, DeclineKeepsCodes
<1>4. CASE Wait
  <2>1. PICK seen \in BOOLEAN :
            /\ Waited(i, seen)
            /\ call' = [call EXCEPT !.pc = call.then, !.cut = @ \/ ~seen,
                                    !.att = IF call.then = "launch" THEN 2 ELSE @]
    BY <1>4 DEF Wait
  <2>2. At("wait") /\ cfg' = cfg /\ job' = job /\ proc' = proc
    BY <1>4 DEF Wait
  <2>3. /\ call' \in Call /\ call'.then = call.then /\ call'.pc = call.then
        /\ call'.cut = (call.cut \/ ~seen)
        /\ call'.att = IF call.then = "launch" THEN 2 ELSE i
    BY <1>1, <2>1, GaveUpFacts
  <2>4. /\ obj' \in [Attempts -> Object]
        /\ \A k \in Attempts : k # i => obj'[k] = obj[k]
        /\ seen \/ obj' # obj => obj'[i].handle # "open" /\ obj'[i].thread # "open"
        /\ ~WaitMayFail /\ obj' # obj =>
               proc[i].st = "dead" /\ obj'[i].returncode = proc[i].code
    BY <1>1, <2>1, WaitedFacts
  <2>5. TypeOK'
    BY <2>2, <2>3, <2>4 DEF TypeOK
  <2>6. call.then \in {"launch", "teardown"} /\ (call.then = "launch" => i = 1)
    BY <1>1, <2>2 DEF Call, OneAtATime, Retrying, At
  <2>7. OneAtATime'
    BY <1>1, <2>2, <2>3, <2>4, <2>6
    DEF OneAtATime, Fresh, Live, Retrying, At, Attempts
  <2>8. JobAtStep'
    BY <2>2, <2>3, <2>6 DEF JobAtStep, Ready, Retrying, At
  <2>9. RunsWhenReturned'
    BY <2>2, <2>3, <2>6 DEF RunsWhenReturned, At
  <2>10. HandlesHeld'
    BY <2>2, <2>3, <2>4 DEF HandlesHeld, At
  <2>11. ~WaitMayFail => ReturncodeIsReal'
    BY <1>1, <2>2, <2>4 DEF ReturncodeIsReal
  <2> QED
    BY <2>5, <2>7, <2>8, <2>9, <2>10, <2>11
<1> QED
  BY <1>2, <1>3, <1>4

\* The resumption, and the end of a call that raises.
LEMMA EndContains ==
    ASSUME CallInv, Resume \/ Teardown
    PROVE  CallInv'
<1> USE DEF CallInv
<1> DEFINE i == call.att
<1>1. call \in Call /\ i \in Attempts
  BY DEF TypeOK, Call
<1>2. CASE Resume
  <2>1. At("resume") /\ cfg' = cfg /\ job' = job /\ Ready /\ proc[i].inJob
    BY <1>2 DEF Resume, JobAtStep, At
  <2>2. /\ obj' \in [Attempts -> Object]
        /\ \A k \in Attempts : k # i => obj'[k] = obj[k]
        /\ obj'[i].returncode = obj[i].returncode
    BY <1>1, <1>2 DEF Resume, TypeOK, Object
  <2>3. CASE /\ proc[i].st = "suspended"
             /\ proc' = [proc EXCEPT ![i].st = "running", ![i].ran = TRUE]
             /\ Goto("ok")
    <3>1. /\ call' \in Call /\ call'.pc = "ok" /\ call'.att = i /\ call'.cut = call.cut
      BY <1>1, <2>3, GotoFacts
    <3>2. /\ proc' \in [Attempts -> Process]
          /\ proc'[i].inJob = proc[i].inJob
          /\ \A k \in Attempts : k # i => proc'[k] = proc[k]
      BY <1>1, <2>3 DEF TypeOK, Process
    <3>3. TypeOK'
      BY <2>1, <2>2, <3>1, <3>2 DEF TypeOK
    <3>4. OneAtATime' /\ JobAtStep'
      BY <1>1, <2>1, <2>2, <3>1, <3>2
      DEF OneAtATime, JobAtStep, Ready, Fresh, Live, Retrying, At, Attempts
    <3>5. RunsWhenReturned' /\ HandlesHeld'
      BY <1>1, <2>1, <2>2, <3>1, <3>2 DEF RunsWhenReturned, HandlesHeld, Ready, At
    <3>6. ~WaitMayFail => ReturncodeIsReal'
      BY <2>2, <2>3, <3>2 DEF ReturncodeIsReal
    <3> QED
      BY <3>3, <3>4, <3>5, <3>6
  <2>4. CASE Doom("teardown") /\ UNCHANGED proc
    <3>1. /\ call' \in Call /\ call'.pc = "kill" /\ call'.then = "teardown"
          /\ call'.att = i /\ call'.cut = call.cut
      BY <1>1, <2>4, DoomFacts
    <3>2. TypeOK'
      BY <2>1, <2>2, <2>4, <3>1 DEF TypeOK
    <3>3. OneAtATime' /\ JobAtStep'
      BY <1>1, <2>1, <2>2, <2>4, <3>1
      DEF OneAtATime, JobAtStep, Ready, Fresh, Live, Retrying, At, Attempts
    <3>4. RunsWhenReturned' /\ HandlesHeld'
      BY <1>1, <2>1, <2>2, <2>4, <3>1 DEF RunsWhenReturned, HandlesHeld, At
    <3>5. ~WaitMayFail => ReturncodeIsReal'
      BY <2>2, <2>4 DEF ReturncodeIsReal
    <3> QED
      BY <3>2, <3>3, <3>4, <3>5
  <2> QED
    BY <1>2, <2>3, <2>4 DEF Resume
<1>3. CASE Teardown
  <2>1. At("teardown") /\ cfg' = cfg /\ obj' = obj
    BY <1>3 DEF Teardown
  <2>2. /\ proc' \in [Attempts -> Process] /\ Declines
        /\ job' \in JobState /\ job'.st # "open"
    BY <1>3, CloseJobFacts DEF Teardown
  <2>3. /\ call' \in Call /\ call'.pc = "raised" /\ call'.att = i /\ call'.cut = call.cut
    BY <1>1, <1>3, GotoFacts DEF Teardown
  <2>4. TypeOK'
    BY <2>1, <2>2, <2>3 DEF TypeOK
  <2>5. OneAtATime' /\ JobAtStep'
    BY <1>1, <2>1, <2>2, <2>3
    DEF OneAtATime, JobAtStep, Fresh, Live, Retrying, At, Declines, Attempts
  <2>6. RunsWhenReturned' /\ HandlesHeld'
    BY <2>1, <2>2, <2>3 DEF RunsWhenReturned, HandlesHeld, At, Declines
  <2> QED
    BY <2>1, <2>2, <2>4, <2>5, <2>6, DeclineKeepsCodes
<1> QED
  BY <1>2, <1>3

\* Processes end, and nothing else happens.
LEMMA DeclineContains ==
    ASSUME CallInv, proc' \in [Attempts -> Process], Declines,
           UNCHANGED <<cfg, call, obj, job>>
    PROVE  CallInv'
<1> USE DEF CallInv
<1>1. TypeOK'
  BY DEF TypeOK
<1>2. OneAtATime' /\ JobAtStep'
  <2>1. call.att \in Attempts
    BY DEF TypeOK, Call
  <2> QED
    BY <2>1 DEF OneAtATime, JobAtStep, Ready, Fresh, Live, Retrying, At, Declines, Attempts
<1>3. RunsWhenReturned' /\ HandlesHeld'
  BY DEF RunsWhenReturned, HandlesHeld, At, Declines
<1> QED
  BY <1>1, <1>2, <1>3, DeclineKeepsCodes

\* What the caller does with the process and the job.
LEMMA CallerContains ==
    ASSUME CallInv, Caller
    PROVE  CallInv'
<1> USE DEF CallInv
<1> DEFINE i == call.att
<1>1. call \in Call /\ i \in Attempts
  BY DEF TypeOK, Call
<1>2. CASE Poll \/ CallerWaits
  <2>1. At("ok") /\ cfg' = cfg /\ call' = call /\ proc' = proc /\ job' = job
    BY <1>2 DEF Poll, CallerWaits
  <2>2. /\ obj' \in [Attempts -> Object]
        /\ \A k \in Attempts : k # i => obj'[k] = obj[k]
        /\ obj' # obj => obj'[i].handle # "open" /\ obj'[i].thread # "open"
        /\ ~WaitMayFail /\ obj' # obj =>
               proc[i].st = "dead" /\ obj'[i].returncode = proc[i].code
    <3>1. PICK seen \in BOOLEAN : Waited(i, seen)
      <4>1. CASE Poll
        BY <4>1 DEF Poll, Waited
      <4>2. CASE CallerWaits
        BY <4>2 DEF CallerWaits
      <4> QED
        BY <1>2, <4>1, <4>2
    <3> QED
      BY <1>1, <3>1, WaitedFacts
  <2>3. TypeOK'
    BY <2>1, <2>2 DEF TypeOK
  <2>4. OneAtATime' /\ JobAtStep'
    BY <1>1, <2>1, <2>2
    DEF OneAtATime, JobAtStep, Ready, Fresh, Live, Retrying, At, Attempts
  <2>5. RunsWhenReturned' /\ HandlesHeld'
    BY <1>1, <2>1, <2>2 DEF RunsWhenReturned, HandlesHeld, At
  <2>6. ~WaitMayFail => ReturncodeIsReal'
    BY <1>1, <2>1, <2>2 DEF ReturncodeIsReal
  <2> QED
    BY <2>3, <2>4, <2>5, <2>6
<1>3. CASE CallerTerminates
  <2>1. proc' = [proc EXCEPT ![i] = Ended(@, 1)] /\ UNCHANGED <<cfg, call, obj, job>>
    BY <1>3 DEF CallerTerminates
  <2>2. proc' \in [Attempts -> Process] /\ Declines
    BY <1>1, <2>1, EndOneFacts
  <2> QED
    BY <2>1, <2>2, DeclineContains
<1>4. CASE CallerClosesJob
  <2>1. At("ok") /\ cfg' = cfg /\ call' = call /\ obj' = obj
    BY <1>4 DEF CallerClosesJob
  <2>2. /\ proc' \in [Attempts -> Process] /\ Declines
        /\ job' \in JobState /\ job'.st # "open"
        /\ job'.kill = job.kill /\ job'.limits = job.limits
        /\ job.st = "open" /\ job.kill /\ proc[i].inJob =>
               proc'[i].st \notin {"suspended", "running"}
    <3>1. PICK terminated \in BOOLEAN : CloseJob(terminated)
      BY <1>4 DEF CallerClosesJob
    <3> QED
      BY <1>1, <3>1, CloseJobFacts DEF Live
  <2>3. TypeOK'
    BY <2>1, <2>2 DEF TypeOK
  <2>4. OneAtATime' /\ JobAtStep'
    BY <1>1, <2>1, <2>2
    DEF OneAtATime, JobAtStep, Fresh, Live, Retrying, At, Declines, Attempts
  <2>5. RunsWhenReturned'
    <3>1. job.kill /\ proc[i].inJob
      BY <2>1 DEF JobAtStep, At
    <3> QED
      BY <1>1, <2>1, <2>2, <3>1 DEF RunsWhenReturned, At, Declines
  <2>6. HandlesHeld'
    BY <2>1 DEF HandlesHeld
  <2> QED
    BY <2>1, <2>2, <2>3, <2>4, <2>5, <2>6, DeclineKeepsCodes
<1> QED
  BY <1>2, <1>3, <1>4 DEF Caller

\* The targets and their hosts.
LEMMA EnvironmentContains ==
    ASSUME CallInv, Environment
    PROVE  CallInv'
<1>1. TypeOK /\ UNCHANGED <<cfg, call, obj, job>>
  BY DEF CallInv, Environment, TargetExits, TargetDies, HostEnds
<1>2. proc' \in [Attempts -> Process] /\ Declines
  <2>1. CASE TargetExits
    <3>1. PICK i \in Attempts, c \in Codes :
              /\ proc[i].st = "running"
              /\ proc' = [proc EXCEPT ![i].st = "dead", ![i].code = c]
      BY <2>1 DEF TargetExits
    <3> QED
      BY <1>1, <3>1 DEF TypeOK, Process, Declines
  <2>2. CASE TargetDies
    <3>1. PICK i \in Attempts :
              proc[i].st = "dying" /\ proc' = [proc EXCEPT ![i].st = "dead"]
      BY <2>2 DEF TargetDies
    <3> QED
      BY <1>1, <3>1 DEF TypeOK, Process, Declines
  <2>3. CASE HostEnds
    <3>1. PICK i \in Attempts : proc' = [proc EXCEPT ![i] = Ended(@, 0)]
      BY <2>3 DEF HostEnds
    <3> QED
      BY <1>1, <3>1, EndOneFacts
  <2> QED
    BY <2>1, <2>2, <2>3 DEF Environment
<1> QED
  BY <1>1, <1>2, DeclineContains

\* Every behaviour of the call and its caller keeps the invariant.
THEOREM Invariance ==
    Spec => []CallInv
<1>1. CallInv /\ [Next]_vars => CallInv'
  <2> SUFFICES ASSUME CallInv, [Next]_vars PROVE CallInv'
    OBVIOUS
  <2>1. CASE Run
    BY <2>1, LaunchContains, SetUpContains, AddContains, CleanupContains, EndContains DEF Run
  <2>2. CASE Caller
    BY <2>2, CallerContains
  <2>3. CASE Environment
    BY <2>3, EnvironmentContains
  <2>4. CASE UNCHANGED vars
    <3>1. proc' \in [Attempts -> Process] /\ Declines
      BY <2>4 DEF vars, CallInv, TypeOK, Declines
    <3> QED
      BY <2>4, <3>1, DeclineContains DEF vars
  <2> QED
    BY <2>1, <2>2, <2>3, <2>4 DEF Next
<1> QED
  BY <1>1, InitContains, PTL DEF Spec

-----------------------------------------------------------------------------
(* What it implies.                                                        *)

\* Every variable has its type.
THEOREM Typing ==
    Spec => []TypeOK
<1>1. CallInv => TypeOK
  BY DEF CallInv
<1> QED
  BY <1>1, Invariance, PTL

\* "It can never execute uncapped": a native target executes only in the open,
\* limited, kill-on-close job of its call, whichever call of Windows fails.
THEOREM NativeIsCapped ==
    Spec => []NeverUncapped
<1>1. CallInv => NeverUncapped
  <2> SUFFICES ASSUME CallInv, NEW i \in Attempts, ~cfg.container, proc[i].st = "running"
               PROVE  proc[i].inJob /\ job = [st |-> "open", kill |-> TRUE, limits |-> cfg.limits]
    BY DEF NeverUncapped
  <2>1. At("ok") /\ i = call.att /\ job.st = "open"
    BY DEF CallInv, RunsWhenReturned
  <2>2. proc[i].inJob /\ job.kill /\ job.limits = cfg.limits
    BY <2>1 DEF CallInv, JobAtStep, At
  <2> QED
    BY <2>1, <2>2 DEF CallInv, TypeOK, JobState
<1> QED
  BY <1>1, Invariance, PTL

\* A call that raises leaves no target alive and no job open.
THEOREM RaiseIsClean ==
    Spec => []RaisedMeansGone
<1>1. CallInv => RaisedMeansGone
  BY DEF CallInv, TypeOK, Call, OneAtATime, JobAtStep, RaisedMeansGone, Fresh, Live, At, Attempts
<1> QED
  BY <1>1, Invariance, PTL

\* A call that raises has closed every handle, unless its cleanup was cut short.
THEOREM RaiseReleases ==
    Spec => []HandlesReleased
<1>1. CallInv => HandlesReleased
  BY DEF CallInv, HandlesHeld, HandlesReleased, At
<1> QED
  BY <1>1, Invariance, PTL

\* The retry never has two targets alive.
THEOREM OneTargetLives ==
    Spec => []OneLives
<1>1. CallInv => OneLives
  BY DEF CallInv, TypeOK, Call, OneAtATime, OneLives, Fresh, Live, Attempts
<1> QED
  BY <1>1, Invariance, PTL

\* Where WaitForSingleObject does not fail, a return code is that of a
\* process that has ended.
THEOREM ReturncodesAreReal ==
    ASSUME ~WaitMayFail
    PROVE  Spec => []ReturncodeIsReal
<1>1. CallInv => ReturncodeIsReal
  BY DEF CallInv
<1> QED
  BY <1>1, Invariance, PTL

\* Natively, a launch that is given up has executed nothing.
THEOREM NativeRunsOnce ==
    Spec => [](~cfg.container => RunsOnce)
<1>1. CallInv => (~cfg.container => RunsOnce)
  BY DEF CallInv, RunsWhenReturned, RunsOnce, Attempts
<1> QED
  BY <1>1, Invariance, PTL
=============================================================================
