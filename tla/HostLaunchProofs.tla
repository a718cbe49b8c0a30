-------------------------- MODULE HostLaunchProofs --------------------------
(***************************************************************************)
(* Proofs about one run of the host: whatever fails and whenever the host  *)
(* is killed, the target is contained, and for every set of configurations *)
(* and of exit codes.                                                      *)
(***************************************************************************)
EXTENDS HostLaunch, SequenceTheorems, TLAPS

\* The steps before there is a job, with a job, with a limited one, and those
\* in which the target is on the loose.
NoJob   == {"prepare", "pipe", "event", "create", "job"}
HasJob  == Steps \ NoJob
Limited == HasJob \ {"limits"}
Free    == {"handover", "report", "watch", "wait", "stop", "join", "direct",
            "code", "close", "drain", "answer", "signal", "return"}

\* What run_launch has seen to by the time it is at a step.
Contained ==
    /\ host.pc \in NoJob => job.st = "none"
    /\ host.pc \in HasJob => job.st = "open" /\ job.kill
    /\ host.pc \in Limited => job.limits
    /\ host.pc \in NoJob \cup {"limits", "assign"} => host.cur = 1
    /\ host.pc \in Free \cup {"resume"} => Current.inJob
    /\ \A i \in Attempts : Live(i) => i = host.cur /\ host.pc # "exited"
    /\ \A i \in Attempts : target[i].st = "running" => host.pc \in Free
    /\ heir.st = "running" => host.pc \in Free

\* The watchdog's thread runs between its start and its join only.
Watched ==
    dog.thread = "watching" =>
        host.pc \in {"wait", "stop", "join"} /\ dog.done \in {"clear", "set"}

LaunchInv == TypeOK /\ Contained /\ Watched

-----------------------------------------------------------------------------
(* Leaving run_launch.                                                     *)

\* Killing a process makes it a dead one and nothing else.
LEMMA KilledFacts ==
    ASSUME NEW p \in Process
    PROVE  /\ Killed(p) \in Process
           /\ Killed(p).st = "dead" /\ Killed(p).inJob = p.inJob
BY DEF Killed, Process

\* Closing the job kills the members it has, and touches no other process.
LEMMA CloseJobFacts ==
    ASSUME TypeOK, NEW p \in [Attempts -> Process], CloseJob(p)
    PROVE  /\ target' \in [Attempts -> Process]
           /\ job' \in JobState
           /\ job'.st # "open"
           /\ heir' \in HeirState
           /\ heir'.st = "running" => heir.st = "running" /\ ~(job.st = "open" /\ job.kill)
           /\ \A i \in Attempts :
                 target'[i].st \in {"suspended", "running"} =>
                     /\ target'[i].st = p[i].st
                     /\ ~(job.st = "open" /\ job.kill /\ p[i].inJob)
<1>1. \A i \in Attempts : p[i] \in Process
  OBVIOUS
<1>2. \A i \in Attempts :
         target'[i] = IF job.st = "open" /\ job.kill /\ p[i].inJob /\ p[i].st # "dead"
                        THEN Killed(p[i]) ELSE p[i]
  BY DEF CloseJob
<1>3. target' \in [Attempts -> Process]
  BY <1>1, KilledFacts DEF CloseJob
<1>4. \A i \in Attempts :
         target'[i].st \in {"suspended", "running"} =>
             /\ target'[i].st = p[i].st
             /\ ~(job.st = "open" /\ job.kill /\ p[i].inJob)
  BY <1>1, <1>2, KilledFacts
<1>5. /\ job' \in JobState
      /\ job'.st # "open"
  BY DEF CloseJob, TypeOK, JobState
<1>6. /\ heir' \in HeirState
      /\ heir'.st = "running" => heir.st = "running" /\ ~(job.st = "open" /\ job.kill)
  BY DEF CloseJob, TypeOK, HeirState
<1> QED
  BY <1>3, <1>4, <1>5, <1>6

\* A line of the host is a message.
LEMMA SayFacts ==
    ASSUME out \in Seq(Message), NEW stage \in {"error", "started", "exited"},
           NEW code \in Codes \cup {0, STILL_ACTIVE, None}, NEW running \in BOOLEAN,
           Say(stage, code, running)
    PROVE  out' \in Seq(Message)
BY DEF Say, Message

\* A launch that is given up leaves nothing alive.
LEMMA AbortContains ==
    ASSUME LaunchInv, Abort,
           host.pc \in NoJob \cup {"limits", "assign", "recreate", "reassign",
                                   "resume", "handover"}
    PROVE  LaunchInv'
<1> USE DEF LaunchInv
<1> DEFINE p == [i \in Attempts |-> IF i = host.cur /\ Live(i)
                                      THEN Killed(target[i]) ELSE target[i]]
<1>1. target \in [Attempts -> Process]
  BY DEF TypeOK
<1>2. p \in [Attempts -> Process] /\ CloseJob(p)
  BY <1>1, KilledFacts DEF Abort
<1>3. \A i \in Attempts : p[i].st \notin {"suspended", "running"}
  BY <1>1, KilledFacts DEF Contained, Live
<1> HIDE DEF p
<1>4. \A i \in Attempts : target'[i].st \notin {"suspended", "running"}
  BY <1>2, <1>3, CloseJobFacts
<1>5. host' = [host EXCEPT !.pc = "exited", !.writeEnd = FALSE]
  BY DEF Abort
<1>6. host'.pc = "exited" /\ host'.cur = host.cur
  BY <1>5 DEF TypeOK, HostState
<1>7. heir'.st # "running"
  BY <1>2, CloseJobFacts DEF Contained, NoJob, HasJob, Steps, Free
<1>8. TypeOK'
  <2>1. out' \in Seq(Message)
    BY SayFacts DEF Abort, TypeOK
  <2>2. host' \in HostState
    BY <1>5 DEF TypeOK, HostState, Over
  <2> QED
    BY <1>2, <2>1, <2>2, CloseJobFacts DEF TypeOK, Abort
<1>9. Contained'
  BY <1>4, <1>6, <1>7 DEF Contained, Live, NoJob, HasJob, Limited, Free, Steps
<1>10. Watched'
  BY DEF Watched, Abort, NoJob
<1> QED
  BY <1>8, <1>9, <1>10

\* A host that is killed takes along what it has let go.
LEMMA KillContains ==
    ASSUME LaunchInv, Kill
    PROVE  LaunchInv'
<1> USE DEF LaunchInv
<1>1. target \in [Attempts -> Process] /\ CloseJob(target)
  BY DEF TypeOK, Kill
<1>2. host' = [host EXCEPT !.pc = "killed", !.writeEnd = FALSE]
  BY DEF Kill
<1>3. host'.pc = "killed" /\ host'.cur = host.cur
  BY <1>2 DEF TypeOK, HostState
<1>4. \A i \in Attempts : target'[i].st # "running"
  BY <1>1, CloseJobFacts DEF Contained, Free, Steps, HasJob, NoJob, Live, Current
<1>5. \A i \in Attempts : target'[i].st = "suspended" => i = host.cur
  BY <1>1, CloseJobFacts DEF Contained, Live
<1>6. heir'.st # "running"
  BY <1>1, CloseJobFacts DEF Contained, Free, Steps, HasJob, NoJob
<1>7. TypeOK'
  <2>1. dog' \in DogState
    BY DEF Kill, TypeOK, DogState
  <2>2. host' \in HostState
    BY <1>2 DEF TypeOK, HostState, Over
  <2> QED
    BY <1>1, <2>1, <2>2, CloseJobFacts DEF TypeOK, Kill
<1>8. Contained'
  BY <1>3, <1>4, <1>5, <1>6 DEF Contained, Live, NoJob, HasJob, Limited, Free, Steps
<1>9. Watched'
  BY DEF Watched, Kill, TypeOK, DogState
<1> QED
  BY <1>7, <1>8, <1>9
-----------------------------------------------------------------------------
(* Every step.                                                             *)

\* Going to a step changes nothing else of the host.
LEMMA GotoFacts ==
    ASSUME host \in HostState, NEW step \in Steps \cup Over, Goto(step)
    PROVE  host' \in HostState /\ host'.pc = step /\ host'.cur = host.cur
BY DEF Goto, HostState

\* Steps that leave processes and the job alone keep them contained.
LEMMA SkipContains ==
    ASSUME LaunchInv, UNCHANGED <<target, heir, job>>,
           host'.cur = host.cur,
           \/ host.pc \in Free /\ host'.pc \in Free
           \/ host.pc \in NoJob /\ host'.pc \in NoJob
    PROVE  Contained'
BY DEF LaunchInv, Contained, Live, Current, Free, NoJob, HasJob, Limited, Steps

\* The initial state.
LEMMA InitContains ==
    Init => LaunchInv
<1> SUFFICES ASSUME Init PROVE LaunchInv
  OBVIOUS
<1>1. TypeOK
  <2>1. host \in HostState
    BY DEF Init, HostState, Steps, Attempts
  <2>2. target \in [Attempts -> Process]
    BY DEF Init, Process, NoProcess
  <2> QED
    BY <2>1, <2>2 DEF Init, TypeOK, HeirState, JobState, DogState
<1>2. Contained
  BY DEF Init, Contained, Live, Current, Free, NoJob, HasJob, Limited, Steps, NoProcess,
         Attempts
<1>3. Watched
  BY DEF Init, Watched
<1> QED
  BY <1>1, <1>2, <1>3 DEF LaunchInv

\* The steps before "started".
LEMMA SetUpContains ==
    ASSUME LaunchInv,
           \/ Prepare \/ OpenPipe \/ CreateEvent \/ CreateTarget \/ CreateJob
           \/ ApplyLimits \/ Assign \/ Resume \/ Handover \/ Report
    PROVE  LaunchInv'
<1> USE DEF LaunchInv
<1>1. CASE Prepare
  <2>1. CASE Abort
    BY <1>1, <2>1, AbortContains DEF Prepare, At, NoJob
  <2>2. CASE Goto("pipe") /\ UNCHANGED <<target, heir, job, out>>
    <3>1. TypeOK'
      BY <1>1, <2>2 DEF Prepare, Goto, TypeOK, Steps, HostState
    <3>2. Contained'
      BY <1>1, <2>2, SkipContains DEF Prepare, Goto, At, NoJob, TypeOK, HostState
    <3>3. Watched'
      BY <1>1, <2>2 DEF Prepare, At, Watched
    <3> QED
      BY <3>1, <3>2, <3>3
  <2> QED
    BY <1>1, <2>1, <2>2 DEF Prepare
<1>2. CASE OpenPipe
  <2>1. CASE Abort
    BY <1>2, <2>1, AbortContains DEF OpenPipe, At, NoJob
  <2>2. CASE /\ host' = [host EXCEPT !.pc = "event", !.writeEnd = cfg.capture]
             /\ UNCHANGED <<target, heir, job, out>>
    <3>1. cfg.capture \in BOOLEAN
      BY ConfigAssumption DEF TypeOK
    <3>2. TypeOK'
      BY <1>2, <2>2, <3>1 DEF OpenPipe, TypeOK, Steps, HostState
    <3>3. Contained'
      BY <1>2, <2>2, SkipContains DEF OpenPipe, At, NoJob, TypeOK, HostState
    <3>4. Watched'
      BY <1>2, <2>2 DEF OpenPipe, At, Watched
    <3> QED
      BY <3>2, <3>3, <3>4
  <2> QED
    BY <1>2, <2>1, <2>2 DEF OpenPipe
<1>3. CASE CreateEvent
  <2>1. CASE Abort
    BY <1>3, <2>1, AbortContains DEF CreateEvent, At, NoJob
  <2>2. CASE ~Abort
    <3>1. TypeOK'
      BY <1>3, <2>2 DEF CreateEvent, Goto, TypeOK, Steps, HostState
    <3>2. Contained'
      BY <1>3, <2>2, SkipContains DEF CreateEvent, Goto, At, NoJob, TypeOK, HostState
    <3>3. Watched'
      BY <1>3, <2>2 DEF CreateEvent, At, Watched
    <3> QED
      BY <3>1, <3>2, <3>3
  <2> QED
    BY <2>1, <2>2
<1>4. CASE CreateTarget
  <2>1. CASE Abort
    BY <1>4, <2>1, AbortContains DEF CreateTarget, At, NoJob
  <2>2. CASE ~Abort
    <3>1. TypeOK'
      BY <1>4, <2>2 DEF CreateTarget, Goto, At, TypeOK, Steps, HostState, JobState, Process
    <3>2. Contained'
      BY <1>4, <2>2 DEF CreateTarget, Goto, At, TypeOK, HostState, Process, JobState,
                        Contained, Live, Current, Free, NoJob, HasJob, Limited, Steps
    <3>3. Watched'
      BY <1>4, <2>2 DEF CreateTarget, At, Watched
    <3> QED
      BY <3>1, <3>2, <3>3
  <2> QED
    BY <2>1, <2>2
<1>5. CASE CreateJob
  <2>1. CASE Abort
    BY <1>5, <2>1, AbortContains DEF CreateJob, At, NoJob
  <2>2. CASE ~Abort
    <3>1. TypeOK'
      <4>1. host' \in HostState
        BY <1>5, <2>2, GotoFacts DEF CreateJob, TypeOK, Steps
      <4>2. job' = [st |-> "open", kill |-> TRUE, limits |-> FALSE]
        BY <1>5, <2>2 DEF CreateJob
      <4>3. job' \in JobState
        BY <4>2 DEF JobState
      <4> QED
        BY <1>5, <2>2, <4>1, <4>3 DEF CreateJob, TypeOK
    <3>2. Contained'
      BY <1>5, <2>2 DEF CreateJob, Goto, At, TypeOK, HostState, Process, JobState,
                        Contained, Live, Current, Free, NoJob, HasJob, Limited, Steps
    <3>3. Watched'
      BY <1>5, <2>2 DEF CreateJob, At, Watched
    <3> QED
      BY <3>1, <3>2, <3>3
  <2> QED
    BY <2>1, <2>2
<1>6. CASE ApplyLimits
  <2>1. CASE Abort
    BY <1>6, <2>1, AbortContains DEF ApplyLimits, At
  <2>2. CASE ~Abort
    <3>1. TypeOK'
      BY <1>6, <2>2 DEF ApplyLimits, Goto, At, TypeOK, Steps, HostState, JobState, Process
    <3>2. Contained'
      <4>1. host.pc = "limits" /\ host'.pc = "assign" /\ host'.cur = host.cur
        BY <1>6, <2>2, GotoFacts DEF ApplyLimits, At, TypeOK, Steps
      <4>2. job'.st = job.st /\ job'.kill /\ job'.limits
        BY <1>6, <2>2 DEF ApplyLimits, TypeOK, JobState
      <4>3. target' = target /\ heir' = heir
        BY <1>6, <2>2 DEF ApplyLimits
      <4> QED
        BY <4>1, <4>2, <4>3 DEF Contained, Live, Current, Free, NoJob, HasJob, Limited, Steps
    <3>3. Watched'
      BY <1>6, <2>2 DEF ApplyLimits, At, Watched
    <3> QED
      BY <3>1, <3>2, <3>3
  <2> QED
    BY <2>1, <2>2
<1>7. CASE Assign
  <2>1. CASE Abort
    BY <1>7, <2>1, AbortContains DEF Assign, At
  <2>2. CASE ~Abort /\ target' = [target EXCEPT ![host.cur].inJob = TRUE] /\ Goto("resume")
    <3>1. TypeOK'
      <4>1. host' \in HostState
        BY <2>2, GotoFacts DEF TypeOK, Steps
      <4>2. target' \in [Attempts -> Process]
        BY <2>2 DEF TypeOK, HostState, Process
      <4> QED
        BY <1>7, <2>2, <4>1, <4>2 DEF Assign, Goto, TypeOK
    <3>2. Contained'
      BY <1>7, <2>2 DEF Assign, Goto, At, TypeOK, HostState, Process, JobState,
                        Contained, Live, Current, Free, NoJob, HasJob, Limited, Steps
    <3>3. Watched'
      BY <1>7, <2>2 DEF Assign, At, Watched
    <3> QED
      BY <3>1, <3>2, <3>3
  <2>3. CASE /\ ~Abort
             /\ At("assign")
             /\ target' = [target EXCEPT ![host.cur] = Killed(Current)]
             /\ host' = [host EXCEPT !.pc = "recreate", !.cur = 2]
    <3>1. TypeOK'
      <4>1. host' \in HostState
        <5>1. 2 \in Attempts /\ "recreate" \in Steps
          BY DEF Attempts, Steps
        <5>2. host \in HostState
          BY DEF TypeOK
        <5> QED
          BY <2>3, <5>1, <5>2 DEF HostState
      <4>2. host.cur \in Attempts /\ target[host.cur] \in Process
        BY DEF TypeOK, HostState
      <4>3. Killed(Current) \in Process
        BY <4>2, KilledFacts DEF Current
      <4>4. target' \in [Attempts -> Process]
        BY <2>3, <4>3 DEF TypeOK
      <4> QED
        BY <1>7, <2>3, <4>1, <4>4 DEF Assign, Goto, TypeOK
    <3>2. \A i \in Attempts : target'[i].st \notin {"suspended", "running"}
      BY <2>3 DEF At, TypeOK, HostState, Process, Contained, Live, Killed, Current
    <3>3. Contained'
      BY <1>7, <2>3, <3>2 DEF Assign, At, TypeOK, HostState, Contained, Live, Current,
                              Free, NoJob, HasJob, Limited, Steps
    <3>4. Watched'
      BY <1>7, <2>3 DEF Assign, At, Watched
    <3> QED
      BY <3>1, <3>3, <3>4
  <2> QED
    BY <1>7, <2>1, <2>2, <2>3 DEF Assign
<1>8. CASE Resume
  <2>1. CASE Abort
    BY <1>8, <2>1, AbortContains DEF Resume, At
  <2>2. CASE ~Abort
    <3>1. TypeOK'
      <4>1. host' \in HostState
        BY <1>8, <2>2 DEF Resume, TypeOK, HostState, Steps
      <4>2. target' \in [Attempts -> Process]
        BY <1>8, <2>2 DEF Resume, TypeOK, HostState, Process
      <4> QED
        BY <1>8, <2>2, <4>1, <4>2 DEF Resume, TypeOK
    <3>2. Contained'
      <4>1. host.pc = "resume" /\ host'.pc = "handover" /\ host'.cur = host.cur
        BY <1>8, <2>2 DEF Resume, At, TypeOK, HostState
      <4>2. /\ \A i \in Attempts : i # host.cur => target'[i] = target[i]
            /\ target'[host.cur].inJob = Current.inJob
        BY <1>8, <2>2 DEF Resume, TypeOK, HostState, Process, Current
      <4>3. job' = job /\ heir' = heir
        BY <1>8, <2>2 DEF Resume
      <4> QED
        BY <4>1, <4>2, <4>3 DEF Contained, Live, Current, Free, NoJob, HasJob, Limited, Steps
    <3>3. Watched'
      BY <1>8, <2>2 DEF Resume, At, Watched
    <3> QED
      BY <3>1, <3>2, <3>3
  <2> QED
    BY <2>1, <2>2
<1>9. CASE Handover
  <2>1. CASE Abort
    BY <1>9, <2>1, AbortContains DEF Handover, At
  <2>2. CASE ~Abort
    <3>1. TypeOK'
      BY <1>9, <2>2 DEF Handover, Goto, At, TypeOK, Steps, HostState, JobState, Process
    <3>2. Contained'
      BY <1>9, <2>2, SkipContains DEF Handover, Goto, At, TypeOK, HostState, Free
    <3>3. Watched'
      BY <1>9, <2>2 DEF Handover, At, Watched
    <3> QED
      BY <3>1, <3>2, <3>3
  <2> QED
    BY <2>1, <2>2
<1>10. CASE Report
  <2>1. TypeOK'
    BY <1>10, SayFacts DEF Report, Goto, TypeOK, Steps, HostState
  <2>2. Contained'
    BY <1>10, SkipContains DEF Report, Goto, At, TypeOK, HostState, Free
  <2>3. Watched'
    BY <1>10 DEF Report, At, Watched
  <2> QED
    BY <2>1, <2>2, <2>3
<1> QED
  BY <1>1, <1>2, <1>3, <1>4, <1>5, <1>6, <1>7, <1>8, <1>9, <1>10

\* The steps from "started" to the end of run_launch.
LEMMA WaitContains ==
    ASSUME LaunchInv,
           \/ SetUp \/ Wait \/ WaitFails \/ Stop \/ Join \/ DirectWait \/ ReadCode
           \/ CloseDone \/ Drain \/ Answer \/ Signal
    PROVE  LaunchInv'
<1> USE DEF LaunchInv
<1>1. CASE SetUp
  <2>1. host' \in HostState /\ host'.pc = "wait" /\ host'.cur = host.cur
    BY <1>1, GotoFacts DEF SetUp, TypeOK, Steps
  <2>2. PICK opened, made, cancellable \in BOOLEAN :
            dog' = [ usable |-> opened /\ made,
                     thread |-> IF opened /\ made /\ cancellable THEN "watching" ELSE "none",
                     cancel |-> FALSE,
                     done   |-> IF made THEN "clear" ELSE "none" ]
    BY <1>1 DEF SetUp
  <2>3. /\ dog' \in DogState
        /\ dog'.thread = "watching" => dog'.done = "clear"
    BY <2>2 DEF DogState
  <2>4. TypeOK'
    BY <1>1, <2>1, <2>3 DEF SetUp, TypeOK
  <2>5. Contained'
    BY <1>1, <2>1, SkipContains DEF SetUp, At, Free
  <2>6. Watched'
    BY <2>1, <2>3 DEF Watched
  <2> QED
    BY <2>4, <2>5, <2>6
<1>2. CASE Wait \/ WaitFails
  <2>1. PICK woke \in {"child", "parent", "failed"} :
            host' = [host EXCEPT !.pc = "stop", !.woke = woke]
    BY <1>2 DEF Wait, WaitFails
  <2>2. host' \in HostState /\ host'.pc = "stop" /\ host'.cur = host.cur
    BY <2>1 DEF TypeOK, HostState, Steps
  <2>3. TypeOK'
    BY <1>2, <2>2 DEF Wait, WaitFails, TypeOK
  <2>4. Contained'
    BY <1>2, <2>2, SkipContains DEF Wait, WaitFails, At, Free
  <2>5. Watched'
    BY <1>2, <2>2 DEF Wait, WaitFails, Watched
  <2> QED
    BY <2>3, <2>4, <2>5
<1>3. CASE Stop
  <2>1. host' \in HostState /\ host'.pc = "join" /\ host'.cur = host.cur
    BY <1>3, GotoFacts DEF Stop, TypeOK, Steps
  <2>2. dog' \in DogState /\ dog'.thread = dog.thread /\ dog'.done = dog.done
    BY <1>3 DEF Stop, TypeOK, DogState
  <2>3. TypeOK'
    BY <1>3, <2>1, <2>2 DEF Stop, TypeOK
  <2>4. Contained'
    BY <1>3, <2>1, SkipContains DEF Stop, At, Free
  <2>5. Watched'
    BY <2>1, <2>2 DEF Watched
  <2> QED
    BY <2>3, <2>4, <2>5
<1>4. CASE Join
  <2>1. /\ host' \in HostState /\ host'.pc \in {"direct", "code"}
        /\ host'.cur = host.cur
    BY <1>4, GotoFacts DEF Join, TypeOK, Steps
  <2>2. TypeOK'
    BY <1>4, <2>1 DEF Join, TypeOK
  <2>3. Contained'
    BY <1>4, <2>1, SkipContains DEF Join, At, Free
  <2>4. Watched'
    BY <1>4 DEF Join, Watched
  <2> QED
    BY <2>2, <2>3, <2>4
<1>5. CASE DirectWait
  <2>1. host' \in HostState /\ host'.pc = "code" /\ host'.cur = host.cur
    BY <1>5 DEF DirectWait, TypeOK, HostState, Steps
  <2>2. TypeOK'
    BY <1>5, <2>1 DEF DirectWait, TypeOK
  <2>3. Contained'
    BY <1>5, <2>1, SkipContains DEF DirectWait, At, Free
  <2>4. Watched'
    BY <1>5 DEF DirectWait, At, Watched
  <2> QED
    BY <2>2, <2>3, <2>4
<1>6. CASE ReadCode
  <2>1. PICK got \in {None, IF Current.st = "dead" THEN Current.code ELSE STILL_ACTIVE} :
            host' = [host EXCEPT !.pc = "close", !.got = got]
    BY <1>6 DEF ReadCode
  <2>2. got \in Codes \cup {0, STILL_ACTIVE, None}
    <3>1. host.cur \in Attempts
      BY DEF TypeOK, HostState
    <3>2. Current \in Process
      BY <3>1 DEF TypeOK, Current
    <3> QED
      BY <2>1, <3>2 DEF Process
  <2>3. host' \in HostState /\ host'.pc = "close" /\ host'.cur = host.cur
    BY <2>1, <2>2 DEF TypeOK, HostState, Steps
  <2>4. TypeOK'
    BY <1>6, <2>3 DEF ReadCode, TypeOK
  <2>5. Contained'
    BY <1>6, <2>3, SkipContains DEF ReadCode, At, Free
  <2>6. Watched'
    BY <1>6 DEF ReadCode, At, Watched
  <2> QED
    BY <2>4, <2>5, <2>6
<1>7. CASE CloseDone
  <2>1. host' \in HostState /\ host'.pc = "drain" /\ host'.cur = host.cur
    BY <1>7, GotoFacts DEF CloseDone, TypeOK, Steps
  <2>2. dog' \in DogState /\ dog'.thread = dog.thread
    BY <1>7 DEF CloseDone, TypeOK, DogState
  <2>3. TypeOK'
    BY <1>7, <2>1, <2>2 DEF CloseDone, TypeOK
  <2>4. Contained'
    BY <1>7, <2>1, SkipContains DEF CloseDone, At, Free
  <2>5. Watched'
    BY <1>7, <2>2 DEF CloseDone, At, Watched
  <2> QED
    BY <2>3, <2>4, <2>5
<1>8. CASE Drain
  <2>1. host' \in HostState /\ host'.pc = "answer" /\ host'.cur = host.cur
    BY <1>8, GotoFacts DEF Drain, TypeOK, Steps
  <2>2. TypeOK'
    BY <1>8, <2>1 DEF Drain, TypeOK
  <2>3. Contained'
    BY <1>8, <2>1, SkipContains DEF Drain, At, Free
  <2>4. Watched'
    BY <1>8 DEF Drain, At, Watched
  <2> QED
    BY <2>2, <2>3, <2>4
<1>9. CASE Answer
  <2>1. host' \in HostState /\ host'.pc = "signal" /\ host'.cur = host.cur
    BY <1>9, GotoFacts DEF Answer, TypeOK, Steps
  <2>2. host.got \in Codes \cup {0, STILL_ACTIVE, None}
    BY DEF TypeOK, HostState
  <2>3. out' \in Seq(Message)
    <3>1. CASE host.got = None
      BY <1>9, <3>1, SayFacts DEF Answer, TypeOK
    <3>2. CASE host.got # None
      BY <1>9, <2>2, <3>2, SayFacts DEF Answer, TypeOK
    <3> QED
      BY <3>1, <3>2
  <2>4. TypeOK'
    BY <1>9, <2>1, <2>3 DEF Answer, TypeOK
  <2>5. Contained'
    BY <1>9, <2>1, SkipContains DEF Answer, At, Free
  <2>6. Watched'
    BY <1>9 DEF Answer, At, Watched
  <2> QED
    BY <2>4, <2>5, <2>6
<1>10. CASE Signal
  <2>1. host' \in HostState /\ host'.pc = "return" /\ host'.cur = host.cur
    BY <1>10, GotoFacts DEF Signal, TypeOK, Steps
  <2>2. TypeOK'
    BY <1>10, <2>1 DEF Signal, TypeOK
  <2>3. Contained'
    BY <1>10, <2>1, SkipContains DEF Signal, At, Free
  <2>4. Watched'
    BY <1>10 DEF Signal, At, Watched
  <2> QED
    BY <2>2, <2>3, <2>4
<1> QED
  BY <1>1, <1>2, <1>3, <1>4, <1>5, <1>6, <1>7, <1>8, <1>9, <1>10

\* The end of run_launch: the job takes along what is still alive.
LEMMA ReturnContains ==
    ASSUME LaunchInv, Return
    PROVE  LaunchInv'
<1> USE DEF LaunchInv
<1>1. target \in [Attempts -> Process] /\ CloseJob(target)
  BY DEF TypeOK, Return
<1>2. host' \in HostState /\ host'.pc = "exited" /\ host'.cur = host.cur
  BY GotoFacts DEF Return, TypeOK, Over
<1>3. job.st = "open" /\ job.kill /\ Current.inJob
  BY DEF Return, At, Contained, HasJob, NoJob, Free, Steps
<1>4. \A i \in Attempts : target'[i].st \notin {"suspended", "running"}
  BY <1>1, <1>3, CloseJobFacts DEF Contained, Live, Current
<1>5. heir'.st # "running"
  BY <1>1, <1>3, CloseJobFacts
<1>6. TypeOK'
  BY <1>1, <1>2, CloseJobFacts DEF TypeOK, Return
<1>7. Contained'
  BY <1>2, <1>4, <1>5 DEF Contained, Live, NoJob, HasJob, Limited, Free, Steps
<1>8. Watched'
  BY DEF Watched, Return, At
<1> QED
  BY <1>6, <1>7, <1>8

\* The watchdog, the reader, the target and the parent, at their own pace.
LEMMA AroundContains ==
    ASSUME LaunchInv, MonitorLoop \/ MonitorFails \/ ReaderEnds \/ Environment
    PROVE  LaunchInv'
<1> USE DEF LaunchInv
<1>1. CASE MonitorLoop \/ MonitorFails
  <2>1. dog' \in DogState /\ dog'.thread # "watching"
    BY <1>1 DEF MonitorLoop, MonitorFails, TypeOK, DogState
  <2>2. TypeOK'
    BY <1>1, <2>1 DEF MonitorLoop, MonitorFails, TypeOK
  <2>3. Contained'
    BY <1>1 DEF MonitorLoop, MonitorFails, Contained, Live, Current
  <2>4. Watched'
    BY <2>1 DEF Watched
  <2> QED
    BY <2>2, <2>3, <2>4
<1>2. CASE ReaderEnds
  <2>1. TypeOK'
    BY <1>2 DEF ReaderEnds, TypeOK
  <2>2. Contained' /\ Watched'
    BY <1>2 DEF ReaderEnds, Contained, Watched, Live, Current
  <2> QED
    BY <2>1, <2>2
<1>3. CASE TargetExits
  <2>1. PICK i \in Attempts, c \in Codes :
            target' = [target EXCEPT ![i].st = "dead", ![i].code = c]
    BY <1>3 DEF TargetExits
  <2>2. /\ target' \in [Attempts -> Process]
        /\ \A k \in Attempts : target'[k].st \in {"suspended", "running"} =>
               target'[k].st = target[k].st
        /\ \A k \in Attempts : target'[k].inJob = target[k].inJob
    BY <2>1 DEF TypeOK, Process
  <2>3. TypeOK'
    BY <1>3, <2>2 DEF TargetExits, TypeOK
  <2>4. host.cur \in Attempts
    BY DEF TypeOK, HostState
  <2>5. Contained'
    BY <1>3, <2>2, <2>4 DEF TargetExits, Contained, Live, Current
  <2>6. Watched'
    BY <1>3 DEF TargetExits, Watched
  <2> QED
    BY <2>3, <2>5, <2>6
<1>4. CASE TargetSpawns
  <2>1. heir' \in HeirState
    <3>1. cfg.capture \in BOOLEAN
      BY ConfigAssumption DEF TypeOK
    <3>2. PICK pipe \in BOOLEAN : heir' = [st |-> "running", pipe |-> pipe]
      BY <1>4, <3>1 DEF TargetSpawns
    <3> QED
      BY <3>2 DEF HeirState
  <2>2. TypeOK'
    BY <1>4, <2>1 DEF TargetSpawns, TypeOK
  <2>3. Contained'
    BY <1>4 DEF TargetSpawns, Contained, Live, Current
  <2>4. Watched'
    BY <1>4 DEF TargetSpawns, Watched
  <2> QED
    BY <2>2, <2>3, <2>4
<1>5. CASE HeirExits
  <2>1. heir' \in HeirState /\ heir'.st # "running"
    BY <1>5 DEF HeirExits, TypeOK, HeirState
  <2>2. TypeOK'
    BY <1>5, <2>1 DEF HeirExits, TypeOK
  <2>3. Contained'
    BY <1>5, <2>1 DEF HeirExits, Contained, Live, Current
  <2>4. Watched'
    BY <1>5 DEF HeirExits, Watched
  <2> QED
    BY <2>2, <2>3, <2>4
<1>6. CASE ParentDies
  <2>1. TypeOK'
    BY <1>6 DEF ParentDies, TypeOK
  <2>2. Contained' /\ Watched'
    BY <1>6 DEF ParentDies, Contained, Watched, Live, Current
  <2> QED
    BY <2>1, <2>2
<1> QED
  BY <1>1, <1>2, <1>3, <1>4, <1>5, <1>6 DEF Environment

\* Every behaviour of the host keeps the invariant.
THEOREM Invariance ==
    Spec => []LaunchInv
<1>1. LaunchInv /\ [Next]_vars => LaunchInv'
  <2> SUFFICES ASSUME LaunchInv, [Next]_vars PROVE LaunchInv'
    OBVIOUS
  <2>1. CASE Run \/ WaitFails
    BY <2>1, SetUpContains, WaitContains, ReturnContains DEF Run
  <2>2. CASE Kill
    BY <2>2, KillContains
  <2>3. CASE MonitorLoop \/ MonitorFails \/ ReaderEnds \/ Environment
    BY <2>3, AroundContains
  <2>4. CASE UNCHANGED vars
    BY <2>4 DEF vars, LaunchInv, TypeOK, Contained, Watched, Live, Current
  <2> QED
    BY <2>1, <2>2, <2>3, <2>4 DEF Next
<1> QED
  BY <1>1, InitContains, PTL DEF Spec

-----------------------------------------------------------------------------
(* What it implies.                                                        *)

\* Every variable of the host's model has its type.
THEOREM Typing ==
    Spec => []TypeOK
<1>1. LaunchInv => TypeOK
  BY DEF LaunchInv
<1> QED
  BY <1>1, Invariance, PTL

\* "The process can never run outside its caps once resumed": whatever fails,
\* nothing of the target runs but in a limited job that dies with the host.
THEOREM TargetIsCapped ==
    Spec => []NeverUncapped
<1>1. LaunchInv => NeverUncapped
  <2> SUFFICES ASSUME LaunchInv,
                      (\E i \in Attempts : target[i].st = "running") \/ heir.st = "running"
               PROVE  /\ job = [st |-> "open", kill |-> TRUE, limits |-> TRUE]
                      /\ \A i \in Attempts : target[i].st = "running" => target[i].inJob
    BY DEF NeverUncapped
  <2>1. host.pc \in Free
    BY DEF LaunchInv, Contained
  <2>2. job.st = "open" /\ job.kill /\ job.limits /\ Current.inJob
    BY <2>1 DEF LaunchInv, Contained, Free, HasJob, NoJob, Limited, Steps
  <2>3. job = [st |-> "open", kill |-> TRUE, limits |-> TRUE]
    BY <2>2 DEF LaunchInv, TypeOK, JobState
  <2>4. \A i \in Attempts : target[i].st = "running" => target[i].inJob
    BY <2>2 DEF LaunchInv, Contained, Live, Current
  <2> QED
    BY <2>3, <2>4
<1> QED
  BY <1>1, Invariance, PTL

\* However run_launch returns, and whenever the host is killed, nothing of
\* the target runs on.
THEOREM CleanExit ==
    Spec => []NothingLeftBehind
<1>1. LaunchInv => NothingLeftBehind
  BY DEF LaunchInv, Contained, NothingLeftBehind, Free, Over
<1> QED
  BY <1>1, Invariance, PTL

\* The breakaway retry never leaves two targets alive.
THEOREM SingleTarget ==
    Spec => []OneTarget
<1>1. LaunchInv => OneTarget
  BY DEF LaunchInv, Contained, OneTarget
<1> QED
  BY <1>1, Invariance, PTL

\* The event that the watchdog sets is not closed before its thread has ended.
THEOREM WatchdogHasItsEvent ==
    Spec => []EventOutlivesWatchdog
<1>1. LaunchInv => EventOutlivesWatchdog
  BY DEF LaunchInv, Watched, EventOutlivesWatchdog
<1> QED
  BY <1>1, Invariance, PTL

-----------------------------------------------------------------------------
(* What the host says.                                                     *)

\* Before "started", from there to the last line, and once the wait is over.
Silent   == {"prepare", "pipe", "event", "create", "job", "limits", "assign",
             "recreate", "reassign", "resume", "handover", "report"}
Pending  == {"watch", "wait", "stop", "join", "direct", "code", "close", "drain",
             "answer"}
AfterWait == {"stop", "join", "direct", "code", "close", "drain", "answer"}

\* The lines that are out by the step that run_launch is at.
Lines ==
    /\ host.pc \in Silent => out = <<>>
    /\ host.pc \in Pending => Len(out) = 1 /\ out[1].stage = "started"
    /\ host.pc \in {"signal", "return"} => Len(out) = 2
    /\ host.pc = "return" => evt = "signalled"
    /\ host.pc = "exited" => \/ Len(out) = 1 /\ out[1].stage = "error"
                             \/ Len(out) = 2 /\ evt = "signalled"

\* What the host knows of the target once its wait is over.
Known ==
    /\ host.pc \in {"stop", "join"} => host.woke \in {"child", "parent", "failed"}
    /\ host.pc = "code" => host.woke \in {"child", "parent"}
    /\ host.pc \in AfterWait /\ host.woke = "child" => Current.st = "dead"
    /\ host.pc \in {"close", "drain", "answer"} =>
         \/ host.got = None
         \/ Current.st = "dead" /\ host.got = Current.code
         \/ host.woke = "parent" /\ host.got = STILL_ACTIVE

AnswerInv == Lines /\ Known /\ ReportedCodeIsReal

\* A line comes after those that are out.
LEMMA SayGrows ==
    ASSUME out \in Seq(Message), NEW m \in Message, out' = Append(out, m)
    PROVE  /\ Len(out') = Len(out) + 1
           /\ \A k \in 1..Len(out) : out'[k] = out[k]
           /\ out'[Len(out) + 1] = m
BY AppendProperties

\* A target that has ended stays as it is, whoever closes what.
LEMMA DeadStays ==
    ASSUME LaunchInv, Next, host.pc \in Free \cup Over, Current.st = "dead"
    PROVE  host'.cur = host.cur /\ Current'.st = "dead" /\ Current'.code = Current.code
<1> USE DEF LaunchInv
<1>0. host \in HostState /\ host.cur \in Attempts /\ target \in [Attempts -> Process]
  BY DEF TypeOK, HostState
<1>1. CASE UNCHANGED target /\ host'.cur = host.cur
  BY <1>1 DEF Current
<1>2. CASE Handover /\ Abort
  <2>1. target' = [i \in Attempts |->
           LET p == IF i = host.cur /\ Live(i) THEN Killed(target[i]) ELSE target[i]
           IN  IF job.st = "open" /\ job.kill /\ p.inJob /\ p.st # "dead"
                 THEN Killed(p) ELSE p]
    BY <1>2 DEF Abort, CloseJob
  <2>2. target'[host.cur] = target[host.cur]
    BY <1>0, <2>1 DEF Current, Live
  <2>3. host'.cur = host.cur
    BY <1>0, <1>2 DEF Abort, HostState
  <2> QED
    BY <2>2, <2>3 DEF Current
<1>3. CASE Kill \/ Return
  <2>1. target'[host.cur] = target[host.cur]
    BY <1>0, <1>3 DEF Kill, Return, CloseJob, Current
  <2>2. host'.cur = host.cur
    BY <1>0, <1>3 DEF Kill, Return, Goto, HostState
  <2> QED
    BY <2>1, <2>2 DEF Current
<1>4. CASE TargetExits
  <2>1. target'[host.cur] = target[host.cur]
    BY <1>0, <1>4 DEF TargetExits, Current
  <2> QED
    BY <1>4, <2>1 DEF TargetExits, Current
<1>5. CASE Run /\ ~Return /\ ~(Handover /\ Abort)
  <2>1. ~Prepare /\ ~OpenPipe /\ ~CreateEvent /\ ~CreateTarget /\ ~CreateJob
        /\ ~ApplyLimits /\ ~Assign /\ ~Resume
    BY DEF Prepare, OpenPipe, CreateEvent, CreateTarget, CreateJob, ApplyLimits, Assign,
           Resume, At, Free, Over
  <2>2. UNCHANGED target
    BY <1>5, <2>1 DEF Run, Handover, Report, SetUp, Wait, Stop, Join, DirectWait, ReadCode,
                      CloseDone, Drain, Answer, Signal
  <2>3. host'.cur = host.cur
    BY <1>0, <1>5, <2>1 DEF Run, Handover, Report, SetUp, Wait, Stop, Join, DirectWait,
         ReadCode, CloseDone, Drain, Answer, Signal, Goto, HostState
  <2> QED
    BY <1>1, <2>2, <2>3
<1>6. CASE WaitFails
  BY <1>0, <1>1, <1>6 DEF WaitFails, HostState
<1>7. CASE MonitorLoop \/ MonitorFails \/ ReaderEnds \/ TargetSpawns \/ HeirExits \/ ParentDies
  BY <1>1, <1>7 DEF MonitorLoop, MonitorFails, ReaderEnds, TargetSpawns, HeirExits, ParentDies
<1> QED
  BY <1>2, <1>3, <1>4, <1>5, <1>6, <1>7 DEF Next, Environment, Run

\* As long as nothing more is said, what has been said stays true.
LEMMA SaidStaysTrue ==
    ASSUME LaunchInv, AnswerInv, Next, UNCHANGED out
    PROVE  ReportedCodeIsReal'
<1>1. CASE host.pc \in Free \cup Over
  BY <1>1, DeadStays DEF AnswerInv, ReportedCodeIsReal
<1>2. CASE host.pc \notin Free \cup Over
  <2>1. host.pc \in Silent
    BY <1>2 DEF LaunchInv, TypeOK, HostState, Steps, Free, Over, Silent
  <2>2. out' = <<>>
    BY <2>1 DEF AnswerInv, Lines
  <2> QED
    BY <2>2 DEF ReportedCodeIsReal
<1> QED
  BY <1>1, <1>2

\* A launch that is given up says so in its only line.
LEMMA AbortAnswers ==
    ASSUME LaunchInv, AnswerInv, Abort, host.pc \in Silent
    PROVE  AnswerInv'
<1>1. host'.pc = "exited"
  BY DEF Abort, LaunchInv, TypeOK, HostState
<1> DEFINE m == [stage |-> "error", code |-> None, running |-> FALSE]
<1>2. out = <<>> /\ out \in Seq(Message) /\ m \in Message /\ out' = Append(out, m)
  BY DEF Abort, Say, AnswerInv, Lines, LaunchInv, TypeOK, Message
<1>3. Len(out') = 1 /\ out'[1].stage = "error"
  <2>1. m.stage = "error"
    OBVIOUS
  <2> HIDE DEF m
  <2> QED
    BY <1>2, <2>1, SayGrows
<1>4. Lines' /\ Known'
  BY <1>1, <1>3 DEF Lines, Known, Silent, Pending, AfterWait
<1>5. ReportedCodeIsReal'
  BY <1>3 DEF ReportedCodeIsReal
<1> QED
  BY <1>4, <1>5 DEF AnswerInv

\* The rest of the steps before "started".
LEMMA SetUpAnswers ==
    ASSUME LaunchInv, AnswerInv, Next,
           \/ Prepare \/ OpenPipe \/ CreateEvent \/ CreateTarget \/ CreateJob
           \/ ApplyLimits \/ Assign \/ Resume \/ Handover \/ Report
    PROVE  AnswerInv'
<1>1. host.pc \in Silent
  BY DEF Prepare, OpenPipe, CreateEvent, CreateTarget, CreateJob, ApplyLimits, Assign,
         Resume, Handover, Report, At, Silent
<1>2. CASE Abort
  BY <1>1, <1>2, AbortAnswers
<1>3. CASE Report
  <2>1. host'.pc = "watch"
    BY <1>3, GotoFacts DEF Report, LaunchInv, TypeOK, Steps
  <2> DEFINE m == [stage |-> "started", code |-> None, running |-> FALSE]
  <2>2. out = <<>> /\ out \in Seq(Message) /\ m \in Message /\ out' = Append(out, m)
    BY <1>1, <1>3 DEF Report, Say, AnswerInv, Lines, LaunchInv, TypeOK, Message
  <2>3. Len(out') = 1 /\ out'[1].stage = "started"
    <3>1. m.stage = "started"
      OBVIOUS
    <3> HIDE DEF m
    <3> QED
      BY <2>2, <3>1, SayGrows
  <2>4. Lines' /\ Known'
    BY <2>1, <2>3 DEF Lines, Known, Silent, Pending, AfterWait
  <2>5. ReportedCodeIsReal'
    BY <2>3 DEF ReportedCodeIsReal
  <2> QED
    BY <2>4, <2>5 DEF AnswerInv
<1>4. CASE ~Abort /\ ~Report
  <2>1. host'.pc \in Silent
    BY <1>4 DEF Prepare, OpenPipe, CreateEvent, CreateTarget, CreateJob, ApplyLimits,
       Assign, Resume, Handover, At, Goto, Silent, LaunchInv, TypeOK, HostState
  <2>2. out' = out
    BY <1>4 DEF Prepare, OpenPipe, CreateEvent, CreateTarget, CreateJob, ApplyLimits,
       Assign, Resume, Handover
  <2>3. Lines' /\ Known'
    BY <1>1, <2>1, <2>2 DEF AnswerInv, Lines, Known, Silent, Pending, AfterWait
  <2> QED
    BY <2>2, <2>3, SaidStaysTrue DEF AnswerInv
<1> QED
  BY <1>2, <1>3, <1>4

\* Waiting for the target, up to the last line.
LEMMA WaitAnswers ==
    ASSUME LaunchInv, AnswerInv, Next,
           SetUp \/ Wait \/ WaitFails \/ Stop \/ Join \/ DirectWait \/ ReadCode
           \/ CloseDone \/ Drain
    PROVE  AnswerInv'
<1> USE DEF LaunchInv
<1>0. host \in HostState
  BY DEF TypeOK
<1>1. host.pc \in Pending /\ host'.pc \in Pending /\ out' = out
  BY <1>0 DEF SetUp, Wait, WaitFails, Stop, Join, DirectWait, ReadCode, CloseDone, Drain,
              At, Goto, Pending, HostState
<1>2. UNCHANGED target /\ host'.cur = host.cur
  BY <1>0 DEF SetUp, Wait, WaitFails, Stop, Join, DirectWait, ReadCode, CloseDone, Drain,
              Goto, HostState
<1>3. Current' = Current
  BY <1>2 DEF Current
<1>4. Lines'
  BY <1>1 DEF AnswerInv, Lines, Silent, Pending
<1>5. Known'
  <2>1. CASE SetUp
    BY <1>0, <2>1 DEF SetUp, Goto, HostState, Known, AfterWait
  <2>2. CASE Wait \/ WaitFails
    <3>1. PICK woke \in {"child", "parent", "failed"} :
             /\ host' = [host EXCEPT !.pc = "stop", !.woke = woke]
             /\ woke = "child" => Current.st = "dead"
      BY <2>2 DEF Wait, WaitFails
    <3>2. host'.pc = "stop" /\ host'.woke = woke
      BY <1>0, <3>1 DEF HostState
    <3> QED
      BY <1>3, <3>1, <3>2 DEF Known, AfterWait
  <2>3. CASE Stop \/ Join
    <3>1. host.pc \in {"stop", "join"} /\ host'.woke = host.woke
          /\ host'.pc \in {"join", "direct", "code"}
          /\ (host'.pc = "code" => host.woke # "failed")
      BY <1>0, <2>3 DEF Stop, Join, At, Goto, HostState
    <3> QED
      BY <1>3, <3>1 DEF AnswerInv, Known, AfterWait
  <2>4. CASE DirectWait
    BY <1>0, <1>3, <2>4 DEF DirectWait, HostState, Known, AfterWait
  <2>5. CASE ReadCode
    <3>1. PICK got \in {None, IF Current.st = "dead" THEN Current.code ELSE STILL_ACTIVE} :
              host' = [host EXCEPT !.pc = "close", !.got = got]
      BY <2>5 DEF ReadCode
    <3>2. host.pc = "code" /\ host'.pc = "close" /\ host'.woke = host.woke /\ host'.got = got
      BY <1>0, <2>5, <3>1 DEF ReadCode, At, HostState
    <3>3. host.woke \in {"child", "parent"} /\ (host.woke = "child" => Current.st = "dead")
      BY <3>2 DEF AnswerInv, Known, AfterWait
    <3> QED
      BY <1>3, <3>1, <3>2, <3>3 DEF Known, AfterWait
  <2>6. CASE CloseDone \/ Drain
    <3>1. /\ host.pc \in {"close", "drain"} /\ host'.pc \in {"drain", "answer"}
          /\ host'.woke = host.woke /\ host'.got = host.got
      BY <1>0, <2>6 DEF CloseDone, Drain, At, Goto, HostState
    <3> QED
      BY <1>3, <3>1 DEF AnswerInv, Known, AfterWait
  <2> QED
    BY <2>1, <2>2, <2>3, <2>4, <2>5, <2>6
<1> QED
  BY <1>1, <1>4, <1>5, SaidStaysTrue DEF AnswerInv

\* The last line, the signal, and the end of the host.
LEMMA EndAnswers ==
    ASSUME LaunchInv, AnswerInv, Next, Answer \/ Signal \/ Return \/ Kill
    PROVE  AnswerInv'
<1> USE DEF LaunchInv
<1>0. host \in HostState /\ out \in Seq(Message)
  BY DEF TypeOK
<1>1. CASE Answer
  <2>1. host.pc = "answer" /\ host'.pc = "signal" /\ Current' = Current
    BY <1>0, <1>1 DEF Answer, At, Goto, HostState, Current
  <2>2. Len(out) = 1 /\ out[1].stage = "started"
    BY <2>1 DEF AnswerInv, Lines, Pending
  <2>3. /\ Len(out') = 2 /\ out'[1] = out[1]
        /\ out'[2].stage = "exited" /\ ~out'[2].running =>
             Current.st = "dead" /\ Current.code = out'[2].code
    <3>1. CASE host.got = None
      <4> DEFINE m == [stage |-> "error", code |-> None, running |-> FALSE]
      <4>1. m \in Message /\ m.stage = "error" /\ out' = Append(out, m)
        BY <1>1, <3>1 DEF Answer, Say, Message
      <4> HIDE DEF m
      <4> QED
        BY <1>0, <2>2, <4>1, SayGrows
    <3>2. CASE host.got # None
      <4> DEFINE running == host.woke = "parent" /\ host.got = STILL_ACTIVE
      <4> DEFINE m == [stage |-> "exited", code |-> host.got, running |-> running]
      <4>1. out' = Append(out, m)
        BY <1>1, <3>2 DEF Answer, Say
      <4>2. m \in Message /\ m.stage = "exited" /\ m.code = host.got /\ m.running = running
        BY <1>0 DEF HostState, Message
      <4>3. ~running => Current.st = "dead" /\ Current.code = host.got
        BY <2>1, <3>2 DEF AnswerInv, Known
      <4> HIDE DEF running, m
      <4>4. Len(out') = 2 /\ out'[1] = out[1] /\ out'[2] = m
        BY <1>0, <2>2, <4>1, <4>2, SayGrows
      <4> QED
        BY <4>2, <4>3, <4>4
    <3> QED
      BY <3>1, <3>2
  <2>4. Lines' /\ Known'
    BY <2>1, <2>3 DEF Lines, Known, Silent, Pending, AfterWait
  <2>5. ReportedCodeIsReal'
    BY <2>1, <2>2, <2>3 DEF ReportedCodeIsReal
  <2> QED
    BY <2>4, <2>5 DEF AnswerInv
<1>2. CASE Signal
  <2>1. host.pc = "signal" /\ host'.pc = "return" /\ evt' = "signalled" /\ out' = out
    BY <1>0, <1>2 DEF Signal, At, Goto, HostState
  <2>2. Lines' /\ Known'
    BY <2>1 DEF AnswerInv, Lines, Known, Silent, Pending, AfterWait
  <2> QED
    BY <2>1, <2>2, SaidStaysTrue DEF AnswerInv
<1>3. CASE Return
  <2>1. host.pc = "return" /\ host'.pc = "exited" /\ evt' = evt /\ out' = out
    BY <1>0, <1>3 DEF Return, At, Goto, HostState
  <2>2. Lines' /\ Known'
    BY <2>1 DEF AnswerInv, Lines, Known, Silent, Pending, AfterWait
  <2> QED
    BY <2>1, <2>2, SaidStaysTrue DEF AnswerInv
<1>4. CASE Kill
  <2>1. host'.pc = "killed" /\ out' = out
    BY <1>0, <1>4 DEF Kill, HostState
  <2>2. Lines' /\ Known'
    BY <2>1 DEF Lines, Known, Silent, Pending, AfterWait
  <2> QED
    BY <2>1, <2>2, SaidStaysTrue DEF AnswerInv
<1> QED
  BY <1>1, <1>2, <1>3, <1>4

\* The others say nothing, and cannot bring the target back to life.
LEMMA AroundAnswers ==
    ASSUME LaunchInv, AnswerInv, Next,
           MonitorLoop \/ MonitorFails \/ ReaderEnds \/ Environment
    PROVE  AnswerInv'
<1>1. UNCHANGED <<host, evt, out>>
  BY DEF MonitorLoop, MonitorFails, ReaderEnds, Environment, TargetExits, TargetSpawns,
         HeirExits, ParentDies
<1>2. Lines'
  BY <1>1 DEF AnswerInv, Lines
<1>3. Known'
  <2>1. host.pc \in AfterWait /\ Current.st = "dead" =>
           Current'.st = "dead" /\ Current'.code = Current.code
    BY DeadStays DEF AfterWait, Free
  <2> QED
    BY <1>1, <2>1 DEF AnswerInv, Known, AfterWait
<1> QED
  BY <1>1, <1>2, <1>3, SaidStaysTrue DEF AnswerInv

\* The invariant of what the host says.
THEOREM Honesty ==
    Spec => []AnswerInv
<1>1. Init => AnswerInv
  <2> SUFFICES ASSUME Init PROVE AnswerInv
    OBVIOUS
  <2>1. host.pc = "prepare" /\ out = <<>>
    BY DEF Init
  <2> QED
    BY <2>1 DEF AnswerInv, Lines, Known, ReportedCodeIsReal, Pending, AfterWait
<1>2. LaunchInv /\ AnswerInv /\ [Next]_vars => AnswerInv'
  <2> SUFFICES ASSUME LaunchInv, AnswerInv, [Next]_vars PROVE AnswerInv'
    OBVIOUS
  <2>1. CASE Next
    BY <2>1, SetUpAnswers, WaitAnswers, EndAnswers, AroundAnswers DEF Next, Run
  <2>2. CASE UNCHANGED vars
    BY <2>2 DEF vars, AnswerInv, Lines, Known, ReportedCodeIsReal, Current
  <2> QED
    BY <2>1, <2>2
<1> QED
  BY <1>1, <1>2, Invariance, PTL DEF Spec

\* Once "started" is out, a host that returns has signalled the event and
\* written its last line, whatever has failed on the way.
THEOREM NoWatcherHangs ==
    Spec => []StartedIsAnswered
<1>1. AnswerInv => StartedIsAnswered
  BY DEF AnswerInv, Lines, StartedIsAnswered
<1> QED
  BY <1>1, Honesty, PTL

\* No exit code is made up.
THEOREM CodesAreReal ==
    Spec => []ReportedCodeIsReal
<1>1. AnswerInv => ReportedCodeIsReal
  BY DEF AnswerInv
<1> QED
  BY <1>1, Honesty, PTL
=============================================================================
