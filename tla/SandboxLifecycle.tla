-------------------------- MODULE SandboxLifecycle --------------------------
(***************************************************************************)
(* The life of one sandbox in the Python process (sandbox.py, and the      *)
(* container path of process.py and sandbox_process.py): launch() with the *)
(* timer of its handshake, the watcher thread that fires EXITED and        *)
(* CLEANED_UP, the callers of SandboxHandle.terminate(), each on an event  *)
(* loop of its own, and the process handle that the host has duplicated    *)
(* into this process and that several of them want.                        *)
(*                                                                         *)
(* The host process is seen from here by the line it writes, the named     *)
(* event it signals, its reading of the pipe that launch() writes to, and  *)
(* its death.  A step is what one thread does between two points where     *)
(* another may come in.                                                    *)
(***************************************************************************)
EXTENDS Naturals, Sequences, SequencesExt

CONSTANTS
    Users,       \* callers of SandboxHandle.terminate() after the launch
    Launcher,    \* the caller of launch(), which may have to terminate too
    Uses,        \* what the launch is for
    None         \* no value

ASSUME CallerAssumption ==
    /\ Launcher \notin Users
    /\ Uses \subseteq {"direct", "container", "baseline", "probe"}
    /\ None \notin {"started", "error"}   \* the lines of the host

VARIABLES
    payload,   \* whether the pipe to the host can hold the whole request
    use,       \* who launches: a user of launch() with a CLEANED_UP callback,
               \* process.py's _launch_in_container, or a check of checker.py
    launch,    \* where launch(), or _launch_in_container, is
    timer,     \* threading.Timer of the handshake
    timedOut,  \* _timed_out
    host,      \* the host process
    dup,       \* where the duplicated process handle is
    closes,    \* how many times it was closed
    watcher,   \* the watcher thread
    fired,     \* the events fired and the revert, in order
    cleaned,   \* SandboxHandle._cleaned_up
    callbacks, \* _callbacks[CLEANED_UP]: whose future each one resolves
    term,      \* the calls of SandboxHandle.terminate()
    clash,     \* history: set_result was called on a resolved future
    check      \* the coroutine of a check, which module Checker moves

given      == <<payload, use>>
handleVars == <<given, dup, closes>>
timerVars  == <<timer, timedOut>>
watchVars  == <<watcher, fired, cleaned>>
callVars   == <<callbacks, term, clash, check>>
vars       == <<launch, host, handleVars, timerVars, watchVars, callVars>>

Callers == Users \cup {Launcher}

\* The host process, whether it has come to reading its stdin, the line it
\* has written and the named event.
HostState == [ st        : {"none", "running", "dead"},
               reads     : BOOLEAN,
               line      : {None, "started", "error"},
               signalled : BOOLEAN ]

\* The watcher thread, and the callback that it goes on with.
WatcherState == [ pc   : {"off", "open", "poll", "wait", "revert", "flag", "close",
                          "list", "call", "end"},
                  next : Nat \ {0} ]

Events == {"ERROR", "EXITED", "revert", "CLEANED_UP"}

\* A call of terminate(), its future, and whether a set_result is under way.
CallState == [ pc     : {"idle", "begin", "look", "stop", "await", "returned"},
               future : {"none", "pending", "done"},
               due    : BOOLEAN ]

\* A check: its callback's place in the list, and what it reports.
CheckState == [ pc       : {"idle", "listen", "await", "undo", "wait", "late",
                            "reset", "end"},
                at       : Nat,
                confined : {"none", "PASS", "FAIL"},
                verdict  : {"none", "PASS", "FAIL"} ]

HostRuns == host.st = "running"

\* The event object lives as long as the host, or as a handle to it.
HostDies == host' = [host EXCEPT !.st = "dead"]

Init ==
    /\ payload \in {"fits", "long"}
    /\ use \in Uses
    /\ launch = "spawn"
    /\ timer = "off"
    /\ timedOut = FALSE
    /\ host = [st |-> "none", reads |-> FALSE, line |-> None, signalled |-> FALSE]
    /\ dup = "none"
    /\ closes = 0
    /\ watcher = [pc |-> "off", next |-> 1]
    /\ fired = <<>>
    /\ cleaned = FALSE
    /\ callbacks = <<>>
    /\ term = [c \in Callers |-> [pc |-> "idle", future |-> "none", due |-> FALSE]]
    /\ clash = FALSE
    /\ check = [pc |-> "idle", confined |-> "none", at |-> 0, verdict |-> "none"]

-----------------------------------------------------------------------------
(* The host, as Python sees it.                                            *)

\* main reads stdin to its end, before it does anything else.
HostReads ==
    /\ HostRuns
    /\ host' = [host EXCEPT !.reads = TRUE]
    /\ UNCHANGED <<launch, handleVars, timerVars, watchVars, callVars>>

\* The end of stdin comes when launch() has closed the pipe.
Answering ==
    /\ HostRuns
    /\ host.reads
    /\ host.line = None
    /\ launch \notin {"spawn", "encode", "write"}

\* "started", with the target's handle duplicated into this process before.
HostStarts ==
    /\ Answering
    /\ host' = [host EXCEPT !.line = "started"]
    /\ dup' = "parent"
    /\ UNCHANGED <<launch, given, closes, timerVars, watchVars, callVars>>

\* An error line, after which the host exits.
HostRefuses ==
    /\ Answering
    /\ host' = [host EXCEPT !.line = "error", !.st = "dead"]
    /\ UNCHANGED <<launch, handleVars, timerVars, watchVars, callVars>>

\* The final line and the event, when the target has exited.
HostSignals ==
    /\ HostRuns
    /\ host.line = "started"
    /\ ~host.signalled
    /\ host' = [host EXCEPT !.signalled = TRUE]
    /\ UNCHANGED <<launch, handleVars, timerVars, watchVars, callVars>>

\* The host returns after signalling, or crashes at any moment.
HostEnds ==
    /\ HostRuns
    /\ HostDies
    /\ UNCHANGED <<launch, handleVars, timerVars, watchVars, callVars>>

-----------------------------------------------------------------------------
(* launch()                                                                *)

\* The finally block of launch(): _kill_and_drain.
Raise ==
    /\ launch' = "raised"
    /\ HostDies

\* _spawn_host
Spawn ==
    /\ launch = "spawn"
    /\ \/ /\ launch' = "encode"
          /\ host' = [host EXCEPT !.st = "running"]
       \/ /\ launch' = "raised"
          /\ UNCHANGED host
    /\ UNCHANGED <<handleVars, timerVars, watchVars, callVars>>

\* Faulty: only the reading of the answer is under the finally.
EncodeUnguarded ==
    /\ launch = "encode"
    /\ launch' \in {"write", "raised"}
    /\ UNCHANGED <<host, handleVars, timerVars, watchVars, callVars>>

\* The request as bytes: a string with a lone surrogate has none, and raises.
Encode ==
    /\ launch = "encode"
    /\ \/ launch' = "write" /\ UNCHANGED host
       \/ Raise
    /\ UNCHANGED <<handleVars, timerVars, watchVars, callVars>>

\* The pipe is full, and nobody empties it: write and flush do not return.
Blocked == launch = "write" /\ payload = "long" /\ HostRuns /\ ~host.reads

\* write, flush and close, which fail when nobody holds the other end.
WriteHandshake ==
    /\ launch = "write"
    /\ ~Blocked
    /\ \/ HostRuns /\ launch' = "arm" /\ UNCHANGED host
       \/ ~HostRuns /\ Raise
    /\ UNCHANGED <<handleVars, timerVars, watchVars, callVars>>

\* The timer runs from here on only.
StartTimer ==
    /\ launch = "arm"
    /\ launch' = "read"
    /\ timer' = "armed"
    /\ UNCHANGED <<host, handleVars, timedOut, watchVars, callVars>>

\* readline returns a line, or nothing once the host is dead; cancel() stops
\* a timer that has not gone off yet.
ReadLine ==
    /\ launch = "read"
    /\ host.line # None \/ ~HostRuns
    /\ launch' = "check"
    /\ timer' = IF timer = "armed" THEN "cancelled" ELSE timer
    /\ UNCHANGED <<host, handleVars, timedOut, watchVars, callVars>>

\* The tests after readline, and _validate_handshake_response.
CheckLine ==
    /\ launch = "check"
    /\ IF timedOut \/ host.line # "started"
         THEN Raise
         ELSE launch' = "threads" /\ UNCHANGED host
    /\ UNCHANGED <<handleVars, timerVars, watchVars, callVars>>

\* _build_sandbox_handle and _start_background_threads: the handle now owns
\* the duplicated one.
StartThreads ==
    /\ launch = "threads"
    /\ dup' = "handle"
    /\ watcher' = [watcher EXCEPT !.pc = "open"]
    /\ launch' = "return"
    /\ UNCHANGED <<host, given, closes, timerVars, fired, cleaned, callVars>>

\* launch() returns; the user registers callbacks on the handle.
LaunchReturns ==
    /\ launch = "return"
    /\ launch' = IF use = "container" THEN "claim" ELSE "ok"
    /\ callbacks' = IF use = "direct" THEN Append(callbacks, None) ELSE callbacks
    /\ UNCHANGED <<host, handleVars, timerVars, watchVars, term, clash, check>>

\* Faulty: the claim reads the handle and leaves it in its place.
ClaimKeeps ==
    /\ launch = "claim"
    /\ IF dup = "handle"
         THEN /\ dup' = "handle"
              /\ launch' = "ok"
              /\ UNCHANGED term
         ELSE /\ launch' = "undo"
              /\ term' = [term EXCEPT ![Launcher].pc = "begin"]
              /\ UNCHANGED dup
    /\ UNCHANGED <<host, given, closes, timerVars, watchVars, callbacks,
                   clash, check>>

\* _launch_in_container takes the handle under the lock; when it is gone it
\* terminates the sandbox and raises.
Claim ==
    /\ launch = "claim"
    /\ IF dup = "handle"
         THEN /\ dup' = "process"
              /\ launch' = "ok"
              /\ UNCHANGED term
         ELSE /\ launch' = "undo"
              /\ term' = [term EXCEPT ![Launcher].pc = "begin"]
              /\ UNCHANGED dup
    /\ UNCHANGED <<host, given, closes, timerVars, watchVars, callbacks,
                   clash, check>>

\* RuntimeError: "did not report a process_handle ... an older build".
Blame ==
    /\ launch = "undo"
    /\ term[Launcher].pc = "returned"
    /\ launch' = "blamed"
    /\ UNCHANGED <<host, handleVars, timerVars, watchVars, callVars>>

\* SandboxProcess.poll or wait has seen the target's exit, which this module
\* does not follow and which may come at any time: _close_handles.
ProcessCloses ==
    /\ launch = "ok"
    /\ dup = "process"
    /\ dup' = "closed"
    /\ closes' = closes + 1
    /\ UNCHANGED <<launch, host, given, timerVars, watchVars, callVars>>

-----------------------------------------------------------------------------
(* The timer of the handshake, a thread of its own.                        *)

\* The 15 seconds are over, and cancel() has not been called yet.
TimerDue ==
    /\ timer = "armed"
    /\ timer' = "due"
    /\ UNCHANGED <<launch, host, handleVars, timedOut, watchVars, callVars>>

TimerFlags ==
    /\ timer = "due"
    /\ timer' = "flagged"
    /\ timedOut' = TRUE
    /\ UNCHANGED <<launch, host, handleVars, watchVars, callVars>>

\* Faulty: the timer only leaves a note.
TimerKillsNot ==
    /\ timer = "flagged"
    /\ timer' = "killed"
    /\ UNCHANGED <<launch, host, handleVars, timedOut, watchVars, callVars>>

TimerKills ==
    /\ timer = "flagged"
    /\ timer' = "killed"
    /\ HostDies
    /\ UNCHANGED <<launch, handleVars, timedOut, watchVars, callVars>>

-----------------------------------------------------------------------------
(* _watch_event                                                            *)

Watch(from, to) ==
    /\ watcher.pc = from
    /\ watcher' = [watcher EXCEPT !.pc = to]

\* OpenEventW fails once the host is gone, or for a reason of its own: then
\* ERROR is fired and the watcher waits for the host instead.
OpenEvent ==
    /\ \/ /\ HostRuns
          /\ Watch("open", "poll")
          /\ UNCHANGED fired
       \/ /\ Watch("open", "wait")
          /\ fired' = Append(fired, "ERROR")
    /\ UNCHANGED <<launch, host, handleVars, timerVars, cleaned, callVars>>

\* Faulty: the loop waits for the event and nothing else.
PollEventOnly ==
    /\ host.signalled
    /\ Watch("poll", "wait")
    /\ UNCHANGED <<launch, host, handleVars, timerVars, fired, cleaned,
                   callVars>>

\* The event is signalled, or a poll between two waits finds the host dead.
Poll ==
    /\ host.signalled \/ ~HostRuns
    /\ Watch("poll", "wait")
    /\ UNCHANGED <<launch, host, handleVars, timerVars, fired, cleaned,
                   callVars>>

\* A wait that fails ends the loop as well.
PollFails ==
    /\ Watch("poll", "wait")
    /\ UNCHANGED <<launch, host, handleVars, timerVars, fired, cleaned,
                   callVars>>

\* Faulty: the event is taken for the host's exit.
FireExitedEarly ==
    /\ Watch("wait", "revert")
    /\ fired' = Append(fired, "EXITED")
    /\ UNCHANGED <<launch, host, handleVars, timerVars, cleaned, callVars>>

\* proc.wait(), and EXITED.
FireExited ==
    /\ ~HostRuns
    /\ Watch("wait", "revert")
    /\ fired' = Append(fired, "EXITED")
    /\ UNCHANGED <<launch, host, handleVars, timerVars, cleaned, callVars>>

\* _revert_grants_if_configured, which never raises.
Revert ==
    /\ Watch("revert", "flag")
    /\ fired' = Append(fired, "revert")
    /\ UNCHANGED <<launch, host, handleVars, timerVars, cleaned, callVars>>

\* _fire(CLEANED_UP): the flag first ...
SetFlag ==
    /\ Watch("flag", "close")
    /\ cleaned' = TRUE
    /\ UNCHANGED <<launch, host, handleVars, timerVars, fired, callVars>>

\* Faulty: whoever has claimed the handle is not asked.
CloseHandleAnyway ==
    /\ Watch("close", "list")
    /\ dup' = "closed"
    /\ closes' = closes + 1
    /\ UNCHANGED <<launch, host, given, timerVars, fired, cleaned, callVars>>

\* ... then the handle, under the lock, unless somebody has claimed it ...
CloseHandle ==
    /\ Watch("close", "list")
    /\ IF dup = "handle" THEN dup' = "closed" /\ closes' = closes + 1
                         ELSE UNCHANGED <<dup, closes>>
    /\ UNCHANGED <<launch, host, given, timerVars, fired, cleaned, callVars>>

\* ... then the callbacks: get(event, []) finds the list, or an empty one of
\* its own if nobody has registered yet.
GetCallbacks ==
    /\ Watch("list", IF callbacks = <<>> THEN "end" ELSE "call")
    /\ fired' = Append(fired, "CLEANED_UP")
    /\ UNCHANGED <<launch, host, handleVars, timerVars, cleaned, callVars>>

\* The next callback, among them those that are appended meanwhile.  That of
\* terminate() leaves set_result to its event loop, unless the future is done.
CallBack ==
    /\ watcher.pc = "call"
    /\ IF watcher.next > Len(callbacks)
         THEN /\ watcher' = [watcher EXCEPT !.pc = "end"]
              /\ UNCHANGED term
         ELSE LET c == callbacks[watcher.next]
              IN  /\ watcher' = [watcher EXCEPT !.next = @ + 1]
                  /\ IF c # None /\ term[c].future = "pending"
                       THEN term' = [term EXCEPT ![c].due = TRUE]
                       ELSE UNCHANGED term
    /\ UNCHANGED <<launch, host, handleVars, timerVars, fired, cleaned,
                   callbacks, clash, check>>

-----------------------------------------------------------------------------
(* SandboxHandle.terminate()                                               *)

Move(c, from, to) ==
    /\ term[c].pc = from
    /\ term' = [term EXCEPT ![c].pc = to]

\* A user may call it once launch() has returned.
Terminate(c) ==
    /\ c \in Users
    /\ use \in {"direct", "container"}
    /\ launch = "ok"
    /\ Move(c, "idle", "begin")
    /\ UNCHANGED <<launch, host, handleVars, timerVars, watchVars,
                   callbacks, clash, check>>

\* The future, and its callback in the list.
Register(c) ==
    /\ term[c].pc = "begin"
    /\ term' = [term EXCEPT ![c].pc = "look", ![c].future = "pending"]
    /\ callbacks' = Append(callbacks, c)
    /\ UNCHANGED <<launch, host, handleVars, timerVars, watchVars, clash,
                   check>>

\* Faulty: a sandbox that is already clean leaves it to the callback.
LookWaits(c) ==
    /\ Move(c, "look", IF cleaned THEN "await" ELSE "stop")
    /\ UNCHANGED <<launch, host, handleVars, timerVars, watchVars,
                   callbacks, clash, check>>

\* if self._cleaned_up: resolve the future here.
Look(c) ==
    /\ term[c].pc = "look"
    /\ IF cleaned
         THEN term' = [term EXCEPT ![c].pc = "await", ![c].future = "done"]
         ELSE term' = [term EXCEPT ![c].pc = "stop"]
    /\ UNCHANGED <<launch, host, handleVars, timerVars, watchVars,
                   callbacks, clash, check>>

\* Faulty: no wait for CLEANED_UP after the kill.
StopHostAnswers(c) ==
    /\ term[c].pc = "stop"
    /\ term' = [term EXCEPT ![c].pc = "await", ![c].future = "done"]
    /\ HostDies
    /\ UNCHANGED <<launch, handleVars, timerVars, watchVars, callbacks,
                   clash, check>>

\* elif the host is alive: proc.terminate().
StopHost(c) ==
    /\ Move(c, "stop", "await")
    /\ HostDies
    /\ UNCHANGED <<launch, handleVars, timerVars, watchVars, callbacks,
                   clash, check>>

\* The event loop runs the set_result that the callback has left for it.
Resolve(c) ==
    /\ term[c].pc \in {"await", "returned"}
    /\ term[c].due
    /\ term' = [term EXCEPT ![c].due = FALSE, ![c].future = "done"]
    /\ clash' = (clash \/ term[c].future = "done")
    /\ UNCHANGED <<launch, host, handleVars, timerVars, watchVars,
                   callbacks, check>>

TerminateReturns(c) ==
    /\ term[c].future = "done"
    /\ Move(c, "await", "returned")
    /\ UNCHANGED <<launch, host, handleVars, timerVars, watchVars,
                   callbacks, clash, check>>

-----------------------------------------------------------------------------

HostSteps   == HostReads \/ HostStarts \/ HostRefuses \/ HostSignals \/ HostEnds
LaunchSteps == Spawn \/ Encode \/ WriteHandshake \/ StartTimer \/ ReadLine
               \/ CheckLine \/ StartThreads \/ LaunchReturns \/ Claim \/ Blame
TimerSteps  == TimerFlags \/ TimerKills
WatchSteps  == OpenEvent \/ Poll \/ FireExited \/ Revert \/ SetFlag
               \/ CloseHandle \/ GetCallbacks \/ CallBack
CallerSteps(c) == Register(c) \/ Look(c) \/ StopHost(c) \/ Resolve(c)
                  \/ TerminateReturns(c)

Next ==
    \/ HostSteps
    \/ LaunchSteps
    \/ ProcessCloses
    \/ TimerDue \/ TimerSteps
    \/ WatchSteps \/ PollFails
    \/ \E c \in Callers : Terminate(c) \/ CallerSteps(c)

Spec == Init /\ [][Next]_vars

\* Every thread of this process goes on when it can, which a write to a full
\* pipe cannot; the host need not do anything of its own accord, not even
\* read, and the handshake's timer goes off in the end.
Fairness ==
    /\ WF_vars(LaunchSteps)
    /\ WF_vars(TimerDue \/ TimerSteps)
    /\ WF_vars(WatchSteps)
    /\ \A c \in Callers : WF_vars(CallerSteps(c))

FairSpec == Spec /\ Fairness

-----------------------------------------------------------------------------
(* Properties                                                              *)

\* Every variable has its type.
TypeOK ==
    /\ payload \in {"fits", "long"}
    /\ use \in Uses
    /\ launch \in {"spawn", "encode", "write", "arm", "read", "check", "threads",
                   "return", "claim", "undo", "ok", "raised", "blamed"}
    /\ timer \in {"off", "armed", "cancelled", "due", "flagged", "killed"}
    /\ timedOut \in BOOLEAN
    /\ host \in HostState
    /\ dup \in {"none", "parent", "handle", "process", "closed"}
    /\ closes \in 0..1
    /\ watcher \in WatcherState
    /\ fired \in Seq(Events)
    /\ cleaned \in BOOLEAN
    /\ callbacks \in Seq(Callers \cup {None})
    /\ term \in [Callers -> CallState]
    /\ clash \in BOOLEAN
    /\ check \in CheckState

\* EXITED, the revert of the grants and CLEANED_UP come once each and in this
\* order, after the host has died; at most one ERROR comes before them.
EventsInOrder ==
    /\ \E full \in {<<"EXITED", "revert", "CLEANED_UP">>,
                    <<"ERROR", "EXITED", "revert", "CLEANED_UP">>} :
           IsPrefix(fired, full)
    /\ Contains(fired, "EXITED") => ~HostRuns

\* The duplicated handle has one owner, who closes it once: the watcher
\* closes it only while it is the handle's, and once it is done with a
\* sandbox that launch() has returned, nobody has forgotten it.
HandleHasOneOwner ==
    /\ closes = (IF dup = "closed" THEN 1 ELSE 0)
    /\ use = "container" /\ launch = "ok" => dup \in {"process", "closed"}
    /\ watcher.pc = "end" => dup # "handle"

\* launch() that raises leaves no host running.
RaisedMeansDead == launch = "raised" => ~HostRuns

\* terminate() of anybody returns only when CLEANED_UP is on its way and the
\* host is dead.
ReturnedMeansClean ==
    \A c \in Callers : term[c].pc = "returned" => cleaned /\ ~HostRuns

\* Whoever calls terminate(), at whatever moment of the watcher's work,
\* alone or with others, gets an answer.
TerminateAnswers ==
    \A c \in Callers : term[c].pc = "begin" ~> term[c].pc = "returned"

\* A sandbox whose host has died, by itself or by force, is cleaned up.
CleanedUpInTheEnd ==
    launch \in {"return", "claim", "ok"} /\ ~HostRuns ~> Contains(fired, "CLEANED_UP")

\* launch() comes to an end, although the host may be silent for ever, but
\* for one case: no timer runs while _write_handshake writes, which waits as
\* long as a live host leaves a full pipe unread.
LaunchEnds ==
    launch = "spawn" ~> launch \in {"ok", "raised", "blamed"} \/ []Blocked

\* "CLEANED_UP already fired before we registered the callback; the callback
\* will never be invoked, so resolve the future now": a future is resolved
\* by terminate() or by the callback, not by both.
ResolvedOnce == ~clash
=============================================================================
