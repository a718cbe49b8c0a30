------------------------------- MODULE Checker -------------------------------
(***************************************************************************)
(* The checks of checker.py as clients of SandboxLifecycle: the baseline   *)
(* launch, which waits 5 seconds for CLEANED_UP, and the probes, which     *)
(* wait 30 seconds for the host.  A check looks at the confinement through *)
(* the duplicated handle, waits, tidies up and gives its verdict, while    *)
(* the watcher of the sandbox does its own work.                           *)
(***************************************************************************)
EXTENDS SandboxLifecycle

Checks == {"baseline", "probe"}

otherVars == <<launch, handleVars, timerVars, watchVars, clash>>

\* launch() raises: every check of this launch fails, and none is tidied up.
LaunchFailed ==
    /\ use \in Checks /\ check.pc = "idle"
    /\ launch = "raised"
    /\ check' = [check EXCEPT !.pc = "end", !.confined = "FAIL", !.verdict = "FAIL"]
    /\ UNCHANGED <<otherVars, host, callbacks, term>>

\* _verify_confinement, under the handle's lock: the token is asked for
\* while CLEANED_UP cannot close the handle, or there is none any more.
Verify ==
    /\ use \in Checks /\ check.pc = "idle"
    /\ launch = "ok"
    /\ \E found \in {"PASS", "FAIL"} :
         /\ dup # "handle" => found = "FAIL"
         /\ check' = [check EXCEPT !.pc = IF use = "baseline" THEN "listen" ELSE "wait",
                                   !.confined = found]
    /\ UNCHANGED <<otherVars, host, callbacks, term>>

\* handle.on(CLEANED_UP, on_cleaned_up)
Listen ==
    /\ check.pc = "listen"
    /\ callbacks' = Append(callbacks, None)
    /\ check' = [check EXCEPT !.pc = "await", !.at = Len(callbacks')]
    /\ UNCHANGED <<otherVars, host, term>>

\* The watcher has called it.
Told ==
    /\ check.pc = "await"
    /\ watcher.next > check.at
    /\ check' = [check EXCEPT !.pc = "reset", !.verdict = "PASS"]
    /\ UNCHANGED <<otherVars, host, callbacks, term>>

\* Faulty: a launch that is late is reported and left alone.
GiveUpOnly ==
    /\ check.pc = "await"
    /\ check' = [check EXCEPT !.pc = "reset", !.verdict = "FAIL"]
    /\ UNCHANGED <<otherVars, host, callbacks, term>>

\* The 5 seconds are over: await handle.terminate() ...
GiveUp ==
    /\ check.pc = "await"
    /\ check' = [check EXCEPT !.pc = "undo"]
    /\ term' = [term EXCEPT ![Launcher].pc = "begin"]
    /\ UNCHANGED <<otherVars, host, callbacks>>

\* ... which returns once the sandbox is clean.
Undone ==
    /\ check.pc = "undo"
    /\ term[Launcher].pc = "returned"
    /\ check' = [check EXCEPT !.pc = "reset", !.verdict = "FAIL"]
    /\ UNCHANGED <<otherVars, host, callbacks, term>>

\* A probe's host has exited, with the code of the probe if it got as far as
\* reporting it.
ProbeExits ==
    /\ check.pc = "wait"
    /\ ~HostRuns
    /\ \E passed \in BOOLEAN :
         /\ passed => host.signalled
         /\ check' = [check EXCEPT !.pc = "reset",
                !.verdict = IF passed /\ check.confined = "PASS" THEN "PASS" ELSE "FAIL"]
    /\ UNCHANGED <<otherVars, host, callbacks, term>>

\* Faulty: the probe is waited for without being terminated.
OverdueWaits ==
    /\ check.pc = "wait"
    /\ check' = [check EXCEPT !.pc = "late"]
    /\ UNCHANGED <<otherVars, host, callbacks, term>>

\* The 30 seconds are over.
Overdue ==
    /\ check.pc = "wait"
    /\ HostDies
    /\ check' = [check EXCEPT !.pc = "late"]
    /\ UNCHANGED <<otherVars, callbacks, term>>

LateExit ==
    /\ check.pc = "late"
    /\ ~HostRuns
    /\ check' = [check EXCEPT !.pc = "reset", !.verdict = "FAIL"]
    /\ UNCHANGED <<otherVars, host, callbacks, term>>

\* reset_container, whose errors are dropped: see GrantSession.
Reset ==
    /\ check.pc = "reset"
    /\ check' = [check EXCEPT !.pc = "end"]
    /\ UNCHANGED <<otherVars, host, callbacks, term>>

CheckSteps == LaunchFailed \/ Verify \/ Listen \/ Told \/ GiveUp \/ Undone
              \/ ProbeExits \/ Overdue \/ LateExit \/ Reset

CheckerNext == Next \/ CheckSteps

\* The timeouts of asyncio.wait_for fire.
CheckerSpec == Init /\ [][CheckerNext]_vars /\ Fairness /\ WF_vars(CheckSteps)

-----------------------------------------------------------------------------
(* Properties                                                              *)

\* A check that has given its verdict leaves no host running.  It says that
\* a sandbox was launched and terminated cleanly only when CLEANED_UP came by
\* itself, that a probe passed only when the host said so and the token was
\* seen, and it misses the handle only when CLEANED_UP was there first.
VerdictsAreTrue ==
    /\ check.pc \in {"reset", "end"} => ~HostRuns
    /\ check.verdict = "PASS" =>
         \/ use = "baseline" /\ cleaned /\ term[Launcher].pc = "idle"
         \/ use = "probe" /\ check.confined = "PASS" /\ host.signalled
    /\ use \in Checks /\ launch = "ok" /\ dup # "handle" => cleaned

\* Every check gives its verdict in the end, whatever the sandbox does, unless
\* its launch never ends: see LaunchEnds.
CheckEnds == use \in Checks ~> check.pc = "end" \/ []Blocked
=============================================================================
