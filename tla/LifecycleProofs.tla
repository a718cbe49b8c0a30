--------------------------- MODULE LifecycleProofs ---------------------------
(***************************************************************************)
(* Proofs about one sandbox and whoever has launched it, a check of        *)
(* checker.py among them: for any number of callers of terminate() and any *)
(* use, whatever the host does and however the threads take turns.         *)
(***************************************************************************)
EXTENDS Checker, SequenceTheorems, TLAPS

\* launch() before there is a SandboxHandle, or without there being one.
Early == {"spawn", "encode", "write", "arm", "read", "check", "threads", "raised"}

\* The watcher after it has seen the host dead, and after the flag.
HostGone == {"revert", "flag", "close", "list", "call", "end"}
Flagged  == {"close", "list", "call", "end"}

\* Who has the duplicated handle, by the steps of launch() and the watcher.
Owned ==
    /\ dup = "none" <=> host.line # "started"
    /\ launch = "spawn" => ~HostRuns
    /\ launch = "threads" => host.line = "started"
    /\ watcher.pc = "off" <=> launch \in Early
    /\ launch \in Early => dup \in {"none", "parent"}
    /\ launch \notin Early => dup \in {"handle", "process", "closed"}
    /\ launch \in {"claim", "undo", "blamed"} => use = "container"
    /\ use = "container" /\ launch = "ok" => dup \in {"process", "closed"}
    /\ dup = "process" => launch = "ok" /\ use = "container"
    /\ dup = "closed" /\ use # "container" => cleaned
    /\ watcher.pc \in {"list", "call", "end"} => dup # "handle"
    /\ closes = (IF dup = "closed" THEN 1 ELSE 0)

\* What the watcher has done by the step it is at.
Watched ==
    /\ watcher.pc \in {"off", "open", "poll"} => fired = <<>>
    /\ watcher.pc = "wait" => fired \in {<<>>, <<"ERROR">>}
    /\ watcher.pc = "revert" => fired \in {<<"EXITED">>, <<"ERROR", "EXITED">>}
    /\ watcher.pc \in {"flag", "close", "list"} =>
         fired \in {<<"EXITED", "revert">>, <<"ERROR", "EXITED", "revert">>}
    /\ watcher.pc \in {"call", "end"} =>
         fired \in {<<"EXITED", "revert", "CLEANED_UP">>,
                    <<"ERROR", "EXITED", "revert", "CLEANED_UP">>}
    /\ watcher.pc \in HostGone => ~HostRuns
    /\ cleaned <=> watcher.pc \in Flagged
    /\ watcher.next # 1 => watcher.pc \in {"call", "end"}

\* A future is resolved, or about to be, only once the flag is set.
Answered ==
    \A c \in Callers :
        /\ term[c].due \/ term[c].future = "done" => cleaned
        /\ term[c].pc = "returned" => term[c].future = "done"

\* What a check has established by the step it is at.
Checked ==
    /\ check.pc # "idle" => use \in Checks /\ launch \in {"ok", "raised"}
    /\ check.pc \in {"listen", "await", "undo"} => use = "baseline"
    /\ check.pc \in {"wait", "late"} => use = "probe"
    /\ check.pc = "await" => check.at # 0
    /\ check.pc \in {"reset", "end"} => ~HostRuns
    /\ check.verdict = "PASS" =>
         /\ check.pc \in {"reset", "end"}
         /\ \/ use = "baseline" /\ cleaned
            \/ use = "probe" /\ check.confined = "PASS" /\ host.signalled
    /\ use = "baseline" /\ (check.pc \in {"idle", "listen", "await"}
                               \/ check.verdict = "PASS") => term[Launcher].pc = "idle"

LifeInv ==
    /\ TypeOK
    /\ RaisedMeansDead
    /\ Owned
    /\ Watched
    /\ Answered
    /\ Checked

-----------------------------------------------------------------------------

\* What Append returns, told by its elements.
LEMMA AppendIs ==
    ASSUME NEW S, NEW s \in Seq(S), NEW t \in Seq(S), NEW e \in S,
           Len(t) = Len(s) + 1, \A i \in 1..Len(s) : t[i] = s[i], t[Len(s) + 1] = e
    PROVE  Append(s, e) = t
<1>1. /\ Append(s, e) \in Seq(S)
      /\ Len(Append(s, e)) = Len(s) + 1
      /\ \A i \in 1..Len(s) : Append(s, e)[i] = s[i]
      /\ Append(s, e)[Len(s) + 1] = e
  BY AppendProperties
<1>2. Len(s) \in Nat
  BY LenProperties
<1>3. \A i \in 1..Len(Append(s, e)) : Append(s, e)[i] = t[i]
  BY <1>1, <1>2
<1> QED
  BY <1>1, <1>3, SeqEqual

\* The lists of events that the watcher goes through.
LEMMA EventFacts ==
    /\ Append(<<>>, "ERROR") = <<"ERROR">>
    /\ Append(<<>>, "EXITED") = <<"EXITED">>
    /\ Append(<<"ERROR">>, "EXITED") = <<"ERROR", "EXITED">>
    /\ Append(<<"EXITED">>, "revert") = <<"EXITED", "revert">>
    /\ Append(<<"ERROR", "EXITED">>, "revert") = <<"ERROR", "EXITED", "revert">>
    /\ Append(<<"EXITED", "revert">>, "CLEANED_UP") = <<"EXITED", "revert", "CLEANED_UP">>
    /\ Append(<<"ERROR", "EXITED", "revert">>, "CLEANED_UP")
         = <<"ERROR", "EXITED", "revert", "CLEANED_UP">>
<1>1. Append(<<>>, "ERROR") = <<"ERROR">>
  <2> DEFINE s == <<>>
             t == <<"ERROR">>
  <2>1. s \in Seq(Events) /\ t \in Seq(Events) /\ "ERROR" \in Events
    BY DEF Events
  <2>2. /\ Len(t) = Len(s) + 1
        /\ \A i \in 1..Len(s) : t[i] = s[i]
        /\ t[Len(s) + 1] = "ERROR"
    OBVIOUS
  <2>3. Append(s, "ERROR") = t
    <3> HIDE DEF s, t
    <3> QED
      BY <2>1, <2>2, AppendIs
  <2> QED
    BY <2>3
<1>2. Append(<<>>, "EXITED") = <<"EXITED">>
  <2> DEFINE s == <<>>
             t == <<"EXITED">>
  <2>1. s \in Seq(Events) /\ t \in Seq(Events) /\ "EXITED" \in Events
    BY DEF Events
  <2>2. /\ Len(t) = Len(s) + 1
        /\ \A i \in 1..Len(s) : t[i] = s[i]
        /\ t[Len(s) + 1] = "EXITED"
    OBVIOUS
  <2>3. Append(s, "EXITED") = t
    <3> HIDE DEF s, t
    <3> QED
      BY <2>1, <2>2, AppendIs
  <2> QED
    BY <2>3
<1>3. Append(<<"ERROR">>, "EXITED") = <<"ERROR", "EXITED">>
  <2> DEFINE s == <<"ERROR">>
             t == <<"ERROR", "EXITED">>
  <2>1. s \in Seq(Events) /\ t \in Seq(Events) /\ "EXITED" \in Events
    BY DEF Events
  <2>2. /\ Len(t) = Len(s) + 1
        /\ \A i \in 1..Len(s) : t[i] = s[i]
        /\ t[Len(s) + 1] = "EXITED"
    OBVIOUS
  <2>3. Append(s, "EXITED") = t
    <3> HIDE DEF s, t
    <3> QED
      BY <2>1, <2>2, AppendIs
  <2> QED
    BY <2>3
<1>4. Append(<<"EXITED">>, "revert") = <<"EXITED", "revert">>
  <2> DEFINE s == <<"EXITED">>
             t == <<"EXITED", "revert">>
  <2>1. s \in Seq(Events) /\ t \in Seq(Events) /\ "revert" \in Events
    BY DEF Events
  <2>2. /\ Len(t) = Len(s) + 1
        /\ \A i \in 1..Len(s) : t[i] = s[i]
        /\ t[Len(s) + 1] = "revert"
    OBVIOUS
  <2>3. Append(s, "revert") = t
    <3> HIDE DEF s, t
    <3> QED
      BY <2>1, <2>2, AppendIs
  <2> QED
    BY <2>3
<1>5. Append(<<"ERROR", "EXITED">>, "revert") = <<"ERROR", "EXITED", "revert">>
  <2> DEFINE s == <<"ERROR", "EXITED">>
             t == <<"ERROR", "EXITED", "revert">>
  <2>1. s \in Seq(Events) /\ t \in Seq(Events) /\ "revert" \in Events
    BY DEF Events
  <2>2. /\ Len(t) = Len(s) + 1
        /\ \A i \in 1..Len(s) : t[i] = s[i]
        /\ t[Len(s) + 1] = "revert"
    OBVIOUS
  <2>3. Append(s, "revert") = t
    <3> HIDE DEF s, t
    <3> QED
      BY <2>1, <2>2, AppendIs
  <2> QED
    BY <2>3
<1>6. Append(<<"EXITED", "revert">>, "CLEANED_UP") = <<"EXITED", "revert", "CLEANED_UP">>
  <2> DEFINE s == <<"EXITED", "revert">>
             t == <<"EXITED", "revert", "CLEANED_UP">>
  <2>1. s \in Seq(Events) /\ t \in Seq(Events) /\ "CLEANED_UP" \in Events
    BY DEF Events
  <2>2. /\ Len(t) = Len(s) + 1
        /\ \A i \in 1..Len(s) : t[i] = s[i]
        /\ t[Len(s) + 1] = "CLEANED_UP"
    OBVIOUS
  <2>3. Append(s, "CLEANED_UP") = t
    <3> HIDE DEF s, t
    <3> QED
      BY <2>1, <2>2, AppendIs
  <2> QED
    BY <2>3
<1>7. Append(<<"ERROR", "EXITED", "revert">>, "CLEANED_UP") = <<"ERROR", "EXITED", "revert", "CLEANED_UP">>
  <2> DEFINE s == <<"ERROR", "EXITED", "revert">>
             t == <<"ERROR", "EXITED", "revert", "CLEANED_UP">>
  <2>1. s \in Seq(Events) /\ t \in Seq(Events) /\ "CLEANED_UP" \in Events
    BY DEF Events
  <2>2. /\ Len(t) = Len(s) + 1
        /\ \A i \in 1..Len(s) : t[i] = s[i]
        /\ t[Len(s) + 1] = "CLEANED_UP"
    OBVIOUS
  <2>3. Append(s, "CLEANED_UP") = t
    <3> HIDE DEF s, t
    <3> QED
      BY <2>1, <2>2, AppendIs
  <2> QED
    BY <2>3
<1> QED
  BY <1>1, <1>2, <1>3, <1>4, <1>5, <1>6, <1>7

\* The initial state.
LEMMA InitLives == Init => LifeInv
<1> SUFFICES ASSUME Init PROVE LifeInv
  OBVIOUS
<1>1. TypeOK
  <2>1. fired \in Seq(Events) /\ callbacks \in Seq(Callers \cup {None})
    BY DEF Init
  <2>2. host \in HostState /\ watcher \in WatcherState /\ check \in CheckState
    BY DEF Init, HostState, WatcherState, CheckState
  <2>3. term \in [Callers -> CallState]
    BY DEF Init, CallState
  <2>4. closes \in 0..1 /\ use \in Uses
    BY DEF Init
  <2> QED
    BY <2>1, <2>2, <2>3, <2>4 DEF Init, TypeOK
<1>2. RaisedMeansDead /\ Owned
  BY CallerAssumption DEF Init, RaisedMeansDead, Owned, HostRuns, Early
<1>3. Watched /\ Answered
  BY DEF Init, Watched, Answered, HostRuns, HostGone, Flagged
<1>4. Checked
  BY DEF Init, Checked, Checks, Callers
<1> QED
  BY <1>1, <1>2, <1>3, <1>4 DEF LifeInv

\* The host.
LEMMA HostLives ==
    ASSUME LifeInv, HostSteps
    PROVE  LifeInv'
<1> USE DEF LifeInv, given, handleVars, timerVars, watchVars, callVars
<1>1. CASE HostStarts
  <2>1. TypeOK'
    <3>1. host' \in HostState
      BY <1>1 DEF HostStarts, Answering, TypeOK, HostState
    <3> QED
      BY <1>1, <3>1 DEF HostStarts, Answering, TypeOK
  <2>2. RaisedMeansDead' /\ Owned'
    BY <1>1, CallerAssumption DEF HostStarts, Answering, TypeOK, HostState, WatcherState, RaisedMeansDead,
       Owned, Watched, HostRuns, Early, Flagged
  <2>3. Watched' /\ Answered'
    BY <1>1 DEF HostStarts, Answering, TypeOK, HostState, WatcherState, CallState, Owned,
       Watched, Answered, HostRuns, Early, Flagged, HostGone
  <2>4. Checked'
    BY <1>1 DEF HostStarts, Answering, TypeOK, HostState, WatcherState, CallState, CheckState, Owned,
       Watched, Answered, Checked, Checks, HostRuns, Early, Flagged, HostGone, Callers
  <2> QED
    BY <2>1, <2>2, <2>3, <2>4
<1>2. CASE HostRefuses
  <2>1. TypeOK'
    <3>1. host' \in HostState
      BY <1>2 DEF HostRefuses, Answering, TypeOK, HostState
    <3> QED
      BY <1>2, <3>1 DEF HostRefuses, Answering, TypeOK
  <2>2. RaisedMeansDead' /\ Owned'
    BY <1>2, CallerAssumption DEF HostRefuses, Answering, TypeOK, HostState, WatcherState, RaisedMeansDead,
       Owned, Watched, HostRuns, Early, Flagged
  <2>3. Watched' /\ Answered'
    BY <1>2 DEF HostRefuses, Answering, TypeOK, HostState, WatcherState, CallState, Owned,
       Watched, Answered, HostRuns, Early, Flagged, HostGone
  <2>4. Checked'
    BY <1>2 DEF HostRefuses, Answering, TypeOK, HostState, WatcherState, CallState, CheckState, Owned,
       Watched, Answered, Checked, Checks, HostRuns, Early, Flagged, HostGone, Callers
  <2> QED
    BY <2>1, <2>2, <2>3, <2>4
<1>3. CASE HostSignals
  <2>1. TypeOK'
    <3>1. host' \in HostState
      BY <1>3 DEF HostSignals, TypeOK, HostState
    <3> QED
      BY <1>3, <3>1 DEF HostSignals, TypeOK
  <2>2. RaisedMeansDead' /\ Owned'
    BY <1>3, CallerAssumption DEF HostSignals, TypeOK, HostState, WatcherState, RaisedMeansDead,
       Owned, Watched, HostRuns, Early, Flagged
  <2>3. Watched' /\ Answered'
    BY <1>3 DEF HostSignals, TypeOK, HostState, WatcherState, CallState, Owned,
       Watched, Answered, HostRuns, Early, Flagged, HostGone
  <2>4. Checked'
    BY <1>3 DEF HostSignals, TypeOK, HostState, WatcherState, CallState, CheckState, Owned,
       Watched, Answered, Checked, Checks, HostRuns, Early, Flagged, HostGone, Callers
  <2> QED
    BY <2>1, <2>2, <2>3, <2>4
<1>4. CASE HostEnds
  <2>1. TypeOK'
    <3>1. host' \in HostState
      BY <1>4 DEF HostEnds, HostDies, TypeOK, HostState
    <3> QED
      BY <1>4, <3>1 DEF HostEnds, HostDies, TypeOK
  <2>2. RaisedMeansDead' /\ Owned'
    BY <1>4, CallerAssumption DEF HostEnds, HostDies, TypeOK, HostState, WatcherState, RaisedMeansDead,
       Owned, Watched, HostRuns, Early, Flagged
  <2>3. Watched' /\ Answered'
    BY <1>4 DEF HostEnds, HostDies, TypeOK, HostState, WatcherState, CallState, Owned,
       Watched, Answered, HostRuns, Early, Flagged, HostGone
  <2>4. Checked'
    BY <1>4 DEF HostEnds, HostDies, TypeOK, HostState, WatcherState, CallState, CheckState, Owned,
       Watched, Answered, Checked, Checks, HostRuns, Early, Flagged, HostGone, Callers
  <2> QED
    BY <2>1, <2>2, <2>3, <2>4
<1>5. CASE HostReads
  <2>1. TypeOK'
    <3>1. host' \in HostState
      BY <1>5 DEF HostReads, TypeOK, HostState
    <3> QED
      BY <1>5, <3>1 DEF HostReads, TypeOK
  <2>2. RaisedMeansDead' /\ Owned'
    BY <1>5, CallerAssumption DEF HostReads, TypeOK, HostState, WatcherState, RaisedMeansDead,
       Owned, Watched, HostRuns, Early, Flagged
  <2>3. Watched' /\ Answered'
    BY <1>5 DEF HostReads, TypeOK, HostState, WatcherState, CallState, Owned,
       Watched, Answered, HostRuns, Early, Flagged, HostGone
  <2>4. Checked'
    BY <1>5 DEF HostReads, TypeOK, HostState, WatcherState, CallState, CheckState, Owned,
       Watched, Answered, Checked, Checks, HostRuns, Early, Flagged, HostGone, Callers
  <2> QED
    BY <2>1, <2>2, <2>3, <2>4
<1> QED
  BY <1>1, <1>2, <1>3, <1>4, <1>5 DEF HostSteps

\* launch() and _launch_in_container.
LEMMA LaunchLives ==
    ASSUME LifeInv, LaunchSteps \/ ProcessCloses
    PROVE  LifeInv'
<1> USE DEF LifeInv, given, handleVars, timerVars, watchVars, callVars
<1>1. CASE Spawn
  <2>1. TypeOK'
    <3>1. host' \in HostState
      BY <1>1 DEF Spawn, TypeOK, HostState
    <3> QED
      BY <1>1, <3>1 DEF Spawn, TypeOK
  <2>2. RaisedMeansDead' /\ Owned'
    <3>1. CASE launch' = "encode" /\ host' = [host EXCEPT !.st = "running"]
      BY <1>1, <3>1 DEF Spawn, TypeOK, HostState, WatcherState, RaisedMeansDead,
         Owned, HostRuns, Early
    <3>2. CASE launch' = "raised" /\ UNCHANGED host
      <4>1. ~HostRuns
        BY <1>1 DEF Spawn, Owned
      <4> QED
        BY <1>1, <3>2, <4>1 DEF Spawn, TypeOK, HostState, WatcherState, RaisedMeansDead,
           Owned, HostRuns, Early
    <3> QED
      BY <1>1, <3>1, <3>2 DEF Spawn
  <2>3. Watched' /\ Answered'
    BY <1>1 DEF Spawn, TypeOK, HostState, WatcherState, CallState, Owned,
       Watched, Answered, HostRuns, Early, Flagged, HostGone
  <2>4. Checked'
    BY <1>1 DEF Spawn, TypeOK, HostState, WatcherState, CallState, CheckState, Owned,
       Watched, Answered, Checked, Checks, HostRuns, Early, Flagged, HostGone, Callers
  <2> QED
    BY <2>1, <2>2, <2>3, <2>4
<1>2. CASE WriteHandshake
  <2>1. TypeOK'
    <3>1. host' \in HostState
      BY <1>2 DEF WriteHandshake, Blocked, Raise, HostDies, TypeOK, HostState
    <3> QED
      BY <1>2, <3>1 DEF WriteHandshake, Blocked, Raise, HostDies, TypeOK
  <2>2. RaisedMeansDead' /\ Owned'
    BY <1>2, CallerAssumption DEF WriteHandshake, Blocked, Raise, HostDies, TypeOK, HostState, WatcherState, RaisedMeansDead,
       Owned, Watched, HostRuns, Early, Flagged
  <2>3. Watched' /\ Answered'
    BY <1>2 DEF WriteHandshake, Blocked, Raise, HostDies, TypeOK, HostState, WatcherState, CallState, Owned,
       Watched, Answered, HostRuns, Early, Flagged, HostGone
  <2>4. Checked'
    BY <1>2 DEF WriteHandshake, Blocked, Raise, HostDies, TypeOK, HostState, WatcherState, CallState, CheckState, Owned,
       Watched, Answered, Checked, Checks, HostRuns, Early, Flagged, HostGone, Callers
  <2> QED
    BY <2>1, <2>2, <2>3, <2>4
<1>3. CASE ReadLine
  <2>1. TypeOK'
    BY <1>3 DEF ReadLine, TypeOK
  <2>2. RaisedMeansDead' /\ Owned'
    BY <1>3, CallerAssumption DEF ReadLine, TypeOK, HostState, WatcherState, RaisedMeansDead,
       Owned, Watched, HostRuns, Early, Flagged
  <2>3. Watched' /\ Answered'
    BY <1>3 DEF ReadLine, TypeOK, HostState, WatcherState, CallState, Owned,
       Watched, Answered, HostRuns, Early, Flagged, HostGone
  <2>4. Checked'
    BY <1>3 DEF ReadLine, TypeOK, HostState, WatcherState, CallState, CheckState, Owned,
       Watched, Answered, Checked, Checks, HostRuns, Early, Flagged, HostGone, Callers
  <2> QED
    BY <2>1, <2>2, <2>3, <2>4
<1>4. CASE CheckLine
  <2>1. TypeOK'
    <3>1. host' \in HostState
      BY <1>4 DEF CheckLine, Raise, HostDies, TypeOK, HostState
    <3> QED
      BY <1>4, <3>1 DEF CheckLine, Raise, HostDies, TypeOK
  <2>2. RaisedMeansDead' /\ Owned'
    BY <1>4, CallerAssumption DEF CheckLine, Raise, HostDies, TypeOK, HostState, WatcherState, RaisedMeansDead,
       Owned, Watched, HostRuns, Early, Flagged
  <2>3. Watched' /\ Answered'
    BY <1>4 DEF CheckLine, Raise, HostDies, TypeOK, HostState, WatcherState, CallState, Owned,
       Watched, Answered, HostRuns, Early, Flagged, HostGone
  <2>4. Checked'
    BY <1>4 DEF CheckLine, Raise, HostDies, TypeOK, HostState, WatcherState, CallState, CheckState, Owned,
       Watched, Answered, Checked, Checks, HostRuns, Early, Flagged, HostGone, Callers
  <2> QED
    BY <2>1, <2>2, <2>3, <2>4
<1>5. CASE StartThreads
  <2>1. TypeOK'
    <3>1. watcher' \in WatcherState
      BY <1>5 DEF StartThreads, TypeOK, WatcherState
    <3> QED
      BY <1>5, <3>1 DEF StartThreads, TypeOK
  <2>2. RaisedMeansDead' /\ Owned'
    BY <1>5, CallerAssumption DEF StartThreads, TypeOK, HostState, WatcherState, RaisedMeansDead,
       Owned, Watched, HostRuns, Early, Flagged
  <2>3. Watched' /\ Answered'
    BY <1>5 DEF StartThreads, TypeOK, HostState, WatcherState, CallState, Owned,
       Watched, Answered, HostRuns, Early, Flagged, HostGone
  <2>4. Checked'
    BY <1>5 DEF StartThreads, TypeOK, HostState, WatcherState, CallState, CheckState, Owned,
       Watched, Answered, Checked, Checks, HostRuns, Early, Flagged, HostGone, Callers
  <2> QED
    BY <2>1, <2>2, <2>3, <2>4
<1>6. CASE LaunchReturns
  <2>1. TypeOK'
    <3>1. callbacks' \in Seq(Callers \cup {None})
      BY <1>6 DEF LaunchReturns, TypeOK, Callers
    <3> QED
      BY <1>6, <3>1 DEF LaunchReturns, TypeOK
  <2>2. RaisedMeansDead' /\ Owned'
    BY <1>6, CallerAssumption DEF LaunchReturns, TypeOK, HostState, WatcherState, RaisedMeansDead,
       Owned, Watched, HostRuns, Early, Flagged
  <2>3. Watched' /\ Answered'
    BY <1>6 DEF LaunchReturns, TypeOK, HostState, WatcherState, CallState, Owned,
       Watched, Answered, HostRuns, Early, Flagged, HostGone
  <2>4. Checked'
    BY <1>6 DEF LaunchReturns, TypeOK, HostState, WatcherState, CallState, CheckState, Owned,
       Watched, Answered, Checked, Checks, HostRuns, Early, Flagged, HostGone, Callers
  <2> QED
    BY <2>1, <2>2, <2>3, <2>4
<1>7. CASE Claim
  <2>1. TypeOK'
    <3>1. term' \in [Callers -> CallState]
      BY <1>7 DEF Claim, TypeOK, CallState, Callers
    <3> QED
      BY <1>7, <3>1 DEF Claim, TypeOK
  <2>2. RaisedMeansDead' /\ Owned'
    BY <1>7, CallerAssumption DEF Claim, TypeOK, HostState, WatcherState, RaisedMeansDead,
       Owned, Watched, HostRuns, Early, Flagged
  <2>3. Watched' /\ Answered'
    BY <1>7 DEF Claim, TypeOK, HostState, WatcherState, CallState, Callers, Owned,
       Watched, Answered, HostRuns, Early, Flagged, HostGone
  <2>4. Checked'
    BY <1>7 DEF Claim, TypeOK, HostState, WatcherState, CallState, CheckState, Owned,
       Watched, Answered, Checked, Checks, HostRuns, Early, Flagged, HostGone, Callers
  <2> QED
    BY <2>1, <2>2, <2>3, <2>4
<1>8. CASE Blame
  <2>1. TypeOK'
    BY <1>8 DEF Blame, TypeOK
  <2>2. RaisedMeansDead' /\ Owned'
    BY <1>8, CallerAssumption DEF Blame, TypeOK, HostState, WatcherState, RaisedMeansDead,
       Owned, Watched, HostRuns, Early, Flagged
  <2>3. Watched' /\ Answered'
    BY <1>8 DEF Blame, TypeOK, HostState, WatcherState, CallState, Owned,
       Watched, Answered, HostRuns, Early, Flagged, HostGone
  <2>4. Checked'
    BY <1>8 DEF Blame, TypeOK, HostState, WatcherState, CallState, CheckState, Owned,
       Watched, Answered, Checked, Checks, HostRuns, Early, Flagged, HostGone, Callers
  <2> QED
    BY <2>1, <2>2, <2>3, <2>4
<1>9. CASE ProcessCloses
  <2>1. TypeOK'
    <3>1. closes' \in 0..1
      BY <1>9 DEF ProcessCloses, TypeOK, Owned
    <3> QED
      BY <1>9, <3>1 DEF ProcessCloses, TypeOK
  <2>2. RaisedMeansDead' /\ Owned'
    BY <1>9, CallerAssumption DEF ProcessCloses, TypeOK, HostState, WatcherState, RaisedMeansDead,
       Owned, Watched, HostRuns, Early, Flagged
  <2>3. Watched' /\ Answered'
    BY <1>9 DEF ProcessCloses, TypeOK, HostState, WatcherState, CallState, Owned,
       Watched, Answered, HostRuns, Early, Flagged, HostGone
  <2>4. Checked'
    BY <1>9 DEF ProcessCloses, TypeOK, HostState, WatcherState, CallState, CheckState, Owned,
       Watched, Answered, Checked, Checks, HostRuns, Early, Flagged, HostGone, Callers
  <2> QED
    BY <2>1, <2>2, <2>3, <2>4
<1>10. CASE Encode
  <2>1. TypeOK'
    <3>1. host' \in HostState
      BY <1>10 DEF Encode, Raise, HostDies, TypeOK, HostState
    <3> QED
      BY <1>10, <3>1 DEF Encode, Raise, HostDies, TypeOK
  <2>2. RaisedMeansDead' /\ Owned'
    BY <1>10, CallerAssumption DEF Encode, Raise, HostDies, TypeOK, HostState, WatcherState, RaisedMeansDead,
       Owned, Watched, HostRuns, Early, Flagged
  <2>3. Watched' /\ Answered'
    BY <1>10 DEF Encode, Raise, HostDies, TypeOK, HostState, WatcherState, CallState, Owned,
       Watched, Answered, HostRuns, Early, Flagged, HostGone
  <2>4. Checked'
    BY <1>10 DEF Encode, Raise, HostDies, TypeOK, HostState, WatcherState, CallState, CheckState, Owned,
       Watched, Answered, Checked, Checks, HostRuns, Early, Flagged, HostGone, Callers
  <2> QED
    BY <2>1, <2>2, <2>3, <2>4
<1>11. CASE StartTimer
  <2>1. TypeOK'
    BY <1>11 DEF StartTimer, TypeOK
  <2>2. RaisedMeansDead' /\ Owned'
    BY <1>11, CallerAssumption DEF StartTimer, TypeOK, HostState, WatcherState, RaisedMeansDead,
       Owned, Watched, HostRuns, Early, Flagged
  <2>3. Watched' /\ Answered'
    BY <1>11 DEF StartTimer, TypeOK, HostState, WatcherState, CallState, Owned,
       Watched, Answered, HostRuns, Early, Flagged, HostGone
  <2>4. Checked'
    BY <1>11 DEF StartTimer, TypeOK, HostState, WatcherState, CallState, CheckState, Owned,
       Watched, Answered, Checked, Checks, HostRuns, Early, Flagged, HostGone, Callers
  <2> QED
    BY <2>1, <2>2, <2>3, <2>4
<1> QED
  BY <1>1, <1>2, <1>3, <1>4, <1>5, <1>6, <1>7, <1>8, <1>9, <1>10, <1>11 DEF LaunchSteps

\* The timer of the handshake.
LEMMA TimerLives ==
    ASSUME LifeInv, TimerDue \/ TimerSteps
    PROVE  LifeInv'
<1> USE DEF LifeInv, given, handleVars, timerVars, watchVars, callVars
<1>1. CASE TimerDue
  <2>1. TypeOK'
    BY <1>1 DEF TimerDue, TypeOK
  <2>2. RaisedMeansDead' /\ Owned'
    BY <1>1, CallerAssumption DEF TimerDue, TypeOK, HostState, WatcherState, RaisedMeansDead,
       Owned, Watched, HostRuns, Early, Flagged
  <2>3. Watched' /\ Answered'
    BY <1>1 DEF TimerDue, TypeOK, HostState, WatcherState, CallState, Owned,
       Watched, Answered, HostRuns, Early, Flagged, HostGone
  <2>4. Checked'
    BY <1>1 DEF TimerDue, TypeOK, HostState, WatcherState, CallState, CheckState, Owned,
       Watched, Answered, Checked, Checks, HostRuns, Early, Flagged, HostGone, Callers
  <2> QED
    BY <2>1, <2>2, <2>3, <2>4
<1>2. CASE TimerFlags
  <2>1. TypeOK'
    BY <1>2 DEF TimerFlags, TypeOK
  <2>2. RaisedMeansDead' /\ Owned'
    BY <1>2, CallerAssumption DEF TimerFlags, TypeOK, HostState, WatcherState, RaisedMeansDead,
       Owned, Watched, HostRuns, Early, Flagged
  <2>3. Watched' /\ Answered'
    BY <1>2 DEF TimerFlags, TypeOK, HostState, WatcherState, CallState, Owned,
       Watched, Answered, HostRuns, Early, Flagged, HostGone
  <2>4. Checked'
    BY <1>2 DEF TimerFlags, TypeOK, HostState, WatcherState, CallState, CheckState, Owned,
       Watched, Answered, Checked, Checks, HostRuns, Early, Flagged, HostGone, Callers
  <2> QED
    BY <2>1, <2>2, <2>3, <2>4
<1>3. CASE TimerKills
  <2>1. TypeOK'
    <3>1. host' \in HostState
      BY <1>3 DEF TimerKills, HostDies, TypeOK, HostState
    <3> QED
      BY <1>3, <3>1 DEF TimerKills, HostDies, TypeOK
  <2>2. RaisedMeansDead' /\ Owned'
    BY <1>3, CallerAssumption DEF TimerKills, HostDies, TypeOK, HostState, WatcherState, RaisedMeansDead,
       Owned, Watched, HostRuns, Early, Flagged
  <2>3. Watched' /\ Answered'
    BY <1>3 DEF TimerKills, HostDies, TypeOK, HostState, WatcherState, CallState, Owned,
       Watched, Answered, HostRuns, Early, Flagged, HostGone
  <2>4. Checked'
    BY <1>3 DEF TimerKills, HostDies, TypeOK, HostState, WatcherState, CallState, CheckState, Owned,
       Watched, Answered, Checked, Checks, HostRuns, Early, Flagged, HostGone, Callers
  <2> QED
    BY <2>1, <2>2, <2>3, <2>4
<1> QED
  BY <1>1, <1>2, <1>3 DEF TimerSteps

\* The watcher thread.
LEMMA WatcherLives ==
    ASSUME LifeInv, WatchSteps \/ PollFails
    PROVE  LifeInv'
<1> USE DEF LifeInv, given, handleVars, timerVars, watchVars, callVars
<1>1. CASE OpenEvent
  <2>1. TypeOK'
    <3>1. watcher' \in WatcherState
      BY <1>1 DEF OpenEvent, Watch, TypeOK, WatcherState
    <3>2. fired' \in Seq(Events)
      BY <1>1 DEF OpenEvent, Watch, TypeOK, Events
    <3> QED
      BY <1>1, <3>1, <3>2 DEF OpenEvent, Watch, TypeOK
  <2>2. RaisedMeansDead' /\ Owned'
    BY <1>1, CallerAssumption DEF OpenEvent, Watch, TypeOK, HostState, WatcherState, RaisedMeansDead,
       Owned, Watched, HostRuns, Early, Flagged
  <2>3. Watched' /\ Answered'
    BY <1>1, EventFacts DEF OpenEvent, Watch, TypeOK, HostState, WatcherState, CallState, Owned,
       Watched, Answered, HostRuns, Early, Flagged, HostGone
  <2>4. Checked'
    BY <1>1 DEF OpenEvent, Watch, TypeOK, HostState, WatcherState, CallState, CheckState, Owned,
       Watched, Answered, Checked, Checks, HostRuns, Early, Flagged, HostGone, Callers
  <2> QED
    BY <2>1, <2>2, <2>3, <2>4
<1>2. CASE Poll
  <2>1. TypeOK'
    <3>1. watcher' \in WatcherState
      BY <1>2 DEF Poll, Watch, TypeOK, WatcherState
    <3> QED
      BY <1>2, <3>1 DEF Poll, Watch, TypeOK
  <2>2. RaisedMeansDead' /\ Owned'
    BY <1>2, CallerAssumption DEF Poll, Watch, TypeOK, HostState, WatcherState, RaisedMeansDead,
       Owned, Watched, HostRuns, Early, Flagged
  <2>3. Watched' /\ Answered'
    BY <1>2 DEF Poll, Watch, TypeOK, HostState, WatcherState, CallState, Owned,
       Watched, Answered, HostRuns, Early, Flagged, HostGone
  <2>4. Checked'
    BY <1>2 DEF Poll, Watch, TypeOK, HostState, WatcherState, CallState, CheckState, Owned,
       Watched, Answered, Checked, Checks, HostRuns, Early, Flagged, HostGone, Callers
  <2> QED
    BY <2>1, <2>2, <2>3, <2>4
<1>3. CASE PollFails
  <2>1. TypeOK'
    <3>1. watcher' \in WatcherState
      BY <1>3 DEF PollFails, Watch, TypeOK, WatcherState
    <3> QED
      BY <1>3, <3>1 DEF PollFails, Watch, TypeOK
  <2>2. RaisedMeansDead' /\ Owned'
    BY <1>3, CallerAssumption DEF PollFails, Watch, TypeOK, HostState, WatcherState, RaisedMeansDead,
       Owned, Watched, HostRuns, Early, Flagged
  <2>3. Watched' /\ Answered'
    BY <1>3 DEF PollFails, Watch, TypeOK, HostState, WatcherState, CallState, Owned,
       Watched, Answered, HostRuns, Early, Flagged, HostGone
  <2>4. Checked'
    BY <1>3 DEF PollFails, Watch, TypeOK, HostState, WatcherState, CallState, CheckState, Owned,
       Watched, Answered, Checked, Checks, HostRuns, Early, Flagged, HostGone, Callers
  <2> QED
    BY <2>1, <2>2, <2>3, <2>4
<1>4. CASE FireExited
  <2>1. TypeOK'
    <3>1. watcher' \in WatcherState
      BY <1>4 DEF FireExited, Watch, TypeOK, WatcherState
    <3>2. fired' \in Seq(Events)
      BY <1>4 DEF FireExited, Watch, TypeOK, Events
    <3> QED
      BY <1>4, <3>1, <3>2 DEF FireExited, Watch, TypeOK
  <2>2. RaisedMeansDead' /\ Owned'
    BY <1>4, CallerAssumption DEF FireExited, Watch, TypeOK, HostState, WatcherState, RaisedMeansDead,
       Owned, Watched, HostRuns, Early, Flagged
  <2>3. Watched' /\ Answered'
    BY <1>4, EventFacts DEF FireExited, Watch, TypeOK, HostState, WatcherState, CallState, Owned,
       Watched, Answered, HostRuns, Early, Flagged, HostGone
  <2>4. Checked'
    BY <1>4 DEF FireExited, Watch, TypeOK, HostState, WatcherState, CallState, CheckState, Owned,
       Watched, Answered, Checked, Checks, HostRuns, Early, Flagged, HostGone, Callers
  <2> QED
    BY <2>1, <2>2, <2>3, <2>4
<1>5. CASE Revert
  <2>1. TypeOK'
    <3>1. watcher' \in WatcherState
      BY <1>5 DEF Revert, Watch, TypeOK, WatcherState
    <3>2. fired' \in Seq(Events)
      BY <1>5 DEF Revert, Watch, TypeOK, Events
    <3> QED
      BY <1>5, <3>1, <3>2 DEF Revert, Watch, TypeOK
  <2>2. RaisedMeansDead' /\ Owned'
    BY <1>5, CallerAssumption DEF Revert, Watch, TypeOK, HostState, WatcherState, RaisedMeansDead,
       Owned, Watched, HostRuns, Early, Flagged
  <2>3. Watched' /\ Answered'
    BY <1>5, EventFacts DEF Revert, Watch, TypeOK, HostState, WatcherState, CallState, Owned,
       Watched, Answered, HostRuns, Early, Flagged, HostGone
  <2>4. Checked'
    BY <1>5 DEF Revert, Watch, TypeOK, HostState, WatcherState, CallState, CheckState, Owned,
       Watched, Answered, Checked, Checks, HostRuns, Early, Flagged, HostGone, Callers
  <2> QED
    BY <2>1, <2>2, <2>3, <2>4
<1>6. CASE SetFlag
  <2>1. TypeOK'
    <3>1. watcher' \in WatcherState
      BY <1>6 DEF SetFlag, Watch, TypeOK, WatcherState
    <3> QED
      BY <1>6, <3>1 DEF SetFlag, Watch, TypeOK
  <2>2. RaisedMeansDead' /\ Owned'
    BY <1>6, CallerAssumption DEF SetFlag, Watch, TypeOK, HostState, WatcherState, RaisedMeansDead,
       Owned, Watched, HostRuns, Early, Flagged
  <2>3. Watched' /\ Answered'
    BY <1>6 DEF SetFlag, Watch, TypeOK, HostState, WatcherState, CallState, Owned,
       Watched, Answered, HostRuns, Early, Flagged, HostGone
  <2>4. Checked'
    BY <1>6 DEF SetFlag, Watch, TypeOK, HostState, WatcherState, CallState, CheckState, Owned,
       Watched, Answered, Checked, Checks, HostRuns, Early, Flagged, HostGone, Callers
  <2> QED
    BY <2>1, <2>2, <2>3, <2>4
<1>7. CASE CloseHandle
  <2>1. TypeOK'
    <3>1. watcher' \in WatcherState
      BY <1>7 DEF CloseHandle, Watch, TypeOK, WatcherState
    <3>2. closes' \in 0..1
      BY <1>7 DEF CloseHandle, Watch, TypeOK, Owned
    <3> QED
      BY <1>7, <3>1, <3>2 DEF CloseHandle, Watch, TypeOK
  <2>2. RaisedMeansDead' /\ Owned'
    BY <1>7, CallerAssumption DEF CloseHandle, Watch, TypeOK, HostState, WatcherState, RaisedMeansDead,
       Owned, Watched, HostRuns, Early, Flagged
  <2>3. Watched' /\ Answered'
    BY <1>7 DEF CloseHandle, Watch, TypeOK, HostState, WatcherState, CallState, Owned,
       Watched, Answered, HostRuns, Early, Flagged, HostGone
  <2>4. Checked'
    BY <1>7 DEF CloseHandle, Watch, TypeOK, HostState, WatcherState, CallState, CheckState, Owned,
       Watched, Answered, Checked, Checks, HostRuns, Early, Flagged, HostGone, Callers
  <2> QED
    BY <2>1, <2>2, <2>3, <2>4
<1>8. CASE GetCallbacks
  <2>1. TypeOK'
    <3>1. watcher' \in WatcherState
      BY <1>8 DEF GetCallbacks, Watch, TypeOK, WatcherState
    <3>2. fired' \in Seq(Events)
      BY <1>8 DEF GetCallbacks, Watch, TypeOK, Events
    <3> QED
      BY <1>8, <3>1, <3>2 DEF GetCallbacks, Watch, TypeOK
  <2>2. RaisedMeansDead' /\ Owned'
    BY <1>8, CallerAssumption DEF GetCallbacks, Watch, TypeOK, HostState, WatcherState, RaisedMeansDead,
       Owned, Watched, HostRuns, Early, Flagged
  <2>3. Watched' /\ Answered'
    BY <1>8, EventFacts DEF GetCallbacks, Watch, TypeOK, HostState, WatcherState, CallState, Owned,
       Watched, Answered, HostRuns, Early, Flagged, HostGone
  <2>4. Checked'
    BY <1>8 DEF GetCallbacks, Watch, TypeOK, HostState, WatcherState, CallState, CheckState, Owned,
       Watched, Answered, Checked, Checks, HostRuns, Early, Flagged, HostGone, Callers
  <2> QED
    BY <2>1, <2>2, <2>3, <2>4
<1>9. CASE CallBack
  <2>0. ~(watcher.next > Len(callbacks)) => callbacks[watcher.next] \in Callers \cup {None}
    BY DEF TypeOK, WatcherState
  <2>1. TypeOK'
    <3>1. watcher' \in WatcherState
      BY <1>9 DEF CallBack, TypeOK, WatcherState
    <3>2. term' \in [Callers -> CallState]
      <4>1. CASE UNCHANGED term
        BY <4>1 DEF TypeOK
      <4>2. CASE \E c : c # None /\ term[c].future = "pending" /\ c \in Callers
                        /\ term' = [term EXCEPT ![c].due = TRUE]
        BY <4>2 DEF TypeOK, CallState
      <4> QED
        BY <1>9, <2>0, <4>1, <4>2 DEF CallBack
    <3> QED
      BY <1>9, <3>1, <3>2 DEF CallBack, TypeOK
  <2>2. RaisedMeansDead' /\ Owned'
    BY <1>9, CallerAssumption DEF CallBack, TypeOK, HostState, WatcherState, RaisedMeansDead,
       Owned, Watched, HostRuns, Early, Flagged
  <2>3. Watched' /\ Answered'
    <3>1. Watched'
      BY <1>9 DEF CallBack, TypeOK, WatcherState, Watched, HostRuns, HostGone, Flagged
    <3>2. cleaned
      BY <1>9 DEF CallBack, Watched, Flagged
    <3>3. \A c \in Callers : term'[c].pc = term[c].pc /\ term'[c].future = term[c].future
      <4>1. CASE UNCHANGED term
        BY <4>1
      <4>2. CASE \E c \in Callers : term' = [term EXCEPT ![c].due = TRUE]
        BY <4>2 DEF TypeOK, CallState
      <4> QED
        BY <1>9, <2>0, <4>1, <4>2 DEF CallBack
    <3> QED
      BY <1>9, <3>1, <3>2, <3>3 DEF CallBack, Answered
  <2>4. Checked'
    BY <1>9 DEF CallBack, TypeOK, HostState, WatcherState, CallState, CheckState, Owned,
       Watched, Answered, Checked, Checks, HostRuns, Early, Flagged, HostGone, Callers
  <2> QED
    BY <2>1, <2>2, <2>3, <2>4
<1> QED
  BY <1>1, <1>2, <1>3, <1>4, <1>5, <1>6, <1>7, <1>8, <1>9 DEF WatchSteps

\* terminate().
LEMMA CallerLives ==
    ASSUME LifeInv, NEW c \in Callers, Terminate(c) \/ CallerSteps(c)
    PROVE  LifeInv'
<1> USE DEF LifeInv, given, handleVars, timerVars, watchVars, callVars
<1>1. CASE Terminate(c)
  <2>1. TypeOK'
    <3>1. term' \in [Callers -> CallState]
      BY <1>1 DEF Terminate, Move, TypeOK, CallState, Callers
    <3> QED
      BY <1>1, <3>1 DEF Terminate, Move, TypeOK
  <2>2. RaisedMeansDead' /\ Owned'
    BY <1>1, CallerAssumption DEF Terminate, Move, TypeOK, HostState, WatcherState, RaisedMeansDead,
       Owned, Watched, HostRuns, Early, Flagged
  <2>3. Watched' /\ Answered'
    BY <1>1 DEF Terminate, Move, TypeOK, HostState, WatcherState, CallState, Owned,
       Watched, Answered, HostRuns, Early, Flagged, HostGone
  <2>4. Checked'
    BY <1>1 DEF Terminate, Move, TypeOK, HostState, WatcherState, CallState, CheckState, Owned,
       Watched, Answered, Checked, Checks, HostRuns, Early, Flagged, HostGone, Callers
  <2> QED
    BY <2>1, <2>2, <2>3, <2>4
<1>2. CASE Register(c)
  <2>1. TypeOK'
    <3>1. term' \in [Callers -> CallState]
      BY <1>2 DEF Register, TypeOK, CallState, Callers
    <3>2. callbacks' \in Seq(Callers \cup {None})
      BY <1>2 DEF Register, TypeOK, Callers
    <3> QED
      BY <1>2, <3>1, <3>2 DEF Register, TypeOK
  <2>2. RaisedMeansDead' /\ Owned'
    BY <1>2, CallerAssumption DEF Register, TypeOK, HostState, WatcherState, RaisedMeansDead,
       Owned, Watched, HostRuns, Early, Flagged
  <2>3. Watched' /\ Answered'
    BY <1>2 DEF Register, TypeOK, HostState, WatcherState, CallState, Owned,
       Watched, Answered, HostRuns, Early, Flagged, HostGone
  <2>4. Checked'
    BY <1>2 DEF Register, TypeOK, HostState, WatcherState, CallState, CheckState, Owned,
       Watched, Answered, Checked, Checks, HostRuns, Early, Flagged, HostGone, Callers
  <2> QED
    BY <2>1, <2>2, <2>3, <2>4
<1>3. CASE Look(c)
  <2>1. TypeOK'
    <3>1. term' \in [Callers -> CallState]
      BY <1>3 DEF Look, TypeOK, CallState, Callers
    <3> QED
      BY <1>3, <3>1 DEF Look, TypeOK
  <2>2. RaisedMeansDead' /\ Owned'
    BY <1>3, CallerAssumption DEF Look, TypeOK, HostState, WatcherState, RaisedMeansDead,
       Owned, Watched, HostRuns, Early, Flagged
  <2>3. Watched' /\ Answered'
    BY <1>3 DEF Look, TypeOK, HostState, WatcherState, CallState, Owned,
       Watched, Answered, HostRuns, Early, Flagged, HostGone
  <2>4. Checked'
    BY <1>3 DEF Look, TypeOK, HostState, WatcherState, CallState, CheckState, Owned,
       Watched, Answered, Checked, Checks, HostRuns, Early, Flagged, HostGone, Callers
  <2> QED
    BY <2>1, <2>2, <2>3, <2>4
<1>4. CASE StopHost(c)
  <2>1. TypeOK'
    <3>1. term' \in [Callers -> CallState]
      BY <1>4 DEF StopHost, Move, HostDies, TypeOK, CallState, Callers
    <3>2. host' \in HostState
      BY <1>4 DEF StopHost, Move, HostDies, TypeOK, HostState
    <3> QED
      BY <1>4, <3>1, <3>2 DEF StopHost, Move, HostDies, TypeOK
  <2>2. RaisedMeansDead' /\ Owned'
    BY <1>4, CallerAssumption DEF StopHost, Move, HostDies, TypeOK, HostState, WatcherState, RaisedMeansDead,
       Owned, Watched, HostRuns, Early, Flagged
  <2>3. Watched' /\ Answered'
    BY <1>4 DEF StopHost, Move, HostDies, TypeOK, HostState, WatcherState, CallState, Owned,
       Watched, Answered, HostRuns, Early, Flagged, HostGone
  <2>4. Checked'
    BY <1>4 DEF StopHost, Move, HostDies, TypeOK, HostState, WatcherState, CallState, CheckState, Owned,
       Watched, Answered, Checked, Checks, HostRuns, Early, Flagged, HostGone, Callers
  <2> QED
    BY <2>1, <2>2, <2>3, <2>4
<1>5. CASE Resolve(c)
  <2>1. TypeOK'
    <3>1. term' \in [Callers -> CallState]
      BY <1>5 DEF Resolve, TypeOK, CallState, Callers
    <3> QED
      BY <1>5, <3>1 DEF Resolve, TypeOK
  <2>2. RaisedMeansDead' /\ Owned'
    BY <1>5, CallerAssumption DEF Resolve, TypeOK, HostState, WatcherState, RaisedMeansDead,
       Owned, Watched, HostRuns, Early, Flagged
  <2>3. Watched' /\ Answered'
    BY <1>5 DEF Resolve, TypeOK, HostState, WatcherState, CallState, Owned,
       Watched, Answered, HostRuns, Early, Flagged, HostGone
  <2>4. Checked'
    BY <1>5 DEF Resolve, TypeOK, HostState, WatcherState, CallState, CheckState, Owned,
       Watched, Answered, Checked, Checks, HostRuns, Early, Flagged, HostGone, Callers
  <2> QED
    BY <2>1, <2>2, <2>3, <2>4
<1>6. CASE TerminateReturns(c)
  <2>1. TypeOK'
    <3>1. term' \in [Callers -> CallState]
      BY <1>6 DEF TerminateReturns, Move, TypeOK, CallState, Callers
    <3> QED
      BY <1>6, <3>1 DEF TerminateReturns, Move, TypeOK
  <2>2. RaisedMeansDead' /\ Owned'
    BY <1>6, CallerAssumption DEF TerminateReturns, Move, TypeOK, HostState, WatcherState, RaisedMeansDead,
       Owned, Watched, HostRuns, Early, Flagged
  <2>3. Watched' /\ Answered'
    BY <1>6 DEF TerminateReturns, Move, TypeOK, HostState, WatcherState, CallState, Owned,
       Watched, Answered, HostRuns, Early, Flagged, HostGone
  <2>4. Checked'
    BY <1>6 DEF TerminateReturns, Move, TypeOK, HostState, WatcherState, CallState, CheckState, Owned,
       Watched, Answered, Checked, Checks, HostRuns, Early, Flagged, HostGone, Callers
  <2> QED
    BY <2>1, <2>2, <2>3, <2>4
<1> QED
  BY <1>1, <1>2, <1>3, <1>4, <1>5, <1>6 DEF CallerSteps

\* A check.
LEMMA CheckLives ==
    ASSUME LifeInv, CheckSteps
    PROVE  LifeInv'
<1> USE DEF LifeInv, given, handleVars, timerVars, watchVars, callVars, otherVars
<1>1. CASE LaunchFailed
  <2>1. TypeOK'
    <3>1. check' \in CheckState
      BY <1>1 DEF LaunchFailed, TypeOK, CheckState
    <3> QED
      BY <1>1, <3>1 DEF LaunchFailed, TypeOK
  <2>2. RaisedMeansDead' /\ Owned'
    BY <1>1, CallerAssumption DEF LaunchFailed, TypeOK, HostState, WatcherState, RaisedMeansDead,
       Owned, Watched, HostRuns, Early, Flagged
  <2>3. Watched' /\ Answered'
    BY <1>1 DEF LaunchFailed, TypeOK, HostState, WatcherState, CallState, Owned,
       Watched, Answered, HostRuns, Early, Flagged, HostGone
  <2>4. Checked'
    BY <1>1 DEF LaunchFailed, RaisedMeansDead, TypeOK, HostState, WatcherState, CallState, CheckState, Owned,
       Watched, Answered, Checked, Checks, HostRuns, Early, Flagged, HostGone, Callers
  <2> QED
    BY <2>1, <2>2, <2>3, <2>4
<1>2. CASE Verify
  <2>1. TypeOK'
    <3>1. check' \in CheckState
      BY <1>2 DEF Verify, TypeOK, CheckState
    <3> QED
      BY <1>2, <3>1 DEF Verify, TypeOK
  <2>2. RaisedMeansDead' /\ Owned'
    BY <1>2, CallerAssumption DEF Verify, TypeOK, HostState, WatcherState, RaisedMeansDead,
       Owned, Watched, HostRuns, Early, Flagged
  <2>3. Watched' /\ Answered'
    BY <1>2 DEF Verify, TypeOK, HostState, WatcherState, CallState, Owned,
       Watched, Answered, HostRuns, Early, Flagged, HostGone
  <2>4. Checked'
    BY <1>2 DEF Verify, TypeOK, HostState, WatcherState, CallState, CheckState, Owned,
       Watched, Answered, Checked, Checks, HostRuns, Early, Flagged, HostGone, Callers
  <2> QED
    BY <2>1, <2>2, <2>3, <2>4
<1>3. CASE Listen
  <2>1. TypeOK'
    <3>1. callbacks' \in Seq(Callers \cup {None})
      BY <1>3 DEF Listen, TypeOK, Callers
    <3>2. check' \in CheckState
      <4>1. Len(callbacks') \in Nat
        BY <3>1, LenProperties
      <4> QED
        BY <1>3, <4>1 DEF Listen, TypeOK, CheckState
    <3> QED
      BY <1>3, <3>1, <3>2 DEF Listen, TypeOK
  <2>2. RaisedMeansDead' /\ Owned'
    BY <1>3, CallerAssumption DEF Listen, TypeOK, HostState, WatcherState, RaisedMeansDead,
       Owned, Watched, HostRuns, Early, Flagged
  <2>3. Watched' /\ Answered'
    BY <1>3 DEF Listen, TypeOK, HostState, WatcherState, CallState, Owned,
       Watched, Answered, HostRuns, Early, Flagged, HostGone
  <2>4. Checked'
    BY <1>3 DEF Listen, TypeOK, HostState, WatcherState, CallState, CheckState, Owned,
       Watched, Answered, Checked, Checks, HostRuns, Early, Flagged, HostGone, Callers
  <2> QED
    BY <2>1, <2>2, <2>3, <2>4
<1>4. CASE Told
  <2>1. TypeOK'
    <3>1. check' \in CheckState
      BY <1>4 DEF Told, TypeOK, CheckState
    <3> QED
      BY <1>4, <3>1 DEF Told, TypeOK
  <2>2. RaisedMeansDead' /\ Owned'
    BY <1>4, CallerAssumption DEF Told, TypeOK, HostState, WatcherState, RaisedMeansDead,
       Owned, Watched, HostRuns, Early, Flagged
  <2>3. Watched' /\ Answered'
    BY <1>4 DEF Told, TypeOK, HostState, WatcherState, CallState, Owned,
       Watched, Answered, HostRuns, Early, Flagged, HostGone
  <2>4. Checked'
    BY <1>4 DEF Told, TypeOK, HostState, WatcherState, CallState, CheckState, Owned,
       Watched, Answered, Checked, Checks, HostRuns, Early, Flagged, HostGone, Callers
  <2> QED
    BY <2>1, <2>2, <2>3, <2>4
<1>5. CASE GiveUp
  <2>1. TypeOK'
    <3>1. check' \in CheckState
      BY <1>5 DEF GiveUp, TypeOK, CheckState
    <3>2. term' \in [Callers -> CallState]
      BY <1>5 DEF GiveUp, TypeOK, CallState, Callers
    <3> QED
      BY <1>5, <3>1, <3>2 DEF GiveUp, TypeOK
  <2>2. RaisedMeansDead' /\ Owned'
    BY <1>5, CallerAssumption DEF GiveUp, TypeOK, HostState, WatcherState, RaisedMeansDead,
       Owned, Watched, HostRuns, Early, Flagged
  <2>3. Watched' /\ Answered'
    BY <1>5 DEF GiveUp, TypeOK, HostState, WatcherState, CallState, Owned,
       Watched, Answered, HostRuns, Early, Flagged, HostGone
  <2>4. Checked'
    BY <1>5 DEF GiveUp, TypeOK, HostState, WatcherState, CallState, CheckState, Owned,
       Watched, Answered, Checked, Checks, HostRuns, Early, Flagged, HostGone, Callers
  <2> QED
    BY <2>1, <2>2, <2>3, <2>4
<1>6. CASE Undone
  <2>1. TypeOK'
    <3>1. check' \in CheckState
      BY <1>6 DEF Undone, TypeOK, CheckState
    <3> QED
      BY <1>6, <3>1 DEF Undone, TypeOK
  <2>2. RaisedMeansDead' /\ Owned'
    BY <1>6, CallerAssumption DEF Undone, TypeOK, HostState, WatcherState, RaisedMeansDead,
       Owned, Watched, HostRuns, Early, Flagged
  <2>3. Watched' /\ Answered'
    BY <1>6 DEF Undone, TypeOK, HostState, WatcherState, CallState, Owned,
       Watched, Answered, HostRuns, Early, Flagged, HostGone
  <2>4. Checked'
    BY <1>6 DEF Undone, TypeOK, HostState, WatcherState, CallState, CheckState, Owned,
       Watched, Answered, Checked, Checks, HostRuns, Early, Flagged, HostGone, Callers
  <2> QED
    BY <2>1, <2>2, <2>3, <2>4
<1>7. CASE ProbeExits
  <2>1. TypeOK'
    <3>1. check' \in CheckState
      BY <1>7 DEF ProbeExits, TypeOK, CheckState
    <3> QED
      BY <1>7, <3>1 DEF ProbeExits, TypeOK
  <2>2. RaisedMeansDead' /\ Owned'
    BY <1>7, CallerAssumption DEF ProbeExits, TypeOK, HostState, WatcherState, RaisedMeansDead,
       Owned, Watched, HostRuns, Early, Flagged
  <2>3. Watched' /\ Answered'
    BY <1>7 DEF ProbeExits, TypeOK, HostState, WatcherState, CallState, Owned,
       Watched, Answered, HostRuns, Early, Flagged, HostGone
  <2>4. Checked'
    BY <1>7 DEF ProbeExits, TypeOK, HostState, WatcherState, CallState, CheckState, Owned,
       Watched, Answered, Checked, Checks, HostRuns, Early, Flagged, HostGone, Callers
  <2> QED
    BY <2>1, <2>2, <2>3, <2>4
<1>8. CASE Overdue
  <2>1. TypeOK'
    <3>1. check' \in CheckState
      BY <1>8 DEF Overdue, HostDies, TypeOK, CheckState
    <3>2. host' \in HostState
      BY <1>8 DEF Overdue, HostDies, TypeOK, HostState
    <3> QED
      BY <1>8, <3>1, <3>2 DEF Overdue, HostDies, TypeOK
  <2>2. RaisedMeansDead' /\ Owned'
    BY <1>8, CallerAssumption DEF Overdue, HostDies, TypeOK, HostState, WatcherState, RaisedMeansDead,
       Owned, Watched, HostRuns, Early, Flagged
  <2>3. Watched' /\ Answered'
    BY <1>8 DEF Overdue, HostDies, TypeOK, HostState, WatcherState, CallState, Owned,
       Watched, Answered, HostRuns, Early, Flagged, HostGone
  <2>4. Checked'
    BY <1>8 DEF Overdue, HostDies, TypeOK, HostState, WatcherState, CallState, CheckState, Owned,
       Watched, Answered, Checked, Checks, HostRuns, Early, Flagged, HostGone, Callers
  <2> QED
    BY <2>1, <2>2, <2>3, <2>4
<1>9. CASE LateExit
  <2>1. TypeOK'
    <3>1. check' \in CheckState
      BY <1>9 DEF LateExit, TypeOK, CheckState
    <3> QED
      BY <1>9, <3>1 DEF LateExit, TypeOK
  <2>2. RaisedMeansDead' /\ Owned'
    BY <1>9, CallerAssumption DEF LateExit, TypeOK, HostState, WatcherState, RaisedMeansDead,
       Owned, Watched, HostRuns, Early, Flagged
  <2>3. Watched' /\ Answered'
    BY <1>9 DEF LateExit, TypeOK, HostState, WatcherState, CallState, Owned,
       Watched, Answered, HostRuns, Early, Flagged, HostGone
  <2>4. Checked'
    BY <1>9 DEF LateExit, TypeOK, HostState, WatcherState, CallState, CheckState, Owned,
       Watched, Answered, Checked, Checks, HostRuns, Early, Flagged, HostGone, Callers
  <2> QED
    BY <2>1, <2>2, <2>3, <2>4
<1>10. CASE Reset
  <2>1. TypeOK'
    <3>1. check' \in CheckState
      BY <1>10 DEF Reset, TypeOK, CheckState
    <3> QED
      BY <1>10, <3>1 DEF Reset, TypeOK
  <2>2. RaisedMeansDead' /\ Owned'
    BY <1>10, CallerAssumption DEF Reset, TypeOK, HostState, WatcherState, RaisedMeansDead,
       Owned, Watched, HostRuns, Early, Flagged
  <2>3. Watched' /\ Answered'
    BY <1>10 DEF Reset, TypeOK, HostState, WatcherState, CallState, Owned,
       Watched, Answered, HostRuns, Early, Flagged, HostGone
  <2>4. Checked'
    BY <1>10 DEF Reset, TypeOK, HostState, WatcherState, CallState, CheckState, Owned,
       Watched, Answered, Checked, Checks, HostRuns, Early, Flagged, HostGone, Callers
  <2> QED
    BY <2>1, <2>2, <2>3, <2>4
<1> QED
  BY <1>1, <1>2, <1>3, <1>4, <1>5, <1>6, <1>7, <1>8, <1>9, <1>10 DEF CheckSteps

-----------------------------------------------------------------------------

\* Every step of the sandbox, of its callers and of a check keeps LifeInv:
\* what the threads of sandbox.py know of each other at every step.
THEOREM LifeInvariant == CheckerSpec => []LifeInv
<1>1. Init => LifeInv
  BY InitLives
<1>2. LifeInv /\ [CheckerNext]_vars => LifeInv'
  <2> SUFFICES ASSUME LifeInv, [CheckerNext]_vars PROVE LifeInv'
    OBVIOUS
  <2>1. CASE Next
    BY <2>1, HostLives, LaunchLives, TimerLives, WatcherLives, CallerLives
       DEF Next
  <2>2. CASE CheckSteps
    BY <2>2, CheckLives
  <2>3. CASE UNCHANGED vars
    BY <2>3 DEF vars, given, handleVars, timerVars, watchVars, callVars, LifeInv, TypeOK,
       RaisedMeansDead, Owned, Watched, Answered, Checked, HostRuns
  <2> QED
    BY <2>1, <2>2, <2>3 DEF CheckerNext
<1> QED
  BY <1>1, <1>2, PTL DEF CheckerSpec

\* The type invariant of the sandbox's life.
THEOREM Typing == CheckerSpec => []TypeOK
<1>1. LifeInv => TypeOK
  BY DEF LifeInv
<1> QED
  BY <1>1, LifeInvariant, PTL

\* launch() that raises has killed and drained the host, also when the
\* handshake could not be written.
THEOREM RaisingKills == CheckerSpec => []RaisedMeansDead
<1>1. LifeInv => RaisedMeansDead
  BY DEF LifeInv
<1> QED
  BY <1>1, LifeInvariant, PTL

\* The duplicated handle is claimed by SandboxProcess or closed by the
\* watcher, never both, and never forgotten.
THEOREM OneOwner == CheckerSpec => []HandleHasOneOwner
<1>1. LifeInv => HandleHasOneOwner
  BY DEF LifeInv, Owned, HandleHasOneOwner
<1> QED
  BY <1>1, LifeInvariant, PTL

\* Whoever gets an answer from terminate(), from the callback or from the
\* flag, finds the sandbox clean and its host dead.
THEOREM AnswersAreTrue == CheckerSpec => []ReturnedMeansClean
<1>1. LifeInv => ReturnedMeansClean
  BY DEF LifeInv, Answered, Watched, Flagged, HostGone, ReturnedMeansClean
<1> QED
  BY <1>1, LifeInvariant, PTL

\* What a check reports of a sandbox is so, and it leaves no host behind.
THEOREM TrueVerdicts == CheckerSpec => []VerdictsAreTrue
<1>1. LifeInv => VerdictsAreTrue
  <2> SUFFICES ASSUME LifeInv PROVE VerdictsAreTrue
    OBVIOUS
  <2>1. check.pc \in {"reset", "end"} => ~HostRuns
    BY DEF LifeInv, Checked
  <2>2. check.verdict = "PASS" =>
          \/ use = "baseline" /\ cleaned /\ term[Launcher].pc = "idle"
          \/ use = "probe" /\ check.confined = "PASS" /\ host.signalled
    BY DEF LifeInv, Checked
  <2>3. use \in Checks /\ launch = "ok" /\ dup # "handle" => cleaned
    BY DEF LifeInv, Owned, Early, Checks
  <2> QED
    BY <2>1, <2>2, <2>3 DEF VerdictsAreTrue
<1> QED
  BY <1>1, LifeInvariant, PTL

\* The lists of Watched are the beginnings of the two complete ones.
LEMMA Beginnings ==
    ASSUME NEW S, NEW s \in Seq(S), NEW t \in Seq(S),
           Len(s) <= Len(t), \A i \in 1..Len(s) : s[i] = t[i]
    PROVE  IsPrefix(s, t)
<1>1. Len(s) \in Nat /\ Len(t) \in Nat
  BY LenProperties
<1>2. /\ SubSeq(s, 1, Len(s)) \in Seq(S)
      /\ Len(SubSeq(s, 1, Len(s))) = Len(s)
      /\ \A i \in 1..Len(s) : SubSeq(s, 1, Len(s))[i] = s[i]
  BY <1>1
<1>3. /\ SubSeq(t, 1, Len(s)) \in Seq(S)
      /\ Len(SubSeq(t, 1, Len(s))) = Len(s)
      /\ \A i \in 1..Len(s) : SubSeq(t, 1, Len(s))[i] = t[i]
  BY <1>1
<1>4. SubSeq(s, 1, Len(s)) = SubSeq(t, 1, Len(s))
  BY <1>2, <1>3, SeqEqual
<1> QED
  BY <1>4 DEF IsPrefix

\* The events, the revert among them, come once each and in order, the first
\* of them when the host is dead.
THEOREM InOrder == CheckerSpec => []EventsInOrder
<1>1. LifeInv => EventsInOrder
  <2> DEFINE Plain == <<"EXITED", "revert", "CLEANED_UP">>
             Failing == <<"ERROR", "EXITED", "revert", "CLEANED_UP">>
  <2> SUFFICES ASSUME LifeInv PROVE EventsInOrder
    OBVIOUS
  <2>1. Plain \in Seq(Events) /\ Failing \in Seq(Events)
    BY DEF Events
  <2>2. fired = <<>> => IsPrefix(fired, Plain)
    <3> DEFINE s == <<>>
               t == Plain
    <3>1. s \in Seq(Events) /\ t \in Seq(Events)
      BY <2>1 DEF Events
    <3>2. Len(s) <= Len(t) /\ \A i \in 1..Len(s) : s[i] = t[i]
      OBVIOUS
    <3>3. IsPrefix(s, t)
      <4> HIDE DEF s, t
      <4> QED
        BY <3>1, <3>2, Beginnings
    <3> QED
      BY <3>3
  <2>3. fired = <<"EXITED">> => IsPrefix(fired, Plain)
    <3> DEFINE s == <<"EXITED">>
               t == Plain
    <3>1. s \in Seq(Events) /\ t \in Seq(Events)
      BY <2>1 DEF Events
    <3>2. Len(s) <= Len(t) /\ \A i \in 1..Len(s) : s[i] = t[i]
      OBVIOUS
    <3>3. IsPrefix(s, t)
      <4> HIDE DEF s, t
      <4> QED
        BY <3>1, <3>2, Beginnings
    <3> QED
      BY <3>3
  <2>4. fired = <<"EXITED", "revert">> => IsPrefix(fired, Plain)
    <3> DEFINE s == <<"EXITED", "revert">>
               t == Plain
    <3>1. s \in Seq(Events) /\ t \in Seq(Events)
      BY <2>1 DEF Events
    <3>2. Len(s) <= Len(t) /\ \A i \in 1..Len(s) : s[i] = t[i]
      OBVIOUS
    <3>3. IsPrefix(s, t)
      <4> HIDE DEF s, t
      <4> QED
        BY <3>1, <3>2, Beginnings
    <3> QED
      BY <3>3
  <2>5. fired = <<"EXITED", "revert", "CLEANED_UP">> => IsPrefix(fired, Plain)
    <3> DEFINE s == <<"EXITED", "revert", "CLEANED_UP">>
               t == Plain
    <3>1. s \in Seq(Events) /\ t \in Seq(Events)
      BY <2>1 DEF Events
    <3>2. Len(s) <= Len(t) /\ \A i \in 1..Len(s) : s[i] = t[i]
      OBVIOUS
    <3>3. IsPrefix(s, t)
      <4> HIDE DEF s, t
      <4> QED
        BY <3>1, <3>2, Beginnings
    <3> QED
      BY <3>3
  <2>6. fired = <<"ERROR">> => IsPrefix(fired, Failing)
    <3> DEFINE s == <<"ERROR">>
               t == Failing
    <3>1. s \in Seq(Events) /\ t \in Seq(Events)
      BY <2>1 DEF Events
    <3>2. Len(s) <= Len(t) /\ \A i \in 1..Len(s) : s[i] = t[i]
      OBVIOUS
    <3>3. IsPrefix(s, t)
      <4> HIDE DEF s, t
      <4> QED
        BY <3>1, <3>2, Beginnings
    <3> QED
      BY <3>3
  <2>7. fired = <<"ERROR", "EXITED">> => IsPrefix(fired, Failing)
    <3> DEFINE s == <<"ERROR", "EXITED">>
               t == Failing
    <3>1. s \in Seq(Events) /\ t \in Seq(Events)
      BY <2>1 DEF Events
    <3>2. Len(s) <= Len(t) /\ \A i \in 1..Len(s) : s[i] = t[i]
      OBVIOUS
    <3>3. IsPrefix(s, t)
      <4> HIDE DEF s, t
      <4> QED
        BY <3>1, <3>2, Beginnings
    <3> QED
      BY <3>3
  <2>8. fired = <<"ERROR", "EXITED", "revert">> => IsPrefix(fired, Failing)
    <3> DEFINE s == <<"ERROR", "EXITED", "revert">>
               t == Failing
    <3>1. s \in Seq(Events) /\ t \in Seq(Events)
      BY <2>1 DEF Events
    <3>2. Len(s) <= Len(t) /\ \A i \in 1..Len(s) : s[i] = t[i]
      OBVIOUS
    <3>3. IsPrefix(s, t)
      <4> HIDE DEF s, t
      <4> QED
        BY <3>1, <3>2, Beginnings
    <3> QED
      BY <3>3
  <2>9. fired = <<"ERROR", "EXITED", "revert", "CLEANED_UP">> => IsPrefix(fired, Failing)
    <3> DEFINE s == <<"ERROR", "EXITED", "revert", "CLEANED_UP">>
               t == Failing
    <3>1. s \in Seq(Events) /\ t \in Seq(Events)
      BY <2>1 DEF Events
    <3>2. Len(s) <= Len(t) /\ \A i \in 1..Len(s) : s[i] = t[i]
      OBVIOUS
    <3>3. IsPrefix(s, t)
      <4> HIDE DEF s, t
      <4> QED
        BY <3>1, <3>2, Beginnings
    <3> QED
      BY <3>3
  <2>10. IsPrefix(fired, Plain) \/ IsPrefix(fired, Failing)
    <3> HIDE DEF Plain, Failing
    <3> QED
      BY <2>2, <2>3, <2>4, <2>5, <2>6, <2>7, <2>8, <2>9
         DEF LifeInv, Watched, TypeOK, WatcherState
  <2>11. Contains(fired, "EXITED") => ~HostRuns
    <3>1. CASE watcher.pc \in HostGone
      BY <3>1 DEF LifeInv, Watched
    <3>2. CASE watcher.pc \notin HostGone
      <4>1. fired = <<>> \/ fired = <<"ERROR">>
        BY <3>2 DEF LifeInv, Watched, TypeOK, WatcherState, HostGone
      <4>2. CASE fired = <<>>
        BY <4>2 DEF Contains
      <4>3. CASE fired = <<"ERROR">>
        BY <4>3 DEF Contains
      <4> QED
        BY <4>1, <4>2, <4>3
    <3> QED
      BY <3>1, <3>2
  <2> QED
    BY <2>10, <2>11 DEF EventsInOrder
<1> QED
  BY <1>1, LifeInvariant, PTL
=============================================================================
