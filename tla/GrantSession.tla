----------------------------- MODULE GrantSession -----------------------------
(***************************************************************************)
(* What a session of sandboxes leaves on the disk: launches that grant     *)
(* their broker_files, the revert of should_revert_grants at CLEANED_UP,   *)
(* revoke_grants() and reset_container(), each of them a sandbox_host      *)
(* process of its own that goes through the list of files and edits the    *)
(* access control lists as in DaclWalk.                                    *)
(*                                                                         *)
(* A launch's process counts as one of Hosts until it reports "started":   *)
(* after that it edits nothing.  A SID stands for its moniker.             *)
(***************************************************************************)
EXTENDS DaclWalk, Sequences

CONSTANTS
    Boxes,     \* the launches of the session
    Moniker,   \* Moniker[b]: the SandboxConfig.moniker of launch b
    Files,     \* Files[b]: its broker_files
    Reverts,   \* the launches with should_revert_grants=True
    Tidied     \* those whose caller may revoke or reset by itself

BrokerFile == [mode : {"grant", "secure", "inherit"}, path : Nodes, mask : SUBSET Rights]

ASSUME SessionAssumption ==
    /\ Moniker \in [Boxes -> Sids]
    /\ DOMAIN Files = Boxes
    /\ \A b \in Boxes : Files[b] \in Seq(BrokerFile)
    /\ Reverts \subseteq Boxes
    /\ Tidied \subseteq Boxes

VARIABLES
    box,       \* box[b]: how far launch b and its watcher are
    run,       \* run[h]: what process h was started for
    resetting, \* calls of reset_container between their two processes
    profile,   \* monikers with an AppContainer profile
    station,   \* who may use the session's window station and its desktop
    owes       \* history: launches whose grants no revoke has taken back

callVars    == <<box, resetting, owes>>
osVars      == <<profile, station>>
sessionVars == <<vars, callVars, run, osVars>>

\* grant_window_station extends them in this order.
UserObjects == {"winsta", "desktop"}

\* A process of launch(), of the watcher's revert, of the caller's own
\* revoke_grants() or of one of reset_container's two.
Verbs == {"launch", "revert", "revoke", "reset", "delete"}

Run == [ verb : Verbs,
         box  : Boxes,
         pc   : {"provision"} \cup UserObjects \cup {"entry", "edit", "delete"},
         at   : Nat \ {0},                       \* the entry of broker_files
         snap : (SUBSET Sids) \cup {None} ]      \* the DACL that was read

ASSUME RunAssumption == None \notin Run

Free(h) == run[h] = None

\* The request that a run makes of the entry that it is at.
Mirrored(verb, b, i) ==
    LET e == Files[b][i]
    IN  [ kind |-> CASE verb = "launch" -> e.mode
                     [] verb # "launch" /\ e.mode = "grant" -> "revoke"
                     [] OTHER -> "unsecure",
          path |-> e.path,
          sid  |-> Moniker[b],
          mask |-> IF verb = "launch" THEN e.mask ELSE {} ]

\* Faulty: a revoke that knows of folders only.
EditsFolders(verb, b, i) ==
    Files[b][i].mode \in (IF verb = "launch" THEN {"grant", "secure"} ELSE {"grant"})

\* Mode "inherit" passes an open handle on, or is passed over by a revoke.
Edits(verb, b, i) == Files[b][i].mode # "inherit"

\* The nodes whose entries a launch is answerable for.
Covered(b) ==
    UNION {Scope(Mirrored("launch", b, i)) :
              i \in {j \in DOMAIN Files[b] : Files[b][j].mode # "inherit"}}

SessionInit ==
    /\ Init
    /\ box = [b \in Boxes |-> "new"]
    /\ run = [h \in Hosts |-> None]
    /\ resetting = {}
    /\ profile = {}
    /\ station = [o \in UserObjects |-> {}]
    /\ owes = {}

-----------------------------------------------------------------------------
(* The calls in Python, and the target's exit.                             *)

Spawn(h, verb, b) ==
    /\ Free(h)
    /\ run' = [run EXCEPT ![h] =
           [ verb |-> verb, box |-> b, at |-> 1, snap |-> None,
             pc   |-> CASE verb = "launch" -> "provision"
                        [] verb = "delete" -> "delete"
                        [] OTHER           -> "entry" ]]
    /\ UNCHANGED <<vars, osVars>>

\* launch()
Launch(h, b) ==
    /\ box[b] = "new"
    /\ Spawn(h, "launch", b)
    /\ box' = [box EXCEPT ![b] = "launching"]
    /\ owes' = owes \cup {b}
    /\ UNCHANGED resetting

\* The target ends, or terminate() ends it, and the watcher fires EXITED.
TargetExits(b) ==
    /\ box[b] = "running"
    /\ box' = [box EXCEPT ![b] = "exited"]
    /\ UNCHANGED <<vars, run, osVars, resetting, owes>>

\* _revert_grants_if_configured
WillRevert(b) == b \in Reverts /\ Files[b] # <<>>

Revert(h, b) ==
    /\ box[b] = "exited"
    /\ WillRevert(b)
    /\ Spawn(h, "revert", b)
    /\ box' = [box EXCEPT ![b] = "reverting"]
    /\ UNCHANGED <<resetting, owes>>

CleanUp(b) ==
    /\ box[b] = "exited"
    /\ ~WillRevert(b)
    /\ box' = [box EXCEPT ![b] = "clean"]
    /\ UNCHANGED <<vars, run, osVars, resetting, owes>>

\* The caller's revoke_grants(), whether or not the sandbox still runs.
RevokeGrants(h, b) ==
    /\ b \in Tidied /\ box[b] \notin {"new", "launching"}
    /\ Spawn(h, "revoke", b)
    /\ UNCHANGED callVars

\* reset_container() revokes first, when it is given files ...
ResetContainer(h, b) ==
    /\ b \in Tidied /\ box[b] \notin {"new", "launching"}
    /\ Spawn(h, IF Files[b] = <<>> THEN "delete" ELSE "reset", b)
    /\ UNCHANGED callVars

\* ... and then runs the host a second time.
ResetProfile(h, b) ==
    /\ b \in resetting
    /\ Spawn(h, "delete", b)
    /\ resetting' = resetting \ {b}
    /\ UNCHANGED <<box, owes>>

-----------------------------------------------------------------------------
(* The process.                                                            *)

At(h, pc) == ~Free(h) /\ run[h].pc = pc

Sid(h) == Moniker[run[h].box]

Goto(h, pc) == run' = [run EXCEPT ![h].pc = pc, ![h].snap = None]

\* AppContainer::provision: a profile that exists is as good as a new one.
Provision(h) ==
    /\ At(h, "provision")
    /\ profile' = profile \cup {Sid(h)}
    /\ Goto(h, "winsta")
    /\ UNCHANGED <<vars, callVars, station>>

\* grant_obj: GetUserObjectSecurity ...
ReadObject(h, o) ==
    /\ At(h, o)
    /\ run[h].snap = None
    /\ run' = [run EXCEPT ![h].snap = station[o]]
    /\ UNCHANGED <<vars, callVars, osVars>>

\* ... and SetUserObjectSecurity with one entry more.
WriteObject(h, o) ==
    /\ At(h, o)
    /\ run[h].snap # None
    /\ station' = [station EXCEPT ![o] = run[h].snap \cup {Sid(h)}]
    /\ Goto(h, IF o = "winsta" THEN "desktop" ELSE "entry")
    /\ UNCHANGED <<vars, callVars, profile>>

Through(h) == run[h].at > Len(Files[run[h].box])

\* An entry of mode "inherit".
PassEntry(h) ==
    /\ At(h, "entry")
    /\ ~Through(h)
    /\ ~Edits(run[h].verb, run[h].box, run[h].at)
    /\ run' = [run EXCEPT ![h].at = @ + 1]
    /\ UNCHANGED <<vars, callVars, osVars>>

\* An entry whose DACL is edited: grant_directory and the like begin.
BeginEntry(h) ==
    /\ At(h, "entry")
    /\ ~Through(h)
    /\ Edits(run[h].verb, run[h].box, run[h].at)
    /\ LET r == Mirrored(run[h].verb, run[h].box, run[h].at)
       IN  Begin(h, r) \/ BeginError(h, r)
    /\ Goto(h, "edit")
    /\ UNCHANGED <<callVars, osVars>>

Edit(h) == At(h, "edit") /\ Work(h) /\ UNCHANGED <<callVars, run, osVars>>

\* Faulty: the result of the edit is not looked at; one entry is left out.
EndEntryAnyhow(h) ==
    /\ At(h, "edit")
    /\ ~Busy(h)
    /\ host' = [host EXCEPT ![h] = Idle]
    /\ run' = [run EXCEPT ![h].pc = "entry", ![h].at = @ + 1]
    /\ UNCHANGED <<acl, marker, callVars, osVars>>
EndEntrySkips(h) ==
    /\ At(h, "edit")
    /\ host[h].reply = "ok"
    /\ host' = [host EXCEPT ![h] = Idle]
    /\ run' = [run EXCEPT ![h].pc = "entry", ![h].at = @ + 2]
    /\ UNCHANGED <<acl, marker, callVars, osVars>>

\* S_OK: on to the next one.  An entry that has failed leaves Fail only.
EndEntry(h) ==
    /\ At(h, "edit")
    /\ host[h].reply = "ok"
    /\ host' = [host EXCEPT ![h] = Idle]
    /\ run' = [run EXCEPT ![h].pc = "entry", ![h].at = @ + 1]
    /\ UNCHANGED <<acl, marker, callVars, osVars>>

End(h) == run' = [run EXCEPT ![h] = None]

\* The rest of run_launch succeeds, up to "started".
Started(h) ==
    /\ At(h, "entry")
    /\ run[h].verb = "launch"
    /\ Through(h)
    /\ box' = [box EXCEPT ![run[h].box] = "running"]
    /\ End(h)
    /\ UNCHANGED <<vars, osVars, resetting, owes>>

\* run_revoke returns 0: what the caller does then.
Revoked(h) ==
    LET b == run[h].box
    IN  /\ At(h, "entry")
        /\ run[h].verb # "launch"
        /\ Through(h)
        /\ owes' = owes \ {b}
        /\ box' = IF run[h].verb = "revert" THEN [box EXCEPT ![b] = "clean"] ELSE box
        /\ resetting' = IF run[h].verb = "reset" THEN resetting \cup {b} ELSE resetting
        /\ End(h)
        /\ UNCHANGED <<vars, osVars>>

\* run_reset: DeleteAppContainerProfile.
DeleteProfile(h) ==
    /\ At(h, "delete")
    /\ profile' = profile \ {Sid(h)}
    /\ End(h)
    /\ UNCHANGED <<vars, station, callVars>>

\* Faulty: reset_container deletes the profile however its revoke went.
FailAndReset(h) ==
    /\ ~Free(h)
    /\ box' = [box EXCEPT ![run[h].box] =
           CASE run[h].verb = "launch" -> "raised"
             [] run[h].verb = "revert" -> "clean"
             [] OTHER                  -> @]
    /\ resetting' = IF run[h].verb = "reset" THEN resetting \cup {run[h].box} ELSE resetting
    /\ host' = [host EXCEPT ![h] = Idle]
    /\ End(h)
    /\ UNCHANGED <<acl, marker, osVars, owes>>

\* Any call of the process fails, or it is killed: by the 15 s of the
\* handshake, the 30 s of a revoke, the 10 s of a reset.  launch() raises;
\* the revert only logs it; revoke_grants() raises, and so does
\* reset_container(), before it has deleted anything.
Fail(h) ==
    /\ ~Free(h)
    /\ box' = [box EXCEPT ![run[h].box] =
           CASE run[h].verb = "launch" -> "raised"
             [] run[h].verb = "revert" -> "clean"
             [] OTHER                  -> @]
    /\ host' = [host EXCEPT ![h] = Idle]
    /\ End(h)
    /\ UNCHANGED <<acl, marker, osVars, resetting, owes>>

Process(h) ==
    \/ Provision(h)
    \/ \E o \in UserObjects : ReadObject(h, o) \/ WriteObject(h, o)
    \/ PassEntry(h) \/ BeginEntry(h) \/ Edit(h) \/ EndEntry(h)
    \/ Started(h) \/ Revoked(h) \/ DeleteProfile(h) \/ Fail(h)

SessionNext ==
    \/ \E b \in Boxes : TargetExits(b) \/ CleanUp(b)
    \/ \E h \in Hosts :
         \/ \E b \in Boxes :
              \/ Launch(h, b) \/ Revert(h, b) \/ RevokeGrants(h, b)
              \/ ResetContainer(h, b) \/ ResetProfile(h, b)
         \/ Process(h)

SessionSpec == SessionInit /\ [][SessionNext]_sessionVars

-----------------------------------------------------------------------------
(* Properties                                                              *)

\* Every variable of the session has its type; no process looks beyond the
\* end of its broker_files.
SessionTypeOK ==
    /\ box \in [Boxes -> {"new", "launching", "raised", "running", "exited",
                          "reverting", "clean"}]
    /\ run \in [Hosts -> Run \cup {None}]
    /\ \A h \in Hosts : ~Free(h) => run[h].at <= Len(Files[run[h].box]) + 1
    /\ resetting \subseteq Boxes
    /\ profile \subseteq Sids
    /\ station \in [UserObjects -> SUBSET Sids]
    /\ owes \subseteq Boxes

\* Every entry on the disk is owed by a launch whose revert, or whose
\* caller's revoke with the same list, has not yet succeeded: launches that
\* fail half way, reverts that fail and are tried again by hand, and
\* sandboxes of one moniker that come and go leave nothing else behind.
GrantsAreOwed ==
    \A n \in Nodes, s \in Sids : acl[n][s] # NoEntry =>
        \E b \in owes : Moniker[b] = s /\ n \in Covered(b)

\* The host says "started" only when the container may use the window
\* station and the desktop and every file of the launch is granted, to the
\* last node, whatever launches, reverts and failures came before.
StartedMeansGranted ==
    [][\A b \in Boxes : box[b] = "launching" /\ box'[b] = "running" =>
           /\ \A o \in UserObjects : Moniker[b] \in station[o]
           /\ \A i \in DOMAIN Files[b] : Files[b][i].mode # "inherit" =>
                LET r == Mirrored("launch", b, i)
                IN  \A n \in Scope(r) : Reached(acl[n], r)]_sessionVars

\* reset_container(moniker, broker_files) deletes the profile only when the
\* files have no entry left for it, unless another launch of the moniker
\* still has grants of its own there.
ResetLeavesNoOrphans ==
    [][\A h \in Hosts : At(h, "delete") /\ profile' # profile =>
           \A n \in Covered(run[h].box) : acl[n][Sid(h)] # NoEntry =>
               \E b \in owes \ {run[h].box} : Moniker[b] = Sid(h)]_sessionVars
=============================================================================
