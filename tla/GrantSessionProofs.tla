-------------------------- MODULE GrantSessionProofs --------------------------
(***************************************************************************)
(* Proofs about a session of launches and revokes, for every tree, every   *)
(* set of launches and every list of broker_files: first what holds of any *)
(* session, then what holds when one sandbox_host edits at a time and the  *)
(* requests are Disciplined.                                               *)
(***************************************************************************)
EXTENDS GrantSession, DaclWalkProofs, SequenceTheorems

\* The session asks a host for nothing else than what the walk allows for.
SessionAsks ==
    \A h \in Hosts, v \in Verbs, b \in Boxes : \A i \in DOMAIN Files[b] :
        Files[b][i].mode # "inherit" => Mirrored(v, b, i) \in Asks[h]

OneAtATime == \A g, h \in Hosts : g = h

\* What BeginEntry makes sure of for EndEntry.
InRange ==
    \A h \in Hosts : At(h, "edit") =>
        /\ run[h].at \in DOMAIN Files[run[h].box]
        /\ Edits(run[h].verb, run[h].box, run[h].at)

\* The lists of files.
LEMMA FilesFacts ==
    ASSUME NEW b \in Boxes
    PROVE  /\ Files[b] \in Seq(BrokerFile) /\ Len(Files[b]) \in Nat
           /\ DOMAIN Files[b] = 1..Len(Files[b])
           /\ \A i \in DOMAIN Files[b] : Files[b][i] \in BrokerFile
           /\ Moniker[b] \in Sids
<1>1. Files[b] \in Seq(BrokerFile) /\ Moniker[b] \in Sids
  BY SessionAssumption
<1> QED
  BY <1>1, LenProperties, ElementOfSeq

\* A process that is started, one that goes on, one that ends.
LEMMA RunFacts ==
    ASSUME SessionTypeOK, NEW h \in Hosts, ~Free(h)
    PROVE  /\ run[h] \in Run
           /\ run[h].box \in Boxes /\ run[h].verb \in Verbs
           /\ run[h].at \in Nat \ {0} /\ run[h].at <= Len(Files[run[h].box]) + 1
           /\ Len(Files[run[h].box]) \in Nat
           /\ Sid(h) \in Sids
<1>1. run[h] \in Run
  BY DEF SessionTypeOK, Free
<1>2. run[h].box \in Boxes /\ run[h].verb \in Verbs /\ run[h].at \in Nat \ {0}
  BY <1>1 DEF Run
<1> QED
  BY <1>1, <1>2, FilesFacts DEF SessionTypeOK, Sid

-----------------------------------------------------------------------------
(* Types.                                                                  *)

\* Starting a process keeps the types of run.
LEMMA SpawnTypes ==
    ASSUME SessionTypeOK, InRange, NEW h \in Hosts, NEW v \in Verbs, NEW b \in Boxes,
           Spawn(h, v, b)
    PROVE  /\ run' \in [Hosts -> Run \cup {None}]
           /\ run'[h] \in Run /\ run'[h].verb = v /\ run'[h].box = b
           /\ run'[h].at = 1 /\ run'[h].snap = None
           /\ run'[h].pc = CASE v = "launch" -> "provision"
                              [] v = "delete" -> "delete"
                              [] OTHER        -> "entry"
           /\ \A g \in Hosts \ {h} : run'[g] = run[g]
<1> DEFINE pc == CASE v = "launch" -> "provision"
                   [] v = "delete" -> "delete"
                   [] OTHER        -> "entry"
           new == [verb |-> v, box |-> b, at |-> 1, snap |-> None, pc |-> pc]
<1>1. pc \in {"provision", "delete", "entry"}
  OBVIOUS
<1>2. new \in Run /\ new.verb = v /\ new.box = b /\ new.at = 1 /\ new.snap = None
      /\ new.pc = pc
  <2> HIDE DEF pc
  <2> QED
    BY <1>1 DEF Run, UserObjects
<1>3. run' = [run EXCEPT ![h] = new]
  BY DEF Spawn
<1> HIDE DEF new
<1> QED
  BY <1>2, <1>3 DEF SessionTypeOK

\* So does a process that goes on.
LEMMA GoTypes ==
    ASSUME SessionTypeOK, NEW h \in Hosts, ~Free(h), NEW new \in Run,
           run' = [run EXCEPT ![h] = new]
    PROVE  /\ run' \in [Hosts -> Run \cup {None}]
           /\ run'[h] = new /\ new # None
           /\ \A g \in Hosts \ {h} : run'[g] = run[g]
BY RunAssumption DEF SessionTypeOK

\* The part of the type invariant that is about the processes.
RunTypeOK ==
    /\ run \in [Hosts -> Run \cup {None}]
    /\ \A h \in Hosts : ~Free(h) => run[h].at <= Len(Files[run[h].box]) + 1

\* It is kept by a step that moves one process only.
LEMMA OneMoves ==
    ASSUME SessionTypeOK, InRange, NEW h \in Hosts,
           run' \in [Hosts -> Run \cup {None}],
           \A g \in Hosts \ {h} : run'[g] = run[g],
           run'[h] # None =>
             /\ run'[h].at <= Len(Files[run'[h].box]) + 1
             /\ run'[h].pc = "edit" =>
                  /\ run'[h].at \in DOMAIN Files[run'[h].box]
                  /\ Edits(run'[h].verb, run'[h].box, run'[h].at)
    PROVE  RunTypeOK' /\ InRange'
<1>1. RunTypeOK'
  BY DEF SessionTypeOK, RunTypeOK, Free
<1>2. InRange'
  BY DEF SessionTypeOK, InRange, At, Free, Edits
<1> QED
  BY <1>1, <1>2

\* A process that is started begins with its first entry.
LEMMA SpawnMoves ==
    ASSUME SessionTypeOK, InRange, NEW h \in Hosts, NEW v \in Verbs, NEW b \in Boxes,
           Spawn(h, v, b)
    PROVE  RunTypeOK' /\ InRange' /\ UNCHANGED <<station, profile>>
<1>1. Len(Files[b]) \in Nat
  BY FilesFacts
<1>2. run'[h].at = 1 /\ run'[h].box = b /\ run'[h].pc \in {"provision", "delete", "entry"}
  BY SpawnTypes
<1>3. run'[h].at <= Len(Files[run'[h].box]) + 1
  BY <1>1, <1>2
<1> QED
  BY <1>2, <1>3, SpawnTypes, OneMoves DEF Spawn, osVars

\* A process ends.
LEMMA EndMoves ==
    ASSUME SessionTypeOK, InRange, NEW h \in Hosts, End(h)
    PROVE  /\ RunTypeOK' /\ InRange'
           /\ run' \in [Hosts -> Run \cup {None}]
           /\ run'[h] = None /\ \A g \in Hosts \ {h} : run'[g] = run[g]
<1>1. /\ run' \in [Hosts -> Run \cup {None}]
      /\ run'[h] = None /\ \A g \in Hosts \ {h} : run'[g] = run[g]
  BY DEF End, SessionTypeOK
<1> QED
  BY <1>1, OneMoves

\* A process goes on to another place, with the entry it is at or the next.
LEMMA StepMoves ==
    ASSUME SessionTypeOK, InRange, NEW h \in Hosts, ~Free(h),
           NEW pc \in {"provision", "winsta", "desktop", "entry", "edit", "delete"},
           NEW at \in Nat \ {0}, NEW snap \in (SUBSET Sids) \cup {None},
           run' = [run EXCEPT ![h] = [run[h] EXCEPT !.pc = pc, !.at = at, !.snap = snap]],
           at <= Len(Files[run[h].box]) + 1,
           pc = "edit" => at \in DOMAIN Files[run[h].box]
                          /\ Edits(run[h].verb, run[h].box, at)
    PROVE  /\ RunTypeOK' /\ InRange'
           /\ run' \in [Hosts -> Run \cup {None}]
           /\ run'[h] # None /\ run'[h].verb = run[h].verb /\ run'[h].box = run[h].box
           /\ run'[h].pc = pc /\ run'[h].at = at /\ run'[h].snap = snap
           /\ \A g \in Hosts \ {h} : run'[g] = run[g]
<1> DEFINE new == [run[h] EXCEPT !.pc = pc, !.at = at, !.snap = snap]
<1>1. run[h] \in Run
  BY RunFacts
<1>2. /\ new \in Run /\ new.verb = run[h].verb /\ new.box = run[h].box
      /\ new.pc = pc /\ new.at = at /\ new.snap = snap
  BY <1>1 DEF Run, UserObjects
<1>3. run' = [run EXCEPT ![h] = new]
  OBVIOUS
<1> HIDE DEF new
<1>4. /\ run' \in [Hosts -> Run \cup {None}]
      /\ run'[h] = new /\ new # None
      /\ \A g \in Hosts \ {h} : run'[g] = run[g]
  BY <1>2, <1>3, GoTypes
<1> QED
  BY <1>2, <1>4, OneMoves

\* What the steps of a process make of its place in the list.
LEMMA GoneOn ==
    ASSUME SessionTypeOK, InRange, NEW h \in Hosts,
           \/ Provision(h)
           \/ \E o \in UserObjects : ReadObject(h, o) \/ WriteObject(h, o)
           \/ PassEntry(h) \/ BeginEntry(h) \/ EndEntry(h)
    PROVE  /\ ~Free(h)
           /\ \E pc \in {"provision", "winsta", "desktop", "entry", "edit", "delete"},
                 at \in {run[h].at, run[h].at + 1}, snap \in (SUBSET Sids) \cup {None} :
                /\ run' = [run EXCEPT ![h] =
                              [run[h] EXCEPT !.pc = pc, !.at = at, !.snap = snap]]
                /\ at <= Len(Files[run[h].box]) + 1
                /\ pc = "edit" => /\ at = run[h].at
                                  /\ at \in DOMAIN Files[run[h].box]
                                  /\ Edits(run[h].verb, run[h].box, at)
<1>0. ~Free(h)
  BY DEF Provision, ReadObject, WriteObject, PassEntry, BeginEntry, EndEntry, At
<1>1. /\ run[h] \in Run /\ run[h].box \in Boxes
      /\ run[h].at \in Nat \ {0} /\ run[h].at <= Len(Files[run[h].box]) + 1
      /\ Len(Files[run[h].box]) \in Nat
      /\ DOMAIN Files[run[h].box] = 1..Len(Files[run[h].box])
  BY <1>0, RunFacts, FilesFacts
<1>2. /\ run[h].snap \in (SUBSET Sids) \cup {None}
      /\ run[h].pc \in {"provision", "winsta", "desktop", "entry", "edit", "delete"}
  BY <1>1 DEF Run, UserObjects
<1>3. CASE \E o \in UserObjects : ReadObject(h, o)
  <2>1. PICK o \in UserObjects : ReadObject(h, o)
    BY <1>3
  <2>2. station[o] \in SUBSET Sids /\ run[h].pc = o /\ o # "edit"
    BY <2>1 DEF SessionTypeOK, ReadObject, At, UserObjects
  <2>3. run' = [run EXCEPT ![h] =
                   [run[h] EXCEPT !.pc = o, !.at = run[h].at, !.snap = station[o]]]
    BY <1>1, <2>1, <2>2 DEF ReadObject, SessionTypeOK, Run
  <2> QED
    BY <1>0, <1>1, <2>2, <2>3 DEF UserObjects
<1>4. CASE Provision(h) \/ \E o \in UserObjects : WriteObject(h, o)
  <2>1. PICK pc \in {"winsta", "desktop", "entry"} :
            run' = [run EXCEPT ![h].pc = pc, ![h].snap = None]
    BY <1>4 DEF Provision, WriteObject, Goto
  <2>2. run' = [run EXCEPT ![h] =
                   [run[h] EXCEPT !.pc = pc, !.at = run[h].at, !.snap = None]]
    BY <1>1, <2>1 DEF SessionTypeOK, Run
  <2> QED
    BY <1>0, <1>1, <2>2
<1>5. CASE BeginEntry(h)
  <2>1. run' = [run EXCEPT ![h].pc = "edit", ![h].snap = None]
    BY <1>5 DEF BeginEntry, Goto
  <2>2. run' = [run EXCEPT ![h] =
                   [run[h] EXCEPT !.pc = "edit", !.at = run[h].at, !.snap = None]]
    BY <1>1, <2>1 DEF SessionTypeOK, Run
  <2>3. run[h].at \in DOMAIN Files[run[h].box]
        /\ Edits(run[h].verb, run[h].box, run[h].at)
    BY <1>1, <1>5 DEF BeginEntry, Through
  <2> QED
    BY <1>0, <1>1, <2>2, <2>3
<1>6. CASE PassEntry(h) \/ EndEntry(h)
  <2>1. run[h].at <= Len(Files[run[h].box])
    BY <1>1, <1>6 DEF PassEntry, EndEntry, Through, InRange
  <2>2. run' = [run EXCEPT ![h] =
                   [run[h] EXCEPT !.pc = "entry", !.at = run[h].at + 1,
                                  !.snap = run[h].snap]]
    BY <1>1, <1>6 DEF PassEntry, EndEntry, At, SessionTypeOK, Run
  <2>3. run[h].at + 1 <= Len(Files[run[h].box]) + 1
    BY <1>1, <2>1
  <2> QED
    BY <1>0, <1>1, <1>2, <2>2, <2>3
<1> QED
  BY <1>3, <1>4, <1>5, <1>6

\* Every step keeps the types.
LEMMA TypesStep ==
    SessionTypeOK /\ InRange /\ [SessionNext]_sessionVars => SessionTypeOK' /\ InRange'
<1> SUFFICES ASSUME SessionTypeOK, InRange, [SessionNext]_sessionVars
             PROVE  SessionTypeOK' /\ InRange'
  OBVIOUS
<1> USE DEF callVars, osVars
<1>1. CASE UNCHANGED sessionVars
  BY <1>1 DEF sessionVars, SessionTypeOK, InRange, At, Free, Edits
<1>2. ASSUME NEW b \in Boxes, TargetExits(b) \/ CleanUp(b)
      PROVE  SessionTypeOK' /\ InRange'
  <2>1. UNCHANGED <<run, resetting, owes, station, profile>>
    BY <1>2 DEF TargetExits, CleanUp
  <2>2. \E to \in {"exited", "clean"} : box' = [box EXCEPT ![b] = to]
    BY <1>2 DEF TargetExits, CleanUp
  <2> QED
    BY <2>1, <2>2 DEF SessionTypeOK, InRange, At, Free, Edits
<1>3. ASSUME NEW h \in Hosts, NEW b \in Boxes,
             \/ Launch(h, b) \/ Revert(h, b) \/ RevokeGrants(h, b)
             \/ ResetContainer(h, b) \/ ResetProfile(h, b)
      PROVE  SessionTypeOK' /\ InRange'
  <2>1. PICK v \in Verbs : Spawn(h, v, b)
    BY <1>3 DEF Launch, Revert, RevokeGrants, ResetContainer, ResetProfile, Verbs
  <2>2. RunTypeOK' /\ InRange' /\ UNCHANGED <<station, profile>>
    BY <2>1, SpawnMoves
  <2>3. /\ box' = box \/ \E to \in {"launching", "reverting"} : box' = [box EXCEPT ![b] = to]
        /\ owes' \subseteq owes \cup {b} /\ resetting' \subseteq resetting
    BY <1>3 DEF Launch, Revert, RevokeGrants, ResetContainer, ResetProfile
  <2> QED
    BY <2>2, <2>3 DEF SessionTypeOK, RunTypeOK
<1>4. ASSUME NEW h \in Hosts,
             \/ Provision(h)
             \/ \E o \in UserObjects : ReadObject(h, o) \/ WriteObject(h, o)
             \/ PassEntry(h) \/ BeginEntry(h) \/ EndEntry(h)
      PROVE  SessionTypeOK' /\ InRange'
  <2>1. ~Free(h) /\ run[h].at \in Nat \ {0} /\ Sid(h) \in Sids /\ run[h] \in Run
    BY <1>4, GoneOn, RunFacts
  <2>2. PICK pc \in {"provision", "winsta", "desktop", "entry", "edit", "delete"},
             at \in {run[h].at, run[h].at + 1}, snap \in (SUBSET Sids) \cup {None} :
                /\ run' = [run EXCEPT ![h] =
                              [run[h] EXCEPT !.pc = pc, !.at = at, !.snap = snap]]
                /\ at <= Len(Files[run[h].box]) + 1
                /\ pc = "edit" => /\ at = run[h].at
                                  /\ at \in DOMAIN Files[run[h].box]
                                  /\ Edits(run[h].verb, run[h].box, at)
    BY <1>4, GoneOn
  <2>3. at \in Nat \ {0}
    BY <2>1
  <2>4. RunTypeOK' /\ InRange'
    BY <2>1, <2>2, <2>3, StepMoves
  <2>5. UNCHANGED <<box, resetting, owes>>
    BY <1>4 DEF Provision, ReadObject, WriteObject, PassEntry, BeginEntry, EndEntry
  <2>6. profile' \subseteq Sids
    BY <1>4, <2>1 DEF Provision, ReadObject, WriteObject, PassEntry, BeginEntry, EndEntry,
                      SessionTypeOK
  <2>7. station' \in [UserObjects -> SUBSET Sids]
    <3>1. CASE \E o \in UserObjects : WriteObject(h, o)
      <4>1. PICK o \in UserObjects : WriteObject(h, o)
        BY <3>1
      <4>2. run[h].snap \in SUBSET Sids
        BY <2>1, <4>1 DEF WriteObject, Run
      <4> QED
        BY <2>1, <4>1, <4>2 DEF WriteObject, SessionTypeOK
    <3>2. CASE UNCHANGED station
      BY <3>2 DEF SessionTypeOK
    <3> QED
      BY <1>4, <3>1, <3>2 DEF Provision, ReadObject, PassEntry, BeginEntry, EndEntry
  <2> QED
    BY <2>4, <2>5, <2>6, <2>7 DEF SessionTypeOK, RunTypeOK
<1>5. ASSUME NEW h \in Hosts, Edit(h)
      PROVE  SessionTypeOK' /\ InRange'
  BY <1>5 DEF Edit, SessionTypeOK, InRange, At, Free, Edits
<1>6. ASSUME NEW h \in Hosts, Started(h) \/ Revoked(h) \/ DeleteProfile(h) \/ Fail(h)
      PROVE  SessionTypeOK' /\ InRange'
  <2>1. ~Free(h) /\ End(h)
    BY <1>6 DEF Started, Revoked, DeleteProfile, Fail, At
  <2>2. RunTypeOK' /\ InRange' /\ run[h].box \in Boxes
    BY <2>1, EndMoves, RunFacts
  <2>3. \/ box' = box
        \/ \E to \in {"running", "raised", "clean"} :
              box' = [box EXCEPT ![run[h].box] = to]
        \/ box' = [box EXCEPT ![run[h].box] = @]
    BY <1>6 DEF Started, Revoked, DeleteProfile, Fail
  <2>4. /\ owes' \subseteq owes /\ station' = station /\ profile' \subseteq profile
        /\ resetting' \subseteq resetting \cup {run[h].box}
    BY <1>6 DEF Started, Revoked, DeleteProfile, Fail
  <2> QED
    BY <2>2, <2>3, <2>4 DEF SessionTypeOK, RunTypeOK
<1> QED
  BY <1>1, <1>2, <1>3, <1>4, <1>5, <1>6 DEF SessionNext, Process

LEMMA TypesInit == SessionInit => SessionTypeOK /\ InRange
BY DEF SessionInit, SessionTypeOK, InRange, At, Free

\* Every variable of a session has its type, whoever runs at the same time;
\* no process looks beyond the end of its broker_files.
THEOREM SessionTyping == SessionSpec => []SessionTypeOK
<1> QED
  BY TypesInit, TypesStep, PTL DEF SessionSpec

-----------------------------------------------------------------------------
(* The session as a use of DaclWalk.                                       *)

\* What a launch asks for at an entry, and what a revoke with the same list
\* asks for there, concern the same nodes and the same SID.
LEMMA MirroredFacts ==
    ASSUME SessionAsks, NEW h \in Hosts, NEW v \in Verbs, NEW b \in Boxes,
           NEW i \in DOMAIN Files[b], Edits(v, b, i)
    PROVE  LET r == Mirrored(v, b, i)
           IN  /\ r \in Asks[h] /\ r \in Request /\ r.sid = Moniker[b]
               /\ r.kind \in Adds <=> v = "launch"
               /\ Scope(r) = Scope(Mirrored("launch", b, i))
<1>1. Mirrored(v, b, i) \in Asks[h] /\ Mirrored(v, b, i) \in Request
  BY AsksAssumption DEF SessionAsks, Edits
<1>2. Files[b][i].mode \in {"grant", "secure"}
  BY FilesFacts DEF Edits, BrokerFile
<1>3. ASSUME NEW w \in Verbs
      PROVE  LET r == Mirrored(w, b, i)
             IN  /\ r.path = Files[b][i].path /\ r.sid = Moniker[b]
                 /\ r.kind \in Adds <=> w = "launch"
                 /\ r.kind \in Folder <=> Files[b][i].mode = "grant"
  <2>1. CASE w = "launch" /\ Files[b][i].mode = "grant"
    BY <2>1 DEF Mirrored, Adds, Folder
  <2>2. CASE w = "launch" /\ Files[b][i].mode = "secure"
    BY <2>2 DEF Mirrored, Adds, Folder
  <2>3. CASE w # "launch" /\ Files[b][i].mode = "grant"
    BY <2>3 DEF Mirrored, Adds, Folder
  <2>4. CASE w # "launch" /\ Files[b][i].mode = "secure"
    BY <2>4 DEF Mirrored, Adds, Folder
  <2> QED
    BY <1>2, <2>1, <2>2, <2>3, <2>4
<1>4. "launch" \in Verbs
  BY DEF Verbs
<1>5. Scope(Mirrored(v, b, i)) = Scope(Mirrored("launch", b, i))
  BY <1>3, <1>4 DEF Scope
<1> QED
  BY <1>1, <1>3, <1>5

\* A host that is let go of is as good as new.
LEMMA IdleServes ==
    ASSUME ServingInv, NEW h \in Hosts, host' = [host EXCEPT ![h] = Idle],
           UNCHANGED <<acl, marker>>
    PROVE  ServingInv'
<1>1. Idle \in HostState /\ Idle.pc = "idle" /\ Idle.reply = "none"
  BY DEF Idle, HostState
<1>2. TypeOK'
  BY <1>1 DEF ServingInv, TypeOK
<1>3. Serving'
  BY <1>1 DEF ServingInv, TypeOK, Serving, Busy
<1> QED
  BY <1>2, <1>3 DEF ServingInv

LEMMA IdleSound ==
    ASSUME SoundInv, NEW h \in Hosts, host' = [host EXCEPT ![h] = Idle],
           UNCHANGED <<acl, marker>>
    PROVE  SoundInv'
<1>1. Idle.pc = "idle" /\ Idle.reply = "none"
  BY DEF Idle
<1>2. host'[h] = Idle /\ \A g \in Hosts \ {h} : host'[g] = host[g]
  BY DEF SoundInv, ServingInv, TypeOK
<1>3. ServingInv'
  BY IdleServes DEF SoundInv
<1>4. EditInv'
  BY <1>1, <1>2 DEF SoundInv, EditInv, Busy
<1>5. OkMeansWhole'
  BY <1>1, <1>2 DEF SoundInv, OkMeansWhole
<1> QED
  BY <1>3, <1>4, <1>5 DEF SoundInv, AbsentInv, RootSpeaksForTree

\* Whatever the session does is a step of the walk, or lets go of a host.
LEMMA WalkSteps ==
    ASSUME SessionAsks, SessionTypeOK, InRange, [SessionNext]_sessionVars
    PROVE  \/ [Next]_vars
           \/ /\ \E h \in Hosts : host' = [host EXCEPT ![h] = Idle]
              /\ UNCHANGED <<acl, marker>>
<1>1. CASE UNCHANGED sessionVars
  BY <1>1 DEF sessionVars
<1>2. ASSUME NEW b \in Boxes, TargetExits(b) \/ CleanUp(b)
      PROVE  UNCHANGED vars
  BY <1>2 DEF TargetExits, CleanUp
<1>3. ASSUME NEW h \in Hosts, NEW b \in Boxes,
             \/ Launch(h, b) \/ Revert(h, b) \/ RevokeGrants(h, b)
             \/ ResetContainer(h, b) \/ ResetProfile(h, b)
      PROVE  UNCHANGED vars
  BY <1>3 DEF Launch, Revert, RevokeGrants, ResetContainer, ResetProfile, Spawn
<1>4. ASSUME NEW h \in Hosts, BeginEntry(h)
      PROVE  Next
  <2> DEFINE r == Mirrored(run[h].verb, run[h].box, run[h].at)
  <2>1. ~Free(h) /\ run[h].at \in DOMAIN Files[run[h].box]
        /\ Edits(run[h].verb, run[h].box, run[h].at)
    BY <1>4, RunFacts, FilesFacts DEF BeginEntry, Through, At
  <2>2. r \in Asks[h]
    BY <2>1, RunFacts, MirroredFacts
  <2>3. Begin(h, r) \/ BeginError(h, r)
    BY <1>4 DEF BeginEntry
  <2> HIDE DEF r
  <2> QED
    BY <2>2, <2>3 DEF Next
<1>5. ASSUME NEW h \in Hosts, Edit(h)
      PROVE  Next
  BY <1>5 DEF Edit, Next
<1>6. ASSUME NEW h \in Hosts, EndEntry(h) \/ Fail(h)
      PROVE  host' = [host EXCEPT ![h] = Idle] /\ UNCHANGED <<acl, marker>>
  BY <1>6 DEF EndEntry, Fail
<1>7. ASSUME NEW h \in Hosts,
             \/ Provision(h)
             \/ \E o \in UserObjects : ReadObject(h, o) \/ WriteObject(h, o)
             \/ PassEntry(h) \/ Started(h) \/ Revoked(h) \/ DeleteProfile(h)
      PROVE  UNCHANGED vars
  BY <1>7 DEF Provision, ReadObject, WriteObject, PassEntry, Started, Revoked,
              DeleteProfile
<1> QED
  BY <1>1, <1>2, <1>3, <1>4, <1>5, <1>6, <1>7 DEF SessionNext, Process

\* No process of a session edits a node outside the files it has been given,
\* however many run at the same time: no walk crosses a junction.
THEOREM SessionStaysInside ==
    ASSUME SessionAsks
    PROVE  SessionSpec => WalkStaysInside
<1> DEFINE Base == SessionTypeOK /\ InRange /\ ServingInv
<1>1. SessionInit => Base
  BY TypesInit, ServingInit DEF SessionInit
<1>2. Base /\ [SessionNext]_sessionVars => Base'
  BY TypesStep, WalkSteps, ServingStep, IdleServes
<1>3. Base /\ [SessionNext]_sessionVars =>
          [\A n \in Nodes : acl'[n] # acl[n] =>
               \E h \in Hosts : host[h].pc = "set" /\ n \in Scope(host[h].req)]_vars
  <2> SUFFICES ASSUME Base, [SessionNext]_sessionVars,
                      NEW n \in Nodes, acl'[n] # acl[n]
               PROVE  \E h \in Hosts : host[h].pc = "set" /\ n \in Scope(host[h].req)
    OBVIOUS
  <2>1. Next
    BY WalkSteps DEF vars
  <2>2. PICK h \in Hosts : WriteNode(h)
    BY <2>1 DEF Next, Work, Begin, BeginError, Check, Mark, ReadNode, Finish, WalkError, Kill
  <2>3. n = host[h].node
    BY <2>2, WriteNodeFacts DEF ServingInv, TypeOK
  <2> QED
    BY <2>2, <2>3, WriteNodeFacts
<1> QED
  BY <1>1, <1>2, <1>3, PTL DEF SessionSpec, WalkStaysInside

-----------------------------------------------------------------------------
(* One host at a time, in disciplined use.                                 *)

\* A host edits for the entry that its process is at, or does nothing.
Doing ==
    \A h \in Hosts :
        IF At(h, "edit")
          THEN host[h].req = Mirrored(run[h].verb, run[h].box, run[h].at)
          ELSE host[h] = Idle

\* How far a launch is while a process works for it, and what it owes.
Placed ==
    \A h \in Hosts : ~Free(h) =>
        LET b == run[h].box
            v == run[h].verb
        IN  /\ v = "launch" => box[b] = "launching" /\ b \in owes
            /\ v # "launch" => box[b] \notin {"new", "launching"}
            /\ run[h].pc \in {"provision", "winsta", "desktop"} =>
                v = "launch" /\ run[h].at = 1
            /\ v = "delete" <=> run[h].pc = "delete"
            /\ v = "delete" => b \notin owes \/ Files[b] = <<>>

Waiting == \A b \in resetting : box[b] \notin {"new", "launching"} /\ b \notin owes

\* A process that has come to an entry has done those before it: what makes
\* the end of the list mean anything.
Done ==
    \A h \in Hosts : ~Free(h) /\ run[h].pc \in {"entry", "edit"} =>
        \A i \in DOMAIN Files[run[h].box] :
            i < run[h].at /\ Edits(run[h].verb, run[h].box, i) =>
                LET r == Mirrored(run[h].verb, run[h].box, i)
                IN  \A n \in Scope(r) : Reached(acl[n], r)

Seated ==
    \A h \in Hosts : ~Free(h) /\ run[h].verb = "launch" =>
        /\ run[h].pc \in {"desktop", "entry", "edit"} => Sid(h) \in station["winsta"]
        /\ run[h].pc \in {"entry", "edit"} => Sid(h) \in station["desktop"]

Kept == Doing /\ Placed /\ Waiting /\ Done /\ Seated /\ GrantsAreOwed

SessionInv == SessionTypeOK /\ InRange /\ SoundInv /\ Kept

\* A launch or a revoke undoes nothing of what it did at an earlier entry.
LEMMA KeepsReached ==
    ASSUME NEW d \in Dacl, NEW q \in Request, NEW r \in Request,
           q.sid = r.sid, q.kind \in Adds <=> r.kind \in Adds, Reached(d, q)
    PROVE  Reached(SetEntries(d, r), q)
<1>1. r.sid \in Sids /\ r.kind \in Kinds /\ q.kind \in Kinds /\ d[r.sid] \in Entry
  BY DEF Request, Dacl
<1>2. CASE r.kind = "grant"
  BY <1>1, <1>2 DEF SetEntries, Reached, HasFull, Dacl, Entry, Adds
<1>3. CASE r.kind = "secure"
  BY <1>1, <1>3 DEF SetEntries, Reached, HasFull, Dacl, Entry, Adds
<1>4. CASE r.kind \notin Adds
  BY <1>1, <1>4 DEF SetEntries, Reached, HasEntry, Dacl, Adds
<1> QED
  BY <1>2, <1>3, <1>4 DEF Adds

\* Edit, as far as the session is concerned.
LEMMA EditFacts ==
    ASSUME SoundInv, NEW h \in Hosts, Work(h)
    PROVE  /\ host'[h].req = host[h].req
           /\ \/ acl' = acl
              \/ \E n \in Scope(host[h].req) :
                    /\ host[h].pc = "set" /\ host[h].req \in Request
                    /\ n \in Nodes /\ acl[n] \in Dacl
                    /\ acl' = [acl EXCEPT ![n] = SetEntries(acl[n], host[h].req)]
<1>0. ServingInv /\ EditInv
  BY DEF SoundInv
<1>1. CASE WriteNode(h)
  <2>1. /\ host[h].pc = "set" /\ host[h].req \in Request
        /\ host[h].node \in Scope(host[h].req) /\ host[h].node \in Nodes
        /\ acl' = [acl EXCEPT ![host[h].node] = SetEntries(host[h].snap, host[h].req)]
        /\ host'[h].req = host[h].req
    BY <1>0, <1>1, WriteNodeFacts
  <2>2. host[h].snap = acl[host[h].node] /\ acl[host[h].node] \in Dacl
    BY <1>0, <2>1 DEF EditInv, ServingInv, TypeOK
  <2> QED
    BY <2>1, <2>2
<1>2. CASE Finish(h)
  BY <1>0, <1>2, ReturnFacts DEF Finish
<1>3. CASE Check(h)
  <2>1. CASE Return(h, "ok")
    BY <1>0, <1>3, <2>1, ReturnFacts DEF Check
  <2>2. CASE host' = [host EXCEPT ![h].pc = "mark"]
    BY <1>0, <1>3, <2>2 DEF Check, ServingInv, TypeOK, HostState
  <2> QED
    BY <1>3, <2>1, <2>2 DEF Check
<1>4. CASE Mark(h)
  BY <1>0, <1>4 DEF Mark, ServingInv, TypeOK, HostState
<1>5. CASE \E n \in host[h].pending : ReadNode(h, n)
  BY <1>0, <1>5 DEF ReadNode, ServingInv, TypeOK, HostState
<1> QED
  BY <1>1, <1>2, <1>3, <1>4, <1>5 DEF Work

\* A process is started: it has nothing behind it yet.
LEMMA SpawnKeeps ==
    ASSUME OneAtATime, SessionInv, NEW h \in Hosts, NEW b \in Boxes,
           \/ Launch(h, b) \/ Revert(h, b) \/ RevokeGrants(h, b)
           \/ ResetContainer(h, b) \/ ResetProfile(h, b)
    PROVE  Kept'
<1> USE DEF callVars, osVars
<1>0. SessionTypeOK /\ InRange /\ Kept /\ \A g \in Hosts : g = h
  BY DEF SessionInv, OneAtATime
<1>1. PICK v \in Verbs :
        /\ Spawn(h, v, b)
        /\ v = "launch" => box[b] = "new" /\ box' = [box EXCEPT ![b] = "launching"]
                           /\ owes' = owes \cup {b}
        /\ v # "launch" => box[b] \notin {"new", "launching"} /\ owes' = owes
                           /\ \/ box' = box
                              \/ box' = [box EXCEPT ![b] = "reverting"]
        /\ resetting' \subseteq resetting
        /\ v = "delete" => b \in resetting \/ Files[b] = <<>>
  BY <1>0 DEF Launch, Revert, RevokeGrants, ResetContainer, ResetProfile, Verbs, Kept,
              Waiting
<1>2. /\ run'[h] \in Run /\ run'[h].verb = v /\ run'[h].box = b
      /\ run'[h].at = 1 /\ run'[h].pc \in {"provision", "delete", "entry"}
      /\ run'[h].pc = "provision" <=> v = "launch"
      /\ run'[h].pc = "delete" <=> v = "delete"
      /\ run'[h] # None
  BY <1>0, <1>1, SpawnTypes, RunAssumption
<1>3. Free(h) /\ UNCHANGED <<acl, marker, host, profile, station>>
  BY <1>1 DEF Spawn, vars
<1>4. Doing'
  BY <1>0, <1>2, <1>3 DEF Kept, Doing, At, Free
<1>5. Placed'
  BY <1>0, <1>1, <1>2 DEF Kept, Placed, Waiting, Free, SessionTypeOK
<1>6. Waiting'
  BY <1>0, <1>1 DEF Kept, Waiting, SessionTypeOK
<1>7. Done'
  BY <1>0, <1>2, FilesFacts DEF Done
<1>8. Seated'
  BY <1>0, <1>2 DEF Seated
<1>9. GrantsAreOwed'
  BY <1>0, <1>1, <1>3 DEF Kept, GrantsAreOwed
<1> QED
  BY <1>4, <1>5, <1>6, <1>7, <1>8, <1>9 DEF Kept

\* The user objects and the profile.
LEMMA ObjectsKeep ==
    ASSUME OneAtATime, SessionInv, NEW h \in Hosts,
           Provision(h) \/ \E o \in UserObjects : ReadObject(h, o) \/ WriteObject(h, o)
    PROVE  Kept'
<1> USE DEF callVars, osVars
<1>0. /\ SessionTypeOK /\ InRange /\ Kept /\ \A g \in Hosts : g = h
      /\ ~Free(h) /\ run[h] \in Run /\ Sid(h) \in Sids
      /\ run[h].pc \in {"provision", "winsta", "desktop"}
      /\ UNCHANGED <<acl, marker, host, box, resetting, owes>>
  BY RunFacts DEF SessionInv, OneAtATime, Provision, ReadObject, WriteObject, At, UserObjects,
     vars
<1>1. /\ run'[h].verb = run[h].verb /\ run'[h].box = run[h].box
      /\ run'[h].at = run[h].at /\ run'[h] # None
      /\ \/ run'[h].pc = run[h].pc /\ station' = station
         \/ run[h].pc = "provision" /\ run'[h].pc = "winsta" /\ station' = station
         \/ /\ run[h].pc = "winsta" /\ run'[h].pc = "desktop"
            /\ Sid(h) \in station'["winsta"]
         \/ /\ run[h].pc = "desktop" /\ run'[h].pc = "entry"
            /\ Sid(h) \in station'["desktop"] /\ station'["winsta"] = station["winsta"]
  <2>1. CASE Provision(h)
    <3> DEFINE new == [run[h] EXCEPT !.pc = "winsta", !.snap = None]
    <3>1. new \in Run /\ new.pc = "winsta" /\ new.verb = run[h].verb
          /\ new.box = run[h].box /\ new.at = run[h].at
      BY <1>0 DEF Run, UserObjects
    <3>2. run' = [run EXCEPT ![h] = new]
      BY <1>0, <2>1 DEF Provision, Goto, SessionTypeOK
    <3> HIDE DEF new
    <3>3. run'[h] = new /\ new # None
      BY <1>0, <3>1, <3>2, GoTypes
    <3> QED
      BY <2>1, <3>1, <3>3 DEF Provision, At
  <2>2. CASE \E o \in UserObjects : ReadObject(h, o)
    <3>1. PICK o \in UserObjects : ReadObject(h, o)
      BY <2>2
    <3> DEFINE new == [run[h] EXCEPT !.snap = station[o]]
    <3>2. new \in Run /\ new.pc = run[h].pc /\ new.verb = run[h].verb
          /\ new.box = run[h].box /\ new.at = run[h].at
      BY <1>0 DEF Run, SessionTypeOK
    <3>3. run' = [run EXCEPT ![h] = new]
      BY <1>0, <3>1 DEF ReadObject, SessionTypeOK
    <3> HIDE DEF new
    <3>4. run'[h] = new /\ new # None
      BY <1>0, <3>2, <3>3, GoTypes
    <3> QED
      BY <3>1, <3>2, <3>4 DEF ReadObject
  <2>3. CASE \E o \in UserObjects : WriteObject(h, o)
    <3>1. PICK o \in UserObjects : WriteObject(h, o)
      BY <2>3
    <3> DEFINE pc == IF o = "winsta" THEN "desktop" ELSE "entry"
               new == [run[h] EXCEPT !.pc = pc, !.snap = None]
    <3>2. new \in Run /\ new.pc = pc /\ new.verb = run[h].verb
          /\ new.box = run[h].box /\ new.at = run[h].at
      BY <1>0 DEF Run, UserObjects
    <3>3. run' = [run EXCEPT ![h] = new]
      BY <1>0, <3>1 DEF WriteObject, Goto, SessionTypeOK
    <3> HIDE DEF new
    <3>4. run'[h] = new /\ new # None
      BY <1>0, <3>2, <3>3, GoTypes
    <3>5. station' = [station EXCEPT ![o] = run[h].snap \cup {Sid(h)}] /\ run[h].pc = o
      BY <3>1 DEF WriteObject, At
    <3>6. station \in [UserObjects -> SUBSET Sids]
      BY <1>0 DEF SessionTypeOK
    <3>7. CASE o = "winsta"
      BY <3>2, <3>4, <3>5, <3>6, <3>7 DEF UserObjects
    <3>8. CASE o = "desktop"
      BY <3>2, <3>4, <3>5, <3>6, <3>8 DEF UserObjects
    <3> QED
      BY <3>7, <3>8 DEF UserObjects
  <2> QED
    BY <1>0, <2>1, <2>2, <2>3
<1>2. Doing'
  BY <1>0, <1>1 DEF Kept, Doing, At, Free
<1>3. Placed'
  BY <1>0, <1>1 DEF Kept, Placed, Free
<1>4. Waiting' /\ GrantsAreOwed'
  BY <1>0 DEF Kept, Waiting, GrantsAreOwed
<1>5. Done'
  <2>1. run[h].verb = "launch" /\ run[h].box \in Boxes
    BY <1>0, RunFacts DEF Kept, Placed
  <2>2. run[h].at = 1
    BY <1>0 DEF Kept, Placed
  <2> QED
    BY <1>0, <1>1, <2>1, <2>2, FilesFacts DEF Done
<1>6. Seated'
  BY <1>0, <1>1 DEF Kept, Seated, Sid, Free
<1> QED
  BY <1>2, <1>3, <1>4, <1>5, <1>6 DEF Kept

\* The list of files: an entry that is passed over, begun or ended.
LEMMA EntriesKeep ==
    ASSUME OneAtATime, SessionInv, NEW h \in Hosts,
           PassEntry(h) \/ BeginEntry(h) \/ EndEntry(h)
    PROVE  Kept'
<1> USE DEF callVars, osVars
<1>0. /\ SessionTypeOK /\ InRange /\ Kept /\ \A g \in Hosts : g = h
      /\ ~Free(h) /\ run[h] \in Run /\ run[h].pc \in {"entry", "edit"}
      /\ run[h].at \in Nat \ {0} /\ run[h].at <= Len(Files[run[h].box]) + 1
      /\ run[h].box \in Boxes /\ run[h].verb \in Verbs
      /\ DOMAIN Files[run[h].box] = 1..Len(Files[run[h].box])
      /\ Len(Files[run[h].box]) \in Nat
      /\ UNCHANGED <<acl, marker, box, resetting, owes, station, profile>>
  BY RunFacts, FilesFacts
     DEF SessionInv, OneAtATime, PassEntry, BeginEntry, EndEntry, Begin, BeginError, At, vars
<1>1. CASE PassEntry(h) \/ EndEntry(h)
  <2> DEFINE new == [run[h] EXCEPT !.pc = "entry", !.at = run[h].at + 1]
             r == Mirrored(run[h].verb, run[h].box, run[h].at)
  <2>1. new \in Run /\ new.pc = "entry" /\ new.verb = run[h].verb
        /\ new.box = run[h].box /\ new.at = run[h].at + 1
    <3>1. run[h].at + 1 \in Nat \ {0}
      BY <1>0
    <3> QED
      BY <1>0, <3>1 DEF Run
  <2>2. run' = [run EXCEPT ![h] = new]
    BY <1>0, <1>1 DEF PassEntry, EndEntry, At, SessionTypeOK, Run
  <2> HIDE DEF new
  <2>3. run'[h] = new /\ new # None
    BY <1>0, <2>1, <2>2, GoTypes
  <2>4. host'[h] = Idle
    <3>1. CASE PassEntry(h)
      BY <1>0, <3>1 DEF PassEntry, At, Kept, Doing, vars
    <3>2. CASE EndEntry(h)
      BY <3>2 DEF EndEntry, SessionInv, SoundInv, ServingInv, TypeOK
    <3> QED
      BY <1>1, <3>1, <3>2
  <2>5. Edits(run[h].verb, run[h].box, run[h].at) =>
            \A n \in Scope(r) : Reached(acl[n], r)
    <3>1. CASE PassEntry(h)
      BY <3>1 DEF PassEntry
    <3>2. CASE EndEntry(h)
      <4>1. host[h].reply = "ok" /\ host[h].req = r
        BY <1>0, <3>2 DEF EndEntry, Kept, Doing
      <4> HIDE DEF r
      <4> QED
        BY <4>1 DEF SessionInv, SoundInv, OkMeansWhole
    <3> QED
      BY <1>1, <3>1, <3>2
  <2>6. Doing'
    BY <1>0, <2>1, <2>3, <2>4 DEF Doing, At
  <2>7. Placed'
    BY <1>0, <2>1, <2>3 DEF Kept, Placed, Free
  <2>8. Done'
    <3> SUFFICES ASSUME NEW i \in DOMAIN Files[run[h].box], i < run[h].at + 1,
                        Edits(run[h].verb, run[h].box, i),
                        NEW n \in Scope(Mirrored(run[h].verb, run[h].box, i))
                 PROVE  Reached(acl[n], Mirrored(run[h].verb, run[h].box, i))
      BY <1>0, <2>1, <2>3 DEF Done, Edits
    <3>1. i < run[h].at \/ i = run[h].at
      BY <1>0
    <3>2. CASE i < run[h].at
      BY <1>0, <3>2 DEF Kept, Done
    <3>3. CASE i = run[h].at
      BY <2>5, <3>3
    <3> QED
      BY <3>1, <3>2, <3>3
  <2>9. Seated'
    BY <1>0, <2>1, <2>3 DEF Kept, Seated, Sid, Free
  <2>10. Waiting' /\ GrantsAreOwed'
    BY <1>0 DEF Kept, Waiting, GrantsAreOwed
  <2> QED
    BY <2>6, <2>7, <2>8, <2>9, <2>10 DEF Kept
<1>2. CASE BeginEntry(h)
  <2> DEFINE new == [run[h] EXCEPT !.pc = "edit", !.snap = None]
             r == Mirrored(run[h].verb, run[h].box, run[h].at)
  <2>1. new \in Run /\ new.pc = "edit" /\ new.verb = run[h].verb
        /\ new.box = run[h].box /\ new.at = run[h].at
    BY <1>0 DEF Run
  <2>2. run' = [run EXCEPT ![h] = new] /\ run[h].pc = "entry"
    BY <1>0, <1>2 DEF BeginEntry, Goto, At, SessionTypeOK
  <2> HIDE DEF new
  <2>3. run'[h] = new /\ new # None
    BY <1>0, <2>1, <2>2, GoTypes
  <2>4. host'[h].req = r
    <3>1. host \in [Hosts -> HostState]
      BY DEF SessionInv, SoundInv, ServingInv, TypeOK
    <3>2. Begin(h, r) \/ BeginError(h, r)
      BY <1>2 DEF BeginEntry
    <3>3. CASE Begin(h, r)
      <4> HIDE DEF r
      <4> QED
        BY <3>1, <3>3 DEF Begin
    <3>4. CASE BeginError(h, r)
      <4> HIDE DEF r
      <4>1. PICK reply \in {"ok", "failed"} :
                host' = [host EXCEPT ![h] = [Idle EXCEPT !.req = r, !.reply = reply]]
        BY <3>4 DEF BeginError
      <4>2. [Idle EXCEPT !.req = r, !.reply = reply].req = r
        BY DEF Idle
      <4> QED
        BY <3>1, <4>1, <4>2
    <3> QED
      BY <3>2, <3>3, <3>4
  <2>5. Doing'
    BY <1>0, <2>1, <2>3, <2>4 DEF Doing, At, Free, Mirrored
  <2>6. Placed'
    BY <1>0, <2>1, <2>2, <2>3 DEF Kept, Placed, Free
  <2>7. Done'
    BY <1>0, <2>1, <2>3 DEF Kept, Done, Free
  <2>8. Seated'
    BY <1>0, <2>1, <2>2, <2>3 DEF Kept, Seated, Sid, Free
  <2>9. Waiting' /\ GrantsAreOwed'
    BY <1>0 DEF Kept, Waiting, GrantsAreOwed
  <2> QED
    BY <2>5, <2>6, <2>7, <2>8, <2>9 DEF Kept
<1> QED
  BY <1>1, <1>2

\* The walk itself: it comes closer to its own entry, undoes none before it,
\* and gives nothing that nobody owes.
LEMMA EditKeeps ==
    ASSUME OneAtATime, SessionAsks, SessionInv, NEW h \in Hosts, Edit(h)
    PROVE  Kept'
<1> USE DEF callVars, osVars
<1> DEFINE v == run[h].verb
           b == run[h].box
           r == Mirrored(v, b, run[h].at)
<1>0. /\ SessionTypeOK /\ InRange /\ SoundInv /\ Kept /\ \A g \in Hosts : g = h
      /\ ~Free(h) /\ run[h].pc = "edit" /\ Work(h)
      /\ b \in Boxes /\ v \in Verbs /\ run[h].at \in DOMAIN Files[b]
      /\ Edits(v, b, run[h].at)
      /\ host[h].req = r
      /\ UNCHANGED <<run, box, resetting, owes, station, profile>>
  BY RunFacts DEF SessionInv, OneAtATime, Edit, At, InRange, Kept, Doing
<1>1. host'[h].req = host[h].req
  BY <1>0, EditFacts
<1>2. r \in Request /\ r.sid = Moniker[b] /\ (r.kind \in Adds <=> v = "launch")
      /\ Scope(r) = Scope(Mirrored("launch", b, run[h].at))
  BY <1>0, MirroredFacts
<1>3. Doing' /\ Placed' /\ Waiting' /\ Seated'
  <2>1. Doing'
    BY <1>0, <1>1 DEF Doing, At, Free, Mirrored
  <2>2. Placed' /\ Waiting' /\ Seated'
    BY <1>0 DEF Kept, Placed, Waiting, Seated, Free, Sid
  <2> QED
    BY <2>1, <2>2
<1>4. CASE acl' = acl
  <2>1. Done' /\ GrantsAreOwed'
    BY <1>0, <1>4 DEF Kept, Done, GrantsAreOwed, Free
  <2> QED
    BY <1>3, <2>1 DEF Kept
<1>5. CASE acl' # acl
  <2>1. PICK n \in Scope(r) : /\ n \in Nodes /\ acl[n] \in Dacl
                              /\ acl' = [acl EXCEPT ![n] = SetEntries(acl[n], r)]
    BY <1>0, <1>5, EditFacts
  <2>2. /\ acl'[n] = SetEntries(acl[n], r)
        /\ \A x \in Nodes \ {n} : acl'[x] = acl[x]
    BY <1>0, <2>1 DEF SoundInv, ServingInv, TypeOK
  <2>3. Done'
    <3> SUFFICES ASSUME NEW i \in DOMAIN Files[b], i < run[h].at, Edits(v, b, i),
                        NEW x \in Scope(Mirrored(v, b, i))
                 PROVE  Reached(acl'[x], Mirrored(v, b, i))
      BY <1>0 DEF Done, Free
    <3>1. /\ Mirrored(v, b, i) \in Request /\ Mirrored(v, b, i).sid = Moniker[b]
          /\ Mirrored(v, b, i).kind \in Adds <=> v = "launch"
      BY <1>0, MirroredFacts
    <3>2. x \in Nodes
      BY <3>1, ScopeFacts
    <3>3. Reached(acl[x], Mirrored(v, b, i))
      BY <1>0 DEF Kept, Done
    <3>4. CASE x = n
      <4> HIDE DEF r
      <4> QED
        BY <1>2, <2>1, <2>2, <3>1, <3>3, <3>4, KeepsReached
    <3>5. CASE x # n
      BY <2>2, <3>2, <3>3, <3>5
    <3> QED
      BY <3>4, <3>5
  <2>4. GrantsAreOwed'
    <3> SUFFICES ASSUME NEW x \in Nodes, NEW s \in Sids, acl'[x][s] # NoEntry
                 PROVE  \E c \in owes : Moniker[c] = s /\ x \in Covered(c)
      BY <1>0 DEF GrantsAreOwed
    <3>1. CASE acl'[x][s] = acl[x][s]
      BY <1>0, <3>1 DEF Kept, GrantsAreOwed
    <3>2. CASE acl'[x][s] # acl[x][s]
      <4>1. x = n
        BY <2>2, <3>2
      <4>2. s = r.sid /\ r.kind \in Adds
        <5> HIDE DEF r
        <5> QED
          BY <1>2, <2>1, <2>2, <3>2, <4>1, SetEntriesElse
      <4>3. b \in owes
        BY <1>0, <1>2, <4>2 DEF Kept, Placed
      <4>4. x \in Scope(Mirrored("launch", b, run[h].at))
        BY <1>2, <2>1, <4>1
      <4>5. x \in Covered(b)
        BY <1>0, <4>4 DEF Covered, Edits
      <4> QED
        BY <1>2, <4>2, <4>3, <4>5
    <3> QED
      BY <3>1, <3>2
  <2> QED
    BY <1>3, <2>3, <2>4 DEF Kept
<1> QED
  BY <1>4, <1>5

\* The end of a list: after a revoke that has gone through all of it nothing
\* is left of what the launch was answerable for.
LEMMA NothingLeft ==
    ASSUME OneAtATime, SessionAsks, SessionInv, NEW h \in Hosts, Revoked(h),
           NEW n \in Covered(run[h].box)
    PROVE  acl[n][Sid(h)] = NoEntry
<1> DEFINE v == run[h].verb
           b == run[h].box
<1>1. /\ ~Free(h) /\ run[h].pc = "entry" /\ v # "launch"
      /\ run[h].at > Len(Files[b]) /\ b \in Boxes /\ v \in Verbs
      /\ run[h].at \in Nat /\ Len(Files[b]) \in Nat
      /\ DOMAIN Files[b] = 1..Len(Files[b])
  BY RunFacts, FilesFacts DEF SessionInv, Revoked, At, Through
<1>2. PICK i \in DOMAIN Files[b] :
          Files[b][i].mode # "inherit" /\ n \in Scope(Mirrored("launch", b, i))
  BY DEF Covered
<1>3. Edits(v, b, i) /\ i < run[h].at
  BY <1>1, <1>2 DEF Edits
<1> DEFINE r == Mirrored(v, b, i)
<1>4. n \in Scope(r) /\ r.sid = Moniker[b] /\ r.kind \notin Adds
  BY <1>1, <1>2, <1>3, MirroredFacts
<1>5. Reached(acl[n], r)
  BY <1>1, <1>3, <1>4 DEF SessionInv, Kept, Done
<1> HIDE DEF r
<1> QED
  BY <1>4, <1>5 DEF Reached, HasEntry, Adds, Sid

\* A process ends, with success or without, or a target does.
LEMMA EndsKeep ==
    ASSUME OneAtATime, SessionAsks, SessionInv, NEW h \in Hosts,
           Started(h) \/ Revoked(h) \/ DeleteProfile(h) \/ Fail(h)
    PROVE  Kept'
<1> USE DEF callVars, osVars
<1> DEFINE b == run[h].box
<1>0. /\ SessionTypeOK /\ InRange /\ Kept /\ \A g \in Hosts : g = h
      /\ ~Free(h) /\ b \in Boxes /\ End(h) /\ UNCHANGED <<acl, marker, station>>
  BY RunFacts DEF SessionInv, OneAtATime, Started, Revoked, DeleteProfile, Fail, At, vars
<1>1. run'[h] = None
  BY <1>0, EndMoves
<1>2. Doing'
  <2>1. CASE Fail(h)
    BY <1>0, <1>1, <2>1 DEF Fail, Doing, At, Free, SessionInv, SoundInv, ServingInv, TypeOK
  <2>2. CASE Started(h) \/ Revoked(h) \/ DeleteProfile(h)
    <3>1. host' = host /\ ~At(h, "edit")
      BY <2>2 DEF Started, Revoked, DeleteProfile, At, vars
    <3> QED
      BY <1>0, <1>1, <3>1 DEF Kept, Doing, At, Free
  <2> QED
    BY <2>1, <2>2
<1>3. Placed' /\ Done' /\ Seated'
  BY <1>0, <1>1 DEF Placed, Done, Seated, Free
<1>4. Waiting'
  <2>1. box \in [Boxes -> {"new", "launching", "raised", "running", "exited",
                           "reverting", "clean"}]
        /\ resetting \subseteq Boxes
    BY <1>0 DEF SessionTypeOK
  <2>2. CASE Started(h)
    BY <1>0, <2>1, <2>2 DEF Started, Kept, Waiting
  <2>3. CASE DeleteProfile(h)
    BY <1>0, <2>1, <2>3 DEF DeleteProfile, Kept, Waiting
  <2>4. CASE Fail(h)
    BY <1>0, <2>1, <2>4 DEF Fail, Kept, Waiting
  <2>5. CASE Revoked(h)
    <3>1. box[b] \notin {"new", "launching"}
      BY <1>0, <2>5 DEF Revoked, Kept, Placed
    <3> QED
      BY <1>0, <2>1, <2>5, <3>1 DEF Revoked, Kept, Waiting
  <2> QED
    BY <2>2, <2>3, <2>4, <2>5
<1>5. GrantsAreOwed'
  <2>1. CASE owes' = owes
    BY <1>0, <2>1 DEF Kept, GrantsAreOwed
  <2>2. CASE Revoked(h)
    <3> SUFFICES ASSUME NEW n \in Nodes, NEW s \in Sids, acl[n][s] # NoEntry
                 PROVE  \E c \in owes' : Moniker[c] = s /\ n \in Covered(c)
      BY <1>0 DEF GrantsAreOwed
    <3>1. PICK c \in owes : Moniker[c] = s /\ n \in Covered(c)
      BY <1>0 DEF Kept, GrantsAreOwed
    <3>2. c # b
      BY <2>2, <3>1, NothingLeft DEF Sid
    <3> QED
      BY <2>2, <3>1, <3>2 DEF Revoked
  <2> QED
    BY <2>1, <2>2 DEF Started, DeleteProfile, Fail
<1> QED
  BY <1>2, <1>3, <1>4, <1>5 DEF Kept

LEMMA BoxesKeep ==
    ASSUME SessionInv, NEW b \in Boxes, TargetExits(b) \/ CleanUp(b)
    PROVE  Kept'
<1> USE DEF callVars, osVars
<1>1. /\ box[b] \in {"running", "exited"}
      /\ \E to \in {"exited", "clean"} : box' = [box EXCEPT ![b] = to]
      /\ UNCHANGED <<vars, run, station, profile, resetting, owes>>
  BY DEF TargetExits, CleanUp
<1>2. UNCHANGED <<acl, marker, host>>
  BY <1>1 DEF vars
<1>3. SessionTypeOK /\ Kept
  BY DEF SessionInv
<1>4. Doing' /\ Done' /\ Seated' /\ GrantsAreOwed'
  BY <1>1, <1>2, <1>3 DEF Kept, Doing, Done, Seated, GrantsAreOwed, At, Free, Sid
<1>5. Placed'
  BY <1>1, <1>3 DEF Kept, Placed, Free, SessionTypeOK
<1>6. Waiting'
  BY <1>1, <1>3 DEF Kept, Waiting, SessionTypeOK
<1> QED
  BY <1>4, <1>5, <1>6 DEF Kept

\* Every step of such a session keeps the invariant.
LEMMA SessionStep ==
    ASSUME OneAtATime, Disciplined, SessionAsks
    PROVE  SessionInv /\ [SessionNext]_sessionVars => SessionInv'
<1> SUFFICES ASSUME SessionInv, [SessionNext]_sessionVars PROVE SessionInv'
  OBVIOUS
<1>0. SessionTypeOK /\ InRange /\ SoundInv /\ Kept
  BY DEF SessionInv
<1>1. SessionTypeOK' /\ InRange'
  BY <1>0, TypesStep
<1>2. SoundInv'
  BY <1>0, WalkSteps, SoundStep, IdleSound
<1>3. CASE UNCHANGED sessionVars
  <2>1. UNCHANGED <<acl, marker, host, box, resetting, owes, run, profile, station>>
    BY <1>3 DEF sessionVars, vars, callVars, osVars
  <2> QED
    BY <1>0, <1>1, <1>2, <2>1 DEF SessionInv, Kept, Doing, Placed, Waiting, Done, Seated,
       GrantsAreOwed, At, Free, Sid
<1>4. CASE SessionNext
  <2>1. Kept'
    BY <1>4, BoxesKeep, SpawnKeeps, ObjectsKeep, EntriesKeep, EditKeeps, EndsKeep
       DEF SessionNext, Process
  <2> QED
    BY <1>1, <1>2, <2>1 DEF SessionInv
<1> QED
  BY <1>3, <1>4

LEMMA SessionStart == SessionInit => SessionInv
<1> SUFFICES ASSUME SessionInit PROVE SessionInv
  OBVIOUS
<1>1. SessionTypeOK /\ InRange /\ SoundInv
  BY TypesInit, SoundInit DEF SessionInit
<1>2. Kept
  BY DEF SessionInit, Init, Kept, Doing, Placed, Waiting, Done, Seated, GrantsAreOwed, At,
         Free
<1> QED
  BY <1>1, <1>2 DEF SessionInv

\* Whatever launches, reverts and revokes come one after the other, and
\* whichever of them fail at whatever step, every entry on the disk is owed
\* by a launch that no revoke with its list has succeeded for.
THEOREM NothingIsLeftBehind ==
    ASSUME OneAtATime, Disciplined, SessionAsks
    PROVE  SessionSpec => []GrantsAreOwed
<1>1. SessionInv /\ [SessionNext]_sessionVars => SessionInv'
  BY SessionStep
<1>2. SessionInv => GrantsAreOwed
  BY DEF SessionInv, Kept
<1> QED
  BY <1>1, <1>2, SessionStart, PTL DEF SessionSpec

\* "started" is reported only when the last node of every file of the launch
\* is granted, and the window station and the desktop with them.
THEOREM StartedIsEarned ==
    ASSUME OneAtATime, Disciplined, SessionAsks
    PROVE  SessionSpec => StartedMeansGranted
<1> DEFINE Granted ==
             \A b \in Boxes : box[b] = "launching" /\ box'[b] = "running" =>
                 /\ \A o \in UserObjects : Moniker[b] \in station[o]
                 /\ \A i \in DOMAIN Files[b] : Files[b][i].mode # "inherit" =>
                      LET r == Mirrored("launch", b, i)
                      IN  \A n \in Scope(r) : Reached(acl[n], r)
<1>1. SessionInv /\ [SessionNext]_sessionVars => SessionInv'
  BY SessionStep
<1>2. SessionInv /\ [SessionNext]_sessionVars => [Granted]_sessionVars
  <2> SUFFICES ASSUME SessionInv, SessionNext, NEW b \in Boxes,
                      box[b] = "launching", box'[b] = "running"
               PROVE  /\ \A o \in UserObjects : Moniker[b] \in station[o]
                      /\ \A i \in DOMAIN Files[b] : Files[b][i].mode # "inherit" =>
                           LET r == Mirrored("launch", b, i)
                           IN  \A n \in Scope(r) : Reached(acl[n], r)
    OBVIOUS
  <2>0. SessionTypeOK /\ Kept
    BY DEF SessionInv
  <2>1. PICK h \in Hosts : Started(h)
    <3>1. box \in [Boxes -> {"new", "launching", "raised", "running", "exited",
                             "reverting", "clean"}]
      BY <2>0 DEF SessionTypeOK
    <3>2. ASSUME NEW c \in Boxes, TargetExits(c) \/ CleanUp(c)
          PROVE  FALSE
      BY <3>1, <3>2 DEF TargetExits, CleanUp
    <3>3. ASSUME NEW h \in Hosts, NEW c \in Boxes,
                 \/ Launch(h, c) \/ Revert(h, c) \/ RevokeGrants(h, c)
                 \/ ResetContainer(h, c) \/ ResetProfile(h, c)
          PROVE  FALSE
      BY <3>1, <3>3 DEF Launch, Revert, RevokeGrants, ResetContainer, ResetProfile, callVars
    <3>4. ASSUME NEW h \in Hosts, Process(h), ~Started(h)
          PROVE  FALSE
      BY <3>1, <3>4 DEF Process, Provision, ReadObject, WriteObject, PassEntry, BeginEntry,
         Edit, EndEntry, Revoked, DeleteProfile, Fail, callVars
    <3> QED
      BY <3>2, <3>3, <3>4 DEF SessionNext
  <2>2. /\ ~Free(h) /\ run[h].pc = "entry" /\ run[h].verb = "launch"
        /\ run[h].at > Len(Files[run[h].box]) /\ run[h].box \in Boxes
        /\ run[h].at \in Nat /\ Len(Files[run[h].box]) \in Nat
        /\ DOMAIN Files[run[h].box] = 1..Len(Files[run[h].box])
    BY <2>0, <2>1, RunFacts, FilesFacts DEF Started, At, Through
  <2>3. run[h].box = b
    BY <2>0, <2>1, <2>2 DEF Started, SessionTypeOK
  <2>4. \A o \in UserObjects : Moniker[b] \in station[o]
    BY <2>0, <2>2, <2>3 DEF Kept, Seated, Sid, UserObjects
  <2>5. ASSUME NEW i \in DOMAIN Files[b], Files[b][i].mode # "inherit",
               NEW n \in Scope(Mirrored("launch", b, i))
        PROVE  Reached(acl[n], Mirrored("launch", b, i))
    <3>1. i < run[h].at /\ Edits("launch", b, i)
      BY <2>2, <2>3, <2>5 DEF Edits
    <3> QED
      BY <2>0, <2>2, <2>3, <3>1 DEF Kept, Done
  <2> QED
    BY <2>4, <2>5
<1> QED
  BY <1>1, <1>2, SessionStart, PTL DEF SessionSpec, StartedMeansGranted

\* reset_container deletes the profile only when nothing on the disk is left
\* for it but what other launches of the moniker owe.
THEOREM ResetIsLast ==
    ASSUME OneAtATime, Disciplined, SessionAsks
    PROVE  SessionSpec => ResetLeavesNoOrphans
<1> DEFINE Clean ==
             \A h \in Hosts : At(h, "delete") /\ profile' # profile =>
                 \A n \in Covered(run[h].box) : acl[n][Sid(h)] # NoEntry =>
                     \E b \in owes \ {run[h].box} : Moniker[b] = Sid(h)
<1>1. SessionInv /\ [SessionNext]_sessionVars => SessionInv'
  BY SessionStep
<1>2. SessionInv /\ [SessionNext]_sessionVars => [Clean]_sessionVars
  <2> SUFFICES ASSUME SessionInv, NEW h \in Hosts, At(h, "delete"),
                      NEW n \in Covered(run[h].box), acl[n][Sid(h)] # NoEntry
               PROVE  \E b \in owes \ {run[h].box} : Moniker[b] = Sid(h)
    OBVIOUS
  <2>1. SessionTypeOK /\ Kept /\ ~Free(h) /\ run[h].box \in Boxes /\ Sid(h) \in Sids
    BY RunFacts DEF SessionInv, At
  <2>2. run[h].box \notin owes
    <3>1. run[h].box \notin owes \/ Files[run[h].box] = <<>>
      BY <2>1 DEF Kept, Placed, At
    <3>2. Files[run[h].box] # <<>>
      BY DEF Covered
    <3> QED
      BY <3>1, <3>2
  <2>3. n \in Nodes
    <3>1. PICK i \in DOMAIN Files[run[h].box] :
              /\ Files[run[h].box][i].mode # "inherit"
              /\ n \in Scope(Mirrored("launch", run[h].box, i))
      BY DEF Covered
    <3>2. "launch" \in Verbs /\ Edits("launch", run[h].box, i)
      BY <3>1 DEF Verbs, Edits
    <3> QED
      BY <2>1, <3>1, <3>2, MirroredFacts, ScopeFacts
  <2> QED
    BY <2>1, <2>2, <2>3 DEF Kept, GrantsAreOwed
<1> QED
  BY <1>1, <1>2, SessionStart, PTL DEF SessionSpec, ResetLeavesNoOrphans

\* Any number of processes at once, of any launches: as long as no two of them
\* are at work where they share a node, none takes an entry of another SID, and
\* no grant takes anything away from anyone.  The lost update that this
\* excludes takes two processes on one node.
THEOREM OverlapSparesOthers ==
    ASSUME SessionAsks
    PROVE  SessionSpec /\ []WorkApart => OthersUntouched
<1> DEFINE Base == SessionTypeOK /\ InRange /\ FreshInv
<1>1. SessionInit => Base
  BY TypesInit, FreshInit DEF SessionInit
<1>2. Base /\ WorkApart /\ [SessionNext]_sessionVars => Base'
  <2> SUFFICES ASSUME Base, WorkApart, [SessionNext]_sessionVars PROVE Base'
    OBVIOUS
  <2>1. SessionTypeOK' /\ InRange'
    BY TypesStep
  <2>2. CASE [Next]_vars
    BY <2>1, <2>2, FreshStep
  <2>3. ASSUME NEW h \in Hosts, host' = [host EXCEPT ![h] = Idle], UNCHANGED <<acl, marker>>
        PROVE  FreshInv'
    <3>1. ServingInv'
      BY <2>3, IdleServes DEF FreshInv
    <3> QED
      BY <2>3, <3>1 DEF FreshInv, Idle, ServingInv, TypeOK
  <2> QED
    BY <2>1, <2>2, <2>3, WalkSteps
<1>3. Base /\ [SessionNext]_sessionVars =>
          [\A n \in Nodes, s \in Sids : acl'[n][s] # acl[n][s] =>
               \E h \in Hosts :
                   /\ host[h].pc = "set"
                   /\ host[h].req.sid = s
                   /\ host[h].req.kind \in Adds =>
                          /\ acl[n][s].inh \subseteq acl'[n][s].inh
                          /\ acl[n][s].own \subseteq acl'[n][s].own]_vars
  <2> SUFFICES ASSUME Base, [SessionNext]_sessionVars, NEW n \in Nodes, NEW s \in Sids,
                      acl'[n][s] # acl[n][s]
               PROVE  \E h \in Hosts :
                          /\ host[h].pc = "set"
                          /\ host[h].req.sid = s
                          /\ host[h].req.kind \in Adds =>
                                 /\ acl[n][s].inh \subseteq acl'[n][s].inh
                                 /\ acl[n][s].own \subseteq acl'[n][s].own
    OBVIOUS
  <2>1. Next
    BY WalkSteps DEF vars
  <2> QED
    BY <2>1, FreshEdit
<1> QED
  BY <1>1, <1>2, <1>3, PTL DEF SessionSpec, OthersUntouched
=============================================================================
