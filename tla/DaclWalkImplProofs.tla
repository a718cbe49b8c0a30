------------------------- MODULE DaclWalkImplProofs -------------------------
(***************************************************************************)
(* The proof that the DACL walk implements FolderAccess in disciplined     *)
(* use, for every tree, every set of hosts and every set of requests.      *)
(***************************************************************************)
EXTENDS DaclWalkImpl, DaclWalkProofs

-----------------------------------------------------------------------------
(* Requests for one path, and requests for two.                            *)

\* A request is about its path, its path is a folder of FolderAccess that its
\* host serves, and its mask, if it adds one, is not empty.
LEMMA AskFacts ==
    ASSUME NEW h \in Hosts, NEW r \in Asks[h]
    PROVE  /\ r \in Request /\ r.sid \in Sids /\ r.kind \in Kinds
           /\ r \in About(r.path) /\ r.path \in Folders /\ r.path \in Serves[h]
           /\ Goal(r) \in {"none", "whole"}
           /\ r.kind \in Adds => r.mask # {}
           /\ Scope(r) \subseteq Nodes /\ r.path \in Scope(r)
<1>1. r \in Request /\ r.sid \in Sids /\ r.kind \in Kinds
      /\ (r.kind \in Adds => r.mask # {})
  BY AsksAssumption DEF Request
<1>2. r \in Requests
  BY DEF Requests
<1> QED
  BY <1>1, <1>2, ScopeFacts DEF About, Folders, Serves, Goal

\* Requests for the same path have the same nodes and the same SID, and want
\* the same of a node if they have the same goal.
LEMMA SamePath ==
    ASSUME Disciplined, OneClient, NEW f \in Folders,
           NEW q \in About(f), NEW r \in About(f)
    PROVE  /\ Scope(q) = Scope(r) /\ q.sid = r.sid
           /\ (q.kind \in Adds <=> r.kind \in Adds) =>
                  \A d \in Dacl : Reached(d, q) <=> Reached(d, r)
<1>1. PICK g \in Hosts, h \in Hosts : q \in Asks[g] /\ r \in Asks[h]
  BY DEF About, Requests
<1>2. q.path = f /\ r.path = f
  BY DEF About
<1>3. q.kind \in Kinds /\ r.kind \in Kinds /\ f \in Scope(q) /\ f \in Scope(r) /\ f \in Nodes
  BY <1>1, <1>2, AskFacts
<1>4. q.kind \in Folder <=> r.kind \in Folder
  BY <1>1, <1>3, Overlap
<1>5. q.sid = r.sid /\ (q.kind \in Adds /\ r.kind \in Adds => q.mask = r.mask)
  BY DEF OneClient
<1>6. Scope(q) = Scope(r)
  BY <1>2, <1>4 DEF Scope
<1>7. ASSUME q.kind \in Adds <=> r.kind \in Adds, NEW d \in Dacl
      PROVE  Reached(d, q) <=> Reached(d, r)
  <2>1. CASE q.kind \in Adds
    <3>1. q.kind = r.kind /\ q.mask = r.mask
      BY <1>3, <1>4, <1>5, <1>7, <2>1 DEF Kinds, Folder, File, Adds
    <3> QED
      BY <3>1, <1>5, <2>1 DEF Reached, HasFull, Adds
  <2>2. CASE q.kind \notin Adds
    BY <1>5, <1>7, <2>2 DEF Reached, HasEntry, Adds
  <2> QED
    BY <2>1, <2>2
<1> QED
  BY <1>5, <1>6, <1>7

\* Requests for two paths have no node in common.
LEMMA OtherPath ==
    ASSUME Disciplined, NEW q \in Requests, NEW r \in Requests, q.path # r.path
    PROVE  Scope(q) \cap Scope(r) = {}
<1>1. PICK g \in Hosts, h \in Hosts : q \in Asks[g] /\ r \in Asks[h]
  BY DEF Requests
<1> SUFFICES ASSUME NEW n \in Scope(q), n \in Scope(r) PROVE FALSE
  OBVIOUS
<1>2. n \in Nodes
  BY <1>1, AskFacts
<1>3. /\ q.kind \in Folder <=> r.kind \in Folder
      /\ q.kind \in Folder => q.path = r.path
  BY <1>1, <1>2, Overlap
<1> QED
  BY <1>3 DEF Scope

-----------------------------------------------------------------------------
(* What the access control lists say of a folder.                          *)

\* A node as a request wants it has an entry of the request's SID if the
\* request adds one, and none otherwise.
LEMMA ReachedHasEntry ==
    ASSUME NEW h \in Hosts, NEW r \in Asks[h], NEW d \in Dacl, Reached(d, r)
    PROVE  HasEntry(d, r.sid) <=> r.kind \in Adds
<1>1. r.sid \in Sids /\ r.kind \in Kinds /\ (r.kind \in Adds => r.mask # {})
  BY AskFacts
<1>2. d[r.sid] \in Entry
  BY <1>1 DEF Dacl
<1>3. CASE r.kind = "grant"
  BY <1>1, <1>2, <1>3 DEF Reached, HasFull, HasEntry, NoEntry, Adds
<1>4. CASE r.kind = "secure"
  BY <1>1, <1>2, <1>4 DEF Reached, HasEntry, NoEntry, Adds
<1>5. CASE r.kind \notin Adds
  BY <1>5 DEF Reached, Adds
<1> QED
  BY <1>3, <1>4, <1>5 DEF Adds

\* When every node of a request's scope is as it asks, the folder is where
\* the request wants it.
LEMMA GoalReached ==
    ASSUME Disciplined, OneClient, NEW h \in Hosts, NEW r \in Asks[h],
           NEW a \in [Nodes -> Dacl], \A n \in Scope(r) : Reached(a[n], r)
    PROVE  AccessOf(a, r.path) = Goal(r)
<1> DEFINE f == r.path
<1>1. r \in About(f) /\ f \in Folders /\ f \in Scope(r) /\ Scope(r) \subseteq Nodes
  BY AskFacts
<1>2. CASE r.kind \in Adds
  <2>1. a[f] \in Dacl /\ Reached(a[f], r)
    BY <1>1
  <2>2. HasEntry(a[f], r.sid)
    BY <1>2, <2>1, ReachedHasEntry
  <2>3. ~Sealed(a, f) /\ Whole(a, f)
    BY <1>1, <1>2, <2>2 DEF Sealed, Whole
  <2> QED
    BY <1>2, <2>3 DEF AccessOf, Goal
<1>3. CASE r.kind \notin Adds
  <2> SUFFICES Sealed(a, f)
    BY <1>3 DEF AccessOf, Goal
  <2> SUFFICES ASSUME NEW q \in About(f), NEW n \in Scope(q)
               PROVE  ~HasEntry(a[n], q.sid)
    BY DEF Sealed
  <2>1. n \in Scope(r) /\ q.sid = r.sid
    BY <1>1, SamePath
  <2>2. a[n] \in Dacl /\ Reached(a[n], r)
    BY <1>1, <2>1
  <2> QED
    BY <1>3, <2>1, <2>2, ReachedHasEntry
<1> QED
  BY <1>2, <1>3

\* The converse: a folder that is where a request wants it has every node of
\* the request's scope as it asks.
LEMMA GoalMeansReached ==
    ASSUME Disciplined, OneClient, NEW h \in Hosts, NEW r \in Asks[h],
           NEW a \in [Nodes -> Dacl], AccessOf(a, r.path) = Goal(r)
    PROVE  \A n \in Scope(r) : Reached(a[n], r)
<1> DEFINE f == r.path
<1>1. r \in About(f) /\ f \in Folders /\ Scope(r) \subseteq Nodes
  BY AskFacts
<1>2. CASE r.kind \in Adds
  <2>1. Whole(a, f)
    BY <1>2 DEF AccessOf, Goal
  <2>2. PICK q \in About(f) : q.kind \in Adds /\ \A n \in Scope(q) : Reached(a[n], q)
    BY <2>1 DEF Whole
  <2> QED
    BY <1>1, <1>2, <2>2, SamePath
<1>3. CASE r.kind \notin Adds
  <2>1. Sealed(a, f)
    BY <1>3 DEF AccessOf, Goal
  <2> QED
    BY <1>1, <1>3, <2>1 DEF Sealed, Reached, Adds
<1> QED
  BY <1>2, <1>3

\* A node as a request wants it: the folder is not at the opposite end.
LEMMA NotOpposite ==
    ASSUME Disciplined, OneClient, NEW h \in Hosts, NEW r \in Asks[h],
           NEW a \in [Nodes -> Dacl], NEW n \in Scope(r), Reached(a[n], r)
    PROVE  AccessOf(a, r.path) \in {Goal(r), "torn"}
<1> DEFINE f == r.path
<1>1. r \in About(f) /\ f \in Folders /\ Scope(r) \subseteq Nodes
  BY AskFacts
<1>2. a[n] \in Dacl
  BY <1>1
<1>3. HasEntry(a[n], r.sid) <=> r.kind \in Adds
  BY <1>2, ReachedHasEntry
<1>4. CASE r.kind \in Adds
  <2>1. ~Sealed(a, f)
    BY <1>1, <1>3, <1>4 DEF Sealed
  <2> QED
    BY <1>4, <2>1 DEF AccessOf, Goal
<1>5. CASE r.kind \notin Adds
  <2> SUFFICES ~Whole(a, f)
    BY <1>5 DEF AccessOf, Goal
  <2> SUFFICES ASSUME NEW q \in About(f), q.kind \in Adds, Reached(a[n], q)
               PROVE  FALSE
    BY <1>1, SamePath DEF Whole
  <2>1. PICK g \in Hosts : q \in Asks[g]
    BY DEF About, Requests
  <2>2. HasEntry(a[n], q.sid)
    BY <1>2, <2>1, ReachedHasEntry
  <2> QED
    BY <1>1, <1>3, <1>5, <2>2, SamePath
<1> QED
  BY <1>4, <1>5

\* An edit inside one folder leaves every other folder as it is.
LEMMA OthersKeep ==
    ASSUME Disciplined, NEW h \in Hosts, NEW r \in Asks[h],
           NEW a \in [Nodes -> Dacl], NEW b \in [Nodes -> Dacl],
           \A n \in Nodes \ Scope(r) : b[n] = a[n],
           NEW f \in Folders, f # r.path
    PROVE  AccessOf(b, f) = AccessOf(a, f)
<1>1. r \in Requests
  BY DEF Requests
<1>2. ASSUME NEW q \in About(f), NEW n \in Scope(q)
      PROVE  b[n] = a[n]
  <2>1. q \in Requests /\ q.path = f
    BY DEF About
  <2>2. n \in Nodes
    BY <2>1, AskFacts DEF Requests
  <2> QED
    BY <1>1, <2>1, <2>2, OtherPath
<1> QED
  BY <1>2 DEF AccessOf, Sealed, Whole

-----------------------------------------------------------------------------
(* Every step of the walk is a step of FolderAccess, or none.              *)

\* A step that edits no DACL moves no folder.
LEMMA AccessKept == acl' = acl => access' = access
BY DEF access, AccessOf, Sealed, Whole

\* A host that a step does not touch has its call as it was.
LEMMA CallMoves ==
    ASSUME NEW h \in Hosts, \A g \in Hosts \ {h} : host'[g] = host[g],
           NEW c, CallOf(h)' = c
    PROVE  call' = [call EXCEPT ![h] = c]
<1>1. ASSUME NEW g \in Hosts \ {h} PROVE CallOf(g)' = CallOf(g)
  <2>1. host'[g] = host[g]
    OBVIOUS
  <2> QED
    BY <2>1 DEF CallOf, Busy
<1>2. call' = [g \in Hosts |-> CallOf(g)']
  BY DEF call
<1>3. call = [g \in Hosts |-> CallOf(g)]
  BY DEF call
<1> QED
  BY <1>1, <1>2, <1>3

\* A step that changes neither a host's request nor its reply, nor whether it
\* is at work, is not seen by its caller.
LEMMA CallKept ==
    ASSUME NEW h \in Hosts, \A g \in Hosts \ {h} : host'[g] = host[g],
           host'[h].req = host[h].req, host'[h].reply = host[h].reply,
           Busy(h)' <=> Busy(h)
    PROVE  call' = call
<1>1. CallOf(h)' = CallOf(h)
  BY DEF CallOf, Busy
<1>2. call' = [call EXCEPT ![h] = CallOf(h)]
  BY <1>1, CallMoves
<1> QED
  BY <1>2 DEF call

\* What a host at work shows of its call.
LEMMA CallOfAtWork ==
    ASSUME ServingInv, NEW h \in Hosts, Busy(h)
    PROVE  /\ host[h].req \in Asks[h]
           /\ call[h] = [ busy |-> TRUE, folder |-> host[h].req.path,
                          goal |-> Goal(host[h].req), reply |-> host[h].reply ]
<1>1. host[h].req \in Asks[h] /\ host[h].req # None
  BY AsksAssumption, NoneAssumption DEF ServingInv, Serving
<1> QED
  BY <1>1 DEF call, CallOf

\* The operation ends: its caller gets the reply, and "ok" only with the
\* folder where the request wanted it.
LEMMA Returns ==
    ASSUME Disciplined, OneClient, SoundInv, SoundInv', NEW h \in Hosts, Busy(h),
           acl' = acl, NEW reply \in {"ok", "failed", "killed"}, Return(h, reply)
    PROVE  Abstract!Next
<1> DEFINE r == host[h].req
<1>0. ServingInv
  BY DEF SoundInv
<1>1. /\ host'[h].pc = "idle" /\ host'[h].reply = reply /\ host'[h].req = r
      /\ \A g \in Hosts \ {h} : host'[g] = host[g]
  BY <1>0, ReturnFacts
<1>2. /\ r \in Asks[h] /\ r # None
      /\ call[h] = [ busy |-> TRUE, folder |-> r.path,
                     goal |-> Goal(r), reply |-> host[h].reply ]
  BY <1>0, CallOfAtWork, AsksAssumption, NoneAssumption
<1>3. CallOf(h)' = [ busy |-> FALSE, folder |-> r.path,
                     goal |-> Goal(r), reply |-> reply ]
  BY <1>1, <1>2 DEF CallOf, Busy, Goal
<1>4. call' = [call EXCEPT ![h] = [ busy |-> FALSE, folder |-> @.folder,
                                    goal |-> @.goal, reply |-> reply ]]
  <2>1. call' = [call EXCEPT ![h] = [ busy |-> FALSE, folder |-> r.path,
                                      goal |-> Goal(r), reply |-> reply ]]
    BY <1>1, <1>3, CallMoves
  <2>2. call[h].folder = r.path /\ call[h].goal = Goal(r)
    BY <1>2
  <2> QED
    BY <2>1, <2>2
<1>5. ASSUME reply = "ok" PROVE access[r.path] = Goal(r)
  <2>1. \A n \in Scope(r) : Reached(acl[n], r)
    BY <1>1, <1>5 DEF SoundInv, OkMeansWhole
  <2>2. AccessOf(acl, r.path) = Goal(r)
    BY <1>0, <1>2, <2>1, GoalReached DEF ServingInv, TypeOK
  <2> QED
    BY <1>2, <2>2, AskFacts DEF access
<1>6. Abstract!Return(h, reply)
  BY <1>2, <1>4, <1>5, AccessKept DEF Abstract!Return
<1> QED
  BY <1>6 DEF Abstract!Next

\* Editing a node brings the folder of the host's request closer to its goal
\* or leaves it there, and is seen by nobody else.
LEMMA Writes ==
    ASSUME Disciplined, OneClient, SoundInv, SoundInv', NEW h \in Hosts, WriteNode(h)
    PROVE  Abstract!Next \/ UNCHANGED <<access, call>>
<1> DEFINE w == host[h]
           r == w.req
           f == r.path
<1>0. ServingInv /\ ServingInv'
  BY DEF SoundInv
<1>1. /\ Busy(h) /\ r \in Asks[h] /\ w.node \in Scope(r) /\ w.node \in Nodes
      /\ SetEntries(w.snap, r) \in Dacl /\ Reached(SetEntries(w.snap, r), r)
      /\ acl' = [acl EXCEPT ![w.node] = SetEntries(w.snap, r)]
      /\ host'[h].pc = "walk" /\ host'[h].reply = w.reply /\ host'[h].req = r
      /\ \A g \in Hosts \ {h} : host'[g] = host[g]
  BY <1>0, WriteNodeFacts
<1>2. call' = call
  BY <1>1, CallKept DEF Busy
<1>3. /\ acl \in [Nodes -> Dacl] /\ acl' \in [Nodes -> Dacl]
      /\ Reached(acl'[w.node], r)
      /\ \A n \in Nodes \ {w.node} : acl'[n] = acl[n]
  BY <1>0, <1>1 DEF ServingInv, TypeOK
<1>4. f \in Folders /\ Scope(r) \subseteq Nodes
  BY <1>1, AskFacts
<1>5. /\ access = [k \in Folders |-> AccessOf(acl, k)]
      /\ access' = [k \in Folders |-> AccessOf(acl', k)]
  BY DEF access, AccessOf, Sealed, Whole
<1>6. ASSUME NEW k \in Folders \ {f} PROVE access'[k] = access[k]
  <2>1. \A n \in Nodes \ Scope(r) : acl'[n] = acl[n]
    BY <1>1, <1>3
  <2>2. AccessOf(acl', k) = AccessOf(acl, k)
    <3>1. r \in Asks[h] /\ acl \in [Nodes -> Dacl] /\ acl' \in [Nodes -> Dacl]
      BY <1>1, <1>3
    <3>2. k \in Folders /\ k # r.path
      OBVIOUS
    <3> HIDE DEF w, r, f
    <3> QED
      BY <3>1, <3>2, <2>1, OthersKeep
  <2> QED
    BY <1>5, <2>2
<1>7. access' = [access EXCEPT ![f] = AccessOf(acl', f)]
  BY <1>4, <1>5, <1>6
<1>8. CASE access[f] = Goal(r)
  <2>1. \A n \in Scope(r) : Reached(acl[n], r)
    BY <1>1, <1>3, <1>4, <1>5, <1>8, GoalMeansReached
  <2>2. \A n \in Scope(r) : Reached(acl'[n], r)
    BY <1>3, <1>4, <2>1
  <2>3. AccessOf(acl', f) = Goal(r)
    BY <1>1, <1>3, <2>2, GoalReached
  <2> QED
    BY <1>2, <1>4, <1>5, <1>7, <1>8, <2>3
<1>9. CASE access[f] # Goal(r)
  <2>1. AccessOf(acl', f) \in {Goal(r), "torn"}
    BY <1>1, <1>3, NotOpposite
  <2>2. call[h] = [ busy |-> TRUE, folder |-> f, goal |-> Goal(r), reply |-> w.reply ]
    BY <1>0, <1>1, CallOfAtWork
  <2>3. call[h].busy /\ call[h].folder = f /\ call[h].goal = Goal(r)
    BY <2>2
  <2>4. \/ access' = [access EXCEPT ![f] = Goal(r)]
        \/ access' = [access EXCEPT ![f] = "torn"]
    BY <1>7, <2>1
  <2>5. Abstract!Advance(h)
    BY <1>2, <1>9, <2>3, <2>4 DEF Abstract!Advance
  <2> QED
    BY <2>5 DEF Abstract!Next
<1> QED
  BY <1>8, <1>9

\* Starting an operation is a call, and its first read failing a refusal.
LEMMA Begins ==
    ASSUME Disciplined, OneClient, SoundInv, SoundInv',
           NEW h \in Hosts, NEW r \in Asks[h], Begin(h, r) \/ BeginError(h, r)
    PROVE  Abstract!Next
<1>0. ServingInv
  BY DEF SoundInv
<1>1. r # None /\ r.path \in Serves[h] /\ Goal(r) \in {"none", "whole"}
      /\ r.path \in Folders
  BY AskFacts, NoneAssumption
<1>2. ~call[h].busy /\ UNCHANGED access
  BY AccessKept DEF call, CallOf, Begin, BeginError
<1>3. CASE Begin(h, r)
  <2>1. /\ host'[h].pc \in {"check", "set"} /\ host'[h].req = r
        /\ host'[h].reply = "none"
        /\ \A g \in Hosts \ {h} : host'[g] = host[g]
    BY <1>0, <1>3 DEF Begin, ServingInv, TypeOK
  <2>2. CallOf(h)' = [ busy |-> TRUE, folder |-> r.path,
                       goal |-> Goal(r), reply |-> "none" ]
    BY <1>1, <2>1 DEF CallOf, Busy, Goal
  <2>3. Abstract!Call(h, r.path, Goal(r))
    BY <1>2, <2>1, <2>2, CallMoves DEF Abstract!Call
  <2> QED
    BY <1>1, <2>3 DEF Abstract!Next
<1>4. CASE BeginError(h, r)
  <2>1. PICK reply \in {"ok", "failed"} :
            host' = [host EXCEPT ![h] = [Idle EXCEPT !.req = r, !.reply = reply]]
    BY <1>4 DEF BeginError
  <2> DEFINE new == [Idle EXCEPT !.req = r, !.reply = reply]
  <2>2. new.pc = "idle" /\ new.req = r /\ new.reply = reply
    BY DEF Idle
  <2>3. host' = [host EXCEPT ![h] = new]
    BY <2>1
  <2> HIDE DEF new
  <2>4. /\ host'[h] = new
        /\ \A g \in Hosts \ {h} : host'[g] = host[g]
    BY <1>0, <2>3 DEF ServingInv, TypeOK
  <2>5. CallOf(h)' = [ busy |-> FALSE, folder |-> r.path,
                       goal |-> Goal(r), reply |-> reply ]
    BY <1>1, <2>2, <2>4 DEF CallOf, Busy, Goal
  <2>6. ASSUME reply = "ok" PROVE access[r.path] = Goal(r)
    <3>1. \A n \in Scope(r) : Reached(acl[n], r)
      BY <1>4, <2>2, <2>4, <2>6 DEF SoundInv, OkMeansWhole, BeginError
    <3>2. AccessOf(acl, r.path) = Goal(r)
      BY <1>0, <3>1, GoalReached DEF ServingInv, TypeOK
    <3> QED
      BY <1>1, <3>2 DEF access
  <2>7. Abstract!Refuse(h, r.path, Goal(r), reply)
    BY <1>2, <2>4, <2>5, <2>6, CallMoves DEF Abstract!Refuse
  <2> QED
    BY <1>1, <2>7 DEF Abstract!Next
<1> QED
  BY <1>3, <1>4

\* Every step of the walk maps to a step of FolderAccess or to none.
LEMMA Steps ==
    ASSUME Disciplined, OneClient, SoundInv, SoundInv', [Next]_vars
    PROVE  Abstract!Next \/ UNCHANGED <<access, call>>
<1>0. ServingInv
  BY DEF SoundInv
<1>1. CASE UNCHANGED vars
  <2>1. acl' = acl /\ host' = host
    BY <1>1 DEF vars
  <2> QED
    BY <2>1, AccessKept DEF call, CallOf, Busy
<1>2. ASSUME NEW h \in Hosts, NEW r \in Asks[h], Begin(h, r) \/ BeginError(h, r)
      PROVE  Abstract!Next
  BY <1>2, Begins
<1>3. ASSUME NEW h \in Hosts, Check(h)
      PROVE  Abstract!Next \/ UNCHANGED <<access, call>>
  <2>1. Busy(h) /\ acl' = acl /\ host[h].pc = "check"
    BY <1>3 DEF Check, Busy
  <2>2. CASE Return(h, "ok")
    BY <2>1, <2>2, Returns
  <2>3. CASE host' = [host EXCEPT ![h].pc = "mark"]
    <3>1. /\ host'[h].pc = "mark" /\ host'[h].req = host[h].req
          /\ host'[h].reply = host[h].reply
          /\ \A g \in Hosts \ {h} : host'[g] = host[g]
      BY <1>0, <2>3 DEF ServingInv, TypeOK, HostState
    <3> QED
      BY <2>1, <3>1, AccessKept, CallKept DEF Busy
  <2> QED
    BY <1>3, <2>2, <2>3 DEF Check
<1>4. ASSUME NEW h \in Hosts, Mark(h)
      PROVE  UNCHANGED <<access, call>>
  <2>1. /\ host[h].pc = "mark" /\ acl' = acl
        /\ host'[h].pc = "walk" /\ host'[h].req = host[h].req
        /\ host'[h].reply = host[h].reply
        /\ \A g \in Hosts \ {h} : host'[g] = host[g]
    BY <1>0, <1>4 DEF Mark, ServingInv, TypeOK, HostState
  <2> QED
    BY <2>1, AccessKept, CallKept DEF Busy
<1>5. ASSUME NEW h \in Hosts, NEW n \in host[h].pending, ReadNode(h, n)
      PROVE  UNCHANGED <<access, call>>
  <2> DEFINE new == [host[h] EXCEPT !.pc = "set", !.snap = acl[n], !.node = n]
  <2>1. new.pc = "set" /\ new.req = host[h].req /\ new.reply = host[h].reply
    BY <1>0 DEF ServingInv, TypeOK, HostState
  <2>2. host[h].pc = "walk" /\ host' = [host EXCEPT ![h] = new] /\ acl' = acl
    BY <1>5 DEF ReadNode
  <2> HIDE DEF new
  <2>3. host'[h] = new /\ \A g \in Hosts \ {h} : host'[g] = host[g]
    BY <1>0, <2>2 DEF ServingInv, TypeOK
  <2> QED
    BY <2>1, <2>2, <2>3, AccessKept, CallKept DEF Busy
<1>6. ASSUME NEW h \in Hosts, WriteNode(h)
      PROVE  Abstract!Next \/ UNCHANGED <<access, call>>
  BY <1>6, Writes
<1>7. ASSUME NEW h \in Hosts, Finish(h) \/ WalkError(h) \/ Kill(h)
      PROVE  Abstract!Next
  <2>1. PICK reply \in {"ok", "failed", "killed"} : Return(h, reply)
    BY <1>7 DEF Finish, WalkError, Kill
  <2>2. Busy(h) /\ acl' = acl
    BY <1>7 DEF Finish, WalkError, Kill, Busy
  <2> QED
    BY <2>1, <2>2, Returns
<1> QED
  BY <1>1, <1>2, <1>3, <1>4, <1>5, <1>6, <1>7 DEF Next, Work

\* Before the first request every folder is closed and no call is under way.
LEMMA StartsSealed ==
    ASSUME OneClient, Init
    PROVE  Abstract!Init
<1>1. ASSUME NEW f \in Folders PROVE AccessOf(acl, f) = "none"
  <2> SUFFICES ASSUME NEW q \in About(f), NEW n \in Scope(q)
               PROVE  ~HasEntry(acl[n], q.sid)
    BY DEF AccessOf, Sealed
  <2>1. n \in Nodes /\ q.sid \in Sids
    BY AskFacts DEF About, Requests
  <2> QED
    BY <2>1 DEF Init, HasEntry
<1>2. ASSUME NEW h \in Hosts
      PROVE  CallOf(h) = [busy |-> FALSE, folder |-> None,
                          goal |-> "none", reply |-> "none"]
  BY DEF Init, Idle, CallOf, Busy
<1> QED
  BY <1>1, <1>2 DEF Abstract!Init, access, call

\* In disciplined use with one SID and one mask to a path, every run of the
\* walk is a run of FolderAccess: whatever is cut short, fails or overlaps,
\* a caller sees a folder move only towards what was asked, and is told "ok"
\* only when it is there.
THEOREM WalkImplementsFolderAccess ==
    ASSUME Disciplined, OneClient
    PROVE  Spec => ImplementsFolderAccess
<1>1. Init => SoundInv /\ Abstract!Init
  BY SoundInit, StartsSealed
<1>2. SoundInv /\ [Next]_vars => SoundInv'
  BY SoundStep
<1>3. SoundInv /\ SoundInv' /\ [Next]_vars => [Abstract!Next]_(Abstract!vars)
  BY Steps DEF Abstract!vars
<1> QED
  BY <1>1, <1>2, <1>3, PTL DEF Spec, ImplementsFolderAccess, Abstract!Spec
=============================================================================
