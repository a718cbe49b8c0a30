--------------------------- MODULE DaclWalkProofs ---------------------------
(***************************************************************************)
(* Proofs about the DACL walk, for every tree, every set of hosts and      *)
(* every set of requests.                                                  *)
(***************************************************************************)
EXTENDS DaclWalk, TLAPS

-----------------------------------------------------------------------------
(* The tree below a folder.                                                *)

\* A folder is in its own tree, and its tree has only nodes in it: the walk
\* of grant_tree_skip_reparse_points begins with the path it is given.
LEMMA TreeSelf ==
    ASSUME NEW n \in Nodes
    PROVE  n \in Tree[n] /\ Tree[n] \subseteq Nodes
BY DEF Tree

\* What the walk enters from a node of the tree is in the tree.
LEMMA TreeClosed ==
    ASSUME NEW n \in Nodes, NEW m \in Tree[n]
    PROVE  Enter(m) \subseteq Tree[n]
<1>1. Tree[n] = {x \in Nodes : \A S \in SUBSET Nodes : n \in S /\ Closed(S) => x \in S}
  BY DEF Tree
<1>2. m \in Nodes /\ Enter(m) \subseteq Nodes
  BY <1>1, TreeAssumption DEF Enter
<1>3. ASSUME NEW k \in Enter(m), NEW S \in SUBSET Nodes, n \in S, Closed(S)
      PROVE  k \in S
  BY <1>1, <1>3 DEF Closed
<1> QED
  BY <1>1, <1>2, <1>3

\* The tree is the least set that holds the folder and is closed.
LEMMA TreeLeast ==
    ASSUME NEW n \in Nodes, NEW S \in SUBSET Nodes, n \in S, Closed(S)
    PROVE  Tree[n] \subseteq S
BY DEF Tree

\* The tree is the folder and the trees of what the walk enters from it.
LEMMA TreeUnfold ==
    ASSUME NEW n \in Nodes
    PROVE  Tree[n] \subseteq {n} \cup UNION {Tree[k] : k \in Enter(n)}
<1> DEFINE S == {n} \cup UNION {Tree[k] : k \in Enter(n)}
<1>1. Enter(n) \subseteq Nodes
  BY TreeAssumption DEF Enter
<1>2. S \in SUBSET Nodes
  BY <1>1, TreeSelf
<1>3. Closed(S)
  <2> SUFFICES ASSUME NEW m \in S PROVE Enter(m) \subseteq S
    BY DEF Closed
  <2>1. CASE m = n
    BY <2>1, <1>1, TreeSelf
  <2>2. CASE \E k \in Enter(n) : m \in Tree[k]
    <3>1. PICK k \in Enter(n) : m \in Tree[k]
      BY <2>2
    <3> QED
      BY <3>1, <1>1, TreeClosed
  <2> QED
    BY <2>1, <2>2
<1> QED
  BY <1>2, <1>3, TreeLeast

\* An operation's path is in its scope, and so is what it enters from there.
LEMMA ScopeFacts ==
    ASSUME NEW r \in Request
    PROVE  /\ r.path \in Scope(r)
           /\ Scope(r) \subseteq Nodes
           /\ \A n \in Scope(r) : Below(r, n) \subseteq Scope(r)
<1>1. r.path \in Nodes
  BY DEF Request
<1> QED
  BY <1>1, TreeSelf, TreeClosed DEF Scope, Below

-----------------------------------------------------------------------------
(* Editing one DACL.                                                       *)

\* SetEntriesInAclW yields a DACL that is as the request asks.
LEMMA SetEntriesReaches ==
    ASSUME NEW d \in Dacl, NEW r \in Request
    PROVE  SetEntries(d, r) \in Dacl /\ Reached(SetEntries(d, r), r)
<1>1. r.sid \in Sids /\ r.mask \in SUBSET Rights /\ r.kind \in Kinds
  BY DEF Request
<1>2. d[r.sid] \in Entry
  BY <1>1 DEF Dacl
<1>3. CASE r.kind = "grant"
  BY <1>1, <1>2, <1>3 DEF SetEntries, Reached, HasFull, Dacl, Entry
<1>4. CASE r.kind = "secure"
  BY <1>1, <1>2, <1>4 DEF SetEntries, Reached, Dacl, Entry
<1>5. CASE r.kind \notin Adds
  BY <1>1, <1>2, <1>5 DEF SetEntries, Reached, HasEntry, NoEntry, Dacl, Entry, Adds
<1> QED
  BY <1>1, <1>3, <1>4, <1>5 DEF Adds

\* An edit is about the entries of one SID.
LEMMA SetEntriesElse ==
    ASSUME NEW d \in Dacl, NEW r \in Request
    PROVE  /\ \A s \in Sids \ {r.sid} : SetEntries(d, r)[s] = d[s]
           /\ r.kind \notin Adds => SetEntries(d, r)[r.sid] = NoEntry
           /\ r.kind \in Adds => /\ d[r.sid].inh \subseteq SetEntries(d, r)[r.sid].inh
                                 /\ d[r.sid].own \subseteq SetEntries(d, r)[r.sid].own
<1>1. r.sid \in Sids /\ r.kind \in Kinds /\ d[r.sid] \in Entry
  BY DEF Request, Dacl
<1>2. CASE r.kind = "grant"
  BY <1>1, <1>2 DEF SetEntries, Dacl, Entry, Adds
<1>3. CASE r.kind = "secure"
  BY <1>1, <1>3 DEF SetEntries, Dacl, Entry, Adds
<1>4. CASE r.kind \notin Adds
  BY <1>1, <1>4 DEF SetEntries, Dacl, Adds
<1> QED
  BY <1>2, <1>3, <1>4 DEF Adds

-----------------------------------------------------------------------------
(* Types, and what a host at work has in hand.                             *)

\* A host serves a request it was started for; the nodes it still has to
\* edit exist and are in the request's scope, and the one it is editing is
\* among them.
Serving ==
    \A h \in Hosts :
        LET w == host[h]
        IN  /\ Busy(h) \/ w.reply # "none" => w.req \in Asks[h]
            /\ w.pc \in {"check", "set"} => w.snap \in Dacl
            /\ Busy(h) => w.pending \subseteq Scope(w.req) \ Absent
            /\ w.pc = "set" => w.node \in w.pending

ServingInv == TypeOK /\ Serving

\* When an operation ends, its host keeps the request and drops the rest.
LEMMA ReturnFacts ==
    ASSUME ServingInv, NEW h \in Hosts,
           NEW reply \in {"ok", "failed", "killed"}, Return(h, reply)
    PROVE  /\ host' \in [Hosts -> HostState]
           /\ host'[h].pc = "idle" /\ host'[h].reply = reply
           /\ host'[h].req = host[h].req
           /\ \A g \in Hosts \ {h} : host'[g] = host[g]
<1> DEFINE w == [host[h] EXCEPT !.pc = "idle", !.snap = None, !.node = None,
                               !.pending = {}, !.reply = reply]
<1>1. host[h] \in HostState
  BY DEF ServingInv, TypeOK
<1>2. w \in HostState /\ w.pc = "idle" /\ w.reply = reply /\ w.req = host[h].req
  BY <1>1 DEF HostState
<1>3. host' = [host EXCEPT ![h] = w]
  BY DEF Return
<1> HIDE DEF w
<1> QED
  BY <1>2, <1>3 DEF ServingInv, TypeOK

\* A step that only ends an operation keeps the invariant.
LEMMA ReturnServes ==
    ASSUME ServingInv, NEW h \in Hosts, Busy(h), acl' = acl,
           marker' \subseteq Nodes,
           NEW reply \in {"ok", "failed", "killed"}, Return(h, reply)
    PROVE  ServingInv'
<1>1. TypeOK'
  BY ReturnFacts DEF ServingInv, TypeOK
<1>2. Serving'
  BY ReturnFacts DEF ServingInv, Serving, Busy
<1> QED
  BY <1>1, <1>2 DEF ServingInv

\* What editing a node does to its host and to the node.
LEMMA WriteNodeFacts ==
    ASSUME ServingInv, NEW h \in Hosts, WriteNode(h)
    PROVE  LET w == host[h]
           IN  /\ host[h].pc = "set" /\ Busy(h)
               /\ w.req \in Asks[h] /\ w.req \in Request
               /\ w.node \in w.pending /\ w.node \in Scope(w.req)
               /\ w.node \in Nodes \ Absent
               /\ SetEntries(w.snap, w.req) \in Dacl
               /\ Reached(SetEntries(w.snap, w.req), w.req)
               /\ acl' = [acl EXCEPT ![w.node] = SetEntries(w.snap, w.req)]
               /\ host' \in [Hosts -> HostState]
               /\ host'[h].pc = "walk" /\ host'[h].reply = w.reply
               /\ host'[h].req = w.req
               /\ host'[h].pending = (w.pending \ {w.node}) \cup Below(w.req, w.node)
               /\ \A g \in Hosts \ {h} : host'[g] = host[g]
               /\ UNCHANGED marker
<1> DEFINE w == host[h]
           gone == w.removed \/ (HasEntry(acl[w.node], w.req.sid)
                                 /\ w.req.kind \notin Adds)
           rest == (w.pending \ {w.node}) \cup Below(w.req, w.node)
           new == [w EXCEPT !.pc = "walk", !.snap = None, !.node = None,
                            !.pending = rest, !.removed = gone]
<1>1. w \in HostState
  BY DEF ServingInv, TypeOK
<1>2. w.pc = "set" /\ Busy(h)
  BY DEF WriteNode, Busy
<1>3. w.req \in Asks[h] /\ w.req \in Request
  BY <1>2, AsksAssumption DEF ServingInv, Serving
<1>4. w.node \in w.pending /\ w.pending \subseteq Scope(w.req) \ Absent
      /\ w.snap \in Dacl
  BY <1>2 DEF ServingInv, Serving
<1>5. w.node \in Nodes
  BY <1>3, <1>4, ScopeFacts
<1>6. SetEntries(w.snap, w.req) \in Dacl /\ Reached(SetEntries(w.snap, w.req), w.req)
  BY <1>3, <1>4, SetEntriesReaches
<1>7. rest \in SUBSET Nodes
  BY <1>3, <1>4, ScopeFacts
<1>8. gone \in BOOLEAN
  BY <1>1 DEF HostState
<1>9. new \in HostState /\ new.pc = "walk" /\ new.reply = w.reply
      /\ new.req = w.req /\ new.pending = rest
  <2> HIDE DEF rest, gone
  <2> QED
    BY <1>1, <1>7, <1>8 DEF HostState
<1>10. /\ host' = [host EXCEPT ![h] = new]
       /\ acl' = [acl EXCEPT ![w.node] = SetEntries(w.snap, w.req)]
       /\ UNCHANGED marker
  BY DEF WriteNode
<1>11. /\ host' \in [Hosts -> HostState] /\ host'[h] = new
       /\ \A g \in Hosts \ {h} : host'[g] = host[g]
  <2> HIDE DEF new
  <2> QED
    BY <1>9, <1>10 DEF ServingInv, TypeOK
<1> QED
  BY <1>2, <1>3, <1>4, <1>5, <1>6, <1>9, <1>10, <1>11

\* Every step keeps a host to its request.
LEMMA ServingStep == ServingInv /\ [Next]_vars => ServingInv'
<1> SUFFICES ASSUME ServingInv, [Next]_vars PROVE ServingInv'
  OBVIOUS
<1> USE DEF ServingInv
<1>1. CASE UNCHANGED vars
  BY <1>1 DEF vars, TypeOK, Serving, Busy
<1>2. ASSUME NEW h \in Hosts, NEW r \in Asks[h], Begin(h, r)
      PROVE  ServingInv'
  <2>1. r \in Request /\ r.path \in Scope(r) /\ r.path \in Nodes
    BY AsksAssumption, ScopeFacts DEF Request
  <2>2. acl[r.path] \in Dacl
    BY <2>1 DEF TypeOK
  <2>3. TypeOK'
    BY <1>2, <2>1, <2>2 DEF Begin, TypeOK, HostState
  <2>4. Serving'
    BY <1>2, <2>1, <2>2 DEF Begin, Serving, Busy, TypeOK
  <2> QED
    BY <2>3, <2>4
<1>3. ASSUME NEW h \in Hosts, NEW r \in Asks[h], BeginError(h, r)
      PROVE  ServingInv'
  <2>1. PICK reply \in {"ok", "failed"} :
            host' = [host EXCEPT ![h] = [Idle EXCEPT !.req = r, !.reply = reply]]
    BY <1>3 DEF BeginError
  <2> DEFINE new == [Idle EXCEPT !.req = r, !.reply = reply]
  <2>2. new \in HostState /\ new.pc = "idle" /\ new.req = r
    BY AsksAssumption DEF Idle, HostState
  <2> HIDE DEF new
  <2>3. host' = [host EXCEPT ![h] = new]
    BY <2>1 DEF new
  <2> QED
    BY <2>2, <2>3, <1>3 DEF BeginError, TypeOK, Serving, Busy
<1>4. ASSUME NEW h \in Hosts, Check(h)
      PROVE  ServingInv'
  <2>1. Busy(h) /\ acl' = acl /\ marker' \subseteq Nodes
    BY <1>4 DEF Check, Busy, TypeOK
  <2>2. CASE Return(h, "ok")
    BY <2>1, <2>2, ReturnServes
  <2>3. CASE host' = [host EXCEPT ![h].pc = "mark"]
    BY <1>4, <2>1, <2>3 DEF TypeOK, Serving, Busy, HostState, Check
  <2> QED
    BY <1>4, <2>2, <2>3 DEF Check
<1>5. ASSUME NEW h \in Hosts, Mark(h)
      PROVE  ServingInv'
  <2>1. host[h].req \in Request
    BY <1>5, AsksAssumption DEF Mark, Busy, Serving
  <2>2. host[h].req.path \in Nodes
    BY <2>1 DEF Request
  <2> QED
    BY <1>5, <2>2 DEF Mark, TypeOK, Serving, Busy, HostState
<1>6. ASSUME NEW h \in Hosts, NEW n \in host[h].pending, ReadNode(h, n)
      PROVE  ServingInv'
  <2> DEFINE new == [host[h] EXCEPT !.pc = "set", !.snap = acl[n], !.node = n]
  <2>1. host[h] \in HostState /\ n \in Nodes /\ acl[n] \in Dacl
    BY DEF TypeOK, HostState
  <2>2. /\ new \in HostState /\ new.pc = "set" /\ new.snap = acl[n]
        /\ new.node = n /\ new.pending = host[h].pending
        /\ new.req = host[h].req /\ new.reply = host[h].reply
    BY <2>1 DEF HostState
  <2>3. host' = [host EXCEPT ![h] = new] /\ host[h].pc = "walk"
    BY <1>6 DEF ReadNode
  <2> HIDE DEF new
  <2> QED
    BY <1>6, <2>1, <2>2, <2>3 DEF ReadNode, TypeOK, Serving, Busy
<1>7. ASSUME NEW h \in Hosts, WriteNode(h)
      PROVE  ServingInv'
  <2> DEFINE w == host[h]
  <2>1. /\ w.req \in Asks[h] /\ w.req \in Request
        /\ w.node \in Scope(w.req) /\ w.node \in Nodes
        /\ w.pending \subseteq Scope(w.req) \ Absent
    BY <1>7, WriteNodeFacts DEF Serving
  <2>2. Below(w.req, w.node) \subseteq Scope(w.req) \ Absent
    BY <2>1, ScopeFacts, TreeAssumption DEF Below, Enter
  <2>3. TypeOK'
    BY <1>7, WriteNodeFacts DEF TypeOK
  <2>4. Serving'
    BY <1>7, <2>1, <2>2, WriteNodeFacts DEF Serving, Busy
  <2> QED
    BY <2>3, <2>4
<1>8. ASSUME NEW h \in Hosts, Finish(h)
      PROVE  ServingInv'
  <2>1. Busy(h) /\ acl' = acl /\ Return(h, "ok") /\ marker' \subseteq Nodes
    BY <1>8 DEF Finish, Busy, TypeOK
  <2> QED
    BY <2>1, ReturnServes
<1>9. ASSUME NEW h \in Hosts, WalkError(h)
      PROVE  ServingInv'
  <2>1. Busy(h) /\ acl' = acl /\ Return(h, "failed") /\ marker' \subseteq Nodes
    BY <1>9 DEF WalkError, Busy, TypeOK
  <2> QED
    BY <2>1, ReturnServes
<1>10. ASSUME NEW h \in Hosts, Kill(h)
       PROVE  ServingInv'
  <2>1. Busy(h) /\ acl' = acl /\ Return(h, "killed") /\ marker' \subseteq Nodes
    BY <1>10 DEF Kill, TypeOK
  <2> QED
    BY <2>1, ReturnServes
<1> QED
  BY <1>1, <1>2, <1>3, <1>4, <1>5, <1>6, <1>7, <1>8, <1>9, <1>10 DEF Next, Work

\* Nobody has asked for anything yet.
LEMMA ServingInit == Init => ServingInv
BY DEF Init, ServingInv, TypeOK, Serving, Idle, HostState, Dacl, Entry, NoEntry, Busy

\* Every reachable state of the walk is well typed.
THEOREM Typing == Spec => []TypeOK
<1>1. ServingInv => TypeOK
  BY DEF ServingInv
<1> QED
  BY <1>1, ServingInit, ServingStep, PTL DEF Spec

\* A step edits only nodes in the scope of an operation under way: whatever
\* the tree, no walk crosses a junction or leaves its folder.
THEOREM StaysInside == Spec => WalkStaysInside
<1>1. ServingInv /\ [Next]_vars =>
          [\A n \in Nodes : acl'[n] # acl[n] =>
               \E h \in Hosts : host[h].pc = "set" /\ n \in Scope(host[h].req)]_vars
  <2> SUFFICES ASSUME ServingInv, Next, NEW n \in Nodes, acl'[n] # acl[n]
               PROVE  \E h \in Hosts : host[h].pc = "set" /\ n \in Scope(host[h].req)
    OBVIOUS
  <2>1. PICK h \in Hosts : WriteNode(h)
    BY DEF Next, Work, Begin, BeginError, Check, Mark, ReadNode, Finish, WalkError, Kill
  <2>2. n = host[h].node
    BY <2>1, WriteNodeFacts DEF ServingInv, TypeOK
  <2> QED
    BY <2>1, <2>2, WriteNodeFacts
<1> QED
  BY <1>1, ServingInit, ServingStep, PTL DEF Spec, WalkStaysInside

-----------------------------------------------------------------------------
(* Hosts that work on different nodes do not undo one another's edits.     *)

\* No node is in the scope of requests of two hosts.  SIDs, masks and kinds
\* may be any.
HostsApart ==
    \A g, h \in Hosts : \A q \in Asks[g], r \in Asks[h] :
        Scope(q) \cap Scope(r) # {} => g = h

\* At this moment, no two hosts are at work where they share a node.
WorkApart ==
    \A g, h \in Hosts :
        Busy(g) /\ Busy(h) /\ Scope(host[g].req) \cap Scope(host[h].req) # {} => g = h

\* What a host is about to write over is still what it has read.
FreshInv ==
    ServingInv /\ \A h \in Hosts : host[h].pc = "set" => host[h].snap = acl[host[h].node]

LEMMA FreshInit == Init => FreshInv
BY ServingInit DEF FreshInv, Init, Idle

LEMMA FreshStep == WorkApart /\ FreshInv /\ [Next]_vars => FreshInv'
<1> SUFFICES ASSUME WorkApart, FreshInv, [Next]_vars PROVE FreshInv'
  OBVIOUS
<1>0. ServingInv /\ ServingInv'
  BY ServingStep DEF FreshInv
<1>t. /\ host \in [Hosts -> HostState] /\ host' \in [Hosts -> HostState]
      /\ acl \in [Nodes -> Dacl]
  BY <1>0 DEF ServingInv, TypeOK
<1> SUFFICES ASSUME NEW h \in Hosts, host'[h].pc = "set"
             PROVE  host'[h].snap = acl'[host'[h].node]
  BY <1>0 DEF FreshInv
\* A host that leaves this one and the lists alone.
<1>1. CASE UNCHANGED <<acl, host[h]>>
  BY <1>1 DEF FreshInv
<1>2. CASE UNCHANGED acl /\ host'[h] # host[h]
  <2>1. PICK g \in Hosts : \/ \E r \in Asks[g] : Begin(g, r) \/ BeginError(g, r)
                           \/ Work(g) \/ WalkError(g) \/ Kill(g)
    BY <1>2 DEF Next, vars
  <2>2. ~WriteNode(g) \/ host'[g].pc = "walk"
    BY <1>0, WriteNodeFacts
  <2>3. g = h
    BY <1>2, <1>t, <2>1 DEF Begin, BeginError, Work, Check, Mark, ReadNode, WriteNode, Finish,
                       WalkError, Kill, Return
  <2>4. CASE \E r \in Asks[h] : Begin(h, r)
    BY <1>2, <1>t, <2>4 DEF Begin
  <2>5. CASE \E n \in host[h].pending : ReadNode(h, n)
    BY <1>2, <1>t, <2>5 DEF ReadNode, HostState
  <2>6. CASE \/ \E reply \in {"ok", "failed", "killed"} : Return(h, reply)
             \/ \E r \in Asks[h] : BeginError(h, r)
    <3>1. ASSUME NEW reply \in {"ok", "failed", "killed"}, Return(h, reply)
          PROVE  FALSE
      BY <1>0, <3>1, ReturnFacts
    <3>2. ASSUME NEW r \in Asks[h], BeginError(h, r) PROVE FALSE
      BY <1>t, <3>2 DEF BeginError, Idle
    <3> QED
      BY <2>6, <3>1, <3>2
  <2>7. CASE \/ host' = [host EXCEPT ![h].pc = "mark"]
             \/ host' = [host EXCEPT ![h].pc = "walk"]
    BY <1>t, <2>7 DEF HostState
  <2> QED
    BY <2>1, <2>2, <2>3, <2>4, <2>5, <2>6, <2>7
       DEF Work, Check, Mark, Finish, WalkError, Kill
<1>3. CASE acl' # acl
  <2>1. PICK g \in Hosts : WriteNode(g)
    BY <1>3 DEF Next, vars, Work, Begin, BeginError, Check, Mark, ReadNode, Finish,
                WalkError, Kill
  <2>2. g # h /\ host'[h] = host[h]
    BY <1>0, <2>1, WriteNodeFacts
  <2>3. /\ Busy(h) /\ host[h].node \in Scope(host[h].req)
        /\ host[h].node \in Nodes
    <3>1. host[h].pc = "set" /\ Busy(h)
      BY <2>2 DEF Busy
    <3> QED
      BY <1>0, <3>1, AsksAssumption, ScopeFacts DEF ServingInv, Serving
  <2>4. Busy(g) /\ host[g].node \in Scope(host[g].req)
    BY <1>0, <2>1, WriteNodeFacts
  <2>5. host[g].node # host[h].node
    BY <2>2, <2>3, <2>4 DEF WorkApart
  <2>6. acl'[host[h].node] = acl[host[h].node]
    BY <1>0, <1>t, <2>1, <2>3, <2>5, WriteNodeFacts
  <2> QED
    BY <2>2, <2>6 DEF FreshInv
<1> QED
  BY <1>1, <1>2, <1>3

\* An edit of what is still as it was read changes one SID's entries only.
LEMMA FreshEdit ==
    ASSUME FreshInv, Next, NEW n \in Nodes, NEW s \in Sids, acl'[n][s] # acl[n][s]
    PROVE  \E h \in Hosts :
               /\ host[h].pc = "set"
               /\ host[h].req.sid = s
               /\ host[h].req.kind \in Adds =>
                      /\ acl[n][s].inh \subseteq acl'[n][s].inh
                      /\ acl[n][s].own \subseteq acl'[n][s].own
<1>1. PICK h \in Hosts : WriteNode(h)
  BY DEF Next, Work, Begin, BeginError, Check, Mark, ReadNode, Finish, WalkError, Kill
<1>2. ServingInv /\ acl \in [Nodes -> Dacl]
  BY DEF FreshInv, ServingInv, TypeOK
<1>3. /\ host[h].pc = "set" /\ host[h].req \in Request /\ host[h].node \in Nodes
      /\ acl' = [acl EXCEPT ![host[h].node] = SetEntries(host[h].snap, host[h].req)]
  BY <1>1, <1>2, WriteNodeFacts
<1>4. host[h].snap = acl[host[h].node]
  BY <1>3 DEF FreshInv
<1>5. n = host[h].node /\ acl[n] \in Dacl /\ acl'[n] = SetEntries(acl[n], host[h].req)
  BY <1>2, <1>3, <1>4
<1>6. s = host[h].req.sid
  BY <1>3, <1>5, SetEntriesElse
<1> QED
  BY <1>3, <1>5, <1>6, SetEntriesElse

\* Requests that share no nodes are never at work where they share one.
LEMMA ApartAtWork == HostsApart /\ ServingInv => WorkApart
BY DEF HostsApart, WorkApart, ServingInv, Serving

\* A lost update takes two hosts that work on one node: where no two do, a
\* grant takes nothing away from anyone and a revoke only from its own SID,
\* whatever the hosts interleave, fail or are killed, with or without markers.
THEOREM ApartSparesOthers ==
    ASSUME HostsApart
    PROVE  Spec => OthersUntouched
<1>1. FreshInv /\ [Next]_vars =>
          [\A n \in Nodes, s \in Sids : acl'[n][s] # acl[n][s] =>
               \E h \in Hosts :
                   /\ host[h].pc = "set"
                   /\ host[h].req.sid = s
                   /\ host[h].req.kind \in Adds =>
                          /\ acl[n][s].inh \subseteq acl'[n][s].inh
                          /\ acl[n][s].own \subseteq acl'[n][s].own]_vars
  BY FreshEdit
<1>2. FreshInv => WorkApart
  BY ApartAtWork DEF FreshInv
<1> QED
  BY <1>1, <1>2, FreshInit, FreshStep, PTL DEF Spec, OthersUntouched

-----------------------------------------------------------------------------
(* Disciplined use: what the marker and the fast paths are worth.          *)

\* The nodes that a pending node m stands for.
Span(r, m) == IF r.kind \in Folder THEN Tree[m] ELSE {m}

\* The inductive invariant.  The last part is what makes it inductive: a
\* node of a walk's scope is as asked, or the walk has still to come to it.
EditInv ==
    \A h \in Hosts :
        LET w == host[h]
            r == w.req
        IN  /\ Busy(h) => w.reply = "none"
            /\ w.pc \in {"check", "mark"} => r.kind \in Folder /\ r.path \in w.pending
            /\ w.pc = "check" => w.snap = acl[r.path]
            /\ w.pc = "set" => w.snap = acl[w.node]
            /\ w.pc \in {"walk", "set"} /\ r.kind \in Folder => r.path \in marker
            /\ w.pc \in {"walk", "set"} =>
                   \A n \in Scope(r) : \/ Reached(acl[n], r)
                                       \/ \E m \in w.pending : n \in Span(r, m)

\* Nothing has been written on a path that names nothing.
AbsentInv == \A n \in Absent, s \in Sids : acl[n][s] = NoEntry

SoundInv == ServingInv /\ EditInv /\ AbsentInv /\ OkMeansWhole /\ RootSpeaksForTree

\* In disciplined use, two requests that share a node come from one host; if
\* they are for folders they want the same node states, or opposite ones.
LEMMA Overlap ==
    ASSUME Disciplined, NEW g \in Hosts, NEW h \in Hosts,
           NEW q \in Asks[g], NEW r \in Asks[h],
           NEW n \in Nodes, n \in Scope(q), n \in Scope(r)
    PROVE  /\ g = h
           /\ q.kind \in Folder <=> r.kind \in Folder
           /\ q.kind \in Folder =>
                 /\ q.path = r.path /\ q.sid = r.sid
                 /\ q.kind \in Adds /\ r.kind \in Adds => q.mask = r.mask
BY DEF Disciplined

\* Of two such requests for a folder, either both are met by a node or at
\* most one of them is.
LEMMA ReachedAgrees ==
    ASSUME NEW g \in Hosts, NEW h \in Hosts, NEW q \in Asks[g], NEW r \in Asks[h],
           q.kind \in Folder, r.kind \in Folder, q.sid = r.sid,
           q.kind \in Adds /\ r.kind \in Adds => q.mask = r.mask,
           NEW d \in Dacl, Reached(d, q), Reached(d, r),
           NEW e \in Dacl, Reached(e, q)
    PROVE  Reached(e, r)
<1>1. q \in Request /\ r \in Request
  BY AsksAssumption
<1>2. d[q.sid] \in Entry /\ (q.kind \in Adds => q.mask # {})
      /\ (r.kind \in Adds => r.mask # {})
  BY <1>1, AsksAssumption DEF Dacl, Request
<1>3. CASE q.kind = r.kind
  <2>1. CASE q.kind = "grant"
    BY <1>3, <2>1 DEF Reached, HasFull, Adds
  <2>2. CASE q.kind = "revoke"
    BY <1>3, <2>2 DEF Reached, HasEntry
  <2> QED
    BY <2>1, <2>2 DEF Folder
<1>4. CASE q.kind = "grant" /\ r.kind = "revoke"
  BY <1>2, <1>4 DEF Reached, HasFull, HasEntry, NoEntry, Adds
<1>5. CASE q.kind = "revoke" /\ r.kind = "grant"
  BY <1>2, <1>5 DEF Reached, HasFull, HasEntry, NoEntry, Adds
<1> QED
  BY <1>3, <1>4, <1>5 DEF Folder

\* What a pending node stands for is the node and what its children stand for.
LEMMA SpanUnfold ==
    ASSUME NEW r \in Request, NEW m \in Nodes, NEW n \in Span(r, m), n # m
    PROVE  \E k \in Below(r, m) : n \in Span(r, k)
<1>1. CASE r.kind \in Folder
  BY <1>1, TreeUnfold DEF Span, Below
<1>2. CASE r.kind \notin Folder
  BY <1>2 DEF Span
<1> QED
  BY <1>1, <1>2

\* A step that ends an operation, writes nothing and takes no marker away
\* keeps the invariant, if "ok" is said of a scope that is as asked.
LEMMA ReturnSound ==
    ASSUME SoundInv, NEW h \in Hosts, Busy(h), UNCHANGED <<acl, marker>>,
           NEW reply \in {"ok", "failed", "killed"}, Return(h, reply),
           reply = "ok" => \A n \in Scope(host[h].req) : Reached(acl[n], host[h].req)
    PROVE  EditInv' /\ AbsentInv' /\ OkMeansWhole' /\ RootSpeaksForTree'
<1>1. /\ host'[h].pc = "idle" /\ host'[h].reply = reply
      /\ host'[h].req = host[h].req
      /\ \A g \in Hosts \ {h} : host'[g] = host[g]
  BY ReturnFacts DEF SoundInv
<1>2. EditInv'
  BY <1>1 DEF SoundInv, EditInv, Busy
<1>3. OkMeansWhole'
  BY <1>1 DEF SoundInv, OkMeansWhole
<1> QED
  BY <1>2, <1>3 DEF SoundInv, AbsentInv, RootSpeaksForTree

\* Editing a node keeps the invariant: the request's own scope comes closer,
\* and no other request of anybody has the node in its scope.
LEMMA WriteNodeSound ==
    ASSUME Disciplined, SoundInv, NEW h \in Hosts, WriteNode(h)
    PROVE  EditInv' /\ AbsentInv' /\ OkMeansWhole' /\ RootSpeaksForTree'
<1> DEFINE w == host[h]
           q == w.req
           n == w.node
<1>0. ServingInv
  BY DEF SoundInv
<1>1. /\ w.pc = "set" /\ Busy(h)
      /\ q \in Asks[h] /\ q \in Request
      /\ n \in w.pending /\ n \in Scope(q) /\ n \in Nodes \ Absent
      /\ Reached(SetEntries(w.snap, q), q)
      /\ acl' = [acl EXCEPT ![n] = SetEntries(w.snap, q)]
      /\ host'[h].pc = "walk" /\ host'[h].reply = w.reply /\ host'[h].req = q
      /\ host'[h].pending = (w.pending \ {n}) \cup Below(q, n)
      /\ \A g \in Hosts \ {h} : host'[g] = host[g]
      /\ marker' = marker
  BY <1>0, WriteNodeFacts
<1>2. /\ acl \in [Nodes -> Dacl]
      /\ \A x \in Nodes \ {n} : acl'[x] = acl[x]
      /\ acl'[n] = SetEntries(w.snap, q)
  BY <1>0, <1>1 DEF ServingInv, TypeOK
<1>3. ASSUME NEW g \in Hosts \ {h}, NEW r \in Asks[g], NEW x \in Scope(r)
      PROVE  x \in Nodes /\ acl'[x] = acl[x]
  <2>1. r \in Request /\ x \in Nodes
    BY AsksAssumption, ScopeFacts
  <2>2. x # n
    BY <1>1, <2>1, Overlap
  <2> QED
    BY <1>2, <2>1, <2>2
<1>4. EditInv'
  <2> SUFFICES ASSUME NEW g \in Hosts
               PROVE  LET v == host'[g]
                          r == v.req
                      IN  /\ v.pc # "idle" => v.reply = "none"
                          /\ v.pc \in {"check", "mark"} =>
                                 r.kind \in Folder /\ r.path \in v.pending
                          /\ v.pc = "check" => v.snap = acl'[r.path]
                          /\ v.pc = "set" => v.snap = acl'[v.node]
                          /\ v.pc \in {"walk", "set"} /\ r.kind \in Folder =>
                                 r.path \in marker'
                          /\ v.pc \in {"walk", "set"} =>
                                 \A x \in Scope(r) :
                                     \/ Reached(acl'[x], r)
                                     \/ \E m \in v.pending : x \in Span(r, m)
    BY DEF EditInv, Busy
  <2>1. CASE g = h
    <3>1. w.reply = "none" /\ (q.kind \in Folder => q.path \in marker)
      BY <1>1 DEF SoundInv, EditInv
    <3>2. ASSUME NEW x \in Scope(q)
          PROVE  \/ Reached(acl'[x], q)
                 \/ \E m \in host'[h].pending : x \in Span(q, m)
      <4>1. x \in Nodes
        BY <1>1, ScopeFacts
      <4>2. CASE x = n
        BY <1>1, <1>2, <4>2
      <4>3. CASE x # n /\ Reached(acl[x], q)
        BY <1>2, <4>1, <4>3
      <4>4. CASE x # n /\ ~Reached(acl[x], q)
        <5>1. PICK m \in w.pending : x \in Span(q, m)
          BY <1>1, <4>4 DEF SoundInv, EditInv
        <5>2. CASE m = n
          BY <1>1, <4>4, <5>1, <5>2, SpanUnfold
        <5>3. CASE m # n
          BY <1>1, <5>1, <5>3
        <5> QED
          BY <5>2, <5>3
      <4> QED
        BY <4>2, <4>3, <4>4
    <3> QED
      BY <1>1, <2>1, <3>1, <3>2
  <2>2. CASE g # h
    <3>1. host'[g] = host[g]
      BY <1>1, <2>2
    <3>2. Busy(g) => /\ host[g].req \in Asks[g] /\ host[g].req \in Request
                     /\ host[g].pending \subseteq Scope(host[g].req)
                     /\ (host[g].pc = "set" => host[g].node \in host[g].pending)
      BY <1>0, AsksAssumption DEF ServingInv, Serving
    <3>3. Busy(g) => \A x \in Scope(host[g].req) : acl'[x] = acl[x]
      BY <1>3, <2>2, <3>2
    <3> QED
      BY <1>1, <3>1, <3>2, <3>3, ScopeFacts DEF SoundInv, EditInv, Busy
  <2> QED
    BY <2>1, <2>2
<1>5. AbsentInv'
  BY <1>1, <1>2, TreeAssumption DEF SoundInv, AbsentInv
<1>6. OkMeansWhole'
  <2> SUFFICES ASSUME NEW g \in Hosts, host'[g].reply = "ok",
                      NEW x \in Scope(host'[g].req)
               PROVE  Reached(acl'[x], host'[g].req)
    BY DEF OkMeansWhole
  <2>1. g # h /\ host'[g] = host[g]
    BY <1>1 DEF SoundInv, EditInv
  <2>2. host[g].req \in Asks[g]
    BY <1>0, <2>1 DEF ServingInv, Serving
  <2>3. acl'[x] = acl[x]
    BY <1>3, <2>1, <2>2
  <2> QED
    BY <2>1, <2>3 DEF SoundInv, OkMeansWhole
<1>7. RootSpeaksForTree'
  <2> SUFFICES ASSUME NEW g \in Hosts, NEW r \in Asks[g], r.kind \in Folder,
                      r.path \notin marker', Reached(acl'[r.path], r),
                      NEW x \in Tree[r.path]
               PROVE  Reached(acl'[x], r)
    BY DEF RootSpeaksForTree
  <2>1. /\ r \in Request /\ Scope(r) = Tree[r.path]
        /\ r.path \in Scope(r) /\ Scope(r) \subseteq Nodes
    BY AsksAssumption, ScopeFacts DEF Scope
  <2>2. n \notin Scope(r)
    <3> SUFFICES ASSUME n \in Scope(r) PROVE FALSE
      OBVIOUS
    <3>1. q.path = r.path /\ q.kind \in Folder
      BY <1>1, Overlap
    <3> QED
      BY <1>1, <3>1 DEF SoundInv, EditInv
  <2>3. acl'[r.path] = acl[r.path] /\ acl'[x] = acl[x]
    BY <1>2, <2>1, <2>2
  <2> QED
    BY <1>1, <2>3 DEF SoundInv, RootSpeaksForTree
<1> QED
  BY <1>4, <1>5, <1>6, <1>7

\* The end of a walk keeps the invariant: with nothing pending the whole
\* scope is as asked, which is what the absence of the marker then says.
LEMMA FinishSound ==
    ASSUME Disciplined, SoundInv, NEW h \in Hosts, Finish(h)
    PROVE  EditInv' /\ AbsentInv' /\ OkMeansWhole' /\ RootSpeaksForTree'
<1> DEFINE q == host[h].req
<1>0. ServingInv /\ Return(h, "ok") /\ Busy(h) /\ acl' = acl
  BY DEF SoundInv, Finish, Busy
<1>1. q \in Asks[h] /\ q \in Request
  BY <1>0, AsksAssumption DEF ServingInv, Serving
<1>2. \A n \in Scope(q) : Reached(acl[n], q)
  BY DEF Finish, SoundInv, EditInv
<1>3. CASE marker' = marker
  BY <1>0, <1>2, <1>3, ReturnSound
<1>4. CASE q.kind \in Folder /\ marker' = marker \ {q.path}
  <2>1. /\ host'[h].pc = "idle" /\ host'[h].reply = "ok" /\ host'[h].req = q
        /\ \A g \in Hosts \ {h} : host'[g] = host[g]
    BY <1>0, ReturnFacts
  <2>2. EditInv'
    <3>1. ASSUME NEW g \in Hosts \ {h}, Busy(g), host[g].req.kind \in Folder
          PROVE  host[g].req.path # q.path
      <4>1. host[g].req \in Asks[g]
        BY <1>0, <3>1 DEF ServingInv, Serving
      <4>2. host[g].req \in Request
        BY <4>1, AsksAssumption
      <4> QED
        BY <1>1, <4>1, <4>2, Overlap, ScopeFacts
    <3> QED
      BY <1>0, <1>4, <2>1, <3>1 DEF SoundInv, EditInv, Busy
  <2>3. OkMeansWhole'
    BY <1>0, <1>2, <2>1 DEF SoundInv, OkMeansWhole
  <2>4. RootSpeaksForTree'
    <3> SUFFICES ASSUME NEW g \in Hosts, NEW r \in Asks[g], r.kind \in Folder,
                        r.path \notin marker', Reached(acl[r.path], r),
                        NEW x \in Tree[r.path]
                 PROVE  Reached(acl[x], r)
      BY <1>0 DEF RootSpeaksForTree
    <3>1. CASE r.path \notin marker
      BY <3>1 DEF SoundInv, RootSpeaksForTree
    <3>2. CASE r.path = q.path
      <4>1. /\ r \in Request /\ r.path \in Nodes /\ Scope(r) = Scope(q)
            /\ r.path \in Scope(r) /\ x \in Scope(q) /\ x \in Nodes
        BY <1>1, <1>4, <3>2, AsksAssumption, ScopeFacts DEF Scope, Request
      <4>2. q.sid = r.sid /\ (q.kind \in Adds /\ r.kind \in Adds => q.mask = r.mask)
        BY <1>1, <4>1, Overlap
      <4>3. acl[r.path] \in Dacl /\ acl[x] \in Dacl
        BY <1>0, <4>1 DEF ServingInv, TypeOK
      <4>4. Reached(acl[r.path], q) /\ Reached(acl[x], q)
        BY <1>2, <4>1
      <4> QED
        BY <1>1, <1>4, <4>2, <4>3, <4>4, ReachedAgrees
    <3> QED
      BY <1>4, <3>1, <3>2
  <2> QED
    BY <1>0, <2>2, <2>3, <2>4 DEF SoundInv, AbsentInv
<1> QED
  BY <1>3, <1>4 DEF Finish

\* Every step of disciplined use keeps the invariant.
LEMMA SoundStep == Disciplined /\ SoundInv /\ [Next]_vars => SoundInv'
<1> SUFFICES ASSUME Disciplined, SoundInv, [Next]_vars
             PROVE  EditInv' /\ AbsentInv' /\ OkMeansWhole' /\ RootSpeaksForTree'
  BY ServingStep DEF SoundInv
<1>0. ServingInv /\ EditInv
  BY DEF SoundInv
<1>1. CASE UNCHANGED vars
  BY <1>1 DEF vars, SoundInv, EditInv, AbsentInv, OkMeansWhole, RootSpeaksForTree, Busy
<1>2. ASSUME NEW h \in Hosts, NEW r \in Asks[h], Begin(h, r)
      PROVE  EditInv' /\ AbsentInv' /\ OkMeansWhole' /\ RootSpeaksForTree'
  <2>1. /\ host'[h].req = r /\ host'[h].reply = "none"
        /\ host'[h].snap = acl[r.path] /\ host'[h].node = r.path
        /\ host'[h].pending = {r.path}
        /\ host'[h].pc = IF r.kind \in Folder THEN "check" ELSE "set"
        /\ \A g \in Hosts \ {h} : host'[g] = host[g]
        /\ UNCHANGED <<acl, marker>>
    BY <1>0, <1>2 DEF Begin, ServingInv, TypeOK
  <2>2. Scope(r) = Span(r, r.path)
    BY DEF Scope, Span
  <2>3. EditInv'
    BY <1>0, <2>1, <2>2 DEF EditInv, Busy
  <2>4. OkMeansWhole'
    BY <2>1 DEF SoundInv, OkMeansWhole
  <2> QED
    BY <2>1, <2>3, <2>4 DEF SoundInv, AbsentInv, RootSpeaksForTree
<1>3. ASSUME NEW h \in Hosts, NEW r \in Asks[h], BeginError(h, r)
      PROVE  EditInv' /\ AbsentInv' /\ OkMeansWhole' /\ RootSpeaksForTree'
  <2>1. PICK reply \in {"ok", "failed"} :
          /\ reply = "ok" => r.path \in Absent /\ r.kind \notin Adds
          /\ host' = [host EXCEPT ![h] = [Idle EXCEPT !.req = r, !.reply = reply]]
          /\ UNCHANGED <<acl, marker>>
    BY <1>3 DEF BeginError
  <2> DEFINE new == [Idle EXCEPT !.req = r, !.reply = reply]
  <2>2. new.pc = "idle" /\ new.req = r /\ new.reply = reply
    BY DEF Idle
  <2>3. host' = [host EXCEPT ![h] = new]
    BY <2>1
  <2> HIDE DEF new
  <2>4. host'[h] = new /\ \A g \in Hosts \ {h} : host'[g] = host[g]
    BY <1>0, <2>3 DEF ServingInv, TypeOK
  <2>5. EditInv'
    <3>1. acl' = acl /\ marker' = marker /\ host'[h].pc = "idle"
      BY <2>1, <2>2, <2>4
    <3> QED
      BY <1>0, <2>4, <3>1 DEF EditInv, Busy
  <2>6. ASSUME reply = "ok", NEW n \in Scope(r)
        PROVE  Reached(acl[n], r)
    <3>1. r \in Request /\ r.path \in Nodes /\ r.sid \in Sids
          /\ r.path \in Absent /\ r.kind \notin Adds
      BY <2>1, <2>6, AsksAssumption DEF Request
    <3>2. Enter(r.path) = {}
      BY <3>1, TreeAssumption DEF Enter
    <3>3. Tree[r.path] \subseteq {r.path}
      BY <3>1, <3>2, TreeUnfold
    <3>4. n = r.path
      BY <2>6, <3>3 DEF Scope
    <3> QED
      BY <3>1, <3>4 DEF SoundInv, AbsentInv, Reached, HasEntry, Adds
  <2>7. OkMeansWhole'
    BY <2>1, <2>2, <2>4, <2>6 DEF SoundInv, OkMeansWhole
  <2> QED
    BY <2>1, <2>5, <2>7 DEF SoundInv, AbsentInv, RootSpeaksForTree
<1>4. ASSUME NEW h \in Hosts, Check(h)
      PROVE  EditInv' /\ AbsentInv' /\ OkMeansWhole' /\ RootSpeaksForTree'
  <2> DEFINE q == host[h].req
  <2>1. Busy(h) /\ host[h].pc = "check" /\ UNCHANGED <<acl, marker>>
    BY <1>4 DEF Check, Busy
  <2>2. CASE q.path \notin marker /\ RootSays(h) /\ Return(h, "ok")
    <3>1. q \in Asks[h] /\ q.kind \in Folder /\ host[h].snap = acl[q.path]
      BY <1>0, <2>1 DEF ServingInv, Serving, EditInv
    <3>2. Reached(acl[q.path], q)
      BY <2>2, <3>1 DEF RootSays, Reached, Folder
    <3>3. \A n \in Scope(q) : Reached(acl[n], q)
      BY <2>2, <3>1, <3>2 DEF SoundInv, RootSpeaksForTree, Scope
    <3> QED
      BY <2>1, <2>2, <3>3, ReturnSound
  <2>3. CASE host' = [host EXCEPT ![h].pc = "mark"]
    <3>1. /\ host'[h].pc = "mark" /\ host'[h].req = q
          /\ host'[h].reply = host[h].reply /\ host'[h].pending = host[h].pending
          /\ \A g \in Hosts \ {h} : host'[g] = host[g]
      BY <1>0, <2>3 DEF ServingInv, TypeOK, HostState
    <3> QED
      BY <2>1, <3>1 DEF SoundInv, EditInv, AbsentInv, OkMeansWhole,
                        RootSpeaksForTree, Busy
  <2> QED
    BY <1>4, <2>2, <2>3 DEF Check
<1>5. ASSUME NEW h \in Hosts, Mark(h)
      PROVE  EditInv' /\ AbsentInv' /\ OkMeansWhole' /\ RootSpeaksForTree'
  <2> DEFINE q == host[h].req
  <2>1. /\ host'[h].pc = "walk" /\ host'[h].req = q
        /\ host'[h].reply = host[h].reply /\ host'[h].pending = host[h].pending
        /\ \A g \in Hosts \ {h} : host'[g] = host[g]
        /\ marker' = marker \cup {q.path} /\ acl' = acl
        /\ host[h].pc = "mark"
    BY <1>0, <1>5 DEF Mark, ServingInv, TypeOK, HostState, Disciplined
  <2>2. q.kind \in Folder /\ q.path \in host[h].pending /\ host[h].reply = "none"
    BY <1>0, <2>1 DEF EditInv, Busy
  <2>3. \A n \in Scope(q) : n \in Span(q, q.path)
    BY DEF Scope, Span
  <2>4. EditInv'
    BY <1>0, <2>1, <2>2, <2>3 DEF EditInv, Busy
  <2>5. OkMeansWhole'
    BY <2>1, <2>2 DEF SoundInv, OkMeansWhole
  <2> QED
    BY <2>1, <2>4, <2>5 DEF SoundInv, AbsentInv, RootSpeaksForTree
<1>6. ASSUME NEW h \in Hosts, NEW n \in host[h].pending, ReadNode(h, n)
      PROVE  EditInv' /\ AbsentInv' /\ OkMeansWhole' /\ RootSpeaksForTree'
  <2> DEFINE new == [host[h] EXCEPT !.pc = "set", !.snap = acl[n], !.node = n]
  <2>1. /\ new.pc = "set" /\ new.snap = acl[n] /\ new.node = n
        /\ new.pending = host[h].pending /\ new.req = host[h].req
        /\ new.reply = host[h].reply
    BY <1>0 DEF ServingInv, TypeOK, HostState
  <2>2. host' = [host EXCEPT ![h] = new] /\ host[h].pc = "walk"
        /\ UNCHANGED <<acl, marker>>
    BY <1>6 DEF ReadNode
  <2> HIDE DEF new
  <2>3. host'[h] = new /\ \A g \in Hosts \ {h} : host'[g] = host[g]
    BY <1>0, <2>2 DEF ServingInv, TypeOK
  <2>4. EditInv'
    BY <1>0, <2>1, <2>2, <2>3 DEF EditInv, Busy
  <2>5. OkMeansWhole'
    BY <2>1, <2>2, <2>3 DEF SoundInv, OkMeansWhole
  <2> QED
    BY <2>2, <2>4, <2>5 DEF SoundInv, AbsentInv, RootSpeaksForTree
<1>7. ASSUME NEW h \in Hosts, WalkError(h)
      PROVE  EditInv' /\ AbsentInv' /\ OkMeansWhole' /\ RootSpeaksForTree'
  BY <1>7, ReturnSound DEF WalkError, Busy
<1>8. ASSUME NEW h \in Hosts, Kill(h)
      PROVE  EditInv' /\ AbsentInv' /\ OkMeansWhole' /\ RootSpeaksForTree'
  BY <1>8, ReturnSound DEF Kill
<1> QED
  BY <1>1, <1>2, <1>3, <1>4, <1>5, <1>6, <1>7, <1>8, WriteNodeSound, FinishSound
     DEF Next, Work

\* Before the first request no node has an entry and no folder a marker.
LEMMA SoundInit == Init => SoundInv
<1> SUFFICES ASSUME Init PROVE SoundInv
  OBVIOUS
<1>1. ServingInv
  BY ServingInit
<1>2. EditInv /\ OkMeansWhole
  BY DEF Init, EditInv, OkMeansWhole, Idle, Busy
<1>3. AbsentInv
  BY TreeAssumption DEF Init, AbsentInv
<1>4. RootSpeaksForTree
  <2> SUFFICES ASSUME NEW g \in Hosts, NEW r \in Asks[g], r.kind \in Folder,
                      Reached(acl[r.path], r), NEW x \in Tree[r.path]
               PROVE  Reached(acl[x], r)
    BY DEF RootSpeaksForTree
  <2>1. r \in Request /\ r.path \in Nodes /\ r.sid \in Sids /\ x \in Nodes
    BY AsksAssumption, TreeSelf DEF Request
  <2> QED
    BY <2>1 DEF Init, Reached, HasFull, HasEntry
<1> QED
  BY <1>1, <1>2, <1>3, <1>4 DEF SoundInv

\* In disciplined use an operation that returns S_OK has done all it was
\* asked for, on every node of its scope, through any number of failed and
\* killed walks before it.
THEOREM GrantsAndRevokesAreWhole ==
    ASSUME Disciplined
    PROVE  Spec => []OkMeansWhole
<1>1. SoundInv /\ [Next]_vars => SoundInv'
  BY SoundStep
<1>2. SoundInv => OkMeansWhole
  BY DEF SoundInv
<1> QED
  BY <1>1, <1>2, SoundInit, PTL DEF Spec

\* In disciplined use both fast paths are right: a folder without a marker
\* whose own entry is as asked has its whole tree as asked.
THEOREM FastPathIsSound ==
    ASSUME Disciplined
    PROVE  Spec => []RootSpeaksForTree
<1>1. SoundInv /\ [Next]_vars => SoundInv'
  BY SoundStep
<1>2. SoundInv => RootSpeaksForTree
  BY DEF SoundInv
<1> QED
  BY <1>1, <1>2, SoundInit, PTL DEF Spec
=============================================================================
