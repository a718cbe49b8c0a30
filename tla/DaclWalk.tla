------------------------------ MODULE DaclWalk ------------------------------
(***************************************************************************)
(* The DACL edits of src/wincage/src/container.cpp: what sandbox_host      *)
(* processes do to the access control lists of a folder tree when they     *)
(* grant or revoke an AppContainer's access to it (broker_files).          *)
(*                                                                         *)
(* A node's DACL is edited by reading all of it, changing the entries of   *)
(* one SID and writing all of it back.  A folder operation repeats that    *)
(* for every node of the tree, depth first, and leaves a marker (an        *)
(* alternate data stream of the folder) while it is under way; the next    *)
(* operation on the folder skips the walk when there is no marker and the  *)
(* entry of the folder itself says that nothing is left to do.             *)
(*                                                                         *)
(* Explicit entries only: the nodes are taken to have protected DACLs, so  *)
(* that what a node grants is what the walk wrote on it.                   *)
(***************************************************************************)
EXTENDS Naturals, FiniteSets

CONSTANTS
    Hosts,       \* sandbox_host processes that may run at the same time
    Sids,        \* AppContainer SIDs
    Nodes,       \* files and folders
    Kids,        \* Kids[n]: what FindFirstFile/FindNextFile list under n
    Depth,       \* Depth[n]: how far n is from the top of the volume
    Reparse,     \* the nodes that are junctions or symbolic links
    Absent,      \* paths that name nothing
    Unmarkable,  \* folders in which the marker stream cannot be created
    Rights,      \* access rights
    Asks,        \* Asks[h]: the requests that host h may be started for
    None         \* no value

Folder == {"grant", "revoke"}        \* broker_files mode "grant"
File   == {"secure", "unsecure"}     \* broker_files mode "secure"
Kinds  == Folder \cup File
Adds   == {"grant", "secure"}

\* One entry of broker_files, as a launch or as a revoke run handles it.
Request == [kind : Kinds, path : Nodes, sid : Sids, mask : SUBSET Rights]

ASSUME TreeAssumption ==
    /\ Kids \in [Nodes -> SUBSET Nodes]
    /\ Depth \in [Nodes -> Nat]
    /\ \A n \in Nodes \ Reparse : \A k \in Kids[n] : Depth[k] = Depth[n] + 1
    /\ Reparse \subseteq Nodes
    /\ Absent \subseteq Nodes
    /\ \A n \in Absent : Kids[n] = {}
    /\ \A n \in Nodes : Kids[n] \cap Absent = {}
    /\ Unmarkable \subseteq Nodes

ASSUME NoneAssumption == None \notin Request

\* access_to_mask never returns an empty mask.
ASSUME AsksAssumption ==
    /\ Asks \in [Hosts -> SUBSET Request]
    /\ \A h \in Hosts : \A r \in Asks[h] : r.kind \in Adds => r.mask # {}

VARIABLES
    acl,      \* acl[n][s]: what the DACL of n has for s
    marker,   \* the folders that carry the ":wincage.pending" stream
    host      \* host[h]: the operation that host h is in

vars == <<acl, marker, host>>

\* The entries of one SID: rights in an entry that children inherit, and
\* rights in an entry of this node only.
Entry   == [inh : SUBSET Rights, own : SUBSET Rights]
NoEntry == [inh |-> {}, own |-> {}]
Dacl    == [Sids -> Entry]

HostState ==
    [ pc      : {"idle", "check", "mark", "walk", "set"},
      req     : Request \cup {None},      \* None: no call yet
      snap    : Dacl \cup {None},         \* the DACL as it was last read
      node    : Nodes \cup {None},        \* where it was read
      pending : SUBSET Nodes,             \* nodes the walk still has to edit
      had     : BOOLEAN,                  \* had_ace
      removed : BOOLEAN,                  \* history: this call took an entry away
      reply   : {"none", "ok", "failed", "killed"} ]

-----------------------------------------------------------------------------
(* The tree below a folder, as the walk sees it.                           *)

\* What the walk goes on to from n: never a junction or a symbolic link.
Enter(n) == Kids[n] \ Reparse

Closed(S) == \A m \in S : Enter(m) \subseteq S

\* Tree[n]: the smallest set with n in it that is closed under Enter.
Tree == [n \in Nodes |->
    {m \in Nodes : \A S \in SUBSET Nodes : n \in S /\ Closed(S) => m \in S}]

\* The nodes an operation is about: secure_existing_file and
\* revoke_existing_file edit the path alone.
Scope(r) == IF r.kind \in Folder THEN Tree[r.path] ELSE {r.path}

\* Faulty variants, each the slip of a maintainer, that the properties have
\* to tell from the code: they are used by no definition.
BelowFollowsLinks(r, n) == IF r.kind \in Folder THEN Kids[n] ELSE {}
BelowListsDot(r, n)     == IF r.kind \in Folder THEN Enter(n) \cup {n} ELSE {}

Below(r, n) == IF r.kind \in Folder THEN Enter(n) ELSE {}

\* has_full_inheritable_ace
HasFull(d, s, mask) == mask \subseteq d[s].inh

\* has_ace_for_sid
HasEntry(d, s) == d[s] # NoEntry

\* Faulty: a revoke that leaves no DACL.
SetEntriesNullDacl(d, r) ==
    IF r.kind \in Adds THEN [d EXCEPT ![r.sid].inh = @ \cup r.mask] ELSE None

\* SetEntriesInAclW: GRANT_ACCESS merges the mask into the SID's entry with
\* the same inheritance, REVOKE_ACCESS drops every entry of the SID.
SetEntries(d, r) ==
    LET e == d[r.sid]
    IN  [d EXCEPT ![r.sid] =
            CASE r.kind = "grant"  -> [e EXCEPT !.inh = e.inh \cup r.mask]
              [] r.kind = "secure" -> [e EXCEPT !.own = e.own \cup r.mask]
              [] OTHER             -> NoEntry]

\* What the request wants of one node.
Reached(d, r) ==
    CASE r.kind = "grant"  -> HasFull(d, r.sid, r.mask)
      [] r.kind = "secure" -> r.mask \subseteq d[r.sid].own
      [] OTHER             -> ~HasEntry(d, r.sid)

Busy(h) == host[h].pc # "idle"

\* The use under which the marker is enough: every folder can carry it,
\* requests whose nodes overlap come from one host at a time and are all for
\* folders or all for files, and those for folders name the same path and
\* the same SID, and grant the same mask.
Disciplined ==
    /\ Unmarkable = {}
    /\ \A g, h \in Hosts : \A q \in Asks[g], r \in Asks[h] :
          Scope(q) \cap Scope(r) # {} =>
              /\ g = h
              /\ q.kind \in Folder <=> r.kind \in Folder
              /\ q.kind \in Folder =>
                    /\ q.path = r.path
                    /\ q.sid = r.sid
                    /\ q.kind \in Adds /\ r.kind \in Adds => q.mask = r.mask

-----------------------------------------------------------------------------

Idle == [pc |-> "idle", req |-> None, snap |-> None, node |-> None,
         pending |-> {}, had |-> FALSE, removed |-> FALSE, reply |-> "none"]

Init ==
    /\ acl = [n \in Nodes |-> [s \in Sids |-> NoEntry]]
    /\ marker = {}
    /\ host = [h \in Hosts |-> Idle]

\* The operation ends and its caller learns how.
Return(h, reply) ==
    host' = [host EXCEPT ![h] =
        [@ EXCEPT !.pc = "idle", !.snap = None, !.node = None,
                  !.pending = {}, !.reply = reply]]

\* The first GetNamedSecurityInfoW of an operation, on the path itself.
Begin(h, r) ==
    /\ ~Busy(h)
    /\ r.path \notin Absent
    /\ host' = [host EXCEPT ![h] =
           [ pc      |-> IF r.kind \in Folder THEN "check" ELSE "set",
             req     |-> r,
             snap    |-> acl[r.path],
             node    |-> r.path,
             pending |-> {r.path},
             had     |-> r.kind \notin Adds /\ HasEntry(acl[r.path], r.sid),
             removed |-> FALSE,
             reply   |-> "none" ]]
    /\ UNCHANGED <<acl, marker>>

\* That call fails.  A path that is gone has nothing left to revoke; any
\* other error, and a missing path for a grant, fails the operation.
BeginError(h, r) ==
    /\ ~Busy(h)
    /\ \E reply \in {"ok", "failed"} :
         /\ reply = "ok" => r.path \in Absent /\ r.kind \notin Adds
         /\ reply = "failed" => r.path \notin Absent \/ r.kind \in Adds
         /\ host' = [host EXCEPT ![h] = [Idle EXCEPT !.req = r, !.reply = reply]]
    /\ UNCHANGED <<acl, marker>>

\* The root's entry, read a moment ago, already says what the request wants.
RootSays(h) ==
    LET r == host[h].req
    IN  IF r.kind = "grant" THEN HasFull(host[h].snap, r.sid, r.mask)
                            ELSE ~HasEntry(host[h].snap, r.sid)

\* Faulty: the fast path does not look for the marker.
CheckTrustsRoot(h) ==
    /\ host[h].pc = "check"
    /\ IF RootSays(h) THEN Return(h, "ok")
                      ELSE host' = [host EXCEPT ![h].pc = "mark"]
    /\ UNCHANGED <<acl, marker>>

\* grant_marker_present, and the decision to skip the walk.
Check(h) ==
    /\ host[h].pc = "check"
    /\ IF host[h].req.path \notin marker /\ RootSays(h)
         THEN Return(h, "ok")
         ELSE host' = [host EXCEPT ![h].pc = "mark"]
    /\ UNCHANGED <<acl, marker>>

\* write_grant_marker: a stream that cannot be created is not reported.
Mark(h) ==
    /\ host[h].pc = "mark"
    /\ marker' = marker \cup ({host[h].req.path} \ Unmarkable)
    /\ host' = [host EXCEPT ![h].pc = "walk"]
    /\ UNCHANGED acl

\* apply_ace_to_node reads the node's whole DACL.  Depth first: a child is
\* done, with all that is below it, before its next sibling.
ReadNode(h, n) ==
    /\ host[h].pc = "walk"
    /\ n \in host[h].pending
    /\ \A m \in host[h].pending : Depth[m] <= Depth[n]
    /\ host' = [host EXCEPT ![h] =
           [@ EXCEPT !.pc = "set", !.snap = acl[n], !.node = n]]
    /\ UNCHANGED <<acl, marker>>

\* SetNamedSecurityInfoW writes the edited copy over whatever the node's
\* DACL is by now; the walk goes on to what the node lists.
WriteNode(h) ==
    LET w == host[h]
        n == w.node
    IN  /\ w.pc = "set"
        /\ acl' = [acl EXCEPT ![n] = SetEntries(w.snap, w.req)]
        /\ host' = [host EXCEPT ![h] =
               [w EXCEPT !.pc = "walk", !.snap = None, !.node = None,
                         !.pending = (w.pending \ {n}) \cup Below(w.req, n),
                         !.removed = w.removed \/ (HasEntry(acl[n], w.req.sid)
                                                   /\ w.req.kind \notin Adds)]]
        /\ UNCHANGED marker

\* Faulty: the marker is cleared on every way out; the error of a node is
\* dropped on the way up.
WalkErrorClears(h) ==
    /\ host[h].pc \in {"walk", "set"}
    /\ Return(h, "failed")
    /\ marker' = marker \ {host[h].req.path}
    /\ UNCHANGED acl
WalkErrorSwallowed(h) ==
    /\ host[h].pc \in {"walk", "set"}
    /\ Return(h, "ok")
    /\ UNCHANGED <<acl, marker>>

\* Reading or writing a DACL or listing a folder fails: the walk stops at
\* the first error and the marker stays.
WalkError(h) ==
    /\ host[h].pc \in {"walk", "set"}
    /\ Return(h, "failed")
    /\ UNCHANGED <<acl, marker>>

\* The walk is through: clear_grant_marker, whose own failure is ignored.
Finish(h) ==
    /\ host[h].pc = "walk"
    /\ host[h].pending = {}
    /\ Return(h, "ok")
    /\ \/ /\ host[h].req.kind \in Folder
          /\ marker' = marker \ {host[h].req.path}
       \/ marker' = marker
    /\ UNCHANGED acl

\* The process dies: _kill_and_drain after the 15 s of a handshake or the
\* 30 s of a revoke, the parent's watchdog, or anything else.
Kill(h) ==
    /\ Busy(h)
    /\ Return(h, "killed")
    /\ UNCHANGED <<acl, marker>>

Work(h) ==
    \/ Check(h)
    \/ Mark(h)
    \/ \E n \in host[h].pending : ReadNode(h, n)
    \/ WriteNode(h)
    \/ Finish(h)

Next ==
    \E h \in Hosts :
        \/ \E r \in Asks[h] : Begin(h, r) \/ BeginError(h, r)
        \/ Work(h)
        \/ WalkError(h)
        \/ Kill(h)

Spec == Init /\ [][Next]_vars

\* The operation is one thread running straight through blocking calls.
Fairness == \A h \in Hosts : WF_vars(Work(h))

FairSpec == Spec /\ Fairness

-----------------------------------------------------------------------------
(* Properties                                                              *)

\* Every variable has its type.
TypeOK ==
    /\ acl \in [Nodes -> Dacl]
    /\ marker \subseteq Nodes
    /\ host \in [Hosts -> HostState]

\* grant_directory and its mirrors return S_OK only when every node they
\* are about is as asked: no node of the tree is left sealed by a grant or
\* open by a revoke, whatever earlier operations were cut short.
OkMeansWhole ==
    \A h \in Hosts :
        host[h].reply = "ok" =>
            \A n \in Scope(host[h].req) : Reached(acl[n], host[h].req)

\* What both fast paths rely on: when a folder has no marker, the entry of
\* the folder itself speaks for its whole tree, in both directions.
RootSpeaksForTree ==
    \A h \in Hosts : \A r \in Asks[h] :
        r.kind \in Folder /\ r.path \notin marker /\ Reached(acl[r.path], r) =>
            \A n \in Tree[r.path] : Reached(acl[n], r)

\* A step edits only nodes in the scope of an operation under way: nothing
\* behind a junction or symbolic link, and nothing outside the folder.
WalkStaysInside ==
    [][\A n \in Nodes : acl'[n] # acl[n] =>
           \E h \in Hosts : host[h].pc = "set" /\ n \in Scope(host[h].req)]_vars

\* A step changes a DACL only in the entries of the SID whose request the
\* editing host serves, and in the direction of that request: a grant takes
\* nothing away from anyone, and a revoke takes only from its own SID.  The
\* DACL that a host writes is the one it has read before, with no lock: where
\* another host has edited the node meanwhile, that edit is lost.  So this
\* rests on where the walks of hosts go that run at the same time.
OthersUntouched ==
    [][\A n \in Nodes, s \in Sids : acl'[n][s] # acl[n][s] =>
           \E h \in Hosts :
               /\ host[h].pc = "set"
               /\ host[h].req.sid = s
               /\ host[h].req.kind \in Adds =>
                      /\ acl[n][s].inh \subseteq acl'[n][s].inh
                      /\ acl[n][s].own \subseteq acl'[n][s].own]_vars

\* run_revoke counts an entry as revoked when had_ace is set, so that its
\* caller can tell "revoked something" from "matched nothing": a revoke that
\* took an entry away from some node says so.
HadAceTellsRemoval ==
    \A h \in Hosts :
        host[h].reply = "ok" /\ host[h].removed => host[h].had

\* An operation that has begun ends, whatever the shape of the tree.
EveryCallReturns == \A h \in Hosts : Busy(h) ~> ~Busy(h)
=============================================================================
