---------------------------- MODULE DaclWalkImpl ----------------------------
(***************************************************************************)
(* The DACL walk implements FolderAccess when it is used as Disciplined    *)
(* and OneClient say: then each path has one SID and one mask, and is open *)
(* or closed as a whole.                                                   *)
(***************************************************************************)
EXTENDS DaclWalk

Requests == UNION {Asks[h] : h \in Hosts}

Folders == {r.path : r \in Requests}

Serves == [h \in Hosts |-> {r.path : r \in Asks[h]}]

About(f) == {r \in Requests : r.path = f}

\* What Disciplined says of folders, for files: one SID and one mask.
OneClient ==
    \A f \in Folders : \A q, r \in About(f) :
        /\ q.sid = r.sid
        /\ q.kind \in Adds /\ r.kind \in Adds => q.mask = r.mask

\* With the access control lists a, nothing of f is open to its container ...
Sealed(a, f) == \A r \in About(f) : \A n \in Scope(r) : ~HasEntry(a[n], r.sid)

\* ... or all of it is.
Whole(a, f) ==
    \E r \in About(f) : r.kind \in Adds /\ \A n \in Scope(r) : Reached(a[n], r)

AccessOf(a, f) ==
    IF Sealed(a, f) THEN "none" ELSE IF Whole(a, f) THEN "whole" ELSE "torn"

access == [f \in Folders |-> AccessOf(acl, f)]

Goal(r) == IF r.kind \in Adds THEN "whole" ELSE "none"

CallOf(h) ==
    LET r == host[h].req
    IN  [ busy   |-> Busy(h),
          folder |-> IF r = None THEN None ELSE r.path,
          goal   |-> IF r = None THEN "none" ELSE Goal(r),
          reply  |-> host[h].reply ]

call == [h \in Hosts |-> CallOf(h)]

Abstract == INSTANCE FolderAccess WITH
    Hosts <- Hosts, Folders <- Folders, Serves <- Serves, None <- None,
    access <- access, call <- call

\* Every run of the walk is a run of the abstract calls: nothing a caller
\* can see is out of order, an "ok" comes only with the whole folder as
\* asked, and a call never moves a folder away from its goal.
ImplementsFolderAccess == Abstract!Spec
=============================================================================
