----------------------------- MODULE MCDaclWalk -----------------------------
(***************************************************************************)
(* A small volume for TLC:                                                 *)
(*                                                                         *)
(*   top --- root --- sub --- leaf                                         *)
(*      |        |--- file                                                 *)
(*      |        `--- link    a junction to top                            *)
(*      `--- other                                                         *)
(*                                                                         *)
(* and the requests of each run.                                           *)
(***************************************************************************)
EXTENDS DaclWalkImpl

MCNodes == {"top", "root", "sub", "leaf", "file", "link", "other", "gone"}

MCKids == [n \in MCNodes |->
    CASE n \in {"top", "link"} -> {"root", "other"}
      [] n = "root" -> {"sub", "file", "link"}
      [] n = "sub"  -> {"leaf"}
      [] OTHER      -> {}]

MCDepth == [n \in MCNodes |->
    CASE n = "top" -> 0
      [] n \in {"root", "other", "gone"} -> 1
      [] n = "leaf" -> 3
      [] OTHER -> 2]

R  == {"read"}
RW == {"read", "write"}

Ask(kind, path, sid, mask) ==
    [kind |-> kind, path |-> path, sid |-> sid, mask |-> mask]

\* The grant and the revoke of a folder, of a single file.
Brokered(path, sid, mask) ==
    {Ask("grant", path, sid, mask), Ask("revoke", path, sid, {})}
Secured(path, sid, mask) ==
    {Ask("secure", path, sid, mask), Ask("unsecure", path, sid, {})}

\* Two hosts that never share a node: one walks a tree with a junction in it,
\* the other has a single file and a path that is gone.
ApartAsks ==
    [h \in Hosts |-> IF h = "h1"
        THEN Brokered("root", "s", RW)
        ELSE Secured("other", "t", R) \cup Brokered("gone", "s", R)]

\* One folder brokered to two containers, one after the other.
SharedAsks == [h \in Hosts |-> Brokered("sub", "s", R) \cup Brokered("sub", "t", R)]

\* One folder brokered to one container, read-only or for writing.
MasksAsks == [h \in Hosts |-> Brokered("sub", "s", R) \cup Brokered("sub", "s", RW)]

\* A folder and a folder inside it, both brokered to one container.
NestedAsks == [h \in Hosts |-> Brokered("root", "s", R) \cup Brokered("sub", "s", R)]

\* A folder brokered in the modes "secure" and "grant".
ModesAsks == [h \in Hosts |-> Secured("sub", "s", R) \cup Brokered("sub", "s", R)]

\* One folder, one container, one mask, one host.
SingleAsks == [h \in Hosts |-> Brokered("sub", "s", R)]
=============================================================================
