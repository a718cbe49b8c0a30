---------------------------- MODULE MCGrantSession ----------------------------
(***************************************************************************)
(* A small volume and the launches of a session on it:                     *)
(*                                                                         *)
(*   top --- dir --- item                                                  *)
(*      |       `--- link    a junction to top                             *)
(*      `--- other                                                         *)
(***************************************************************************)
EXTENDS GrantSession

MCNodes == {"top", "dir", "item", "link", "other"}

MCKids == [n \in MCNodes |->
    CASE n \in {"top", "link"} -> {"dir", "other"}
      [] n = "dir"             -> {"item", "link"}
      [] OTHER                 -> {}]

MCDepth == [n \in MCNodes |->
    CASE n = "top" -> 0 [] n \in {"dir", "other"} -> 1 [] OTHER -> 2]

Broker(mode, path) == [mode |-> mode, path |-> path, mask |-> {"read"}]

\* Two sandboxes of one moniker share a folder, one of another moniker is
\* given a file that is also in the list of the first.
MCMoniker == [b \in {"a", "b", "c"} |-> IF b = "b" THEN "t" ELSE "s"]

MCFiles == [b \in {"a", "b", "c"} |->
    CASE b = "a" -> <<Broker("grant", "dir"), Broker("secure", "other")>>
      [] b = "b" -> <<Broker("inherit", "item"), Broker("secure", "other")>>
      [] b = "c" -> <<Broker("grant", "dir")>>]

\* The two of one moniker alone.
PairMoniker == [b \in {"a", "c"} |-> "s"]

PairFiles == [b \in {"a", "c"} |-> <<Broker("grant", "dir")>>]

\* What the session may ask of any host.
MCAsks == [h \in Hosts |-> UNION {
    {Mirrored(v, b, i) : v \in {"launch", "revoke"},
                         i \in {j \in DOMAIN Files[b] : Files[b][j].mode # "inherit"}} :
    b \in Boxes}]
=============================================================================
