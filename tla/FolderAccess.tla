---------------------------- MODULE FolderAccess ----------------------------
(***************************************************************************)
(* What granting and revoking promise to whoever calls sandbox_host: a     *)
(* folder is open to its container, closed to it, or torn between the two  *)
(* after a call that was cut short.  A call only ever moves the folder     *)
(* towards its goal, and says "ok" only when the goal is reached.          *)
(***************************************************************************)
CONSTANTS
    Hosts,      \* callers that may be served at the same time
    Folders,    \* the paths that are granted and revoked
    Serves,     \* Serves[h]: the folders that h may be asked for
    None        \* no value

VARIABLES
    access,     \* access[f]: how far folder f is open to its container
    call        \* call[h]: the call that h is serving, or served last

vars == <<access, call>>

Init ==
    /\ access = [f \in Folders |-> "none"]
    /\ call = [h \in Hosts |-> [busy |-> FALSE, folder |-> None,
                                goal |-> "none", reply |-> "none"]]

Call(h, f, goal) ==
    /\ ~call[h].busy
    /\ call' = [call EXCEPT ![h] = [busy |-> TRUE, folder |-> f,
                                    goal |-> goal, reply |-> "none"]]
    /\ UNCHANGED access

\* A call that is over before it has touched anything.
Refuse(h, f, goal, reply) ==
    /\ ~call[h].busy
    /\ reply = "ok" => access[f] = goal
    /\ call' = [call EXCEPT ![h] = [busy |-> FALSE, folder |-> f,
                                    goal |-> goal, reply |-> reply]]
    /\ UNCHANGED access

\* The folder comes closer to the goal, never further from it.
Advance(h) ==
    LET f == call[h].folder
        g == call[h].goal
    IN  /\ call[h].busy
        /\ access[f] # g
        /\ \/ access' = [access EXCEPT ![f] = g]
           \/ access' = [access EXCEPT ![f] = "torn"]
        /\ UNCHANGED call

Return(h, reply) ==
    /\ call[h].busy
    /\ reply = "ok" => access[call[h].folder] = call[h].goal
    /\ call' = [call EXCEPT ![h] = [busy |-> FALSE, folder |-> @.folder,
                                    goal |-> @.goal, reply |-> reply]]
    /\ UNCHANGED access

Next ==
    \E h \in Hosts :
        \/ \E f \in Serves[h], goal \in {"none", "whole"} :
              \/ Call(h, f, goal)
              \/ \E reply \in {"ok", "failed"} : Refuse(h, f, goal, reply)
        \/ Advance(h)
        \/ \E reply \in {"ok", "failed", "killed"} : Return(h, reply)

Spec == Init /\ [][Next]_vars
=============================================================================
