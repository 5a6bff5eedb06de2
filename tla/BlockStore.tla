----------------------------- MODULE BlockStore -----------------------------
(***************************************************************************)
(* What bio.c and ide.c promise together: every sector has one content,    *)
(* whether it is cached or not, and "only one process at a time can use a  *)
(* buffer", so that what its user stores is what the next one finds.       *)
(***************************************************************************)
CONSTANTS Sector, Value, Zero, Proc, NoProc

VARIABLES content,  \* of every sector
          user      \* the process that uses a sector, or NoProc

vars == <<content, user>>

Init ==
    /\ content = [s \in Sector |-> Zero]
    /\ user = [s \in Sector |-> NoProc]

Take(p, s) ==
    /\ user[s] = NoProc
    /\ user' = [user EXCEPT ![s] = p]
    /\ UNCHANGED content

Store(p, s, v) ==
    /\ user[s] = p
    /\ content' = [content EXCEPT ![s] = v]
    /\ UNCHANGED user

Return(p, s) ==
    /\ user[s] = p
    /\ user' = [user EXCEPT ![s] = NoProc]
    /\ UNCHANGED content

Next ==
    \E p \in Proc, s \in Sector :
        Take(p, s) \/ Return(p, s) \/ \E v \in Value : Store(p, s, v)

Spec == Init /\ [][Next]_vars
=============================================================================
