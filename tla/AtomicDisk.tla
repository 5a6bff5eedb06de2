----------------------------- MODULE AtomicDisk -----------------------------
(***************************************************************************)
(* What log.c promises the file system: one transaction at a time, whose   *)
(* writes everyone sees at once in the block cache and which reach the     *)
(* disk all together or, after a crash, not at all.                        *)
(***************************************************************************)
CONSTANTS Block, Value, Proc, NoProc, Zero

VARIABLES disk,    \* what a reboot would find
          view,    \* what the running system reads
          writer   \* the process in a transaction, or NoProc

vars == <<disk, view, writer>>

Init ==
    /\ disk = [b \in Block |-> Zero]
    /\ view = disk
    /\ writer = NoProc

Begin(p) ==
    /\ writer = NoProc
    /\ writer' = p
    /\ UNCHANGED <<disk, view>>

Write(p, b, v) ==
    /\ writer = p
    /\ view' = [view EXCEPT ![b] = v]
    /\ UNCHANGED <<disk, writer>>

Commit(p) ==
    /\ writer = p
    /\ disk' = view
    /\ UNCHANGED <<view, writer>>

End(p) ==
    /\ writer = p
    /\ disk = view
    /\ writer' = NoProc
    /\ UNCHANGED <<disk, view>>

Crash ==
    /\ view' = disk
    /\ writer' = NoProc
    /\ UNCHANGED disk

Next ==
    \/ \E p \in Proc :
        \/ Begin(p)
        \/ \E b \in Block, v \in Value : Write(p, b, v)
        \/ Commit(p)
        \/ End(p)
    \/ Crash

Spec == Init /\ [][Next]_vars
=============================================================================
