-------------------------------- MODULE Log --------------------------------
(***************************************************************************)
(* The redo log of log.c, with the block cache it relies on and crashes.   *)
(*                                                                         *)
(* A step makes at most one disk write: bwrite is synchronous and a sector *)
(* is written whole or not at all (ide.c waits for every transfer).  A     *)
(* crash may come between any two steps, during recovery too, and loses    *)
(* everything but the disk: the home sectors, the log sectors and the      *)
(* header.  The cache holds some blocks; a block that is not dirty may be  *)
(* evicted at any time (bio.c) and is read from its home sector again.     *)
(***************************************************************************)
EXTENDS Naturals, FiniteSets

CONSTANTS Block,     \* the home sectors
          Value,     \* contents of a block
          Zero,      \* what mkfs wrote
          Proc,      \* the processes
          FirstProc, \* the one whose forkret runs initlog
          NoProc,
          LOGSIZE,   \* param.h
          Size,      \* log.size: sectors of the log, the header included
          MaxBlocks, \* blocks a system call logs at most (file.c, sysfile.c)
          NoValue    \* no cached copy

ASSUME LogAssumption ==
    /\ Block # {}
    /\ LOGSIZE \in Nat \ {0} /\ Size \in Nat \ {0} /\ MaxBlocks \in Nat
    /\ MaxBlocks < LOGSIZE /\ MaxBlocks < Size - 1
    /\ Zero \in Value /\ NoValue \notin Value
    /\ FirstProc \in Proc /\ NoProc \notin Proc

VARIABLES
    home,        \* disk: the home sectors
    logdata,     \* disk: the log sectors after the header
    hn, hsector, \* disk: the header, n and sector[]
    cache,       \* the buffer of a block, or NoValue
    dirty,       \* B_DIRTY
    busy,        \* log.busy
    n, sector,   \* log.lh
    pc,          \* where each process is in log.c
    tail         \* install_trans's loop variable

disk == <<home, logdata, hn, hsector>>
bufs == <<cache, dirty>>
lh == <<n, sector>>
vars == <<disk, bufs, busy, lh, pc, tail>>

LogIndex == 1..LOGSIZE

PC == {"idle", "asleep", "woken", "trans", "panic", "install", "end", "boot", "down"}

Init ==
    /\ home = [b \in Block |-> Zero]
    /\ logdata = [i \in LogIndex |-> Zero]
    /\ hn = 0
    /\ hsector \in [LogIndex -> {CHOOSE b \in Block : TRUE}]
    /\ cache = [b \in Block |-> NoValue]
    /\ dirty = [b \in Block |-> FALSE]
    /\ busy = FALSE
    /\ n = 0
    /\ sector = hsector
    /\ pc = [p \in Proc |-> IF p = FirstProc THEN "boot" ELSE "down"]
    /\ tail = 1

goto(p, to) == pc' = [pc EXCEPT ![p] = to]

-----------------------------------------------------------------------------
\* initlog has not returned yet.
Recovering == ~busy /\ \E p \in Proc : pc[p] \in {"boot", "install"}

(* bread of a block that has no buffer.                                    *)
Bread(b) ==
    /\ ~Recovering
    /\ cache[b] = NoValue
    /\ cache' = [cache EXCEPT ![b] = home[b]]
    /\ UNCHANGED <<disk, dirty, busy, lh, pc, tail>>

(* bget takes the buffer of a block that is not dirty for another.         *)
Evict(b) ==
    /\ cache[b] # NoValue /\ ~dirty[b]
    /\ cache' = [cache EXCEPT ![b] = NoValue]
    /\ UNCHANGED <<disk, dirty, busy, lh, pc, tail>>

\* Faulty variant: a woken process does not test log.busy again.
BeginNoRetest(p) ==
    /\ pc[p] \in {"idle", "woken"}
    /\ IF busy /\ pc[p] = "idle" THEN goto(p, "asleep") /\ UNCHANGED busy
                                 ELSE goto(p, "trans") /\ busy' = TRUE
    /\ UNCHANGED <<disk, bufs, lh, tail>>

(* begin_trans, called or woken: sleep while someone is in a transaction.  *)
BeginTrans(p) ==
    /\ pc[p] \in {"idle", "woken"}
    /\ IF busy THEN goto(p, "asleep") /\ UNCHANGED busy
               ELSE goto(p, "trans") /\ busy' = TRUE
    /\ UNCHANGED <<disk, bufs, lh, tail>>

\* The slot log_write uses for block b: its own, or the next one.
SlotOf(b) == IF \E i \in 1..n : sector[i] = b
             THEN CHOOSE i \in 1..n : sector[i] = b
             ELSE n + 1

\* A system call logs no more blocks than its callers budget for.
Fits(b) == SlotOf(b) <= MaxBlocks

\* Faulty variant: the buffer is not pinned in the cache.
LogWriteUnpinned(p, b, v) ==
    /\ pc[p] = "trans" /\ Fits(b)
    /\ cache[b] # NoValue
    /\ cache' = [cache EXCEPT ![b] = v]
    /\ sector' = [sector EXCEPT ![SlotOf(b)] = b]
    /\ logdata' = [logdata EXCEPT ![SlotOf(b)] = v]
    /\ n' = IF SlotOf(b) = n + 1 THEN n + 1 ELSE n
    /\ UNCHANGED <<home, hn, hsector, dirty, busy, pc, tail>>

\* Faulty variant: an absorbed block is counted again.
LogWriteCountsTwice(p, b, v) ==
    /\ pc[p] = "trans" /\ Fits(b)
    /\ cache[b] # NoValue
    /\ cache' = [cache EXCEPT ![b] = v]
    /\ IF n >= LOGSIZE \/ n >= Size - 1 \/ ~busy
       THEN goto(p, "panic") /\ UNCHANGED <<disk, dirty, lh>>
       ELSE /\ sector' = [sector EXCEPT ![SlotOf(b)] = b]
            /\ logdata' = [logdata EXCEPT ![SlotOf(b)] = v]
            /\ n' = n + 1
            /\ dirty' = [dirty EXCEPT ![b] = TRUE]
            /\ UNCHANGED <<home, hn, hsector, pc>>
    /\ UNCHANGED <<busy, tail>>

(* The caller changes a block and calls log_write: the copy goes to the    *)
(* log sector of the block, and the buffer is pinned.                      *)
LogWrite(p, b, v) ==
    /\ pc[p] = "trans" /\ Fits(b)
    /\ cache[b] # NoValue
    /\ cache' = [cache EXCEPT ![b] = v]
    /\ IF n >= LOGSIZE \/ n >= Size - 1 \/ ~busy
       THEN goto(p, "panic") /\ UNCHANGED <<disk, dirty, lh>>
       ELSE /\ sector' = [sector EXCEPT ![SlotOf(b)] = b]
            /\ logdata' = [logdata EXCEPT ![SlotOf(b)] = v]
            /\ n' = IF SlotOf(b) = n + 1 THEN n + 1 ELSE n
            /\ dirty' = [dirty EXCEPT ![b] = TRUE]
            /\ UNCHANGED <<home, hn, hsector, pc>>
    /\ UNCHANGED <<busy, tail>>

(* write_head: copy the header in memory to the disk.                      *)
write_head(len) ==
    /\ hn' = len
    /\ hsector' = [i \in LogIndex |-> IF i <= len THEN sector[i] ELSE hsector[i]]

(* commit_trans: the header makes the transaction durable.                 *)
CommitTrans(p) ==
    /\ pc[p] = "trans"
    /\ IF n > 0
       THEN write_head(n) /\ goto(p, "install") /\ tail' = 1
       ELSE goto(p, "end") /\ UNCHANGED <<hn, hsector, tail>>
    /\ UNCHANGED <<home, logdata, bufs, busy, lh>>

(* install_trans, one block: read it, copy the log sector over it, write.  *)
InstallTrans(p) ==
    /\ pc[p] = "install" /\ tail <= n
    /\ cache' = [cache EXCEPT ![sector[tail]] = logdata[tail]]
    /\ home' = [home EXCEPT ![sector[tail]] = logdata[tail]]
    /\ dirty' = [dirty EXCEPT ![sector[tail]] = FALSE]
    /\ tail' = tail + 1
    /\ UNCHANGED <<logdata, hn, hsector, busy, lh, pc>>

(* log.lh.n = 0 and write_head: the transaction leaves the log; recovery   *)
(* ends here and the other processes come to life.                         *)
EraseLog(p) ==
    /\ pc[p] = "install" /\ tail > n
    /\ n' = 0
    /\ write_head(0)
    /\ IF busy THEN goto(p, "end") ELSE pc' = [q \in Proc |-> "idle"]
    /\ UNCHANGED <<home, logdata, bufs, busy, sector, tail>>

(* The end of commit_trans: the next transaction may begin.                *)
EndTrans(p) ==
    /\ pc[p] = "end"
    /\ busy' = FALSE
    /\ pc' = [q \in Proc |-> IF q = p THEN "idle"
                             ELSE IF pc[q] = "asleep" THEN "woken" ELSE pc[q]]
    /\ UNCHANGED <<disk, bufs, lh, tail>>

(* recover_from_log: read_head, then install_trans as above.               *)
Recover(p) ==
    /\ pc[p] = "boot"
    /\ n' = hn
    /\ sector' = [i \in LogIndex |-> IF i <= hn THEN hsector[i] ELSE sector[i]]
    /\ goto(p, "install")
    /\ tail' = 1
    /\ UNCHANGED <<disk, bufs, busy>>

(* The machine stops: only the disk is left, and the first process boots.  *)
Crash ==
    /\ cache' = [b \in Block |-> NoValue]
    /\ dirty' = [b \in Block |-> FALSE]
    /\ busy' = FALSE
    /\ n' = 0
    /\ sector' = [i \in LogIndex |-> CHOOSE b \in Block : TRUE]
    /\ pc' = [p \in Proc |-> IF p = FirstProc THEN "boot" ELSE "down"]
    /\ tail' = 1
    /\ UNCHANGED disk

Next ==
    \/ \E b \in Block : Bread(b) \/ Evict(b)
    \/ \E p \in Proc :
        \/ BeginTrans(p)
        \/ \E b \in Block, v \in Value : LogWrite(p, b, v)
        \/ CommitTrans(p)
        \/ InstallTrans(p)
        \/ EraseLog(p)
        \/ EndTrans(p)
        \/ Recover(p)
    \/ Crash

Spec == Init /\ [][Next]_vars

-----------------------------------------------------------------------------
(* Types of the disk, the cache and the log in memory.  Nobody has met a   *)
(* panic of log_write: a call that keeps to its budget never does.         *)
TypeOK ==
    /\ home \in [Block -> Value]
    /\ logdata \in [LogIndex -> Value]
    /\ hn \in 0..LOGSIZE /\ hsector \in [LogIndex -> Block]
    /\ cache \in [Block -> Value \cup {NoValue}]
    /\ dirty \in [Block -> BOOLEAN]
    /\ busy \in BOOLEAN
    /\ n \in 0..LOGSIZE /\ sector \in [LogIndex -> Block]
    /\ pc \in [Proc -> PC \ {"panic"}]
    /\ tail \in 1..LOGSIZE + 1

InTrans(p) == pc[p] \in {"trans", "panic", "end"} \/ (pc[p] = "install" /\ busy)

(* At most one process is in a transaction, across sleeps, wakeups and     *)
(* crashes ("begin_trans() ensures that only one system call can be in a   *)
(* transaction"), and no process sleeps for one that nobody is in.         *)
OneTransaction ==
    /\ \A p, q \in Proc : InTrans(p) /\ InTrans(q) => p = q
    /\ (\E p \in Proc : pc[p] = "asleep") => (\E p \in Proc : InTrans(p))

\* What recover_from_log would leave in the home sectors.
Recovered ==
    [b \in Block |-> IF \E i \in 1..hn : hsector[i] = b
                     THEN logdata[CHOOSE i \in 1..hn : hsector[i] = b]
                     ELSE home[b]]

\* What bread returns; nobody reads before recovery has ended.
View ==
    IF Recovering THEN Recovered
    ELSE [b \in Block |-> IF cache[b] # NoValue THEN cache[b] ELSE home[b]]

Writer == IF \E p \in Proc : InTrans(p) THEN CHOOSE p \in Proc : InTrans(p) ELSE NoProc

Atomic == INSTANCE AtomicDisk WITH disk <- Recovered, view <- View, writer <- Writer

(* log.c implements an atomic disk: the header write commits the whole     *)
(* transaction, installing and erasing change nothing a reader or a reboot *)
(* can see, a crash at any step, in recovery too, keeps exactly the        *)
(* committed transactions, and eviction never loses an uncommitted block.  *)
ImplementsAtomicDisk == Atomic!Spec
=============================================================================
