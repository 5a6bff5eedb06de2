------------------------------ MODULE BufCache ------------------------------
(***************************************************************************)
(* The buffer cache of bio.c on top of the disk driver of ide.c.           *)
(*                                                                         *)
(* A step is a critical section of bcache.lock or of idelock; a sleep ends *)
(* one, because sleep releases the lock atomically (see Proc).  Both bget  *)
(* and iderw sleep on the buffer itself, so a wakeup meant for one reaches *)
(* the other too.  The disk works on one command at a time and interrupts  *)
(* when it is done.  A process uses one buffer at a time.                  *)
(***************************************************************************)
EXTENDS Integers, Sequences, FiniteSets

CONSTANTS Buf, NoBuf,
          Sector, NoSector,  \* (dev, sector); what binit leaves in b->dev
          Value, Zero,
          Proc, NoProc,
          MaxPinned,         \* buffers log_write keeps B_DIRTY at a time
          ReadSucceeds       \* the outcomes of idewait(1) on a read

ASSUME BufCacheAssumption ==
    /\ IsFiniteSet(Buf) /\ IsFiniteSet(Proc) /\ MaxPinned \in Nat
    /\ Zero \in Value /\ NoBuf \notin Buf /\ NoSector \notin Sector /\ NoProc \notin Proc
    /\ ReadSucceeds \subseteq BOOLEAN /\ ReadSucceeds # {}

VARIABLES
    sector, busy, valid, dirty, data,  \* struct buf
    mru,        \* bcache.head's list, the most recently used first
    idequeue,
    disk,       \* the sectors on the disk
    cmd,        \* the command the disk works on, or NoCmd
    irq,        \* it is done and the interrupt is pending
    pc, want, b \* each process: its place, bget's sector, its buffer

bufs == <<sector, busy, valid, dirty, data>>
drive == <<disk, cmd, irq>>
local == <<pc, want, b>>
vars == <<bufs, mru, idequeue, drive, local>>

PC == {"idle", "bget", "bsleep", "iderw", "iosleep", "iowoken", "hold", "nobuffers", "panic"}

NoCmd == [op |-> "none"]

\* binit, on a fresh disk.  The list starts in an arbitrary order.
Init ==
    /\ sector = [x \in Buf |-> NoSector]
    /\ busy = [x \in Buf |-> FALSE]
    /\ valid = [x \in Buf |-> FALSE]
    /\ dirty = [x \in Buf |-> FALSE]
    /\ data = [x \in Buf |-> Zero]
    /\ mru \in {l \in [1..Cardinality(Buf) -> Buf] : \A x \in Buf : \E i \in DOMAIN l : l[i] = x}
    /\ idequeue = <<>>
    /\ disk = [s \in Sector |-> Zero]
    /\ cmd = NoCmd /\ irq = FALSE
    /\ pc = [p \in Proc |-> "idle"]
    /\ want = [p \in Proc |-> NoSector]
    /\ b = [p \in Proc |-> NoBuf]

goto(p, to) == pc' = [pc EXCEPT ![p] = to]

\* wakeup(x), as a function on the places.
wakeup(f, x) ==
    [p \in Proc |-> IF b[p] # x THEN f[p]
                    ELSE IF f[p] = "bsleep" THEN "bget"
                    ELSE IF f[p] = "iosleep" THEN "iowoken" ELSE f[p]]

-----------------------------------------------------------------------------
(* bread(dev, sector), called.                                             *)
Bread(p, s) ==
    /\ pc[p] = "idle"
    /\ want' = [want EXCEPT ![p] = s]
    /\ goto(p, "bget")
    /\ UNCHANGED <<bufs, mru, idequeue, drive, b>>

Cached(s) == {x \in Buf : sector[x] = s}

\* Faulty variant: a process that was woken takes the buffer it slept on.
BgetCachedNoRetest(p) ==
    /\ pc[p] = "bget"
    /\ \E x \in IF b[p] # NoBuf THEN {b[p]} ELSE Cached(want[p]) :
        /\ b' = [b EXCEPT ![p] = x]
        /\ IF busy[x]
           THEN goto(p, "bsleep") /\ UNCHANGED busy
           ELSE /\ busy' = [busy EXCEPT ![x] = TRUE]
                /\ goto(p, IF valid[x] THEN "hold" ELSE "iderw")
    /\ UNCHANGED <<sector, valid, dirty, data, mru, idequeue, drive, want>>

\* Faulty variant: bread calls iderw for a buffer that is B_VALID too.
BgetCachedAlwaysReads(p) ==
    /\ pc[p] = "bget"
    /\ \E x \in Cached(want[p]) :
        /\ b' = [b EXCEPT ![p] = x]
        /\ IF busy[x]
           THEN goto(p, "bsleep") /\ UNCHANGED busy
           ELSE busy' = [busy EXCEPT ![x] = TRUE] /\ goto(p, "iderw")
    /\ UNCHANGED <<sector, valid, dirty, data, mru, idequeue, drive, want>>

(* bget finds the sector in the cache: take the buffer, or sleep on it and *)
(* look again.  bread then reads it from the disk if it is not B_VALID.    *)
BgetCached(p) ==
    /\ pc[p] = "bget"
    /\ \E x \in Cached(want[p]) :
        /\ b' = [b EXCEPT ![p] = x]
        /\ IF busy[x]
           THEN goto(p, "bsleep") /\ UNCHANGED busy
           ELSE /\ busy' = [busy EXCEPT ![x] = TRUE]
                /\ goto(p, IF valid[x] THEN "hold" ELSE "iderw")
    /\ UNCHANGED <<sector, valid, dirty, data, mru, idequeue, drive, want>>

\* Faulty variant: the test of B_DIRTY is missing.
ReusableDirty == {i \in DOMAIN mru : ~busy[mru[i]]}

\* The positions in the list of the buffers that bget may recycle.
Reusable == {i \in DOMAIN mru : ~busy[mru[i]] /\ ~dirty[mru[i]]}

(* bget recycles the least recently used buffer that is free and clean, or *)
(* panics: nothing keeps the processes and the log from taking them all.   *)
BgetRecycle(p) ==
    /\ pc[p] = "bget" /\ Cached(want[p]) = {}
    /\ IF Reusable = {}
       THEN goto(p, "nobuffers") /\ UNCHANGED <<bufs, b>>
       ELSE LET x == mru[CHOOSE i \in Reusable : \A j \in Reusable : j <= i]
            IN /\ sector' = [sector EXCEPT ![x] = want[p]]
               /\ busy' = [busy EXCEPT ![x] = TRUE]
               /\ valid' = [valid EXCEPT ![x] = FALSE]
               /\ dirty' = [dirty EXCEPT ![x] = FALSE]
               /\ b' = [b EXCEPT ![p] = x]
               /\ goto(p, "iderw")
               /\ UNCHANGED data
    /\ UNCHANGED <<mru, idequeue, drive, want>>

(* The user changes the block and calls bwrite.                            *)
Bwrite(p, v) ==
    /\ pc[p] = "hold"
    /\ data' = [data EXCEPT ![b[p]] = v]
    /\ dirty' = [dirty EXCEPT ![b[p]] = TRUE]
    /\ goto(p, IF busy[b[p]] THEN "iderw" ELSE "panic")
    /\ UNCHANGED <<sector, busy, valid, mru, idequeue, drive, want, b>>

(* The user changes the block and calls log_write, which pins the buffer   *)
(* (its write to the log sector is a bwrite of another buffer).            *)
LogWrite(p, v) ==
    /\ pc[p] = "hold"
    /\ Cardinality({x \in Buf : dirty[x]} \cup {b[p]}) <= MaxPinned
    /\ data' = [data EXCEPT ![b[p]] = v]
    /\ dirty' = [dirty EXCEPT ![b[p]] = TRUE]
    /\ UNCHANGED <<sector, busy, valid, mru, idequeue, drive, local>>

\* The list with x unlinked and put back at its front.
toFront(l, x) ==
    LET k == CHOOSE i \in DOMAIN l : l[i] = x
    IN [i \in DOMAIN l |-> IF i = 1 THEN x ELSE IF i <= k THEN l[i - 1] ELSE l[i]]

(* brelse: to the front of the list, and wake who waits for the buffer.    *)
Brelse(p) ==
    /\ pc[p] = "hold"
    /\ LET x == b[p]
       IN IF ~busy[x]
          THEN goto(p, "panic") /\ UNCHANGED <<busy, mru, b, want>>
          ELSE /\ mru' = toFront(mru, x)
               /\ busy' = [busy EXCEPT ![x] = FALSE]
               /\ pc' = [wakeup(pc, x) EXCEPT ![p] = "idle"]
               /\ b' = [b EXCEPT ![p] = NoBuf]
               /\ want' = [want EXCEPT ![p] = NoSector]
    /\ UNCHANGED <<sector, valid, dirty, data, idequeue, drive>>

-----------------------------------------------------------------------------
(* idestart(x): the data of a write goes to the drive with the command.    *)
idestart(x) ==
    cmd' = [op |-> IF dirty[x] THEN "write" ELSE "read", sector |-> sector[x], data |-> data[x]]

(* iderw: the checks, then queue the buffer, start the disk if it is idle  *)
(* and sleep, since the request cannot be done while idelock is held.      *)
Iderw(p) ==
    /\ pc[p] = "iderw"
    /\ IF ~busy[b[p]] \/ (valid[b[p]] /\ ~dirty[b[p]])
       THEN goto(p, "panic") /\ UNCHANGED <<idequeue, cmd>>
       ELSE /\ idequeue' = Append(idequeue, b[p])
            /\ IF idequeue = <<>> THEN idestart(b[p]) ELSE UNCHANGED cmd
            /\ goto(p, "iosleep")
    /\ UNCHANGED <<bufs, mru, disk, irq, want, b>>

(* iderw, woken: test the flags again.                                     *)
IderwWoken(p) ==
    /\ pc[p] = "iowoken"
    /\ goto(p, IF valid[b[p]] /\ ~dirty[b[p]] THEN "hold" ELSE "iosleep")
    /\ UNCHANGED <<bufs, mru, idequeue, drive, want, b>>

(* The disk carries out its command and raises the interrupt.              *)
DiskDone ==
    /\ cmd # NoCmd /\ ~irq
    /\ disk' = IF cmd.op = "write" THEN [disk EXCEPT ![cmd.sector] = cmd.data] ELSE disk
    /\ irq' = TRUE
    /\ UNCHANGED <<bufs, mru, idequeue, cmd, local>>

\* Faulty variant: the next request is not started.
ideintrStops ==
    /\ irq
    /\ idequeue # <<>>
    /\ irq' = FALSE
    /\ idequeue' = Tail(idequeue)
    /\ LET x == Head(idequeue)
       IN /\ data' = IF dirty[x] THEN data ELSE [data EXCEPT ![x] = disk[cmd.sector]]
          /\ valid' = [valid EXCEPT ![x] = TRUE]
          /\ dirty' = [dirty EXCEPT ![x] = FALSE]
          /\ pc' = wakeup(pc, x)
    /\ cmd' = NoCmd
    /\ UNCHANGED <<sector, busy, mru, disk, want, b>>

(* ideintr: the first request is done; wake its process, start the next.   *)
(* A read that fails leaves the old data, and the buffer is B_VALID still. *)
ideintr ==
    /\ irq
    /\ idequeue # <<>>
    /\ irq' = FALSE
    /\ idequeue' = Tail(idequeue)
    /\ LET x == Head(idequeue)
       IN /\ \E ok \in ReadSucceeds :
                data' = IF dirty[x] \/ ~ok THEN data ELSE [data EXCEPT ![x] = disk[cmd.sector]]
          /\ valid' = [valid EXCEPT ![x] = TRUE]
          /\ dirty' = [dirty EXCEPT ![x] = FALSE]
          /\ pc' = wakeup(pc, x)
    /\ IF Len(idequeue) > 1 THEN idestart(idequeue[2]) ELSE cmd' = NoCmd
    /\ UNCHANGED <<sector, busy, mru, disk, want, b>>

Step(p) ==
    \/ BgetCached(p) \/ BgetRecycle(p)
    \/ Iderw(p) \/ IderwWoken(p)
    \/ Brelse(p)

Call(p) ==
    \/ \E s \in Sector : Bread(p, s)
    \/ \E v \in Value : Bwrite(p, v) \/ LogWrite(p, v)

\* The machine stops at a panic.
Halted == (\E p \in Proc : pc[p] = "nobuffers") /\ UNCHANGED vars

Next == (\E p \in Proc : Step(p) \/ Call(p)) \/ DiskDone \/ ideintr \/ Halted

Spec == Init /\ [][Next]_vars

-----------------------------------------------------------------------------
(* Types of the buffers, the drive and the processes' locals.  Nobody has  *)
(* met a panic but that of bget: bread, bwrite and brelse call iderw and   *)
(* each other with the flags set.                                          *)
TypeOK ==
    /\ sector \in [Buf -> Sector \cup {NoSector}]
    /\ \A f \in {busy, valid, dirty} : f \in [Buf -> BOOLEAN]
    /\ data \in [Buf -> Value]
    /\ mru \in [1..Cardinality(Buf) -> Buf]
    /\ idequeue \in Seq(Buf) /\ Len(idequeue) <= Cardinality(Proc)
    /\ disk \in [Sector -> Value] /\ irq \in BOOLEAN
    /\ cmd = NoCmd \/ cmd \in [op : {"read", "write"}, sector : Sector, data : Value]
    /\ pc \in [Proc -> PC \ {"panic"}]
    /\ want \in [Proc -> Sector \cup {NoSector}]
    /\ b \in [Proc -> Buf \cup {NoBuf}]

\* Places at which the process is the user of its buffer.
Uses(p) == pc[p] \in {"iderw", "iosleep", "iowoken", "hold"}

\* What a sector contains: its buffer's data once that is there.
Content ==
    [s \in Sector |->
        LET full == {x \in Cached(s) : valid[x]}
        IN IF full # {} THEN data[CHOOSE x \in full : TRUE] ELSE disk[s]]

User ==
    [s \in Sector |->
        LET mine == {p \in Proc : Uses(p) /\ sector[b[p]] = s}
        IN IF mine # {} THEN CHOOSE p \in mine : TRUE ELSE NoProc]

Store == INSTANCE BlockStore WITH content <- Content, user <- User

(* The cache is a store with one user per sector: sleeping for a buffer    *)
(* that is recycled meanwhile, evictions, pinned blocks and queued         *)
(* transfers never lose a write or show anyone an old content.             *)
ImplementsBlockStore == Store!Spec

(* "Only one process at a time can use a buffer", no sector has two, and   *)
(* every process uses the sector it asked for.                             *)
OneBufferPerSector ==
    /\ \A x, y \in Buf : sector[x] = sector[y] /\ sector[x] # NoSector => x = y
    /\ \A p \in Proc : Uses(p) =>
        /\ busy[b[p]] /\ sector[b[p]] = want[p]
        /\ \A q \in Proc \ {p} : Uses(q) => b[q] # b[p]

(* No transfer and no wakeup is lost, although bget and iderw sleep on the *)
(* same channel: the disk works on the first request of the queue, who     *)
(* sleeps in iderw has a request there, who sleeps in bget sleeps for a    *)
(* busy buffer.                                                            *)
SleepersServed ==
    /\ idequeue = <<>> <=> cmd = NoCmd
    /\ idequeue # <<>> =>
        /\ cmd.sector = sector[Head(idequeue)]
        /\ cmd.op = "write" <=> dirty[Head(idequeue)]
    /\ \A p \in Proc : pc[p] = "iosleep" => \E i \in DOMAIN idequeue : idequeue[i] = b[p]
    /\ \A p \in Proc : pc[p] = "bsleep" => busy[b[p]]
=============================================================================
