-------------------------------- MODULE Cow --------------------------------
(***************************************************************************)
(* Copy-on-write fork: fork and copystackpage, the page fault of trap.c    *)
(* with trapCOW, copypage and isshared, exec's, sbrk's and wait's freeing  *)
(* of memory with unlinkzombiesharedmemory and freevm, and kalloc/kfree.   *)
(*                                                                         *)
(* There are no reference counts: who shares a frame is found by comparing *)
(* page table entries, all their bits, across the process table.  A        *)
(* program has fewer than 1024 pages, so that it has one page table, its   *)
(* own, and sharing happens at the level FRAME only.  Its first page has   *)
(* the text it runs, its last the stack; what is in a page does not matter *)
(* here.                                                                   *)
(* kalloc may fail at any time: kernel stacks, page tables and pipes take  *)
(* frames too, and are not counted.                                        *)
(***************************************************************************)
EXTENDS Naturals, FiniteSets

CONSTANTS NPROC, NPAGE, NFRAME,
          ImageSize  \* the pages of a program when exec has loaded it

Slot == 1..NPROC
Page == 1..NPAGE
Frame == 1..NFRAME
NoFrame == 0     \* an entry that is not present
Shell == 1       \* stands for init and sh, which never exit

VARIABLES
    state,   \* p->state: UNUSED, RUN (for all that are alive) or ZOMBIE
    pid,     \* whether p->pid is set
    parent, name, sz,
    naming,  \* the child that a process in fork has still to name, or 0
    fr, w, a, \* page table entries: the frame, PTE_W, PTE_A
    stale,   \* pages for which the TLB holds a writable translation
    free,    \* kmem.freelist
    panicked \* the panic the kernel has stopped in, or ""

table == <<state, pid, parent, name, sz, naming>>
ptes == <<fr, w, a>>
vars == <<table, ptes, stale, free, panicked>>

PTE(s, g) == <<fr[s, g], w[s, g], a[s, g]>>

\* init and sh have started a first program.
Init ==
    LET running == {Shell, Shell + 1}
        loaded(x) == x[1] \in running /\ x[2] <= ImageSize
    IN /\ state = [s \in Slot |-> IF s \in running THEN "RUN" ELSE "UNUSED"]
       /\ pid = [s \in Slot |-> s \in running]
       /\ parent = [s \in Slot |-> IF s = Shell + 1 THEN Shell ELSE 0]
       /\ name = [s \in Slot |-> IF s = Shell THEN "sh" ELSE IF s = Shell + 1 THEN "prog" ELSE ""]
       /\ sz = [s \in Slot |-> IF s \in running THEN ImageSize ELSE 0]
       /\ naming = [s \in Slot |-> 0]
       /\ fr = [x \in Slot \X Page |-> IF loaded(x) THEN (x[1] - 1) * ImageSize + x[2] ELSE NoFrame]
       /\ w = [x \in Slot \X Page |-> loaded(x)]
       /\ a = [x \in Slot \X Page |-> x[1] \in running /\ x[2] = 1]
       /\ stale = [s \in Slot |-> {}]
       /\ free = 2 * ImageSize + 1..NFRAME
       /\ panicked = ""

panic(why) == panicked' = why

\* A frame that a live process maps is on the free list.  The list runs
\* through a page that a program writes, and the frame is handed out and freed
\* again: anything may follow, and no behaviour is followed that far.
Corrupted == \E s \in Slot, g \in Page : state[s] = "RUN" /\ fr[s, g] \in free

\* The process can take a step in the kernel ...
Kernel(p) == state[p] = "RUN" /\ naming[p] = 0 /\ panicked = "" /\ ~Corrupted

\* ... and in user space, as long as its text is there.
Runs(p) == Kernel(p) /\ fr[p, 1] # NoFrame

First(S) == CHOOSE x \in S : \A y \in S : x <= y

\* One kalloc; and n of them.
kalloc == First(free)
kallocs(n) == CHOOSE f \in [1..n -> free] : \A g, h \in 1..n : g # h => f[g] # f[h]

Frames(s) == {fr[s, g] : g \in Page} \ {NoFrame}

\* The entries before the first one whose pid is 0, where the loops stop.
Scanned == {s \in Slot : \A t \in 1..s : pid[t]}

\* One of them was given back by a fork that failed and kept its pid.  Its
\* page directory is null or was freed: what is compared there is arbitrary.
Garbage == \E s \in Scanned : state[s] = "UNUSED"

-----------------------------------------------------------------------------
\* fork of init and sh: copyuvm gives the child frames of its own.
copyuvm(p, c) ==
    LET f == kallocs(sz[p]) IN
    /\ Cardinality(free) >= sz[p]
    /\ free' = free \ {f[g] : g \in 1..sz[p]}
    /\ fr' = [x \in Slot \X Page |-> IF x[1] = c /\ x[2] <= sz[p] THEN f[x[2]] ELSE fr[x]]
    /\ w' = [x \in Slot \X Page |-> w[x] \/ (x[1] = c /\ x[2] <= sz[p])]
    /\ a' = [a EXCEPT ![c, 1] = TRUE]
    /\ UNCHANGED stale

\* fork of the others: clear PTE_W everywhere but on the last page, copy the
\* table, and give the child a copy of the last page (copystackpage).  The
\* TLB is not flushed.
share(p, c) ==
    LET last == sz[p] IN
    /\ free # {}
    /\ free' = free \ {kalloc}
    /\ fr' = [x \in Slot \X Page |->
                IF x = <<c, last>> THEN kalloc
                ELSE IF x[1] = c THEN fr[p, x[2]] ELSE fr[x]]
    /\ w' = [x \in Slot \X Page |->
                IF x[1] \in {p, c} THEN x[2] = last /\ (x[1] = p => w[x]) ELSE w[x]]
    /\ a' = [x \in Slot \X Page |->
                IF x[1] = c THEN x[2] # last /\ a[p, x[2]] ELSE a[x]]
    /\ stale' = [stale EXCEPT ![p] = @ \cup {g \in Page : w[p, g] /\ g # last /\ a[p, g]}]

\* allocproc finds an entry for the child.
allocproc(c) ==
    /\ state[c] = "UNUSED"
    /\ c = First({s \in Slot : state[s] = "UNUSED"})

(* fork(): the first UNUSED entry becomes the child, which can run before  *)
(* it has its name.  That it has none matters only when its parent is init *)
(* or sh.                                                                  *)
Fork(p, c) ==
    /\ Runs(p) /\ allocproc(c)
    /\ \/ /\ name[p] = "sh"
          /\ copyuvm(p, c)
          /\ naming' = [naming EXCEPT ![p] = c]
          /\ UNCHANGED name
       \/ /\ name[p] # "sh"
          /\ share(p, c)
          /\ name' = [name EXCEPT ![c] = name[p]]
          /\ UNCHANGED naming
    /\ state' = [state EXCEPT ![c] = "RUN"]
    /\ pid' = [pid EXCEPT ![c] = TRUE]
    /\ parent' = [parent EXCEPT ![c] = p]
    /\ sz' = [sz EXCEPT ![c] = sz[p]]
    /\ UNCHANGED panicked

(* fork() fails: allocproc has no kernel stack, or copyuvm no memory.  The *)
(* entry is given back, but not its pid.                                   *)
ForkFail(p, c) ==
    /\ Runs(p) /\ allocproc(c)
    /\ pid' = [pid EXCEPT ![c] = TRUE]
    /\ UNCHANGED <<state, parent, name, sz, naming, ptes, stale, free, panicked>>

(* The end of fork: safestrcpy of the name, whatever the child has become. *)
ForkName(p) ==
    /\ naming[p] # 0 /\ panicked = "" /\ ~Corrupted
    /\ name' = [name EXCEPT ![naming[p]] = name[p]]
    /\ naming' = [naming EXCEPT ![p] = 0]
    /\ UNCHANGED <<state, pid, parent, sz, ptes, stale, free, panicked>>

(* isshared(): some scanned process other than this one, and not a zombie, *)
(* has the same entry for the page.  The answers it may give.              *)
isshared(p, g) ==
    LET found == \E s \in Scanned :
                    s # p /\ state[s] = "RUN" /\ PTE(s, g) = PTE(p, g)
    IN {found} \cup (IF Garbage THEN {TRUE} ELSE {})

\* The process stores to a page that is not writable.
Faults(p, g) ==
    /\ Runs(p) /\ g \in 1..sz[p] /\ fr[p, g] # NoFrame
    /\ ~w[p, g] /\ g \notin stale[p]

(* The page fault of a user store: trapCOW, copypage.  The page is copied  *)
(* if it is shared, and made writable.                                     *)
Fault(p, g) ==
    /\ Faults(p, g)
    /\ \/ /\ FALSE \in isshared(p, g)
          /\ UNCHANGED <<fr, a, free>>
       \/ /\ TRUE \in isshared(p, g) /\ free # {}
          /\ free' = free \ {kalloc}
          /\ fr' = [fr EXCEPT ![p, g] = kalloc]
          /\ a' = [a EXCEPT ![p, g] = FALSE]
    /\ w' = [w EXCEPT ![p, g] = TRUE]
    /\ UNCHANGED <<table, stale, panicked>>

(* copypage and copystackpage without memory; a directory that is compared *)
(* although it was freed may be the process's own by now.                  *)
CopyPanic(p) ==
    /\ \/ /\ name[p] # "sh" /\ Runs(p) /\ (\E c \in Slot : allocproc(c))
          /\ panic("kalloc on copystackpage")
       \/ /\ \E g \in Page : Faults(p, g) /\ TRUE \in isshared(p, g)
          /\ panic("kalloc on copypage")
       \/ /\ \E g \in Page : Faults(p, g) /\ Garbage
          /\ panic("proc should have its own pgdir")
    /\ UNCHANGED <<table, ptes, stale, free>>

\* The hardware sets PTE_A of a page it loads from or stores to.
touch(p, g) == a' = [a EXCEPT ![p, g] = TRUE]

(* A user load, or a store the hardware lets through.                      *)
Access(p, g) ==
    /\ Runs(p) /\ g \in 1..sz[p] /\ fr[p, g] # NoFrame
    /\ touch(p, g)
    /\ UNCHANGED <<table, fr, w, stale, free, panicked>>

(* A context switch: switchuvm loads %cr3, which flushes the TLB.          *)
Switch(p) ==
    /\ Kernel(p)
    /\ stale' = [stale EXCEPT ![p] = {}]
    /\ UNCHANGED <<table, ptes, free, panicked>>

(* A store by a system call (CR0_WP is set).  trap looks at the err of the *)
(* system call's own frame, proc->tf, which is 0, and panics.              *)
KernelWrite(p, g) ==
    /\ Runs(p) /\ g \in 1..sz[p] /\ fr[p, g] # NoFrame
    /\ IF w[p, g] \/ g \in stale[p]
       THEN touch(p, g) /\ UNCHANGED panicked
       ELSE panic("trap") /\ UNCHANGED a
    /\ UNCHANGED <<table, fr, w, stale, free>>

(* A user store beyond p->sz.                                              *)
WildWrite(p) ==
    /\ Runs(p)
    /\ panic("Acceso a memoria fuera del proceso")
    /\ UNCHANGED <<table, ptes, stale, free>>

-----------------------------------------------------------------------------
(* sbrk of a page more (growproc, allocuvm); without memory nothing        *)
(* changes.                                                                *)
Grow(p) ==
    /\ Runs(p) /\ p # Shell
    /\ sz[p] < NPAGE /\ free # {}
    /\ sz' = [sz EXCEPT ![p] = @ + 1]
    /\ fr' = [fr EXCEPT ![p, sz[p] + 1] = kalloc]
    /\ w' = [w EXCEPT ![p, sz[p] + 1] = TRUE]
    /\ free' = free \ {kalloc}
    /\ stale' = [stale EXCEPT ![p] = {}]
    /\ UNCHANGED <<state, pid, parent, name, naming, a, panicked>>

(* sbrk of a negative amount (growproc, deallocuvm): the frames are freed, *)
(* shared or not.  When nothing is left growproc returns before it has set *)
(* p->sz.                                                                  *)
Shrink(p, n) ==
    LET cleared == {p} \X (n + 1..NPAGE) IN
    /\ Runs(p) /\ p # Shell
    /\ n < sz[p]
    /\ free' = free \cup ({fr[x] : x \in cleared} \ {NoFrame})
    /\ fr' = [x \in Slot \X Page |-> IF x \in cleared THEN NoFrame ELSE fr[x]]
    /\ w' = [x \in Slot \X Page |-> x \notin cleared /\ w[x]]
    /\ a' = [x \in Slot \X Page |-> x \notin cleared /\ a[x]]
    /\ sz' = [sz EXCEPT ![p] = IF n = 0 THEN @ ELSE n]
    /\ stale' = [stale EXCEPT ![p] = IF n = 0 THEN @ ELSE {}]
    /\ UNCHANGED <<state, pid, parent, name, naming, panicked>>

(* exec() commits to a new image in new frames: the name, the size, the    *)
(* page table, then freevm of the old one, shared or not.                  *)
Exec(p) ==
    LET f == kallocs(ImageSize) IN
    /\ Runs(p) /\ p # Shell
    /\ Cardinality(free) >= ImageSize
    /\ fr' = [x \in Slot \X Page |->
                IF x[1] # p THEN fr[x] ELSE IF x[2] <= ImageSize THEN f[x[2]] ELSE NoFrame]
    /\ w' = [x \in Slot \X Page |-> IF x[1] = p THEN x[2] <= ImageSize ELSE w[x]]
    /\ a' = [x \in Slot \X Page |-> IF x[1] = p THEN x[2] = 1 ELSE a[x]]
    /\ free' = (free \ {f[g] : g \in 1..ImageSize}) \cup Frames(p)
    /\ name' = [name EXCEPT ![p] = "prog"]
    /\ sz' = [sz EXCEPT ![p] = ImageSize]
    /\ stale' = [stale EXCEPT ![p] = {}]
    /\ UNCHANGED <<state, pid, parent, naming, panicked>>

(* exit(): a zombie keeps its memory; its children go to init.             *)
Exit(p) ==
    /\ Kernel(p) /\ p # Shell
    /\ state' = [state EXCEPT ![p] = "ZOMBIE"]
    /\ parent' = [s \in Slot |-> IF parent[s] = p THEN Shell ELSE parent[s]]
    /\ stale' = [stale EXCEPT ![p] = {}]
    /\ UNCHANGED <<pid, name, sz, naming, ptes, free, panicked>>

(* unlinkzombiesharedmemory(): the pages whose entry is zeroed because a   *)
(* scanned process has the same one.                                       *)
Unlinked(z) ==
    {g \in 1..sz[z] : \E s \in Scanned \ {z} : state[s] # "UNUSED" /\ PTE(s, g) = PTE(z, g)}

(* freevm, deallocuvm: the frames freed are those of the entries present.  *)
deallocuvm(z, unlinked) == {fr[z, g] : g \in Page \ unlinked} \ {NoFrame}

(* wait(): reap a zombie child.                                            *)
Wait(p, z) ==
    /\ Runs(p)
    /\ parent[z] = p /\ state[z] = "ZOMBIE"
    /\ z = First({s \in Slot : parent[s] = p /\ state[s] = "ZOMBIE"})
    /\ \E u \in SUBSET (IF Garbage THEN 1..sz[z] ELSE {}) :
        free' = free \cup deallocuvm(z, Unlinked(z) \cup u)
    /\ fr' = [x \in Slot \X Page |-> IF x[1] = z THEN NoFrame ELSE fr[x]]
    /\ w' = [x \in Slot \X Page |-> x[1] # z /\ w[x]]
    /\ a' = [x \in Slot \X Page |-> x[1] # z /\ a[x]]
    /\ state' = [state EXCEPT ![z] = "UNUSED"]
    /\ pid' = [pid EXCEPT ![z] = FALSE]
    /\ parent' = [parent EXCEPT ![z] = 0]
    /\ name' = [name EXCEPT ![z] = ""]
    /\ sz' = [sz EXCEPT ![z] = 0]
    /\ UNCHANGED <<naming, stale, panicked>>

Next ==
    \E p \in Slot :
        \/ ForkName(p) \/ CopyPanic(p) \/ Exec(p) \/ Exit(p)
        \/ \E c \in Slot : Fork(p, c) \/ ForkFail(p, c) \/ Wait(p, c)
        \/ Grow(p) \/ (\E n \in 0..NPAGE - 1 : Shrink(p, n))
        \/ Switch(p) \/ WildWrite(p)
        \/ \E g \in Page : Fault(p, g) \/ Access(p, g) \/ KernelWrite(p, g)

Spec == Init /\ [][Next]_vars

-----------------------------------------------------------------------------
(* "There is no shared writable memory, so the string can't change between *)
(* this check and being used by the kernel" (argstr): a frame that two     *)
(* live processes map is writable in neither.                              *)
NoSharedWritable ==
    \A x, y \in Slot \X Page :
        /\ x[1] # y[1] /\ state[x[1]] = "RUN" /\ state[y[1]] = "RUN"
        /\ fr[x] # NoFrame /\ fr[x] = fr[y]
        => ~w[x] /\ ~w[y]

(* A system call that stores into its caller's memory does not end in the  *)
(* panic of trap ("In kernel, it must be our mistake").                    *)
NoPanic == panicked # "trap"
=============================================================================
