-------------------------------- MODULE Proc --------------------------------
(***************************************************************************)
(* The process table of proc.c: allocproc, fork, exit, wait, kill, sleep,  *)
(* wakeup, yield and the per-CPU scheduler, with the checks of p->killed   *)
(* and the clock interrupt of trap.c, on several CPUs.                     *)
(*                                                                         *)
(* A step is a critical section of ptable.lock, or one of the writes the   *)
(* code makes to a table entry without that lock (allocproc's and fork's   *)
(* error paths, np->parent and np->state in fork).  The lock is not        *)
(* released by swtch: a process enters the scheduler holding it, and the   *)
(* scheduler resumes a process holding it, so the lock is explicit state.  *)
(*                                                                         *)
(* Memory, files and names are left to other modules; a kernel activation  *)
(* that holds no lock can be preempted anywhere (see Spinlock).            *)
(***************************************************************************)
EXTENDS Integers, FiniteSets

CONSTANTS NPROC,     \* size of ptable.proc
          CPU,       \* the processors
          CPU0,      \* the one that counts ticks (cpu->id == 0)
          NoCPU,     \* lk->cpu == 0: ptable.lock is free
          MaxPid,    \* bound on nextpid
          KillArgs,  \* the pids user programs pass to kill
          KallocFails \* whether kalloc and copyuvm may fail

ASSUME ProcAssumption ==
    /\ NPROC \in Nat \ {0}
    /\ CPU0 \in CPU /\ NoCPU \notin CPU
    /\ MaxPid \in Nat \ {0}
    /\ KillArgs \subseteq Nat
    /\ KallocFails \in BOOLEAN

Slot == 1..NPROC
Null == 0          \* a null struct proc pointer
initproc == 1      \* userinit finds the table empty and takes its first entry
Ticks == NPROC + 1 \* the channel &ticks; the channel of wait is the process

VARIABLES
    state, pid, parent, chan, killed,  \* fields of struct proc
    nextpid,
    ptlock,    \* the CPU that holds ptable.lock
    proc,      \* cpu->proc
    pc,        \* where the process is in the kernel
    ctx,       \* p->context: what it resumes when switched to, or "none"
    np,        \* fork's local
    tickslock, \* the process that holds tickslock, or Null
    due        \* sys_sleep's loop would end: ticks - ticks0 >= n

table == <<state, pid, parent, chan, killed>>
cpus == <<ptlock, proc>>
code == <<pc, ctx, np>>
clock == <<tickslock, due>>
vars == <<table, nextpid, cpus, code, clock>>

ProcState == {"UNUSED", "EMBRYO", "SLEEPING", "RUNNABLE", "RUNNING", "ZOMBIE"}
PC == {"user", "fork", "forkrun", "exit", "ticks", "tickssleep"}
Context == {"none", "forkret", "yield", "wait", "ticks", "exit"}

(* After userinit: init alone, ready to run.                               *)
Init ==
    /\ state = [s \in Slot |-> IF s = initproc THEN "RUNNABLE" ELSE "UNUSED"]
    /\ pid = [s \in Slot |-> IF s = initproc THEN 1 ELSE 0]
    /\ parent = [s \in Slot |-> Null]
    /\ chan = [s \in Slot |-> Null]
    /\ killed = [s \in Slot |-> FALSE]
    /\ nextpid = 2
    /\ ptlock = NoCPU
    /\ proc = [c \in CPU |-> Null]
    /\ pc = [s \in Slot |-> "user"]
    /\ ctx = [s \in Slot |-> IF s = initproc THEN "forkret" ELSE "none"]
    /\ np = [s \in Slot |-> Null]
    /\ tickslock = Null
    /\ due = [s \in Slot |-> FALSE]

goto(s, to) == pc' = [pc EXCEPT ![s] = to]

\* The process running on c, holding no lock, so that it may be preempted.
Running(c, s) == proc[c] = s /\ ptlock # c /\ ctx[s] = "none"

\* The process the scheduler of c has just switched to: it holds ptable.lock.
SwitchedTo(c, s, k) == proc[c] = s /\ ptlock = c /\ state[s] = "RUNNING" /\ ctx[s] = k

\* acquire(&ptable.lock) and release(&ptable.lock) around one step.
Locked(c) == ptlock = NoCPU /\ UNCHANGED ptlock

\* acquire(&ptable.lock), kept into sched().
LockedInto(c) == ptlock = NoCPU /\ ptlock' = c

\* The first entry of the table with a property, as the loops find it.
First(S) == CHOOSE s \in S : \A t \in S : s <= t

\* wakeup1, as a function on the states.
wakeup1(st, ch) ==
    [s \in Slot |-> IF st[s] = "SLEEPING" /\ chan[s] = ch THEN "RUNNABLE" ELSE st[s]]

-----------------------------------------------------------------------------
(* scheduler()'s loop over the table, from an entry on: switch to the next *)
(* RUNNABLE one, keeping the lock, or release it at the end of the table.  *)
(* Looking at the entries between is part of the step: the lock is held,   *)
(* and the writes made without it (EMBRYO to RUNNABLE or UNUSED) commute   *)
(* with the loop's tests.                                                  *)
ScanFrom(c, from) ==
    LET ahead == {s \in Slot : s >= from /\ state[s] = "RUNNABLE"}
    IN \/ /\ ahead # {}
          /\ proc' = [proc EXCEPT ![c] = First(ahead)]
          /\ state' = [state EXCEPT ![First(ahead)] = "RUNNING"]
          /\ ptlock' = c
       \/ /\ ahead = {}
          /\ proc' = [proc EXCEPT ![c] = Null]
          /\ ptlock' = NoCPU
          /\ UNCHANGED state

(* Take the lock and start over the table.                                 *)
SchedulerAcquire(c) ==
    /\ proc[c] = Null /\ ptlock = NoCPU
    /\ ScanFrom(c, 1)
    /\ UNCHANGED <<pid, parent, chan, killed, nextpid, code, clock>>

\* Faulty variant: the loop starts over instead of going on.
SchedulerRestarts(c) ==
    /\ ptlock = c /\ proc[c] # Null /\ state[proc[c]] # "RUNNING"
    /\ ScanFrom(c, 1)
    /\ UNCHANGED <<pid, parent, chan, killed, nextpid, code, clock>>

(* The process has switched back: forget it and go on with the next entry. *)
SchedulerReturn(c) ==
    /\ ptlock = c /\ proc[c] # Null /\ state[proc[c]] # "RUNNING"
    /\ ScanFrom(c, proc[c] + 1)
    /\ UNCHANGED <<pid, parent, chan, killed, nextpid, code, clock>>

(* forkret, and the tail of yield: release the lock the scheduler took.    *)
ResumeRelease(c, s) ==
    /\ \E k \in {"forkret", "yield"} : SwitchedTo(c, s, k)
    /\ ptlock' = NoCPU
    /\ ctx' = [ctx EXCEPT ![s] = "none"]
    /\ UNCHANGED <<table, nextpid, proc, pc, np, clock>>

(* The clock interrupt preempts a process (trap, yield), in user space and *)
(* in the kernel alike; a killed process in user space exits instead.      *)
Yield(c, s) ==
    /\ Running(c, s)
    /\ pc[s] # "tickssleep"                   \* it holds tickslock, or spins
    /\ pc[s] = "ticks" => tickslock = Null    \* for it, with interrupts off
    /\ pc[s] = "user" => ~killed[s]
    /\ LockedInto(c)
    /\ state' = [state EXCEPT ![s] = "RUNNABLE"]
    /\ ctx' = [ctx EXCEPT ![s] = "yield"]
    /\ UNCHANGED <<pid, parent, chan, killed, nextpid, proc, pc, np, clock>>

-----------------------------------------------------------------------------
\* Faulty variant: the counter is incremented before the pid is taken.
ForkAllocPreIncrement(c, s) ==
    /\ Running(c, s) /\ pc[s] = "user" /\ ~killed[s]
    /\ Locked(c)
    /\ nextpid <= MaxPid
    /\ \E n \in Slot :
        /\ state[n] = "UNUSED"
        /\ n = First({t \in Slot : state[t] = "UNUSED"})
        /\ state' = [state EXCEPT ![n] = "EMBRYO"]
        /\ pid' = [pid EXCEPT ![n] = nextpid + 1]
        /\ np' = [np EXCEPT ![s] = n]
    /\ nextpid' = nextpid + 1
    /\ goto(s, "fork")
    /\ UNCHANGED <<parent, chan, killed, proc, ctx, clock>>

(* allocproc, called by fork: the first UNUSED entry becomes EMBRYO.       *)
ForkAlloc(c, s) ==
    /\ Running(c, s) /\ pc[s] = "user" /\ ~killed[s]
    /\ Locked(c)
    /\ nextpid <= MaxPid
    /\ \E n \in Slot :
        /\ state[n] = "UNUSED"
        /\ n = First({t \in Slot : state[t] = "UNUSED"})
        /\ state' = [state EXCEPT ![n] = "EMBRYO"]
        /\ pid' = [pid EXCEPT ![n] = nextpid]
        /\ np' = [np EXCEPT ![s] = n]
    /\ nextpid' = nextpid + 1
    /\ goto(s, "fork")
    /\ UNCHANGED <<parent, chan, killed, proc, ctx, clock>>

(* allocproc and fork give the entry back when memory runs out: without    *)
(* the lock, and leaving its pid (and a kill that named it) behind.        *)
ForkFail(c, s) ==
    /\ Running(c, s) /\ pc[s] = "fork" /\ KallocFails
    /\ state' = [state EXCEPT ![np[s]] = "UNUSED"]
    /\ np' = [np EXCEPT ![s] = Null]
    /\ goto(s, "user")
    /\ UNCHANGED <<pid, parent, chan, killed, nextpid, cpus, ctx, clock>>

(* The kernel stack, the context that starts at forkret, the parent.       *)
ForkCopy(c, s) ==
    /\ Running(c, s) /\ pc[s] = "fork"
    /\ parent' = [parent EXCEPT ![np[s]] = s]
    /\ ctx' = [ctx EXCEPT ![np[s]] = "forkret"]
    /\ pc' = [pc EXCEPT ![s] = "forkrun", ![np[s]] = "user"]
    /\ UNCHANGED <<state, pid, chan, killed, nextpid, cpus, np, clock>>

(* np->state = RUNNABLE, without the lock.                                 *)
ForkRunnable(c, s) ==
    /\ Running(c, s) /\ pc[s] = "forkrun"
    /\ state' = [state EXCEPT ![np[s]] = "RUNNABLE"]
    /\ np' = [np EXCEPT ![s] = Null]
    /\ goto(s, "user")
    /\ UNCHANGED <<pid, parent, chan, killed, nextpid, cpus, ctx, clock>>

-----------------------------------------------------------------------------
(* sys_exit, or trap's checks of p->killed on the way to and from user     *)
(* space.  init.c never exits.                                             *)
ExitCall(c, s) ==
    /\ Running(c, s) /\ pc[s] = "user"
    /\ s # initproc \/ killed[s]
    /\ goto(s, "exit")
    /\ UNCHANGED <<table, nextpid, cpus, ctx, np, clock>>

(* A trap in user space that is not a system call kills the process.       *)
Fault(c, s) ==
    /\ Running(c, s) /\ pc[s] = "user" /\ s # initproc
    /\ killed' = [killed EXCEPT ![s] = TRUE]
    /\ goto(s, "exit")
    /\ UNCHANGED <<state, pid, parent, chan, nextpid, cpus, ctx, np, clock>>

\* Faulty variant: abandoned zombies are handed over without waking init.
ExitNoInitWakeup(c, s) ==
    /\ Running(c, s) /\ pc[s] = "exit" /\ s # initproc
    /\ LockedInto(c)
    /\ state' = [wakeup1(state, parent[s]) EXCEPT ![s] = "ZOMBIE"]
    /\ parent' = [t \in Slot |-> IF parent[t] = s THEN initproc ELSE parent[t]]
    /\ ctx' = [ctx EXCEPT ![s] = "exit"]
    /\ UNCHANGED <<pid, chan, killed, nextpid, proc, pc, np, clock>>

\* Faulty variant: the lock is released before the switch to the scheduler.
ExitEarlyRelease(c, s) ==
    /\ Running(c, s) /\ pc[s] = "exit" /\ s # initproc
    /\ Locked(c)
    /\ state' = [wakeup1(state, parent[s]) EXCEPT ![s] = "ZOMBIE"]
    /\ parent' = [t \in Slot |-> IF parent[t] = s THEN initproc ELSE parent[t]]
    /\ ctx' = [ctx EXCEPT ![s] = "exit"]
    /\ UNCHANGED <<pid, chan, killed, nextpid, proc, pc, np, clock>>

(* exit(): wake the parent, pass the children to init, waking it for a     *)
(* zombie, become one and switch away for ever, still holding the lock.    *)
Exit(c, s) ==
    /\ Running(c, s) /\ pc[s] = "exit" /\ s # initproc
    /\ LockedInto(c)
    /\ LET st == wakeup1(state, parent[s])
           orphans == {t \in Slot : parent[t] = s}
       IN /\ state' = [(IF \E t \in orphans : st[t] = "ZOMBIE"
                        THEN wakeup1(st, initproc) ELSE st) EXCEPT ![s] = "ZOMBIE"]
          /\ parent' = [t \in Slot |-> IF t \in orphans THEN initproc ELSE parent[t]]
    /\ ctx' = [ctx EXCEPT ![s] = "exit"]
    /\ UNCHANGED <<pid, chan, killed, nextpid, proc, pc, np, clock>>

-----------------------------------------------------------------------------
Children(s) == {t \in Slot : parent[t] = s}

(* One round of wait's loop, with the lock held.                           *)
WaitLoop(c, s) ==
    LET zombies == {t \in Children(s) : state[t] = "ZOMBIE"} IN
    \/ /\ zombies # {}                       \* reap one and return its pid
       /\ state' = [state EXCEPT ![First(zombies)] = "UNUSED"]
       /\ pid' = [pid EXCEPT ![First(zombies)] = 0]
       /\ parent' = [parent EXCEPT ![First(zombies)] = Null]
       /\ killed' = [killed EXCEPT ![First(zombies)] = FALSE]
       /\ ctx' = [ctx EXCEPT ![First(zombies)] = "none", ![s] = "none"]
       /\ chan' = [chan EXCEPT ![s] = Null]
       /\ ptlock' = NoCPU
    \/ /\ zombies = {} /\ (Children(s) = {} \/ killed[s])     \* return -1
       /\ ctx' = [ctx EXCEPT ![s] = "none"]
       /\ chan' = [chan EXCEPT ![s] = Null]
       /\ ptlock' = NoCPU
       /\ UNCHANGED <<state, pid, parent, killed>>
    \/ /\ zombies = {} /\ Children(s) # {} /\ ~killed[s]      \* sleep(proc, ...)
       /\ chan' = [chan EXCEPT ![s] = s]
       /\ state' = [state EXCEPT ![s] = "SLEEPING"]
       /\ ctx' = [ctx EXCEPT ![s] = "wait"]
       /\ ptlock' = c
       /\ UNCHANGED <<pid, parent, killed>>

(* wait(), called.                                                         *)
WaitCall(c, s) ==
    /\ Running(c, s) /\ pc[s] = "user" /\ ~killed[s]
    /\ ptlock = NoCPU
    /\ WaitLoop(c, s)
    /\ UNCHANGED <<nextpid, proc, pc, np, clock>>

(* wait(), woken: sleep returns with the lock and the loop goes round.     *)
WaitResume(c, s) ==
    /\ SwitchedTo(c, s, "wait")
    /\ WaitLoop(c, s)
    /\ UNCHANGED <<nextpid, proc, pc, np, clock>>

-----------------------------------------------------------------------------
\* Faulty variant: a sleeping process is left asleep.
KillNoWakeup(c, s, n) ==
    /\ Running(c, s) /\ pc[s] = "user" /\ ~killed[s]
    /\ Locked(c)
    /\ \E v \in Slot :
        /\ pid[v] = n
        /\ v = First({t \in Slot : pid[t] = n})
        /\ killed' = [killed EXCEPT ![v] = TRUE]
        /\ UNCHANGED state
    /\ UNCHANGED <<pid, parent, chan, nextpid, proc, code, clock>>

(* kill(n): mark the first entry with that pid, whatever its state, and    *)
(* make it RUNNABLE if it sleeps.                                          *)
Kill(c, s, n) ==
    /\ Running(c, s) /\ pc[s] = "user" /\ ~killed[s]
    /\ Locked(c)
    /\ \E v \in Slot :
        /\ pid[v] = n
        /\ v = First({t \in Slot : pid[t] = n})
        /\ killed' = [killed EXCEPT ![v] = TRUE]
        /\ state' = [state EXCEPT ![v] = IF @ = "SLEEPING" THEN "RUNNABLE" ELSE @]
    /\ UNCHANGED <<pid, parent, chan, nextpid, proc, code, clock>>

(* sys_sleep(n > 0): take tickslock, read ticks, find that n ticks have    *)
(* not passed and that the process is not killed, and call sleep.  init    *)
(* never calls it.                                                         *)
SleepCall(c, s) ==
    /\ Running(c, s) /\ pc[s] = "user" /\ ~killed[s] /\ s # initproc
    /\ tickslock = Null
    /\ tickslock' = s
    /\ goto(s, "tickssleep")
    /\ UNCHANGED <<table, nextpid, cpus, ctx, np, due>>

\* Faulty variant: sleep releases tickslock before it takes ptable.lock.
SleepReleasesFirst(c, s) ==
    /\ Running(c, s) /\ pc[s] = "tickssleep"
    /\ IF tickslock = s
       THEN tickslock' = Null /\ UNCHANGED <<state, chan, ptlock, ctx>>
       ELSE /\ LockedInto(c)
            /\ chan' = [chan EXCEPT ![s] = Ticks]
            /\ state' = [state EXCEPT ![s] = "SLEEPING"]
            /\ ctx' = [ctx EXCEPT ![s] = "ticks"]
            /\ UNCHANGED tickslock
    /\ UNCHANGED <<pid, parent, killed, nextpid, proc, pc, np, due>>

(* sleep(&ticks, &tickslock): ptable.lock is taken, and only then          *)
(* tickslock released.                                                     *)
Sleep(c, s) ==
    /\ Running(c, s) /\ pc[s] = "tickssleep"
    /\ LockedInto(c)
    /\ tickslock' = Null
    /\ chan' = [chan EXCEPT ![s] = Ticks]
    /\ state' = [state EXCEPT ![s] = "SLEEPING"]
    /\ ctx' = [ctx EXCEPT ![s] = "ticks"]
    /\ UNCHANGED <<pid, parent, killed, nextpid, proc, pc, np, due>>

(* sleep, woken: forget the channel and release ptable.lock ...            *)
SleepResume(c, s) ==
    /\ SwitchedTo(c, s, "ticks")
    /\ chan' = [chan EXCEPT ![s] = Null]
    /\ ptlock' = NoCPU
    /\ ctx' = [ctx EXCEPT ![s] = "none"]
    /\ goto(s, "ticks")
    /\ UNCHANGED <<state, pid, parent, killed, nextpid, proc, np, clock>>

(* ... then reacquire tickslock and test again: return, releasing it, or   *)
(* go back to sleep.                                                       *)
SleepAgain(c, s) ==
    /\ Running(c, s) /\ pc[s] = "ticks"
    /\ tickslock = Null
    /\ IF due[s] \/ killed[s]
       THEN due' = [due EXCEPT ![s] = FALSE] /\ goto(s, "user") /\ UNCHANGED tickslock
       ELSE tickslock' = s /\ goto(s, "tickssleep") /\ UNCHANGED due
    /\ UNCHANGED <<table, nextpid, cpus, ctx, np>>

(* The clock interrupt on CPU 0: ticks++ and wakeup(&ticks), both locks    *)
(* held.  It is taken wherever the CPU holds no lock.  It is the last tick *)
(* that some of those in sys_sleep wait for; the others are woken as well, *)
(* and have to go back to sleep.                                           *)
Tick ==
    /\ proc[CPU0] # Null => Running(CPU0, proc[CPU0])
    /\ tickslock = Null
    /\ Locked(CPU0)
    /\ \E S \in SUBSET {s \in Slot : pc[s] \in {"ticks", "tickssleep"}} :
        due' = [s \in Slot |-> due[s] \/ s \in S]
    /\ state' = wakeup1(state, Ticks)
    /\ UNCHANGED <<pid, parent, chan, killed, nextpid, proc, code, tickslock>>

Scheduler(c) == SchedulerAcquire(c) \/ SchedulerReturn(c)

\* A process resumes with ptable.lock held ...
Resume(c, s) == ResumeRelease(c, s) \/ WaitResume(c, s) \/ SleepResume(c, s)

\* ... and goes on with the system call it is in.
Kernel(c, s) ==
    \/ ForkFail(c, s) \/ ForkCopy(c, s) \/ ForkRunnable(c, s)
    \/ Exit(c, s)
    \/ Sleep(c, s) \/ SleepAgain(c, s)

\* What a user program asks of it.
Syscall(c, s) ==
    \/ ForkAlloc(c, s)
    \/ ExitCall(c, s)
    \/ Fault(c, s)
    \/ WaitCall(c, s)
    \/ \E n \in KillArgs : Kill(c, s, n)
    \/ SleepCall(c, s)

Next ==
    \/ \E c \in CPU :
        \/ Scheduler(c)
        \/ \E s \in Slot : Resume(c, s) \/ Kernel(c, s) \/ Syscall(c, s) \/ Yield(c, s)
    \/ Tick

Spec == Init /\ [][Next]_vars

\* The clock of a CPU interrupts the process it runs (lapic.c), which then
\* either yields or, when it is killed and in user space, exits.
Preempt(c) ==
    \E s \in Slot : Yield(c, s) \/ (killed[s] /\ ExitCall(c, s))

\* Every CPU's scheduler and clock go on; a process that gets a CPU again and
\* again gets on with its kernel code; a CPU that spins for a lock while the
\* lock is free again and again obtains it in the end, and an interrupt held
\* pending while interrupts are off is delivered when they are on.  The
\* last two are the hardware's promises, not acquire's: hence SF.
Fairness ==
    /\ \A c \in CPU :
        /\ SF_vars(Scheduler(c))
        /\ SF_vars(Preempt(c))
        /\ WF_vars(\E s \in Slot : Resume(c, s))
    /\ \A s \in Slot : SF_vars(\E c \in CPU : Kernel(c, s))
    /\ SF_vars(Tick)

FairSpec == Spec /\ Fairness

-----------------------------------------------------------------------------
(* Types of the table and of the CPUs' registers; a pid has been issued.   *)
TypeOK ==
    /\ state \in [Slot -> ProcState]
    /\ pid \in [Slot -> 0..nextpid - 1]
    /\ parent \in [Slot -> Slot \cup {Null}]
    /\ chan \in [Slot -> Slot \cup {Null, Ticks}]
    /\ killed \in [Slot -> BOOLEAN]
    /\ nextpid \in 1..MaxPid + 1
    /\ ptlock \in CPU \cup {NoCPU}
    /\ proc \in [CPU -> Slot \cup {Null}]
    /\ pc \in [Slot -> PC]
    /\ ctx \in [Slot -> Context]
    /\ np \in [Slot -> Slot \cup {Null}]
    /\ tickslock \in Slot \cup {Null}
    /\ due \in [Slot -> BOOLEAN]

(* A process runs on one CPU at a time, and a CPU never executes on the    *)
(* kernel stack of an entry that wait has freed or fork has reused: the    *)
(* lock an exiting process takes is released only by the scheduler it      *)
(* switched to, although fork and allocproc write p->state without it.     *)
(* Every RUNNING process is on a CPU, and the ones that are not have a     *)
(* context to resume: the scheduler never switches to a stale stack.       *)
StackOwned ==
    /\ \A c \in CPU : proc[c] # Null =>
        /\ \A d \in CPU \ {c} : proc[d] # proc[c]
        /\ state[proc[c]] \notin {"UNUSED", "EMBRYO"}
        /\ state[proc[c]] # "RUNNING" => ptlock = c
    /\ \A s \in Slot :
        /\ state[s] = "RUNNING" => \E c \in CPU : proc[c] = s
        /\ state[s] \in {"RUNNABLE", "SLEEPING"} => ctx[s] \notin {"none", "exit"}

(* No tick is lost: a process asleep in sys_sleep has no tick to return    *)
(* for ("Once we hold ptable.lock, we can be guaranteed that we won't miss *)
(* any wakeup").                                                           *)
TickNoticed ==
    \A s \in Slot : state[s] = "SLEEPING" /\ chan[s] = Ticks => ~due[s]

Alive == {s \in Slot : state[s] \in {"SLEEPING", "RUNNABLE", "RUNNING"}}

(* Every zombie is reaped by the right parent: a parent pointer leads to a *)
(* process that can still wait, never to a freed entry, an embryo or a     *)
(* zombie; nobody sleeps in wait beside a zombie child, exits, reparenting *)
(* and wakeups interleaved any way; and no two entries in use share a pid, *)
(* by which wait and kill name them.                                       *)
FamilyInOrder ==
    /\ \A s \in Slot \ {initproc} :
        s \in Alive \/ state[s] = "ZOMBIE" => parent[s] \in Alive
    /\ \A s, t \in Slot :
        parent[t] = s /\ state[t] = "ZOMBIE" => ~(state[s] = "SLEEPING" /\ chan[s] = s)
    /\ \A s, t \in Slot : s # t /\ state[s] # "UNUSED" /\ state[t] # "UNUSED" => pid[s] # pid[t]

(* A RUNNABLE process eventually runs, whatever the others do: the         *)
(* scheduler goes on where it stopped, and the clock preempts.             *)
RunnableRuns == \A s \in Slot : state[s] = "RUNNABLE" ~> state[s] = "RUNNING"

(* A killed process eventually exits, from user space, from wait and from  *)
(* sys_sleep (kill, trap).                                                 *)
KilledExits ==
    \A s \in Slot : (killed[s] /\ state[s] \in {"SLEEPING", "RUNNABLE", "RUNNING"})
        ~> state[s] = "ZOMBIE"
=============================================================================
