------------------------------ MODULE Spinlock ------------------------------
(***************************************************************************)
(* The spin locks of spinlock.c: acquire, release, holding, and the nested *)
(* interrupt-disable counter of pushcli/popcli, on several CPUs, with      *)
(* device interrupts whose handlers take locks themselves (trap.c).        *)
(*                                                                         *)
(* A CPU runs one kernel activation, which an interrupt may suspend when   *)
(* the interrupt flag FL_IF is set: between two lock operations, and also  *)
(* inside pushcli between reading eflags and cli (the window TRICKS        *)
(* discusses).  After cli everything up to the matching popcli is local to *)
(* the CPU except the two words of the lock, so the steps below separate   *)
(* exactly the accesses to lk->locked and lk->cpu.                         *)
(***************************************************************************)
EXTENDS Naturals, FiniteSets

CONSTANTS CPU,    \* the processors (struct cpu cpus[])
          Lock,   \* the spin locks, numbered in the kernel's locking order
          NoCPU,  \* lk->cpu == 0
          NoLock  \* the operand of switchuvm's pushcli, which guards no lock

ASSUME SpinlockAssumption ==
    /\ IsFiniteSet(Lock) /\ Lock \subseteq Nat
    /\ NoCPU \notin CPU
    /\ NoLock \notin Lock

VARIABLES
    locked,  \* lk->locked
    owner,   \* lk->cpu
    fl_if,   \* the CPU's FL_IF flag
    ncli,    \* cpu->ncli
    intena,  \* cpu->intena
    pc, lk, eflags, held,  \* the running activation: where it is, the operand
                           \* and the local of acquire/pushcli, the locks it holds
    inintr,  \* the CPU is in the handler of a device interrupt
    saved    \* the activation that interrupt suspended, or Idle

lockVars == <<locked, owner>>
cliVars  == <<fl_if, ncli, intena>>
intrVars == <<inintr, saved>>
vars == <<locked, owner, fl_if, ncli, intena, pc, lk, eflags, held, inintr, saved>>

PC == {"run", "cli", "xchg", "setcpu", "unlock", "popcli", "panic"}

Frame == [pc : PC, lk : Lock \cup {NoLock}, eflags : BOOLEAN, held : SUBSET Lock]

\* An activation between two lock operations that holds nothing.
Idle == [pc |-> "run", lk |-> NoLock, eflags |-> FALSE, held |-> {}]

Init ==
    /\ locked = [l \in Lock |-> FALSE]
    /\ owner = [l \in Lock |-> NoCPU]
    /\ fl_if = [c \in CPU |-> TRUE]
    /\ ncli = [c \in CPU |-> 0]
    /\ intena = [c \in CPU |-> FALSE]
    /\ pc = [c \in CPU |-> "run"]
    /\ lk = [c \in CPU |-> NoLock]
    /\ eflags = [c \in CPU |-> FALSE]
    /\ held = [c \in CPU |-> {}]
    /\ inintr = [c \in CPU |-> FALSE]
    /\ saved = [c \in CPU |-> Idle]

goto(c, to) == pc' = [pc EXCEPT ![c] = to]

-----------------------------------------------------------------------------
(* holding(lk): locked, and by this CPU.                                   *)
holding(c, l) == locked[l] /\ owner[l] = c

(* The first instruction of pushcli, on behalf of acquire(l) or, with      *)
(* NoLock, of switchuvm.  Callers take locks in locking order.             *)
PushcliRead(c, l) ==
    /\ pc[c] = "run"
    /\ l \in Lock => \A h \in held[c] : h < l
    /\ goto(c, "cli")
    /\ lk' = [lk EXCEPT ![c] = l]
    /\ eflags' = [eflags EXCEPT ![c] = fl_if[c]]
    /\ UNCHANGED <<lockVars, cliVars, held, intrVars>>

\* Faulty variant: intena is overwritten on every nesting level.
PushcliOverwrites(c) ==
    /\ pc[c] = "cli"
    /\ fl_if' = [fl_if EXCEPT ![c] = FALSE]
    /\ ncli' = [ncli EXCEPT ![c] = @ + 1]
    /\ intena' = [intena EXCEPT ![c] = eflags[c]]
    /\ goto(c, IF lk[c] = NoLock THEN "popcli" ELSE "xchg")
    /\ UNCHANGED <<lockVars, lk, eflags, held, intrVars>>

(* The rest of pushcli, then acquire's check that the lock is not already  *)
(* held by this CPU; switchuvm goes on to its popcli.                      *)
PushcliCli(c) ==
    /\ pc[c] = "cli"
    /\ fl_if' = [fl_if EXCEPT ![c] = FALSE]
    /\ ncli' = [ncli EXCEPT ![c] = @ + 1]
    /\ intena' = [intena EXCEPT ![c] = IF ncli[c] = 0 THEN eflags[c] ELSE @]
    /\ IF lk[c] = NoLock THEN goto(c, "popcli")
       ELSE IF holding(c, lk[c]) THEN goto(c, "panic")
       ELSE goto(c, "xchg")
    /\ UNCHANGED <<lockVars, lk, eflags, held, intrVars>>

\* Faulty variant: the lock word is set whatever its value was.
AcquireIgnoresTest(c) ==
    /\ pc[c] = "xchg"
    /\ locked' = [locked EXCEPT ![lk[c]] = TRUE]
    /\ goto(c, "setcpu")
    /\ UNCHANGED <<owner, cliVars, lk, eflags, held, intrVars>>

(* The spin of acquire ends when its xchg finds the lock free.             *)
AcquireXchg(c) ==
    /\ pc[c] = "xchg"
    /\ ~locked[lk[c]]
    /\ locked' = [locked EXCEPT ![lk[c]] = TRUE]
    /\ goto(c, "setcpu")
    /\ UNCHANGED <<owner, cliVars, lk, eflags, held, intrVars>>

(* acquire records the owner and returns.                                  *)
AcquireSetCpu(c) ==
    /\ pc[c] = "setcpu"
    /\ owner' = [owner EXCEPT ![lk[c]] = c]
    /\ held' = [held EXCEPT ![c] = @ \cup {lk[c]}]
    /\ goto(c, "run")
    /\ UNCHANGED <<locked, cliVars, lk, eflags, intrVars>>

(* release checks the caller holds the lock and forgets the owner.         *)
ReleaseClearCpu(c, l) ==
    /\ pc[c] = "run"
    /\ l \in held[c]
    /\ lk' = [lk EXCEPT ![c] = l]
    /\ IF holding(c, l)
       THEN owner' = [owner EXCEPT ![l] = NoCPU] /\ goto(c, "unlock")
       ELSE UNCHANGED owner /\ goto(c, "panic")
    /\ UNCHANGED <<locked, cliVars, eflags, held, intrVars>>

(* The xchg of release.                                                    *)
ReleaseXchg(c) ==
    /\ pc[c] = "unlock"
    /\ locked' = [locked EXCEPT ![lk[c]] = FALSE]
    /\ held' = [held EXCEPT ![c] = @ \ {lk[c]}]
    /\ goto(c, "popcli")
    /\ UNCHANGED <<owner, cliVars, lk, eflags, intrVars>>

\* Faulty variant: every popcli turns interrupts on, not only the outermost.
PopcliEager(c) ==
    /\ pc[c] = "popcli"
    /\ IF fl_if[c] \/ ncli[c] = 0
       THEN goto(c, "panic") /\ UNCHANGED cliVars
       ELSE /\ ncli' = [ncli EXCEPT ![c] = @ - 1]
            /\ fl_if' = [fl_if EXCEPT ![c] = intena[c]]
            /\ goto(c, "run")
            /\ UNCHANGED intena
    /\ UNCHANGED <<lockVars, lk, eflags, held, intrVars>>

\* Faulty variant: the decrement is repeated in the second test.
PopcliTwice(c) ==
    /\ pc[c] = "popcli"
    /\ IF fl_if[c] \/ ncli[c] = 0
       THEN goto(c, "panic") /\ UNCHANGED cliVars
       ELSE /\ ncli' = [ncli EXCEPT ![c] = @ - 2]
            /\ fl_if' = [fl_if EXCEPT ![c] = (ncli[c] = 2 /\ intena[c])]
            /\ goto(c, "run")
            /\ UNCHANGED intena
    /\ UNCHANGED <<lockVars, lk, eflags, held, intrVars>>

(* popcli: panics when called interruptible or unmatched; the outermost    *)
(* one restores the flag pushcli saved.                                    *)
Popcli(c) ==
    /\ pc[c] = "popcli"
    /\ IF fl_if[c] \/ ncli[c] = 0
       THEN goto(c, "panic") /\ UNCHANGED cliVars
       ELSE /\ ncli' = [ncli EXCEPT ![c] = @ - 1]
            /\ fl_if' = [fl_if EXCEPT ![c] = (ncli[c] = 1 /\ intena[c])]
            /\ goto(c, "run")
            /\ UNCHANGED intena
    /\ UNCHANGED <<lockVars, lk, eflags, held, intrVars>>

-----------------------------------------------------------------------------
(* A device interrupt enters trap through an interrupt gate (tvinit), which*)
(* clears FL_IF; its handler starts with no lock of its own.               *)
Interrupt(c) ==
    /\ fl_if[c] /\ ~inintr[c]
    /\ pc[c] # "panic"
    /\ fl_if' = [fl_if EXCEPT ![c] = FALSE]
    /\ inintr' = [inintr EXCEPT ![c] = TRUE]
    /\ saved' = [saved EXCEPT ![c] = [pc |-> pc[c], lk |-> lk[c],
                                      eflags |-> eflags[c], held |-> held[c]]]
    /\ goto(c, "run")
    /\ held' = [held EXCEPT ![c] = {}]
    /\ UNCHANGED <<lockVars, ncli, intena, lk, eflags>>

(* The handler returns with iret, which restores the interrupted eflags.   *)
Iret(c) ==
    /\ inintr[c]
    /\ pc[c] = "run" /\ held[c] = {}
    /\ fl_if' = [fl_if EXCEPT ![c] = TRUE]
    /\ inintr' = [inintr EXCEPT ![c] = FALSE]
    /\ goto(c, saved[c].pc)
    /\ lk' = [lk EXCEPT ![c] = saved[c].lk]
    /\ eflags' = [eflags EXCEPT ![c] = saved[c].eflags]
    /\ held' = [held EXCEPT ![c] = saved[c].held]
    /\ saved' = [saved EXCEPT ![c] = Idle]
    /\ UNCHANGED <<lockVars, ncli, intena>>

Next ==
    \E c \in CPU :
        \/ \E l \in Lock \cup {NoLock} : PushcliRead(c, l)
        \/ PushcliCli(c)
        \/ AcquireXchg(c)
        \/ AcquireSetCpu(c)
        \/ \E l \in Lock : ReleaseClearCpu(c, l)
        \/ ReleaseXchg(c)
        \/ Popcli(c)
        \/ Interrupt(c)
        \/ Iret(c)

Spec == Init /\ [][Next]_vars

-----------------------------------------------------------------------------
(* Types of the lock words, of the per-CPU counters and of activations.    *)
TypeOK ==
    /\ locked \in [Lock -> BOOLEAN]
    /\ owner \in [Lock -> CPU \cup {NoCPU}]
    /\ fl_if \in [CPU -> BOOLEAN]
    /\ ncli \in [CPU -> Nat]
    /\ intena \in [CPU -> BOOLEAN]
    /\ pc \in [CPU -> PC]
    /\ lk \in [CPU -> Lock \cup {NoLock}]
    /\ eflags \in [CPU -> BOOLEAN]
    /\ held \in [CPU -> SUBSET Lock]
    /\ inintr \in [CPU -> BOOLEAN]
    /\ saved \in [CPU -> Frame]

\* The locks CPU c has won with xchg and not yet given back with xchg, in
\* the running activation and in the interrupted one.
Won(c) == held[c] \cup (IF pc[c] = "setcpu" THEN {lk[c]} ELSE {})
HeldBy(c) == Won(c) \cup saved[c].held

(* Two CPUs never hold the same lock, and a lock someone holds is marked   *)
(* locked, whatever interrupts and other CPUs do between the two words of  *)
(* the lock (acquire, release).                                            *)
MutualExclusion ==
    \A c \in CPU : \A l \in HeldBy(c) :
        locked[l] /\ \A d \in CPU \ {c} : l \notin HeldBy(d)

(* No interrupt can be delivered to a CPU that holds a lock or spins for   *)
(* one: its handler could spin for ever on a lock its own CPU holds        *)
(* (acquire: "disable interrupts to avoid deadlock").                      *)
HoldingMeansIntrOff ==
    \A c \in CPU :
        /\ HeldBy(c) # {} \/ pc[c] \in {"xchg", "unlock"} => ~fl_if[c]
        /\ saved[c].held = {} /\ saved[c].pc \in {"run", "cli"}

(* "If interrupts are off, then pushcli, popcli leaves them off", and the  *)
(* outermost popcli turns them back on: between lock operations an         *)
(* activation that holds nothing runs with the flag it started with.       *)
FlagRestored ==
    \A c \in CPU :
        /\ inintr[c] => ~fl_if[c]
        /\ pc[c] = "run" /\ held[c] = {} => (fl_if[c] <=> ~inintr[c])

(* None of the panics of acquire, release and popcli is reachable.         *)
NoPanic == \A c \in CPU : pc[c] # "panic"
=============================================================================
