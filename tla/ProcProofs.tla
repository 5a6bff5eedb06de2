----------------------------- MODULE ProcProofs -----------------------------
(***************************************************************************)
(* Proofs about Proc.tla, for any size of the process table, any number of *)
(* CPUs and any bound on pids: kernel stacks are never shared or reused    *)
(* under a CPU, no tick is lost, and the family tree stays in order.       *)
(***************************************************************************)
EXTENDS Proc, WellFoundedInduction, TLAPS

\* A CPU and the entry it runs.  Only the holder of ptable.lock may be on an
\* entry that is not RUNNING, or on one whose context is saved.
CpuInv ==
    \A c \in CPU : proc[c] # Null =>
        /\ \A d \in CPU \ {c} : proc[d] # proc[c]
        /\ ptlock = c => \/ /\ state[proc[c]] \in {"RUNNING", "RUNNABLE", "SLEEPING"}
                            /\ ctx[proc[c]] \notin {"none", "exit"}
                         \/ state[proc[c]] = "ZOMBIE"
        /\ ptlock # c => state[proc[c]] = "RUNNING" /\ ctx[proc[c]] = "none"

\* An entry: where its process is, and what it resumes.
SlotInv ==
    \A s \in Slot :
        /\ state[s] = "RUNNING" => \E c \in CPU : proc[c] = s
        /\ state[s] \in {"RUNNABLE", "SLEEPING"} => ctx[s] \notin {"none", "exit"}
        /\ state[s] = "ZOMBIE" => pc[s] = "exit"
        /\ pc[s] \in {"fork", "forkrun", "ticks", "tickssleep"} => s \in Alive
        /\ ctx[s] \in {"forkret", "wait"} => pc[s] = "user"
        /\ ctx[s] = "ticks" => pc[s] = "tickssleep"
        /\ ctx[s] = "yield" => pc[s] # "tickssleep"
        /\ ctx[s] = "exit" => pc[s] = "exit"

\* fork's embryo is its own until it is made RUNNABLE or given back.
ForkInv ==
    \A s \in Slot :
        /\ pc[s] \in {"fork", "forkrun"} <=> np[s] # Null
        /\ np[s] # Null => /\ state[np[s]] = "EMBRYO"
                           /\ \A t \in Slot \ {s} : np[t] # np[s]
        /\ pc[s] = "forkrun" => parent[np[s]] = s /\ ctx[np[s]] = "forkret"

\* tickslock is held from the test of ticks to sleep; a tick counts for the
\* processes in sys_sleep only.
TickInv ==
    \A s \in Slot :
        /\ tickslock = s <=> (pc[s] = "tickssleep" /\ ctx[s] = "none")
        /\ pc[s] \notin {"ticks", "tickssleep"} => ~due[s]
        /\ tickslock = s => ~due[s]
        /\ state[s] = "SLEEPING" /\ chan[s] = Ticks => ~due[s]

\* init is always there to adopt, and nobody is its own parent.
FamilyInv ==
    /\ FamilyInOrder
    /\ initproc \in Alive /\ parent[initproc] = Null
    /\ \A s \in Slot : parent[s] # s

IInv == TypeOK /\ CpuInv /\ SlotInv /\ ForkInv /\ TickInv /\ FamilyInv

-----------------------------------------------------------------------------
\* Pointers and channels: null, the entries and &ticks differ.
LEMMA SlotFacts ==
    /\ Null \notin Slot /\ Ticks \notin Slot /\ Ticks # Null /\ initproc \in Slot
    /\ Slot \subseteq Nat
BY ProcAssumption DEF Slot, Null, Ticks, initproc

\* A loop over the table that finds an entry finds a first one.
LEMMA FirstIs ==
    ASSUME NEW S, S \subseteq Slot, S # {}
    PROVE  First(S) \in S
<1>1. S \subseteq Nat
  BY SlotFacts
<1>2. PICK m \in S : \A t \in S : ~(<<t, m>> \in OpToRel(<, Nat))
  BY <1>1, NatLessThanWellFounded, WFMin
<1>3. \A t \in S : m <= t
  <2> SUFFICES ASSUME NEW t \in S PROVE m <= t
    OBVIOUS
  <2>1. ~(t < m)
    BY <1>1, <1>2 DEF OpToRel
  <2>2. QED
    BY <1>1, <2>1
<1>4. QED
  BY <1>3 DEF First

\* userinit leaves init alone and ready to run.
LEMMA InitIInv == Init => IInv
<1> SUFFICES ASSUME Init PROVE IInv
  OBVIOUS
<1>1. TypeOK
  <2>1. killed \in [Slot -> BOOLEAN] /\ due \in [Slot -> BOOLEAN]
    BY DEF Init
  <2>2. pid \in [Slot -> 0..nextpid - 1] /\ nextpid \in 1..MaxPid + 1
    BY ProcAssumption DEF Init
  <2>3. QED
    BY <2>1, <2>2, SlotFacts DEF Init, TypeOK, ProcState, PC, Context
<1>2. CpuInv
  BY DEF Init, CpuInv
<1>3. SlotInv
  BY SlotFacts DEF Init, SlotInv
<1>4. ForkInv
  BY DEF Init, ForkInv
<1>5. TickInv
  BY SlotFacts DEF Init, TickInv
<1>6. FamilyInv
  <2>1. \A s \in Slot : state[s] # "UNUSED" => s = initproc
    BY DEF Init
  <2>2. QED
    BY <2>1, SlotFacts DEF Init, FamilyInv, FamilyInOrder, Alive
<1>7. QED
  BY <1>1, <1>2, <1>3, <1>4, <1>5, <1>6 DEF IInv

\* A process that runs and holds no lock.
LEMMA RunningIs ==
    ASSUME IInv, NEW c \in CPU, NEW s \in Slot, Running(c, s)
    PROVE  /\ state[s] = "RUNNING" /\ s \in Alive /\ ctx[s] = "none"
           /\ \A d \in CPU : proc[d] = s => d = c
BY SlotFacts DEF IInv, CpuInv, Running, Alive

\* Nobody is on an entry that has no process, whoever holds the lock.
LEMMA OffCpu ==
    ASSUME IInv, NEW t \in Slot, state[t] \in {"UNUSED", "EMBRYO"}
    PROVE  \A c \in CPU : proc[c] # t
BY SlotFacts DEF IInv, CpuInv

\* With the lock free every process on a CPU is RUNNING.
LEMMA LockFree ==
    ASSUME IInv, ptlock = NoCPU
    PROVE  \A c \in CPU : proc[c] # Null => state[proc[c]] = "RUNNING" /\ ctx[proc[c]] = "none"
BY ProcAssumption DEF IInv, CpuInv

\* The scheduler, wherever it starts, gives the CPU to nobody else's process.
LEMMA ScanStep ==
    ASSUME IInv, NEW c \in CPU, NEW from, ScanFrom(c, from),
           \/ proc[c] = Null /\ ptlock = NoCPU
           \/ ptlock = c /\ proc[c] # Null /\ state[proc[c]] # "RUNNING",
           UNCHANGED <<pid, parent, chan, killed, nextpid, code, clock>>
    PROVE  IInv'
<1> DEFINE ahead == {t \in Slot : t >= from /\ state[t] = "RUNNABLE"}
           f == First(ahead)
<1> USE DEF IInv
<1>0. UNCHANGED <<pid, parent, chan, killed, nextpid, pc, ctx, np, tickslock, due>>
  BY DEF code, clock
<1>1. CASE ahead # {}
  <2>1. /\ proc' = [proc EXCEPT ![c] = f] /\ state' = [state EXCEPT ![f] = "RUNNING"]
        /\ ptlock' = c
    BY <1>1 DEF ScanFrom
  <2>2. f \in Slot /\ state[f] = "RUNNABLE"
    BY <1>1, FirstIs
  <2> HIDE DEF f, ahead
  <2>3. \A d \in CPU \ {c} : proc[d] # f
    BY <2>2, SlotFacts, ProcAssumption DEF CpuInv
  <2>4. TypeOK'
    BY <1>0, <2>1, <2>2 DEF TypeOK, ProcState
  <2>5. CpuInv'
    BY <1>0, <2>1, <2>2, <2>3, SlotFacts, ProcAssumption DEF CpuInv, SlotInv, TypeOK
  <2>6. Alive' = Alive
    BY <2>1, <2>2 DEF Alive, TypeOK
  <2>7. SlotInv'
    <3>1. \A t \in Slot : state'[t] = "RUNNING" => \E d \in CPU : proc'[d] = t
      <4> SUFFICES ASSUME NEW t \in Slot, state'[t] = "RUNNING"
                   PROVE  \E d \in CPU : proc'[d] = t
        OBVIOUS
      <4>1. CASE t = f
        BY <4>1, <2>1 DEF TypeOK
      <4>2. CASE t # f
        BY <4>2, <2>1, SlotFacts DEF TypeOK, SlotInv
      <4>3. QED
        BY <4>1, <4>2
    <3>2. QED
      BY <3>1, <1>0, <2>1, <2>2, <2>6 DEF SlotInv, TypeOK
  <2>8. ForkInv'
    BY <1>0, <2>1, <2>2 DEF ForkInv, TypeOK
  <2>9. TickInv'
    BY <1>0, <2>1, <2>2 DEF TickInv, TypeOK
  <2>10. FamilyInv'
    BY <1>0, <2>1, <2>2, <2>6 DEF FamilyInv, FamilyInOrder, TypeOK
  <2>11. QED
    BY <2>4, <2>5, <2>7, <2>8, <2>9, <2>10
<1>2. CASE ahead = {}
  <2>1. proc' = [proc EXCEPT ![c] = Null] /\ UNCHANGED state /\ ptlock' = NoCPU
    BY <1>2 DEF ScanFrom
  <2>2. TypeOK'
    BY <1>0, <2>1 DEF TypeOK
  <2>3. CpuInv'
    BY <1>0, <2>1, ProcAssumption DEF CpuInv, TypeOK
  <2>4. SlotInv' /\ Alive' = Alive
    BY <1>0, <2>1, SlotFacts DEF SlotInv, TypeOK, Alive
  <2>5. ForkInv' /\ TickInv'
    BY <1>0, <2>1 DEF ForkInv, TickInv
  <2>6. FamilyInv'
    BY <1>0, <2>1, <2>4 DEF FamilyInv, FamilyInOrder
  <2>7. QED
    BY <2>2, <2>3, <2>4, <2>5, <2>6
<1>3. QED
  BY <1>1, <1>2

\* forkret, and the tail of yield.
LEMMA ResumeReleaseStep ==
    ASSUME IInv, NEW c \in CPU, NEW s \in Slot, ResumeRelease(c, s)
    PROVE  IInv'
<1> USE DEF IInv
<1>1. /\ proc[c] = s /\ ptlock = c /\ state[s] = "RUNNING" /\ ctx[s] \in {"forkret", "yield"}
      /\ ptlock' = NoCPU /\ ctx' = [ctx EXCEPT ![s] = "none"]
      /\ UNCHANGED <<state, pid, parent, chan, killed, nextpid, proc, pc, np, tickslock, due>>
  BY DEF ResumeRelease, SwitchedTo, table, clock
<1>2. TypeOK'
  BY <1>1 DEF TypeOK, Context
<1>3. CpuInv'
  BY <1>1, SlotFacts, ProcAssumption DEF CpuInv, TypeOK
<1>4. SlotInv' /\ Alive' = Alive
  BY <1>1 DEF SlotInv, TypeOK, Alive
<1>5. ForkInv'
  BY <1>1 DEF ForkInv, TypeOK
<1>6. TickInv'
  BY <1>1 DEF TickInv, TypeOK, SlotInv
<1>7. FamilyInv'
  BY <1>1, <1>4 DEF FamilyInv, FamilyInOrder
<1>8. QED
  BY <1>2, <1>3, <1>4, <1>5, <1>6, <1>7

\* yield.
LEMMA YieldStep ==
    ASSUME IInv, NEW c \in CPU, NEW s \in Slot, Yield(c, s)
    PROVE  IInv'
<1> USE DEF IInv
<1>1. /\ proc[c] = s /\ ptlock = NoCPU /\ ptlock' = c /\ pc[s] # "tickssleep"
      /\ state' = [state EXCEPT ![s] = "RUNNABLE"] /\ ctx' = [ctx EXCEPT ![s] = "yield"]
      /\ UNCHANGED <<pid, parent, chan, killed, nextpid, proc, pc, np, tickslock, due>>
  BY DEF Yield, Running, LockedInto, clock
<1>2. state[s] = "RUNNING" /\ s \in Alive /\ ctx[s] = "none" /\ \A d \in CPU : proc[d] = s => d = c
  BY RunningIs DEF Yield
<1>3. TypeOK'
  BY <1>1 DEF TypeOK, Context, ProcState
<1>4. CpuInv'
  BY <1>1, <1>2, SlotFacts, ProcAssumption DEF CpuInv, TypeOK
<1>5. Alive' = Alive
  BY <1>1, <1>2 DEF TypeOK, Alive
<1>6. SlotInv'
  BY <1>1, <1>2, <1>5 DEF SlotInv, TypeOK
<1>7. ForkInv'
  BY <1>1, <1>2 DEF ForkInv, TypeOK
<1>8. TickInv'
  BY <1>1, <1>2 DEF TickInv, TypeOK
<1>9. FamilyInv'
  BY <1>1, <1>2, <1>5 DEF FamilyInv, FamilyInOrder, TypeOK
<1>10. QED
  BY <1>3, <1>4, <1>6, <1>7, <1>8, <1>9

\* allocproc, called by fork.
LEMMA ForkAllocStep ==
    ASSUME IInv, NEW c \in CPU, NEW s \in Slot, ForkAlloc(c, s)
    PROVE  IInv'
<1> USE DEF IInv
<1>1. PICK e \in Slot :
        /\ state[e] = "UNUSED" /\ state' = [state EXCEPT ![e] = "EMBRYO"]
        /\ pid' = [pid EXCEPT ![e] = nextpid] /\ np' = [np EXCEPT ![s] = e]
  BY DEF ForkAlloc
<1>2. /\ proc[c] = s /\ pc[s] = "user" /\ nextpid <= MaxPid /\ nextpid' = nextpid + 1
      /\ pc' = [pc EXCEPT ![s] = "fork"]
      /\ UNCHANGED <<ptlock, parent, chan, killed, proc, ctx, tickslock, due>>
  BY DEF ForkAlloc, Running, Locked, goto, clock
<1>3. state[s] = "RUNNING" /\ s \in Alive /\ ctx[s] = "none"
  BY RunningIs DEF ForkAlloc
<1>4. \A d \in CPU : proc[d] # e
  BY <1>1, OffCpu
<1>5. TypeOK'
  <2>1. nextpid' \in 1..MaxPid + 1 /\ 0..nextpid - 1 \subseteq 0..nextpid' - 1
        /\ nextpid \in 0..nextpid' - 1
    BY <1>2, ProcAssumption DEF TypeOK
  <2>2. pid' \in [Slot -> 0..nextpid' - 1]
    BY <1>1, <2>1 DEF TypeOK
  <2>3. QED
    BY <1>1, <1>2, <2>1, <2>2 DEF TypeOK, ProcState, PC
<1>6. CpuInv'
  BY <1>1, <1>2, <1>4, SlotFacts DEF CpuInv, TypeOK
<1>7. Alive' = Alive
  BY <1>1 DEF Alive, TypeOK
<1>8. SlotInv'
  BY <1>1, <1>2, <1>3, <1>7 DEF SlotInv, TypeOK
<1>9. ForkInv'
  BY <1>1, <1>2, <1>3, SlotFacts DEF ForkInv, TypeOK
<1>10. TickInv'
  BY <1>1, <1>2 DEF TickInv, TypeOK
<1>11. FamilyInv'
  <2>1. \A t \in Slot : pid[t] < nextpid
    BY DEF TypeOK
  <2>2. \A t, u \in Slot : t # u /\ state'[t] # "UNUSED" /\ state'[u] # "UNUSED" => pid'[t] # pid'[u]
    <3>1. \A t \in Slot : t # e => pid'[t] = pid[t] /\ pid'[t] # nextpid /\ state'[t] = state[t]
      BY <1>1, <2>1 DEF TypeOK
    <3>2. pid'[e] = nextpid
      BY <1>1 DEF TypeOK
    <3>3. QED
      BY <3>1, <3>2 DEF FamilyInv, FamilyInOrder
  <2>3. QED
    BY <1>1, <1>2, <1>7, <2>2 DEF FamilyInv, FamilyInOrder, TypeOK
<1>12. QED
  BY <1>5, <1>6, <1>8, <1>9, <1>10, <1>11

\* What fork's local says while it is set.
LEMMA EmbryoIs ==
    ASSUME IInv, NEW s \in Slot, pc[s] \in {"fork", "forkrun"}
    PROVE  /\ np[s] \in Slot /\ np[s] # s /\ state[np[s]] = "EMBRYO" /\ np[np[s]] = Null
           /\ \A t \in Slot \ {s} : np[t] # np[s]
           /\ np[s] # initproc /\ pc[np[s]] \notin {"fork", "forkrun", "ticks", "tickssleep"}
<1> DEFINE e == np[s]
<1> USE DEF IInv
<1>1. e \in Slot /\ state[e] = "EMBRYO" /\ \A t \in Slot \ {s} : np[t] # e
  BY SlotFacts DEF ForkInv, TypeOK
<1> HIDE DEF e
<1>2. e \notin Alive
  BY <1>1 DEF Alive
<1>3. s \in Alive /\ initproc \in Alive
  BY DEF SlotInv, FamilyInv
<1>4. pc[e] \notin {"fork", "forkrun", "ticks", "tickssleep"}
  BY <1>1, <1>2 DEF SlotInv
<1>5. np[e] = Null
  BY <1>1, <1>4 DEF ForkInv
<1>6. QED
  BY <1>1, <1>2, <1>3, <1>4, <1>5 DEF e

\* fork gives its embryo back, without the lock.
LEMMA ForkFailStep ==
    ASSUME IInv, NEW c \in CPU, NEW s \in Slot, ForkFail(c, s)
    PROVE  IInv'
<1> DEFINE e == np[s]
<1> USE DEF IInv
<1>1. /\ proc[c] = s /\ pc[s] = "fork" /\ state' = [state EXCEPT ![e] = "UNUSED"]
      /\ np' = [np EXCEPT ![s] = Null] /\ pc' = [pc EXCEPT ![s] = "user"]
      /\ UNCHANGED <<ptlock, pid, parent, chan, killed, nextpid, proc, ctx, tickslock, due>>
  BY DEF ForkFail, Running, goto, cpus, clock
<1>2. e \in Slot /\ e # s /\ state[e] = "EMBRYO" /\ \A t \in Slot \ {s} : np[t] # e
  BY <1>1, EmbryoIs
<1>3. state[s] = "RUNNING" /\ s \in Alive /\ ctx[s] = "none"
  BY RunningIs DEF ForkFail
<1> HIDE DEF e
<1>4. \A d \in CPU : proc[d] # e
  BY <1>2, OffCpu
<1>5. TypeOK'
  BY <1>1, <1>2 DEF TypeOK, ProcState, PC
<1>6. CpuInv'
  BY <1>1, <1>2, <1>4, SlotFacts DEF CpuInv, TypeOK
<1>7. Alive' = Alive
  BY <1>1, <1>2 DEF Alive, TypeOK
<1>8. SlotInv'
  BY <1>1, <1>2, <1>3, <1>7 DEF SlotInv, TypeOK
<1>9. ForkInv'
  BY <1>1, <1>2, <1>3, SlotFacts DEF ForkInv, TypeOK
<1>10. TickInv'
  BY <1>1, <1>2 DEF TickInv, TypeOK
<1>11. FamilyInv'
  BY <1>1, <1>2, <1>7 DEF FamilyInv, FamilyInOrder, TypeOK
<1>12. QED
  BY <1>5, <1>6, <1>8, <1>9, <1>10, <1>11

\* fork fills its embryo.
LEMMA ForkCopyStep ==
    ASSUME IInv, NEW c \in CPU, NEW s \in Slot, ForkCopy(c, s)
    PROVE  IInv'
<1> DEFINE e == np[s]
<1> USE DEF IInv
<1>1. /\ proc[c] = s /\ pc[s] = "fork" /\ parent' = [parent EXCEPT ![e] = s]
      /\ ctx' = [ctx EXCEPT ![e] = "forkret"]
      /\ pc' = [pc EXCEPT ![s] = "forkrun", ![e] = "user"]
      /\ UNCHANGED <<state, ptlock, pid, chan, killed, nextpid, proc, np, tickslock, due>>
  BY DEF ForkCopy, Running, cpus, clock
<1>2. /\ e \in Slot /\ e # s /\ state[e] = "EMBRYO" /\ \A t \in Slot \ {s} : np[t] # e
      /\ e # initproc /\ pc[e] \notin {"fork", "forkrun", "ticks", "tickssleep"}
  BY <1>1, EmbryoIs
<1>3. state[s] = "RUNNING" /\ s \in Alive /\ ctx[s] = "none"
  BY RunningIs DEF ForkCopy
<1> HIDE DEF e
<1>4. \A d \in CPU : proc[d] # e
  BY <1>2, OffCpu
<1>5. TypeOK'
  BY <1>1, <1>2 DEF TypeOK, Context, PC
<1>6. CpuInv'
  BY <1>1, <1>2, <1>4, SlotFacts DEF CpuInv, TypeOK
<1>7. Alive' = Alive
  BY <1>1 DEF Alive
<1>8. SlotInv'
  BY <1>1, <1>2, <1>3, <1>7 DEF SlotInv, TypeOK
<1>9. ForkInv'
  BY <1>1, <1>2, <1>3, SlotFacts DEF ForkInv, TypeOK, e
<1>10. TickInv'
  BY <1>1, <1>2 DEF TickInv, TypeOK
<1>11. FamilyInv'
  BY <1>1, <1>2, <1>7 DEF FamilyInv, FamilyInOrder, TypeOK, Alive
<1>12. QED
  BY <1>5, <1>6, <1>8, <1>9, <1>10, <1>11

\* np->state = RUNNABLE, without the lock.
LEMMA ForkRunnableStep ==
    ASSUME IInv, NEW c \in CPU, NEW s \in Slot, ForkRunnable(c, s)
    PROVE  IInv'
<1> DEFINE e == np[s]
<1> USE DEF IInv
<1>1. /\ proc[c] = s /\ pc[s] = "forkrun" /\ state' = [state EXCEPT ![e] = "RUNNABLE"]
      /\ np' = [np EXCEPT ![s] = Null] /\ pc' = [pc EXCEPT ![s] = "user"]
      /\ UNCHANGED <<ptlock, pid, parent, chan, killed, nextpid, proc, ctx, tickslock, due>>
  BY DEF ForkRunnable, Running, goto, cpus, clock
<1>2. /\ e \in Slot /\ e # s /\ state[e] = "EMBRYO" /\ \A t \in Slot \ {s} : np[t] # e
      /\ parent[e] = s /\ ctx[e] = "forkret"
  BY <1>1, EmbryoIs DEF ForkInv
<1>3. state[s] = "RUNNING" /\ s \in Alive /\ ctx[s] = "none"
  BY RunningIs DEF ForkRunnable
<1> HIDE DEF e
<1>4. \A d \in CPU : proc[d] # e
  BY <1>2, OffCpu
<1>5. TypeOK'
  BY <1>1, <1>2 DEF TypeOK, ProcState, PC
<1>6. CpuInv'
  BY <1>1, <1>2, <1>4, SlotFacts DEF CpuInv, TypeOK
<1>7. Alive' = Alive \cup {e}
  BY <1>1, <1>2 DEF Alive, TypeOK
<1>8. SlotInv'
  BY <1>1, <1>2, <1>3, <1>7 DEF SlotInv, TypeOK
<1>9. ForkInv'
  BY <1>1, <1>2, <1>3, SlotFacts DEF ForkInv, TypeOK
<1>10. TickInv'
  BY <1>1, <1>2 DEF TickInv, TypeOK
<1>11. FamilyInv'
  BY <1>1, <1>2, <1>3, <1>7 DEF FamilyInv, FamilyInOrder, TypeOK
<1>12. QED
  BY <1>5, <1>6, <1>8, <1>9, <1>10, <1>11

\* The way into exit.
LEMMA ExitCallStep ==
    ASSUME IInv, NEW c \in CPU, NEW s \in Slot, ExitCall(c, s) \/ Fault(c, s)
    PROVE  IInv'
<1> USE DEF IInv
<1>1. /\ proc[c] = s /\ pc[s] = "user" /\ pc' = [pc EXCEPT ![s] = "exit"]
      /\ killed' \in [Slot -> BOOLEAN]
      /\ UNCHANGED <<state, ptlock, pid, parent, chan, nextpid, proc, ctx, np, tickslock, due>>
  BY DEF ExitCall, Fault, Running, goto, table, cpus, clock, TypeOK
<1>2. state[s] = "RUNNING" /\ s \in Alive /\ ctx[s] = "none"
  BY RunningIs DEF ExitCall, Fault
<1>3. TypeOK'
  BY <1>1 DEF TypeOK, PC
<1>4. CpuInv' /\ Alive' = Alive
  BY <1>1 DEF CpuInv, Alive
<1>5. SlotInv'
  BY <1>1, <1>2, <1>4 DEF SlotInv, TypeOK
<1>6. ForkInv'
  BY <1>1 DEF ForkInv, TypeOK
<1>7. TickInv'
  BY <1>1 DEF TickInv, TypeOK
<1>8. FamilyInv'
  BY <1>1, <1>4 DEF FamilyInv, FamilyInOrder
<1>9. QED
  BY <1>3, <1>4, <1>5, <1>6, <1>7, <1>8

\* exit wakes whoever waits for the process or must now wait for its children.
LEMMA ExitStep ==
    ASSUME IInv, NEW c \in CPU, NEW s \in Slot, Exit(c, s)
    PROVE  IInv'
<1> DEFINE orphan == {t \in Slot : parent[t] = s}
           st == wakeup1(state, parent[s])
           left == \E t \in orphan : state[t] = "ZOMBIE"
<1> USE DEF IInv
<1>1. /\ proc[c] = s /\ pc[s] = "exit" /\ s # initproc /\ ptlock = NoCPU /\ ptlock' = c
      /\ ctx' = [ctx EXCEPT ![s] = "exit"]
      /\ UNCHANGED <<pid, chan, killed, nextpid, proc, pc, np, tickslock, due>>
  BY DEF Exit, Running, LockedInto, clock
<1>2. /\ state' = [(IF \E t \in orphan : st[t] = "ZOMBIE"
                    THEN wakeup1(st, initproc) ELSE st) EXCEPT ![s] = "ZOMBIE"]
      /\ parent' = [t \in Slot |-> IF parent[t] = s THEN initproc ELSE parent[t]]
  BY DEF Exit
<1>3. state[s] = "RUNNING" /\ s \in Alive /\ ctx[s] = "none" /\ \A d \in CPU : proc[d] = s => d = c
  BY RunningIs DEF Exit
<1>4. /\ st \in [Slot -> ProcState]
      /\ \A t \in Slot : st[t] = IF state[t] = "SLEEPING" /\ chan[t] = parent[s]
                                 THEN "RUNNABLE" ELSE state[t]
  BY DEF wakeup1, TypeOK, ProcState
<1>5. left <=> \E t \in orphan : st[t] = "ZOMBIE"
  BY <1>4
<1> HIDE DEF st
<1>6. /\ state' \in [Slot -> ProcState] /\ state'[s] = "ZOMBIE"
      /\ \A t \in Slot \ {s} :
            state'[t] = IF state[t] = "SLEEPING" /\ (chan[t] = parent[s] \/ (left /\ chan[t] = initproc))
                        THEN "RUNNABLE" ELSE state[t]
  <2>1. CASE left
    <3>1. state' = [wakeup1(st, initproc) EXCEPT ![s] = "ZOMBIE"]
      BY <1>2, <1>5, <2>1
    <3>2. QED
      BY <3>1, <1>4, <2>1 DEF wakeup1, ProcState
  <2>2. CASE ~left
    <3>1. state' = [st EXCEPT ![s] = "ZOMBIE"]
      BY <1>2, <1>5, <2>2
    <3>2. QED
      BY <3>1, <1>4, <2>2 DEF ProcState
  <2>3. QED
    BY <2>1, <2>2
<1> HIDE DEF left
<1>7. \A t \in Slot \ {s} : state'[t] = state[t] \/ (state[t] = "SLEEPING" /\ state'[t] = "RUNNABLE")
  BY <1>6
<1>8. Alive' = Alive \ {s}
  BY <1>6, <1>7 DEF Alive
<1>9. TypeOK'
  BY <1>1, <1>2, <1>6, SlotFacts DEF TypeOK, Context
<1>10. CpuInv'
  <2>1. \A d \in CPU \ {c} : proc[d] # Null =>
            proc[d] \in Slot \ {s} /\ state[proc[d]] = "RUNNING" /\ ctx[proc[d]] = "none"
    BY <1>1, <1>3, LockFree DEF TypeOK
  <2>2. \A d \in CPU \ {c} : proc[d] # Null => state'[proc[d]] = "RUNNING" /\ ctx'[proc[d]] = "none"
    BY <1>1, <1>7, <2>1 DEF TypeOK
  <2>3. QED
    BY <1>1, <1>6, <2>2 DEF CpuInv
<1>11. SlotInv'
  <2> SUFFICES ASSUME NEW t \in Slot PROVE SlotInv!(t)'
    BY DEF SlotInv
  <2>1. CASE t = s
    BY <2>1, <1>1, <1>6 DEF SlotInv, TypeOK
  <2>2. CASE t # s
    BY <2>2, <1>1, <1>7, <1>8 DEF SlotInv, TypeOK
  <2>3. QED
    BY <2>1, <2>2
<1>12. ForkInv'
  <2>1. \A t \in Slot : np[t] # Null => /\ np[t] \in Slot \ {s} /\ state'[np[t]] = "EMBRYO"
                                        /\ ctx'[np[t]] = ctx[np[t]]
    BY <1>1, <1>3, <1>7 DEF ForkInv, TypeOK
  <2>2. \A t \in Slot : pc[t] = "forkrun" => parent'[np[t]] = t
    BY <1>1, <1>2, <2>1 DEF ForkInv
  <2>3. QED
    BY <1>1, <2>1, <2>2 DEF ForkInv
<1>13. TickInv'
  BY <1>1, <1>3, <1>6, <1>7 DEF TickInv, TypeOK
<1>14. FamilyInv'
  <2>1. initproc \in Alive' /\ parent'[initproc] = Null /\ \A t \in Slot : parent'[t] # t
    BY <1>1, <1>2, <1>8, SlotFacts DEF FamilyInv
  <2>2. \A t \in Slot \ {initproc} :
            t \in Alive' \/ state'[t] = "ZOMBIE" => parent'[t] \in Alive'
    <3> SUFFICES ASSUME NEW t \in Slot \ {initproc}, t \in Alive' \/ state'[t] = "ZOMBIE"
                 PROVE  parent'[t] \in Alive'
      OBVIOUS
    <3>1. t \in Alive \/ state[t] = "ZOMBIE"
      BY <1>3, <1>7, <1>8
    <3>2. parent[t] \in Alive
      BY <3>1 DEF FamilyInv, FamilyInOrder
    <3>3. QED
      BY <3>2, <1>2, <1>8, <2>1
  <2>3. \A u, t \in Slot : parent'[t] = u /\ state'[t] = "ZOMBIE"
                            => ~(state'[u] = "SLEEPING" /\ chan'[u] = u)
    <3> SUFFICES ASSUME NEW u \in Slot, NEW t \in Slot, parent'[t] = u, state'[t] = "ZOMBIE",
                        state'[u] = "SLEEPING", chan[u] = u
                 PROVE  FALSE
      BY <1>1
    <3>1. u # s /\ state[u] = "SLEEPING"
      BY <1>6, <1>7
    <3>2. CASE t = s
      <4>1. u = parent[s]
        BY <3>2, <1>2 DEF FamilyInv
      <4>2. QED
        BY <3>1, <4>1, <1>6
    <3>3. CASE t # s /\ parent[t] = s
      <4>1. u = initproc /\ state[t] = "ZOMBIE"
        BY <3>3, <1>2, <1>7
      <4>2. left
        BY <3>3, <4>1 DEF left
      <4>3. QED
        BY <3>1, <4>1, <4>2, <1>6
    <3>4. CASE t # s /\ parent[t] # s
      <4>1. parent[t] = u /\ state[t] = "ZOMBIE"
        BY <3>4, <1>2, <1>7
      <4>2. QED
        BY <3>1, <4>1 DEF FamilyInv, FamilyInOrder
    <3>5. QED
      BY <3>2, <3>3, <3>4
  <2>4. \A t \in Slot : state'[t] # "UNUSED" => state[t] # "UNUSED"
    BY <1>3, <1>7
  <2>5. \A t, u \in Slot : t # u /\ state'[t] # "UNUSED" /\ state'[u] # "UNUSED" => pid'[t] # pid'[u]
    BY <1>1, <2>4 DEF FamilyInv, FamilyInOrder
  <2>6. QED
    BY <2>1, <2>2, <2>3, <2>5 DEF FamilyInv, FamilyInOrder
<1>15. QED
  BY <1>9, <1>10, <1>11, <1>12, <1>13, <1>14

\* One round of wait, called or woken.
LEMMA WaitLoopStep ==
    ASSUME IInv, NEW c \in CPU, NEW s \in Slot, WaitLoop(c, s),
           proc[c] = s, state[s] = "RUNNING", pc[s] = "user", ptlock \in {NoCPU, c},
           UNCHANGED <<nextpid, proc, pc, np, clock>>
    PROVE  IInv'
<1> DEFINE zombies == {t \in Children(s) : state[t] = "ZOMBIE"}
           z == First(zombies)
<1> USE DEF IInv
<1>0. UNCHANGED <<nextpid, proc, pc, np, tickslock, due>>
  BY DEF clock
<1>1. \A t \in zombies : t \in Slot /\ parent[t] = s /\ state[t] = "ZOMBIE"
  BY DEF Children
<1>2. zombies = {} => \A t \in Slot : ~(parent[t] = s /\ state[t] = "ZOMBIE")
  BY DEF Children
<1>3. \A d \in CPU \ {c} : proc[d] # s /\ (proc[d] # Null => state[proc[d]] = "RUNNING" /\ ctx[proc[d]] = "none")
  BY SlotFacts, ProcAssumption DEF CpuInv
<1>4. CASE zombies # {}
  <2>1. /\ state' = [state EXCEPT ![z] = "UNUSED"] /\ pid' = [pid EXCEPT ![z] = 0]
        /\ parent' = [parent EXCEPT ![z] = Null] /\ killed' = [killed EXCEPT ![z] = FALSE]
        /\ ctx' = [ctx EXCEPT ![z] = "none", ![s] = "none"]
        /\ chan' = [chan EXCEPT ![s] = Null] /\ ptlock' = NoCPU
    BY <1>4 DEF WaitLoop
  <2>2. zombies \subseteq Slot
    BY <1>1
  <2>3. z \in zombies
    BY <1>4, <2>2, FirstIs
  <2>4. z \in Slot /\ parent[z] = s /\ state[z] = "ZOMBIE" /\ pc[z] = "exit"
    BY <1>1, <2>3 DEF SlotInv
  <2> HIDE DEF z, zombies
  <2>5. z # s /\ z \notin Alive /\ z # initproc /\ \A d \in CPU : proc[d] # z
    BY <2>4, <1>3, SlotFacts DEF Alive, FamilyInv
  <2>6. TypeOK'
    <3>1. killed' \in [Slot -> BOOLEAN]
      BY <2>1 DEF TypeOK
    <3>2. pid' \in [Slot -> 0..nextpid' - 1]
      <4>1. 0 \in 0..nextpid - 1
        BY ProcAssumption DEF TypeOK
      <4>2. QED
        BY <2>1, <4>1, <1>0 DEF TypeOK
    <3>3. QED
      BY <1>0, <2>1, <2>4, <3>1, <3>2 DEF TypeOK, ProcState, Context
  <2>7. CpuInv'
    <3>1. \A t \in Slot \ {z} : state'[t] = state[t] /\ (t # s => ctx'[t] = ctx[t])
      BY <2>1 DEF TypeOK
    <3>2. ctx'[s] = "none"
      BY <2>1, <2>5 DEF TypeOK
    <3>3. \A d \in CPU : proc[d] # Null => proc[d] \in Slot \ {z}
      BY <2>5 DEF TypeOK
    <3>4. \A d \in CPU : proc[d] # Null => state'[proc[d]] = "RUNNING" /\ ctx'[proc[d]] = "none"
      BY <1>3, <3>1, <3>2, <3>3
    <3>5. \A d, b \in CPU : proc[d] # Null /\ b # d => proc[b] # proc[d]
      BY DEF CpuInv
    <3>6. proc' = proc /\ \A d \in CPU : ptlock' # d
      BY <1>0, <2>1, ProcAssumption
    <3>7. QED
      <4> HIDE DEF IInv
      <4>1. QED
        BY <3>4, <3>5, <3>6 DEF CpuInv
  <2>8. Alive' = Alive
    BY <2>1, <2>4, <2>5 DEF Alive, TypeOK
  <2>9. SlotInv'
    BY <1>0, <2>1, <2>4, <2>5, <2>8 DEF SlotInv, TypeOK
  <2>10. ForkInv'
    <3>1. \A t \in Slot : np[t] # Null => np[t] \in Slot /\ np[t] # z /\ np[t] # s
      BY <2>4 DEF ForkInv, TypeOK
    <3>2. QED
      BY <1>0, <2>1, <2>4, <3>1 DEF ForkInv, TypeOK
  <2>11. TickInv'
    BY <1>0, <2>1, <2>4, <2>5, SlotFacts DEF TickInv, TypeOK
  <2>12. FamilyInv'
    <3>1. \A t \in Slot \ {z} : parent'[t] = parent[t] /\ state'[t] = state[t] /\ pid'[t] = pid[t]
      BY <2>1, <2>4 DEF TypeOK
    <3>2. parent'[z] = Null /\ state'[z] = "UNUSED"
      BY <2>1, <2>4 DEF TypeOK
    <3>3. \A t \in Slot : chan'[t] = t => chan[t] = t
      BY <2>1, SlotFacts DEF TypeOK
    <3>4. \A t \in Slot \ {initproc} :
              t \in Alive' \/ state'[t] = "ZOMBIE" => parent'[t] \in Alive'
      BY <3>1, <3>2, <2>5, <2>8 DEF FamilyInv, FamilyInOrder
    <3>5. \A u, t \in Slot : parent'[t] = u /\ state'[t] = "ZOMBIE"
                              => ~(state'[u] = "SLEEPING" /\ chan'[u] = u)
      BY <3>1, <3>2, <3>3 DEF FamilyInv, FamilyInOrder
    <3>6. \A t, u \in Slot : t # u /\ state'[t] # "UNUSED" /\ state'[u] # "UNUSED" => pid'[t] # pid'[u]
      BY <3>1, <3>2 DEF FamilyInv, FamilyInOrder
    <3>7. initproc \in Alive' /\ parent'[initproc] = Null /\ \A t \in Slot : parent'[t] # t
      BY <3>1, <3>2, <2>5, <2>8, SlotFacts DEF FamilyInv
    <3>8. QED
      BY <3>4, <3>5, <3>6, <3>7 DEF FamilyInv, FamilyInOrder
  <2>13. QED
    BY <2>6, <2>7, <2>9, <2>10, <2>11, <2>12
<1>5. CASE zombies = {} /\ (Children(s) = {} \/ killed[s])
  <2>1. /\ ctx' = [ctx EXCEPT ![s] = "none"] /\ chan' = [chan EXCEPT ![s] = Null]
        /\ ptlock' = NoCPU /\ UNCHANGED <<state, pid, parent, killed>>
    BY <1>5 DEF WaitLoop
  <2> HIDE DEF z, zombies
  <2>2. TypeOK'
    BY <1>0, <2>1 DEF TypeOK, Context
  <2>3. CpuInv'
    BY <1>0, <1>3, <2>1, SlotFacts, ProcAssumption DEF CpuInv, TypeOK
  <2>4. Alive' = Alive
    BY <2>1 DEF Alive
  <2>5. SlotInv'
    BY <1>0, <2>1, <2>4 DEF SlotInv, TypeOK
  <2>6. ForkInv'
    BY <1>0, <2>1 DEF ForkInv, TypeOK
  <2>7. TickInv'
    BY <1>0, <2>1, SlotFacts DEF TickInv, TypeOK
  <2>8. FamilyInv'
    BY <2>1, <2>4, SlotFacts DEF FamilyInv, FamilyInOrder, TypeOK
  <2>9. QED
    BY <2>2, <2>3, <2>5, <2>6, <2>7, <2>8
<1>6. CASE zombies = {} /\ Children(s) # {} /\ ~killed[s]
  <2>1. /\ chan' = [chan EXCEPT ![s] = s] /\ state' = [state EXCEPT ![s] = "SLEEPING"]
        /\ ctx' = [ctx EXCEPT ![s] = "wait"] /\ ptlock' = c /\ UNCHANGED <<pid, parent, killed>>
    BY <1>6 DEF WaitLoop
  <2>0. \A t \in Slot : ~(parent[t] = s /\ state[t] = "ZOMBIE")
    BY <1>2, <1>6
  <2> HIDE DEF z, zombies
  <2>2. TypeOK'
    BY <1>0, <2>1 DEF TypeOK, Context, ProcState
  <2>3. CpuInv'
    BY <1>0, <1>3, <2>1, SlotFacts, ProcAssumption DEF CpuInv, TypeOK
  <2>4. Alive' = Alive
    BY <2>1 DEF Alive, TypeOK
  <2>5. SlotInv'
    BY <1>0, <2>1, <2>4 DEF SlotInv, TypeOK
  <2>6. ForkInv'
    BY <1>0, <2>1 DEF ForkInv, TypeOK
  <2>7. TickInv'
    BY <1>0, <2>1, SlotFacts DEF TickInv, TypeOK
  <2>8. FamilyInv'
    BY <2>0, <2>1, <2>4, SlotFacts DEF FamilyInv, FamilyInOrder, TypeOK
  <2>9. QED
    BY <2>2, <2>3, <2>5, <2>6, <2>7, <2>8
<1>7. QED
  BY <1>4, <1>5, <1>6 DEF WaitLoop

\* wait, called and woken.
LEMMA WaitStep ==
    ASSUME IInv, NEW c \in CPU, NEW s \in Slot, WaitCall(c, s) \/ WaitResume(c, s)
    PROVE  IInv'
<1>1. CASE WaitCall(c, s)
  <2>1. state[s] = "RUNNING"
    BY <1>1, RunningIs DEF WaitCall
  <2>2. QED
    BY <1>1, <2>1, WaitLoopStep DEF WaitCall, Running
<1>2. CASE WaitResume(c, s)
  <2>1. pc[s] = "user"
    BY <1>2 DEF WaitResume, SwitchedTo, IInv, SlotInv
  <2>2. QED
    BY <1>2, <2>1, WaitLoopStep DEF WaitResume, SwitchedTo
<1>3. QED
  BY <1>1, <1>2

\* kill marks a process and wakes it, wherever it sleeps.
LEMMA KillStep ==
    ASSUME IInv, NEW c \in CPU, NEW s \in Slot, NEW n, Kill(c, s, n)
    PROVE  IInv'
<1> USE DEF IInv
<1>1. PICK v \in Slot :
        /\ killed' = [killed EXCEPT ![v] = TRUE]
        /\ state' = [state EXCEPT ![v] = IF state[v] = "SLEEPING" THEN "RUNNABLE" ELSE state[v]]
  BY DEF Kill
<1>2. UNCHANGED <<ptlock, pid, parent, chan, nextpid, proc, pc, ctx, np, tickslock, due>>
  BY DEF Kill, Locked, code, clock
<1>3. /\ state' \in [Slot -> ProcState]
      /\ \A t \in Slot : state'[t] = state[t] \/ (state[t] = "SLEEPING" /\ state'[t] = "RUNNABLE")
  BY <1>1 DEF TypeOK, ProcState
<1>4. ptlock = NoCPU
  BY DEF Kill, Locked
<1>5. TypeOK'
  <2>1. killed' \in [Slot -> BOOLEAN]
    BY <1>1 DEF TypeOK
  <2>2. QED
    BY <2>1, <1>2, <1>3 DEF TypeOK
<1>6. CpuInv'
  BY <1>2, <1>3, <1>4, LockFree, ProcAssumption DEF CpuInv, TypeOK
<1>7. Alive' = Alive
  BY <1>3 DEF Alive
<1>8. SlotInv'
  BY <1>2, <1>3, <1>7 DEF SlotInv
<1>9. ForkInv'
  BY <1>2, <1>3 DEF ForkInv, TypeOK
<1>10. TickInv'
  BY <1>2, <1>3 DEF TickInv
<1>11. FamilyInv'
  BY <1>2, <1>3, <1>7 DEF FamilyInv, FamilyInOrder
<1>12. QED
  BY <1>5, <1>6, <1>8, <1>9, <1>10, <1>11

\* sys_sleep takes tickslock; it cannot have a tick to return for yet.
LEMMA SleepCallStep ==
    ASSUME IInv, NEW c \in CPU, NEW s \in Slot, SleepCall(c, s)
    PROVE  IInv'
<1> USE DEF IInv
<1>1. /\ pc[s] = "user" /\ tickslock = Null /\ tickslock' = s
      /\ pc' = [pc EXCEPT ![s] = "tickssleep"]
      /\ UNCHANGED <<state, pid, parent, chan, killed, nextpid, ptlock, proc, ctx, np, due>>
  BY DEF SleepCall, goto, table, cpus
<1>2. state[s] = "RUNNING" /\ s \in Alive /\ ctx[s] = "none"
  BY RunningIs DEF SleepCall
<1>3. TypeOK'
  BY <1>1 DEF TypeOK, PC
<1>4. CpuInv' /\ Alive' = Alive
  BY <1>1 DEF CpuInv, Alive
<1>5. SlotInv'
  BY <1>1, <1>2, <1>4 DEF SlotInv, TypeOK
<1>6. ForkInv'
  BY <1>1 DEF ForkInv, TypeOK
<1>7. TickInv'
  BY <1>1, <1>2, SlotFacts DEF TickInv, TypeOK
<1>8. FamilyInv'
  BY <1>1, <1>4 DEF FamilyInv, FamilyInOrder
<1>9. QED
  BY <1>3, <1>4, <1>5, <1>6, <1>7, <1>8

\* sleep: the process holds tickslock until it is SLEEPING.
LEMMA SleepStep ==
    ASSUME IInv, NEW c \in CPU, NEW s \in Slot, Sleep(c, s)
    PROVE  IInv'
<1> USE DEF IInv
<1>1. /\ proc[c] = s /\ pc[s] = "tickssleep" /\ ptlock = NoCPU /\ ptlock' = c /\ tickslock' = Null
      /\ chan' = [chan EXCEPT ![s] = Ticks] /\ state' = [state EXCEPT ![s] = "SLEEPING"]
      /\ ctx' = [ctx EXCEPT ![s] = "ticks"]
      /\ UNCHANGED <<pid, parent, killed, nextpid, proc, pc, np, due>>
  BY DEF Sleep, Running, LockedInto
<1>2. state[s] = "RUNNING" /\ s \in Alive /\ ctx[s] = "none" /\ \A d \in CPU : proc[d] = s => d = c
  BY RunningIs DEF Sleep
<1>3. tickslock = s /\ ~due[s]
  BY <1>1, <1>2 DEF TickInv
<1>4. TypeOK'
  BY <1>1 DEF TypeOK, ProcState, Context
<1>5. CpuInv'
  BY <1>1, <1>2, LockFree, SlotFacts, ProcAssumption DEF CpuInv, TypeOK
<1>6. Alive' = Alive
  BY <1>1, <1>2 DEF Alive, TypeOK
<1>7. SlotInv'
  BY <1>1, <1>2, <1>6 DEF SlotInv, TypeOK
<1>8. ForkInv'
  BY <1>1, <1>2 DEF ForkInv, TypeOK
<1>9. TickInv'
  BY <1>1, <1>2, <1>3, SlotFacts DEF TickInv, TypeOK
<1>10. FamilyInv'
  BY <1>1, <1>2, <1>6, SlotFacts DEF FamilyInv, FamilyInOrder, TypeOK
<1>11. QED
  BY <1>4, <1>5, <1>7, <1>8, <1>9, <1>10

\* sleep, woken.
LEMMA SleepResumeStep ==
    ASSUME IInv, NEW c \in CPU, NEW s \in Slot, SleepResume(c, s)
    PROVE  IInv'
<1> USE DEF IInv
<1>1. /\ proc[c] = s /\ ptlock = c /\ state[s] = "RUNNING" /\ ctx[s] = "ticks"
      /\ chan' = [chan EXCEPT ![s] = Null] /\ ptlock' = NoCPU
      /\ ctx' = [ctx EXCEPT ![s] = "none"] /\ pc' = [pc EXCEPT ![s] = "ticks"]
      /\ UNCHANGED <<state, pid, parent, killed, nextpid, proc, np, tickslock, due>>
  BY DEF SleepResume, SwitchedTo, goto, clock
<1>2. pc[s] = "tickssleep" /\ s \in Alive
  BY <1>1 DEF SlotInv, Alive
<1>3. TypeOK'
  BY <1>1 DEF TypeOK, Context, PC
<1>4. CpuInv'
  BY <1>1, SlotFacts, ProcAssumption DEF CpuInv, TypeOK
<1>5. SlotInv' /\ Alive' = Alive
  BY <1>1, <1>2 DEF SlotInv, TypeOK, Alive
<1>6. ForkInv'
  BY <1>1, <1>2 DEF ForkInv, TypeOK
<1>7. TickInv'
  BY <1>1, <1>2 DEF TickInv, TypeOK
<1>8. FamilyInv'
  BY <1>1, <1>5, SlotFacts DEF FamilyInv, FamilyInOrder, TypeOK
<1>9. QED
  BY <1>3, <1>4, <1>5, <1>6, <1>7, <1>8

\* sys_sleep tests again, with tickslock.
LEMMA SleepAgainStep ==
    ASSUME IInv, NEW c \in CPU, NEW s \in Slot, SleepAgain(c, s)
    PROVE  IInv'
<1> USE DEF IInv
<1>1. /\ pc[s] = "ticks" /\ tickslock = Null
      /\ UNCHANGED <<state, pid, parent, chan, killed, nextpid, ptlock, proc, ctx, np>>
  BY DEF SleepAgain, table, cpus
<1>2. state[s] = "RUNNING" /\ s \in Alive /\ ctx[s] = "none"
  BY RunningIs DEF SleepAgain
<1>3. CASE due[s] \/ killed[s]
  <2>1. due' = [due EXCEPT ![s] = FALSE] /\ pc' = [pc EXCEPT ![s] = "user"] /\ tickslock' = tickslock
    BY <1>3 DEF SleepAgain, goto
  <2>2. due' \in [Slot -> BOOLEAN] /\ ~due'[s] /\ \A t \in Slot \ {s} : due'[t] = due[t]
    BY <2>1 DEF TypeOK
  <2>3. TypeOK'
    BY <1>1, <2>1, <2>2 DEF TypeOK, PC
  <2>4. CpuInv' /\ Alive' = Alive
    BY <1>1 DEF CpuInv, Alive
  <2>5. SlotInv'
    BY <1>1, <1>2, <2>1, <2>4 DEF SlotInv, TypeOK
  <2>6. ForkInv'
    BY <1>1, <2>1 DEF ForkInv, TypeOK
  <2>7. TickInv'
    BY <1>1, <1>2, <2>1, <2>2, SlotFacts DEF TickInv, TypeOK
  <2>8. FamilyInv'
    BY <1>1, <2>4 DEF FamilyInv, FamilyInOrder
  <2>9. QED
    BY <2>3, <2>4, <2>5, <2>6, <2>7, <2>8
<1>4. CASE ~(due[s] \/ killed[s])
  <2>1. tickslock' = s /\ pc' = [pc EXCEPT ![s] = "tickssleep"] /\ due' = due /\ ~due[s]
    BY <1>4 DEF SleepAgain, goto
  <2>2. TypeOK'
    BY <1>1, <2>1 DEF TypeOK, PC
  <2>3. CpuInv' /\ Alive' = Alive
    BY <1>1 DEF CpuInv, Alive
  <2>4. SlotInv'
    BY <1>1, <1>2, <2>1, <2>3 DEF SlotInv, TypeOK
  <2>5. ForkInv'
    BY <1>1, <2>1 DEF ForkInv, TypeOK
  <2>6. TickInv'
    BY <1>1, <1>2, <2>1, SlotFacts DEF TickInv, TypeOK
  <2>7. FamilyInv'
    BY <1>1, <2>3 DEF FamilyInv, FamilyInOrder
  <2>8. QED
    BY <2>2, <2>3, <2>4, <2>5, <2>6, <2>7
<1>5. QED
  BY <1>3, <1>4

\* A tick wakes everyone asleep on &ticks, and counts for nobody else asleep.
LEMMA TickStep ==
    ASSUME IInv, Tick
    PROVE  IInv'
<1> USE DEF IInv
<1>1. /\ tickslock = Null /\ ptlock = NoCPU
      /\ UNCHANGED <<ptlock, pid, parent, chan, killed, nextpid, proc, pc, ctx, np, tickslock>>
  BY DEF Tick, Locked, code
<1>2. /\ state' \in [Slot -> ProcState]
      /\ \A t \in Slot : state'[t] = IF state[t] = "SLEEPING" /\ chan[t] = Ticks
                                     THEN "RUNNABLE" ELSE state[t]
  BY DEF Tick, wakeup1, TypeOK, ProcState
<1>3. \A t \in Slot : state'[t] = state[t] \/ (state[t] = "SLEEPING" /\ state'[t] = "RUNNABLE")
  BY <1>2
<1>4. /\ due' \in [Slot -> BOOLEAN]
      /\ \A t \in Slot : pc[t] \notin {"ticks", "tickssleep"} => ~due'[t]
  <2>1. PICK S \in SUBSET {s \in Slot : pc[s] \in {"ticks", "tickssleep"}} :
            due' = [s \in Slot |-> due[s] \/ s \in S]
    BY DEF Tick
  <2>2. due' \in [Slot -> BOOLEAN]
    BY <2>1, Zenon DEF TypeOK
  <2>3. ASSUME NEW t \in Slot, pc[t] \notin {"ticks", "tickssleep"} PROVE ~due'[t]
    <3>1. ~due[t]
      BY <2>3 DEF TickInv
    <3>2. t \notin S
      BY <2>1, <2>3
    <3>3. due'[t] = (due[t] \/ t \in S)
      BY <2>1
    <3>4. QED
      BY <3>1, <3>2, <3>3
  <2>4. QED
    BY <2>2, <2>3
<1>5. TypeOK'
  BY <1>1, <1>2, <1>4 DEF TypeOK
<1>6. CpuInv'
  BY <1>1, <1>3, LockFree, ProcAssumption DEF CpuInv, TypeOK
<1>7. Alive' = Alive
  BY <1>3 DEF Alive
<1>8. SlotInv'
  BY <1>1, <1>3, <1>7 DEF SlotInv
<1>9. ForkInv'
  BY <1>1, <1>3 DEF ForkInv, TypeOK
<1>10. TickInv'
  <2> SUFFICES ASSUME NEW t \in Slot PROVE TickInv!(t)'
    BY DEF TickInv
  <2>1. tickslock # t
    BY <1>1, SlotFacts
  <2>2. ~(state'[t] = "SLEEPING" /\ chan'[t] = Ticks)
    BY <1>1, <1>2
  <2>3. QED
    BY <2>1, <2>2, <1>1, <1>4 DEF TickInv
<1>11. FamilyInv'
  BY <1>1, <1>3, <1>7 DEF FamilyInv, FamilyInOrder
<1>12. QED
  BY <1>5, <1>6, <1>8, <1>9, <1>10, <1>11

-----------------------------------------------------------------------------
\* Every step preserves the invariant.
LEMMA NextIInv == IInv /\ [Next]_vars => IInv'
<1> SUFFICES ASSUME IInv, [Next]_vars PROVE IInv'
  OBVIOUS
<1>1. ASSUME NEW c \in CPU, Scheduler(c) PROVE IInv'
  <2>1. CASE SchedulerAcquire(c)
    BY <2>1, ScanStep DEF SchedulerAcquire
  <2>2. CASE SchedulerReturn(c)
    BY <2>2, ScanStep DEF SchedulerReturn
  <2>3. QED
    BY <1>1, <2>1, <2>2 DEF Scheduler
<1>2. ASSUME NEW c \in CPU, NEW s \in Slot, Resume(c, s) PROVE IInv'
  BY <1>2, ResumeReleaseStep, WaitStep, SleepResumeStep DEF Resume
<1>3. ASSUME NEW c \in CPU, NEW s \in Slot, Kernel(c, s) PROVE IInv'
  BY <1>3, ForkFailStep, ForkCopyStep, ForkRunnableStep, ExitStep, SleepStep, SleepAgainStep
     DEF Kernel
<1>4. ASSUME NEW c \in CPU, NEW s \in Slot, Syscall(c, s) PROVE IInv'
  BY <1>4, ForkAllocStep, ExitCallStep, WaitStep, KillStep, SleepCallStep DEF Syscall
<1>5. CASE Next
  BY <1>1, <1>2, <1>3, <1>4, <1>5, YieldStep, TickStep DEF Next
<1>6. CASE UNCHANGED vars
  <2>1. UNCHANGED <<state, pid, parent, chan, killed, nextpid, ptlock, proc, pc, ctx, np,
                    tickslock, due>>
    BY <1>6 DEF vars, table, cpus, code, clock
  <2>2. Alive' = Alive
    BY <2>1 DEF Alive
  <2>3. QED
    BY <2>1, <2>2 DEF IInv, TypeOK, CpuInv, SlotInv, ForkInv, TickInv, FamilyInv, FamilyInOrder
<1>7. QED
  BY <1>5, <1>6

\* The inductive invariant holds throughout.
LEMMA Invariant == Spec => []IInv
BY InitIInv, NextIInv, PTL DEF Spec

\* Every field of the process table and every register of the CPUs keeps its
\* type, and every pid in the table has been issued by allocproc.
THEOREM TypeCorrect == Spec => []TypeOK
<1>1. IInv => TypeOK
  BY DEF IInv
<1>2. QED
  BY <1>1, Invariant, PTL

\* Whatever exit, wait, fork and the schedulers of any number of CPUs do, no
\* two CPUs share a kernel stack, no CPU is on the stack of an entry that
\* wait freed or fork reused, and whatever the scheduler may pick has a
\* context to resume (exit and sched in proc.c hold ptable.lock into swtch).
THEOREM StacksOwned == Spec => []StackOwned
<1>1. IInv => StackOwned
  <2> SUFFICES ASSUME IInv PROVE StackOwned
    OBVIOUS
  <2>1. ASSUME NEW c \in CPU, proc[c] # Null
        PROVE  /\ \A d \in CPU \ {c} : proc[d] # proc[c]
               /\ state[proc[c]] \notin {"UNUSED", "EMBRYO"}
               /\ state[proc[c]] # "RUNNING" => ptlock = c
    BY <2>1 DEF IInv, CpuInv
  <2>2. QED
    BY <2>1 DEF StackOwned, IInv, SlotInv
<1>2. QED
  BY <1>1, Invariant, PTL

\* sleep's order of locks loses no wakeup: a process asleep in sys_sleep has
\* no tick to return for (sleep, sys_sleep and the clock interrupt of trap).
THEOREM NoLostTick == Spec => []TickNoticed
<1>1. IInv => TickNoticed
  BY DEF IInv, TickInv, TickNoticed
<1>2. QED
  BY <1>1, Invariant, PTL

\* Parents are alive, nobody sleeps in wait beside a zombie child, and pids in
\* use are distinct, for any table and any interleaving of fork, exit's
\* reparenting, wait and kill.
THEOREM Family == Spec => []FamilyInOrder
<1>1. IInv => FamilyInOrder
  BY DEF IInv, FamilyInv
<1>2. QED
  BY <1>1, Invariant, PTL
=============================================================================
