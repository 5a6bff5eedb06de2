--------------------------- MODULE SpinlockProofs ---------------------------
(***************************************************************************)
(* Proofs about Spinlock.tla, for any set of CPUs and any finite set of    *)
(* locks.                                                                  *)
(***************************************************************************)
EXTENDS Spinlock, FiniteSetTheorems, TLAPS

\* A pushcli that no held lock accounts for: between pushcli and the xchg
\* won, and between the xchg of release and its popcli.
Extra(c) == IF pc[c] \in {"xchg", "setcpu", "popcli"} THEN 1 ELSE 0

\* ncli counts the locks held; with inintr it decides the interrupt flag.
CountInv(c) ==
    /\ ncli[c] = Cardinality(held[c]) + Extra(c)
    /\ fl_if[c] <=> (ncli[c] = 0 /\ ~inintr[c])
    /\ ncli[c] > 0 => (intena[c] <=> ~inintr[c])

\* Where an activation is, and what that says about its operand.
FrameInv(c) ==
    /\ pc[c] # "panic"
    /\ pc[c] = "cli" => (eflags[c] <=> fl_if[c])
    /\ pc[c] \in {"xchg", "setcpu"} => lk[c] \in Lock
    /\ pc[c] \in {"cli", "xchg", "setcpu"} => lk[c] \notin held[c]
    /\ pc[c] = "unlock" => lk[c] \in held[c]

\* An interrupted activation held nothing and was at most inside pushcli.
SavedInv(c) ==
    /\ saved[c].pc \in {"run", "cli"} /\ saved[c].held = {}
    /\ saved[c].pc = "cli" => saved[c].eflags

\* The two words of a lock agree with who holds it.
LockInv(c) ==
    \A l \in Lock :
        /\ l \in Won(c) => locked[l]
        /\ l \in Won(c) => \A d \in CPU \ {c} : l \notin Won(d)
        /\ owner[l] = c <=> (l \in held[c] /\ ~(pc[c] = "unlock" /\ lk[c] = l))

IInv ==
    /\ TypeOK
    /\ \A c \in CPU : CountInv(c) /\ FrameInv(c) /\ SavedInv(c) /\ LockInv(c)

-----------------------------------------------------------------------------
\* The locks of an activation are finitely many, so they can be counted.
LEMMA HeldFinite ==
    ASSUME TypeOK, NEW c \in CPU
    PROVE  IsFiniteSet(held[c]) /\ Cardinality(held[c]) \in Nat
<1>1. held[c] \subseteq Lock
  BY DEF TypeOK
<1>2. QED
  BY <1>1, SpinlockAssumption, FS_Subset, FS_CardinalityType

\* The initial state satisfies the invariant.
LEMMA InitIInv == Init => IInv
<1> SUFFICES ASSUME Init PROVE IInv
  OBVIOUS
<1>1. TypeOK
  BY SpinlockAssumption DEF Init, TypeOK, Frame, Idle, PC
<1>2. ASSUME NEW c \in CPU
      PROVE  CountInv(c) /\ FrameInv(c) /\ SavedInv(c) /\ LockInv(c)
  <2>1. held[c] = {} /\ pc[c] = "run" /\ ncli[c] = 0 /\ Cardinality({}) = 0
    BY FS_EmptySet DEF Init
  <2>2. fl_if[c] /\ ~inintr[c]
    BY DEF Init
  <2>3. CountInv(c)
    BY <2>1, <2>2 DEF CountInv, Extra
  <2>4. FrameInv(c) /\ SavedInv(c)
    BY DEF Init, FrameInv, SavedInv, Idle
  <2>5. LockInv(c)
    BY SpinlockAssumption DEF Init, LockInv, Won
  <2>6. QED
    BY <2>3, <2>4, <2>5
<1>3. QED
  BY <1>1, <1>2 DEF IInv

\* Every action keeps the types.
LEMMA TypeStep ==
    ASSUME IInv, [Next]_vars
    PROVE  TypeOK'
<1> USE DEF TypeOK, PC, goto, lockVars, cliVars, intrVars
<1> TypeOK
  BY DEF IInv
<1>1. ASSUME NEW c \in CPU, NEW l \in Lock \cup {NoLock}, PushcliRead(c, l)
      PROVE  TypeOK'
  BY <1>1 DEF PushcliRead
<1>2. ASSUME NEW c \in CPU, PushcliCli(c) PROVE TypeOK'
  BY <1>2 DEF PushcliCli
<1>3. ASSUME NEW c \in CPU, AcquireXchg(c) PROVE TypeOK'
  BY <1>3 DEF AcquireXchg
<1>4. ASSUME NEW c \in CPU, AcquireSetCpu(c) PROVE TypeOK'
  <2>1. lk[c] \in Lock
    BY <1>4 DEF AcquireSetCpu, IInv, FrameInv
  <2>2. QED
    BY <1>4, <2>1 DEF AcquireSetCpu
<1>5. ASSUME NEW c \in CPU, NEW l \in Lock, ReleaseClearCpu(c, l) PROVE TypeOK'
  BY <1>5 DEF ReleaseClearCpu
<1>6. ASSUME NEW c \in CPU, ReleaseXchg(c) PROVE TypeOK'
  BY <1>6 DEF ReleaseXchg
<1>7. ASSUME NEW c \in CPU, Popcli(c) PROVE TypeOK'
  BY <1>7 DEF Popcli
<1>8. ASSUME NEW c \in CPU, Interrupt(c) PROVE TypeOK'
  BY <1>8 DEF Interrupt, Frame
<1>9. ASSUME NEW c \in CPU, Iret(c) PROVE TypeOK'
  BY <1>9, SpinlockAssumption DEF Iret, Idle, Frame
<1>10. CASE UNCHANGED vars
  BY <1>10 DEF vars
<1>11. QED
  BY <1>1, <1>2, <1>3, <1>4, <1>5, <1>6, <1>7, <1>8, <1>9, <1>10 DEF Next

\* A CPU whose registers and activation a step leaves alone keeps its part of
\* the invariant.
LEMMA OtherCPU ==
    ASSUME NEW d \in CPU, CountInv(d), FrameInv(d), SavedInv(d),
           UNCHANGED <<fl_if[d], ncli[d], intena[d], pc[d], lk[d], eflags[d],
                       held[d], inintr[d], saved[d]>>
    PROVE  CountInv(d)' /\ FrameInv(d)' /\ SavedInv(d)'
<1>1. CountInv(d)'
  BY DEF CountInv, Extra
<1>2. FrameInv(d)' /\ SavedInv(d)'
  BY DEF FrameInv, SavedInv
<1>3. QED
  BY <1>1, <1>2

\* A step that changes neither lock word, nor who holds or has won what,
\* nor who is inside release, keeps the agreement of locks and holders.
LEMMA LocksAlone ==
    ASSUME IInv, UNCHANGED <<locked, owner>>, UNCHANGED held,
           \A d \in CPU : /\ pc[d] = "setcpu" <=> pc'[d] = "setcpu"
                          /\ pc[d] = "unlock" <=> pc'[d] = "unlock"
                          /\ pc[d] \in {"setcpu", "unlock"} => lk'[d] = lk[d]
    PROVE  \A c \in CPU : LockInv(c)'
<1>1. \A d \in CPU : Won(d)' = Won(d)
  BY DEF Won
<1>2. \A c \in CPU : LockInv(c)
  BY DEF IInv
<1>3. QED
  BY <1>1, <1>2 DEF LockInv

LocalInv(c) == CountInv(c) /\ FrameInv(c) /\ SavedInv(c)

\* pushcli reads the flag the activation runs with.
LEMMA PushcliReadStep ==
    ASSUME IInv, NEW c \in CPU, NEW l \in Lock \cup {NoLock}, PushcliRead(c, l)
    PROVE  \A d \in CPU : LocalInv(d)' /\ LockInv(d)'
<1> USE DEF PushcliRead, goto, lockVars, cliVars, intrVars
<1> TypeOK /\ \A d \in CPU : CountInv(d) /\ FrameInv(d) /\ SavedInv(d)
  BY DEF IInv
<1>1. pc[c] = "run" /\ pc'[c] = "cli" /\ lk'[c] = l /\ eflags'[c] = fl_if[c]
  BY DEF TypeOK
<1>2. l \notin held[c]
  BY SpinlockAssumption DEF TypeOK
<1>3. CountInv(c)'
  BY <1>1 DEF CountInv, Extra
<1>4. FrameInv(c)' /\ SavedInv(c)'
  BY <1>1, <1>2 DEF FrameInv, SavedInv
<1>5. \A d \in CPU \ {c} : CountInv(d)' /\ FrameInv(d)' /\ SavedInv(d)'
  BY OtherCPU DEF TypeOK
<1>6. \A d \in CPU : LockInv(d)'
  BY LocksAlone, <1>1 DEF TypeOK
<1>7. QED
  BY <1>3, <1>4, <1>5, <1>6 DEF LocalInv

\* The first pushcli of a nest saves the flag; acquire's check never fires.
LEMMA PushcliCliStep ==
    ASSUME IInv, NEW c \in CPU, PushcliCli(c)
    PROVE  \A d \in CPU : LocalInv(d)' /\ LockInv(d)'
<1> USE DEF PushcliCli, goto, lockVars, cliVars, intrVars
<1> TypeOK /\ \A d \in CPU : CountInv(d) /\ FrameInv(d) /\ SavedInv(d) /\ LockInv(d)
  BY DEF IInv
<1>1. pc[c] = "cli" /\ lk[c] \notin held[c] /\ lk'[c] = lk[c] /\ held'[c] = held[c]
  BY DEF FrameInv
<1>2. lk[c] # NoLock => lk[c] \in Lock /\ ~holding(c, lk[c])
  BY <1>1 DEF LockInv, holding, TypeOK
<1>3. pc'[c] \in {"popcli", "xchg"} /\ (pc'[c] = "xchg" => lk[c] \in Lock)
  BY <1>2 DEF TypeOK
<1>4. ncli'[c] = ncli[c] + 1 /\ ~fl_if'[c] /\ inintr'[c] = inintr[c]
  BY DEF TypeOK
<1>5. intena'[c] <=> ~inintr[c]
  <2>1. CASE ncli[c] = 0
    <3>1. intena'[c] = eflags[c]
      BY <2>1 DEF TypeOK
    <3>2. QED
      BY <2>1, <3>1, <1>1 DEF CountInv, FrameInv
  <2>2. CASE ncli[c] # 0
    <3>1. intena'[c] = intena[c] /\ ncli[c] > 0
      BY <2>2 DEF TypeOK
    <3>2. QED
      BY <3>1 DEF CountInv
  <2>3. QED
    BY <2>1, <2>2
<1>6. ncli'[c] = Cardinality(held'[c]) + Extra(c)' /\ ncli'[c] > 0
  BY <1>1, <1>3, <1>4, HeldFinite DEF CountInv, Extra
<1>7. CountInv(c)'
  BY <1>4, <1>5, <1>6 DEF CountInv
<1>8. FrameInv(c)' /\ SavedInv(c)'
  BY <1>1, <1>3 DEF FrameInv, SavedInv
<1>9. \A d \in CPU \ {c} : CountInv(d)' /\ FrameInv(d)' /\ SavedInv(d)'
  BY OtherCPU DEF TypeOK
<1>10. \A d \in CPU : LockInv(d)'
  BY LocksAlone, <1>1, <1>3 DEF TypeOK
<1>11. QED
  BY <1>7, <1>8, <1>9, <1>10 DEF LocalInv

\* The xchg of acquire wins a lock nobody had won.
LEMMA AcquireXchgStep ==
    ASSUME IInv, NEW c \in CPU, AcquireXchg(c)
    PROVE  \A d \in CPU : LocalInv(d)' /\ LockInv(d)'
<1> USE DEF AcquireXchg, goto, lockVars, cliVars, intrVars
<1> TypeOK /\ \A d \in CPU : CountInv(d) /\ FrameInv(d) /\ SavedInv(d) /\ LockInv(d)
  BY DEF IInv
<1>1. pc[c] = "xchg" /\ pc'[c] = "setcpu" /\ lk[c] \in Lock /\ lk[c] \notin held[c]
  BY DEF FrameInv, TypeOK
<1>2. CountInv(c)'
  BY <1>1 DEF CountInv, Extra
<1>3. FrameInv(c)' /\ SavedInv(c)'
  BY <1>1 DEF FrameInv, SavedInv
<1>4. \A d \in CPU \ {c} : CountInv(d)' /\ FrameInv(d)' /\ SavedInv(d)'
  BY OtherCPU DEF TypeOK
<1>5. \A d \in CPU : lk[c] \notin Won(d)
  BY <1>1 DEF LockInv
<1>6. Won(c)' = Won(c) \cup {lk[c]} /\ \A d \in CPU \ {c} : Won(d)' = Won(d)
  BY <1>1 DEF Won, TypeOK
<1>7. locked'[lk[c]] /\ \A l \in Lock \ {lk[c]} : locked'[l] = locked[l]
  BY <1>1 DEF TypeOK
<1>8. \A d \in CPU : LockInv(d)'
  BY <1>1, <1>5, <1>6, <1>7 DEF LockInv, TypeOK
<1>9. QED
  BY <1>2, <1>3, <1>4, <1>8 DEF LocalInv

\* acquire returns: the lock won is a lock held, and the count agrees.
LEMMA AcquireSetCpuStep ==
    ASSUME IInv, NEW c \in CPU, AcquireSetCpu(c)
    PROVE  \A d \in CPU : LocalInv(d)' /\ LockInv(d)'
<1> USE DEF AcquireSetCpu, goto, lockVars, cliVars, intrVars
<1> TypeOK /\ \A d \in CPU : CountInv(d) /\ FrameInv(d) /\ SavedInv(d) /\ LockInv(d)
  BY DEF IInv
<1>1. pc[c] = "setcpu" /\ pc'[c] = "run" /\ lk[c] \in Lock /\ lk[c] \notin held[c]
      /\ held'[c] = held[c] \cup {lk[c]}
  BY DEF FrameInv, TypeOK
<1>2. Cardinality(held'[c]) = Cardinality(held[c]) + 1
  BY <1>1, HeldFinite, FS_AddElement
<1>3. CountInv(c)'
  BY <1>1, <1>2, HeldFinite DEF CountInv, Extra
<1>4. FrameInv(c)' /\ SavedInv(c)'
  BY <1>1 DEF FrameInv, SavedInv
<1>5. \A d \in CPU \ {c} : CountInv(d)' /\ FrameInv(d)' /\ SavedInv(d)'
  BY OtherCPU DEF TypeOK
<1>6. \A d \in CPU : Won(d)' = Won(d)
  BY <1>1 DEF Won, TypeOK
<1>7. owner'[lk[c]] = c /\ \A l \in Lock \ {lk[c]} : owner'[l] = owner[l]
  BY <1>1 DEF TypeOK
<1>8. \A d \in CPU \ {c} : lk[c] \notin held[d]
  BY <1>1 DEF LockInv, Won
<1>9. \A d \in CPU : LockInv(d)'
  BY <1>1, <1>6, <1>7, <1>8 DEF LockInv, TypeOK
<1>10. QED
  BY <1>3, <1>4, <1>5, <1>9 DEF LocalInv

\* release finds the lock its own and forgets the owner.
LEMMA ReleaseClearCpuStep ==
    ASSUME IInv, NEW c \in CPU, NEW l \in Lock, ReleaseClearCpu(c, l)
    PROVE  \A d \in CPU : LocalInv(d)' /\ LockInv(d)'
<1> USE DEF ReleaseClearCpu, goto, lockVars, cliVars, intrVars
<1> TypeOK /\ \A d \in CPU : CountInv(d) /\ FrameInv(d) /\ SavedInv(d) /\ LockInv(d)
  BY DEF IInv
<1>1. pc[c] = "run" /\ l \in held[c] /\ lk'[c] = l
  BY DEF TypeOK
<1>2. holding(c, l)
  BY <1>1 DEF LockInv, holding, Won
<1>3. pc'[c] = "unlock" /\ owner'[l] = NoCPU
      /\ \A k \in Lock \ {l} : owner'[k] = owner[k]
  BY <1>2 DEF TypeOK
<1>4. CountInv(c)'
  BY <1>1, <1>3 DEF CountInv, Extra
<1>5. FrameInv(c)' /\ SavedInv(c)'
  BY <1>1, <1>3 DEF FrameInv, SavedInv
<1>6. \A d \in CPU \ {c} : CountInv(d)' /\ FrameInv(d)' /\ SavedInv(d)'
  BY OtherCPU DEF TypeOK
<1>7. \A d \in CPU : Won(d)' = Won(d)
  BY <1>1, <1>3 DEF Won, TypeOK
<1>8. \A d \in CPU \ {c} : l \notin held[d]
  BY <1>1 DEF LockInv, Won
<1>9. \A d \in CPU : LockInv(d)'
  BY <1>1, <1>3, <1>7, <1>8, SpinlockAssumption DEF LockInv, TypeOK
<1>10. QED
  BY <1>4, <1>5, <1>6, <1>9 DEF LocalInv

\* The xchg of release gives the lock back; one popcli is left to do.
LEMMA ReleaseXchgStep ==
    ASSUME IInv, NEW c \in CPU, ReleaseXchg(c)
    PROVE  \A d \in CPU : LocalInv(d)' /\ LockInv(d)'
<1> USE DEF ReleaseXchg, goto, lockVars, cliVars, intrVars
<1> TypeOK /\ \A d \in CPU : CountInv(d) /\ FrameInv(d) /\ SavedInv(d) /\ LockInv(d)
  BY DEF IInv
<1>1. pc[c] = "unlock" /\ pc'[c] = "popcli" /\ lk[c] \in held[c] /\ lk[c] \in Lock
      /\ held'[c] = held[c] \ {lk[c]}
  BY DEF FrameInv, TypeOK
<1>2. Cardinality(held'[c]) = Cardinality(held[c]) - 1
  BY <1>1, HeldFinite, FS_RemoveElement
<1>3. CountInv(c)'
  BY <1>1, <1>2, HeldFinite DEF CountInv, Extra
<1>4. FrameInv(c)' /\ SavedInv(c)'
  BY <1>1 DEF FrameInv, SavedInv
<1>5. \A d \in CPU \ {c} : CountInv(d)' /\ FrameInv(d)' /\ SavedInv(d)'
  BY OtherCPU DEF TypeOK
<1>6. Won(c)' = Won(c) \ {lk[c]} /\ \A d \in CPU \ {c} : Won(d)' = Won(d)
  BY <1>1 DEF Won, TypeOK
<1>7. \A l \in Lock \ {lk[c]} : locked'[l] = locked[l]
  BY <1>1 DEF TypeOK
<1>8. \A d \in CPU \ {c} : lk[c] \notin Won(d)
  BY <1>1 DEF LockInv, Won
<1>9. \A d \in CPU : LockInv(d)'
  BY <1>1, <1>6, <1>7, <1>8 DEF LockInv, TypeOK
<1>10. QED
  BY <1>3, <1>4, <1>5, <1>9 DEF LocalInv

\* popcli never finds the flag set or the count zero.
LEMMA PopcliStep ==
    ASSUME IInv, NEW c \in CPU, Popcli(c)
    PROVE  \A d \in CPU : LocalInv(d)' /\ LockInv(d)'
<1> USE DEF Popcli, goto, lockVars, cliVars, intrVars
<1> TypeOK /\ \A d \in CPU : CountInv(d) /\ FrameInv(d) /\ SavedInv(d)
  BY DEF IInv
<1>1. pc[c] = "popcli" /\ held'[c] = held[c] /\ inintr'[c] = inintr[c]
      /\ intena'[c] = intena[c]
  OBVIOUS
<1>2. ncli[c] = Cardinality(held[c]) + 1 /\ ncli[c] > 0
  BY <1>1, HeldFinite DEF CountInv, Extra
<1>3. ~fl_if[c] /\ ncli[c] # 0
  BY <1>2 DEF CountInv
<1>4. ncli'[c] = ncli[c] - 1 /\ pc'[c] = "run"
  BY <1>3 DEF TypeOK
<1>5. fl_if'[c] <=> (ncli[c] = 1 /\ intena[c])
  BY <1>3 DEF TypeOK
<1>6. intena[c] <=> ~inintr[c]
  BY <1>2 DEF CountInv
<1>7. ncli'[c] = Cardinality(held'[c]) + Extra(c)' /\ (ncli'[c] = 0 <=> ncli[c] = 1)
  BY <1>1, <1>2, <1>4, HeldFinite DEF Extra
<1>8. CountInv(c)'
  BY <1>1, <1>5, <1>6, <1>7 DEF CountInv
<1>9. FrameInv(c)' /\ SavedInv(c)'
  BY <1>4 DEF FrameInv, SavedInv
<1>10. \A d \in CPU \ {c} : CountInv(d)' /\ FrameInv(d)' /\ SavedInv(d)'
  <2> TAKE d \in CPU \ {c}
  <2>1. UNCHANGED <<fl_if[d], ncli[d], intena[d], pc[d], lk[d], eflags[d],
                       held[d], inintr[d], saved[d]>>
    BY <1>3 DEF TypeOK
  <2>2. QED
    BY <2>1, OtherCPU
<1>11. \A d \in CPU : LockInv(d)'
  BY LocksAlone, <1>1, <1>4 DEF TypeOK
<1>12. QED
  BY <1>8, <1>9, <1>10, <1>11 DEF LocalInv

\* An interrupt finds an activation that holds nothing: the flag is set.
LEMMA InterruptStep ==
    ASSUME IInv, NEW c \in CPU, Interrupt(c)
    PROVE  \A d \in CPU : LocalInv(d)' /\ LockInv(d)'
<1> USE DEF Interrupt, goto, lockVars, cliVars, intrVars
<1> TypeOK /\ \A d \in CPU : CountInv(d) /\ FrameInv(d) /\ SavedInv(d)
  BY DEF IInv
<1>1. ncli[c] = 0 /\ ~inintr[c] /\ fl_if[c]
  BY DEF CountInv
<1>2. Cardinality(held[c]) = 0 /\ Extra(c) = 0
  BY <1>1, HeldFinite DEF CountInv, Extra
<1>3. held[c] = {}
  BY <1>2, HeldFinite, FS_EmptySet
<1>4. pc[c] \in {"run", "cli"} /\ (pc[c] = "cli" => eflags[c])
  BY <1>1, <1>2, <1>3 DEF FrameInv, Extra, TypeOK, PC
<1>5. held' = held /\ pc'[c] = "run" /\ ~fl_if'[c] /\ inintr'[c] /\ ncli'[c] = 0
  BY <1>1, <1>3 DEF TypeOK
<1>6. saved'[c] = [pc |-> pc[c], lk |-> lk[c], eflags |-> eflags[c], held |-> held[c]]
  BY DEF TypeOK
<1>7. CountInv(c)'
  BY <1>2, <1>5 DEF CountInv, Extra
<1>8. FrameInv(c)'
  BY <1>5 DEF FrameInv
<1>9. SavedInv(c)'
  BY <1>3, <1>4, <1>6 DEF SavedInv
<1>10. \A d \in CPU \ {c} : CountInv(d)' /\ FrameInv(d)' /\ SavedInv(d)'
  BY OtherCPU DEF TypeOK
<1>11. \A d \in CPU : LockInv(d)'
  BY LocksAlone, <1>4, <1>5 DEF TypeOK
<1>12. QED
  BY <1>7, <1>8, <1>9, <1>10, <1>11 DEF LocalInv

\* iret resumes what the interrupt suspended, with the flag set again.
LEMMA IretStep ==
    ASSUME IInv, NEW c \in CPU, Iret(c)
    PROVE  \A d \in CPU : LocalInv(d)' /\ LockInv(d)'
<1> USE DEF Iret, goto, lockVars, cliVars, intrVars
<1> TypeOK /\ \A d \in CPU : CountInv(d) /\ FrameInv(d) /\ SavedInv(d)
  BY DEF IInv
<1>1. pc[c] = "run" /\ held[c] = {} /\ saved[c].held = {}
      /\ saved[c].pc \in {"run", "cli"} /\ (saved[c].pc = "cli" => saved[c].eflags)
  BY DEF SavedInv
<1>2. held' = held /\ fl_if'[c] /\ ~inintr'[c] /\ pc'[c] = saved[c].pc
      /\ eflags'[c] = saved[c].eflags /\ saved'[c] = Idle
  BY <1>1 DEF TypeOK
<1>3. ncli'[c] = ncli[c] /\ ncli[c] = 0 /\ Cardinality(held[c]) = 0
  <2>1. Cardinality(held[c]) = 0
    BY <1>1, FS_EmptySet
  <2>2. ncli[c] = Cardinality(held[c]) + Extra(c) /\ Extra(c) = 0
    BY <1>1 DEF CountInv, Extra
  <2>3. QED
    BY <2>1, <2>2
<1>4. CountInv(c)'
  BY <1>1, <1>2, <1>3 DEF CountInv, Extra
<1>5. FrameInv(c)'
  BY <1>1, <1>2 DEF FrameInv
<1>6. SavedInv(c)'
  BY <1>2 DEF SavedInv, Idle
<1>7. \A d \in CPU \ {c} : CountInv(d)' /\ FrameInv(d)' /\ SavedInv(d)'
  BY OtherCPU DEF TypeOK
<1>8. \A d \in CPU : LockInv(d)'
  BY LocksAlone, <1>1, <1>2 DEF TypeOK
<1>9. QED
  BY <1>4, <1>5, <1>6, <1>7, <1>8 DEF LocalInv

\* The invariant is inductive.
LEMMA NextIInv == IInv /\ [Next]_vars => IInv'
<1> SUFFICES ASSUME IInv, [Next]_vars PROVE IInv'
  OBVIOUS
<1>1. CASE UNCHANGED vars
  BY <1>1 DEF vars, IInv, TypeOK, CountInv, Extra, FrameInv, SavedInv, LockInv, Won
<1>2. CASE Next
  <2>1. \A d \in CPU : LocalInv(d)' /\ LockInv(d)'
    BY <1>2, PushcliReadStep, PushcliCliStep, AcquireXchgStep, AcquireSetCpuStep,
       ReleaseClearCpuStep, ReleaseXchgStep, PopcliStep, InterruptStep, IretStep
       DEF Next
  <2>2. QED
    BY <2>1, TypeStep DEF IInv, LocalInv
<1>3. QED
  BY <1>1, <1>2

\* The invariant holds in every reachable state.
THEOREM Invariant == Spec => []IInv
BY InitIInv, NextIInv, PTL DEF Spec

\* The lock words and the per-CPU state of spinlock.c keep their types.
THEOREM TypeCorrect == Spec => []TypeOK
<1>1. IInv => TypeOK
  BY DEF IInv
<1>2. QED
  BY <1>1, Invariant, PTL

-----------------------------------------------------------------------------
\* acquire and release give mutual exclusion for any number of CPUs and locks.
THEOREM LocksExclude == Spec => []MutualExclusion
<1>1. IInv => MutualExclusion
  <2> SUFFICES ASSUME IInv, NEW c \in CPU, NEW l \in HeldBy(c)
               PROVE  locked[l] /\ \A d \in CPU \ {c} : l \notin HeldBy(d)
    BY DEF MutualExclusion
  <2>1. \A d \in CPU : HeldBy(d) = Won(d)
    BY DEF IInv, SavedInv, HeldBy
  <2>2. l \in Won(c) /\ l \in Lock
    BY <2>1 DEF IInv, TypeOK, FrameInv, Won
  <2>3. QED
    BY <2>1, <2>2 DEF IInv, LockInv
<1>2. QED
  BY <1>1, Invariant, PTL

\* A CPU that holds or spins for a lock cannot be interrupted.
THEOREM NoInterruptWhileHolding == Spec => []HoldingMeansIntrOff
<1>1. IInv => HoldingMeansIntrOff
  <2> SUFFICES ASSUME IInv, NEW c \in CPU
               PROVE  /\ HeldBy(c) # {} \/ pc[c] \in {"xchg", "unlock"} => ~fl_if[c]
                      /\ saved[c].held = {} /\ saved[c].pc \in {"run", "cli"}
    BY DEF HoldingMeansIntrOff
  <2> TypeOK /\ CountInv(c) /\ FrameInv(c) /\ SavedInv(c)
    BY DEF IInv
  <2>1. ASSUME fl_if[c] PROVE HeldBy(c) = {} /\ pc[c] \notin {"xchg", "unlock"}
    <3>1. ncli[c] = 0
      BY <2>1 DEF CountInv
    <3>2. Cardinality(held[c]) = 0 /\ Extra(c) = 0
      BY <3>1, HeldFinite DEF CountInv, Extra
    <3>3. held[c] = {}
      BY <3>2, HeldFinite, FS_EmptySet
    <3>4. QED
      BY <3>2, <3>3 DEF Extra, HeldBy, Won, FrameInv, SavedInv
  <2>2. QED
    BY <2>1 DEF SavedInv
<1>2. QED
  BY <1>1, Invariant, PTL

\* pushcli and popcli nest: the outermost popcli restores the flag.
THEOREM FlagIsRestored == Spec => []FlagRestored
<1>1. IInv => FlagRestored
  <2> SUFFICES ASSUME IInv, NEW c \in CPU
               PROVE  /\ inintr[c] => ~fl_if[c]
                      /\ pc[c] = "run" /\ held[c] = {} => (fl_if[c] <=> ~inintr[c])
    BY DEF FlagRestored
  <2>1. CountInv(c)
    BY DEF IInv
  <2>2. ASSUME pc[c] = "run", held[c] = {} PROVE ncli[c] = 0
    BY <2>1, <2>2, FS_EmptySet DEF CountInv, Extra
  <2>3. QED
    BY <2>1, <2>2 DEF CountInv
<1>2. QED
  BY <1>1, Invariant, PTL

\* None of the panics of acquire, release and popcli can happen.
THEOREM PanicFree == Spec => []NoPanic
<1>1. IInv => NoPanic
  BY DEF IInv, FrameInv, NoPanic
<1>2. QED
  BY <1>1, Invariant, PTL
=============================================================================
