----------------------------- MODULE PipeProofs -----------------------------
(***************************************************************************)
(* Proofs about Pipe.tla, for any number of readers and writers, any size  *)
(* of buffer and any width of the counters that is a multiple of it: no    *)
(* wakeup is lost, a freed pipe is out of use, and a pipe implements a     *)
(* bounded FIFO queue.                                                     *)
(***************************************************************************)
EXTENDS Pipe, SequenceTheorems, TLAPS

\* p->lock is held in the loops of pipewrite and piperead and up to sleep; a
\* process outside them has no loop counter.
LockInv ==
    /\ \A p \in Proc : pc[p] = "idle" => i[p] = 0
    /\ \A p \in Proc : lock = p <=> pc[p] \in {"loop", "copy", "sleep"}
    /\ \A p \in Writer : pc[p] # "copy"

\* An end is open until its last holder has run pipeclose.
EndsInv ==
    /\ \A p \in Proc : isopen[p] <=> pc[p] \notin {"close", "closed"}
    /\ \A p, o \in Reader : pc[p] = "close" /\ o # p => pc[o] = "closed"
    /\ \A p, o \in Writer : pc[p] = "close" /\ o # p => pc[o] = "closed"
    /\ ~readopen => \A p \in Reader : pc[p] = "closed"
    /\ ~writeopen => \A p \in Writer : pc[p] = "closed"
    /\ freed <=> ~readopen /\ ~writeopen

\* Who sleeps has a reason to, or holds the lock up to sleep, or will be
\* woken by the process that holds the lock now.  A reader that finds the
\* buffer empty at its first byte has seen the writers' end closed.
SleepInv ==
    /\ \A w \in Writer : pc[w] \in {"sleep", "asleep"} =>
          (Full /\ readopen) \/ \E r \in Reader : pc[r] = "copy"
    /\ \A r \in Reader : pc[r] \in {"sleep", "asleep"} =>
          \/ ReaderMustWait
          \/ untold
          \/ \E w \in Writer : pc[w] = "loop"
    /\ \A r \in Reader : pc[r] = "copy" /\ i[r] = 0 /\ Empty => ~writeopen

\* The bytes in the buffer, and that there are at most PIPESIZE of them.
Used == (nwrite + Wrap - nread) % Wrap
UsedInv == Used <= PIPESIZE

IInv == TypeOK /\ LockInv /\ EndsInv /\ SleepInv /\ UsedInv

-----------------------------------------------------------------------------
\* Division with remainder, and what follows for the counters of a ring.
LEMMA Division ==
    ASSUME NEW a \in Int, NEW d \in Int, d > 0
    PROVE  a \div d \in Int /\ a % d \in 0..d - 1 /\ a = d * (a \div d) + (a % d)
<1>1. a \div d \in Int
  OBVIOUS
<1>2. a % d \in 0..d - 1
  OBVIOUS
<1>3. a = d * (a \div d) + (a % d)
  OBVIOUS
<1>4. QED
  BY <1>1, <1>2, <1>3

LEMMA ModOnce == \A a \in 0..2 * Wrap - 1 : a % Wrap = IF a < Wrap THEN a ELSE a - Wrap
<1> Wrap \in Nat \ {0}
  BY PipeAssumption
<1> TAKE a \in 0..2 * Wrap - 1
<1>1. CASE a < Wrap
  BY <1>1
<1>2. CASE a >= Wrap
  <2>1. a \in Wrap..2 * Wrap - 1
    BY <1>2
  <2>2. QED
    BY <2>1
<1>3. QED
  BY <1>1, <1>2

\* Two slots of a ring less than its size apart differ.
LEMMA ModDistinct ==
    ASSUME NEW d \in Nat \ {0}, NEW a \in Nat, NEW k \in 1..d - 1
    PROVE  (a + k) % d # a % d
<1> DEFINE q == a \div d
           r == a % d
           s == (a + k) \div d
<1>1. a = d * q + r /\ q \in Int /\ r \in 0..d - 1
  BY Division
<1>2. a + k = d * s + ((a + k) % d) /\ s \in Int
  BY Division
<1>3. SUFFICES ASSUME (a + k) % d = r PROVE FALSE
  OBVIOUS
<1> HIDE DEF q, r, s
<1>4. k = d * s - d * q
  BY <1>1, <1>2, <1>3
<1>5. d * s - d * q = d * (s - q)
  BY <1>1, <1>2
<1>6. CASE s - q <= 0
  <2>1. d * (s - q) <= 0
    BY <1>6, <1>1, <1>2
  <2>2. QED
    BY <2>1, <1>4, <1>5
<1>7. CASE s - q >= 1
  <2>1. d * (s - q) >= d
    BY <1>7, <1>1, <1>2
  <2>2. QED
    BY <2>1, <1>4, <1>5
<1>8. QED
  BY <1>6, <1>7, <1>1, <1>2

\* A counter that wraps at a multiple of the ring's size stays on its slot.
LEMMA ModWrapped ==
    ASSUME NEW a \in Nat
    PROVE  (a + Wrap) % PIPESIZE = a % PIPESIZE
<1> DEFINE q == a \div PIPESIZE
           r == a % PIPESIZE
           m == Wrap \div PIPESIZE
<1> PIPESIZE \in Nat \ {0} /\ Wrap \in Nat /\ Wrap % PIPESIZE = 0
  BY PipeAssumption
<1>1. a = PIPESIZE * q + r /\ q \in Int /\ r \in 0..PIPESIZE - 1
  BY Division
<1>2. Wrap = PIPESIZE * m + 0 /\ m \in Int
  BY Division
<1> HIDE DEF q, r, m
<1>3. a + Wrap = PIPESIZE * (q + m) + r
  BY <1>1, <1>2
<1>4. q + m \in Int
  BY <1>1, <1>2
<1>5. (PIPESIZE * (q + m) + r) % PIPESIZE = r
  <2> HIDE DEF PipeAssumption
  <2> DEFINE x == q + m
  <2>1. x \in Int
    BY <1>4
  <2> HIDE DEF x
  <2>2. (PIPESIZE * x + r) % PIPESIZE = r
    BY <2>1, <1>1
  <2>3. QED
    BY <2>2 DEF x
<1>6. QED
  BY <1>3, <1>5 DEF r

\* Stepping a counter, wrapped or not, shifts the slots it leads to by one.
LEMMA ModShifted ==
    ASSUME NEW x \in Nat, NEW y \in Nat, y = x + 1 \/ y + Wrap = x + 1
    PROVE  \A k \in Nat \ {0} : (y + k - 1) % PIPESIZE = (x + (k + 1) - 1) % PIPESIZE
<1> TAKE k \in Nat \ {0}
<1> Wrap \in Nat
  BY PipeAssumption
<1>1. y + k - 1 \in Nat
  OBVIOUS
<1>2. x + (k + 1) - 1 = y + k - 1 \/ x + (k + 1) - 1 = (y + k - 1) + Wrap
  OBVIOUS
<1>3. ((y + k - 1) + Wrap) % PIPESIZE = (y + k - 1) % PIPESIZE
  BY <1>1, ModWrapped
<1>4. QED
  BY <1>2, <1>3

\* The counters say how many bytes there are, wrapped or not.
Counted ==
    /\ Used \in 0..Wrap - 1
    /\ Used = IF nwrite >= nread THEN nwrite - nread ELSE nwrite + Wrap - nread
    /\ Empty <=> Used = 0
    /\ Full <=> Used = PIPESIZE

LEMMA CountedNow == TypeOK => Counted
<1> SUFFICES ASSUME TypeOK PROVE Counted
  OBVIOUS
<1>1. nread \in 0..Wrap - 1 /\ nwrite \in 0..Wrap - 1
  BY DEF TypeOK
<1>2. Wrap \in Nat \ {0} /\ PIPESIZE \in Nat \ {0} /\ PIPESIZE < Wrap
  BY PipeAssumption
<1>3. nwrite + Wrap - nread \in 0..2 * Wrap - 1 /\ nread + PIPESIZE \in 0..2 * Wrap - 1
  BY <1>1, <1>2
<1>4. /\ Used = IF nwrite + Wrap - nread < Wrap THEN nwrite + Wrap - nread ELSE nwrite - nread
      /\ (nread + PIPESIZE) % Wrap = IF nread + PIPESIZE < Wrap THEN nread + PIPESIZE
                                     ELSE nread + PIPESIZE - Wrap
  BY <1>1, <1>2, <1>3, ModOnce DEF Used
<1>5. QED
  BY <1>1, <1>2, <1>4 DEF Counted, Empty, Full

LEMMA CountedStep == (TypeOK => Counted) /\ (TypeOK' => Counted')
BY CountedNow, PTL

\* A counter stepped once.
LEMMA IncIs ==
    ASSUME NEW x \in 0..Wrap - 1
    PROVE  Inc(x) \in 0..Wrap - 1 /\ Inc(x) = IF x = Wrap - 1 THEN 0 ELSE x + 1
<1>1. Wrap \in Nat \ {0} /\ x + 1 \in 0..2 * Wrap - 1
  BY PipeAssumption
<1>2. QED
  BY <1>1, ModOnce DEF Inc

-----------------------------------------------------------------------------
\* A pipe begins empty, open at both ends and unused.
LEMMA InitIInv == Init => IInv
<1> SUFFICES ASSUME Init PROVE IInv
  OBVIOUS
<1>1. TypeOK
  <2>1. (CHOOSE v \in Byte : TRUE) \in Byte
    BY PipeAssumption
  <2>2. data \in [0..PIPESIZE - 1 -> Byte]
    BY <2>1 DEF Init
  <2>3. /\ readopen \in BOOLEAN /\ writeopen \in BOOLEAN /\ freed \in BOOLEAN /\ eof \in BOOLEAN
        /\ untold \in BOOLEAN /\ isopen \in [Proc -> BOOLEAN] /\ killed \in [Proc -> BOOLEAN] /\ ~freed
    BY DEF Init
  <2>4. nread \in 0..Wrap - 1 /\ nwrite \in 0..Wrap - 1
    BY PipeAssumption DEF Init
  <2>5. QED
    BY <2>2, <2>3, <2>4 DEF Init, TypeOK, PC
<1>2. LockInv /\ EndsInv /\ SleepInv
  BY PipeAssumption DEF Init, LockInv, EndsInv, SleepInv, Proc
<1>3. UsedInv
  BY <1>1, CountedNow, PipeAssumption DEF Counted, UsedInv, Empty, Init
<1>4. QED
  BY <1>1, <1>2, <1>3 DEF IInv

\* A process that waits for the lock or starts a call is in no loop.
LEMMA CallStep ==
    ASSUME IInv, NEW p \in Proc, Call(p)
    PROVE  IInv'
<1> USE DEF IInv, Call, goto, buffer, ends, seen
<1>1. TypeOK'
  BY PipeAssumption DEF TypeOK, PC, LockInv
<1>2. LockInv'
  BY DEF LockInv, TypeOK, Proc
<1>3. EndsInv'
  BY DEF EndsInv, TypeOK, Proc
<1>4. SleepInv'
  BY DEF SleepInv, TypeOK, Proc, Full, Empty, ReaderMustWait
<1>5. UsedInv'
  BY DEF UsedInv, Used
<1>6. QED
  BY <1>1, <1>2, <1>3, <1>4, <1>5

LEMMA AcquireStep ==
    ASSUME IInv, NEW p \in Proc, Acquire(p)
    PROVE  IInv'
<1> USE DEF IInv, Acquire, goto, buffer, ends, seen
<1>1. TypeOK'
  BY DEF TypeOK, PC
<1>2. LockInv'
  BY PipeAssumption DEF LockInv, TypeOK, Proc
<1>3. EndsInv'
  BY DEF EndsInv, TypeOK, Proc
<1>4. SleepInv'
  BY DEF SleepInv, TypeOK, Proc, Full, Empty, ReaderMustWait
<1>5. UsedInv'
  BY DEF UsedInv, Used
<1>6. QED
  BY <1>1, <1>2, <1>3, <1>4, <1>5

\* sleep gives the lock back without losing the reason to sleep.
LEMMA SleepStep ==
    ASSUME IInv, NEW p \in Proc, Sleep(p)
    PROVE  IInv'
<1> USE DEF IInv, Sleep, goto, buffer, ends, seen
<1>1. TypeOK'
  BY DEF TypeOK, PC
<1>2. LockInv'
  BY PipeAssumption DEF LockInv, TypeOK, Proc
<1>3. EndsInv'
  BY DEF EndsInv, TypeOK, Proc
<1>4. SleepInv'
  BY DEF SleepInv, TypeOK, Proc, Full, Empty, ReaderMustWait
<1>5. UsedInv'
  BY DEF UsedInv, Used
<1>6. QED
  BY <1>1, <1>2, <1>3, <1>4, <1>5

\* pipewrite with a full buffer.
LEMMA WriteFullStep ==
    ASSUME IInv, NEW p \in Proc, WriteFull(p)
    PROVE  IInv'
<1> USE DEF IInv, goto, return, wakeup, buffer, ends, seen
<1>1. CASE ~readopen \/ killed[p]
  <2>1. /\ p \in Writer /\ pc[p] = "loop" /\ Full /\ pc' = [pc EXCEPT ![p] = "idle"]
        /\ lock' = NoProc /\ i' = [i EXCEPT ![p] = 0] /\ n' = [n EXCEPT ![p] = 0]
        /\ UNCHANGED <<data, nread, nwrite, readopen, writeopen, freed, isopen, killed, last, eof>>
        /\ untold' = TRUE
    BY <1>1 DEF WriteFull
  <2>2. TypeOK'
    BY <2>1 DEF TypeOK, PC
  <2>3. LockInv'
    BY <2>1, PipeAssumption DEF LockInv, TypeOK, Proc
  <2>4. EndsInv'
    BY <2>1 DEF EndsInv, TypeOK, Proc
  <2>6. SleepInv'
    BY <2>1, PipeAssumption
    DEF SleepInv, LockInv, TypeOK, Proc, Full, Empty, ReaderMustWait
  <2>7. QED
    BY <2>1, <2>2, <2>3, <2>4, <2>6 DEF UsedInv, Used
<1>2. CASE ~(~readopen \/ killed[p])
  <2>1. /\ p \in Writer /\ pc[p] = "loop" /\ Full /\ readopen
        /\ pc' = [wakeup(Reader, pc) EXCEPT ![p] = "sleep"]
        /\ UNCHANGED <<lock, i, n>>
        /\ UNCHANGED <<data, nread, nwrite, readopen, writeopen, freed, isopen, killed, last, eof>>
        /\ untold' = FALSE
    BY <1>2 DEF WriteFull
  <2>2. TypeOK'
    BY <2>1 DEF TypeOK, PC
  <2>3. LockInv'
    BY <2>1, PipeAssumption DEF LockInv, TypeOK, Proc
  <2>4. EndsInv'
    BY <2>1 DEF EndsInv, TypeOK, Proc
  <2>5. SleepInv'
    BY <2>1, PipeAssumption
    DEF SleepInv, LockInv, TypeOK, Proc, Full, Empty, ReaderMustWait
  <2>6. QED
    BY <2>1, <2>2, <2>3, <2>4, <2>5 DEF UsedInv, Used
<1>3. QED
  BY <1>1, <1>2

\* pipewrite has written all its bytes.
LEMMA WriteDoneStep ==
    ASSUME IInv, NEW p \in Proc, WriteDone(p)
    PROVE  IInv'
<1> USE DEF IInv, return, wakeup, buffer, ends, seen
<1>1. /\ p \in Writer /\ pc[p] = "loop"
      /\ pc' = [wakeup(Reader, pc) EXCEPT ![p] = "idle"]
      /\ lock' = NoProc /\ i' = [i EXCEPT ![p] = 0] /\ n' = [n EXCEPT ![p] = 0]
      /\ UNCHANGED <<data, nread, nwrite, readopen, writeopen, freed, isopen, killed, last, eof>>
      /\ untold' = FALSE
  BY DEF WriteDone
<1>2. TypeOK'
  <2>1. pc' \in [Proc -> PC] /\ lock' \in Proc \cup {NoProc}
    BY <1>1 DEF TypeOK, PC
  <2>2. /\ n' \in [Proc -> Sizes \cup {0}] /\ i' \in [Proc -> Nat]
        /\ \A q \in Proc : i'[q] <= n'[q]
    BY <1>1 DEF TypeOK
  <2>3. ~freed
    BY <1>1 DEF TypeOK
  <2>4. QED
    BY <1>1, <2>1, <2>2, <2>3 DEF TypeOK
<1>3. LockInv'
  BY <1>1, PipeAssumption DEF LockInv, TypeOK, Proc
<1>4. EndsInv'
  BY <1>1 DEF EndsInv, TypeOK, Proc
<1>5. SleepInv'
  <2>1. \A q \in Proc \ {p} : pc[q] \notin {"loop", "copy", "sleep"} /\ pc'[q] = wakeup(Reader, pc)[q]
    BY <1>1 DEF LockInv, TypeOK
  <2>2. \A r \in Reader : pc[r] # "copy" /\ pc'[r] \notin {"copy", "sleep", "asleep"}
    BY <1>1, <2>1, PipeAssumption DEF Proc
  <2>3. \A w \in Writer : pc'[w] \in {"sleep", "asleep"} => Full' /\ readopen'
    <3>1. \A w \in Writer : pc'[w] \in {"sleep", "asleep"} => pc[w] \in {"sleep", "asleep"}
      BY <1>1, <2>1, PipeAssumption DEF Proc, TypeOK
    <3>2. QED
      BY <1>1, <2>2, <3>1 DEF SleepInv, Full
  <2>4. QED
    BY <2>2, <2>3 DEF SleepInv
<1>6. UsedInv'
  BY <1>1 DEF UsedInv, Used
<1>7. QED
  BY <1>2, <1>3, <1>4, <1>5, <1>6

\* piperead's test.
LEMMA ReadTestStep ==
    ASSUME IInv, NEW p \in Proc, ReadTest(p)
    PROVE  IInv'
<1> USE DEF IInv, goto, return, buffer, ends, seen
<1>1. /\ p \in Reader /\ pc[p] = "loop" /\ p \notin Writer
      /\ UNCHANGED <<data, nread, nwrite, readopen, writeopen, freed, isopen, killed, last, eof,
                     untold>>
  BY PipeAssumption DEF ReadTest
<1>2. CASE /\ pc' = [pc EXCEPT ![p] = "idle"]
           /\ lock' = NoProc /\ i' = [i EXCEPT ![p] = 0] /\ n' = [n EXCEPT ![p] = 0]
  <2>1. TypeOK'
    BY <1>1, <1>2 DEF TypeOK, PC
  <2>2. LockInv'
    BY <1>1, <1>2, PipeAssumption DEF LockInv, TypeOK, Proc
  <2>3. EndsInv'
    BY <1>1, <1>2 DEF EndsInv, TypeOK, Proc
  <2>4. SleepInv'
    BY <1>1, <1>2, PipeAssumption
    DEF SleepInv, LockInv, TypeOK, Proc, Full, Empty, ReaderMustWait
  <2>5. QED
    BY <1>1, <2>1, <2>2, <2>3, <2>4 DEF UsedInv, Used
<1>3. CASE \/ Empty /\ writeopen /\ pc' = [pc EXCEPT ![p] = "sleep"] /\ UNCHANGED <<lock, i, n>>
           \/ ~(Empty /\ writeopen) /\ pc' = [pc EXCEPT ![p] = "copy"] /\ UNCHANGED <<lock, i, n>>
  <2>1. TypeOK'
    BY <1>1, <1>3 DEF TypeOK, PC
  <2>2. LockInv'
    BY <1>1, <1>3, PipeAssumption DEF LockInv, TypeOK, Proc
  <2>3. EndsInv'
    BY <1>1, <1>3 DEF EndsInv, TypeOK, Proc
  <2>4. SleepInv'
    BY <1>1, <1>3, PipeAssumption
    DEF SleepInv, LockInv, TypeOK, Proc, Full, Empty, ReaderMustWait
  <2>5. QED
    BY <1>1, <2>1, <2>2, <2>3, <2>4 DEF UsedInv, Used
<1>4. QED
  BY <1>2, <1>3 DEF ReadTest

\* piperead returns.
LEMMA ReadDoneStep ==
    ASSUME IInv, NEW p \in Proc, ReadDone(p)
    PROVE  IInv'
<1> USE DEF IInv, ReadDone, goto, return, wakeup, buffer, ends
<1>1. TypeOK'
  BY DEF TypeOK, PC
<1>2. LockInv'
  BY PipeAssumption DEF LockInv, TypeOK, Proc
<1>3. EndsInv'
  BY DEF EndsInv, TypeOK, Proc
<1>4. SleepInv'
  BY PipeAssumption DEF SleepInv, LockInv, EndsInv, TypeOK, Proc, Full, Empty, ReaderMustWait
<1>5. UsedInv'
  BY DEF UsedInv, Used
<1>6. QED
  BY <1>1, <1>2, <1>3, <1>4, <1>5

\* kill.
LEMMA KillStep ==
    ASSUME IInv, NEW p \in Proc, Kill(p)
    PROVE  IInv'
<1> USE DEF IInv, Kill, wakeup, buffer, ends, seen
<1>1. TypeOK'
  BY DEF TypeOK, PC
<1>2. LockInv'
  BY PipeAssumption DEF LockInv, TypeOK, Proc
<1>3. EndsInv'
  BY DEF EndsInv, TypeOK, Proc
<1>4. SleepInv'
  BY PipeAssumption DEF SleepInv, LockInv, EndsInv, TypeOK, Proc, Full, Empty, ReaderMustWait
<1>5. UsedInv'
  BY DEF UsedInv, Used
<1>6. QED
  BY <1>1, <1>2, <1>3, <1>4, <1>5

\* A call's counter and its size are numbers.
LEMMA Locals ==
    ASSUME TypeOK
    PROVE  \A q \in Proc : n[q] \in Nat /\ i[q] \in Nat /\ i[q] <= n[q]
<1>1. Sizes \cup {0} \subseteq Nat
  BY PipeAssumption
<1>2. \A q \in Proc : n[q] \in Sizes \cup {0}
  BY DEF TypeOK
<1>3. \A q \in Proc : i[q] \in Nat /\ i[q] <= n[q]
  BY DEF TypeOK
<1>4. QED
  BY <1>1, <1>2, <1>3

\* pipewrite stores a byte: it fits, and every sleeping reader will be woken.
LEMMA WriteByteStep ==
    ASSUME IInv, NEW p \in Proc, NEW v \in Byte, WriteByte(p, v)
    PROVE  IInv' /\ Used < PIPESIZE /\ Used' = Used + 1
<1> USE DEF IInv
<1>1. /\ p \in Writer /\ p \notin Reader /\ pc[p] = "loop" /\ lock = p /\ i[p] < n[p] /\ ~Full
      /\ data' = [data EXCEPT ![nwrite % PIPESIZE] = v] /\ nwrite' = Inc(nwrite)
      /\ i' = [i EXCEPT ![p] = i[p] + 1]
      /\ UNCHANGED <<lock, nread, readopen, writeopen, freed, isopen, pc, n, killed, last, eof,
                     untold>>
  BY PipeAssumption DEF WriteByte, ends, seen, LockInv
<1>2. nwrite' \in 0..Wrap - 1 /\ nwrite' = IF nwrite = Wrap - 1 THEN 0 ELSE nwrite + 1
  BY <1>1, IncIs DEF TypeOK
<1>3. TypeOK'
  <2>1. nwrite % PIPESIZE \in 0..PIPESIZE - 1
    BY Division, PipeAssumption DEF TypeOK
  <2>2. data' \in [0..PIPESIZE - 1 -> Byte]
    BY <1>1, <2>1 DEF TypeOK
  <2>3. i' \in [Proc -> Nat] /\ \A q \in Proc : i'[q] <= n[q]
    <3>1. \A q \in Proc : n[q] \in Nat /\ i[q] \in Nat /\ i[q] <= n[q]
      BY Locals
    <3>2. i[p] + 1 \in Nat /\ i[p] + 1 <= n[p]
      BY <3>1, <1>1
    <3>3. QED
      BY <3>1, <3>2, <1>1 DEF TypeOK
  <2>4. QED
    BY <1>1, <1>2, <2>2, <2>3 DEF TypeOK
<1>4. Counted /\ Counted' /\ Wrap \in Nat /\ PIPESIZE \in Nat /\ PIPESIZE < Wrap
  BY <1>3, CountedStep, PipeAssumption
<1>5. Used < PIPESIZE /\ Used' = Used + 1
  <2>1. Used # PIPESIZE /\ Used <= PIPESIZE
    BY <1>1, <1>4 DEF Counted, UsedInv
  <2>2. Used < PIPESIZE
    BY <2>1, <1>4 DEF Counted
  <2>3. nread \in 0..Wrap - 1 /\ nwrite \in 0..Wrap - 1
    BY DEF TypeOK
  <2>4. Used' = Used + 1
    BY <1>1, <1>2, <1>4, <2>2, <2>3 DEF Counted
  <2>5. QED
    BY <2>2, <2>4
<1>6. UsedInv'
  BY <1>4, <1>5 DEF UsedInv, Counted
<1>7. LockInv' /\ EndsInv'
  BY <1>1 DEF LockInv, EndsInv, TypeOK
<1>8. SleepInv'
  <2>1. \A r \in Reader : pc[r] # "copy"
    BY <1>1 DEF LockInv, Proc
  <2>2. \A w \in Writer : pc[w] \notin {"sleep", "asleep"}
    BY <1>1, <2>1 DEF SleepInv
  <2>3. QED
    BY <1>1, <2>1, <2>2 DEF SleepInv
<1>9. QED
  BY <1>3, <1>5, <1>6, <1>7, <1>8

\* piperead takes a byte.
LEMMA ReadByteStep ==
    ASSUME IInv, NEW p \in Proc, ReadByte(p)
    PROVE  IInv' /\ Used > 0 /\ Used' = Used - 1
<1> USE DEF IInv
<1>1. /\ p \in Reader /\ p \notin Writer /\ pc[p] = "copy" /\ lock = p /\ i[p] < n[p] /\ ~Empty
      /\ last' = data[nread % PIPESIZE] /\ nread' = Inc(nread)
      /\ i' = [i EXCEPT ![p] = i[p] + 1]
      /\ UNCHANGED <<lock, data, nwrite, readopen, writeopen, freed, isopen, pc, n, killed, eof,
                     untold>>
  BY PipeAssumption DEF ReadByte, ends, LockInv
<1>2. nread' \in 0..Wrap - 1 /\ nread' = IF nread = Wrap - 1 THEN 0 ELSE nread + 1
  BY <1>1, IncIs DEF TypeOK
<1>3. TypeOK'
  <2>1. nread % PIPESIZE \in 0..PIPESIZE - 1
    BY Division, PipeAssumption DEF TypeOK
  <2>2. last' \in Byte
    BY <1>1, <2>1 DEF TypeOK
  <2>3. i' \in [Proc -> Nat] /\ \A q \in Proc : i'[q] <= n[q]
    <3>1. \A q \in Proc : n[q] \in Nat /\ i[q] \in Nat /\ i[q] <= n[q]
      BY Locals
    <3>2. i[p] + 1 \in Nat /\ i[p] + 1 <= n[p]
      BY <3>1, <1>1
    <3>3. QED
      BY <3>1, <3>2, <1>1 DEF TypeOK
  <2>4. QED
    BY <1>1, <1>2, <2>2, <2>3 DEF TypeOK
<1>4. Counted /\ Counted' /\ Wrap \in Nat /\ PIPESIZE \in Nat /\ PIPESIZE < Wrap
  BY <1>3, CountedStep, PipeAssumption
<1>5. Used > 0 /\ Used' = Used - 1
  <2>1. Used > 0
    BY <1>1, <1>4 DEF Counted
  <2>2. nread \in 0..Wrap - 1 /\ nwrite \in 0..Wrap - 1
    BY DEF TypeOK
  <2>3. Used' = Used - 1
    BY <1>1, <1>2, <1>4, <2>1, <2>2 DEF Counted
  <2>4. QED
    BY <2>1, <2>3
<1>6. UsedInv'
  BY <1>4, <1>5 DEF UsedInv, Counted
<1>7. LockInv' /\ EndsInv'
  BY <1>1 DEF LockInv, EndsInv, TypeOK
<1>8. SleepInv'
  <2>1. \A w \in Writer : pc[w] # "loop"
    BY <1>1 DEF LockInv, Proc
  <2>2. \A r \in Reader : pc[r] = "copy" => r = p
    BY <1>1 DEF LockInv, Proc
  <2>3. i'[p] # 0
    BY <1>1 DEF TypeOK
  <2>4. QED
    BY <1>1, <2>1, <2>2, <2>3 DEF SleepInv, ReaderMustWait
<1>9. QED
  BY <1>3, <1>5, <1>6, <1>7, <1>8

\* close: the last holder of an end goes on to pipeclose.
LEMMA CloseCallStep ==
    ASSUME IInv, NEW p \in Proc, CloseCall(p)
    PROVE  IInv'
<1> USE DEF IInv
<1>1. /\ pc[p] = "idle" /\ isopen[p] /\ isopen' = [isopen EXCEPT ![p] = FALSE]
      /\ UNCHANGED <<lock, data, nread, nwrite, readopen, writeopen, freed, i, n, killed, last, eof,
                     untold>>
  BY DEF CloseCall, buffer, seen
<1>2. PICK to \in {"close", "closed"} :
         /\ pc' = [pc EXCEPT ![p] = to]
         /\ to = "close" =>
              /\ p \in Reader => \A o \in Reader \ {p} : ~isopen[o]
              /\ p \notin Reader => \A o \in Writer \ {p} : ~isopen[o]
         /\ to = "closed" => \/ p \in Reader /\ \E o \in Reader \ {p} : isopen[o]
                             \/ p \notin Reader /\ \E o \in Writer \ {p} : isopen[o]
  BY DEF CloseCall, goto
<1>3. TypeOK'
  BY <1>1, <1>2 DEF TypeOK, PC
<1>4. LockInv'
  BY <1>1, <1>2, PipeAssumption DEF LockInv, TypeOK, Proc
<1>5. EndsInv'
  <2>1. \A q \in Proc : isopen'[q] <=> pc'[q] \notin {"close", "closed"}
    BY <1>1, <1>2 DEF EndsInv, TypeOK
  <2>2. \A q, o \in Reader : pc'[q] = "close" /\ o # q => pc'[o] = "closed"
    BY <1>1, <1>2, PipeAssumption DEF EndsInv, TypeOK, Proc
  <2>3. \A q, o \in Writer : pc'[q] = "close" /\ o # q => pc'[o] = "closed"
    BY <1>1, <1>2, PipeAssumption DEF EndsInv, TypeOK, Proc
  <2>4. QED
    BY <2>1, <2>2, <2>3, <1>1, <1>2 DEF EndsInv, TypeOK, Proc
<1>6. SleepInv'
  BY <1>1, <1>2, PipeAssumption DEF SleepInv, TypeOK, Proc, Full, Empty, ReaderMustWait
<1>7. QED
  BY <1>1, <1>3, <1>4, <1>5, <1>6 DEF UsedInv, Used

\* pipeclose: it wakes the other side, and frees what nobody can use again.
LEMMA PipecloseStep ==
    ASSUME IInv, NEW p \in Proc, pipeclose(p)
    PROVE  IInv'
<1> USE DEF IInv
<1>1. /\ pc[p] = "close" /\ lock = NoProc /\ freed' = (~readopen' /\ ~writeopen')
      /\ UNCHANGED <<lock, data, nread, nwrite, isopen, i, n, killed, last, eof>>
      /\ pc' \in [Proc -> PC] /\ pc'[p] = "closed"
      /\ \A q \in Proc : pc'[q] = pc[q] \/ q = p \/ (pc[q] = "asleep" /\ pc'[q] = "enter")
  BY DEF pipeclose, buffer, seen, wakeup, TypeOK, PC
<1>2. /\ p \in Writer => /\ ~writeopen' /\ readopen' = readopen
                         /\ \A r \in Reader : pc'[r] # "asleep"
      /\ p \in Reader => /\ ~readopen' /\ writeopen' = writeopen /\ untold' = untold
                         /\ \A w \in Writer : pc'[w] # "asleep"
  BY PipeAssumption DEF pipeclose, wakeup, Proc, TypeOK
<1>3. LockInv'
  BY <1>1, PipeAssumption DEF LockInv, TypeOK, Proc
<1>4. EndsInv'
  <2>1. \A q \in Proc : isopen'[q] <=> pc'[q] \notin {"close", "closed"}
    BY <1>1 DEF EndsInv
  <2>2. \A q, o \in Reader : pc'[q] = "close" /\ o # q => pc'[o] = "closed"
    BY <1>1 DEF EndsInv, Proc
  <2>3. \A q, o \in Writer : pc'[q] = "close" /\ o # q => pc'[o] = "closed"
    BY <1>1 DEF EndsInv, Proc
  <2>4. ~readopen' => \A q \in Reader : pc'[q] = "closed"
    BY <1>1, <1>2 DEF EndsInv, Proc
  <2>5. ~writeopen' => \A q \in Writer : pc'[q] = "closed"
    BY <1>1, <1>2 DEF EndsInv, Proc
  <2>6. QED
    BY <2>1, <2>2, <2>3, <2>4, <2>5, <1>1 DEF EndsInv
<1>5. readopen' \in BOOLEAN /\ writeopen' \in BOOLEAN /\ untold' \in BOOLEAN
  BY DEF pipeclose, TypeOK
<1>6. TypeOK'
  <2>1. freed' => \A q \in Proc : pc'[q] = "closed"
    BY <1>4 DEF EndsInv, Proc
  <2>2. freed' \in BOOLEAN
    BY <1>1, <1>5
  <2>3. QED
    BY <1>1, <1>5, <2>1, <2>2 DEF TypeOK
<1>7. SleepInv'
  <2>1. \A q \in Proc : pc[q] \notin {"loop", "copy", "sleep"}
    BY <1>1, PipeAssumption DEF LockInv, Proc
  <2>2. \A q \in Proc : pc'[q] \notin {"copy", "sleep"}
    BY <1>1, <2>1
  <2>3. \A w \in Writer : pc'[w] = "asleep" => (Full /\ readopen)'
    BY <1>1, <1>2, <2>1 DEF SleepInv, Full, Proc
  <2>4. \A r \in Reader : pc'[r] = "asleep" => ReaderMustWait' \/ untold'
    BY <1>1, <1>2, <2>1 DEF SleepInv, ReaderMustWait, Empty, Proc
  <2>5. QED
    BY <2>2, <2>3, <2>4 DEF SleepInv, Proc
<1>8. QED
  BY <1>1, <1>3, <1>4, <1>6, <1>7 DEF UsedInv, Used

\* Every step keeps the invariant.
LEMMA NextIInv == IInv /\ [Next]_vars => IInv'
<1> SUFFICES ASSUME IInv, [Next]_vars PROVE IInv'
  OBVIOUS
<1>1. CASE UNCHANGED vars
  BY <1>1 DEF vars, buffer, ends, seen, IInv, TypeOK, LockInv, EndsInv, SleepInv, UsedInv, Used,
     Full, Empty, ReaderMustWait
<1>2. ASSUME NEW p \in Proc, Step(p) PROVE IInv'
  BY <1>2, AcquireStep, SleepStep, WriteFullStep, WriteByteStep, WriteDoneStep, ReadTestStep,
     ReadByteStep, ReadDoneStep, PipecloseStep DEF Step
<1>3. ASSUME NEW p \in Proc, Call(p) \/ CloseCall(p) \/ Kill(p) PROVE IInv'
  BY <1>3, CallStep, CloseCallStep, KillStep
<1>4. QED
  BY <1>1, <1>2, <1>3 DEF Next

-----------------------------------------------------------------------------
(* The types of a pipe hold throughout, and a pipe that pipeclose has      *)
(* freed is one that nobody is in or can enter again, for any number of    *)
(* processes that share its ends.                                          *)
THEOREM TypeCorrect == Spec => []TypeOK
<1>1. IInv => TypeOK
  BY DEF IInv
<1>2. QED
  BY <1>1, InitIInv, NextIInv, PTL DEF Spec

(* No wakeup of pipe.c is lost, except the one that the early return of    *)
(* pipewrite leaves out.                                                   *)
THEOREM NoLostWakeup == Spec => []SleepersMustWait
<1>1. IInv => SleepersMustWait
  <2> SUFFICES ASSUME IInv, lock = NoProc
               PROVE  /\ \A w \in Writer : pc[w] = "asleep" => Full /\ readopen
                      /\ \A r \in Reader : pc[r] = "asleep" =>
                            ReaderMustWait \/ untold
    BY DEF SleepersMustWait
  <2>1. \A p \in Proc : pc[p] \notin {"loop", "copy", "sleep"}
    BY PipeAssumption DEF IInv, LockInv, Proc
  <2>2. QED
    BY <2>1 DEF IInv, SleepInv, Proc
<1>2. QED
  BY <1>1, InitIInv, NextIInv, PTL DEF Spec

-----------------------------------------------------------------------------
\* The contents are a sequence of as many bytes as the counters say.
ContentsIs ==
    /\ Contents \in Seq(Byte) /\ Len(Contents) = Used
    /\ \A k \in 1..Used : Contents[k] = data[(nread + k - 1) % PIPESIZE]

LEMMA ContentsNow == TypeOK => ContentsIs
<1> SUFFICES ASSUME TypeOK PROVE ContentsIs
  OBVIOUS
<1>1. Used \in Nat
  BY CountedNow, PipeAssumption DEF Counted
<1>2. Contents = [k \in 1..Used |-> data[(nread + k - 1) % PIPESIZE]]
  BY DEF Contents, Used
<1>3. \A k \in 1..Used : data[(nread + k - 1) % PIPESIZE] \in Byte
  <2> SUFFICES ASSUME NEW k \in 1..Used PROVE data[(nread + k - 1) % PIPESIZE] \in Byte
    OBVIOUS
  <2>1. nread + k - 1 \in Int
    BY <1>1, PipeAssumption DEF TypeOK
  <2>2. (nread + k - 1) % PIPESIZE \in 0..PIPESIZE - 1
    BY <2>1, Division, PipeAssumption
  <2>3. QED
    BY <2>2 DEF TypeOK
<1> HIDE DEF Used
<1>4. Contents \in [1..Used -> Byte]
  BY <1>2, <1>3
<1>5. Contents \in Seq(Byte)
  BY <1>1, <1>4, SeqDef
<1>6. Len(Contents) = Used
  BY <1>1, <1>4, <1>5, LenProperties
<1>7. QED
  BY <1>2, <1>5, <1>6 DEF ContentsIs

LEMMA ContentsStep == (TypeOK => ContentsIs) /\ (TypeOK' => ContentsIs')
BY ContentsNow, PTL

\* The contents depend on nothing but the buffer.
LEMMA SameContents ==
    ASSUME UNCHANGED <<data, nread, nwrite>>
    PROVE  UNCHANGED Contents
BY DEF Contents

\* A byte written is appended.
LEMMA WriteByteRefines ==
    ASSUME IInv, IInv', NEW p \in Proc, NEW v \in Byte, WriteByte(p, v)
    PROVE  Queue!Put(v)
<1>1. /\ p \in Writer /\ pc[p] = "loop"
      /\ data' = [data EXCEPT ![nwrite % PIPESIZE] = v]
      /\ UNCHANGED <<nread, readopen, writeopen, last, eof>>
  BY DEF WriteByte, ends, seen
<1>2. writeopen
  BY <1>1 DEF IInv, EndsInv, Proc, TypeOK
<1>3. Used < PIPESIZE /\ Used' = Used + 1
  BY WriteByteStep
<1>4. ContentsIs /\ ContentsIs' /\ Counted /\ TypeOK
  BY ContentsStep, CountedStep DEF IInv
<1>5. /\ Used \in Nat /\ nread \in Nat /\ nwrite \in Nat /\ Wrap \in Nat
      /\ PIPESIZE \in Nat \ {0}
  BY <1>4, PipeAssumption DEF Counted, TypeOK
<1>6. nwrite % PIPESIZE = (nread + Used) % PIPESIZE
  <2>1. nread + Used = nwrite \/ nread + Used = nwrite + Wrap
    BY <1>4, <1>5 DEF Counted
  <2>2. QED
    BY <2>1, <1>5, ModWrapped
<1>7. \A k \in 1..Used : data'[(nread + k - 1) % PIPESIZE] = data[(nread + k - 1) % PIPESIZE]
  <2> SUFFICES ASSUME NEW k \in 1..Used
               PROVE  data'[(nread + k - 1) % PIPESIZE] = data[(nread + k - 1) % PIPESIZE]
    OBVIOUS
  <2> DEFINE a == nread + k - 1
             j == Used - (k - 1)
  <2>1. a \in Nat /\ j \in 1..PIPESIZE - 1 + 1 /\ a + j = nread + Used
    BY <1>3, <1>5
  <2>2. j \in 1..PIPESIZE - 1
    BY <1>3, <1>5
  <2> HIDE DEF a, j
  <2>3. (a + j) % PIPESIZE # a % PIPESIZE
    BY <2>1, <2>2, <1>5, ModDistinct
  <2>4. a % PIPESIZE \in 0..PIPESIZE - 1
    BY <2>1, <1>5, Division
  <2>5. data'[a % PIPESIZE] = data[a % PIPESIZE]
    BY <2>1, <2>3, <2>4, <1>1, <1>4, <1>6 DEF TypeOK
  <2>6. QED
    BY <2>5 DEF a
<1>8. data'[(nread + Used) % PIPESIZE] = v
  <2>1. nwrite % PIPESIZE \in 0..PIPESIZE - 1
    BY <1>5, Division
  <2>2. QED
    BY <2>1, <1>1, <1>4, <1>6 DEF TypeOK
<1> HIDE DEF Used
<1>9. Contents' = Append(Contents, v)
  <2>1. /\ Append(Contents, v) \in Seq(Byte) /\ Len(Append(Contents, v)) = Used + 1
        /\ \A k \in 1..Used : Append(Contents, v)[k] = Contents[k]
        /\ Append(Contents, v)[Used + 1] = v
    BY <1>4, AppendProperties DEF ContentsIs
  <2>2. Contents' \in Seq(Byte) /\ Len(Contents') = Used + 1
    BY <1>3, <1>4 DEF ContentsIs
  <2>3. ASSUME NEW k \in 1..Used PROVE Contents'[k] = Contents[k]
    <3>1. k \in 1..Used'
      BY <1>3, <1>5
    <3>2. Contents'[k] = data'[(nread' + k - 1) % PIPESIZE]
      BY <3>1, <1>4 DEF ContentsIs
    <3>3. Contents[k] = data[(nread + k - 1) % PIPESIZE]
      BY <1>4 DEF ContentsIs
    <3>4. QED
      BY <3>2, <3>3, <1>1, <1>7
  <2>4. Contents'[Used + 1] = v
    <3>1. Used + 1 \in 1..Used'
      BY <1>3, <1>5
    <3>2. Contents'[Used + 1] = data'[(nread' + (Used + 1) - 1) % PIPESIZE]
      BY <3>1, <1>4 DEF ContentsIs
    <3>3. nread + (Used + 1) - 1 = nread + Used
      BY <1>5
    <3>4. QED
      BY <3>2, <3>3, <1>1, <1>8
  <2>5. \A k \in 1..Used + 1 : Contents'[k] = Append(Contents, v)[k]
    BY <2>1, <2>3, <2>4, <1>5
  <2>6. QED
    BY <2>1, <2>2, <2>5, SeqEqual
<1>10. Len(Contents) < PIPESIZE
  BY <1>3, <1>4 DEF ContentsIs
<1>11. QED
  BY <1>1, <1>2, <1>9, <1>10 DEF Queue!Put

\* A byte read is the oldest one.
LEMMA ReadByteRefines ==
    ASSUME IInv, IInv', NEW p \in Proc, ReadByte(p)
    PROVE  Queue!Get
<1>1. /\ p \in Reader /\ pc[p] = "copy" /\ last' = data[nread % PIPESIZE]
      /\ nread' = Inc(nread) /\ UNCHANGED <<data, nwrite, readopen, writeopen, eof>>
  BY DEF ReadByte, ends
<1>2. readopen
  BY <1>1 DEF IInv, EndsInv, Proc, TypeOK
<1>3. Used > 0 /\ Used' = Used - 1
  BY ReadByteStep
<1>4. ContentsIs /\ ContentsIs' /\ Counted /\ TypeOK
  BY ContentsStep, CountedStep DEF IInv
<1>5. /\ Used \in Nat /\ nread \in Nat /\ nread' \in Nat /\ Wrap \in Nat
      /\ PIPESIZE \in Nat \ {0} /\ (nread' = nread + 1 \/ nread' + Wrap = nread + 1)
  <2>1. Used \in Nat /\ Wrap \in Nat /\ PIPESIZE \in Nat \ {0} /\ nread \in 0..Wrap - 1
    BY <1>4, PipeAssumption DEF Counted, TypeOK
  <2>2. nread' \in 0..Wrap - 1 /\ nread' = IF nread = Wrap - 1 THEN 0 ELSE nread + 1
    BY <2>1, <1>1, IncIs
  <2>3. QED
    BY <2>1, <2>2
<1> HIDE DEF Used
<1>6. \A k \in Nat \ {0} : (nread' + k - 1) % PIPESIZE = (nread + (k + 1) - 1) % PIPESIZE
  BY <1>5, ModShifted
<1>7. Contents # <<>> /\ Head(Contents) = Contents[1] /\ Contents[1] = data[nread % PIPESIZE]
  <2>1. Len(Contents) # 0
    BY <1>3, <1>4, <1>5 DEF ContentsIs
  <2>2. Contents # <<>>
    BY <2>1, EmptySeq
  <2>3. Head(Contents) = Contents[1]
    BY <1>4, <2>2 DEF ContentsIs
  <2>4. nread + 1 - 1 = nread /\ 1 \in 1..Used
    BY <1>3, <1>5
  <2>5. QED
    BY <2>2, <2>3, <2>4, <1>4 DEF ContentsIs
<1>8. Contents' = Tail(Contents)
  <2>1. /\ Tail(Contents) \in Seq(Byte) /\ Len(Tail(Contents)) = Used - 1
        /\ \A k \in 1..Used - 1 : Tail(Contents)[k] = Contents[k + 1]
    BY <1>4, <1>7, HeadTailProperties DEF ContentsIs
  <2>2. Contents' \in Seq(Byte) /\ Len(Contents') = Used - 1
    BY <1>3, <1>4 DEF ContentsIs
  <2>3. \A k \in 1..Used - 1 : Contents'[k] = Contents[k + 1]
    <3> SUFFICES ASSUME NEW k \in 1..Used - 1 PROVE Contents'[k] = Contents[k + 1]
      OBVIOUS
    <3>1. Contents'[k] = data'[(nread' + k - 1) % PIPESIZE]
      BY <1>3, <1>4 DEF ContentsIs
    <3>2. k + 1 \in 1..Used
      BY <1>5
    <3>3. Contents[k + 1] = data[(nread + (k + 1) - 1) % PIPESIZE]
      BY <1>4, <3>2 DEF ContentsIs
    <3>4. k \in Nat \ {0}
      BY <1>5
    <3>5. QED
      BY <3>1, <3>3, <3>4, <1>1, <1>6
  <2>4. QED
    BY <2>1, <2>2, <2>3, SeqEqual
<1>9. QED
  BY <1>1, <1>2, <1>7, <1>8 DEF Queue!Get

\* read returns 0 for a positive size only at the end of the file.
LEMMA ReadDoneRefines ==
    ASSUME IInv, NEW p \in Proc, ReadDone(p)
    PROVE  Queue!EndOfFile \/ UNCHANGED <<Contents, last, readopen, writeopen, eof>>
<1>1. /\ p \in Reader /\ pc[p] = "copy" /\ (i[p] = n[p] \/ Empty)
      /\ eof' = (eof \/ (n[p] > 0 /\ i[p] = 0))
      /\ UNCHANGED <<data, nread, nwrite, last, readopen, writeopen>>
  BY DEF ReadDone, buffer, ends
<1>2. UNCHANGED Contents
  BY <1>1, SameContents
<1>3. CASE n[p] > 0 /\ i[p] = 0
  <2>1. Empty
    BY <1>1, <1>3, Locals DEF IInv
  <2>2. ~writeopen
    BY <1>1, <1>3, <2>1 DEF IInv, SleepInv
  <2>3. ContentsIs /\ Used = 0
    BY <2>1, ContentsNow, CountedNow DEF IInv, Counted
  <2>4. Contents = <<>>
    BY <2>3, EmptySeq DEF ContentsIs
  <2>5. eof' = TRUE
    BY <1>1, <1>3
  <2>6. QED
    BY <1>1, <1>2, <2>2, <2>4, <2>5 DEF Queue!EndOfFile
<1>4. CASE ~(n[p] > 0 /\ i[p] = 0)
  <2>1. eof' = eof
    BY <1>1, <1>4 DEF IInv, TypeOK
  <2>2. QED
    BY <1>1, <1>2, <2>1
<1>5. QED
  BY <1>3, <1>4

\* pipeclose closes an end that was open.
LEMMA PipecloseRefines ==
    ASSUME IInv, NEW p \in Proc, pipeclose(p)
    PROVE  Queue!Close
<1>1. pc[p] = "close" /\ UNCHANGED <<data, nread, nwrite, last, eof>>
  BY DEF pipeclose, buffer, seen
<1>2. UNCHANGED Contents
  BY <1>1, SameContents
<1>3. CASE p \in Writer
  <2>1. writeopen /\ writeopen' = FALSE /\ UNCHANGED readopen
    BY <1>1, <1>3 DEF pipeclose, IInv, EndsInv
  <2>2. QED
    BY <1>1, <1>2, <2>1 DEF Queue!Close
<1>4. CASE p \notin Writer
  <2>1. p \in Reader
    BY <1>4 DEF Proc
  <2>2. readopen /\ readopen' = FALSE /\ UNCHANGED writeopen
    BY <1>1, <1>4, <2>1 DEF pipeclose, IInv, EndsInv
  <2>3. QED
    BY <1>1, <1>2, <2>2 DEF Queue!Close
<1>5. QED
  BY <1>3, <1>4

\* What the other steps leave alone.
LEMMA OtherRefines ==
    ASSUME NEW p \in Proc,
           \/ Acquire(p) \/ Sleep(p) \/ WriteFull(p) \/ WriteDone(p) \/ ReadTest(p)
           \/ Call(p) \/ CloseCall(p) \/ Kill(p)
    PROVE  UNCHANGED <<Contents, last, readopen, writeopen, eof>>
<1>1. UNCHANGED <<data, nread, nwrite, last, readopen, writeopen, eof>>
  BY DEF Acquire, Sleep, WriteFull, WriteDone, ReadTest, Call, CloseCall, Kill, buffer, ends, seen
<1>2. QED
  BY <1>1, SameContents

(* A pipe implements a bounded FIFO queue with two ends, for any number of *)
(* readers and writers, any PIPESIZE and any multiple of it at which the   *)
(* counters wrap: no byte is lost, repeated or reordered, and read tells   *)
(* of the end of the file only when it has come.                           *)
THEOREM Refinement == Spec => ImplementsFifo
<1>1. Init => Queue!Init
  <2> SUFFICES ASSUME Init PROVE Queue!Init
    OBVIOUS
  <2>1. TypeOK
    BY InitIInv DEF IInv
  <2>2. ContentsIs /\ Used = 0
    BY <2>1, ContentsNow, CountedNow DEF Counted, Empty, Init
  <2>3. Contents = <<>>
    BY <2>2, EmptySeq DEF ContentsIs
  <2>4. QED
    BY <2>3 DEF Init, Queue!Init
<1>2. IInv /\ IInv' /\ [Next]_vars => [Queue!Next]_(Queue!vars)
  <2> SUFFICES ASSUME IInv, IInv', [Next]_vars
               PROVE  Queue!Next \/ UNCHANGED <<Contents, last, readopen, writeopen, eof>>
    BY DEF Queue!vars
  <2>1. CASE UNCHANGED vars
    BY <2>1, SameContents DEF vars, buffer, ends, seen
  <2>2. ASSUME NEW p \in Proc,
               (\E v \in Byte : WriteByte(p, v)) \/ ReadByte(p) \/ ReadDone(p) \/ pipeclose(p)
        PROVE  Queue!Next \/ UNCHANGED <<Contents, last, readopen, writeopen, eof>>
    BY <2>2, WriteByteRefines, ReadByteRefines, ReadDoneRefines, PipecloseRefines DEF Queue!Next
  <2>3. QED
    BY <2>1, <2>2, OtherRefines DEF Next, Step
<1>3. QED
  BY <1>1, <1>2, InitIInv, NextIInv, PTL DEF Spec, ImplementsFifo, Queue!Spec

=============================================================================
