-------------------------------- MODULE Pipe --------------------------------
(***************************************************************************)
(* pipe.c: one pipe, its reader and writer processes, the closing of its   *)
(* two ends and kill.                                                      *)
(*                                                                         *)
(* p->lock is explicit because pipewrite and piperead let go of it only in *)
(* sleep and on return; everything they do in between is one step per      *)
(* byte or per test.  kill takes only ptable.lock, so it may come between  *)
(* a test of proc->killed and the sleep that follows.  sleep and wakeup    *)
(* are the atomic operations Proc shows them to be.  The counters wrap     *)
(* like the code's uint (at a small multiple of PIPESIZE).                 *)
(***************************************************************************)
EXTENDS Integers, Sequences, FiniteSets

CONSTANTS PIPESIZE,
          Wrap,            \* 2^32 in the code
          Byte, NoByte,
          Reader, Writer,  \* processes that hold one end
          NoProc,
          Sizes            \* the n of the reads and writes

ASSUME PipeAssumption ==
    /\ PIPESIZE \in Nat \ {0}
    /\ Wrap \in Nat /\ Wrap > PIPESIZE /\ Wrap % PIPESIZE = 0
    /\ Sizes \subseteq Nat /\ Byte # {}
    /\ Reader \cap Writer = {} /\ NoProc \notin Reader \cup Writer

Proc == Reader \cup Writer

VARIABLES
    lock,                 \* the process that holds p->lock
    data, nread, nwrite, readopen, writeopen,  \* struct pipe
    freed,                \* kfree((char*)p) was called
    pc, i, n,             \* each process's place and loop counter
    isopen,               \* the process still has the file open
    killed,               \* proc->killed
    last, eof,            \* the last byte read; a read has returned 0
    untold                \* pipewrite has returned early, with the buffer full,
                          \* and nobody has woken the readers since

buffer == <<data, nread, nwrite>>
ends == <<readopen, writeopen, freed, isopen>>
seen == <<last, eof>>
vars == <<lock, buffer, ends, pc, i, n, killed, seen, untold>>

PC == {"idle", "enter", "loop", "copy", "sleep", "asleep", "close", "closed"}

Init ==
    /\ lock = NoProc
    /\ data \in [0..PIPESIZE - 1 -> {CHOOSE v \in Byte : TRUE}]
    /\ nread = 0 /\ nwrite = 0
    /\ readopen = TRUE /\ writeopen = TRUE /\ freed = FALSE
    /\ pc = [p \in Proc |-> "idle"]
    /\ i = [p \in Proc |-> 0]
    /\ n = [p \in Proc |-> 0]
    /\ isopen = [p \in Proc |-> TRUE]
    /\ killed = [p \in Proc |-> FALSE]
    /\ last = NoByte /\ eof = FALSE /\ untold = FALSE

goto(p, to) == pc' = [pc EXCEPT ![p] = to]

\* A system call returns: the lock is released and its locals are gone.
return(p) ==
    /\ lock' = NoProc
    /\ i' = [i EXCEPT ![p] = 0]
    /\ n' = [n EXCEPT ![p] = 0]

Inc(x) == (x + 1) % Wrap
Empty == nread = nwrite
\* Faulty variant: one byte too many.
FullTooLate == nwrite = (nread + PIPESIZE + 1) % Wrap
Full == nwrite = (nread + PIPESIZE) % Wrap

\* wakeup(&p->nread) and wakeup(&p->nwrite): sleepers go for the lock again.
wakeup(S, f) == [p \in Proc |-> IF p \in S /\ f[p] = "asleep" THEN "enter" ELSE f[p]]

-----------------------------------------------------------------------------
(* read(fd, addr, n) or write(fd, addr, n): on to acquire(&p->lock).       *)
Call(p) ==
    /\ pc[p] = "idle" /\ isopen[p] /\ ~killed[p]
    /\ \E k \in Sizes : n' = [n EXCEPT ![p] = k]
    /\ goto(p, "enter")
    /\ UNCHANGED <<lock, buffer, ends, i, killed, seen, untold>>

(* acquire(&p->lock), on entry and when sleep returns.                     *)
Acquire(p) ==
    /\ pc[p] = "enter" /\ lock = NoProc
    /\ lock' = p
    /\ goto(p, "loop")
    /\ UNCHANGED <<buffer, ends, i, n, killed, seen, untold>>

(* sleep(chan, &p->lock).                                                  *)
Sleep(p) ==
    /\ pc[p] = "sleep"
    /\ lock' = NoProc
    /\ goto(p, "asleep")
    /\ UNCHANGED <<buffer, ends, i, n, killed, seen, untold>>

(* pipewrite with the buffer full: give up, or wake the readers and sleep. *)
WriteFull(p) ==
    /\ p \in Writer /\ pc[p] = "loop" /\ i[p] < n[p] /\ Full
    /\ IF ~readopen \/ killed[p]
       THEN goto(p, "idle") /\ return(p) /\ untold' = TRUE
       ELSE /\ pc' = [wakeup(Reader, pc) EXCEPT ![p] = "sleep"]
            /\ untold' = FALSE
            /\ UNCHANGED <<lock, i, n>>
    /\ UNCHANGED <<buffer, ends, killed, seen>>

(* p->data[p->nwrite++ % PIPESIZE] = addr[i].                              *)
WriteByte(p, v) ==
    /\ p \in Writer /\ pc[p] = "loop" /\ i[p] < n[p] /\ ~Full
    /\ data' = [data EXCEPT ![nwrite % PIPESIZE] = v]
    /\ nwrite' = Inc(nwrite)
    /\ i' = [i EXCEPT ![p] = @ + 1]
    /\ UNCHANGED <<lock, nread, ends, pc, n, killed, seen, untold>>

(* All n bytes are written.                                                *)
WriteDone(p) ==
    /\ p \in Writer /\ pc[p] = "loop" /\ i[p] = n[p]
    /\ pc' = [wakeup(Reader, pc) EXCEPT ![p] = "idle"]
    /\ return(p)
    /\ untold' = FALSE
    /\ UNCHANGED <<buffer, ends, killed, seen>>

(* piperead's first loop: wait for a byte or for the end of the file.      *)
ReadTest(p) ==
    /\ p \in Reader /\ pc[p] = "loop"
    /\ \/ Empty /\ writeopen /\ killed[p] /\ goto(p, "idle") /\ return(p)
       \/ Empty /\ writeopen /\ ~killed[p] /\ goto(p, "sleep") /\ UNCHANGED <<lock, i, n>>
       \/ ~(Empty /\ writeopen) /\ goto(p, "copy") /\ UNCHANGED <<lock, i, n>>
    /\ UNCHANGED <<buffer, ends, killed, seen, untold>>

(* addr[i] = p->data[p->nread++ % PIPESIZE].                               *)
ReadByte(p) ==
    /\ p \in Reader /\ pc[p] = "copy" /\ i[p] < n[p] /\ ~Empty
    /\ last' = data[nread % PIPESIZE]
    /\ nread' = Inc(nread)
    /\ i' = [i EXCEPT ![p] = @ + 1]
    /\ UNCHANGED <<lock, data, nwrite, ends, pc, n, killed, eof, untold>>

\* Faulty variant: the writers are woken only when all n bytes could be read.
ReadDoneNoWakeup(p) ==
    /\ p \in Reader /\ pc[p] = "copy" /\ (i[p] = n[p] \/ Empty)
    /\ pc' = [(IF i[p] = n[p] THEN wakeup(Writer, pc) ELSE pc) EXCEPT ![p] = "idle"]
    /\ return(p)
    /\ eof' = (eof \/ (n[p] > 0 /\ i[p] = 0))
    /\ UNCHANGED <<buffer, ends, killed, last, untold>>

(* n bytes read, or none left: wake the writers and return i.              *)
ReadDone(p) ==
    /\ p \in Reader /\ pc[p] = "copy" /\ (i[p] = n[p] \/ Empty)
    /\ pc' = [wakeup(Writer, pc) EXCEPT ![p] = "idle"]
    /\ return(p)
    /\ eof' = (eof \/ (n[p] > 0 /\ i[p] = 0))
    /\ UNCHANGED <<buffer, ends, killed, last, untold>>

-----------------------------------------------------------------------------
\* Faulty variant: every close of a shared file closes the pipe's end.
CloseShared(p) ==
    /\ pc[p] = "idle" /\ isopen[p]
    /\ isopen' = [isopen EXCEPT ![p] = FALSE]
    /\ goto(p, "close")
    /\ UNCHANGED <<lock, buffer, readopen, writeopen, freed, i, n, killed, seen, untold>>

(* close(fd), by the process or by its exit; the last holder of an end     *)
(* goes on to pipeclose.                                                   *)
CloseCall(p) ==
    /\ pc[p] = "idle" /\ isopen[p]
    /\ isopen' = [isopen EXCEPT ![p] = FALSE]
    /\ LET mine == IF p \in Reader THEN Reader ELSE Writer
       IN goto(p, IF \E o \in mine \ {p} : isopen[o] THEN "closed" ELSE "close")
    /\ UNCHANGED <<lock, buffer, readopen, writeopen, freed, i, n, killed, seen, untold>>

(* pipeclose: wake the other side; the second one to close frees the pipe. *)
pipeclose(p) ==
    /\ pc[p] = "close" /\ lock = NoProc
    /\ IF p \in Writer
       THEN /\ writeopen' = FALSE /\ untold' = FALSE /\ UNCHANGED readopen
            /\ pc' = [wakeup(Reader, pc) EXCEPT ![p] = "closed"]
       ELSE /\ readopen' = FALSE /\ UNCHANGED <<writeopen, untold>>
            /\ pc' = [wakeup(Writer, pc) EXCEPT ![p] = "closed"]
    /\ freed' = (~readopen' /\ ~writeopen')
    /\ UNCHANGED <<lock, buffer, isopen, i, n, killed, seen>>

(* kill: p->killed = 1, and a sleeping process runs again.                 *)
Kill(p) ==
    /\ ~killed[p]
    /\ killed' = [killed EXCEPT ![p] = TRUE]
    /\ pc' = wakeup({p}, pc)
    /\ UNCHANGED <<lock, buffer, ends, i, n, seen, untold>>

Step(p) ==
    \/ Acquire(p) \/ Sleep(p)
    \/ WriteFull(p) \/ (\E v \in Byte : WriteByte(p, v)) \/ WriteDone(p)
    \/ ReadTest(p) \/ ReadByte(p) \/ ReadDone(p)
    \/ pipeclose(p)

Next == \E p \in Proc : Step(p) \/ Call(p) \/ CloseCall(p) \/ Kill(p)

Spec == Init /\ [][Next]_vars

-----------------------------------------------------------------------------
(* Types of the pipe and of the processes' locals.  A pipe that pipeclose  *)
(* has freed is one nobody is in or can enter again.                       *)
TypeOK ==
    /\ lock \in Proc \cup {NoProc}
    /\ data \in [0..PIPESIZE - 1 -> Byte]
    /\ nread \in 0..Wrap - 1 /\ nwrite \in 0..Wrap - 1
    /\ readopen \in BOOLEAN /\ writeopen \in BOOLEAN /\ freed \in BOOLEAN
    /\ pc \in [Proc -> PC]
    /\ n \in [Proc -> Sizes \cup {0}]
    /\ i \in [Proc -> Nat] /\ \A p \in Proc : i[p] <= n[p]
    /\ isopen \in [Proc -> BOOLEAN] /\ killed \in [Proc -> BOOLEAN]
    /\ last \in Byte \cup {NoByte} /\ eof \in BOOLEAN /\ untold \in BOOLEAN
    /\ freed => lock = NoProc /\ \A p \in Proc : pc[p] = "closed"

\* The bytes written and not yet read; the difference wraps with the counters.
Contents ==
    [k \in 1..(nwrite + Wrap - nread) % Wrap |-> data[(nread + k - 1) % PIPESIZE]]

Queue == INSTANCE Fifo WITH q <- Contents, Capacity <- PIPESIZE

(* A pipe is a bounded FIFO queue: writers and readers that sleep in the   *)
(* middle of their loops, and counters that wrap around, lose, repeat and  *)
(* reorder no byte, and read returns 0 only at the real end of the file.   *)
ImplementsFifo == Queue!Spec

\* Nothing to read, and someone could still write.
ReaderMustWait == Empty /\ writeopen

(* No wakeup is lost: whenever the lock is free, a sleeping writer has no  *)
(* room and may still be read from, and a sleeping reader has nothing to   *)
(* read and may still be written to.  The one exception is the wakeup that *)
(* pipewrite's early return leaves out: a killed writer that has filled    *)
(* the buffer leaves its bytes behind, and a reader sleeps beside them     *)
(* until another writer gets to wakeup(&p->nread) or the last one closes.  *)
SleepersMustWait ==
    lock = NoProc =>
        /\ \A w \in Writer : pc[w] = "asleep" => Full /\ readopen
        /\ \A r \in Reader : pc[r] = "asleep" => ReaderMustWait \/ untold
=============================================================================
