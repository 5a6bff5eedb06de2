----------------------------- MODULE FileTable -----------------------------
(***************************************************************************)
(* The table of open files (file.c), the descriptors of each process, and  *)
(* the system calls that move references between them: open, pipe, dup,    *)
(* close, read and write (sysfile.c, pipe.c), fork and exit (proc.c).      *)
(*                                                                         *)
(* A step is a critical section of ftable.lock, with what the process does *)
(* to its own descriptors, or one call into the pipe or i-node layer.      *)
(* Nobody but the process changes its descriptors; the parent fills those  *)
(* of a child that does not run yet.                                       *)
(***************************************************************************)
EXTENDS Integers, FiniteSets

CONSTANTS Proc, NoProc,
          Init1,     \* the process that runs first and does not exit
          NFILE,     \* size of ftable.file
          NOFILE,    \* descriptors of a process
          NPipe      \* pages kalloc can give to pipes

ASSUME FileTableAssumption ==
    /\ IsFiniteSet(Proc) /\ Init1 \in Proc /\ NoProc \notin Proc
    /\ NFILE \in Nat /\ NOFILE \in Nat /\ NPipe \in Nat

File == 1..NFILE
Fd == 1..NOFILE
Pipe == 1..NPipe
Local == 1..2        \* pipealloc's *f0 and *f1; the others use the first
Null == 0

VARIABLES
    ref, type, pipe, writable,   \* struct file
    ofile,                       \* proc->ofile
    readopen, writeopen, pages,  \* the pipes, and the pages they occupy
    iref,                        \* references to i-nodes
    life,                        \* does the process run?
    pc,
    held,                        \* references in a call's locals, not in ofile
    arg, fd,                     \* the file of a dup, read or write; dup's descriptor
    ff,                          \* fileclose's copy of the closed file
    child                        \* fork's new process

ftable == <<ref, type, pipe, writable>>
pipes == <<readopen, writeopen, pages>>
vars == <<ftable, ofile, pipes, iref, life, pc, held, arg, fd, ff, child>>

Type == {"NONE", "PIPE", "INODE"}
PC == {"idle", "open", "opened", "pipe1", "pipe2", "pipe3", "dup", "use", "fork",
       "fileclose", "pipeclose", "iput", "panic"}
NoCopy == [pipe |-> Null, writable |-> FALSE]

Init ==
    /\ ref = [f \in File |-> 0]
    /\ type = [f \in File |-> "NONE"]
    /\ pipe = [f \in File |-> Null]
    /\ writable = [f \in File |-> FALSE]
    /\ ofile = [p \in Proc |-> [d \in Fd |-> Null]]
    /\ readopen = [x \in Pipe |-> FALSE] /\ writeopen = [x \in Pipe |-> FALSE]
    /\ pages = {} /\ iref = 0
    /\ life = [p \in Proc |-> IF p = Init1 THEN "alive" ELSE "unused"]
    /\ pc = [p \in Proc |-> "idle"]
    /\ held = [p \in Proc |-> [k \in Local |-> Null]]
    /\ arg = [p \in Proc |-> Null] /\ fd = [p \in Proc |-> Null]
    /\ ff = [p \in Proc |-> NoCopy]
    /\ child = [p \in Proc |-> NoProc]

goto(p, to) == pc' = [pc EXCEPT ![p] = to]
First(S) == CHOOSE x \in S : \A y \in S : x <= y
Call(p) == pc[p] = "idle" /\ life[p] = "alive"

Unused == {f \in File : ref[f] = 0}
FreeFds(p) == {d \in Fd : ofile[p][d] = Null}

(* filealloc: the first unused file, held by the call that asked for it.   *)
filealloc(p, k) ==
    /\ Unused # {}
    /\ ref' = [ref EXCEPT ![First(Unused)] = 1]
    /\ held' = [held EXCEPT ![p][k] = First(Unused)]

(* fdalloc: the first free descriptor.                                     *)
fdalloc(p, f) == [ofile[p] EXCEPT ![First(FreeFds(p))] = f]

(* filedup, with its panic.                                                *)
filedup(p, f, next) ==
    IF ref[f] < 1
    THEN goto(p, "panic") /\ UNCHANGED ref
    ELSE goto(p, next) /\ ref' = [ref EXCEPT ![f] = @ + 1]

-----------------------------------------------------------------------------
(* open: namei or create has returned an i-node.                           *)
Open(p) ==
    /\ Call(p)
    /\ iref' = iref + 1
    /\ goto(p, "open")
    /\ UNCHANGED <<ftable, ofile, pipes, life, held, arg, fd, ff, child>>

(* open: filealloc.                                                        *)
OpenAlloc(p) ==
    /\ pc[p] = "open"
    /\ filealloc(p, 1)
    /\ goto(p, "opened")
    /\ UNCHANGED <<type, pipe, writable, ofile, pipes, iref, life, arg, fd, ff, child>>

(* open: fdalloc succeeds and the fields are set.                          *)
OpenDone(p) ==
    LET f == held[p][1] IN
    /\ pc[p] = "opened" /\ FreeFds(p) # {}
    /\ ofile' = [ofile EXCEPT ![p] = fdalloc(p, f)]
    /\ held' = [held EXCEPT ![p][1] = Null]
    /\ type' = [type EXCEPT ![f] = "INODE"]
    /\ goto(p, "idle")
    /\ UNCHANGED <<ref, pipe, writable, pipes, iref, life, arg, fd, ff, child>>

(* open without a free file or descriptor: fileclose(f) of a file nobody   *)
(* else knows, and iunlockput.                                             *)
OpenFail(p) ==
    /\ \/ pc[p] = "open" /\ Unused = {} /\ UNCHANGED <<ref, held>>
       \/ /\ pc[p] = "opened" /\ FreeFds(p) = {}
          /\ ref' = [ref EXCEPT ![held[p][1]] = 0]
          /\ held' = [held EXCEPT ![p][1] = Null]
    /\ iref' = iref - 1
    /\ goto(p, "idle")
    /\ UNCHANGED <<type, pipe, writable, ofile, pipes, life, arg, fd, ff, child>>

(* pipealloc: the first file; without one, pipe fails.                     *)
PipeCall(p) ==
    /\ Call(p)
    /\ filealloc(p, 1)
    /\ goto(p, "pipe1")
    /\ UNCHANGED <<type, pipe, writable, ofile, pipes, iref, life, arg, fd, ff, child>>

(* The second file, or close the first one and fail.                       *)
PipeAlloc(p) ==
    /\ pc[p] = "pipe1"
    /\ \/ filealloc(p, 2) /\ goto(p, "pipe2")
       \/ Unused = {} /\ goto(p, "fileclose") /\ UNCHANGED <<ref, held>>
    /\ UNCHANGED <<type, pipe, writable, ofile, pipes, iref, life, arg, fd, ff, child>>

(* kalloc gives the pipe a page and the files are set up, or it fails and  *)
(* both files are closed.                                                  *)
PipeKalloc(p) ==
    LET r == held[p][1]  w == held[p][2] IN
    /\ pc[p] = "pipe2"
    /\ \/ \E x \in Pipe \ pages :
            /\ pages' = pages \cup {x}
            /\ readopen' = [readopen EXCEPT ![x] = TRUE]
            /\ writeopen' = [writeopen EXCEPT ![x] = TRUE]
            /\ type' = [type EXCEPT ![r] = "PIPE", ![w] = "PIPE"]
            /\ pipe' = [pipe EXCEPT ![r] = x, ![w] = x]
            /\ writable' = [writable EXCEPT ![r] = FALSE, ![w] = TRUE]
            /\ goto(p, "pipe3")
       \/ goto(p, "fileclose") /\ UNCHANGED <<type, pipe, writable, pipes>>
    /\ UNCHANGED <<ref, ofile, iref, life, held, arg, fd, ff, child>>

\* Faulty variant: a failing pipe leaves its first descriptor behind.
PipeDoneKeepsFd(p) ==
    LET r == held[p][1]  w == held[p][2]
        one == fdalloc(p, r)
        left == {d \in Fd : one[d] = Null}
    IN
    /\ pc[p] = "pipe3"
    /\ IF FreeFds(p) # {} /\ left # {}
       THEN /\ ofile' = [ofile EXCEPT ![p] = [one EXCEPT ![First(left)] = w]]
            /\ held' = [held EXCEPT ![p] = [k \in Local |-> Null]]
            /\ goto(p, "idle")
       ELSE /\ ofile' = IF FreeFds(p) # {} THEN [ofile EXCEPT ![p] = one] ELSE ofile
            /\ goto(p, "fileclose") /\ UNCHANGED held
    /\ UNCHANGED <<ftable, pipes, iref, life, arg, fd, ff, child>>

(* sys_pipe: two descriptors, or none and both files are closed.           *)
PipeDone(p) ==
    LET r == held[p][1]  w == held[p][2]
        one == fdalloc(p, r)
        left == {d \in Fd : one[d] = Null}
    IN
    /\ pc[p] = "pipe3"
    /\ IF FreeFds(p) # {} /\ left # {}
       THEN /\ ofile' = [ofile EXCEPT ![p] = [one EXCEPT ![First(left)] = w]]
            /\ held' = [held EXCEPT ![p] = [k \in Local |-> Null]]
            /\ goto(p, "idle")
       ELSE goto(p, "fileclose") /\ UNCHANGED <<ofile, held>>
    /\ UNCHANGED <<ftable, pipes, iref, life, arg, fd, ff, child>>

-----------------------------------------------------------------------------
\* Faulty variant: the new descriptor gets no reference.
DupForgets(p, d) ==
    /\ Call(p) /\ ofile[p][d] # Null /\ FreeFds(p) # {}
    /\ ofile' = [ofile EXCEPT ![p] = fdalloc(p, ofile[p][d])]
    /\ UNCHANGED <<ftable, pipes, iref, life, pc, held, arg, fd, ff, child>>

(* dup: first the descriptor ...                                           *)
Dup(p, d) ==
    /\ Call(p) /\ ofile[p][d] # Null /\ FreeFds(p) # {}
    /\ ofile' = [ofile EXCEPT ![p] = fdalloc(p, ofile[p][d])]
    /\ arg' = [arg EXCEPT ![p] = ofile[p][d]]
    /\ fd' = [fd EXCEPT ![p] = First(FreeFds(p))]
    /\ goto(p, "dup")
    /\ UNCHANGED <<ftable, pipes, iref, life, held, ff, child>>

(* ... then its reference.                                                 *)
DupRef(p) ==
    /\ pc[p] = "dup"
    /\ filedup(p, arg[p], "idle")
    /\ arg' = [arg EXCEPT ![p] = Null]
    /\ fd' = [fd EXCEPT ![p] = Null]
    /\ UNCHANGED <<type, pipe, writable, ofile, pipes, iref, life, held, ff, child>>

(* read and write use the file without a reference of their own ...        *)
Use(p, d) ==
    /\ Call(p) /\ ofile[p][d] # Null
    /\ arg' = [arg EXCEPT ![p] = ofile[p][d]]
    /\ goto(p, "use")
    /\ UNCHANGED <<ftable, ofile, pipes, iref, life, held, fd, ff, child>>

(* ... for as long as they like.                                           *)
UseDone(p) ==
    /\ pc[p] = "use"
    /\ arg' = [arg EXCEPT ![p] = Null]
    /\ goto(p, "idle")
    /\ UNCHANGED <<ftable, ofile, pipes, iref, life, held, fd, ff, child>>

(* close: the descriptor is free, its reference goes to fileclose.         *)
Close(p, d) ==
    /\ Call(p) /\ ofile[p][d] # Null
    /\ held' = [held EXCEPT ![p][1] = ofile[p][d]]
    /\ ofile' = [ofile EXCEPT ![p][d] = Null]
    /\ goto(p, "fileclose")
    /\ UNCHANGED <<ftable, pipes, iref, life, arg, fd, ff, child>>

(* exit begins to close its files ...                                      *)
Exit(p) ==
    /\ Call(p) /\ p # Init1
    /\ life' = [life EXCEPT ![p] = "exiting"]
    /\ goto(p, "fileclose")
    /\ UNCHANGED <<ftable, ofile, pipes, iref, held, arg, fd, ff, child>>

\* What a call has still to close, and the descriptors of an exit.
Held(p) == {k \in Local : held[p][k] # Null}
OpenFds(p) == {d \in Fd : life[p] = "exiting" /\ ofile[p][d] # Null}

(* ... and passes them to fileclose one after the other.  (The code clears *)
(* the descriptor after fileclose; nobody else looks at it.)               *)
ExitFile(p) ==
    LET d == First(OpenFds(p)) IN
    /\ pc[p] = "fileclose" /\ Held(p) = {} /\ OpenFds(p) # {}
    /\ held' = [held EXCEPT ![p][1] = ofile[p][d]]
    /\ ofile' = [ofile EXCEPT ![p][d] = Null]
    /\ UNCHANGED <<ftable, pipes, iref, life, pc, arg, fd, ff, child>>

\* Faulty variant: the pipe's end is closed with every descriptor.
FileCloseShared(p) ==
    LET k == First(Held(p))  f == held[p][k] IN
    /\ pc[p] = "fileclose" /\ Held(p) # {}
    /\ held' = [held EXCEPT ![p][k] = Null]
    /\ ref' = [ref EXCEPT ![f] = @ - 1]
    /\ type' = IF ref[f] > 1 THEN type ELSE [type EXCEPT ![f] = "NONE"]
    /\ IF type[f] = "PIPE"
       THEN /\ ff' = [ff EXCEPT ![p] = [pipe |-> pipe[f], writable |-> writable[f]]]
            /\ goto(p, "pipeclose")
       ELSE goto(p, IF type[f] = "INODE" THEN "iput" ELSE "fileclose") /\ UNCHANGED ff
    /\ UNCHANGED <<pipe, writable, ofile, pipes, iref, life, arg, fd, child>>

(* fileclose of the first file held: drop the reference; with the last one *)
(* the entry is free and its copy is closed after ftable.lock is released. *)
(* (The fields of a free entry are never read: they are cleared here.)     *)
FileClose(p) ==
    LET k == First(Held(p))  f == held[p][k] IN
    /\ pc[p] = "fileclose" /\ Held(p) # {}
    /\ held' = [held EXCEPT ![p][k] = Null]
    /\ \/ /\ ref[f] < 1
          /\ goto(p, "panic")
          /\ UNCHANGED <<ftable, ff>>
       \/ /\ ref[f] > 1
          /\ ref' = [ref EXCEPT ![f] = @ - 1]
          /\ UNCHANGED <<type, pipe, writable, ff, pc>>
       \/ /\ ref[f] = 1
          /\ ref' = [ref EXCEPT ![f] = 0]
          /\ type' = [type EXCEPT ![f] = "NONE"]
          /\ pipe' = [pipe EXCEPT ![f] = Null]
          /\ writable' = [writable EXCEPT ![f] = FALSE]
          /\ ff' = IF type[f] = "PIPE"
                   THEN [ff EXCEPT ![p] = [pipe |-> pipe[f], writable |-> writable[f]]]
                   ELSE ff
          /\ goto(p, CASE type[f] = "PIPE" -> "pipeclose"
                       [] type[f] = "INODE" -> "iput"
                       [] OTHER -> "fileclose")
    /\ UNCHANGED <<ofile, pipes, iref, life, arg, fd, child>>

(* pipeclose(ff.pipe, ff.writable); the second end frees the page.         *)
PipeClose(p) ==
    LET x == ff[p].pipe IN
    /\ pc[p] = "pipeclose"
    /\ writeopen' = IF ff[p].writable THEN [writeopen EXCEPT ![x] = FALSE] ELSE writeopen
    /\ readopen' = IF ff[p].writable THEN readopen ELSE [readopen EXCEPT ![x] = FALSE]
    /\ pages' = IF readopen'[x] \/ writeopen'[x] THEN pages ELSE pages \ {x}
    /\ ff' = [ff EXCEPT ![p] = NoCopy]
    /\ goto(p, "fileclose")
    /\ UNCHANGED <<ftable, ofile, iref, life, held, arg, fd, child>>

(* iput(ff.ip), in a transaction.                                          *)
IputFile(p) ==
    /\ pc[p] = "iput"
    /\ iref' = iref - 1
    /\ goto(p, "fileclose")
    /\ UNCHANGED <<ftable, ofile, pipes, life, held, arg, fd, ff, child>>

(* Nothing is left to close: the call returns, or the process is gone.     *)
CloseDone(p) ==
    /\ pc[p] = "fileclose" /\ Held(p) = {} /\ OpenFds(p) = {}
    /\ life' = IF life[p] = "exiting" THEN [life EXCEPT ![p] = "unused"] ELSE life
    /\ goto(p, "idle")
    /\ UNCHANGED <<ftable, ofile, pipes, iref, held, arg, fd, ff, child>>

(* fork: allocproc has found a process ...                                 *)
Fork(p, c) ==
    /\ Call(p) /\ life[c] = "unused"
    /\ life' = [life EXCEPT ![c] = "embryo"]
    /\ child' = [child EXCEPT ![p] = c]
    /\ goto(p, "fork")
    /\ UNCHANGED <<ftable, ofile, pipes, iref, held, arg, fd, ff>>

\* The descriptors that fork has still to copy.
ToCopy(p) == {d \in Fd : ofile[p][d] # Null /\ ofile[child[p]][d] = Null}

(* ... which gets each descriptor with filedup ...                         *)
ForkDup(p) ==
    LET d == First(ToCopy(p)) IN
    /\ pc[p] = "fork" /\ ToCopy(p) # {}
    /\ filedup(p, ofile[p][d], "fork")
    /\ ofile' = [ofile EXCEPT ![child[p]][d] = ofile[p][d]]
    /\ UNCHANGED <<type, pipe, writable, pipes, iref, life, held, arg, fd, ff, child>>

(* ... and runs.                                                           *)
ForkDone(p) ==
    /\ pc[p] = "fork" /\ ToCopy(p) = {}
    /\ life' = [life EXCEPT ![child[p]] = "alive"]
    /\ child' = [child EXCEPT ![p] = NoProc]
    /\ goto(p, "idle")
    /\ UNCHANGED <<ftable, ofile, pipes, iref, held, arg, fd, ff>>

Step(p) ==
    \/ OpenAlloc(p) \/ OpenDone(p) \/ OpenFail(p)
    \/ PipeAlloc(p) \/ PipeKalloc(p) \/ PipeDone(p)
    \/ DupRef(p) \/ UseDone(p)
    \/ ExitFile(p) \/ FileClose(p) \/ PipeClose(p) \/ IputFile(p) \/ CloseDone(p)
    \/ ForkDup(p) \/ ForkDone(p)

Syscall(p) ==
    \/ Open(p) \/ PipeCall(p) \/ Exit(p)
    \/ \E d \in Fd : Dup(p, d) \/ Use(p, d) \/ Close(p, d)
    \/ \E c \in Proc : Fork(p, c)

Next == \E p \in Proc : Step(p) \/ Syscall(p)

Spec == Init /\ [][Next]_vars

-----------------------------------------------------------------------------
(* Types of the table, the descriptors, the pipes and the calls' locals.   *)
(* Nobody has met a panic of filedup or fileclose.                         *)
TypeOK ==
    /\ ref \in [File -> Nat] /\ type \in [File -> Type]
    /\ pipe \in [File -> Pipe \cup {Null}] /\ writable \in [File -> BOOLEAN]
    /\ ofile \in [Proc -> [Fd -> File \cup {Null}]]
    /\ readopen \in [Pipe -> BOOLEAN] /\ writeopen \in [Pipe -> BOOLEAN]
    /\ pages \subseteq Pipe /\ iref \in Nat
    /\ life \in [Proc -> {"unused", "embryo", "alive", "exiting"}]
    /\ pc \in [Proc -> PC \ {"panic"}]
    /\ held \in [Proc -> [Local -> File \cup {Null}]]
    /\ arg \in [Proc -> File \cup {Null}] /\ fd \in [Proc -> Fd \cup {Null}]
    /\ child \in [Proc -> Proc \cup {NoProc}]
    /\ ff \in [Proc -> [pipe : Pipe \cup {Null}, writable : BOOLEAN]]

\* Where a process keeps references: its descriptors and a call's locals.
\* dup's new descriptor does not count before filedup.
Place == Proc \X (1..NOFILE + 2)
kept == [s \in Place |->
            IF s[2] > NOFILE THEN held[s[1]][s[2] - NOFILE]
            ELSE IF pc[s[1]] = "dup" /\ s[2] = fd[s[1]] THEN Null
            ELSE ofile[s[1]][s[2]]]
References(f) == Cardinality({s \in Place : kept[s] = f})

(* f->ref counts the descriptors and calls that lead to f, through failing *)
(* calls, forks and exits.                                                 *)
RefsCounted == \A f \in File : ref[f] = References(f)

\* Someone can still reach this end of pipe x, or is about to close it.
Reached(x, w) ==
    \/ \E f \in File : ref[f] > 0 /\ type[f] = "PIPE" /\ pipe[f] = x /\ writable[f] = w
    \/ \E p \in Proc : pc[p] = "pipeclose" /\ ff[p] = [pipe |-> x, writable |-> w]

(* A pipe's end is open exactly as long as a file leads to it, so readers  *)
(* see the end of the file when the last writer is gone and not before;    *)
(* its page is free exactly when both ends are closed, and an i-node is    *)
(* referenced once for every file and call that needs it.  A read or write *)
(* that takes its time keeps the file it was given: nobody else can close  *)
(* it, free its pipe or have its entry reused.                             *)
ClosedWithLast ==
    /\ \A x \in Pipe :
        /\ readopen[x] <=> Reached(x, FALSE)
        /\ writeopen[x] <=> Reached(x, TRUE)
        /\ x \in pages <=> (readopen[x] \/ writeopen[x])
    /\ iref = Cardinality({f \in File : ref[f] > 0 /\ type[f] = "INODE"})
                + Cardinality({p \in Proc : pc[p] \in {"open", "opened", "iput"}})
    /\ \A p \in Proc : pc[p] = "use" =>
        /\ ref[arg[p]] > 0 /\ type[arg[p]] # "NONE"
        /\ type[arg[p]] = "PIPE" =>
            IF writable[arg[p]] THEN writeopen[pipe[arg[p]]] ELSE readopen[pipe[arg[p]]]
=============================================================================
