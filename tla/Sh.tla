--------------------------------- MODULE Sh ---------------------------------
(***************************************************************************)
(* The shell at work (user/sh.c): main reads a line, forks a child that    *)
(* parses it and runs the tree (runcmd), and waits; runcmd forks, pipes,   *)
(* redirects, waits and execs.  The programs are cat ("c"), here without   *)
(* arguments, which copies its input to its output, and echo ("e"), which  *)
(* writes and reads nothing; any other name cannot be executed.  A cd line *)
(* is a chdir() of the shell itself, which changes nothing kept here.      *)
(*                                                                         *)
(* A step is what a process does up to a call that others can notice:      *)
(* fork, wait, a read or a write, the closing of the ends of a pipe.  Of a *)
(* pipe only how full it is counts.  fork and pipe can fail.  Orphans go   *)
(* to init, which reaps them at once and starts the shell again when it    *)
(* has exited; an entry of the process table is kept for it.               *)
(***************************************************************************)
EXTENDS ShParser

CONSTANTS NPROC, NPIPE, PIPESIZE,
          Lines,   \* the lines the user may type
          Output,  \* what an echo writes
          MaxLeft  \* processes of earlier lines when the user types the next

ASSUME ShAssumption ==
    {NPROC, NPIPE, PIPESIZE, Output} \subseteq Nat \ {0} /\ MaxLeft \in Nat

VARIABLES
    pc,            \* where a process is; "unused" and "zombie" too
    parent,
    cmd,           \* the command a process has to run
    fd,            \* its descriptors
    p01,           \* runcmd's int p[2]
    todo,          \* what an echo has still to write, what cat has read
    bg,            \* started in the background, or left behind by a panic
    full           \* the bytes in each pipe

shVars == <<pc, parent, cmd, fd, p01, todo, bg, full>>

Proc == 1..NPROC
Shell == 1
Init1 == 0         \* init, the parent of orphans
FD == 0..4
Console == <<"console", 0>>
File == <<"file", 0>>
Closed == <<"closed", 0>>

ShInit ==
    /\ pc = [p \in Proc |-> IF p = Shell THEN "getcmd" ELSE "unused"]
    /\ parent = [p \in Proc |-> Init1]
    /\ cmd = [p \in Proc |-> EXEC(<<>>)]
    /\ fd = [p \in Proc |-> [f \in FD |-> IF p = Shell /\ f <= 2 THEN Console ELSE Closed]]
    /\ p01 = [p \in Proc |-> <<>>]
    /\ todo = [p \in Proc |-> 0]
    /\ bg = [p \in Proc |-> FALSE]
    /\ full = [k \in 1..NPIPE |-> 0]

\* The command as runcmd sees it: nulterminate has made strings of the words.
RECURSIVE Strings(_, _)
Strings(s, c) ==
    LET word(x) == SubSeq(s, x[1], x[2] - 1) IN
    CASE c.type = "EXEC" -> EXEC([i \in DOMAIN c.argv |-> word(c.argv[i])])
      [] c.type = "REDIR" -> REDIR(Strings(s, c.cmd), word(c.file), c.fd)
      [] c.type = "BACK" -> BACK(Strings(s, c.cmd))
      [] OTHER -> [c EXCEPT !.left = Strings(s, @), !.right = Strings(s, @)]

\* What parsecmd makes of each line.
Parsed == [l \in Lines |-> Strings(l, parsecmd(l).c)]

\* Descriptors: the lowest free one is taken.
lowest(d) == Min({f \in FD : d[f] = Closed})
close(d, f) == [d EXCEPT ![f] = Closed]
dup(d, f) == [d EXCEPT ![lowest(d)] = d[f]]
open(d, x) == [d EXCEPT ![lowest(d)] = x]

Holds(x) == \E p \in Proc : x \in Range(fd[p])
FreePipes == {k \in 1..NPIPE : ~Holds(<<"r", k>>) /\ ~Holds(<<"w", k>>)}
FreeProcs == {p \in Proc \ {Shell} : pc[p] = "unused"}

\* exit() of p: the descriptors are closed, the children become init's; S
\* are processes that run on because of a panic.
exit(p, S) ==
    /\ pc' = [q \in Proc |->
                IF q = p THEN (IF parent[p] = Init1 THEN "unused" ELSE "zombie")
                ELSE IF parent[q] = p /\ pc[q] = "zombie" THEN "unused" ELSE pc[q]]
    /\ parent' = [q \in Proc |-> IF parent[q] = p THEN Init1 ELSE parent[q]]
    /\ fd' = [fd EXCEPT ![p] = [f \in FD |-> Closed]]
    /\ p01' = [p01 EXCEPT ![p] = <<>>]
    /\ cmd' = [cmd EXCEPT ![p] = EXEC(<<>>)]
    /\ todo' = [todo EXCEPT ![p] = 0]
    /\ bg' = [q \in Proc |-> q # p /\ (bg[q] \/ q \in S)]

Children(p) == {q \in Proc : parent[q] = p /\ pc[q] # "unused"}

RECURSIVE Descendants(_)
Descendants(p) == Children(p) \cup UNION {Descendants(q) : q \in Children(p)}

\* fork1(): p goes on at pl with descriptors dp, its child runs c with dc.
fork1(p, pl, dp, locals, c, dc, back) ==
    \E q \in FreeProcs :
        /\ q = Min(FreeProcs)
        /\ pc' = [pc EXCEPT ![p] = pl, ![q] = "runcmd"]
        /\ parent' = [parent EXCEPT ![q] = p]
        /\ cmd' = [cmd EXCEPT ![q] = c]
        /\ fd' = [fd EXCEPT ![p] = dp, ![q] = dc]
        /\ p01' = [p01 EXCEPT ![p] = locals]
        /\ bg' = [bg EXCEPT ![q] = back]
        /\ UNCHANGED todo

\* wait(): reap a zombie child.
wait(p, pl) ==
    \E q \in Children(p) :
        /\ pc[q] = "zombie"
        /\ pc' = [pc EXCEPT ![p] = pl, ![q] = "unused"]
        /\ parent' = [parent EXCEPT ![q] = Init1]
        /\ bg' = [bg EXCEPT ![q] = FALSE]

-----------------------------------------------------------------------------
(* main(): fork1 and the child's parsecmd, which after a syntax error      *)
(* leaves it nothing to run.                                               *)
Command(l) ==
    /\ pc[Shell] = "getcmd"
    /\ Cardinality(Proc \ (FreeProcs \cup {Shell})) <= MaxLeft
    /\ fork1(Shell, "wait", fd[Shell], <<>>, Parsed[l], fd[Shell], FALSE)
    /\ UNCHANGED full

(* main(): getcmd meets the end of the input, or fork1 fails: the shell    *)
(* exits ...                                                               *)
Leave ==
    /\ pc[Shell] = "getcmd"
    /\ exit(Shell, {})
    /\ UNCHANGED full

(* ... and init starts another one.                                        *)
Restart ==
    /\ pc[Shell] = "unused"
    /\ pc' = [pc EXCEPT ![Shell] = "getcmd"]
    /\ fd' = [fd EXCEPT ![Shell] = [f \in FD |-> IF f <= 2 THEN Console ELSE Closed]]
    /\ UNCHANGED <<parent, cmd, p01, todo, bg, full>>

(* main(): the child is done, and the shell prompts.                       *)
Prompt ==
    /\ pc[Shell] = "wait"
    /\ wait(Shell, "getcmd")
    /\ UNCHANGED <<cmd, fd, p01, todo, full>>

-----------------------------------------------------------------------------
Runs(p, type) == pc[p] = "runcmd" /\ cmd[p].type = type

(* runcmd: EXEC.                                                           *)
RunExec(p) ==
    /\ Runs(p, "EXEC")
    /\ LET argv == cmd[p].argv
       IN IF argv # <<>> /\ argv[1] \in {<<"c">>, <<"e">>}
          THEN /\ pc' = [pc EXCEPT ![p] = IF argv[1] = <<"c">> THEN "cat" ELSE "echo"]
               /\ todo' = [todo EXCEPT ![p] = IF argv[1] = <<"c">> THEN 0 ELSE Output]
               /\ cmd' = [cmd EXCEPT ![p] = EXEC(<<>>)]
               /\ UNCHANGED <<parent, fd, p01, bg>>
          ELSE exit(p, {})
    /\ UNCHANGED full

(* runcmd: REDIR; open may fail.                                           *)
RunRedir(p) ==
    /\ Runs(p, "REDIR")
    /\ \/ exit(p, {})
       \/ /\ fd' = [fd EXCEPT ![p] = open(close(@, cmd[p].fd), File)]
          /\ cmd' = [cmd EXCEPT ![p] = cmd[p].cmd]
          /\ UNCHANGED <<pc, parent, p01, todo, bg>>
    /\ UNCHANGED full

(* runcmd: LIST, the left part ...                                         *)
RunList(p) ==
    /\ Runs(p, "LIST")
    /\ fork1(p, "list", fd[p], <<>>, cmd[p].left, fd[p], bg[p])
    /\ UNCHANGED full

(* ... and when it is done the right one.                                  *)
RunListRight(p) ==
    /\ pc[p] = "list"
    /\ wait(p, "runcmd")
    /\ cmd' = [cmd EXCEPT ![p] = cmd[p].right]
    /\ UNCHANGED <<fd, p01, todo, full>>

\* What the two children of PIPE do before they run their part: from is the
\* end of the pipe they take as descriptor to.
plumb(d, p, to, from) == close(close(dup(close(d, to), p[from]), p[1]), p[2])

(* runcmd: PIPE, pipe(p) and the left child ...                            *)
RunPipe(p) ==
    /\ Runs(p, "PIPE")
    /\ FreePipes # {}
    /\ \E k \in {Min(FreePipes)}, r \in {lowest(fd[p])} :
       \E one \in {open(fd[p], <<"r", k>>)} :
       \E w \in {lowest(one)}, both \in {open(one, <<"w", k>>)} :
        /\ fork1(p, "pipe", both, <<r, w>>, cmd[p].left, plumb(both, <<r, w>>, 1, 2), bg[p])
        /\ full' = [full EXCEPT ![k] = 0]

(* ... the right child ...                                                 *)
RunPipeRight(p) ==
    /\ pc[p] = "pipe"
    /\ fork1(p, "close", fd[p], p01[p], cmd[p].right, plumb(fd[p], p01[p], 0, 1), bg[p])
    /\ UNCHANGED full

\* Faulty variant: the write end stays open.
RunPipeCloseOne(p) ==
    /\ pc[p] = "close"
    /\ fd' = [fd EXCEPT ![p] = close(@, p01[p][1])]
    /\ pc' = [pc EXCEPT ![p] = "wait2"]
    /\ UNCHANGED <<parent, cmd, p01, todo, bg, full>>

(* ... the closing of both ends ...                                        *)
RunPipeClose(p) ==
    /\ pc[p] = "close"
    /\ fd' = [fd EXCEPT ![p] = close(close(@, p01[p][1]), p01[p][2])]
    /\ pc' = [pc EXCEPT ![p] = "wait2"]
    /\ UNCHANGED <<parent, cmd, p01, todo, bg, full>>

\* Faulty variant: one wait for two children.
RunPipeWaitOnce(p) ==
    /\ pc[p] = "wait2"
    /\ wait(p, "exit")
    /\ UNCHANGED <<cmd, fd, p01, todo, full>>

(* ... and two waits.                                                      *)
RunPipeWait(p) ==
    /\ pc[p] \in {"wait2", "wait1"}
    /\ wait(p, IF pc[p] = "wait2" THEN "wait1" ELSE "exit")
    /\ UNCHANGED <<cmd, fd, p01, todo, full>>

(* runcmd: BACK.                                                           *)
RunBack(p) ==
    /\ Runs(p, "BACK")
    /\ fork1(p, "exit", fd[p], <<>>, cmd[p].cmd, fd[p], TRUE)
    /\ UNCHANGED full

(* fork1 or pipe fails, for want of an entry or of memory.                 *)
RunPanic(p) ==
    /\ pc[p] = "pipe" \/ \E t \in {"LIST", "PIPE", "BACK"} : Runs(p, t)
    /\ exit(p, Descendants(p))
    /\ UNCHANGED full

(* The exit() at the end of runcmd.                                        *)
RunExit(p) ==
    /\ pc[p] = "exit"
    /\ exit(p, {})
    /\ UNCHANGED full

-----------------------------------------------------------------------------
\* write(1, ...) of one byte goes through, into a pipe that has room or
\* whose readers are gone (the programs ignore the error) or elsewhere.
writes(p, pl, left) ==
    /\ LET x == fd[p][1] IN
       IF x[1] = "w" /\ Holds(<<"r", x[2]>>)
       THEN full[x[2]] < PIPESIZE /\ full' = [full EXCEPT ![x[2]] = @ + 1]
       ELSE UNCHANGED full
    /\ pc' = [pc EXCEPT ![p] = pl]
    /\ todo' = [todo EXCEPT ![p] = left]
    /\ UNCHANGED <<parent, cmd, fd, p01, bg>>

(* echo writes its arguments and exits.                                    *)
Echo(p) ==
    /\ pc[p] = "echo"
    /\ IF todo[p] > 0 THEN writes(p, "echo", todo[p] - 1)
       ELSE exit(p, {}) /\ UNCHANGED full

(* cat reads until there is no more, and writes what it has read.  A file  *)
(* ends, and at the console the user types ^D.                             *)
Cat(p) ==
    /\ pc[p] = "cat"
    /\ IF todo[p] > 0 THEN writes(p, "cat", 0)
       ELSE LET x == fd[p][0] IN
            IF x[1] = "r" /\ full[x[2]] > 0
            THEN /\ full' = [full EXCEPT ![x[2]] = @ - 1]
                 /\ todo' = [todo EXCEPT ![p] = 1]
                 /\ UNCHANGED <<pc, parent, cmd, fd, p01, bg>>
            ELSE /\ x[1] = "r" => ~Holds(<<"w", x[2]>>)
                 /\ exit(p, {})
                 /\ UNCHANGED full

Step(p) ==
    \/ RunExec(p) \/ RunRedir(p) \/ RunList(p) \/ RunListRight(p)
    \/ RunPipe(p) \/ RunPipeRight(p) \/ RunPipeClose(p) \/ RunPipeWait(p)
    \/ RunBack(p) \/ RunPanic(p) \/ RunExit(p)
    \/ Echo(p) \/ Cat(p)

Work == Prompt \/ Restart \/ \E p \in Proc : Step(p)
ShNext == Work \/ Leave \/ \E l \in Lines : Command(l)

(* As long as some process can go on, one does: the scheduler never idles  *)
(* beside work.  Nobody has to type another command.                       *)
ShFair == WF_shVars(Work)
ShSpec == ShInit /\ [][ShNext]_shVars /\ ShFair

-----------------------------------------------------------------------------
(* When the shell prompts, every process of the commands typed so far has  *)
(* exited, but for those started with & and those a failed fork or pipe    *)
(* left behind; and a program runs with the descriptors 0, 1 and 2 only,   *)
(* so that no end of a pipe stays open in a process that does not use it.  *)
PromptsWhenDone ==
    /\ pc[Shell] = "getcmd" =>
        \A p \in Proc \ {Shell} : pc[p] \in {"unused", "zombie"} \/ bg[p]
    /\ \A p \in Proc : pc[p] \in {"cat", "echo"} =>
        \A f \in FD : f <= 2 <=> fd[p][f] # Closed

(* Every command line comes to its end: readers of a pipe are told of the  *)
(* end of their input and writers get rid of their output, so the shell    *)
(* prompts again (runcmd's closing of p[0] and p[1], its waits).           *)
PromptsAgain == (pc[Shell] = "wait") ~> (pc[Shell] = "getcmd")
=============================================================================
