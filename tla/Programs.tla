------------------------------ MODULE Programs ------------------------------
(***************************************************************************)
(* The programs outside the kernel, each run by itself: the shell's parser *)
(* on any line, the shell on the lines below, malloc, and mkfs.            *)
(***************************************************************************)
EXTENDS Sh, Umalloc, Mkfs

VARIABLE prog      \* the one that runs

Run(name, N, others) == prog = name /\ N /\ UNCHANGED <<prog, others>>

Init ==
    /\ prog \in {"parser", "sh", "malloc", "mkfs"}
    /\ ParserInit /\ ShInit /\ UmallocInit /\ MkfsInit

Next ==
    \/ Run("parser", ParserNext, <<shVars, mVars, kVars>>)
    \/ Run("sh", ShNext, <<buf, mVars, kVars>>)
    \/ Run("malloc", UmallocNext, <<buf, shVars, kVars>>)
    \/ Run("mkfs", MkfsNext, <<buf, shVars, mVars>>)

Spec == Init /\ [][Next]_<<prog, buf, shVars, mVars, kVars>> /\ ShFair

\* What the user types: every kind of command within others, programs that
\* read all, some or nothing of their input, a name that cannot be run, a line
\* that is not a command, and commands that leave a process behind.
TypedLines ==
    { <<"e">>, <<"c", "c">>, <<"|">>, <<"e", "&">>, <<"e", "&", ";", "e">>, <<"e", ";", "c">>,
      <<"c", "|", "e">>, <<"e", "|", "c", "c">>, <<"c", "<", "e">>, <<"c", "|", "e", "|", "c">>,
      <<"(", "c", "c", ";", "e", ")", "|", "c", ">", "e">>,
      <<"(", "e", "&", ")", "|", "c">>, <<"e", "|", "(", "c", ";", "c", ")">> }
=============================================================================
