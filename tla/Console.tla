------------------------------ MODULE Console ------------------------------
(***************************************************************************)
(* The console's input: at an interrupt of the keyboard or of the serial   *)
(* port consoleintr edits the line in the ring input.buf with the          *)
(* characters the device has (kbdgetc, uartgetc), and consoleread hands    *)
(* complete lines out.                                                     *)
(*                                                                         *)
(* input.lock is explicit: an interrupt handler keeps it for all the       *)
(* characters it finds, a reader until it sleeps or returns.  kill takes   *)
(* only ptable.lock and may come between the test of proc->killed and      *)
(* sleep.  The indices wrap like the code's uint, at a multiple of         *)
(* INPUT_BUF.  The echo on the screen is left out.                         *)
(***************************************************************************)
EXTENDS Integers, Sequences, FiniteSetsExt

CONSTANTS Reader, NoOne,
          INPUT_BUF,
          Wrap,      \* 2^32 in the code
          Sizes,     \* the n of the reads
          Typed      \* what the devices deliver

\* The characters that consoleintr tells apart, and two ordinary ones.
NUL == "nul"
NL == "nl"
EOF == "^D"
Char == {"x", "X", NL, EOF}

ASSUME ConsoleAssumption ==
    /\ INPUT_BUF \in Nat \ {0}
    /\ Wrap \in Nat /\ Wrap > INPUT_BUF /\ Wrap % INPUT_BUF = 0
    /\ Sizes \subseteq Nat
    /\ Typed \subseteq Char \cup {NUL, "cr", "^U", "^H"}
    /\ NoOne \notin Reader \cup {"intr"} /\ "intr" \notin Reader

VARIABLES
    lock,            \* who holds input.lock
    buf, r, w, e,    \* struct input
    pc, n, dst,      \* each reader's place, and what it has received of n
    killed

input == <<buf, r, w, e>>
reader == <<pc, n, dst, killed>>
vars == <<lock, input, reader>>

Init ==
    /\ lock = NoOne
    /\ buf = [k \in 0..INPUT_BUF - 1 |-> "x"]
    /\ r = 0 /\ w = 0 /\ e = 0
    /\ pc = [p \in Reader |-> "idle"]
    /\ n = [p \in Reader |-> -1]
    /\ dst = [p \in Reader |-> <<>>]
    /\ killed = [p \in Reader |-> FALSE]

-----------------------------------------------------------------------------
Plus(i, k) == (i + k) % Wrap
At(i) == buf[i % INPUT_BUF]

\* Faulty variant: only one sleeper is woken.
wakeupOne ==
    LET S == {p \in Reader : pc[p] = "asleep"} IN
    pc' = [p \in Reader |-> IF S # {} /\ p = CHOOSE q \in S : TRUE THEN "acquire" ELSE pc[p]]

\* wakeup(&input.r).
wakeup == pc' = [p \in Reader |-> IF pc[p] = "asleep" THEN "acquire" ELSE pc[p]]

\* ^U: how far back the last newline or the committed part is.
Unkilled == {k \in 0..Plus(e, -w) : k = Plus(e, -w) \/ At(Plus(e, -k - 1)) = NL}

\* Faulty variant: a full ring is not handed to the readers.
commitsLine(c) == c \in {NL, EOF}

\* With c, what was typed so far goes to the readers.
commits(c) == c \in {NL, EOF} \/ Plus(e, 1) = Plus(r, INPUT_BUF)

\* The default case of consoleintr, for c already converted from \r to \n.
insert(c) ==
    /\ Plus(e, -r) < INPUT_BUF
    /\ buf' = [buf EXCEPT ![e % INPUT_BUF] = c]
    /\ e' = Plus(e, 1)
    /\ IF commits(c)
       THEN w' = e' /\ wakeup
       ELSE UNCHANGED <<w, pc>>
    /\ UNCHANGED r

\* One round of consoleintr's loop, for the character c.
edit(c) ==
    IF c = "^U" THEN e' = Plus(e, -Min(Unkilled)) /\ UNCHANGED <<buf, r, w, pc>>
    ELSE IF c = "^H" THEN e' = (IF e # w THEN Plus(e, -1) ELSE e) /\ UNCHANGED <<buf, r, w, pc>>
    ELSE IF c = NUL \/ Plus(e, -r) >= INPUT_BUF THEN UNCHANGED <<input, pc>>
    ELSE insert(IF c = "cr" THEN NL ELSE c)

(* The keyboard or the serial port interrupts: consoleintr acquires the    *)
(* lock ...                                                                *)
Intr ==
    /\ lock = NoOne
    /\ lock' = "intr"
    /\ UNCHANGED <<input, reader>>

(* ... takes the characters of its device one after the other ...          *)
IntrChar(c) ==
    /\ lock = "intr"
    /\ edit(c)
    /\ UNCHANGED <<lock, n, dst, killed>>

(* ... and releases the lock when there are no more.                       *)
IntrDone ==
    /\ lock = "intr"
    /\ lock' = NoOne
    /\ UNCHANGED <<input, reader>>

-----------------------------------------------------------------------------
(* read(fd, dst, n) reaches consoleread.                                   *)
Read(p) ==
    /\ pc[p] = "idle" /\ ~killed[p]
    /\ \E k \in Sizes : n' = [n EXCEPT ![p] = k]
    /\ pc' = [pc EXCEPT ![p] = "acquire"]
    /\ UNCHANGED <<lock, input, dst, killed>>

(* acquire(&input.lock), at the start and when sleep returns.              *)
ReadAcquire(p) ==
    /\ pc[p] = "acquire" /\ lock = NoOne
    /\ lock' = p
    /\ pc' = [pc EXCEPT ![p] = "loop"]
    /\ UNCHANGED <<input, n, dst, killed>>

\* consoleread returns; its data is the caller's now.
return(p) ==
    /\ lock' = NoOne
    /\ pc' = [pc EXCEPT ![p] = "idle"]
    /\ n' = [n EXCEPT ![p] = -1]
    /\ dst' = [dst EXCEPT ![p] = <<>>]

EndOfLine(p) == dst[p] # <<>> /\ dst[p][Len(dst[p])] = NL

(* The loop has all it may have: n characters, or a whole line.            *)
ReadDone(p) ==
    /\ pc[p] = "loop"
    /\ Len(dst[p]) = n[p] \/ EndOfLine(p)
    /\ return(p)
    /\ UNCHANGED <<input, killed>>

Wants(p) ==
    /\ pc[p] = "loop" /\ Len(dst[p]) < n[p]
    /\ ~EndOfLine(p)

(* There is nothing to read: a killed reader returns -1 ...                *)
ReadKilled(p) ==
    /\ Wants(p) /\ r = w /\ killed[p]
    /\ return(p)
    /\ UNCHANGED <<input, killed>>

(* ... and the others call sleep(&input.r, &input.lock), ...               *)
ReadEmpty(p) ==
    /\ Wants(p) /\ r = w /\ ~killed[p]
    /\ pc' = [pc EXCEPT ![p] = "sleep"]
    /\ UNCHANGED <<lock, input, n, dst, killed>>

(* ... which releases the lock.                                            *)
ReadSleep(p) ==
    /\ pc[p] = "sleep"
    /\ lock' = NoOne
    /\ pc' = [pc EXCEPT ![p] = "asleep"]
    /\ UNCHANGED <<input, n, dst, killed>>

(* One character moves to the reader.                                      *)
ReadChar(p) ==
    /\ Wants(p) /\ r # w /\ At(r) # EOF
    /\ dst' = [dst EXCEPT ![p] = Append(@, At(r))]
    /\ r' = Plus(r, 1)
    /\ UNCHANGED <<lock, buf, w, e, pc, n, killed>>

\* Faulty variant: the ^D is never put back.
usesEofAlways(p) == TRUE

usesEof(p) == dst[p] = <<>>

(* ^D ends the read; it is left for the next one unless this one is empty. *)
ReadEof(p) ==
    /\ Wants(p) /\ r # w /\ At(r) = EOF
    /\ r' = IF usesEof(p) THEN Plus(r, 1) ELSE r
    /\ return(p)
    /\ UNCHANGED <<buf, w, e, killed>>

(* kill() of a reader.                                                     *)
Kill(p) ==
    /\ ~killed[p]
    /\ killed' = [killed EXCEPT ![p] = TRUE]
    /\ pc' = [pc EXCEPT ![p] = IF @ = "asleep" THEN "acquire" ELSE @]
    /\ UNCHANGED <<lock, input, n, dst>>

Next ==
    \/ Intr \/ IntrDone
    \/ \E c \in Typed : IntrChar(c)
    \/ \E p \in Reader :
        \/ Read(p) \/ ReadAcquire(p) \/ ReadDone(p)
        \/ ReadKilled(p) \/ ReadEmpty(p) \/ ReadSleep(p)
        \/ ReadChar(p) \/ ReadEof(p) \/ Kill(p)

Spec == Init /\ [][Next]_vars

-----------------------------------------------------------------------------
(* Types; the three indices are in order and never more than INPUT_BUF     *)
(* apart, and a ring that takes no more input has something to read.       *)
TypeOK ==
    /\ lock \in Reader \cup {NoOne, "intr"}
    /\ buf \in [0..INPUT_BUF - 1 -> Char]
    /\ {r, w, e} \subseteq 0..Wrap - 1
    /\ pc \in [Reader -> {"idle", "acquire", "loop", "sleep", "asleep"}]
    /\ n \in [Reader -> Sizes \cup {-1}]
    /\ Plus(w, -r) <= Plus(e, -r) /\ Plus(e, -r) <= INPUT_BUF
    /\ Plus(e, -r) = INPUT_BUF => r # w

(* No wakeup is lost: a reader sleeps only while there is nothing to read  *)
(* (sleep(&input.r) against the wakeup of consoleintr, for a newline, a ^D *)
(* and a full ring, with several readers of which one takes it all or puts *)
(* a ^D back).                                                             *)
SleepersMustWait == \A p \in Reader : pc[p] = "asleep" => r = w

Slice(i, j) == [k \in 1..Plus(j, -i) |-> At(Plus(i, k - 1))]

Terminal == INSTANCE Tty WITH Capacity <- INPUT_BUF, line <- Slice(w, e),
                              queue <- Slice(r, w), got <- dst, busy <- n

(* consoleintr and consoleread, with a ring, two interrupt sources, a ^D   *)
(* put back and kills, implement the terminal.                             *)
ImplementsTty == Terminal!Spec
=============================================================================
