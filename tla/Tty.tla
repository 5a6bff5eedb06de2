-------------------------------- MODULE Tty --------------------------------
(***************************************************************************)
(* What the console promises its readers: a line that can be edited until  *)
(* it is complete, and then a queue of characters.  A read gets characters *)
(* of at most one line, in the order they were typed; an end-of-file mark  *)
(* ends a read, and the read it ends without a character is the one that   *)
(* uses it up.                                                             *)
(***************************************************************************)
EXTENDS Integers, Sequences

CONSTANTS Reader, Char, NL, EOF, Capacity, Sizes

VARIABLES line,   \* typed, and still open to editing
          queue,  \* complete, and not yet read
          got,    \* what each reader's call has received
          busy    \* the readers inside a call, with the size they asked for

vars == <<line, queue, got, busy>>

Init ==
    /\ line = <<>> /\ queue = <<>>
    /\ got = [p \in Reader |-> <<>>]
    /\ busy = [p \in Reader |-> -1]

\* A character is typed: with it the line may be complete.
Type(c) ==
    /\ Len(line) + Len(queue) < Capacity
    /\ IF c \in {NL, EOF} \/ Len(line) + Len(queue) + 1 = Capacity
       THEN queue' = queue \o Append(line, c) /\ line' = <<>>
       ELSE line' = Append(line, c) /\ UNCHANGED queue
    /\ UNCHANGED <<got, busy>>

\* Backspace takes the last character of the line away, kill-line all of it.
Erase ==
    /\ \/ line # <<>> /\ line' = SubSeq(line, 1, Len(line) - 1)
       \/ line' = <<>>
    /\ UNCHANGED <<queue, got, busy>>

Begin(p, n) ==
    /\ busy[p] = -1
    /\ busy' = [busy EXCEPT ![p] = n]
    /\ UNCHANGED <<line, queue, got>>

EndOfLine(p) == got[p] # <<>> /\ got[p][Len(got[p])] = NL

Take(p) ==
    /\ queue # <<>> /\ Head(queue) # EOF
    /\ Len(got[p]) < busy[p] /\ ~EndOfLine(p)
    /\ got' = [got EXCEPT ![p] = Append(@, Head(queue))]
    /\ queue' = Tail(queue)
    /\ UNCHANGED <<line, busy>>

\* A call returns what it got.
End(p) ==
    /\ busy[p] # -1
    /\ \/ Len(got[p]) = busy[p] \/ EndOfLine(p)
       \/ queue # <<>> /\ Head(queue) = EOF
    /\ queue' = IF Len(got[p]) < busy[p] /\ got[p] = <<>> THEN Tail(queue) ELSE queue
    /\ got' = [got EXCEPT ![p] = <<>>]
    /\ busy' = [busy EXCEPT ![p] = -1]
    /\ UNCHANGED line

\* A call that ends for a kill when nothing is left to read.
GiveUp(p) ==
    /\ busy[p] # -1 /\ queue = <<>>
    /\ got' = [got EXCEPT ![p] = <<>>]
    /\ busy' = [busy EXCEPT ![p] = -1]
    /\ UNCHANGED <<line, queue>>

Next ==
    \/ \E c \in Char : Type(c)
    \/ Erase
    \/ \E p \in Reader :
        \/ \E n \in Sizes : Begin(p, n)
        \/ Take(p) \/ End(p) \/ GiveUp(p)

Spec == Init /\ [][Next]_vars
=============================================================================
