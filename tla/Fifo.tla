-------------------------------- MODULE Fifo --------------------------------
(***************************************************************************)
(* What a pipe promises: a bounded queue of bytes with two ends.  Readers  *)
(* get the bytes in the order they were written, each once, and are told   *)
(* of the end of the file only when the queue is empty and will stay so.   *)
(***************************************************************************)
EXTENDS Naturals, Sequences

CONSTANTS Byte, Capacity, NoByte

VARIABLES q,         \* the bytes written and not yet read
          last,      \* the byte a reader got most recently
          readopen, writeopen,
          eof        \* some reader has been told of the end of the file

vars == <<q, last, readopen, writeopen, eof>>

Init ==
    /\ q = <<>> /\ last = NoByte
    /\ readopen = TRUE /\ writeopen = TRUE
    /\ eof = FALSE

Put(v) ==
    /\ writeopen
    /\ Len(q) < Capacity
    /\ q' = Append(q, v)
    /\ UNCHANGED <<last, readopen, writeopen, eof>>

Get ==
    /\ readopen
    /\ q # <<>>
    /\ last' = Head(q)
    /\ q' = Tail(q)
    /\ UNCHANGED <<readopen, writeopen, eof>>

EndOfFile ==
    /\ q = <<>> /\ ~writeopen
    /\ eof' = TRUE
    /\ UNCHANGED <<q, last, readopen, writeopen>>

Close ==
    /\ \/ readopen /\ readopen' = FALSE /\ UNCHANGED writeopen
       \/ writeopen /\ writeopen' = FALSE /\ UNCHANGED readopen
    /\ UNCHANGED <<q, last, eof>>

Next == (\E v \in Byte : Put(v)) \/ Get \/ EndOfFile \/ Close

Spec == Init /\ [][Next]_vars
=============================================================================
