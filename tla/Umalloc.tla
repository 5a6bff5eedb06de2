------------------------------ MODULE Umalloc ------------------------------
(***************************************************************************)
(* The allocator of user programs (user/umalloc.c): a circular list of     *)
(* free blocks in the order of their addresses, starting at base, which    *)
(* lies below the heap.  Addresses and sizes are in units of a header, of  *)
(* which every block has one.  Requests are small enough for               *)
(* nbytes + sizeof(Header) - 1 not to wrap.                                *)
(*                                                                         *)
(* The heap is a record, which free, morecore and malloc transform.  The   *)
(* program may also move the break itself, between calls; what it gets is  *)
(* foreign to malloc.                                                      *)
(***************************************************************************)
EXTENDS Integers, FiniteSetsExt

CONSTANTS Header,    \* sizeof(Header)
          NALLOC,    \* the least that morecore asks for, 4096 in the code
          Limit,     \* where sbrk fails
          Requests   \* the nbytes of the program's calls

ASSUME UmallocAssumption ==
    {Header, NALLOC, Limit} \subseteq Nat \ {0} /\ Requests \subseteq Nat

VARIABLES heap,      \* ptr and size of the headers, freep, and the break
          live,      \* the program's blocks, with the bytes it asked for
          foreign    \* the units the program took from sbrk itself

mVars == <<heap, live, foreign>>

base == 0
Null == -1
Unit == 1..Limit - 1

UmallocInit ==
    /\ heap = [ptr |-> [x \in Unit \cup {base} |-> base],
               size |-> [x \in Unit \cup {base} |-> 0],
               freep |-> Null, brk |-> 1]
    /\ live = [x \in {} |-> 0]
    /\ foreign = {}

-----------------------------------------------------------------------------
\* The loop of free(): the free block p after which bp belongs.
RECURSIVE place(_, _, _)
place(h, bp, p) ==
    LET next == h.ptr[p] IN
    IF (p < bp /\ bp < next) \/ (p >= next /\ (bp > p \/ bp < next))
    THEN p ELSE place(h, bp, next)

\* Faulty variant: free blocks are never joined.
endsAtNever(h, p, x) == FALSE

\* The block p ends where x begins.
endsAt(h, p, x) == p + h.size[p] = x

\* free(): a header that has become the inside of a block is set to 0 here.
free(h, bp) ==
    LET p == place(h, bp, h.freep)
        next == h.ptr[p]
        up == endsAt(h, bp, next)
        down == endsAt(h, p, bp)
        units == h.size[bp] + IF up THEN h.size[next] ELSE 0
        ptr == IF up THEN h.ptr[next] ELSE next
        gone == (IF up THEN {next} ELSE {}) \cup IF down THEN {bp} ELSE {}
    IN [h EXCEPT
          !.size = [x \in DOMAIN @ |->
                      CASE x \in gone -> 0
                        [] x = p /\ down -> @[p] + units
                        [] x = bp -> units
                        [] OTHER -> @[x]],
          !.ptr = [x \in DOMAIN @ |->
                      CASE x \in gone -> base
                        [] x = p -> IF down THEN ptr ELSE bp
                        [] x = bp -> ptr
                        [] OTHER -> @[x]],
          !.freep = p]

\* morecore(), when sbrk succeeds.
morecore(h, nu) ==
    LET n == IF nu < NALLOC THEN NALLOC ELSE nu
    IN free([h EXCEPT !.size = [@ EXCEPT ![h.brk] = n], !.brk = @ + n], h.brk)

sbrkFails(h, nu, memory) ==
    ~memory \/ h.brk + (IF nu < NALLOC THEN NALLOC ELSE nu) > Limit

\* Cut nunits from the block after prevp.
take(h, prevp, nunits) ==
    LET p == h.ptr[prevp]
        rest == h.size[p] - nunits
    IN IF rest = 0
       THEN [at |-> p, heap |-> [h EXCEPT !.ptr = [@ EXCEPT ![prevp] = h.ptr[p], ![p] = base],
                                          !.freep = prevp]]
       ELSE [at |-> p + rest,
             heap |-> [h EXCEPT !.size = [@ EXCEPT ![p] = rest, ![p + rest] = nunits],
                                !.freep = prevp]]

\* The loop of malloc(); at is base when it returns 0.
RECURSIVE search(_, _, _, _)
search(h, prevp, nunits, memory) ==
    LET p == h.ptr[prevp] IN
    IF h.size[p] >= nunits THEN take(h, prevp, nunits)
    ELSE IF p # h.freep THEN search(h, p, nunits, memory)
    ELSE IF sbrkFails(h, nunits, memory) THEN [at |-> base, heap |-> h]
    ELSE LET more == morecore(h, nunits) IN search(more, more.freep, nunits, memory)

(* malloc(nbytes); sbrk may fail.                                          *)
Malloc(nbytes) ==
    \E memory \in BOOLEAN :
        LET nunits == (nbytes + Header - 1) \div Header + 1
            h == IF heap.freep = Null THEN [heap EXCEPT !.freep = base] ELSE heap
            m == search(h, h.freep, nunits, memory)
        IN /\ heap' = m.heap
           /\ live' = IF m.at = base THEN live
                      ELSE [x \in DOMAIN live \cup {m.at} |-> IF x = m.at THEN nbytes ELSE live[x]]
           /\ UNCHANGED foreign

(* free() of a block that malloc returned.                                 *)
Free(bp) ==
    /\ bp \in DOMAIN live
    /\ heap' = free(heap, bp)
    /\ live' = [x \in DOMAIN live \ {bp} |-> live[x]]
    /\ UNCHANGED foreign

(* The program calls sbrk for itself.                                      *)
Sbrk ==
    /\ heap.brk < Limit
    /\ foreign' = foreign \cup {heap.brk}
    /\ heap' = [heap EXCEPT !.brk = @ + 1]
    /\ UNCHANGED live

UmallocNext == (\E n \in Requests : Malloc(n)) \/ (\E bp \in Unit : Free(bp)) \/ Sbrk

-----------------------------------------------------------------------------
(* Every unit below the break is in exactly one block or foreign; the free *)
(* list runs through the free blocks in the order of their addresses, back *)
(* to base; no two free blocks touch; and a block has room for what was    *)
(* asked (free's joining of neighbours, malloc's splitting, morecore's     *)
(* chunks that may or may not follow the last one).                        *)
HeapTiled ==
    LET Blocks == {x \in Unit : heap.size[x] > 0}
        Free1 == Blocks \ DOMAIN live
        units(x) == x..x + heap.size[x] - 1
        after(x) == {y \in Free1 : y > x}
    IN /\ DOMAIN live \subseteq Blocks
       /\ \A u \in Unit : Cardinality({x \in Blocks : u \in units(x)}) =
                              IF u < heap.brk /\ u \notin foreign THEN 1 ELSE 0
       /\ \A x \in Free1 \cup {base} :
            heap.ptr[x] = IF after(x) = {} THEN base ELSE Min(after(x))
       /\ \A x \in Free1 : x + heap.size[x] \notin Free1
       /\ heap.freep \in Free1 \cup {base, Null}
       /\ \A x \in DOMAIN live : live[x] <= (heap.size[x] - 1) * Header
=============================================================================
