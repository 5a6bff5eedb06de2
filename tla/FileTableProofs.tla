-------------------------- MODULE FileTableProofs --------------------------
(***************************************************************************)
(* The invariants of FileTable hold in every behaviour, for any number of  *)
(* processes, files, descriptors and pipes: f->ref counts the references,  *)
(* an end of a pipe and an i-node are let go with the last file that leads *)
(* to them and not before, and neither filedup nor fileclose panics.       *)
(***************************************************************************)
EXTENDS FileTable, FiniteSetTheorems, WellFoundedInduction, TLAPS

\* The locals of a call at each of its places.
LocalInv ==
    \A p \in Proc :
        /\ pc[p] \in {"idle", "open", "dup", "use", "fork"} => Held(p) = {}
        /\ pc[p] \in {"opened", "pipe1"} => Held(p) = {1}
        /\ pc[p] \in {"pipe2", "pipe3"} => Held(p) = {1, 2}
        /\ pc[p] = "pipeclose" => ff[p].pipe # Null
        /\ pc[p] \in {"dup", "use"} => arg[p] # Null
        /\ pc[p] = "dup" => fd[p] # Null /\ ofile[p][fd[p]] = arg[p]
        /\ pc[p] \in {"dup", "use"} =>
            \E d \in Fd : ofile[p][d] = arg[p] /\ (pc[p] = "dup" => d # fd[p])

\* Only a running process makes calls; fork's child is its own.
LifeInv ==
    \A p \in Proc :
        /\ pc[p] # "idle" => life[p] \in {"alive", "exiting"}
        /\ pc[p] = "fork" =>
            /\ child[p] # NoProc /\ life[child[p]] = "embryo"
            /\ \A q \in Proc \ {p} : pc[q] = "fork" => child[q] # child[p]

\* A file whose call has not set its type yet is known to this call only.
Filling == {"opened", "pipe1", "pipe2"}
FreshInv ==
    \A p \in Proc : \A k \in Local : pc[p] \in Filling /\ held[p][k] # Null =>
        /\ type[held[p][k]] = "NONE"
        /\ \A s \in Place : kept[s] = held[p][k] => s = <<p, NOFILE + k>>

\* A free file has no type; a file with a descriptor has one.
FileInv ==
    /\ \A f \in File : ref[f] = 0 => type[f] = "NONE"
    /\ \A f \in File : type[f] = "PIPE" => pipe[f] # Null
    /\ \A p \in Proc : \A d \in Fd : ofile[p][d] # Null => type[ofile[p][d]] # "NONE"
    /\ \A p \in Proc : \A k \in Local : pc[p] = "pipe3" => type[held[p][k]] # "NONE"

\* The file, or the fileclose, that leads to an end of a pipe.
Leads(f, x, w) == type[f] = "PIPE" /\ pipe[f] = x /\ writable[f] = w
Closes(p, x, w) == pc[p] = "pipeclose" /\ ff[p] = [pipe |-> x, writable |-> w]

\* There is one of them at most, and the end is open as long.
EndInv ==
    \A x \in Pipe : \A w \in BOOLEAN :
        /\ \A f, g \in File : Leads(f, x, w) /\ Leads(g, x, w) => f = g
        /\ \A p, q \in Proc : Closes(p, x, w) /\ Closes(q, x, w) => p = q
        /\ \A f \in File : \A p \in Proc : ~(Leads(f, x, w) /\ Closes(p, x, w))
        /\ (IF w THEN writeopen[x] ELSE readopen[x])
            <=> (\E f \in File : Leads(f, x, w)) \/ (\E p \in Proc : Closes(p, x, w))
PageInv == \A x \in Pipe : x \in pages <=> (readopen[x] \/ writeopen[x])

\* An i-node is referenced by the files and by the calls on their way.
InodeFiles == {f \in File : type[f] = "INODE"}
InodeCalls == {p \in Proc : pc[p] \in {"open", "opened", "iput"}}
InodeInv == iref = Cardinality(InodeFiles) + Cardinality(InodeCalls)

IInv == /\ TypeOK /\ RefsCounted /\ LocalInv /\ LifeInv /\ FreshInv /\ FileInv
        /\ EndInv /\ PageInv /\ InodeInv

-----------------------------------------------------------------------------
\* Places: the descriptors and the locals of every process.
LEMMA PlaceIs ==
    /\ IsFiniteSet(Place)
    /\ \A p \in Proc, d \in Fd : <<p, d>> \in Place
    /\ \A p \in Proc, k \in Local : <<p, NOFILE + k>> \in Place
    /\ \A s \in Place : \E p \in Proc : \/ \E d \in Fd : s = <<p, d>>
                                        \/ \E k \in Local : s = <<p, NOFILE + k>>
    /\ \A d \in Fd, k \in Local : d # NOFILE + k
    /\ \A k, m \in Local : NOFILE + k = NOFILE + m => k = m
<1>1. NOFILE \in Nat /\ 1..NOFILE + 2 = Fd \cup {NOFILE + k : k \in Local}
  BY FileTableAssumption DEF Fd, Local
<1>2. IsFiniteSet(1..NOFILE + 2)
  BY <1>1, FS_Interval
<1>3. IsFiniteSet(Place)
  BY <1>2, FS_Product, FileTableAssumption DEF Place
<1>4. \A d \in Fd, k \in Local : d # NOFILE + k
  BY <1>1 DEF Fd, Local
<1>5. \A k, m \in Local : NOFILE + k = NOFILE + m => k = m
  BY <1>1 DEF Local
<1>6. QED
  BY <1>1, <1>3, <1>4, <1>5 DEF Place

\* What a place keeps.
KeptIs ==
    \A p \in Proc :
        /\ \A d \in Fd : kept[<<p, d>>] =
             IF pc[p] = "dup" /\ d = fd[p] THEN Null ELSE ofile[p][d]
        /\ \A k \in Local : kept[<<p, NOFILE + k>>] = held[p][k]

LEMMA KeptNow == KeptIs
<1>1. NOFILE \in Nat
  BY FileTableAssumption
<1>2. ASSUME NEW p \in Proc, NEW d \in Fd
      PROVE  kept[<<p, d>>] = IF pc[p] = "dup" /\ d = fd[p] THEN Null ELSE ofile[p][d]
  <2>1. <<p, d>> \in Place /\ ~(d > NOFILE)
    BY <1>1, PlaceIs DEF Fd
  <2>2. QED
    BY <2>1 DEF kept
<1>3. ASSUME NEW p \in Proc, NEW k \in Local
      PROVE  kept[<<p, NOFILE + k>>] = held[p][k]
  <2>1. <<p, NOFILE + k>> \in Place
    BY PlaceIs
  <2>2. NOFILE + k > NOFILE /\ (NOFILE + k) - NOFILE = k
    BY <1>1 DEF Local
  <2>3. QED
    BY <2>1, <2>2 DEF kept
<1>4. QED
  BY <1>2, <1>3 DEF KeptIs

LEMMA KeptThen == KeptIs'
BY KeptNow, PTL

LEMMA FdKept ==
    ASSUME NEW p \in Proc, NEW d \in Fd
    PROVE  /\ <<p, d>> \in Place
           /\ kept[<<p, d>>] = IF pc[p] = "dup" /\ d = fd[p] THEN Null ELSE ofile[p][d]
           /\ kept'[<<p, d>>] = IF pc'[p] = "dup" /\ d = fd'[p] THEN Null ELSE ofile'[p][d]
           /\ \A q \in Proc, k \in Local : <<q, NOFILE + k>> # <<p, d>>
BY PlaceIs, KeptNow, KeptThen DEF KeptIs

LEMMA HeldKept ==
    ASSUME NEW p \in Proc, NEW k \in Local
    PROVE  /\ <<p, NOFILE + k>> \in Place
           /\ kept[<<p, NOFILE + k>>] = held[p][k] /\ kept'[<<p, NOFILE + k>>] = held'[p][k]
           /\ \A q \in Proc, m \in Local : <<q, NOFILE + m>> = <<p, NOFILE + k>> => q = p /\ m = k
BY PlaceIs, KeptNow, KeptThen DEF KeptIs

\* The places that a step leaves alone.
LEMMA KeptElsewhere ==
    ASSUME NEW X,
           \A q \in Proc, d \in Fd : <<q, d>> \notin X =>
                /\ ofile'[q][d] = ofile[q][d]
                /\ (pc'[q] = "dup" /\ d = fd'[q]) <=> (pc[q] = "dup" /\ d = fd[q]),
           \A q \in Proc, k \in Local : <<q, NOFILE + k>> \notin X => held'[q][k] = held[q][k]
    PROVE  \A u \in Place \ X : kept'[u] = kept[u]
<1> SUFFICES ASSUME NEW u \in Place, u \notin X PROVE kept'[u] = kept[u]
  OBVIOUS
<1>1. PICK q \in Proc : \/ \E d \in Fd : u = <<q, d>>
                        \/ \E k \in Local : u = <<q, NOFILE + k>>
  BY PlaceIs
<1>2. ASSUME NEW d \in Fd, u = <<q, d>> PROVE kept'[u] = kept[u]
  <2>1. /\ ofile'[q][d] = ofile[q][d]
        /\ (pc'[q] = "dup" /\ d = fd'[q]) <=> (pc[q] = "dup" /\ d = fd[q])
    BY <1>2
  <2>2. QED
    BY <1>2, <2>1, FdKept
<1>3. ASSUME NEW k \in Local, u = <<q, NOFILE + k>> PROVE kept'[u] = kept[u]
  BY <1>3, HeldKept
<1>4. QED
  BY <1>1, <1>2, <1>3

\* How many places keep v, and how this changes with one place.
Count(F, v) == Cardinality({s \in Place : F[s] = v})

One(a, v) == IF a = v THEN 1 ELSE 0
OnlyAt(F, G, x) == \A y \in Place \ {x} : G[y] = F[y]

LEMMA Change ==
    ASSUME NEW F, NEW G, NEW x \in Place,
           OnlyAt(F, G, x), NEW v
    PROVE  /\ Count(F, v) \in Nat
           /\ Count(G, v) = Count(F, v) + One(G[x], v) - One(F[x], v)
<1> DEFINE A == {s \in Place : F[s] = v}
<1> DEFINE B == {s \in Place : G[s] = v}
<1> USE DEF OnlyAt, One
<1>0. Count(F, v) = Cardinality(A) /\ Count(G, v) = Cardinality(B)
  BY DEF Count
<1>1. IsFiniteSet(A) /\ IsFiniteSet(B) /\ Cardinality(A) \in Nat /\ Cardinality(B) \in Nat
  BY PlaceIs, FS_Subset, FS_CardinalityType
<1>2. CASE G[x] = v /\ F[x] # v
  <2>1. B = A \cup {x} /\ x \notin A
    BY <1>2
  <2>2. Cardinality(A \cup {x}) = Cardinality(A) + 1
    BY <1>1, <2>1, FS_AddElement
  <2> HIDE DEF A, B
  <2>3. QED
    BY <1>0, <1>1, <1>2, <2>1, <2>2
<1>3. CASE G[x] # v /\ F[x] = v
  <2>1. B = A \ {x} /\ x \in A
    BY <1>3
  <2>2. Cardinality(A \ {x}) = Cardinality(A) - 1
    BY <1>1, <2>1, FS_RemoveElement
  <2> HIDE DEF A, B
  <2>3. QED
    BY <1>0, <1>1, <1>3, <2>1, <2>2
<1>4. CASE (G[x] = v) <=> (F[x] = v)
  <2>1. B = A
    BY <1>4
  <2>2. QED
    BY <1>0, <1>1, <1>4, <2>1
<1>5. QED
  BY <1>2, <1>3, <1>4

\* A file is referenced where it is kept, and by one place alone if it has one
\* reference.
RefFacts ==
    \A f \in File :
        /\ ref[f] \in Nat
        /\ \A s \in Place : kept[s] = f => ref[f] >= 1
        /\ ref[f] = 1 => \A s, t \in Place : kept[s] = f /\ kept[t] = f => s = t

LEMMA RefsNow ==
    ASSUME TypeOK, RefsCounted
    PROVE  RefFacts
<1> SUFFICES ASSUME NEW f \in File PROVE RefFacts!(f)
  BY DEF RefFacts
<1> DEFINE A == {s \in Place : kept[s] = f}
<1>1. IsFiniteSet(A) /\ Cardinality(A) \in Nat /\ ref[f] = Cardinality(A)
  BY PlaceIs, FS_Subset, FS_CardinalityType DEF RefsCounted, References
<1>2. A # {} => Cardinality(A) # 0
  BY <1>1, FS_EmptySet
<1>3. ASSUME Cardinality(A) = 1, NEW s \in A, NEW t \in A PROVE s = t
  <2>1. PICK x : A = {x}
    BY <1>1, <1>3, FS_Singleton
  <2>2. QED
    BY <2>1
<1>4. QED
  BY <1>1, <1>2, <1>3

\* The references after one place has changed: a call gets one ...
LEMMA CountThen ==
    ASSUME RefsCounted, NEW s \in Place, OnlyAt(kept, kept', s), NEW g \in File
    PROVE  ref[g] \in Nat /\ Count(kept', g) = ref[g] + One(kept'[s], g) - One(kept[s], g)
<1>1. Count(kept, g) \in Nat /\ Count(kept', g) = Count(kept, g) + One(kept'[s], g) - One(kept[s], g)
  BY Change, Zenon
<1>2. ref[g] = Count(kept, g)
  BY DEF RefsCounted, References, Count
<1>3. QED
  BY <1>1, <1>2

LEMMA GainRefs ==
    ASSUME TypeOK, RefsCounted, NEW s \in Place, NEW f \in File,
           kept[s] = Null, kept'[s] = f, OnlyAt(kept, kept', s),
           ref' = [ref EXCEPT ![f] = ref[f] + 1]
    PROVE  RefsCounted'
<1> SUFFICES ASSUME NEW g \in File PROVE ref'[g] = Count(kept', g)
  BY DEF RefsCounted, References, Count
<1>1. Null # g
  BY DEF File, Null
<1>2. ref'[g] = IF f = g THEN ref[g] + 1 ELSE ref[g]
  BY DEF TypeOK
<1>3. QED
  BY <1>1, <1>2, CountThen DEF One

\* ... drops one ...
LEMMA LoseRefs ==
    ASSUME TypeOK, RefsCounted, NEW s \in Place, NEW f \in File,
           kept[s] = f, kept'[s] = Null, OnlyAt(kept, kept', s),
           ref' = [ref EXCEPT ![f] = ref[f] - 1]
    PROVE  RefsCounted'
<1> SUFFICES ASSUME NEW g \in File PROVE ref'[g] = Count(kept', g)
  BY DEF RefsCounted, References, Count
<1>1. Null # g
  BY DEF File, Null
<1>2. ref'[g] = IF f = g THEN ref[g] - 1 ELSE ref[g]
  BY DEF TypeOK
<1>3. QED
  BY <1>1, <1>2, CountThen DEF One

\* ... or moves it to another place.
Moves(F, G, s, t) ==
    /\ s # t /\ F[t] = Null /\ G[s] = Null /\ G[t] = F[s]
    /\ \A u \in Place \ {s, t} : G[u] = F[u]

LEMMA MoveCount ==
    ASSUME NEW F, NEW G, NEW s \in Place, NEW t \in Place, Moves(F, G, s, t), NEW g \in File
    PROVE  Count(G, g) = Count(F, g)
<1> DEFINE H == [u \in Place |-> IF u = s THEN Null ELSE F[u]]
<1>1. H[s] = Null /\ H[t] = Null
  BY DEF Moves
<1>2. OnlyAt(F, H, s)
  BY DEF OnlyAt
<1>3. OnlyAt(H, G, t)
  BY DEF OnlyAt, Moves
<1> HIDE DEF H
<1>4. Count(F, g) \in Nat /\ Count(H, g) = Count(F, g) + One(H[s], g) - One(F[s], g)
  BY Change, <1>2, Zenon
<1>5. Count(G, g) = Count(H, g) + One(G[t], g) - One(H[t], g)
  BY Change, <1>3
<1>6. Null # g
  BY DEF File, Null
<1>7. QED
  BY <1>1, <1>4, <1>5, <1>6 DEF One, Moves

LEMMA MoveRefs ==
    ASSUME RefsCounted, NEW s \in Place, NEW t \in Place, Moves(kept, kept', s, t), ref' = ref
    PROVE  RefsCounted'
<1> SUFFICES ASSUME NEW g \in File PROVE ref'[g] = Count(kept', g)
  BY DEF RefsCounted, References, Count
<1>1. Count(kept', g) = Count(kept, g)
  BY MoveCount, Zenon
<1>2. QED
  BY <1>1 DEF RefsCounted, References, Count

LEMMA SameRefs ==
    ASSUME RefsCounted, \A u \in Place : kept'[u] = kept[u], ref' = ref
    PROVE  RefsCounted'
<1> SUFFICES ASSUME NEW g \in File PROVE ref'[g] = Count(kept', g)
  BY DEF RefsCounted, References, Count
<1>1. {u \in Place : kept'[u] = g} = {u \in Place : kept[u] = g}
  OBVIOUS
<1>2. QED
  BY <1>1 DEF RefsCounted, References, Count

-----------------------------------------------------------------------------
\* The first element of a set of numbers is one of them.
LEMMA FirstIs ==
    ASSUME NEW S \in SUBSET Nat, S # {}
    PROVE  First(S) \in S
<1>1. PICK m \in S : \A n \in S : <<n, m>> \notin OpToRel(<, Nat)
  BY NatLessThanWellFounded, WFMin
<1>2. \A n \in S : m <= n
  <2> SUFFICES ASSUME NEW n \in S PROVE m <= n
    OBVIOUS
  <2>1. ~(n < m)
    BY <1>1 DEF OpToRel
  <2>2. QED
    BY <2>1
<1>3. QED
  BY <1>2 DEF First

\* What a step leaves alone: the ends of the pipes ...
LEMMA EndFrame ==
    ASSUME IInv, UNCHANGED <<readopen, writeopen, pages>>,
           \A f \in File, x \in Pipe, w \in BOOLEAN : Leads(f, x, w)' <=> Leads(f, x, w),
           \A p \in Proc, x \in Pipe, w \in BOOLEAN : Closes(p, x, w)' <=> Closes(p, x, w)
    PROVE  EndInv' /\ PageInv'
<1>1. EndInv'
  <2> SUFFICES ASSUME NEW x \in Pipe, NEW w \in BOOLEAN PROVE EndInv!(x)!(w)'
    BY DEF EndInv
  <2>1. EndInv!(x)!(w)
    BY DEF EndInv, IInv
  <2>2. QED
    BY <2>1
<1>2. PageInv'
  BY DEF PageInv, IInv
<1>3. QED
  BY <1>1, <1>2

\* ... who lives and whose child is whose ...
LEMMA LifeFrame ==
    ASSUME IInv, NEW p \in Proc, \A q \in Proc \ {p} : pc'[q] = pc[q],
           pc'[p] # "idle" => pc[p] # "idle" \/ life[p] = "alive",
           pc'[p] = "fork" => pc[p] = "fork", UNCHANGED <<life, child>>
    PROVE  LifeInv'
BY DEF LifeInv, IInv

\* ... and the files that another process is filling: a step of p spreads only
\* the files that p knows or that are unused, and sets the type of no others.
Spread(p) ==
    /\ \A u \in Place : kept'[u] \in File =>
        \/ kept'[u] = kept[u]
        \/ ref[kept'[u]] = 0
        \/ \E v \in Place : v[1] = p /\ kept[v] = kept'[u]
    /\ \A g \in File : type'[g] # type[g] => \E v \in Place : v[1] = p /\ kept[v] = g

LEMMA FreshOthers ==
    ASSUME IInv, NEW p \in Proc, Spread(p), NEW q \in Proc \ {p},
           pc'[q] = pc[q], held'[q] = held[q]
    PROVE  FreshInv!(q)'
<1> SUFFICES ASSUME NEW k \in Local, pc[q] \in Filling, held[q][k] # Null
             PROVE  /\ type'[held[q][k]] = "NONE"
                    /\ \A s \in Place : kept'[s] = held[q][k] => s = <<q, NOFILE + k>>
  OBVIOUS
<1> DEFINE g == held[q][k]
<1> DEFINE t == <<q, NOFILE + k>>
<1>1. g \in File /\ t \in Place /\ kept[t] = g
  BY PlaceIs, KeptNow DEF KeptIs, IInv, TypeOK
<1>2. type[g] = "NONE" /\ \A s \in Place : kept[s] = g => s = t
  BY DEF IInv, FreshInv
<1>3. ref[g] # 0
  BY <1>1, RefsNow DEF IInv, RefFacts
<1>4. \A v \in Place : kept[v] = g => v[1] # p
  BY <1>2
<1>5. QED
  BY <1>1, <1>2, <1>3, <1>4 DEF Spread

\* fileinit, and no process but the first.
LEMMA InitIInv == Init => IInv
<1> SUFFICES ASSUME Init PROVE IInv
  OBVIOUS
<1> USE DEF Init
<1>1. TypeOK
  BY FileTableAssumption DEF TypeOK, Type, PC, NoCopy, Null, Local
<1>2. \A s \in Place : kept[s] = Null
  BY PlaceIs, KeptNow DEF KeptIs
<1>3. \A f \in File : f # Null
  BY DEF File, Null
<1>4. RefsCounted
  <2>1. \A f \in File : {s \in Place : kept[s] = f} = {}
    BY <1>2, <1>3
  <2>2. QED
    BY <2>1, FS_EmptySet DEF RefsCounted, References
<1>5. LocalInv
  BY DEF LocalInv, Held
<1>6. LifeInv /\ FreshInv /\ FileInv
  BY DEF LifeInv, FreshInv, FileInv, Filling
<1>7. EndInv /\ PageInv
  BY DEF EndInv, PageInv, Leads, Closes
<1>8. InodeInv
  <2>1. InodeFiles = {} /\ InodeCalls = {}
    BY DEF InodeFiles, InodeCalls
  <2>2. QED
    BY <2>1, FS_EmptySet DEF InodeInv
<1>9. QED
  BY <1>1, <1>4, <1>5, <1>6, <1>7, <1>8 DEF IInv

-----------------------------------------------------------------------------
\* filealloc takes a file that no place keeps.
LEMMA AllocStep ==
    ASSUME IInv, NEW p \in Proc, NEW k \in Local, NEW to, filealloc(p, k), goto(p, to),
           UNCHANGED <<type, pipe, writable, ofile, pipes, iref, life, arg, fd, ff, child>>,
           \/ pc[p] = "open" /\ to = "opened" /\ k = 1
           \/ pc[p] = "idle" /\ life[p] = "alive" /\ to = "pipe1" /\ k = 1
           \/ pc[p] = "pipe1" /\ to = "pipe2" /\ k = 2
    PROVE  IInv'
<1> DEFINE f == First(Unused)
<1> DEFINE s == <<p, NOFILE + k>>
<1> USE DEF IInv
<1>1. f \in File /\ ref[f] = 0 /\ f # Null
  <2>1. Unused \in SUBSET Nat /\ Unused # {}
    BY DEF Unused, File, filealloc
  <2>2. QED
    BY <2>1, FirstIs DEF Unused, File, Null
<1>2. ref' = [ref EXCEPT ![f] = ref[f] + 1] /\ held' = [held EXCEPT ![p][k] = f]
  BY <1>1 DEF filealloc
<1> HIDE DEF f
<1>3. /\ pc'[p] = to /\ \A q \in Proc \ {p} : pc'[q] = pc[q] /\ held'[q] = held[q]
      /\ held'[p][k] = f /\ \A m \in Local \ {k} : held'[p][m] = held[p][m]
  BY <1>2 DEF goto, TypeOK
<1>4. \A q \in Proc : pc'[q] = "dup" <=> pc[q] = "dup"
  BY <1>3
<1>5. s \in Place /\ kept'[s] = f /\ OnlyAt(kept, kept', s)
  BY <1>3, <1>4, PlaceIs, KeptNow, KeptThen DEF KeptIs, OnlyAt
<1>6. held[p][k] = Null /\ kept[s] = Null
  <2>1. LocalInv!(p)
    BY DEF LocalInv
  <2>2. held[p][k] = Null
    BY <2>1 DEF Held, Local
  <2>3. QED
    BY <2>2, KeptNow DEF KeptIs
<1>7. TypeOK'
  BY <1>1, <1>2 DEF TypeOK, goto, PC, pipes
<1>8. RefsCounted'
  BY <1>1, <1>2, <1>5, <1>6, GainRefs
<1>9. LocalInv'
  <2> SUFFICES ASSUME NEW q \in Proc PROVE LocalInv!(q)'
    BY DEF LocalInv
  <2>1. LocalInv!(q)
    BY DEF LocalInv
  <2>2. CASE q = p
    BY <2>1, <2>2, <1>1, <1>3, <1>6 DEF Held, Local
  <2>3. CASE q # p
    BY <2>1, <2>3, <1>3 DEF Held
  <2>4. QED
    BY <2>2, <2>3
<1>10. LifeInv'
  BY <1>3, LifeFrame
<1>11. \A u \in Place : kept[u] # f
  BY <1>1, RefsNow DEF RefFacts
<1>12. FreshInv'
  <2> SUFFICES ASSUME NEW q \in Proc PROVE FreshInv!(q)'
    BY DEF FreshInv
  <2>1. CASE q # p
    <3>1. Spread(p)
      BY <1>1, <1>5 DEF Spread, OnlyAt
    <3>2. QED
      BY <2>1, <3>1, <1>3, FreshOthers
  <2>2. CASE q = p
    <3> SUFFICES ASSUME NEW m \in Local, held'[p][m] # Null
                 PROVE  /\ type[held'[p][m]] = "NONE"
                        /\ \A u \in Place : kept'[u] = held'[p][m] => u = <<p, NOFILE + m>>
      BY <2>2
    <3>1. CASE m = k
      BY <3>1, <1>1, <1>3, <1>5, <1>11 DEF FileInv, OnlyAt
    <3>2. CASE m # k
      <4>1. held'[p][m] = held[p][m] /\ pc[p] = "pipe1"
        BY <3>2, <1>3 DEF Local, LocalInv, Held
      <4>2. type[held[p][m]] = "NONE" /\ \A u \in Place : kept[u] = held[p][m] => u = <<p, NOFILE + m>>
        BY <4>1 DEF FreshInv, Filling
      <4>3. held[p][m] # f
        <5>1. kept[<<p, NOFILE + m>>] = held[p][m] /\ <<p, NOFILE + m>> \in Place
          BY PlaceIs, KeptNow DEF KeptIs
        <5>2. QED
          BY <5>1, <1>11
      <4>4. QED
        BY <4>1, <4>2, <4>3, <1>5 DEF OnlyAt
    <3>3. QED
      BY <3>1, <3>2
  <2>3. QED
    BY <2>1, <2>2
<1>13. FileInv'
  BY <1>1, <1>2, <1>3 DEF FileInv, TypeOK
<1>14. EndInv' /\ PageInv'
  <2>1. \A q \in Proc : pc'[q] = "pipeclose" <=> pc[q] = "pipeclose"
    BY <1>3
  <2>2. QED
    BY <2>1, EndFrame DEF Leads, Closes, pipes
<1>15. InodeInv'
  <2>1. InodeFiles' = InodeFiles /\ InodeCalls' = InodeCalls
    BY <1>3 DEF InodeFiles, InodeCalls
  <2>2. QED
    BY <2>1 DEF InodeInv
<1>16. QED
  BY <1>7, <1>8, <1>9, <1>10, <1>12, <1>13, <1>14, <1>15

\* A failing call, or an exit, goes to its fileclose.
LEMMA ToCloseStep ==
    ASSUME IInv, NEW p \in Proc, goto(p, "fileclose"), pc[p] \in {"pipe1", "pipe2", "pipe3"},
           UNCHANGED <<ftable, ofile, pipes, iref, life, held, arg, fd, ff, child>>
    PROVE  IInv'
<1> USE DEF IInv
<1>1. /\ pc'[p] = "fileclose" /\ \A q \in Proc \ {p} : pc'[q] = pc[q]
      /\ UNCHANGED <<ref, type, pipe, writable, ofile, readopen, writeopen, pages, iref, life, held,
                     arg, fd, ff, child>>
  BY DEF goto, TypeOK, ftable, pipes
<1>2. \A u \in Place : kept'[u] = kept[u]
  BY <1>1, PlaceIs, KeptNow, KeptThen DEF KeptIs
<1>3. TypeOK'
  BY <1>1 DEF TypeOK, goto, PC
<1>4. RefsCounted'
  BY <1>1, <1>2, SameRefs
<1>5. LocalInv' /\ FileInv'
  BY <1>1 DEF LocalInv, Held, FileInv
<1>6. LifeInv'
  BY <1>1, LifeFrame
<1>7. FreshInv'
  BY <1>1, <1>2 DEF FreshInv, Filling
<1>8. EndInv' /\ PageInv'
  BY <1>1, EndFrame DEF Leads, Closes
<1>9. InodeInv'
  <2>1. InodeFiles' = InodeFiles /\ InodeCalls' = InodeCalls
    BY <1>1 DEF InodeFiles, InodeCalls
  <2>2. QED
    BY <2>1, <1>1 DEF InodeInv
<1>10. QED
  BY <1>3, <1>4, <1>5, <1>6, <1>7, <1>8, <1>9

\* One more, and one less.
LEMMA OneMore ==
    ASSUME NEW S, IsFiniteSet(S), NEW x, x \notin S, NEW T, T = S \cup {x}
    PROVE  Cardinality(S) \in Nat /\ Cardinality(T) = Cardinality(S) + 1
BY FS_AddElement, FS_CardinalityType

LEMMA OneLess ==
    ASSUME NEW S, IsFiniteSet(S), NEW x, x \in S, NEW T, T = S \ {x}
    PROVE  Cardinality(S) \in Nat \ {0} /\ Cardinality(T) = Cardinality(S) - 1
BY FS_RemoveElement, FS_CardinalityType, FS_EmptySet

LEMMA InodeFinite ==
    /\ IsFiniteSet(InodeFiles) /\ Cardinality(InodeFiles) \in Nat
    /\ IsFiniteSet(InodeCalls) /\ Cardinality(InodeCalls) \in Nat
<1>1. IsFiniteSet(File)
  BY FS_Interval, FileTableAssumption DEF File
<1>2. InodeFiles \subseteq File /\ InodeCalls \subseteq Proc
  BY DEF InodeFiles, InodeCalls
<1>3. QED
  BY <1>1, <1>2, FS_Subset, FS_CardinalityType, FileTableAssumption

\* open has its i-node, or gives it back for want of a file.
LEMMA OpenStep ==
    ASSUME IInv, NEW p \in Proc,
           UNCHANGED <<ftable, ofile, pipes, life, held, arg, fd, ff, child>>,
           \/ Call(p) /\ iref' = iref + 1 /\ goto(p, "open")
           \/ pc[p] = "open" /\ iref' = iref - 1 /\ goto(p, "idle")
           \/ pc[p] = "iput" /\ iref' = iref - 1 /\ goto(p, "fileclose")
    PROVE  IInv'
<1> USE DEF IInv
<1>1. /\ \A q \in Proc \ {p} : pc'[q] = pc[q]
      /\ UNCHANGED <<ref, type, pipe, writable, ofile, readopen, writeopen, pages, life, held,
                     arg, fd, ff, child>>
  BY DEF goto, TypeOK, ftable, pipes
<1>2. /\ pc' \in [Proc -> PC \ {"panic"}]
      /\ \/ pc[p] = "idle" /\ life[p] = "alive" /\ pc'[p] = "open" /\ iref' = iref + 1
         \/ pc[p] = "open" /\ pc'[p] = "idle" /\ iref' = iref - 1
         \/ pc[p] = "iput" /\ pc'[p] = "fileclose" /\ iref' = iref - 1
  BY DEF goto, TypeOK, PC, Call
<1>3. \A u \in Place : kept'[u] = kept[u]
  BY <1>1, <1>2, PlaceIs, KeptNow, KeptThen DEF KeptIs
<1>4. RefsCounted'
  BY <1>1, <1>3, SameRefs
<1>5. LocalInv' /\ FileInv'
  BY <1>1, <1>2 DEF LocalInv, Held, FileInv
<1>6. LifeInv'
  BY <1>1, <1>2, LifeFrame
<1>7. FreshInv'
  BY <1>1, <1>2, <1>3 DEF FreshInv, Filling
<1>8. EndInv' /\ PageInv'
  BY <1>1, <1>2, EndFrame DEF Leads, Closes
<1>9. InodeFiles' = InodeFiles
  BY <1>1 DEF InodeFiles
<1>10. InodeInv' /\ iref' \in Nat
  <2>1. CASE pc[p] = "idle"
    <3>1. p \notin InodeCalls /\ InodeCalls' = InodeCalls \cup {p} /\ iref' = iref + 1
      BY <2>1, <1>1, <1>2 DEF InodeCalls
    <3>2. Cardinality(InodeCalls') = Cardinality(InodeCalls) + 1
      BY <3>1, OneMore, InodeFinite
    <3>3. QED
      BY <3>1, <3>2, <1>9, InodeFinite DEF InodeInv
  <2>2. CASE pc[p] # "idle"
    <3>1. p \in InodeCalls /\ InodeCalls' = InodeCalls \ {p} /\ iref' = iref - 1
      BY <2>2, <1>1, <1>2 DEF InodeCalls
    <3>2. /\ Cardinality(InodeCalls') = Cardinality(InodeCalls) - 1
          /\ Cardinality(InodeCalls) \in Nat \ {0}
      BY <3>1, OneLess, InodeFinite
    <3>3. QED
      BY <3>1, <3>2, <1>9, InodeFinite DEF InodeInv
  <2>3. QED
    BY <2>1, <2>2
<1>11. TypeOK'
  BY <1>1, <1>2, <1>10 DEF TypeOK
<1>12. QED
  BY <1>4, <1>5, <1>6, <1>7, <1>8, <1>10, <1>11

\* open's file before it has a type.
LEMMA OpenedIs ==
    ASSUME IInv, NEW p \in Proc, pc[p] = "opened"
    PROVE  /\ held[p][1] \in File /\ held[p][2] = Null /\ type[held[p][1]] = "NONE"
           /\ <<p, NOFILE + 1>> \in Place /\ kept[<<p, NOFILE + 1>>] = held[p][1]
           /\ \A s \in Place : kept[s] = held[p][1] => s = <<p, NOFILE + 1>>
           /\ ref[held[p][1]] = 1
<1> DEFINE f == held[p][1]
<1> DEFINE s == <<p, NOFILE + 1>>
<1> USE DEF IInv
<1>1. LocalInv!(p)
  BY DEF LocalInv
<1>2. f # Null /\ held[p][2] = Null /\ 1 \in Local
  BY <1>1 DEF Held, Local
<1>3. f \in File
  BY <1>2 DEF TypeOK
<1>4. s \in Place /\ kept[s] = f
  BY <1>2, PlaceIs, KeptNow DEF KeptIs
<1>5. type[f] = "NONE" /\ \A u \in Place : kept[u] = f => u = s
  BY <1>2 DEF FreshInv, Filling
<1>6. {u \in Place : kept[u] = f} = {s}
  BY <1>4, <1>5
<1>7. ref[f] = 1
  BY <1>3, <1>6, FS_Singleton DEF RefsCounted, References
<1>8. QED
  BY <1>2, <1>3, <1>4, <1>5, <1>7

\* fdalloc's descriptor.
LEMMA FreeFdIs ==
    ASSUME NEW p \in Proc, FreeFds(p) # {}
    PROVE  First(FreeFds(p)) \in Fd /\ ofile[p][First(FreeFds(p))] = Null
<1>1. FreeFds(p) \in SUBSET Nat
  BY DEF FreeFds, Fd
<1>2. QED
  BY <1>1, FirstIs DEF FreeFds

\* open's file gets a descriptor and its type.
LEMMA OpenDoneStep ==
    ASSUME IInv, NEW p \in Proc, OpenDone(p)
    PROVE  IInv'
<1> DEFINE f == held[p][1]
<1> DEFINE a == First(FreeFds(p))
<1> DEFINE s == <<p, NOFILE + 1>>
<1> DEFINE t == <<p, a>>
<1> USE DEF IInv
<1>1. /\ pc[p] = "opened" /\ pc' = [pc EXCEPT ![p] = "idle"]
      /\ ofile' = [ofile EXCEPT ![p] = [ofile[p] EXCEPT ![a] = f]]
      /\ held' = [held EXCEPT ![p][1] = Null] /\ type' = [type EXCEPT ![f] = "INODE"]
      /\ UNCHANGED <<ref, pipe, writable, readopen, writeopen, pages, iref, life, arg, fd, ff, child>>
  BY DEF OpenDone, goto, fdalloc, pipes
<1>2. /\ f \in File /\ held[p][2] = Null /\ type[f] = "NONE" /\ ref[f] = 1
      /\ s \in Place /\ kept[s] = f /\ \A u \in Place : kept[u] = f => u = s
  BY <1>1, OpenedIs
<1>3. a \in Fd /\ ofile[p][a] = Null
  BY FreeFdIs DEF OpenDone
<1>4. f # Null /\ 1 \in Local /\ Local = {1, 2}
  BY <1>2 DEF File, Null, Local
<1> HIDE DEF f, a
<1>5. /\ pc'[p] = "idle" /\ \A q \in Proc \ {p} : pc'[q] = pc[q] /\ held'[q] = held[q] /\ ofile'[q] = ofile[q]
      /\ held'[p][1] = Null /\ held'[p][2] = Null
      /\ ofile'[p][a] = f /\ \A d \in Fd \ {a} : ofile'[p][d] = ofile[p][d]
      /\ type'[f] = "INODE" /\ \A g \in File \ {f} : type'[g] = type[g]
  BY <1>1, <1>2, <1>3, <1>4 DEF TypeOK
<1>6. t \in Place /\ Moves(kept, kept', s, t)
  <2>1. t \in Place /\ s # t /\ kept[t] = Null /\ kept'[t] = f
    BY <1>1, <1>3, <1>4, <1>5, FdKept
  <2>2. kept'[s] = Null
    BY <1>4, <1>5, KeptThen DEF KeptIs
  <2>3. \A u \in Place \ {s, t} : kept'[u] = kept[u]
    <3>1. \A q \in Proc, d \in Fd : <<q, d>> \notin {s, t} => ofile'[q][d] = ofile[q][d]
      BY <1>5
    <3>2. \A q \in Proc : pc'[q] = "dup" <=> pc[q] = "dup"
      BY <1>1, <1>5
    <3>3. \A q \in Proc, k \in Local : <<q, NOFILE + k>> \notin {s, t} => held'[q][k] = held[q][k]
      BY <1>2, <1>4, <1>5
    <3>4. QED
      BY <3>1, <3>2, <3>3, <1>1, KeptElsewhere
  <2>4. QED
    BY <2>1, <2>2, <2>3, <1>2 DEF Moves
<1>7. TypeOK'
  BY <1>1, <1>2, <1>3, <1>4 DEF TypeOK, PC, Type
<1>8. RefsCounted'
  BY <1>1, <1>2, <1>6, MoveRefs
<1>9. LocalInv'
  <2> SUFFICES ASSUME NEW q \in Proc PROVE LocalInv!(q)'
    BY DEF LocalInv
  <2>1. LocalInv!(q)
    BY DEF LocalInv
  <2>2. CASE q = p
    BY <2>2, <1>4, <1>5 DEF Held
  <2>3. CASE q # p
    BY <2>1, <2>3, <1>1, <1>5 DEF Held
  <2>4. QED
    BY <2>2, <2>3
<1>10. LifeInv'
  BY <1>1, <1>5, LifeFrame
<1>11. FreshInv'
  <2> SUFFICES ASSUME NEW q \in Proc PROVE FreshInv!(q)'
    BY DEF FreshInv
  <2>1. CASE q # p
    <3>1. s[1] = p
      OBVIOUS
    <3>2. Spread(p)
      BY <1>2, <1>5, <1>6, <3>1 DEF Spread, Moves
    <3>3. QED
      BY <2>1, <3>2, <1>5, FreshOthers
  <2>2. CASE q = p
    BY <2>2, <1>5 DEF Filling
  <2>3. QED
    BY <2>1, <2>2
<1>12. FileInv'
  <2>1. \A q \in Proc : pc'[q] = "pipe3" => q # p /\ pc[q] = "pipe3" /\ held'[q] = held[q]
    BY <1>5
  <2>2. \A g \in File : type[g] # "NONE" => type'[g] # "NONE"
    BY <1>5
  <2>3. \A q \in Proc, d \in Fd : ofile'[q][d] # Null => type'[ofile'[q][d]] # "NONE"
    <3> SUFFICES ASSUME NEW q \in Proc, NEW d \in Fd, ofile'[q][d] # Null
                 PROVE  type'[ofile'[q][d]] # "NONE"
      OBVIOUS
    <3>1. CASE q = p /\ d = a
      BY <3>1, <1>5
    <3>2. CASE ~(q = p /\ d = a)
      <4>1. ofile'[q][d] = ofile[q][d] /\ ofile[q][d] \in File
        BY <3>2, <1>5 DEF TypeOK
      <4>2. QED
        BY <4>1, <2>2 DEF FileInv
    <3>3. QED
      BY <3>1, <3>2
  <2>4. \A q \in Proc, k \in Local : pc'[q] = "pipe3" => type'[held'[q][k]] # "NONE"
    <3> SUFFICES ASSUME NEW q \in Proc, NEW k \in Local, pc'[q] = "pipe3"
                 PROVE  type'[held[q][k]] # "NONE"
      BY <2>1
    <3>1. pc[q] = "pipe3" /\ LocalInv!(q)
      BY <2>1 DEF LocalInv
    <3>2. held[q][k] \in File
      BY <3>1, <1>4 DEF Held, TypeOK
    <3>3. QED
      BY <3>1, <3>2, <2>2 DEF FileInv
  <2>5. QED
    BY <1>1, <1>2, <1>5, <2>3, <2>4 DEF FileInv
<1>13. EndInv' /\ PageInv'
  <2>1. \A q \in Proc : pc'[q] = "pipeclose" <=> pc[q] = "pipeclose"
    BY <1>1, <1>5
  <2>2. \A g \in File : type'[g] = "PIPE" <=> type[g] = "PIPE"
    BY <1>2, <1>5
  <2>3. QED
    BY <1>1, <2>1, <2>2, EndFrame DEF Leads, Closes
<1>14. InodeInv'
  <2>1. p \in InodeCalls /\ InodeCalls' = InodeCalls \ {p}
    BY <1>1, <1>5 DEF InodeCalls
  <2>2. f \notin InodeFiles /\ InodeFiles' = InodeFiles \cup {f}
    BY <1>2, <1>5 DEF InodeFiles
  <2>3. Cardinality(InodeCalls') = Cardinality(InodeCalls) - 1
    BY <2>1, OneLess, InodeFinite
  <2>4. Cardinality(InodeFiles') = Cardinality(InodeFiles) + 1
    BY <2>2, OneMore, InodeFinite
  <2>5. QED
    BY <1>1, <2>3, <2>4, InodeFinite DEF InodeInv
<1>15. QED
  BY <1>7, <1>8, <1>9, <1>10, <1>11, <1>12, <1>13, <1>14

\* open finds no descriptor and closes its file, which nobody else knows.
LEMMA OpenFailStep ==
    ASSUME IInv, NEW p \in Proc, pc[p] = "opened",
           ref' = [ref EXCEPT ![held[p][1]] = 0], held' = [held EXCEPT ![p][1] = Null],
           iref' = iref - 1, goto(p, "idle"),
           UNCHANGED <<type, pipe, writable, ofile, pipes, life, arg, fd, ff, child>>
    PROVE  IInv'
<1> DEFINE f == held[p][1]
<1> DEFINE s == <<p, NOFILE + 1>>
<1> USE DEF IInv
<1>1. /\ f \in File /\ held[p][2] = Null /\ type[f] = "NONE" /\ ref[f] = 1
      /\ s \in Place /\ kept[s] = f /\ \A u \in Place : kept[u] = f => u = s
  BY OpenedIs
<1>2. ref' = [ref EXCEPT ![f] = ref[f] - 1] /\ Local = {1, 2}
  BY <1>1 DEF Local
<1> HIDE DEF f
<1>3. /\ pc'[p] = "idle" /\ \A q \in Proc \ {p} : pc'[q] = pc[q] /\ held'[q] = held[q]
      /\ held'[p][1] = Null /\ held'[p][2] = Null
      /\ UNCHANGED <<readopen, writeopen, pages>>
  BY <1>1, <1>2 DEF goto, TypeOK, pipes
<1>4. kept'[s] = Null /\ OnlyAt(kept, kept', s)
  <2>1. kept'[s] = Null
    BY <1>2, <1>3, HeldKept
  <2>2. \A q \in Proc : pc'[q] = "dup" <=> pc[q] = "dup"
    BY <1>3
  <2>3. \A q \in Proc, k \in Local : <<q, NOFILE + k>> \notin {s} => held'[q][k] = held[q][k]
    BY <1>1, <1>2, <1>3
  <2>4. QED
    BY <2>1, <2>2, <2>3, KeptElsewhere DEF OnlyAt
<1>5. RefsCounted'
  BY <1>1, <1>2, <1>4, LoseRefs
<1>6. LocalInv'
  <2> SUFFICES ASSUME NEW q \in Proc PROVE LocalInv!(q)'
    BY DEF LocalInv
  <2>1. LocalInv!(q)
    BY DEF LocalInv
  <2>2. CASE q = p
    BY <2>2, <1>2, <1>3 DEF Held
  <2>3. CASE q # p
    BY <2>1, <2>3, <1>3 DEF Held
  <2>4. QED
    BY <2>2, <2>3
<1>7. LifeInv'
  BY <1>3, LifeFrame
<1>8. FreshInv'
  <2> SUFFICES ASSUME NEW q \in Proc PROVE FreshInv!(q)'
    BY DEF FreshInv
  <2>1. CASE q # p
    <3>1. Spread(p)
      <4>1. Null \notin File
        BY DEF Null, File
      <4>2. QED
        BY <1>4, <4>1 DEF Spread, OnlyAt
    <3>2. QED
      BY <2>1, <3>1, <1>3, FreshOthers
  <2>2. CASE q = p
    BY <2>2, <1>3 DEF Filling
  <2>3. QED
    BY <2>1, <2>2
<1>9. FileInv'
  BY <1>1, <1>2, <1>3 DEF FileInv, TypeOK
<1>10. EndInv' /\ PageInv'
  <2>1. \A q \in Proc : pc'[q] = "pipeclose" <=> pc[q] = "pipeclose"
    BY <1>3
  <2>2. QED
    BY <1>3, <2>1, EndFrame DEF Leads, Closes
<1>11. InodeInv' /\ iref' \in Nat
  <2>1. p \in InodeCalls /\ InodeCalls' = InodeCalls \ {p} /\ InodeFiles' = InodeFiles
    BY <1>3 DEF InodeCalls, InodeFiles
  <2>2. /\ Cardinality(InodeCalls') = Cardinality(InodeCalls) - 1
        /\ Cardinality(InodeCalls) \in Nat \ {0}
    BY <2>1, OneLess, InodeFinite
  <2>3. QED
    BY <2>1, <2>2, InodeFinite DEF InodeInv
<1>12. TypeOK'
  <2>1. ref' \in [File -> Nat]
    BY <1>1 DEF TypeOK
  <2>2. held' \in [Proc -> [Local -> File \cup {Null}]]
    BY <1>2 DEF TypeOK
  <2>3. QED
    BY <2>1, <2>2, <1>3, <1>11 DEF TypeOK, goto, PC
<1>13. QED
  BY <1>5, <1>6, <1>7, <1>8, <1>9, <1>10, <1>11, <1>12

\* The two files of a pipe that kalloc is about to give a page, and the pipe.
LEMMA PipeFilesAre ==
    ASSUME IInv, NEW p \in Proc, pc[p] \in {"pipe2", "pipe3"}
    PROVE  /\ Local = {1, 2} /\ held[p][1] \in File /\ held[p][2] \in File
           /\ pc[p] = "pipe2" => /\ held[p][1] # held[p][2]
                                 /\ type[held[p][1]] = "NONE" /\ type[held[p][2]] = "NONE"
<1> USE DEF IInv
<1>1. Local = {1, 2}
  BY DEF Local
<1>2. LocalInv!(p)
  BY DEF LocalInv
<1>3. held[p][1] # Null /\ held[p][2] # Null
  BY <1>1, <1>2 DEF Held
<1>4. held[p][1] \in File /\ held[p][2] \in File
  BY <1>1, <1>3 DEF TypeOK
<1>5. ASSUME pc[p] = "pipe2" PROVE type[held[p][1]] = "NONE" /\ type[held[p][2]] = "NONE"
  BY <1>1, <1>3, <1>5 DEF FreshInv, Filling
<1>6. ASSUME pc[p] = "pipe2" PROVE held[p][1] # held[p][2]
  <2>1. <<p, NOFILE + 2>> \in Place /\ kept[<<p, NOFILE + 2>>] = held[p][2]
    BY <1>1, HeldKept
  <2>2. \A s \in Place : kept[s] = held[p][1] => s = <<p, NOFILE + 1>>
    BY <1>1, <1>3, <1>6 DEF FreshInv, Filling
  <2>3. <<p, NOFILE + 2>> # <<p, NOFILE + 1>>
    BY FileTableAssumption
  <2>4. QED
    BY <2>1, <2>2, <2>3
<1>7. QED
  BY <1>1, <1>4, <1>5, <1>6

\* pipealloc sets up the pipe and its two files.
LEMMA PipeKallocStep ==
    ASSUME IInv, NEW p \in Proc, PipeKalloc(p), pc'[p] # "fileclose"
    PROVE  IInv'
<1> DEFINE r == held[p][1]
<1> DEFINE w == held[p][2]
<1> USE DEF IInv
<1>1. PICK x \in Pipe \ pages :
        /\ pc[p] = "pipe2" /\ pages' = pages \cup {x} /\ readopen' = [readopen EXCEPT ![x] = TRUE]
        /\ writeopen' = [writeopen EXCEPT ![x] = TRUE]
        /\ type' = [type EXCEPT ![r] = "PIPE", ![w] = "PIPE"]
        /\ pipe' = [pipe EXCEPT ![r] = x, ![w] = x]
        /\ writable' = [writable EXCEPT ![r] = FALSE, ![w] = TRUE] /\ pc' = [pc EXCEPT ![p] = "pipe3"]
        /\ UNCHANGED <<ref, ofile, iref, life, held, arg, fd, ff, child>>
  BY DEF PipeKalloc, goto, TypeOK
<1>2. r \in File /\ w \in File /\ r # w /\ type[r] = "NONE" /\ type[w] = "NONE" /\ Local = {1, 2}
  BY <1>1, PipeFilesAre
<1>3. kept[<<p, NOFILE + 1>>] = r /\ kept[<<p, NOFILE + 2>>] = w
  BY <1>2, HeldKept
<1>4. <<p, NOFILE + 1>> \in Place /\ <<p, NOFILE + 2>> \in Place
  BY <1>2, HeldKept
<1>5. TypeOK'
  BY <1>1, <1>2 DEF TypeOK, PC, Type
<1>6. /\ pc'[p] = "pipe3" /\ \A q \in Proc \ {p} : pc'[q] = pc[q]
      /\ readopen'[x] = TRUE /\ writeopen'[x] = TRUE
      /\ \A y \in Pipe \ {x} : readopen'[y] = readopen[y] /\ writeopen'[y] = writeopen[y]
  BY <1>1 DEF TypeOK
<1>7. type'[r] = "PIPE" /\ type'[w] = "PIPE" /\ \A g \in File \ {r, w} : type'[g] = type[g]
  BY <1>1, <1>2 DEF TypeOK
<1>8. pipe'[r] = x /\ pipe'[w] = x /\ \A g \in File \ {r, w} : pipe'[g] = pipe[g]
  BY <1>1, <1>2 DEF TypeOK
<1>9. /\ writable'[r] = FALSE /\ writable'[w] = TRUE
       /\ \A g \in File \ {r, w} : writable'[g] = writable[g]
  BY <1>1, <1>2 DEF TypeOK
<1>10. UNCHANGED <<ref, ofile, iref, life, held, arg, fd, ff, child>> /\ pages' = pages \cup {x}
  BY <1>1
<1> HIDE DEF r, w
<1>11. \A u \in Place : kept'[u] = kept[u]
  <2>1. \A q \in Proc : pc'[q] = "dup" <=> pc[q] = "dup"
    BY <1>1, <1>6
  <2>2. QED
    BY <2>1, <1>10, KeptElsewhere
<1>12. RefsCounted'
  BY <1>11, <1>10, SameRefs
<1>13. LocalInv'
  BY <1>1, <1>6, <1>10 DEF LocalInv, Held
<1>14. LifeInv'
  BY <1>1, <1>6, <1>10, LifeFrame
<1>15. FreshInv'
  <2> SUFFICES ASSUME NEW q \in Proc PROVE FreshInv!(q)'
    BY DEF FreshInv
  <2>1. CASE q # p
    <3>1. <<p, NOFILE + 1>>[1] = p /\ <<p, NOFILE + 2>>[1] = p
      OBVIOUS
    <3>2. \A g \in File : type'[g] # type[g] => g \in {r, w}
      BY <1>7
    <3>3. Spread(p)
      BY <1>11, <1>3, <1>4, <3>1, <3>2 DEF Spread
    <3>4. QED
      BY <2>1, <3>3, <1>6, <1>10, FreshOthers
  <2>2. CASE q = p
    BY <2>2, <1>6 DEF Filling
  <2>3. QED
    BY <2>1, <2>2
<1>16. FileInv'
  <2>1. \A g \in File : type[g] # "NONE" => type'[g] # "NONE"
    BY <1>7
  <2>2. \A g \in File : type'[g] = "PIPE" => pipe'[g] # Null
    <3>1. x # Null
      BY DEF Pipe, Null
    <3>2. QED
      BY <1>7, <1>8, <3>1 DEF FileInv
  <2>3. ref[r] # 0 /\ ref[w] # 0
    BY <1>2, <1>3, <1>4, RefsNow DEF RefFacts
  <2>4. \A q \in Proc, d \in Fd : ofile[q][d] # Null => type'[ofile[q][d]] # "NONE"
    BY <2>1 DEF FileInv, TypeOK
  <2>5. ASSUME NEW q \in Proc, NEW k \in Local, pc'[q] = "pipe3"
        PROVE  type'[held[q][k]] # "NONE"
    <3>1. CASE q = p
      BY <3>1, <1>2, <1>7 DEF r, w
    <3>2. CASE q # p
      <4>1. pc[q] = "pipe3"
        BY <3>2, <2>5, <1>6
      <4>2. held[q][k] \in File
        BY <4>1, PipeFilesAre
      <4>3. QED
        BY <4>1, <4>2, <2>1 DEF FileInv
    <3>3. QED
      BY <3>1, <3>2
  <2>6. QED
    <3>1. \A g \in File : ref'[g] = 0 => type'[g] = "NONE"
      BY <1>7, <1>10, <2>3 DEF FileInv
    <3>2. QED
      BY <1>10, <2>2, <2>4, <2>5, <3>1 DEF FileInv
<1>17. \A v \in BOOLEAN : /\ \A g \in File : ~Leads(g, x, v)
                          /\ \A q \in Proc : ~Closes(q, x, v)
  BY DEF EndInv, PageInv
<1>18. \A q \in Proc, y \in Pipe, v \in BOOLEAN : Closes(q, y, v)' <=> Closes(q, y, v)
  BY <1>1, <1>6, <1>10 DEF Closes
<1>19. EndInv'
  <2> SUFFICES ASSUME NEW y \in Pipe, NEW v \in BOOLEAN PROVE EndInv!(y)!(v)'
    BY DEF EndInv
  <2>1. EndInv!(y)!(v)
    BY DEF EndInv
  <2>2. CASE y # x
    <3>1. \A g \in File : Leads(g, y, v)' <=> Leads(g, y, v)
      BY <2>2, <1>2, <1>7, <1>8, <1>9 DEF Leads
    <3>2. QED
      BY <2>1, <2>2, <3>1, <1>6, <1>18
  <2>3. CASE y = x
    <3>1. \A g \in File : Leads(g, x, v)' <=> (g = IF v THEN w ELSE r)
      BY <1>2, <1>7, <1>8, <1>9, <1>17 DEF Leads
    <3>2. \A q \in Proc : ~Closes(q, x, v)'
      BY <1>17, <1>18
    <3>3. IF v THEN writeopen'[x] ELSE readopen'[x]
      BY <1>6
    <3>4. (IF v THEN w ELSE r) \in File
      BY <1>2
    <3>5. \E g \in File : Leads(g, x, v)'
      BY <3>1, <3>4
    <3>6. QED
      BY <2>3, <3>1, <3>2, <3>3, <3>5
  <2>4. QED
    BY <2>2, <2>3
<1>20. PageInv'
  BY <1>6, <1>10 DEF PageInv
<1>21. InodeInv'
  <2>1. InodeFiles' = InodeFiles /\ InodeCalls' = InodeCalls
    BY <1>1, <1>2, <1>6, <1>7 DEF InodeFiles, InodeCalls
  <2>2. QED
    BY <2>1, <1>10 DEF InodeInv
<1>22. QED
  BY <1>5, <1>12, <1>13, <1>14, <1>15, <1>16, <1>19, <1>20, <1>21

\* sys_pipe gives both files descriptors.
LEMMA PipeDoneStep ==
    ASSUME IInv, NEW p \in Proc, PipeDone(p), pc'[p] # "fileclose"
    PROVE  IInv'
<1> DEFINE r == held[p][1]
<1> DEFINE w == held[p][2]
<1> DEFINE a == First(FreeFds(p))
<1> DEFINE one == [ofile[p] EXCEPT ![a] = r]
<1> DEFINE left == {d \in Fd : one[d] = Null}
<1> DEFINE b == First(left)
<1> DEFINE s1 == <<p, NOFILE + 1>>
<1> DEFINE s2 == <<p, NOFILE + 2>>
<1> DEFINE t1 == <<p, a>>
<1> DEFINE t2 == <<p, b>>
<1> USE DEF IInv
<1>1. /\ pc[p] = "pipe3" /\ pc' = [pc EXCEPT ![p] = "idle"] /\ FreeFds(p) # {} /\ left # {}
      /\ ofile' = [ofile EXCEPT ![p] = [one EXCEPT ![b] = w]]
      /\ held' = [held EXCEPT ![p] = [k \in Local |-> Null]]
      /\ UNCHANGED <<ref, type, pipe, writable, readopen, writeopen, pages, iref, life, arg, fd, ff, child>>
  BY DEF PipeDone, goto, fdalloc, pipes, ftable, TypeOK
<1>2. r \in File /\ w \in File /\ Local = {1, 2} /\ r # Null /\ w # Null
  <2>1. r \in File /\ w \in File /\ Local = {1, 2}
    BY <1>1, PipeFilesAre
  <2>2. QED
    BY <2>1 DEF File, Null
<1>3. a \in Fd /\ ofile[p][a] = Null
  BY <1>1, FreeFdIs
<1>4. b \in Fd /\ one[b] = Null
  <2>1. left \in SUBSET Nat
    BY DEF Fd
  <2>2. b \in left
    BY <1>1, <2>1, FirstIs
  <2>3. QED
    BY <2>2
<1> HIDE DEF r, w, a, b, left
<1>5. b # a /\ ofile[p][b] = Null
  BY <1>2, <1>3, <1>4 DEF TypeOK
<1>6. /\ pc'[p] = "idle" /\ \A q \in Proc \ {p} : pc'[q] = pc[q] /\ held'[q] = held[q] /\ ofile'[q] = ofile[q]
      /\ held'[p][1] = Null /\ held'[p][2] = Null
      /\ ofile'[p][a] = r /\ ofile'[p][b] = w /\ \A d \in Fd \ {a, b} : ofile'[p][d] = ofile[p][d]
  BY <1>1, <1>2, <1>3, <1>4, <1>5 DEF TypeOK
<1>7. TypeOK'
  BY <1>1, <1>2, <1>3, <1>4 DEF TypeOK, PC
<1>8. \A q \in Proc : pc'[q] = "dup" <=> pc[q] = "dup"
  BY <1>1, <1>6
<1>9. /\ s1 \in Place /\ s2 \in Place /\ t1 \in Place /\ t2 \in Place
      /\ s1 # s2 /\ s1 # t1 /\ s1 # t2 /\ s2 # t1 /\ s2 # t2 /\ t1 # t2
  <2>1. s1 # s2 /\ t1 # t2
    BY <1>5, FileTableAssumption
  <2>2. QED
    BY <2>1, <1>2, <1>3, <1>4, FdKept, HeldKept
<1>10. kept[s1] = r /\ kept[s2] = w /\ kept[t1] = Null /\ kept[t2] = Null
  BY <1>1, <1>2, <1>3, <1>4, <1>5, FdKept, HeldKept DEF r, w
<1>11. kept'[s1] = Null /\ kept'[s2] = Null /\ kept'[t1] = r /\ kept'[t2] = w
  BY <1>2, <1>3, <1>4, <1>6, FdKept, HeldKept
<1>12. \A u \in Place \ {s1, s2, t1, t2} : kept'[u] = kept[u]
  <2>1. \A q \in Proc, d \in Fd : <<q, d>> \notin {s1, s2, t1, t2} => ofile'[q][d] = ofile[q][d]
    BY <1>6
  <2>2. \A q \in Proc, k \in Local :
          <<q, NOFILE + k>> \notin {s1, s2, t1, t2} => held'[q][k] = held[q][k]
    BY <1>2, <1>6
  <2>3. QED
    BY <2>1, <2>2, <1>1, <1>8, KeptElsewhere
<1> HIDE DEF s1, s2, t1, t2
<1>13. RefsCounted'
  <2> DEFINE H == [u \in Place |-> IF u = s1 THEN Null ELSE IF u = t1 THEN r ELSE kept[u]]
  <2> SUFFICES ASSUME NEW g \in File PROVE ref'[g] = Count(kept', g)
    BY DEF RefsCounted, References, Count
  <2>1. Moves(kept, H, s1, t1)
    BY <1>9, <1>10 DEF Moves
  <2>2. Moves(H, kept', s2, t2)
    BY <1>9, <1>10, <1>11, <1>12 DEF Moves
  <2> HIDE DEF H
  <2>3. Count(H, g) = Count(kept, g) /\ Count(kept', g) = Count(H, g)
    BY <2>1, <2>2, <1>9, MoveCount
  <2>4. QED
    BY <2>3, <1>1 DEF RefsCounted, References, Count
<1>14. LocalInv'
  <2> SUFFICES ASSUME NEW q \in Proc PROVE LocalInv!(q)'
    BY DEF LocalInv
  <2>1. LocalInv!(q)
    BY DEF LocalInv
  <2>2. CASE q = p
    BY <2>2, <1>2, <1>6 DEF Held
  <2>3. CASE q # p
    BY <2>1, <2>3, <1>1, <1>6 DEF Held
  <2>4. QED
    BY <2>2, <2>3
<1>15. LifeInv'
  BY <1>1, <1>6, LifeFrame
<1>16. FreshInv'
  <2> SUFFICES ASSUME NEW q \in Proc PROVE FreshInv!(q)'
    BY DEF FreshInv
  <2>1. CASE q # p
    <3>1. s1[1] = p /\ s2[1] = p
      BY DEF s1, s2
    <3>2. Null \notin File
      BY DEF Null, File
    <3>3. \A u \in Place : kept'[u] \in {kept[u], Null, kept[s1], kept[s2]}
      BY <1>10, <1>11, <1>12
    <3>4. Spread(p)
      BY <1>1, <1>9, <3>1, <3>2, <3>3 DEF Spread
    <3>5. QED
      BY <2>1, <3>4, <1>6, FreshOthers
  <2>2. CASE q = p
    BY <2>2, <1>6 DEF Filling
  <2>3. QED
    BY <2>1, <2>2
<1>17. FileInv'
  <2>1. type[r] # "NONE" /\ type[w] # "NONE"
    BY <1>1, <1>2 DEF FileInv, r, w
  <2>2. \A q \in Proc, d \in Fd : ofile'[q][d] # Null => type[ofile'[q][d]] # "NONE"
    BY <2>1, <1>6 DEF FileInv
  <2>3. \A q \in Proc, k \in Local : pc'[q] = "pipe3" => type[held'[q][k]] # "NONE"
    BY <1>6 DEF FileInv
  <2>4. QED
    BY <2>2, <2>3, <1>1 DEF FileInv
<1>18. EndInv' /\ PageInv'
  <2>1. \A q \in Proc : pc'[q] = "pipeclose" <=> pc[q] = "pipeclose"
    BY <1>1, <1>6
  <2>2. QED
    BY <1>1, <2>1, EndFrame DEF Leads, Closes
<1>19. InodeInv'
  <2>1. InodeFiles' = InodeFiles /\ InodeCalls' = InodeCalls
    BY <1>1, <1>6 DEF InodeFiles, InodeCalls
  <2>2. QED
    BY <2>1, <1>1 DEF InodeInv
<1>20. QED
  BY <1>7, <1>13, <1>14, <1>15, <1>16, <1>17, <1>18, <1>19

-----------------------------------------------------------------------------
\* read and write use a file without a reference of their own.
LEMMA UseStep ==
    ASSUME IInv, NEW p \in Proc, (\E d \in Fd : Use(p, d)) \/ UseDone(p)
    PROVE  IInv'
<1> USE DEF IInv
<1>1. /\ \A q \in Proc \ {p} : pc'[q] = pc[q] /\ arg'[q] = arg[q]
      /\ UNCHANGED <<ref, type, pipe, writable, ofile, readopen, writeopen, pages, iref, life, held,
                     fd, ff, child>>
  BY DEF Use, UseDone, goto, TypeOK, ftable, pipes
<1>2. /\ pc' \in [Proc -> PC \ {"panic"}] /\ arg' \in [Proc -> File \cup {Null}]
      /\ \/ /\ pc[p] = "idle" /\ life[p] = "alive" /\ pc'[p] = "use"
            /\ arg'[p] # Null /\ \E d \in Fd : ofile[p][d] = arg'[p]
         \/ pc[p] = "use" /\ pc'[p] = "idle"
  <2>1. CASE UseDone(p)
    BY <2>1 DEF UseDone, goto, TypeOK, PC
  <2>2. ASSUME NEW d \in Fd, Use(p, d)
        PROVE  /\ pc' \in [Proc -> PC \ {"panic"}] /\ arg' \in [Proc -> File \cup {Null}]
               /\ pc[p] = "idle" /\ life[p] = "alive" /\ pc'[p] = "use"
               /\ arg'[p] = ofile[p][d] /\ arg'[p] # Null
    BY <2>2 DEF Use, goto, TypeOK, PC, Call
  <2>3. QED
    BY <2>1, <2>2
<1>3. \A u \in Place : kept'[u] = kept[u]
  <2>1. \A q \in Proc : pc'[q] = "dup" <=> pc[q] = "dup"
    BY <1>1, <1>2
  <2>2. QED
    BY <1>1, <2>1, KeptElsewhere
<1>4. TypeOK'
  BY <1>1, <1>2 DEF TypeOK
<1>5. RefsCounted'
  BY <1>1, <1>3, SameRefs
<1>6. LocalInv'
  <2> SUFFICES ASSUME NEW q \in Proc PROVE LocalInv!(q)'
    BY DEF LocalInv
  <2>1. LocalInv!(q)
    BY DEF LocalInv
  <2>2. CASE q = p
    BY <2>1, <2>2, <1>1, <1>2 DEF Held
  <2>3. CASE q # p
    BY <2>1, <2>3, <1>1 DEF Held
  <2>4. QED
    BY <2>2, <2>3
<1>7. LifeInv'
  BY <1>1, <1>2, LifeFrame
<1>8. FreshInv'
  BY <1>1, <1>2, <1>3 DEF FreshInv, Filling
<1>9. FileInv'
  BY <1>1, <1>2 DEF FileInv
<1>10. EndInv' /\ PageInv'
  <2>1. \A q \in Proc : pc'[q] = "pipeclose" <=> pc[q] = "pipeclose"
    BY <1>1, <1>2
  <2>2. QED
    BY <1>1, <2>1, EndFrame DEF Leads, Closes
<1>11. InodeInv'
  <2>1. InodeFiles' = InodeFiles /\ InodeCalls' = InodeCalls
    BY <1>1, <1>2 DEF InodeFiles, InodeCalls
  <2>2. QED
    BY <2>1, <1>1 DEF InodeInv
<1>12. QED
  BY <1>4, <1>5, <1>6, <1>7, <1>8, <1>9, <1>10, <1>11

\* dup's new descriptor, which does not count yet.
LEMMA DupStep ==
    ASSUME IInv, NEW p \in Proc, NEW d \in Fd, Dup(p, d)
    PROVE  IInv'
<1> DEFINE a == First(FreeFds(p))
<1> DEFINE f == ofile[p][d]
<1> USE DEF IInv
<1>1. /\ pc[p] = "idle" /\ life[p] = "alive" /\ f # Null /\ FreeFds(p) # {}
      /\ ofile' = [ofile EXCEPT ![p] = [ofile[p] EXCEPT ![a] = f]] /\ arg' = [arg EXCEPT ![p] = f]
      /\ fd' = [fd EXCEPT ![p] = a] /\ pc' = [pc EXCEPT ![p] = "dup"]
      /\ UNCHANGED <<ref, type, pipe, writable, readopen, writeopen, pages, iref, life, held, ff, child>>
  BY DEF Dup, Call, goto, fdalloc, ftable, pipes
<1>2. a \in Fd /\ ofile[p][a] = Null /\ a # Null /\ a # d
  <2>1. a \in Fd /\ ofile[p][a] = Null
    BY <1>1, FreeFdIs
  <2>2. QED
    BY <1>1, <2>1 DEF Fd, Null
<1>3. f \in File
  BY <1>1 DEF TypeOK
<1> HIDE DEF a, f
<1>4. /\ pc'[p] = "dup" /\ fd'[p] = a /\ arg'[p] = f
      /\ \A q \in Proc \ {p} : /\ pc'[q] = pc[q] /\ arg'[q] = arg[q] /\ fd'[q] = fd[q]
                               /\ ofile'[q] = ofile[q]
      /\ ofile'[p][a] = f /\ \A e \in Fd \ {a} : ofile'[p][e] = ofile[p][e]
  BY <1>1, <1>2 DEF TypeOK
<1>5. TypeOK'
  BY <1>1, <1>2, <1>3 DEF TypeOK, PC
<1>6. \A u \in Place : kept'[u] = kept[u]
  <2>1. <<p, a>> \in Place /\ kept'[<<p, a>>] = Null /\ kept[<<p, a>>] = Null
    BY <1>1, <1>2, <1>4, FdKept
  <2>2. \A q \in Proc, e \in Fd : <<q, e>> \notin {<<p, a>>} =>
            /\ ofile'[q][e] = ofile[q][e]
            /\ (pc'[q] = "dup" /\ e = fd'[q]) <=> (pc[q] = "dup" /\ e = fd[q])
    BY <1>1, <1>4
  <2>3. \A u \in Place \ {<<p, a>>} : kept'[u] = kept[u]
    BY <1>1, <2>2, KeptElsewhere
  <2>4. QED
    BY <2>1, <2>3
<1>7. RefsCounted'
  BY <1>1, <1>6, SameRefs
<1>8. LocalInv'
  <2> SUFFICES ASSUME NEW q \in Proc PROVE LocalInv!(q)'
    BY DEF LocalInv
  <2>1. LocalInv!(q)
    BY DEF LocalInv
  <2>2. CASE q = p
    <3>1. ofile'[p][d] = f /\ d # a
      BY <1>2, <1>4 DEF f
    <3>2. QED
      BY <2>1, <2>2, <3>1, <1>1, <1>2, <1>4 DEF Held
  <2>3. CASE q # p
    BY <2>1, <2>3, <1>1, <1>4 DEF Held
  <2>4. QED
    BY <2>2, <2>3
<1>9. LifeInv'
  BY <1>1, <1>4, LifeFrame
<1>10. FreshInv'
  BY <1>1, <1>4, <1>6 DEF FreshInv, Filling
<1>11. FileInv'
  <2>1. type[f] # "NONE"
    BY <1>1 DEF FileInv, f
  <2>2. \A q \in Proc, e \in Fd : ofile'[q][e] # Null => type[ofile'[q][e]] # "NONE"
    BY <2>1, <1>4 DEF FileInv
  <2>3. \A q \in Proc : pc'[q] = "pipe3" => pc[q] = "pipe3"
    BY <1>4
  <2>4. QED
    BY <2>2, <2>3, <1>1 DEF FileInv
<1>12. EndInv' /\ PageInv'
  <2>1. \A q \in Proc : pc'[q] = "pipeclose" <=> pc[q] = "pipeclose"
    BY <1>1, <1>4
  <2>2. QED
    BY <1>1, <2>1, EndFrame DEF Leads, Closes
<1>13. InodeInv'
  <2>1. InodeFiles' = InodeFiles /\ InodeCalls' = InodeCalls
    BY <1>1, <1>4 DEF InodeFiles, InodeCalls
  <2>2. QED
    BY <2>1, <1>1 DEF InodeInv
<1>14. QED
  BY <1>5, <1>7, <1>8, <1>9, <1>10, <1>11, <1>12, <1>13

\* filedup of a file that the descriptor it was copied from keeps.
LEMMA DupRefStep ==
    ASSUME IInv, NEW p \in Proc, DupRef(p)
    PROVE  IInv'
<1> DEFINE f == arg[p]
<1> DEFINE t == <<p, fd[p]>>
<1> USE DEF IInv
<1>1. pc[p] = "dup" /\ LocalInv!(p)
  BY DEF DupRef, LocalInv
<1>2. PICK d \in Fd : ofile[p][d] = f /\ d # fd[p]
  BY <1>1
<1>3. f \in File /\ fd[p] \in Fd /\ ofile[p][fd[p]] = f /\ f # Null
  BY <1>1 DEF TypeOK
<1>4. <<p, d>> \in Place /\ kept[<<p, d>>] = f
  BY <1>2, FdKept
<1>5. ref[f] >= 1 /\ ref[f] \in Nat
  BY <1>3, <1>4, RefsNow DEF RefFacts
<1>6. /\ ref' = [ref EXCEPT ![f] = ref[f] + 1] /\ pc' = [pc EXCEPT ![p] = "idle"]
      /\ arg' = [arg EXCEPT ![p] = Null] /\ fd' = [fd EXCEPT ![p] = Null]
      /\ UNCHANGED <<type, pipe, writable, ofile, readopen, writeopen, pages, iref, life, held, ff, child>>
  BY <1>3, <1>5 DEF DupRef, filedup, goto, pipes
<1> HIDE DEF f
<1>7. /\ pc'[p] = "idle"
      /\ \A q \in Proc \ {p} : pc'[q] = pc[q] /\ arg'[q] = arg[q] /\ fd'[q] = fd[q]
  BY <1>6 DEF TypeOK
<1>8. TypeOK'
  BY <1>3, <1>5, <1>6 DEF TypeOK, PC
<1>9. t \in Place /\ kept[t] = Null /\ kept'[t] = f
  BY <1>1, <1>3, <1>6, <1>7, FdKept
<1>10. OnlyAt(kept, kept', t)
  <2>1. \A q \in Proc, e \in Fd : <<q, e>> \notin {t} =>
            /\ ofile'[q][e] = ofile[q][e]
            /\ (pc'[q] = "dup" /\ e = fd'[q]) <=> (pc[q] = "dup" /\ e = fd[q])
    BY <1>6, <1>7
  <2>2. QED
    BY <1>6, <2>1, KeptElsewhere DEF OnlyAt
<1>11. RefsCounted'
  BY <1>3, <1>6, <1>9, <1>10, GainRefs
<1>12. LocalInv'
  <2> SUFFICES ASSUME NEW q \in Proc PROVE LocalInv!(q)'
    BY DEF LocalInv
  <2>1. LocalInv!(q)
    BY DEF LocalInv
  <2>2. CASE q = p
    BY <2>1, <2>2, <1>1, <1>6, <1>7 DEF Held
  <2>3. CASE q # p
    BY <2>1, <2>3, <1>6, <1>7 DEF Held
  <2>4. QED
    BY <2>2, <2>3
<1>13. LifeInv'
  BY <1>6, <1>7, LifeFrame
<1>14. FreshInv'
  <2> SUFFICES ASSUME NEW q \in Proc PROVE FreshInv!(q)'
    BY DEF FreshInv
  <2>1. CASE q # p
    <3>1. <<p, d>>[1] = p
      OBVIOUS
    <3>2. Spread(p)
      BY <1>4, <1>6, <1>9, <1>10, <3>1 DEF Spread, OnlyAt
    <3>3. QED
      BY <2>1, <3>2, <1>6, <1>7, FreshOthers
  <2>2. CASE q = p
    BY <2>2, <1>7 DEF Filling
  <2>3. QED
    BY <2>1, <2>2
<1>15. FileInv'
  <2>1. \A q \in Proc : pc'[q] = "pipe3" => pc[q] = "pipe3"
    BY <1>7
  <2>2. \A g \in File : ref'[g] = 0 => ref[g] = 0
    BY <1>5, <1>6 DEF TypeOK
  <2>3. QED
    BY <2>1, <2>2, <1>6 DEF FileInv
<1>16. EndInv' /\ PageInv'
  <2>1. \A q \in Proc : pc'[q] = "pipeclose" <=> pc[q] = "pipeclose"
    BY <1>1, <1>7
  <2>2. QED
    BY <1>6, <2>1, EndFrame DEF Leads, Closes
<1>17. InodeInv'
  <2>1. InodeFiles' = InodeFiles /\ InodeCalls' = InodeCalls
    BY <1>1, <1>6, <1>7 DEF InodeFiles, InodeCalls
  <2>2. QED
    BY <2>1, <1>6 DEF InodeInv
<1>18. QED
  BY <1>8, <1>11, <1>12, <1>13, <1>14, <1>15, <1>16, <1>17

\* A descriptor's reference goes to fileclose, from close or from exit.
LEMMA PassStep ==
    ASSUME IInv, NEW p \in Proc, NEW d \in Fd, ofile[p][d] # Null, Held(p) = {},
           \/ pc[p] = "idle" /\ life[p] = "alive"
           \/ pc[p] = "fileclose",
           held' = [held EXCEPT ![p][1] = ofile[p][d]], ofile' = [ofile EXCEPT ![p][d] = Null],
           pc' = [pc EXCEPT ![p] = "fileclose"],
           UNCHANGED <<ftable, pipes, iref, life, arg, fd, ff, child>>
    PROVE  IInv'
<1> DEFINE f == ofile[p][d]
<1> DEFINE s == <<p, d>>
<1> DEFINE t == <<p, NOFILE + 1>>
<1> USE DEF IInv
<1>1. /\ f \in File /\ Local = {1, 2} /\ held[p][1] = Null /\ held[p][2] = Null
      /\ UNCHANGED <<ref, type, pipe, writable, readopen, writeopen, pages>>
  BY DEF TypeOK, Held, Local, ftable, pipes
<1>2. /\ pc'[p] = "fileclose"
      /\ \A q \in Proc \ {p} : pc'[q] = pc[q] /\ held'[q] = held[q] /\ ofile'[q] = ofile[q]
  BY DEF TypeOK
<1>3. /\ held'[p][1] = f /\ held'[p][2] = Null
      /\ ofile'[p][d] = Null /\ \A e \in Fd \ {d} : ofile'[p][e] = ofile[p][e]
  BY <1>1 DEF TypeOK
<1>4. TypeOK'
  BY <1>1 DEF TypeOK, PC
<1>5. s \in Place /\ t \in Place /\ s # t
  <2>1. 1 \in Local
    BY <1>1
  <2>2. t \in Place
    BY <2>1, HeldKept
  <2>3. s \in Place /\ s # t
    BY <2>1, FdKept
  <2>4. QED
    BY <2>2, <2>3
<1>6. kept[s] = f /\ kept[t] = Null /\ kept'[s] = Null /\ kept'[t] = f
  <2>1. kept[s] = f /\ kept'[s] = Null
    BY <1>2, <1>3, FdKept
  <2>2. 1 \in Local
    BY <1>1
  <2>3. kept[t] = Null /\ kept'[t] = f
    BY <1>1, <1>3, <2>2, HeldKept
  <2>4. QED
    BY <2>1, <2>3
<1>7. \A u \in Place \ {s, t} : kept'[u] = kept[u]
  <2>1. \A q \in Proc, e \in Fd : <<q, e>> \notin {s, t} => ofile'[q][e] = ofile[q][e]
    BY <1>2, <1>3
  <2>2. \A q \in Proc : pc'[q] = "dup" <=> pc[q] = "dup"
    BY <1>2
  <2>3. \A q \in Proc, k \in Local : <<q, NOFILE + k>> \notin {s, t} => held'[q][k] = held[q][k]
    BY <1>1, <1>2, <1>3
  <2>4. QED
    BY <2>1, <2>2, <2>3, KeptElsewhere
<1> HIDE DEF f
<1>8. RefsCounted'
  <2>1. Moves(kept, kept', s, t)
    BY <1>5, <1>6, <1>7 DEF Moves
  <2>2. QED
    BY <1>1, <1>5, <2>1, MoveRefs
<1>9. LocalInv'
  <2> SUFFICES ASSUME NEW q \in Proc PROVE LocalInv!(q)'
    BY DEF LocalInv
  <2>1. LocalInv!(q)
    BY DEF LocalInv
  <2>2. CASE q = p
    BY <2>2, <1>2
  <2>3. CASE q # p
    BY <2>1, <2>3, <1>2 DEF Held
  <2>4. QED
    BY <2>2, <2>3
<1>10. LifeInv'
  BY <1>2, LifeFrame
<1>11. FreshInv'
  <2> SUFFICES ASSUME NEW q \in Proc PROVE FreshInv!(q)'
    BY DEF FreshInv
  <2>1. CASE q # p
    <3>1. s[1] = p
      OBVIOUS
    <3>2. Null \notin File
      BY DEF Null, File
    <3>3. Spread(p)
      BY <1>1, <1>5, <1>6, <1>7, <3>1, <3>2 DEF Spread
    <3>4. QED
      BY <2>1, <3>3, <1>2, FreshOthers
  <2>2. CASE q = p
    BY <2>2, <1>2 DEF Filling
  <2>3. QED
    BY <2>1, <2>2
<1>12. FileInv'
  <2>1. \A q \in Proc : pc'[q] = "pipe3" => pc[q] = "pipe3" /\ held'[q] = held[q]
    BY <1>2
  <2>2. \A q \in Proc, e \in Fd : ofile'[q][e] \in {ofile[q][e], Null}
    BY <1>2, <1>3
  <2>3. QED
    BY <1>1, <2>1, <2>2 DEF FileInv
<1>13. EndInv' /\ PageInv'
  <2>1. \A q \in Proc : pc'[q] = "pipeclose" <=> pc[q] = "pipeclose"
    BY <1>2
  <2>2. QED
    BY <1>1, <2>1, EndFrame DEF Leads, Closes
<1>14. InodeInv'
  <2>1. InodeFiles' = InodeFiles /\ InodeCalls' = InodeCalls
    BY <1>1, <1>2 DEF InodeFiles, InodeCalls
  <2>2. QED
    BY <2>1 DEF InodeInv
<1>15. QED
  BY <1>4, <1>8, <1>9, <1>10, <1>11, <1>12, <1>13, <1>14

-----------------------------------------------------------------------------
\* fileclose's file: it is referenced, and with its last reference no
\* descriptor and no other call leads to it.
LEMMA ClosedFileIs ==
    ASSUME IInv, NEW p \in Proc, NEW k, k = First(Held(p)), Held(p) # {}
    PROVE  /\ k \in Local /\ held[p][k] \in File /\ ref[held[p][k]] \in Nat \ {0}
           /\ <<p, NOFILE + k>> \in Place /\ kept[<<p, NOFILE + k>>] = held[p][k]
           /\ ref[held[p][k]] = 1 =>
                /\ \A s \in Place : kept[s] = held[p][k] => s = <<p, NOFILE + k>>
                /\ \A q \in Proc, d \in Fd : ofile[q][d] # held[p][k]
<1> DEFINE f == held[p][k]
<1> DEFINE s == <<p, NOFILE + k>>
<1> USE DEF IInv
<1>1. k \in Local /\ held[p][k] # Null
  <2>1. Held(p) \in SUBSET Nat
    BY DEF Held, Local
  <2>2. QED
    BY <2>1, FirstIs DEF Held
<1>2. f \in File
  BY <1>1 DEF TypeOK
<1>3. s \in Place /\ kept[s] = f
  BY <1>1, HeldKept
<1>4. /\ ref[f] \in Nat \ {0}
      /\ ref[f] = 1 => \A u \in Place : kept[u] = f => u = s
  BY <1>2, <1>3, RefsNow DEF RefFacts
<1>5. ASSUME ref[f] = 1, NEW q \in Proc, NEW d \in Fd, ofile[q][d] = f PROVE FALSE
  <2>1. \A e \in Fd : <<q, e>> \in Place /\ <<q, e>> # s
    BY <1>1, FdKept
  <2>2. \A e \in Fd : kept[<<q, e>>] # f
    BY <1>4, <1>5, <2>1
  <2>3. pc[q] = "dup" /\ d = fd[q]
    BY <2>2, <1>5, FdKept
  <2>4. LocalInv!(q)
    BY DEF LocalInv
  <2>5. PICK e \in Fd : ofile[q][e] = f /\ e # fd[q]
    BY <1>5, <2>3, <2>4
  <2>6. kept[<<q, e>>] = f
    BY <2>5, FdKept
  <2>7. QED
    BY <2>2, <2>6
<1>6. QED
  BY <1>1, <1>2, <1>3, <1>4, <1>5

\* fileclose drops a reference; the entry, and what it leads to, go with the
\* last one.
LEMMA FileCloseStep ==
    ASSUME IInv, NEW p \in Proc, FileClose(p)
    PROVE  IInv'
<1> DEFINE k == First(Held(p))
<1> DEFINE f == held[p][k]
<1> DEFINE s == <<p, NOFILE + k>>
<1> USE DEF IInv
<1>1. /\ pc[p] = "fileclose" /\ Held(p) # {} /\ held' = [held EXCEPT ![p][k] = Null]
      /\ UNCHANGED <<ofile, readopen, writeopen, pages, iref, life, arg, fd, child>>
  BY DEF FileClose, pipes
<1>2. /\ k \in Local /\ f \in File /\ ref[f] \in Nat \ {0} /\ s \in Place /\ kept[s] = f
      /\ ref[f] = 1 => /\ \A u \in Place : kept[u] = f => u = s
                       /\ \A q \in Proc, d \in Fd : ofile[q][d] # f
  BY <1>1, ClosedFileIs
<1>3. \/ ref[f] > 1 /\ ref' = [ref EXCEPT ![f] = ref[f] - 1] /\ UNCHANGED <<type, pipe, writable, ff, pc>>
      \/ /\ ref[f] = 1 /\ ref' = [ref EXCEPT ![f] = 0] /\ type' = [type EXCEPT ![f] = "NONE"]
         /\ pipe' = [pipe EXCEPT ![f] = Null] /\ writable' = [writable EXCEPT ![f] = FALSE]
         /\ ff' = IF type[f] = "PIPE"
                  THEN [ff EXCEPT ![p] = [pipe |-> pipe[f], writable |-> writable[f]]] ELSE ff
         /\ pc' = [pc EXCEPT ![p] = CASE type[f] = "PIPE" -> "pipeclose"
                                      [] type[f] = "INODE" -> "iput"
                                      [] OTHER -> "fileclose"]
  BY <1>2 DEF FileClose, goto
<1> HIDE DEF k, f
<1>4. ref' = [ref EXCEPT ![f] = ref[f] - 1]
  BY <1>2, <1>3
<1>5. /\ pc'[p] \in {"fileclose", "pipeclose", "iput"}
      /\ \A q \in Proc \ {p} : pc'[q] = pc[q] /\ held'[q] = held[q] /\ ff'[q] = ff[q]
      /\ held'[p][k] = Null /\ \A m \in Local \ {k} : held'[p][m] = held[p][m]
  BY <1>1, <1>2, <1>3 DEF TypeOK
<1>6. \A g \in File \ {f} : type'[g] = type[g] /\ pipe'[g] = pipe[g] /\ writable'[g] = writable[g]
  BY <1>2, <1>3 DEF TypeOK
<1>7. TypeOK'
  <2>1. ref' \in [File -> Nat] /\ held' \in [Proc -> [Local -> File \cup {Null}]]
    <3>1. ref[f] - 1 \in Nat
      BY <1>2
    <3>2. ref' \in [File -> Nat]
      BY <1>4, <3>1 DEF TypeOK
    <3>3. held' \in [Proc -> [Local -> File \cup {Null}]]
      BY <1>1 DEF TypeOK
    <3>4. QED
      BY <3>2, <3>3
  <2>2. /\ type' \in [File -> Type] /\ pipe' \in [File -> Pipe \cup {Null}]
        /\ writable' \in [File -> BOOLEAN]
    BY <1>2, <1>3 DEF TypeOK, Type
  <2>3. pc' \in [Proc -> PC \ {"panic"}]
    BY <1>3 DEF TypeOK, PC
  <2>4. ff' \in [Proc -> [pipe : Pipe \cup {Null}, writable : BOOLEAN]]
    <3>1. pipe[f] \in Pipe \cup {Null} /\ writable[f] \in BOOLEAN
      BY <1>2 DEF TypeOK
    <3>2. [pipe |-> pipe[f], writable |-> writable[f]] \in [pipe : Pipe \cup {Null}, writable : BOOLEAN]
      BY <3>1
    <3>3. QED
      BY <1>3, <3>2 DEF TypeOK
  <2>5. QED
    BY <1>1, <2>1, <2>2, <2>3, <2>4 DEF TypeOK
<1>8. kept'[s] = Null /\ OnlyAt(kept, kept', s)
  <2>1. kept'[s] = Null
    BY <1>2, <1>5, HeldKept
  <2>2. \A q \in Proc : pc'[q] = "dup" <=> pc[q] = "dup"
    BY <1>1, <1>5
  <2>3. \A q \in Proc, m \in Local : <<q, NOFILE + m>> \notin {s} => held'[q][m] = held[q][m]
    BY <1>2, <1>5
  <2>4. QED
    BY <1>1, <2>1, <2>2, <2>3, KeptElsewhere DEF OnlyAt
<1>9. RefsCounted'
  BY <1>2, <1>4, <1>8, LoseRefs
<1>10. LocalInv'
  <2> SUFFICES ASSUME NEW q \in Proc PROVE LocalInv!(q)'
    BY DEF LocalInv
  <2>1. LocalInv!(q)
    BY DEF LocalInv
  <2>2. CASE q = p
    <3>1. pc'[p] = "pipeclose" => ff'[p].pipe # Null
      BY <1>1, <1>2, <1>3 DEF TypeOK, FileInv
    <3>2. QED
      BY <2>2, <3>1, <1>5
  <2>3. CASE q # p
    BY <2>1, <2>3, <1>1, <1>5 DEF Held
  <2>4. QED
    BY <2>2, <2>3
<1>11. LifeInv'
  BY <1>1, <1>5, LifeFrame
<1>12. FreshInv'
  <2> SUFFICES ASSUME NEW q \in Proc PROVE FreshInv!(q)'
    BY DEF FreshInv
  <2>1. CASE q # p
    <3>1. s[1] = p
      OBVIOUS
    <3>2. Null \notin File
      BY DEF Null, File
    <3>3. Spread(p)
      BY <1>2, <1>6, <1>8, <3>1, <3>2 DEF Spread, OnlyAt
    <3>4. QED
      BY <2>1, <3>3, <1>5, FreshOthers
  <2>2. CASE q = p
    BY <2>2, <1>5 DEF Filling
  <2>3. QED
    BY <2>1, <2>2
<1>13. FileInv'
  <2>1. CASE ref[f] # 1
    <3>1. UNCHANGED <<type, pipe>> /\ \A g \in File : ref'[g] = 0 => ref[g] = 0
      BY <2>1, <1>2, <1>3 DEF TypeOK
    <3>2. \A q \in Proc : pc'[q] = "pipe3" => pc[q] = "pipe3" /\ held'[q] = held[q]
      BY <1>5
    <3>3. QED
      BY <1>1, <3>1, <3>2 DEF FileInv
  <2>2. CASE ref[f] = 1
    <3>1. type'[f] = "NONE" /\ \A g \in File \ {f} : ref'[g] = ref[g]
      BY <2>2, <1>2, <1>3 DEF TypeOK
    <3>2. \A g \in File : ref'[g] = 0 => type'[g] = "NONE"
      BY <3>1, <1>6 DEF FileInv
    <3>3. \A g \in File : type'[g] = "PIPE" => pipe'[g] # Null
      BY <3>1, <1>6 DEF FileInv
    <3>4. \A q \in Proc, d \in Fd : ofile[q][d] # Null => type'[ofile[q][d]] # "NONE"
      BY <2>2, <1>2, <1>6 DEF FileInv, TypeOK
    <3>5. ASSUME NEW q \in Proc, NEW m \in Local, pc'[q] = "pipe3" PROVE type'[held'[q][m]] # "NONE"
      <4>1. q # p /\ pc[q] = "pipe3" /\ held'[q] = held[q]
        BY <3>5, <1>5
      <4>2. held[q][m] \in File
        BY <4>1, PipeFilesAre
      <4>3. <<q, NOFILE + m>> \in Place /\ kept[<<q, NOFILE + m>>] = held[q][m]
        BY HeldKept
      <4>4. <<q, NOFILE + m>> # s
        BY <4>1
      <4>5. held[q][m] # f
        BY <2>2, <1>2, <4>3, <4>4
      <4>6. QED
        BY <4>1, <4>2, <4>5, <1>6 DEF FileInv
    <3>6. QED
      BY <1>1, <3>2, <3>3, <3>4, <3>5 DEF FileInv
  <2>3. QED
    BY <2>1, <2>2
<1>14. EndInv' /\ PageInv'
  <2>1. CASE ref[f] # 1 \/ type[f] # "PIPE"
    <3>1. \A q \in Proc : /\ pc'[q] = "pipeclose" <=> pc[q] = "pipeclose"
                          /\ ff'[q] = ff[q]
      BY <2>1, <1>1, <1>3, <1>5 DEF TypeOK
    <3>2. \A g \in File, x \in Pipe, w \in BOOLEAN : Leads(g, x, w)' <=> Leads(g, x, w)
      <4>1. ref[f] # 1 => UNCHANGED <<type, pipe, writable>>
        BY <1>2, <1>3
      <4>2. ref[f] = 1 => type[f] # "PIPE" /\ type'[f] # "PIPE"
        BY <2>1, <1>2, <1>3 DEF TypeOK
      <4>3. QED
        BY <4>1, <4>2, <1>6 DEF Leads
    <3>3. QED
      BY <1>1, <3>1, <3>2, EndFrame DEF Closes
  <2>2. CASE ref[f] = 1 /\ type[f] = "PIPE"
    <3> DEFINE y == pipe[f]
    <3> DEFINE v == writable[f]
    <3>1. /\ pc'[p] = "pipeclose" /\ ff'[p] = [pipe |-> y, writable |-> v] /\ type'[f] = "NONE"
      BY <2>2, <1>2, <1>3 DEF TypeOK
    <3>2. y \in Pipe /\ v \in BOOLEAN /\ Leads(f, y, v)
      BY <2>2, <1>2 DEF TypeOK, FileInv, Leads
    <3> HIDE DEF y, v
    <3>3. \A x \in Pipe, w \in BOOLEAN : Closes(p, x, w)' <=> (x = y /\ w = v)
      BY <3>1 DEF Closes
    <3>4. \A x \in Pipe, w \in BOOLEAN : \A q \in Proc \ {p} : Closes(q, x, w)' <=> Closes(q, x, w)
      BY <1>5 DEF Closes
    <3>5. \A x \in Pipe, w \in BOOLEAN : ~Closes(p, x, w)
      BY <1>1 DEF Closes
    <3>6. \A x \in Pipe, w \in BOOLEAN : \A g \in File : Leads(g, x, w)' <=> (g # f /\ Leads(g, x, w))
      BY <3>1, <1>6 DEF Leads
    <3>7. \A x \in Pipe, w \in BOOLEAN : Leads(f, x, w) <=> (x = y /\ w = v)
      BY <3>2 DEF Leads, y, v
    <3>8. EndInv'
      <4> SUFFICES ASSUME NEW x \in Pipe, NEW w \in BOOLEAN PROVE EndInv!(x)!(w)'
        BY DEF EndInv
      <4>1. EndInv!(x)!(w)
        BY DEF EndInv
      <4>2. CASE x = y /\ w = v
        <5>1. Leads(f, x, w) /\ Closes(p, x, w)' /\ \A g \in File : ~Leads(g, x, w)'
          BY <4>1, <4>2, <3>2, <3>3, <3>6, <3>7, <1>2
        <5>2. \A q \in Proc \ {p} : ~Closes(q, x, w)'
          BY <4>1, <5>1, <3>4, <1>2
        <5>3. IF w THEN writeopen'[x] ELSE readopen'[x]
          BY <4>1, <5>1, <1>1, <1>2
        <5>4. QED
          BY <5>1, <5>2, <5>3
      <4>3. CASE ~(x = y /\ w = v)
        <5>1. \A g \in File : Leads(g, x, w)' <=> Leads(g, x, w)
          BY <4>3, <3>6, <3>7
        <5>2. \A q \in Proc : Closes(q, x, w)' <=> Closes(q, x, w)
          BY <4>3, <3>3, <3>4, <3>5
        <5>3. QED
          BY <4>1, <5>1, <5>2, <1>1
      <4>4. QED
        BY <4>2, <4>3
    <3>9. QED
      BY <3>8, <1>1 DEF PageInv
  <2>3. QED
    BY <2>1, <2>2
<1>15. InodeInv'
  <2>1. CASE ref[f] # 1 \/ type[f] # "INODE"
    <3>1. InodeFiles' = InodeFiles
      <4>1. ref[f] # 1 => type' = type
        BY <1>2, <1>3
      <4>2. ref[f] = 1 => type[f] # "INODE" /\ type'[f] # "INODE"
        BY <2>1, <1>2, <1>3 DEF TypeOK
      <4>3. QED
        BY <4>1, <4>2, <1>6 DEF InodeFiles
    <3>2. pc'[p] \in {"fileclose", "pipeclose"}
      BY <2>1, <1>1, <1>2, <1>3 DEF TypeOK
    <3>3. InodeCalls' = InodeCalls
      BY <3>2, <1>1, <1>5 DEF InodeCalls
    <3>4. QED
      BY <3>1, <3>3, <1>1 DEF InodeInv
  <2>2. CASE ref[f] = 1 /\ type[f] = "INODE"
    <3>1. type'[f] = "NONE" /\ pc'[p] = "iput"
      BY <2>2, <1>2, <1>3 DEF TypeOK
    <3>2. f \in InodeFiles /\ InodeFiles' = InodeFiles \ {f}
      BY <2>2, <3>1, <1>2, <1>6 DEF InodeFiles
    <3>3. p \notin InodeCalls /\ InodeCalls' = InodeCalls \cup {p}
      BY <3>1, <1>1, <1>5 DEF InodeCalls
    <3>4. Cardinality(InodeFiles') = Cardinality(InodeFiles) - 1
      BY <3>2, OneLess, InodeFinite
    <3>5. Cardinality(InodeCalls') = Cardinality(InodeCalls) + 1
      BY <3>3, OneMore, InodeFinite
    <3>6. QED
      BY <3>4, <3>5, <1>1, InodeFinite DEF InodeInv
  <2>3. QED
    BY <2>1, <2>2
<1>16. QED
  BY <1>7, <1>9, <1>10, <1>11, <1>12, <1>13, <1>14, <1>15

\* pipeclose closes the end that nobody else leads to.
LEMMA PipeCloseStep ==
    ASSUME IInv, NEW p \in Proc, PipeClose(p)
    PROVE  IInv'
<1> DEFINE y == ff[p].pipe
<1> DEFINE v == ff[p].writable
<1> USE DEF IInv
<1>1. /\ pc[p] = "pipeclose" /\ pc' = [pc EXCEPT ![p] = "fileclose"] /\ ff' = [ff EXCEPT ![p] = NoCopy]
      /\ writeopen' = IF v THEN [writeopen EXCEPT ![y] = FALSE] ELSE writeopen
      /\ readopen' = IF v THEN readopen ELSE [readopen EXCEPT ![y] = FALSE]
      /\ pages' = IF readopen'[y] \/ writeopen'[y] THEN pages ELSE pages \ {y}
      /\ UNCHANGED <<ref, type, pipe, writable, ofile, iref, life, held, arg, fd, child>>
  BY DEF PipeClose, goto, ftable
<1>2. y \in Pipe /\ v \in BOOLEAN /\ ff[p] = [pipe |-> y, writable |-> v]
  <2>1. LocalInv!(p)
    BY DEF LocalInv
  <2>2. ff[p] \in [pipe : Pipe \cup {Null}, writable : BOOLEAN]
    BY DEF TypeOK
  <2>3. QED
    BY <1>1, <2>1, <2>2
<1> HIDE DEF y, v
<1>3. /\ pc'[p] = "fileclose" /\ \A q \in Proc \ {p} : pc'[q] = pc[q] /\ ff'[q] = ff[q]
  BY <1>1 DEF TypeOK
<1>4. /\ v => ~writeopen'[y] /\ readopen'[y] = readopen[y]
      /\ ~v => ~readopen'[y] /\ writeopen'[y] = writeopen[y]
      /\ \A x \in Pipe \ {y} : readopen'[x] = readopen[x] /\ writeopen'[x] = writeopen[x]
  BY <1>1, <1>2 DEF TypeOK
<1>5. TypeOK'
  <2>1. readopen' \in [Pipe -> BOOLEAN] /\ writeopen' \in [Pipe -> BOOLEAN] /\ pages' \subseteq Pipe
    BY <1>1, <1>2 DEF TypeOK
  <2>2. ff' \in [Proc -> [pipe : Pipe \cup {Null}, writable : BOOLEAN]]
    BY <1>1 DEF TypeOK, NoCopy
  <2>3. QED
    BY <1>1, <2>1, <2>2 DEF TypeOK, PC
<1>6. \A u \in Place : kept'[u] = kept[u]
  <2>1. \A q \in Proc : pc'[q] = "dup" <=> pc[q] = "dup"
    BY <1>1, <1>3
  <2>2. QED
    BY <1>1, <2>1, KeptElsewhere
<1>7. RefsCounted'
  BY <1>1, <1>6, SameRefs
<1>8. LocalInv'
  <2> SUFFICES ASSUME NEW q \in Proc PROVE LocalInv!(q)'
    BY DEF LocalInv
  <2>1. LocalInv!(q)
    BY DEF LocalInv
  <2>2. CASE q = p
    BY <2>2, <1>3
  <2>3. CASE q # p
    BY <2>1, <2>3, <1>1, <1>3 DEF Held
  <2>4. QED
    BY <2>2, <2>3
<1>9. LifeInv'
  BY <1>1, <1>3, LifeFrame
<1>10. FreshInv'
  BY <1>1, <1>3, <1>6 DEF FreshInv, Filling
<1>11. FileInv'
  BY <1>1, <1>3 DEF FileInv
<1>12. EndInv'
  <2> SUFFICES ASSUME NEW x \in Pipe, NEW w \in BOOLEAN PROVE EndInv!(x)!(w)'
    BY DEF EndInv
  <2>1. EndInv!(x)!(w)
    BY DEF EndInv
  <2>2. \A g \in File : Leads(g, x, w)' <=> Leads(g, x, w)
    BY <1>1 DEF Leads
  <2>3. ~Closes(p, x, w)' /\ \A q \in Proc \ {p} : Closes(q, x, w)' <=> Closes(q, x, w)
    BY <1>3 DEF Closes
  <2>4. CASE x = y /\ w = v
    <3>1. Closes(p, x, w)
      BY <2>4, <1>1, <1>2 DEF Closes
    <3>2. \A g \in File : ~Leads(g, x, w)
      BY <2>1, <3>1
    <3>3. \A q \in Proc : ~Closes(q, x, w)'
      BY <2>1, <2>3, <3>1
    <3>4. ~(IF w THEN writeopen'[x] ELSE readopen'[x])
      BY <2>4, <1>4
    <3>5. QED
      BY <2>2, <3>2, <3>3, <3>4
  <2>5. CASE ~(x = y /\ w = v)
    <3>1. ~Closes(p, x, w)
      BY <2>5, <1>2 DEF Closes
    <3>2. (IF w THEN writeopen'[x] ELSE readopen'[x]) <=> (IF w THEN writeopen[x] ELSE readopen[x])
      BY <2>5, <1>2, <1>4
    <3>3. QED
      BY <2>1, <2>2, <2>3, <3>1, <3>2
  <2>6. QED
    BY <2>4, <2>5
<1>13. PageInv'
  BY <1>1, <1>2, <1>4 DEF PageInv, EndInv, Closes
<1>14. InodeInv'
  <2>1. InodeFiles' = InodeFiles /\ InodeCalls' = InodeCalls
    BY <1>1, <1>3 DEF InodeFiles, InodeCalls
  <2>2. QED
    BY <2>1, <1>1 DEF InodeInv
<1>15. QED
  BY <1>5, <1>7, <1>8, <1>9, <1>10, <1>11, <1>12, <1>13, <1>14

-----------------------------------------------------------------------------
\* fork's child is another process, which does not run yet.
LEMMA ChildIs ==
    ASSUME TypeOK, LifeInv, NEW p \in Proc, pc[p] = "fork"
    PROVE  /\ child[p] \in Proc /\ child[p] # p /\ life[child[p]] = "embryo"
           /\ pc[child[p]] = "idle" /\ life[p] \in {"alive", "exiting"}
           /\ \A q \in Proc \ {p} : pc[q] = "fork" => child[q] # child[p]
<1>1. LifeInv!(p)
  BY DEF LifeInv
<1>2. child[p] \in Proc
  BY <1>1 DEF TypeOK
<1>3. LifeInv!(child[p])
  BY <1>2 DEF LifeInv
<1>4. pc[child[p]] = "idle"
  BY <1>1, <1>3
<1>5. QED
  BY <1>1, <1>2, <1>4

\* Processes come and go: the beginning and the end of exit and of fork.
LEMMA LifeStep ==
    ASSUME IInv, NEW p \in Proc,
           Exit(p) \/ CloseDone(p) \/ (\E c \in Proc : Fork(p, c)) \/ ForkDone(p)
    PROVE  IInv'
<1> USE DEF IInv
<1>1. UNCHANGED <<ref, type, pipe, writable, ofile, readopen, writeopen, pages, iref, held, arg, fd, ff>>
  BY DEF Exit, CloseDone, Fork, ForkDone, ftable, pipes
<1>2. \A q \in Proc \ {p} : pc'[q] = pc[q]
  BY DEF Exit, CloseDone, Fork, ForkDone, goto, TypeOK
<1>3. /\ pc'[p] \in {"idle", "fork", "fileclose"} /\ pc[p] \in {"idle", "fork", "fileclose"}
      /\ pc'[p] \in {"idle", "fork"} => Held(p) = {}
  <2>1. LocalInv!(p)
    BY DEF LocalInv
  <2>2. CASE Exit(p)
    BY <2>2 DEF Exit, Call, goto, TypeOK
  <2>3. CASE CloseDone(p)
    BY <2>3 DEF CloseDone, goto, TypeOK
  <2>4. ASSUME NEW c \in Proc, Fork(p, c)
        PROVE  pc'[p] = "fork" /\ pc[p] = "idle"
    BY <2>4 DEF Fork, Call, goto, TypeOK
  <2>5. CASE ForkDone(p)
    BY <2>1, <2>5 DEF ForkDone, goto, TypeOK
  <2>6. QED
    BY <2>1, <2>2, <2>3, <2>4, <2>5
<1>4. pc' \in [Proc -> PC \ {"panic"}]
  BY DEF Exit, CloseDone, Fork, ForkDone, goto, TypeOK, PC
<1>5. life' \in [Proc -> {"unused", "embryo", "alive", "exiting"}] /\ child' \in [Proc -> Proc \cup {NoProc}]
  <2>1. CASE Exit(p) \/ CloseDone(p)
    BY <2>1 DEF Exit, CloseDone, TypeOK
  <2>2. ASSUME NEW c \in Proc, Fork(p, c)
        PROVE  <1>5
    BY <2>2 DEF Fork, TypeOK
  <2>3. CASE ForkDone(p)
    BY <2>3 DEF ForkDone, TypeOK
  <2>4. QED
    BY <2>1, <2>2, <2>3
<1>6. \A u \in Place : kept'[u] = kept[u]
  <2>1. \A q \in Proc : pc'[q] = "dup" <=> pc[q] = "dup"
    BY <1>2, <1>3
  <2>2. QED
    BY <1>1, <2>1, KeptElsewhere
<1>7. TypeOK'
  BY <1>1, <1>4, <1>5 DEF TypeOK
<1>8. RefsCounted'
  BY <1>1, <1>6, SameRefs
<1>9. LocalInv'
  <2> SUFFICES ASSUME NEW q \in Proc PROVE LocalInv!(q)'
    BY DEF LocalInv
  <2>1. LocalInv!(q)
    BY DEF LocalInv
  <2>2. CASE q = p
    BY <2>2, <1>1, <1>3 DEF Held
  <2>3. CASE q # p
    BY <2>1, <2>3, <1>1, <1>2 DEF Held
  <2>4. QED
    BY <2>2, <2>3
<1>10. LifeInv'
  <2> SUFFICES ASSUME NEW q \in Proc PROVE LifeInv!(q)'
    BY DEF LifeInv
  <2>1. LifeInv!(q) /\ LifeInv!(p)
    BY DEF LifeInv
  <2>2. CASE Exit(p) \/ CloseDone(p)
    <3>1. /\ child' = child /\ pc'[p] # "fork" /\ pc[p] # "fork" /\ life[p] # "embryo"
          /\ \A r \in Proc \ {p} : life'[r] = life[r]
      BY <2>1, <2>2 DEF Exit, CloseDone, Call, goto, TypeOK
    <3>2. pc'[p] # "idle" => life'[p] \in {"alive", "exiting"}
      BY <2>1, <2>2 DEF Exit, CloseDone, Call, goto, TypeOK
    <3>3. CASE q = p
      BY <3>1, <3>2, <3>3
    <3>4. CASE q # p
      <4>1. pc'[q] = pc[q] /\ life'[q] = life[q]
        BY <1>2, <3>1, <3>4
      <4>2. CASE pc[q] = "fork"
        <5>1. child[q] \in Proc \ {p} /\ life'[child[q]] = "embryo"
          BY <4>2, <3>1, ChildIs
        <5>2. \A r \in Proc \ {q} : pc'[r] = "fork" => child[r] # child[q]
          BY <4>2, <1>2, <3>1, ChildIs
        <5>3. QED
          BY <2>1, <3>1, <4>1, <4>2, <5>1, <5>2
      <4>3. QED
        BY <2>1, <4>1, <4>2
    <3>5. QED
      BY <3>3, <3>4
  <2>3. ASSUME NEW c \in Proc, Fork(p, c) PROVE LifeInv!(q)'
    <3>1. /\ life[p] = "alive" /\ life[c] = "unused" /\ pc[p] = "idle"
          /\ child'[p] = c /\ pc'[p] = "fork" /\ life'[c] = "embryo"
      BY <2>3 DEF Fork, Call, goto, TypeOK
    <3>2. /\ \A r \in Proc \ {c} : life'[r] = life[r]
          /\ \A r \in Proc \ {p} : child'[r] = child[r]
      BY <2>3 DEF Fork, TypeOK
    <3>3. c # p /\ c # NoProc
      BY <3>1, FileTableAssumption
    <3>4. \A r \in Proc : pc[r] = "fork" => child[r] # c
      BY <3>1, ChildIs
    <3>5. CASE q = p
      <4>1. \A r \in Proc \ {p} : pc'[r] = "fork" => child'[r] # c
        BY <1>2, <3>2, <3>4
      <4>2. QED
        BY <3>1, <3>2, <3>3, <3>5, <4>1
    <3>6. CASE q # p
      <4>1. pc'[q] = pc[q] /\ child'[q] = child[q]
        BY <1>2, <3>2, <3>6
      <4>2. CASE pc[q] = "fork"
        <5>1. /\ child[q] \in Proc /\ child[q] # c /\ life[child[q]] = "embryo"
              /\ life[q] \in {"alive", "exiting"} /\ child[q] # NoProc
          BY <4>2, <2>1, <3>4, ChildIs
        <5>2. q # c
          BY <5>1, <3>1
        <5>3. \A r \in Proc \ {q} : pc'[r] = "fork" => child'[r] # child[q]
          BY <4>2, <1>2, <3>1, <3>2, <5>1, ChildIs
        <5>4. QED
          BY <3>2, <4>1, <5>1, <5>2, <5>3
      <4>3. CASE pc[q] # "fork"
        BY <2>1, <3>1, <3>2, <4>1, <4>3
      <4>4. QED
        BY <4>2, <4>3
    <3>7. QED
      BY <3>5, <3>6
  <2>4. CASE ForkDone(p)
    <3>1. /\ pc[p] = "fork" /\ pc'[p] = "idle"
          /\ \A r \in Proc \ {child[p]} : life'[r] = life[r]
          /\ \A r \in Proc \ {p} : child'[r] = child[r]
      BY <2>4 DEF ForkDone, goto, TypeOK
    <3>2. child[p] \in Proc /\ child[p] # p /\ pc[child[p]] = "idle"
      BY <3>1, ChildIs
    <3>3. CASE q = p
      BY <3>1, <3>3
    <3>4. CASE q # p
      <4>1. pc'[q] = pc[q] /\ child'[q] = child[q]
        BY <1>2, <3>1, <3>4
      <4>2. CASE pc[q] = "fork"
        <5>1. /\ child[q] \in Proc /\ life[child[q]] = "embryo" /\ child[q] # child[p]
              /\ life[q] \in {"alive", "exiting"} /\ child[q] # NoProc
          BY <4>2, <2>1, <3>1, <3>4, ChildIs
        <5>2. q # child[p]
          BY <4>2, <3>2
        <5>3. \A r \in Proc \ {q} : pc'[r] = "fork" => child'[r] # child[q]
          BY <4>2, <1>2, <3>1, ChildIs
        <5>4. QED
          BY <3>1, <4>1, <5>1, <5>2, <5>3
      <4>3. CASE pc[q] # "fork"
        BY <2>1, <3>1, <3>2, <4>1, <4>3
      <4>4. QED
        BY <4>2, <4>3
    <3>5. QED
      BY <3>3, <3>4
  <2>5. QED
    BY <2>2, <2>3, <2>4
<1>11. FreshInv'
  BY <1>1, <1>2, <1>3, <1>6 DEF FreshInv, Filling
<1>12. FileInv'
  BY <1>1, <1>2, <1>3 DEF FileInv
<1>13. EndInv' /\ PageInv'
  <2>1. \A q \in Proc : pc'[q] = "pipeclose" <=> pc[q] = "pipeclose"
    BY <1>2, <1>3
  <2>2. QED
    BY <1>1, <2>1, EndFrame DEF Leads, Closes
<1>14. InodeInv'
  <2>1. InodeFiles' = InodeFiles /\ InodeCalls' = InodeCalls
    BY <1>1, <1>2, <1>3 DEF InodeFiles, InodeCalls
  <2>2. QED
    BY <2>1, <1>1 DEF InodeInv
<1>15. QED
  BY <1>7, <1>8, <1>9, <1>10, <1>11, <1>12, <1>13, <1>14

\* fork gives the child, which does not run yet, a descriptor.
LEMMA ForkDupStep ==
    ASSUME IInv, NEW p \in Proc, ForkDup(p)
    PROVE  IInv'
<1> DEFINE c == child[p]
<1> DEFINE d == First(ToCopy(p))
<1> DEFINE f == ofile[p][d]
<1> DEFINE t == <<c, d>>
<1> USE DEF IInv
<1>1. pc[p] = "fork" /\ ToCopy(p) # {}
  BY DEF ForkDup
<1>2. d \in Fd /\ f # Null /\ ofile[c][d] = Null
  <2>1. ToCopy(p) \in SUBSET Nat
    BY DEF ToCopy, Fd
  <2>2. QED
    BY <1>1, <2>1, FirstIs DEF ToCopy
<1>3. c \in Proc /\ c # p /\ pc[c] = "idle"
  BY <1>1, ChildIs
<1>4. f \in File /\ <<p, d>> \in Place /\ kept[<<p, d>>] = f
  <2>1. f \in File
    BY <1>2 DEF TypeOK
  <2>2. kept[<<p, d>>] = IF pc[p] = "dup" /\ d = fd[p] THEN Null ELSE ofile[p][d]
    BY <1>2, FdKept
  <2>3. <<p, d>> \in Place
    BY <1>2, FdKept
  <2>4. QED
    BY <1>1, <2>1, <2>2, <2>3
<1>5. ref[f] >= 1 /\ ref[f] \in Nat
  BY <1>4, RefsNow DEF RefFacts
<1>6. /\ ref' = [ref EXCEPT ![f] = ref[f] + 1] /\ pc' = [pc EXCEPT ![p] = "fork"]
      /\ ofile' = [ofile EXCEPT ![c][d] = f]
      /\ UNCHANGED <<type, pipe, writable, readopen, writeopen, pages, iref, life, held, arg, fd, ff, child>>
  BY <1>5 DEF ForkDup, filedup, goto, pipes
<1> HIDE DEF c, d, f
<1>7. pc' = pc
  BY <1>1, <1>6 DEF TypeOK
<1>8. /\ \A q \in Proc \ {c} : ofile'[q] = ofile[q]
      /\ ofile'[c][d] = f /\ \A e \in Fd \ {d} : ofile'[c][e] = ofile[c][e]
  BY <1>2, <1>3, <1>6 DEF TypeOK
<1>9. TypeOK'
  <2>1. ref' \in [File -> Nat]
    BY <1>4, <1>5, <1>6 DEF TypeOK
  <2>2. ofile' \in [Proc -> [Fd -> File \cup {Null}]]
    BY <1>4, <1>6 DEF TypeOK
  <2>3. QED
    BY <1>6, <1>7, <2>1, <2>2 DEF TypeOK
<1>10. t \in Place /\ kept[t] = Null /\ kept'[t] = f
  BY <1>2, <1>3, <1>7, <1>8, FdKept
<1>11. OnlyAt(kept, kept', t)
  <2>1. \A q \in Proc, e \in Fd : <<q, e>> \notin {t} => ofile'[q][e] = ofile[q][e]
    BY <1>8
  <2>2. /\ fd' = fd /\ held' = held
        /\ \A q \in Proc, e \in Fd : (pc'[q] = "dup" /\ e = fd'[q]) <=> (pc[q] = "dup" /\ e = fd[q])
    BY <1>6, <1>7
  <2> HIDE DEF t
  <2>3. \A u \in Place \ {t} : kept'[u] = kept[u]
    BY <2>1, <2>2, KeptElsewhere
  <2>4. QED
    BY <2>3 DEF OnlyAt
<1>12. RefsCounted'
  BY <1>4, <1>6, <1>10, <1>11, GainRefs
<1>13. LocalInv'
  <2> SUFFICES ASSUME NEW q \in Proc PROVE LocalInv!(q)'
    BY DEF LocalInv
  <2>1. LocalInv!(q)
    BY DEF LocalInv
  <2>2. CASE q = c
    BY <2>1, <2>2, <1>3, <1>6, <1>7 DEF Held
  <2>3. CASE q # c
    BY <2>1, <2>3, <1>6, <1>7, <1>8 DEF Held
  <2>4. QED
    BY <2>2, <2>3
<1>14. LifeInv'
  BY <1>6, <1>7 DEF LifeInv
<1>15. FreshInv'
  <2> SUFFICES ASSUME NEW q \in Proc PROVE FreshInv!(q)'
    BY DEF FreshInv
  <2>1. CASE q # p
    <3>1. <<p, d>>[1] = p
      OBVIOUS
    <3>2. Spread(p)
      BY <1>4, <1>6, <1>10, <1>11, <3>1 DEF Spread, OnlyAt
    <3>3. QED
      BY <2>1, <3>2, <1>6, <1>7, FreshOthers
  <2>2. CASE q = p
    BY <2>2, <1>1, <1>7 DEF Filling
  <2>3. QED
    BY <2>1, <2>2
<1>16. FileInv'
  <2>1. type[f] # "NONE"
    BY <1>2 DEF FileInv, f
  <2>2. \A q \in Proc, e \in Fd : ofile'[q][e] # Null => type[ofile'[q][e]] # "NONE"
    BY <2>1, <1>8 DEF FileInv
  <2>3. \A g \in File : ref'[g] = 0 => ref[g] = 0
    BY <1>5, <1>6 DEF TypeOK
  <2>4. QED
    BY <2>2, <2>3, <1>6, <1>7 DEF FileInv
<1>17. EndInv' /\ PageInv'
  BY <1>6, <1>7, EndFrame DEF Leads, Closes
<1>18. InodeInv'
  <2>1. InodeFiles' = InodeFiles /\ InodeCalls' = InodeCalls
    BY <1>6, <1>7 DEF InodeFiles, InodeCalls
  <2>2. QED
    BY <2>1, <1>6 DEF InodeInv
<1>19. QED
  BY <1>9, <1>12, <1>13, <1>14, <1>15, <1>16, <1>17, <1>18

-----------------------------------------------------------------------------
\* Every action keeps the invariant.
LEMMA StepIInv ==
    ASSUME IInv, NEW p \in Proc, Step(p)
    PROVE  IInv'
<1>1. CASE OpenAlloc(p)
  <2>1. 1 \in Local
    BY DEF Local
  <2>2. QED
    BY <1>1, <2>1, AllocStep DEF OpenAlloc
<1>2. CASE OpenDone(p)
  BY <1>2, OpenDoneStep
<1>3. CASE OpenFail(p)
  <2>1. CASE pc[p] = "open"
    BY <1>3, <2>1, OpenStep DEF OpenFail, ftable
  <2>2. CASE pc[p] = "opened"
    BY <1>3, <2>2, OpenFailStep DEF OpenFail
  <2>3. QED
    BY <1>3, <2>1, <2>2 DEF OpenFail
<1>4. CASE PipeAlloc(p)
  <2>1. CASE filealloc(p, 2) /\ goto(p, "pipe2")
    <3>1. 2 \in Local
      BY DEF Local
    <3>2. QED
      BY <1>4, <2>1, <3>1, AllocStep DEF PipeAlloc
  <2>2. CASE goto(p, "fileclose") /\ UNCHANGED <<ref, held>>
    BY <1>4, <2>2, ToCloseStep DEF PipeAlloc, ftable
  <2>3. QED
    BY <1>4, <2>1, <2>2 DEF PipeAlloc
<1>5. CASE PipeKalloc(p)
  <2>1. CASE pc'[p] = "fileclose"
    <3>1. pc[p] = "pipe2" /\ goto(p, "fileclose") /\ UNCHANGED <<type, pipe, writable, pipes>>
      BY <1>5, <2>1 DEF PipeKalloc, goto, IInv, TypeOK
    <3>2. QED
      BY <1>5, <3>1, ToCloseStep DEF PipeKalloc, ftable
  <2>2. QED
    BY <1>5, <2>1, PipeKallocStep
<1>6. CASE PipeDone(p)
  <2>1. CASE pc'[p] = "fileclose"
    <3>1. pc[p] = "pipe3" /\ goto(p, "fileclose") /\ UNCHANGED <<ofile, held>>
      BY <1>6, <2>1 DEF PipeDone, goto, IInv, TypeOK
    <3>2. QED
      BY <1>6, <3>1, ToCloseStep DEF PipeDone
  <2>2. QED
    BY <1>6, <2>1, PipeDoneStep
<1>7. CASE DupRef(p)
  BY <1>7, DupRefStep
<1>8. CASE UseDone(p)
  BY <1>8, UseStep
<1>9. CASE ExitFile(p)
  <2> DEFINE d == First(OpenFds(p))
  <2>1. OpenFds(p) \in SUBSET Nat /\ OpenFds(p) # {}
    BY <1>9 DEF OpenFds, Fd, ExitFile
  <2>2. d \in OpenFds(p)
    BY <2>1, FirstIs
  <2>3. d \in Fd /\ ofile[p][d] # Null
    BY <2>2 DEF OpenFds
  <2>4. /\ pc[p] = "fileclose" /\ Held(p) = {} /\ pc' = pc
        /\ held' = [held EXCEPT ![p][1] = ofile[p][d]] /\ ofile' = [ofile EXCEPT ![p][d] = Null]
        /\ UNCHANGED <<ftable, pipes, iref, life, arg, fd, ff, child>>
    BY <1>9 DEF ExitFile
  <2>5. pc' = [pc EXCEPT ![p] = "fileclose"]
    BY <2>4 DEF IInv, TypeOK
  <2> HIDE DEF d
  <2>6. QED
    BY <2>3, <2>4, <2>5, PassStep
<1>10. CASE FileClose(p)
  BY <1>10, FileCloseStep
<1>11. CASE PipeClose(p)
  BY <1>11, PipeCloseStep
<1>12. CASE IputFile(p)
  BY <1>12, OpenStep DEF IputFile
<1>13. CASE CloseDone(p)
  BY <1>13, LifeStep
<1>14. CASE ForkDup(p)
  BY <1>14, ForkDupStep
<1>15. CASE ForkDone(p)
  BY <1>15, LifeStep
<1>16. QED
  BY <1>1, <1>2, <1>3, <1>4, <1>5, <1>6, <1>7, <1>8, <1>9, <1>10, <1>11, <1>12, <1>13,
     <1>14, <1>15 DEF Step

LEMMA SyscallIInv ==
    ASSUME IInv, NEW p \in Proc, Syscall(p)
    PROVE  IInv'
<1>1. CASE Open(p)
  BY <1>1, OpenStep DEF Open
<1>2. CASE PipeCall(p)
  <2>1. 1 \in Local
    BY DEF Local
  <2>2. QED
    BY <1>2, <2>1, AllocStep DEF PipeCall, Call
<1>3. CASE Exit(p)
  BY <1>3, LifeStep
<1>4. ASSUME NEW d \in Fd, Dup(p, d) PROVE IInv'
  BY <1>4, DupStep
<1>5. ASSUME NEW d \in Fd, Use(p, d) PROVE IInv'
  BY <1>5, UseStep
<1>6. ASSUME NEW d \in Fd, Close(p, d) PROVE IInv'
  <2>1. Held(p) = {}
    BY <1>6 DEF Close, Call, IInv, LocalInv
  <2>2. QED
    BY <1>6, <2>1, PassStep DEF Close, Call, goto
<1>7. ASSUME NEW c \in Proc, Fork(p, c) PROVE IInv'
  BY <1>7, LifeStep
<1>8. QED
  BY <1>1, <1>2, <1>3, <1>4, <1>5, <1>6, <1>7 DEF Syscall

LEMMA NextIInv == IInv /\ [Next]_vars => IInv'
<1> SUFFICES ASSUME IInv, [Next]_vars PROVE IInv'
  OBVIOUS
<1>1. CASE Next
  BY <1>1, StepIInv, SyscallIInv DEF Next
<1>2. CASE UNCHANGED vars
  <2>1. /\ UNCHANGED <<ref, type, pipe, writable, ofile, readopen, writeopen, pages, iref>>
        /\ UNCHANGED <<life, pc, held, arg, fd, ff, child>>
    BY <1>2 DEF vars, ftable, pipes
  <2>2. \A u \in Place : kept'[u] = kept[u]
    BY <2>1, KeptElsewhere
  <2>3. TypeOK' /\ LocalInv' /\ LifeInv' /\ FileInv'
    BY <2>1 DEF IInv, TypeOK, LocalInv, LifeInv, FileInv, Held
  <2>4. RefsCounted'
    BY <2>1, <2>2, SameRefs DEF IInv
  <2>5. FreshInv'
    BY <2>1, <2>2 DEF IInv, FreshInv
  <2>6. EndInv' /\ PageInv'
    BY <2>1, EndFrame DEF Leads, Closes
  <2>7. InodeInv'
    BY <2>1 DEF IInv, InodeInv, InodeFiles, InodeCalls
  <2>8. QED
    BY <2>3, <2>4, <2>5, <2>6, <2>7 DEF IInv
<1>3. QED
  BY <1>1, <1>2

LEMMA Invariant == Spec => []IInv
BY InitIInv, NextIInv, PTL DEF Spec

(* The invariant says when an end of a pipe and an i-node are let go, and  *)
(* that a call keeps the file it uses.                                     *)
LEMMA IInvCloses == IInv => ClosedWithLast
<1> SUFFICES ASSUME IInv PROVE ClosedWithLast
  OBVIOUS
<1> USE DEF IInv
<1>1. \A f \in File : type[f] # "NONE" => ref[f] > 0
  BY DEF FileInv, TypeOK
<1>2. ASSUME NEW x \in Pipe, NEW w \in BOOLEAN
      PROVE  (IF w THEN writeopen[x] ELSE readopen[x]) <=> Reached(x, w)
  <2>1. Reached(x, w) <=> (\E f \in File : Leads(f, x, w)) \/ (\E p \in Proc : Closes(p, x, w))
    BY <1>1 DEF Reached, Leads, Closes
  <2>2. QED
    BY <2>1 DEF EndInv
<1>3. \A x \in Pipe : /\ readopen[x] <=> Reached(x, FALSE)
                      /\ writeopen[x] <=> Reached(x, TRUE)
                      /\ x \in pages <=> (readopen[x] \/ writeopen[x])
  BY <1>2 DEF PageInv
<1>4. iref = Cardinality({f \in File : ref[f] > 0 /\ type[f] = "INODE"})
               + Cardinality({p \in Proc : pc[p] \in {"open", "opened", "iput"}})
  <2>1. {f \in File : ref[f] > 0 /\ type[f] = "INODE"} = InodeFiles
    BY <1>1 DEF InodeFiles
  <2>2. QED
    BY <2>1 DEF InodeInv, InodeCalls
<1>5. ASSUME NEW p \in Proc, pc[p] = "use"
      PROVE  /\ ref[arg[p]] > 0 /\ type[arg[p]] # "NONE"
             /\ type[arg[p]] = "PIPE" =>
                  IF writable[arg[p]] THEN writeopen[pipe[arg[p]]] ELSE readopen[pipe[arg[p]]]
  <2> DEFINE f == arg[p]
  <2>1. f # Null /\ \E d \in Fd : ofile[p][d] = f
    BY <1>5 DEF LocalInv
  <2>2. f \in File /\ type[f] # "NONE"
    BY <2>1 DEF FileInv, TypeOK
  <2>3. ASSUME type[f] = "PIPE"
        PROVE  IF writable[f] THEN writeopen[pipe[f]] ELSE readopen[pipe[f]]
    <3>1. pipe[f] \in Pipe /\ writable[f] \in BOOLEAN
      BY <2>2, <2>3 DEF FileInv, TypeOK
    <3>2. Leads(f, pipe[f], writable[f])
      BY <2>3 DEF Leads
    <3> HIDE DEF f
    <3>3. QED
      BY <2>2, <3>1, <3>2 DEF EndInv
  <2>4. QED
    BY <1>1, <2>2, <2>3
<1>6. QED
  BY <1>3, <1>4, <1>5 DEF ClosedWithLast

(* The table, the descriptors, the pipes and the locals keep their types,  *)
(* and no call of filedup or fileclose panics.                             *)
THEOREM TypeCorrect == Spec => []TypeOK
<1>1. IInv => TypeOK
  BY DEF IInv
<1>2. QED
  BY Invariant, <1>1, PTL

(* f->ref is the number of descriptors and calls that lead to f, for any   *)
(* number of processes that open, duplicate, close, fork and exit.         *)
THEOREM RefsExact == Spec => []RefsCounted
<1>1. IInv => RefsCounted
  BY DEF IInv
<1>2. QED
  BY Invariant, <1>1, PTL

(* An end of a pipe, its page and an i-node are let go with the last file  *)
(* that leads to them and not before, and nobody closes a file under a     *)
(* read or a write.                                                        *)
THEOREM LastCloses == Spec => []ClosedWithLast
BY Invariant, IInvCloses, PTL
=============================================================================
