---------------------------- MODULE InodeProofs ----------------------------
(***************************************************************************)
(* Proofs about Inode.tla, for any finite sets of processes and names, any *)
(* number of i-nodes with as many entries in the table, and any number of  *)
(* blocks: references, links and blocks are counted exactly, an i-node is  *)
(* freed only when nothing leads to it, by whatever call and in whoever's  *)
(* transaction, and iput and unlink do not panic.                          *)
(***************************************************************************)
EXTENDS Inode, FiniteSetTheorems, WellFoundedInduction, TLAPS

\* The places of a call: in a transaction, with an i-node in hand, with that
\* i-node locked, with a name, with the fields of the i-node read.
InTrans == {"create", "createold", "createnew", "created", "unlink", "unlinkold",
            "linkinc", "linkdir", "linkbad", "write", "commit"}
WithIp == {"open", "opened", "createold", "createnew", "created", "unlinkold", "link",
           "linkinc", "linkdir", "linkbad", "chdir", "exec", "put", "free", "freed", "logpanic"}
Locking == {"opened", "created", "free", "freed", "logpanic"}
Naming == {"create", "createold", "createnew", "unlink", "unlinkold", "link",
           "linkinc", "linkdir", "linkbad"}
Reading == {"opened", "created", "linkdir", "linkbad", "put", "free", "freed", "logpanic"}
Creating == {"create", "createold", "createnew"}
Linking == {"linkdir", "linkbad"}
Freeing == {"free", "freed"}
Relying == {"create", "createnew", "created", "unlinkold", "linkdir", "linkbad"}

\* TypeOK with the counters left unbounded.
DiskType ==
    /\ dtype \in [Inum -> Type] /\ daddrs \in [Inum -> SUBSET Block]
    /\ dnlink \in [Inum -> Nat]
    /\ dir \in [Name -> Inum \cup {Null}] /\ rootnlink \in Nat
    /\ bitmap \subseteq Block
TableType ==
    /\ inum \in [Entry -> Inum \cup {Null}] /\ ref \in [Entry -> Nat]
    /\ busy \in [Entry -> BOOLEAN] /\ valid \in [Entry -> BOOLEAN]
CopyType ==
    /\ type \in [Entry -> Type] /\ addrs \in [Entry -> SUBSET Block]
    /\ nlink \in [Entry -> Nat]
ProcType ==
    /\ rootbusy \in Proc \cup {NoProc} /\ trans \in Proc \cup {NoProc}
    /\ pc \in [Proc -> PC \ {"panic"}]
    /\ name \in [Proc -> Name \cup {NoName}] /\ kind \in [Proc -> Type]
    /\ ip \in [Proc -> Entry \cup {Null}] /\ file \in [Proc -> Entry \cup {Null}]
    /\ cwd \in [Proc -> Entry \cup {Null}]
TypeInv == DiskType /\ TableType /\ CopyType /\ ProcType

\* The locals of a call at each of its places.
LocalInv ==
    \A p \in Proc :
        /\ pc[p] \in InTrans => trans = p
        /\ trans = p => pc[p] \in InTrans \cup Freeing \cup {"put"}
        /\ pc[p] \in WithIp <=> ip[p] # Null
        /\ pc[p] \in Naming => name[p] \in Name
        /\ pc[p] \in Creating => kind[p] \in {"FILE", "DIR"}
        /\ pc[p] \in {"open", "opened", "created"} => file[p] = Null
        /\ pc[p] \in Creating /\ kind[p] = "FILE" => file[p] = Null
        /\ pc[p] = "write" => file[p] # Null

\* ip->ref, and one entry per i-node.
RefInv == \A e \in Entry : ref[e] = Pointers(e)
EntryInv ==
    /\ \A e \in Entry : ref[e] > 0 => inum[e] \in Inum /\ dtype[inum[e]] # "FREE"
    /\ \A e, f \in Entry : ref[e] > 0 /\ ref[f] > 0 /\ inum[e] = inum[f] => e = f

\* I_BUSY is set while one call holds the i-node locked.
LockInv ==
    /\ \A e \in Entry : busy[e] <=> \E p \in Proc : pc[p] \in Locking /\ ip[p] = e
    /\ \A p, q \in Proc : pc[p] \in Locking /\ pc[q] \in Locking /\ ip[p] = ip[q] => p = q

\* A copy in memory is the i-node on the disk.
CopyInv ==
    \A e \in Entry : ref[e] > 0 /\ valid[e] =>
        type[e] = dtype[inum[e]] /\ nlink[e] = dnlink[inum[e]] /\ addrs[e] = daddrs[inum[e]]
ValidInv ==
    \A p \in Proc :
        /\ pc[p] \in Reading => valid[ip[p]]
        /\ file[p] # Null => valid[file[p]]
        /\ cwd[p] # Null => valid[cwd[p]]

\* The names: of i-nodes in use, one for a directory.
DirInv ==
    /\ \A n \in Name : dir[n] # Null => dtype[dir[n]] # "FREE"
    /\ \A m, n \in Name : dir[m] # Null /\ dir[m] = dir[n] /\ dtype[dir[m]] = "DIR" => m = n

\* How many elements of S the function F maps to v.
Count(S, F, v) == Cardinality({s \in S : F[s] = v})

\* The links: the names, and the one that link(2) is about to make or take back.
Extra(i) == IF \E p \in Proc : pc[p] \in Linking /\ inum[ip[p]] = i THEN 1 ELSE 0
LinkInv ==
    \A i \in Inum : dtype[i] # "FREE" =>
        /\ dnlink[i] = Count(Name, dir, i) + Extra(i)
        /\ dnlink[i] = 0 => \E e \in Entry : ref[e] > 0 /\ inum[e] = i
NamedDirs == {i \in Inum : dtype[i] = "DIR" /\ dnlink[i] > 0}
RootInv == rootnlink = 1 + Cardinality(NamedDirs)

BlockInv ==
    /\ bitmap = UNION {daddrs[i] : i \in Inum}
    /\ \A i, j \in Inum : i # j => daddrs[i] \cap daddrs[j] = {}
    /\ \A i \in Inum : dtype[i] = "FREE" => daddrs[i] = {}

\* What a call relies on in its transaction.
TransInv ==
    \A p \in Proc :
        /\ pc[p] = "create" => Unallocated # {}
        /\ pc[p] \in {"create", "createnew"} /\ kind[p] = "DIR" => Block \ bitmap # {}
        /\ pc[p] = "createnew" =>
            dtype[inum[ip[p]]] = kind[p] /\ dnlink[inum[ip[p]]] = 0 /\ dir[name[p]] = Null
        /\ pc[p] \in Linking \cup {"created"} => dtype[inum[ip[p]]] = "FILE"
        /\ pc[p] = "unlinkold" => inum[ip[p]] = dir[name[p]]

\* What a call that frees an i-node relies on, in a transaction or not.
FreeInv ==
    \A p \in Proc :
        /\ pc[p] \in Freeing => ref[ip[p]] = 1 /\ dnlink[inum[ip[p]]] = 0
        /\ pc[p] = "freed" => daddrs[inum[ip[p]]] = {}

IInv == /\ TypeInv /\ LocalInv /\ RefInv /\ EntryInv /\ LockInv /\ CopyInv /\ ValidInv
        /\ DirInv /\ LinkInv /\ RootInv /\ BlockInv /\ TransInv /\ FreeInv

-----------------------------------------------------------------------------
\* The constants.
LEMMA Basics ==
    /\ Null \notin Entry /\ Null \notin Inum /\ NoProc \notin Proc /\ NoName \notin Name
    /\ IsFiniteSet(Proc) /\ IsFiniteSet(Name) /\ IsFiniteSet(Inum)
    /\ Entry \in SUBSET Nat /\ Inum \in SUBSET Nat /\ Block \in SUBSET Nat
<1>1. Ninodes \in Nat /\ NINODE \in Nat /\ NBlock \in Nat
  BY InodeAssumption
<1>2. IsFiniteSet(2..Ninodes)
  BY <1>1, FS_Interval
<1>3. QED
  BY <1>1, <1>2, InodeAssumption DEF Inum, Entry, Block, Null

\* The first element of a set of numbers is one of them.
LEMMA FirstIs ==
    ASSUME NEW S \in SUBSET Nat, S # {}
    PROVE  First(S) \in S
<1>1. PICK m \in S : \A n \in S : <<n, m>> \notin OpToRel(<, Nat)
  BY NatLessThanWellFounded, WFMin
<1>2. \A n \in S : m <= n
  <2> SUFFICES ASSUME NEW n \in S PROVE m <= n
    OBVIOUS
  <2>1. ~(n < m)
    BY <1>1 DEF OpToRel
  <2>2. QED
    BY <2>1
<1>3. QED
  BY <1>2 DEF First

\* How a count changes with the function at one element.
One(a, v) == IF a = v THEN 1 ELSE 0
OnlyAt(S, F, G, x) == \A y \in S \ {x} : G[y] = F[y]

LEMMA CountIs ==
    ASSUME NEW S, IsFiniteSet(S), NEW F, NEW v
    PROVE  /\ Count(S, F, v) \in Nat
           /\ Count(S, F, v) = 0 <=> \A x \in S : F[x] # v
           /\ Count(S, F, v) = 1 => \A x, y \in S : F[x] = v /\ F[y] = v => x = y
<1> DEFINE A == {s \in S : F[s] = v}
<1>1. IsFiniteSet(A) /\ Cardinality(A) \in Nat /\ Count(S, F, v) = Cardinality(A)
  BY FS_Subset, FS_CardinalityType DEF Count
<1>2. Cardinality(A) = 0 <=> A = {}
  BY <1>1, FS_EmptySet
<1>3. ASSUME Cardinality(A) = 1, NEW s \in A, NEW t \in A PROVE s = t
  <2>1. PICK x : A = {x}
    BY <1>1, <1>3, FS_Singleton
  <2>2. QED
    BY <2>1
<1>4. QED
  BY <1>1, <1>2, <1>3

LEMMA Change ==
    ASSUME NEW S, IsFiniteSet(S), NEW F, NEW G, NEW x \in S,
           OnlyAt(S, F, G, x), NEW v
    PROVE  /\ Count(S, F, v) \in Nat
           /\ Count(S, G, v) = Count(S, F, v) + One(G[x], v) - One(F[x], v)
<1> DEFINE A == {s \in S : F[s] = v}
<1> DEFINE B == {s \in S : G[s] = v}
<1> USE DEF OnlyAt, One
<1>0. Count(S, F, v) = Cardinality(A) /\ Count(S, G, v) = Cardinality(B)
  BY DEF Count
<1>1. IsFiniteSet(A) /\ IsFiniteSet(B) /\ Cardinality(A) \in Nat /\ Cardinality(B) \in Nat
  BY FS_Subset, FS_CardinalityType
<1>2. CASE G[x] = v /\ F[x] # v
  <2>1. B = A \cup {x} /\ x \notin A
    BY <1>2
  <2>2. Cardinality(A \cup {x}) = Cardinality(A) + 1
    BY <1>1, <2>1, FS_AddElement
  <2> HIDE DEF A, B
  <2>3. QED
    BY <1>0, <1>1, <1>2, <2>1, <2>2
<1>3. CASE G[x] # v /\ F[x] = v
  <2>1. B = A \ {x} /\ x \in A
    BY <1>3
  <2>2. Cardinality(A \ {x}) = Cardinality(A) - 1
    BY <1>1, <2>1, FS_RemoveElement
  <2> HIDE DEF A, B
  <2>3. QED
    BY <1>0, <1>1, <1>3, <2>1, <2>2
<1>4. CASE (G[x] = v) <=> (F[x] = v)
  <2>1. B = A
    BY <1>4
  <2>2. QED
    BY <1>0, <1>1, <1>4, <2>1
<1>5. QED
  BY <1>2, <1>3, <1>4

-----------------------------------------------------------------------------
\* An entry with a pointer has a reference; with one reference it has no other
\* pointer.
PtrFacts ==
    \A e \in Entry :
        /\ \A p \in Proc : ip[p] = e \/ file[p] = e \/ cwd[p] = e => ref[e] > 0
        /\ ref[e] = 1 => \A p \in Proc : ip[p] = e =>
            \A q \in Proc : (ip[q] = e => q = p) /\ file[q] # e /\ cwd[q] # e

LEMMA PtrNow ==
    ASSUME RefInv
    PROVE  PtrFacts
<1> SUFFICES ASSUME NEW e \in Entry PROVE PtrFacts!(e)
  BY DEF PtrFacts
<1> DEFINE a == Count(Proc, ip, e)
<1> DEFINE b == Count(Proc, file, e)
<1> DEFINE c == Count(Proc, cwd, e)
<1>1. ref[e] = a + b + c
  BY DEF RefInv, Pointers, Count
<1>2. /\ a \in Nat /\ (a = 0 <=> \A x \in Proc : ip[x] # e)
      /\ a = 1 => \A x, y \in Proc : ip[x] = e /\ ip[y] = e => x = y
  BY Basics, CountIs
<1>3. b \in Nat /\ (b = 0 <=> \A x \in Proc : file[x] # e)
  BY Basics, CountIs
<1>4. c \in Nat /\ (c = 0 <=> \A x \in Proc : cwd[x] # e)
  BY Basics, CountIs
<1> HIDE DEF a, b, c
<1>5. ref[e] > 0 <=> a # 0 \/ b # 0 \/ c # 0
  BY <1>1, <1>2, <1>3, <1>4
<1>6. ref[e] = 1 /\ a # 0 => a = 1 /\ b = 0 /\ c = 0
  BY <1>1, <1>2, <1>3, <1>4
<1>7. QED
  BY <1>2, <1>3, <1>4, <1>5, <1>6

\* The references after a step of p.
Held(p, e) == One(ip[p], e) + One(file[p], e) + One(cwd[p], e)

LEMMA RefStep ==
    ASSUME RefInv, NEW p \in Proc, OnlyAt(Proc, ip, ip', p), OnlyAt(Proc, file, file', p),
           OnlyAt(Proc, cwd, cwd', p),
           \A e \in Entry : ref'[e] = ref[e] + Held(p, e)' - Held(p, e)
    PROVE  RefInv'
<1> SUFFICES ASSUME NEW e \in Entry PROVE ref'[e] = Pointers(e)'
  BY DEF RefInv
<1>1. /\ Pointers(e) = Count(Proc, ip, e) + Count(Proc, file, e) + Count(Proc, cwd, e)
      /\ Pointers(e)' = Count(Proc, ip', e) + Count(Proc, file', e) + Count(Proc, cwd', e)
  BY DEF Pointers, Count
<1>2. /\ Count(Proc, ip, e) \in Nat
      /\ Count(Proc, ip', e) = Count(Proc, ip, e) + One(ip'[p], e) - One(ip[p], e)
  BY Basics, Change
<1>3. /\ Count(Proc, file, e) \in Nat
      /\ Count(Proc, file', e) = Count(Proc, file, e) + One(file'[p], e) - One(file[p], e)
  BY Basics, Change
<1>4. /\ Count(Proc, cwd, e) \in Nat
      /\ Count(Proc, cwd', e) = Count(Proc, cwd, e) + One(cwd'[p], e) - One(cwd[p], e)
  BY Basics, Change
<1>5. ref[e] = Pointers(e)
  BY DEF RefInv
<1>6. One(ip'[p], e) \in Nat /\ One(ip[p], e) \in Nat /\ One(file'[p], e) \in Nat
      /\ One(file[p], e) \in Nat /\ One(cwd'[p], e) \in Nat /\ One(cwd[p], e) \in Nat
  BY DEF One
<1>7. QED
  BY <1>1, <1>2, <1>3, <1>4, <1>5, <1>6 DEF Held

-----------------------------------------------------------------------------
\* What iget(i) does to the entry e that it returns, and to the others.
Gets(p, i, e) ==
    /\ ip' = [ip EXCEPT ![p] = e]
    /\ ref' = [ref EXCEPT ![e] = ref[e] + 1]
    /\ inum' = [inum EXCEPT ![e] = i]
    /\ \/ ref[e] > 0 /\ inum[e] = i /\ busy' = busy /\ valid' = valid
       \/ /\ ref[e] = 0 /\ \A f \in Entry : ref[f] > 0 => inum[f] # i
          /\ busy' = [busy EXCEPT ![e] = FALSE] /\ valid' = [valid EXCEPT ![e] = FALSE]

LEMMA IgetIs ==
    ASSUME TypeInv, NEW p \in Proc, NEW i \in Inum, iget(p, i)
    PROVE  \E e \in Entry : Gets(p, i, e)
<1>1. CASE Cached(i) # {}
  <2>1. Cached(i) \in SUBSET Nat /\ Cached(i) \in SUBSET Entry
    BY Basics DEF Cached
  <2>2. First(Cached(i)) \in Cached(i)
    BY <1>1, <2>1, FirstIs
  <2>3. PICK e \in Entry : e = First(Cached(i)) /\ ref[e] > 0 /\ inum[e] = i
    BY <2>2 DEF Cached
  <2>4. /\ ip' = [ip EXCEPT ![p] = e] /\ ref' = [ref EXCEPT ![e] = ref[e] + 1]
        /\ inum' = [inum EXCEPT ![e] = i] /\ busy' = busy /\ valid' = valid
    BY <1>1, <2>3 DEF iget
  <2>5. QED
    BY <2>3, <2>4 DEF Gets
<1>2. CASE Cached(i) = {}
  <2> DEFINE unused == {e \in Entry : ref[e] = 0}
  <2>1. unused # {} /\ unused \in SUBSET Nat
    BY <1>2, Basics DEF iget
  <2>2. First(unused) \in unused
    BY <2>1, FirstIs
  <2>3. PICK e \in Entry : e = First(unused) /\ ref[e] = 0
    BY <2>2
  <2>4. /\ ip' = [ip EXCEPT ![p] = e] /\ ref' = [ref EXCEPT ![e] = ref[e] + 1]
        /\ inum' = [inum EXCEPT ![e] = i] /\ busy' = [busy EXCEPT ![e] = FALSE]
        /\ valid' = [valid EXCEPT ![e] = FALSE]
    BY <1>2, <2>3 DEF iget
  <2>5. \A f \in Entry : ref[f] > 0 => inum[f] # i
    BY <1>2 DEF Cached
  <2>6. QED
    BY <2>3, <2>4, <2>5 DEF Gets
<1>3. QED
  BY <1>1, <1>2

LEMMA FlagIs ==
    ASSUME NEW S, NEW f \in [S -> BOOLEAN], NEW x \in S, NEW b \in BOOLEAN
    PROVE  [f EXCEPT ![x] = b] \in [S -> BOOLEAN]
BY Zenon

LEMMA GetsType ==
    ASSUME TableType, NEW p \in Proc, NEW i \in Inum, NEW e \in Entry, Gets(p, i, e)
    PROVE  TableType'
<1>1. busy' \in [Entry -> BOOLEAN] /\ valid' \in [Entry -> BOOLEAN]
  <2>1. /\ [busy EXCEPT ![e] = FALSE] \in [Entry -> BOOLEAN]
        /\ [valid EXCEPT ![e] = FALSE] \in [Entry -> BOOLEAN]
    BY FlagIs DEF TableType
  <2>2. QED
    BY <2>1 DEF TableType, Gets
<1>2. inum' \in [Entry -> Inum \cup {Null}] /\ ref' \in [Entry -> Nat]
  BY DEF TableType, Gets
<1>3. QED
  BY <1>1, <1>2 DEF TableType

GetFacts(p, i, e) ==
    /\ ip'[p] = e /\ \A q \in Proc \ {p} : ip'[q] = ip[q]
    /\ ref'[e] = ref[e] + 1 /\ inum'[e] = i
    /\ \A f \in Entry \ {e} : ref'[f] = ref[f] /\ inum'[f] = inum[f]
                               /\ busy'[f] = busy[f] /\ valid'[f] = valid[f]
    /\ ref[e] > 0 => inum[e] = i /\ busy'[e] = busy[e] /\ valid'[e] = valid[e]
    /\ ref[e] = 0 => ~busy'[e] /\ ~valid'[e] /\ \A f \in Entry : ref[f] > 0 => inum[f] # i

LEMMA GetsIs ==
    ASSUME TypeInv, NEW p \in Proc, NEW i \in Inum, NEW e \in Entry, Gets(p, i, e)
    PROVE  GetFacts(p, i, e)
BY DEF TypeInv, DiskType, TableType, CopyType, ProcType, Gets, GetFacts

\* What a step that only gets a pointer does to the table.
LEMMA GetTable ==
    ASSUME IInv, NEW p \in Proc, NEW i \in Inum, NEW e \in Entry, Gets(p, i, e),
           ip[p] = Null, UNCHANGED fds, NEW to \in {"open", "link", "chdir", "exec", "createold", "createnew", "unlinkold"},
           pc[p] \in {"idle", "create", "unlink"}, goto(p, to)
    PROVE  /\ RefInv' /\ LockInv' /\ ValidInv'
           /\ \A f \in Entry : ref[f] > 0 => ref'[f] > 0 /\ inum'[f] = inum[f]
           /\ \A q \in Proc : pc[q] \in Linking => ip'[q] = ip[q] /\ inum'[ip[q]] = inum[ip[q]]
<1>1. TypeInv /\ LocalInv /\ PtrFacts /\ GetFacts(p, i, e)
  BY PtrNow, GetsIs DEF IInv
<1>2. RefInv'
  <2>1. OnlyAt(Proc, ip, ip', p) /\ OnlyAt(Proc, file, file', p) /\ OnlyAt(Proc, cwd, cwd', p)
    BY <1>1 DEF OnlyAt, GetFacts, fds
  <2>2. ASSUME NEW f \in Entry PROVE ref'[f] = ref[f] + Held(p, f)' - Held(p, f)
    <3>1. ref[f] \in Nat /\ ref'[f] = ref[f] + One(e, f) /\ f # Null
      BY <1>1, Basics DEF TypeInv, DiskType, TableType, CopyType, ProcType, GetFacts, One
    <3>2. Held(p, f)' = One(e, f) + One(file[p], f) + One(cwd[p], f)
      BY <1>1 DEF Held, GetFacts, fds
    <3>3. Held(p, f) = 0 + One(file[p], f) + One(cwd[p], f)
      BY <3>1 DEF Held, One
    <3>4. One(e, f) \in Nat /\ One(file[p], f) \in Nat /\ One(cwd[p], f) \in Nat
      BY DEF One
    <3>5. QED
      BY <3>1, <3>2, <3>3, <3>4
  <2>3. RefInv
    BY DEF IInv
  <2>4. QED
    BY <2>1, <2>2, <2>3, RefStep
<1>3. /\ pc' = [pc EXCEPT ![p] = to] /\ file' = file /\ cwd' = cwd
      /\ \A q \in Proc \ {p} : pc'[q] = pc[q]
      /\ pc'[p] = to /\ to \notin Locking /\ to \notin Reading /\ to \notin Linking
      /\ pc[p] \notin Locking /\ pc[p] \notin Reading /\ pc[p] \notin Linking
  BY <1>1 DEF goto, fds, TypeInv, DiskType, TableType, CopyType, ProcType, Locking, Reading, Linking
<1>4. LockInv'
  <2>1. LockInv
    BY DEF IInv
  <2>2. ASSUME NEW f \in Entry PROVE busy'[f] <=> \E q \in Proc : pc'[q] \in Locking /\ ip'[q] = f
    <3>1. (\E q \in Proc : pc'[q] \in Locking /\ ip'[q] = f) <=> (\E q \in Proc : pc[q] \in Locking /\ ip[q] = f)
      BY <1>1, <1>3 DEF GetFacts
    <3>2. CASE ref[f] = 0 /\ f = e
      BY <1>1, <3>1, <3>2 DEF GetFacts, PtrFacts
    <3>3. CASE f # e \/ ref[f] # 0
      <4>1. busy'[f] = busy[f]
        BY <1>1, <3>3 DEF GetFacts, TypeInv, DiskType, TableType, CopyType, ProcType
      <4>2. QED
        BY <4>1, <3>1, <2>1 DEF LockInv
    <3>4. QED
      BY <3>2, <3>3
  <2>3. QED
    BY <2>1, <2>2, <1>1, <1>3 DEF LockInv, GetFacts
<1>5. \A f \in Entry : ref[f] > 0 => ref'[f] > 0 /\ inum'[f] = inum[f] /\ valid'[f] = valid[f]
  BY <1>1 DEF GetFacts, TypeInv, DiskType, TableType, CopyType, ProcType
<1>6. ValidInv'
  <2>1. ValidInv
    BY DEF IInv
  <2>2. \A q \in Proc : /\ file[q] # Null => file[q] \in Entry /\ ref[file[q]] > 0
                        /\ cwd[q] # Null => cwd[q] \in Entry /\ ref[cwd[q]] > 0
                        /\ pc[q] \in Reading => ip[q] \in Entry /\ ref[ip[q]] > 0
    BY <1>1 DEF TypeInv, DiskType, TableType, CopyType, ProcType, PtrFacts, LocalInv, Reading, WithIp
  <2>3. QED
    BY <1>1, <1>3, <1>5, <2>1, <2>2 DEF ValidInv, GetFacts
<1>7. \A q \in Proc : pc[q] \in Linking => ip'[q] = ip[q] /\ inum'[ip[q]] = inum[ip[q]]
  <2>1. \A q \in Proc : pc[q] \in Linking => ip[q] \in Entry /\ ref[ip[q]] > 0
    BY <1>1 DEF TypeInv, DiskType, TableType, CopyType, ProcType, PtrFacts, LocalInv, Linking, WithIp
  <2>2. QED
    BY <1>1, <1>3, <1>5, <2>1 DEF GetFacts
<1>8. QED
  BY <1>2, <1>4, <1>5, <1>6, <1>7

-----------------------------------------------------------------------------
\* What a step keeps when it leaves the disk alone.
LEMMA DiskFrame ==
    ASSUME DirInv, RootInv, BlockInv, UNCHANGED disk
    PROVE  DirInv' /\ RootInv' /\ BlockInv'
<1>1. UNCHANGED <<dtype, dnlink, daddrs, dir, rootnlink, bitmap>>
  BY DEF disk
<1>2. NamedDirs' = NamedDirs
  BY <1>1 DEF NamedDirs
<1>3. QED
  BY <1>1, <1>2 DEF DirInv, RootInv, BlockInv

LEMMA LinkFrame ==
    ASSUME LinkInv, UNCHANGED <<dtype, dnlink, dir>>,
           \A q \in Proc : pc'[q] \in Linking <=> pc[q] \in Linking,
           \A q \in Proc : pc[q] \in Linking => ip'[q] = ip[q] /\ inum'[ip[q]] = inum[ip[q]],
           \A e \in Entry : ref[e] > 0 /\ dnlink[inum[e]] = 0 => ref'[e] > 0 /\ inum'[e] = inum[e]
    PROVE  LinkInv'
<1> SUFFICES ASSUME NEW i \in Inum, dtype[i] # "FREE"
             PROVE  /\ dnlink[i] = Count(Name, dir, i) + Extra(i)'
                    /\ dnlink[i] = 0 => \E e \in Entry : ref'[e] > 0 /\ inum'[e] = i
  BY DEF LinkInv, Count
<1>1. Extra(i)' = Extra(i)
  BY DEF Extra
<1>2. QED
  BY <1>1 DEF LinkInv

\* A name counts as a link.
LEMMA NamedIs ==
    ASSUME TypeInv, DirInv, LinkInv, NEW n \in Name, dir[n] # Null
    PROVE  dir[n] \in Inum /\ dtype[dir[n]] # "FREE" /\ dnlink[dir[n]] > 0
<1>1. dir[n] \in Inum /\ dtype[dir[n]] # "FREE"
  BY DEF TypeInv, DiskType, TableType, CopyType, ProcType, DirInv
<1>2. Count(Name, dir, dir[n]) \in Nat /\ Count(Name, dir, dir[n]) # 0
  BY Basics, CountIs
<1>3. Extra(dir[n]) \in Nat /\ dnlink[dir[n]] = Count(Name, dir, dir[n]) + Extra(dir[n])
  BY <1>1 DEF Extra, LinkInv
<1>4. QED
  BY <1>1, <1>2, <1>3

\* What another call that frees an i-node relies on, when a step leaves its entry
\* and its i-node alone.
FreeKept(q) ==
    /\ ref'[ip[q]] = ref[ip[q]] /\ inum'[ip[q]] = inum[ip[q]]
    /\ dnlink'[inum[ip[q]]] = dnlink[inum[ip[q]]] /\ daddrs'[inum[ip[q]]] = daddrs[inum[ip[q]]]

LEMMA FreeFrame ==
    ASSUME FreeInv, NEW p \in Proc, FreeInv!(p)',
           \A q \in Proc \ {p} : pc'[q] = pc[q] /\ ip'[q] = ip[q],
           \A q \in Proc \ {p} : pc[q] \in Freeing => FreeKept(q)
    PROVE  FreeInv'
<1> SUFFICES ASSUME NEW q \in Proc, q # p PROVE FreeInv!(q)'
  BY DEF FreeInv
<1>1. FreeInv!(q) /\ pc'[q] = pc[q] /\ ip'[q] = ip[q] /\ (pc[q] \in Freeing => FreeKept(q))
  BY DEF FreeInv
<1>2. QED
  BY <1>1 DEF FreeKept, Freeing

\* The i-node of a process that frees it has no name, and no pointer but this one.
LEMMA FreeIs ==
    ASSUME IInv, NEW p \in Proc, pc[p] \in Freeing
    PROVE  /\ ip[p] \in Entry /\ ip[p] # Null /\ inum[ip[p]] \in Inum
           /\ ref[ip[p]] = 1 /\ dnlink[inum[ip[p]]] = 0
           /\ dtype[inum[ip[p]]] # "FREE" /\ valid[ip[p]]
           /\ addrs[ip[p]] = daddrs[inum[ip[p]]]
           /\ \A n \in Name : dir[n] # inum[ip[p]]
           /\ \A q \in Proc : (ip[q] = ip[p] => q = p) /\ file[q] # ip[p] /\ cwd[q] # ip[p]
           /\ \A f \in Entry : ref[f] > 0 /\ f # ip[p] => inum[f] # inum[ip[p]]
<1>1. ip[p] \in Entry /\ ip[p] # Null /\ PtrFacts
  BY PtrNow DEF IInv, TypeInv, ProcType, LocalInv, Freeing, WithIp
<1>2. /\ ref[ip[p]] = 1 /\ dnlink[inum[ip[p]]] = 0 /\ valid[ip[p]]
  BY DEF IInv, FreeInv, ValidInv, Freeing, Reading
<1>3. inum[ip[p]] \in Inum /\ dtype[inum[ip[p]]] # "FREE"
  BY <1>1, <1>2 DEF IInv, EntryInv
<1>4. addrs[ip[p]] = daddrs[inum[ip[p]]]
  BY <1>1, <1>2 DEF IInv, CopyInv
<1>5. \A n \in Name : dir[n] # inum[ip[p]]
  BY <1>2, <1>3, NamedIs, Basics DEF IInv
<1>6. \A f \in Entry : ref[f] > 0 /\ f # ip[p] => inum[f] # inum[ip[p]]
  BY <1>1, <1>2 DEF IInv, EntryInv
<1>7. \A q \in Proc : (ip[q] = ip[p] => q = p) /\ file[q] # ip[p] /\ cwd[q] # ip[p]
  BY <1>1, <1>2 DEF PtrFacts
<1>8. QED
  BY <1>1, <1>2, <1>3, <1>4, <1>5, <1>6, <1>7

\* ... after an iget of another i-node,
LEMMA GetFree ==
    ASSUME IInv, NEW p \in Proc, NEW i \in Inum, NEW e \in Entry, GetFacts(p, i, e),
           pc'[p] \notin Freeing, \A q \in Proc \ {p} : pc'[q] = pc[q],
           \A q \in Proc : pc[q] \in Freeing => inum[ip[q]] # i,
           \A j \in Inum \ {i} : dnlink'[j] = dnlink[j] /\ daddrs'[j] = daddrs[j]
    PROVE  FreeInv'
<1>1. FreeInv!(p)'
  BY DEF Freeing
<1>2. ASSUME NEW q \in Proc \ {p}, pc[q] \in Freeing PROVE FreeKept(q)
  <2>1. ip[q] \in Entry /\ inum[ip[q]] \in Inum \ {i} /\ ref[ip[q]] = 1
    BY <1>2, FreeIs
  <2>2. ip[q] # e
    BY <2>1 DEF GetFacts
  <2>3. QED
    BY <2>1, <2>2 DEF GetFacts, FreeKept
<1>3. FreeInv /\ \A q \in Proc \ {p} : pc'[q] = pc[q] /\ ip'[q] = ip[q]
  BY DEF GetFacts, IInv
<1>4. QED
  BY <1>1, <1>2, <1>3, FreeFrame

\* iget of an i-node that has a name.
LEMMA GetNamed ==
    ASSUME IInv, NEW p \in Proc, NEW n \in Name, dir[n] # Null, NEW e \in Entry,
           Gets(p, dir[n], e), ip[p] = Null, UNCHANGED <<disk, copy, fds>>,
           NEW to \in {"open", "link", "chdir", "exec", "createold", "unlinkold"},
           pc[p] \in {"idle", "create", "unlink"}, goto(p, to),
           rootbusy' \in Proc \cup {NoProc}, trans' = trans,
           name' \in [Proc -> Name \cup {NoName}], kind' = kind
    PROVE  /\ TypeInv' /\ RefInv' /\ EntryInv' /\ LockInv' /\ CopyInv' /\ ValidInv'
           /\ DirInv' /\ LinkInv' /\ RootInv' /\ BlockInv' /\ FreeInv'
<1> DEFINE i == dir[n]
<1>1. i \in Inum /\ dtype[i] # "FREE" /\ dnlink[i] > 0
  BY NamedIs DEF IInv
<1> HIDE DEF i
<1>2. /\ TypeInv /\ EntryInv /\ CopyInv /\ DirInv /\ LinkInv /\ RootInv /\ BlockInv
      /\ Gets(p, i, e) /\ GetFacts(p, i, e)
  BY <1>1, GetsIs DEF i, IInv
<1>3. /\ UNCHANGED <<dtype, dnlink, daddrs, dir, rootnlink, bitmap, type, nlink, addrs, file, cwd>>
      /\ pc' = [pc EXCEPT ![p] = to] /\ to \in PC \ {"panic"} /\ to \notin Linking
      /\ pc[p] \notin Linking
  BY DEF disk, copy, fds, goto, PC, Linking
<1>4. /\ RefInv' /\ LockInv' /\ ValidInv'
      /\ \A f \in Entry : ref[f] > 0 => ref'[f] > 0 /\ inum'[f] = inum[f]
      /\ \A q \in Proc : pc[q] \in Linking => ip'[q] = ip[q] /\ inum'[ip[q]] = inum[ip[q]]
  BY <1>1, <1>2, GetTable
<1>5. TypeInv'
  <2>1. TableType'
    BY <1>1, <1>2, GetsType DEF TypeInv
  <2>2. DiskType' /\ CopyType' /\ ProcType'
    BY <1>2, <1>3 DEF TypeInv, DiskType, CopyType, ProcType, Gets
  <2>3. QED
    BY <2>1, <2>2 DEF TypeInv
<1>6. \A f \in Entry : ref'[f] > 0 => f = e \/ (ref[f] > 0 /\ inum'[f] = inum[f] /\ ref'[f] = ref[f] /\ valid'[f] = valid[f])
  BY <1>2 DEF GetFacts
<1>7. EntryInv'
  <2>1. \A f \in Entry \ {e} : ref[f] > 0 => inum[f] # i
    BY <1>2 DEF GetFacts, EntryInv, TypeInv, DiskType, TableType, CopyType, ProcType
  <2>2. inum'[e] = i
    BY <1>2 DEF GetFacts
  <2>3. QED
    BY <1>1, <1>2, <1>3, <1>6, <2>1, <2>2 DEF EntryInv
<1>8. CopyInv'
  <2>1. ASSUME NEW f \in Entry, ref'[f] > 0, valid'[f]
        PROVE  ref[f] > 0 /\ valid[f] /\ inum'[f] = inum[f]
    BY <2>1, <1>2 DEF GetFacts, TypeInv, DiskType, TableType, CopyType, ProcType
  <2>2. QED
    BY <2>1, <1>2, <1>3 DEF CopyInv
<1>9. DirInv' /\ RootInv' /\ BlockInv'
  BY <1>2, DiskFrame
<1>10. LinkInv'
  <2>1. \A q \in Proc : pc'[q] \in Linking <=> pc[q] \in Linking
    BY <1>2, <1>3 DEF TypeInv, DiskType, TableType, CopyType, ProcType
  <2>2. UNCHANGED <<dtype, dnlink, dir>>
    BY <1>3
  <2>3. QED
    BY <1>2, <1>4, <2>1, <2>2, LinkFrame
<1>11. FreeInv'
  <2>1. pc'[p] \notin Freeing /\ \A q \in Proc \ {p} : pc'[q] = pc[q]
    BY <1>2, <1>3 DEF Freeing, TypeInv, ProcType
  <2>2. \A q \in Proc : pc[q] \in Freeing => inum[ip[q]] # i
    BY <1>1 DEF IInv, FreeInv
  <2>3. \A j \in Inum \ {i} : dnlink'[j] = dnlink[j] /\ daddrs'[j] = daddrs[j]
    BY <1>3
  <2>4. QED
    BY <1>1, <1>2, <2>1, <2>2, <2>3, GetFree
<1>12. QED
  BY <1>4, <1>5, <1>7, <1>8, <1>9, <1>10, <1>11

\* What a call of another process in a transaction relies on, while p leaves the
\* disk alone and does not touch the entry of that call.
LEMMA TransFrame ==
    ASSUME IInv, NEW p \in Proc, UNCHANGED disk,
           pc'[p] \notin Relying,
           \A q \in Proc \ {p} : /\ pc'[q] = pc[q] /\ name'[q] = name[q] /\ kind'[q] = kind[q]
                                 /\ ip'[q] = ip[q],
           \A q \in Proc \ {p} : pc[q] \in InTrans /\ ip[q] # Null => inum'[ip[q]] = inum[ip[q]]
    PROVE  TransInv'
<1>1. UNCHANGED <<dtype, dnlink, daddrs, dir, rootnlink, bitmap>> /\ Unallocated' = Unallocated
  BY DEF disk, Unallocated
<1> SUFFICES ASSUME NEW q \in Proc PROVE TransInv!(q)'
  BY DEF TransInv
<1>2. CASE q = p
  BY <1>2 DEF Relying, Linking
<1>3. CASE q # p
  <2>1. TransInv!(q) /\ LocalInv!(q)
    BY DEF IInv, TransInv, LocalInv
  <2>2. /\ pc'[q] = pc[q] /\ name'[q] = name[q] /\ kind'[q] = kind[q] /\ ip'[q] = ip[q]
        /\ pc[q] \in {"createnew", "linkdir", "linkbad", "created", "unlinkold"} => inum'[ip[q]] = inum[ip[q]]
    BY <1>3, <2>1 DEF InTrans, WithIp
  <2>3. QED
    BY <1>1, <1>3, <2>1, <2>2 DEF Linking
<1>4. QED
  BY <1>2, <1>3

\* namei, for open, link, chdir and exec.
LEMMA NameiStep ==
    ASSUME IInv, NEW p \in Proc, NEW n \in Name,
           NEW to \in {"open", "link", "chdir", "exec"}, Namei(p, n, to),
           name' \in [Proc -> Name \cup {NoName}], \A q \in Proc \ {p} : name'[q] = name[q],
           to = "open" => file[p] = Null, to = "link" => name'[p] \in Name
    PROVE  IInv'
<1> DEFINE i == dir[n]
<1>1. /\ pc[p] = "idle" /\ dir[n] # Null /\ iget(p, i) /\ goto(p, to)
      /\ UNCHANGED <<disk, copy, locks, kind, fds>>
  BY DEF Namei, dirlookup
<1>2. TypeInv /\ LocalInv /\ DirInv /\ LinkInv /\ TransInv /\ EntryInv /\ PtrFacts
  BY PtrNow DEF IInv
<1>3. i \in Inum /\ dtype[i] # "FREE" /\ dnlink[i] > 0
  BY <1>1, <1>2, NamedIs
<1>4. PICK e \in Entry : Gets(p, i, e)
  BY <1>1, <1>2, <1>3, IgetIs
<1>5. /\ ip[p] = Null /\ trans # p
  BY <1>1, <1>2 DEF LocalInv, WithIp, InTrans, Freeing
<1>6. UNCHANGED <<trans, rootbusy, kind, file, cwd>> /\ UNCHANGED disk
      /\ rootbusy' \in Proc \cup {NoProc}
  BY <1>1, <1>2 DEF locks, fds, TypeInv, ProcType
<1>7. /\ TypeInv' /\ RefInv' /\ EntryInv' /\ LockInv' /\ CopyInv' /\ ValidInv'
      /\ DirInv' /\ LinkInv' /\ RootInv' /\ BlockInv' /\ FreeInv'
  BY <1>1, <1>3, <1>4, <1>5, <1>6, GetNamed
<1>8. GetFacts(p, i, e)
  BY <1>2, <1>3, <1>4, GetsIs
<1>9. /\ pc'[p] = to /\ to \notin InTrans
      /\ \A q \in Proc \ {p} : pc'[q] = pc[q] /\ name'[q] = name[q] /\ kind'[q] = kind[q] /\ ip'[q] = ip[q]
  BY <1>1, <1>2, <1>6, <1>8 DEF goto, TypeInv, ProcType, GetFacts, InTrans
<1>10. LocalInv'
  <2> SUFFICES ASSUME NEW q \in Proc PROVE LocalInv!(q)'
    BY DEF LocalInv
  <2>1. CASE q = p
    <3>1. ip'[p] # Null /\ trans' # p /\ file' = file /\ pc'[p] \in {"open", "link", "chdir", "exec"}
      BY <1>5, <1>6, <1>8, <1>9, Basics DEF GetFacts
    <3>2. QED
      BY <2>1, <3>1, <1>9 DEF InTrans, WithIp, Naming, Creating
  <2>2. CASE q # p
    <3>1. LocalInv!(q)
      BY <1>2 DEF LocalInv
    <3>2. QED
      BY <2>2, <3>1, <1>6, <1>9
  <2>3. QED
    BY <2>1, <2>2
<1>11. \A q \in Proc \ {p} : ip[q] # Null => ip[q] \in Entry /\ ref[ip[q]] > 0 /\ inum'[ip[q]] = inum[ip[q]]
  BY <1>2, <1>8 DEF TypeInv, ProcType, PtrFacts, GetFacts
<1>12. TransInv'
  <2>1. pc'[p] \notin Relying
    BY <1>9 DEF Relying
  <2>2. \A q \in Proc \ {p} : pc[q] \in InTrans /\ ip[q] # Null => inum'[ip[q]] = inum[ip[q]]
    BY <1>11
  <2>3. QED
    BY <1>6, <1>9, <2>1, <2>2, TransFrame
<1>13. QED
  BY <1>7, <1>10, <1>12 DEF IInv

-----------------------------------------------------------------------------
\* The lock of an i-node, after a step of p: as before, taken or released.
Others(p) ==
    \A q \in Proc \ {p} : /\ pc'[q] = pc[q] /\ name'[q] = name[q] /\ kind'[q] = kind[q]
                          /\ ip'[q] = ip[q] /\ file'[q] = file[q] /\ cwd'[q] = cwd[q]
                          /\ trans' = q <=> trans = q

LEMMA LockSame ==
    ASSUME LockInv, NEW p \in Proc, Others(p), \A e \in Entry : busy'[e] <=> busy[e],
           pc'[p] \in Locking <=> pc[p] \in Locking,
           pc[p] \in Locking => ip'[p] = ip[p]
    PROVE  LockInv'
<1>1. \A q \in Proc : /\ pc'[q] \in Locking <=> pc[q] \in Locking
                      /\ pc[q] \in Locking => ip'[q] = ip[q]
  BY DEF Others
<1>2. QED
  BY <1>1 DEF LockInv

LEMMA LockTake ==
    ASSUME LockInv, NEW p \in Proc, Others(p), NEW e \in Entry, TableType, ~busy[e],
           busy' = [busy EXCEPT ![e] = TRUE],
           pc'[p] \in Locking, pc[p] \notin Locking, ip'[p] = e
    PROVE  LockInv'
<1>1. \A q \in Proc \ {p} : /\ pc'[q] \in Locking <=> pc[q] \in Locking
                            /\ ip'[q] = ip[q]
  BY DEF Others
<1>2. \A q \in Proc : pc[q] \in Locking => ip[q] # e
  BY DEF LockInv
<1>3. ASSUME NEW f \in Entry PROVE busy'[f] <=> \E q \in Proc : pc'[q] \in Locking /\ ip'[q] = f
  <2>1. CASE f = e
    BY <2>1 DEF TableType
  <2>2. CASE f # e
    <3>1. busy'[f] = busy[f]
      BY <2>2 DEF TableType
    <3>2. QED
      BY <1>1, <2>2, <3>1 DEF LockInv
  <2>3. QED
    BY <2>1, <2>2
<1>4. QED
  BY <1>1, <1>2, <1>3 DEF LockInv

LEMMA LockDrop ==
    ASSUME LockInv, NEW p \in Proc, Others(p), NEW e \in Entry, TableType,
           busy' = [busy EXCEPT ![e] = FALSE],
           pc'[p] \notin Locking, pc[p] \in Locking, ip[p] = e
    PROVE  LockInv'
<1>1. \A q \in Proc \ {p} : /\ pc'[q] \in Locking <=> pc[q] \in Locking
                            /\ ip'[q] = ip[q]
  BY DEF Others
<1>2. \A q \in Proc \ {p} : pc[q] \in Locking => ip[q] # e
  BY DEF LockInv
<1>3. ASSUME NEW f \in Entry PROVE busy'[f] <=> \E q \in Proc : pc'[q] \in Locking /\ ip'[q] = f
  <2>1. CASE f = e
    BY <1>1, <1>2, <2>1 DEF TableType
  <2>2. CASE f # e
    <3>1. busy'[f] = busy[f]
      BY <2>2 DEF TableType
    <3>2. QED
      BY <1>1, <2>2, <3>1 DEF LockInv
  <2>3. QED
    BY <2>1, <2>2
<1>4. QED
  BY <1>1, <1>2, <1>3 DEF LockInv

LEMMA LocalFrame ==
    ASSUME LocalInv, NEW p \in Proc, Others(p), LocalInv!(p)'
    PROVE  LocalInv'
BY DEF LocalInv, Others

\* A copy that is left alone or read from the disk.
CopyKept == \A e \in Entry : ref[e] > 0 /\ valid'[e] =>
    \/ valid[e] /\ type'[e] = type[e] /\ nlink'[e] = nlink[e] /\ addrs'[e] = addrs[e]
    \/ type'[e] = dtype[inum[e]] /\ nlink'[e] = dnlink[inum[e]] /\ addrs'[e] = daddrs[inum[e]]

\* The step of a call that leaves the disk and the references alone.
LEMMA QuietStep ==
    ASSUME IInv, NEW p \in Proc, UNCHANGED disk, UNCHANGED <<inum, ref>>, Others(p), TypeInv', LockInv',
           \A e \in Entry : Held(p, e)' = Held(p, e),
           CopyKept, \A e \in Entry : valid[e] => valid'[e],
           LocalInv!(p)', ValidInv!(p)', TransInv!(p)', FreeInv!(p)',
           pc'[p] \in Linking <=> pc[p] \in Linking,
           pc[p] \in Linking => ip'[p] = ip[p]
    PROVE  IInv'
<1>1. UNCHANGED <<dtype, dnlink, daddrs, dir, rootnlink, bitmap>> /\ Unallocated' = Unallocated
  BY DEF disk, Unallocated
<1>2. /\ TypeInv /\ LocalInv /\ RefInv /\ EntryInv /\ CopyInv /\ ValidInv /\ DirInv /\ LinkInv
      /\ RootInv /\ BlockInv /\ TransInv /\ FreeInv
  BY DEF IInv
<1>3. DirInv' /\ RootInv' /\ BlockInv'
  BY <1>2, DiskFrame
<1>4. RefInv'
  <2>1. OnlyAt(Proc, ip, ip', p) /\ OnlyAt(Proc, file, file', p) /\ OnlyAt(Proc, cwd, cwd', p)
    BY DEF OnlyAt, Others
  <2>2. \A e \in Entry : ref'[e] = ref[e] + Held(p, e)' - Held(p, e)
    <3> SUFFICES ASSUME NEW e \in Entry PROVE ref'[e] = ref[e] + Held(p, e)' - Held(p, e)
      OBVIOUS
    <3>1. Held(p, e) \in Nat /\ ref[e] \in Nat /\ ref'[e] = ref[e] /\ Held(p, e)' = Held(p, e)
      BY <1>2 DEF Held, One, TypeInv, TableType
    <3>2. QED
      BY <3>1
  <2>3. QED
    BY <1>2, <2>1, <2>2, RefStep
<1>5. EntryInv'
  BY <1>1, <1>2 DEF EntryInv
<1>6. CopyInv'
  BY <1>1, <1>2 DEF CopyInv, CopyKept
<1>7. LocalInv'
  BY <1>2, LocalFrame
<1>8. ValidInv'
  <2> SUFFICES ASSUME NEW q \in Proc, q # p PROVE ValidInv!(q)'
    BY DEF ValidInv
  <2>1. ValidInv!(q)
    BY <1>2 DEF ValidInv
  <2>2. /\ file[q] # Null => file[q] \in Entry
        /\ cwd[q] # Null => cwd[q] \in Entry
        /\ pc[q] \in Reading => ip[q] \in Entry
    BY <1>2 DEF TypeInv, ProcType, LocalInv, Reading, WithIp
  <2>3. QED
    BY <2>1, <2>2 DEF Others
<1>9. LinkInv'
  <2>1. /\ \A q \in Proc : pc'[q] \in Linking <=> pc[q] \in Linking
        /\ \A q \in Proc : pc[q] \in Linking => ip'[q] = ip[q] /\ inum'[ip[q]] = inum[ip[q]]
    BY DEF Others
  <2>2. \A e \in Entry : ref[e] > 0 /\ dnlink[inum[e]] = 0 => ref'[e] > 0 /\ inum'[e] = inum[e]
    OBVIOUS
  <2>3. UNCHANGED <<dtype, dnlink, dir>>
    BY <1>1
  <2>4. QED
    BY <1>2, <2>1, <2>2, <2>3, LinkFrame
<1>10. TransInv'
  <2> SUFFICES ASSUME NEW q \in Proc, q # p PROVE TransInv!(q)'
    BY DEF TransInv
  <2>1. TransInv!(q)
    BY <1>2 DEF TransInv
  <2>2. pc'[q] = pc[q] /\ name'[q] = name[q] /\ kind'[q] = kind[q] /\ ip'[q] = ip[q]
    BY DEF Others
  <2>3. QED
    BY <2>1, <2>2, <1>1
<1>11. FreeInv'
  <2>1. \A q \in Proc \ {p} : pc'[q] = pc[q] /\ ip'[q] = ip[q] /\ FreeKept(q)
    BY <1>1 DEF Others, FreeKept
  <2>2. QED
    BY <1>2, <2>1, FreeFrame
<1>12. QED
  BY <1>3, <1>4, <1>5, <1>6, <1>7, <1>8, <1>9, <1>10, <1>11 DEF IInv

-----------------------------------------------------------------------------
\* The fields after ilock are those on the disk.
LEMMA CopyIs ==
    ASSUME CopyInv, NEW e \in Entry, ref[e] > 0
    PROVE  Ityp(e) = dtype[inum[e]] /\ Inlk(e) = dnlink[inum[e]] /\ Iadr(e) = daddrs[inum[e]]
BY DEF CopyInv, Ityp, Inlk, Iadr

LEMMA ReadIs ==
    ASSUME IInv, NEW e \in Entry, ref[e] > 0, Fields(e, Inlk(e), Iadr(e))
    PROVE  /\ CopyKept /\ CopyType' /\ valid' \in [Entry -> BOOLEAN] /\ valid'[e]
           /\ \A f \in Entry : valid[f] => valid'[f]
<1>1. TypeInv /\ CopyInv /\ EntryInv /\ DiskType /\ TableType /\ CopyType
  BY DEF IInv, TypeInv
<1>2. inum[e] \in Inum /\ dtype[inum[e]] \in Type /\ dnlink[inum[e]] \in Nat /\ daddrs[inum[e]] \in SUBSET Block
  BY <1>1 DEF EntryInv, DiskType
<1>3. /\ type' = [type EXCEPT ![e] = dtype[inum[e]]]
      /\ nlink' = [nlink EXCEPT ![e] = dnlink[inum[e]]]
      /\ addrs' = [addrs EXCEPT ![e] = daddrs[inum[e]]]
      /\ valid' = [valid EXCEPT ![e] = TRUE]
  BY <1>1, CopyIs DEF Fields
<1>4. CopyType'
  BY <1>1, <1>2, <1>3 DEF CopyType
<1>5. valid' \in [Entry -> BOOLEAN]
  BY <1>1, <1>3, FlagIs DEF TableType
<1>6. valid'[e] /\ \A f \in Entry \ {e} : valid'[f] = valid[f]
  BY <1>1, <1>3 DEF TableType
<1>7. CopyKept
  <2>1. \A f \in Entry \ {e} : type'[f] = type[f] /\ nlink'[f] = nlink[f] /\ addrs'[f] = addrs[f]
    BY <1>1, <1>3 DEF CopyType
  <2>2. type'[e] = dtype[inum[e]] /\ nlink'[e] = dnlink[inum[e]] /\ addrs'[e] = daddrs[inum[e]]
    BY <1>1, <1>3 DEF CopyType
  <2>3. QED
    BY <1>6, <2>1, <2>2 DEF CopyKept
<1>8. QED
  BY <1>4, <1>5, <1>6, <1>7

\* The i-node of a call.
LEMMA IpIs ==
    ASSUME IInv, NEW p \in Proc, pc[p] \in WithIp
    PROVE  /\ ip[p] \in Entry /\ ip[p] # Null /\ ref[ip[p]] > 0 /\ inum[ip[p]] \in Inum
           /\ dtype[inum[ip[p]]] # "FREE" /\ PtrFacts
<1>1. ip[p] \in Entry /\ ip[p] # Null /\ PtrFacts
  BY PtrNow DEF IInv, TypeInv, ProcType, LocalInv
<1>2. ref[ip[p]] > 0
  BY <1>1 DEF PtrFacts
<1>3. QED
  BY <1>1, <1>2 DEF IInv, EntryInv

LEMMA OpenLockStep ==
    ASSUME IInv, NEW p \in Proc, OpenLock(p)
    PROVE  IInv'
<1>1. /\ pc[p] = "open" /\ ~busy[ip[p]] /\ busy' = [busy EXCEPT ![ip[p]] = TRUE]
      /\ Fields(ip[p], Inlk(ip[p]), Iadr(ip[p])) /\ pc' = [pc EXCEPT ![p] = "opened"]
      /\ UNCHANGED disk /\ UNCHANGED <<inum, ref, rootbusy, trans, name, kind, ip, file, cwd>>
  BY DEF OpenLock, ilock, goto, locks, args, fds
<1>2. /\ TypeInv /\ LocalInv!(p) /\ ValidInv!(p) /\ FreeInv!(p) /\ LockInv
      /\ DiskType /\ TableType /\ ProcType
  BY DEF IInv, TypeInv, LocalInv, ValidInv, FreeInv
<1>3. /\ ip[p] \in Entry /\ ip[p] # Null /\ ref[ip[p]] > 0
  BY <1>1, IpIs DEF WithIp
<1>4. /\ CopyKept /\ CopyType' /\ valid' \in [Entry -> BOOLEAN] /\ valid'[ip[p]]
      /\ \A f \in Entry : valid[f] => valid'[f]
  BY <1>1, <1>3, ReadIs
<1>5. Others(p) /\ pc'[p] = "opened"
  BY <1>1, <1>2 DEF Others, ProcType
<1>6. TypeInv'
  <2>1. TableType'
    BY <1>1, <1>2, <1>3, <1>4, FlagIs DEF TableType
  <2>2. DiskType' /\ ProcType'
    BY <1>1, <1>2 DEF DiskType, ProcType, disk, PC
  <2>3. QED
    BY <1>4, <2>1, <2>2 DEF TypeInv
<1>7. LockInv'
  BY <1>1, <1>2, <1>3, <1>5, LockTake DEF Locking
<1>8. \A e \in Entry : Held(p, e)' = Held(p, e)
  BY <1>1 DEF Held
<1>9. LocalInv!(p)'
  BY <1>1, <1>2, <1>3, <1>5 DEF InTrans, WithIp, Naming, Creating, Freeing
<1>10. ValidInv!(p)' /\ TransInv!(p)' /\ FreeInv!(p)'
  <2>1. dtype' = dtype /\ cwd[p] \in Entry \cup {Null} /\ file[p] = Null
    BY <1>1, <1>2 DEF disk, ProcType, Freeing
  <2>2. QED
    BY <2>1, <1>1, <1>2, <1>4, <1>5 DEF Linking, Freeing
<1>11. pc[p] \notin Linking /\ pc'[p] \notin Linking
  BY <1>1, <1>5 DEF Linking
<1>12. QED
  BY <1>1, <1>4, <1>5, <1>6, <1>7, <1>8, <1>9, <1>10, <1>11, QuietStep

\* The steps that leave the table alone as well.
LEMMA PlainStep ==
    ASSUME IInv, NEW p \in Proc, UNCHANGED disk, UNCHANGED icache, Others(p), ProcType',
           pc'[p] \in Locking <=> pc[p] \in Locking,
           pc[p] \in Locking => ip'[p] = ip[p],
           \A e \in Entry : Held(p, e)' = Held(p, e),
           LocalInv!(p)', ValidInv!(p)', TransInv!(p)', FreeInv!(p)',
           pc'[p] \in Linking <=> pc[p] \in Linking,
           pc[p] \in Linking => ip'[p] = ip[p]
    PROVE  IInv'
<1>1. UNCHANGED <<inum, ref, busy, valid, type, nlink, addrs>>
  BY DEF icache, copy
<1>2. TypeInv'
  <2>1. DiskType /\ TableType /\ CopyType
    BY DEF IInv, TypeInv
  <2>2. DiskType' /\ TableType' /\ CopyType'
    BY <1>1, <2>1 DEF DiskType, TableType, CopyType, disk
  <2>3. QED
    BY <2>2 DEF TypeInv
<1>3. LockInv /\ CopyInv
  BY DEF IInv
<1>4. LockInv'
  <2>1. \A e \in Entry : busy'[e] <=> busy[e]
    BY <1>1
  <2>2. QED
    BY <1>3, <2>1, LockSame
<1>5. CopyKept
  BY <1>1, <1>3 DEF CopyInv, CopyKept
<1>6. \A e \in Entry : valid[e] => valid'[e]
  BY <1>1
<1>7. QED
  BY <1>1, <1>2, <1>4, <1>5, <1>6, QuietStep

LEMMA CommitStep ==
    ASSUME IInv, NEW p \in Proc, Commit(p)
    PROVE  IInv'
<1>1. /\ pc[p] \in {"commit", "created"} /\ trans' = NoProc
      /\ pc' = [pc EXCEPT ![p] = IF pc[p] = "created" THEN "opened" ELSE "idle"]
      /\ name' = [name EXCEPT ![p] = NoName] /\ kind' = [kind EXCEPT ![p] = "FREE"]
      /\ UNCHANGED disk /\ UNCHANGED icache /\ UNCHANGED <<rootbusy, ip, file, cwd>>
  BY DEF Commit, goto, fds
<1>2. /\ LocalInv!(p) /\ ValidInv!(p) /\ FreeInv!(p) /\ ProcType /\ TransInv!(p)
  BY DEF IInv, TypeInv, LocalInv, ValidInv, FreeInv, TransInv
<1>3. trans = p /\ NoProc \notin Proc
  BY <1>1, <1>2, Basics DEF InTrans
<1>4. /\ Others(p) /\ pc'[p] = (IF pc[p] = "created" THEN "opened" ELSE "idle")
  BY <1>1, <1>2, <1>3 DEF Others, ProcType
<1>5. ProcType'
  BY <1>1, <1>2, <1>3 DEF ProcType, PC, Type
<1>6. \A e \in Entry : Held(p, e)' = Held(p, e)
  BY <1>1 DEF Held
<1>7. LocalInv!(p)'
  BY <1>1, <1>2, <1>3, <1>4 DEF InTrans, WithIp, Naming, Creating
<1>8. UNCHANGED <<dtype, inum, valid>>
  BY <1>1 DEF disk, icache
<1>9. ValidInv!(p)' /\ TransInv!(p)' /\ FreeInv!(p)'
  BY <1>1, <1>2, <1>4, <1>8 DEF Linking, Reading, Freeing
<1>10. /\ pc[p] \notin Linking /\ pc'[p] \notin Linking
       /\ pc'[p] \in Locking <=> pc[p] \in Locking
       /\ ip'[p] = ip[p]
  BY <1>1, <1>4 DEF Linking, Locking
<1>11. QED
  BY <1>1, <1>4, <1>5, <1>6, <1>7, <1>9, <1>10, PlainStep

\* The calls that begin a transaction.
LEMMA BeginStep ==
    ASSUME IInv, NEW p \in Proc, begin_trans(p), NEW to \in {"create", "unlink", "write", "linkinc"},
           to = "linkinc" => pc[p] = "link", to # "linkinc" => pc[p] = "idle", goto(p, to),
           UNCHANGED disk, UNCHANGED icache, UNCHANGED <<rootbusy, ip, fds>>,
           name' \in [Proc -> Name \cup {NoName}], kind' \in [Proc -> Type],
           \A q \in Proc \ {p} : name'[q] = name[q] /\ kind'[q] = kind[q],
           to # "write" => name'[p] \in Name, to = "write" => file[p] # Null,
           to = "create" => /\ kind'[p] \in {"FILE", "DIR"} /\ Unallocated # {}
                            /\ kind'[p] = "FILE" => file[p] = Null
                            /\ kind'[p] = "DIR" => Block \ bitmap # {}
    PROVE  IInv'
<1>1. /\ trans = NoProc /\ trans' = p /\ pc' = [pc EXCEPT ![p] = to] /\ UNCHANGED <<file, cwd>>
      /\ pc[p] \in {"idle", "link"}
  BY DEF begin_trans, goto, fds
<1>2. /\ LocalInv!(p) /\ ValidInv!(p) /\ FreeInv!(p) /\ ProcType /\ NoProc \notin Proc
  BY Basics DEF IInv, TypeInv, LocalInv, ValidInv, FreeInv
<1>3. Others(p) /\ pc'[p] = to
  BY <1>1, <1>2 DEF Others, ProcType
<1>4. ProcType'
  BY <1>1, <1>2 DEF ProcType, PC
<1>5. \A e \in Entry : Held(p, e)' = Held(p, e)
  BY <1>1 DEF Held
<1>6. LocalInv!(p)'
  BY <1>1, <1>2, <1>3 DEF InTrans, WithIp, Naming, Creating
<1>7. UNCHANGED <<dtype, dnlink, dir, bitmap, inum, valid, ref>> /\ Unallocated' = Unallocated
  BY DEF disk, icache, Unallocated
<1>8. ValidInv!(p)' /\ FreeInv!(p)'
  BY <1>1, <1>2, <1>3, <1>7 DEF Reading, Freeing
<1>9. TransInv!(p)'
  BY <1>3, <1>7 DEF Linking
<1>10. /\ pc[p] \notin Linking /\ pc'[p] \notin Linking
       /\ pc[p] \notin Locking /\ pc'[p] \notin Locking
  BY <1>1, <1>3 DEF Linking, Locking
<1>11. QED
  BY <1>3, <1>4, <1>5, <1>6, <1>8, <1>9, <1>10, PlainStep

LEMMA CreateBeginStep ==
    ASSUME IInv, NEW p \in Proc, NEW n \in Name, NEW k \in {"FILE", "DIR"}, CreateBegin(p, n, k)
    PROVE  IInv'
<1>1. /\ pc[p] = "idle" /\ begin_trans(p) /\ (k = "FILE" => file[p] = Null)
      /\ Unallocated # {} /\ (k = "DIR" => Block \ bitmap # {})
      /\ name' = [name EXCEPT ![p] = n] /\ kind' = [kind EXCEPT ![p] = k] /\ goto(p, "create")
      /\ UNCHANGED disk /\ UNCHANGED icache /\ UNCHANGED <<rootbusy, ip, fds>>
  BY DEF CreateBegin
<1>2. ProcType
  BY DEF IInv, TypeInv
<1>3. /\ name' \in [Proc -> Name \cup {NoName}] /\ kind' \in [Proc -> Type]
      /\ name'[p] = n /\ kind'[p] = k
      /\ \A q \in Proc \ {p} : name'[q] = name[q] /\ kind'[q] = kind[q]
  BY <1>1, <1>2 DEF ProcType, Type
<1>4. QED
  BY <1>1, <1>3, BeginStep

LEMMA UnlinkBeginStep ==
    ASSUME IInv, NEW p \in Proc, NEW n \in Name, UnlinkBegin(p, n)
    PROVE  IInv'
<1>1. /\ pc[p] = "idle" /\ begin_trans(p)
      /\ name' = [name EXCEPT ![p] = n] /\ kind' = kind /\ goto(p, "unlink")
      /\ UNCHANGED disk /\ UNCHANGED icache /\ UNCHANGED <<rootbusy, ip, fds>>
  BY DEF UnlinkBegin
<1>2. ProcType
  BY DEF IInv, TypeInv
<1>3. /\ name' \in [Proc -> Name \cup {NoName}] /\ kind' \in [Proc -> Type]
      /\ name'[p] = n
      /\ \A q \in Proc \ {p} : name'[q] = name[q] /\ kind'[q] = kind[q]
  BY <1>1, <1>2 DEF ProcType, Type
<1>4. QED
  BY <1>1, <1>3, BeginStep

LEMMA LinkBeginStep ==
    ASSUME IInv, NEW p \in Proc, LinkBegin(p)
    PROVE  IInv'
<1>1. /\ pc[p] = "link" /\ begin_trans(p) /\ goto(p, "linkinc") /\ UNCHANGED <<name, kind>>
      /\ UNCHANGED disk /\ UNCHANGED icache /\ UNCHANGED <<rootbusy, ip, fds>>
  BY DEF LinkBegin, args
<1>2. /\ name \in [Proc -> Name \cup {NoName}] /\ kind \in [Proc -> Type] /\ name[p] \in Name
  BY <1>1 DEF IInv, TypeInv, ProcType, LocalInv, Naming
<1>3. QED
  BY <1>1, <1>2, BeginStep

LEMMA WriteBeginStep ==
    ASSUME IInv, NEW p \in Proc, WriteBegin(p)
    PROVE  IInv'
<1>1. /\ pc[p] = "idle" /\ begin_trans(p) /\ goto(p, "write") /\ UNCHANGED <<name, kind>>
      /\ file[p] # Null
      /\ UNCHANGED disk /\ UNCHANGED icache /\ UNCHANGED <<rootbusy, ip, fds>>
  BY DEF WriteBegin, args
<1>2. /\ name \in [Proc -> Name \cup {NoName}] /\ kind \in [Proc -> Type]
  BY DEF IInv, TypeInv, ProcType
<1>3. QED
  BY <1>1, <1>2, BeginStep

LEMMA OpenStep ==
    ASSUME IInv, NEW p \in Proc, NEW n \in Name, Open(p, n)
    PROVE  IInv'
<1>1. file[p] = Null /\ Namei(p, n, "open") /\ name' = name
  BY DEF Open
<1>2. name \in [Proc -> Name \cup {NoName}]
  BY DEF IInv, TypeInv, ProcType
<1>3. QED
  BY <1>1, <1>2, NameiStep

LEMMA ChdirStep ==
    ASSUME IInv, NEW p \in Proc, NEW n \in Name, Chdir(p, n)
    PROVE  IInv'
<1>1. Namei(p, n, "chdir") /\ name' = name
  BY DEF Chdir
<1>2. name \in [Proc -> Name \cup {NoName}]
  BY DEF IInv, TypeInv, ProcType
<1>3. QED
  BY <1>1, <1>2, NameiStep

LEMMA ExecStep ==
    ASSUME IInv, NEW p \in Proc, NEW n \in Name, Exec(p, n)
    PROVE  IInv'
<1>1. Namei(p, n, "exec") /\ name' = name
  BY DEF Exec
<1>2. name \in [Proc -> Name \cup {NoName}]
  BY DEF IInv, TypeInv, ProcType
<1>3. QED
  BY <1>1, <1>2, NameiStep

LEMMA LinkStep ==
    ASSUME IInv, NEW p \in Proc, NEW old \in Name, NEW n \in Name, Link(p, old, n)
    PROVE  IInv'
<1>1. Namei(p, old, "link") /\ name' = [name EXCEPT ![p] = n]
  BY DEF Link
<1>2. /\ name' \in [Proc -> Name \cup {NoName}] /\ name'[p] = n
      /\ \A q \in Proc \ {p} : name'[q] = name[q]
  BY <1>1 DEF IInv, TypeInv, ProcType
<1>3. QED
  BY <1>1, <1>2, NameiStep

\* The end of open: the lock is released, the pointer moves to the file ...
LEMMA OpenDoneStep ==
    ASSUME IInv, NEW p \in Proc, OpenDone(p)
    PROVE  IInv'
<1>1. /\ pc[p] = "opened" /\ busy' = [busy EXCEPT ![ip[p]] = FALSE]
      /\ file' = [file EXCEPT ![p] = ip[p]] /\ ip' = [ip EXCEPT ![p] = Null]
      /\ pc' = [pc EXCEPT ![p] = "idle"]
      /\ UNCHANGED disk
      /\ UNCHANGED <<inum, ref, valid, type, nlink, addrs, rootbusy, trans, name, kind, cwd>>
  BY DEF OpenDone, goto, locks, args, copy
<1>2. /\ TypeInv /\ LocalInv!(p) /\ ValidInv!(p) /\ FreeInv!(p) /\ LockInv /\ CopyInv
      /\ DiskType /\ TableType /\ CopyType /\ ProcType
  BY DEF IInv, TypeInv, LocalInv, ValidInv, FreeInv
<1>3. /\ ip[p] \in Entry /\ ip[p] # Null /\ ref[ip[p]] > 0
  BY <1>1, IpIs DEF WithIp
<1>4. CopyKept /\ (\A f \in Entry : valid[f] => valid'[f])
  BY <1>1, <1>2 DEF CopyInv, CopyKept
<1>5. Others(p) /\ pc'[p] = "idle" /\ ip'[p] = Null /\ file'[p] = ip[p] /\ file[p] = Null
  BY <1>1, <1>2 DEF Others, ProcType
<1>6. TypeInv'
  <2>1. TableType'
    BY <1>1, <1>2, <1>3, FlagIs DEF TableType
  <2>2. DiskType' /\ ProcType' /\ CopyType'
    BY <1>1, <1>2 DEF DiskType, ProcType, CopyType, disk, PC
  <2>3. QED
    BY <2>1, <2>2 DEF TypeInv
<1>7. LockInv'
  BY <1>1, <1>2, <1>3, <1>5, LockDrop DEF Locking
<1>8. \A e \in Entry : Held(p, e)' = Held(p, e)
  BY <1>1, <1>5, Basics DEF Held, One
<1>9. LocalInv!(p)'
  BY <1>1, <1>2, <1>3, <1>5 DEF InTrans, WithIp, Naming, Creating, Freeing
<1>10. ValidInv!(p)' /\ TransInv!(p)' /\ FreeInv!(p)'
  BY <1>1, <1>2, <1>3, <1>5 DEF Linking, Reading, disk, Freeing
<1>11. pc[p] \notin Linking /\ pc'[p] \notin Linking /\ trans # p
  BY <1>1, <1>2, <1>5 DEF Linking, InTrans, Freeing
<1>12. QED
  BY <1>1, <1>4, <1>5, <1>6, <1>7, <1>8, <1>9, <1>10, <1>11, QuietStep

\* ... or is dropped, outside of a transaction.
LEMMA OpenFailStep ==
    ASSUME IInv, NEW p \in Proc, OpenFail(p)
    PROVE  IInv'
<1>1. /\ pc[p] = "opened" /\ busy' = [busy EXCEPT ![ip[p]] = FALSE]
      /\ pc' = [pc EXCEPT ![p] = "put"]
      /\ UNCHANGED disk
      /\ UNCHANGED <<inum, ref, valid, type, nlink, addrs, rootbusy, trans, name, kind, ip, file, cwd>>
  BY DEF OpenFail, goto, locks, args, copy, fds
<1>2. /\ TypeInv /\ LocalInv!(p) /\ ValidInv!(p) /\ FreeInv!(p) /\ LockInv /\ CopyInv
      /\ DiskType /\ TableType /\ CopyType /\ ProcType
  BY DEF IInv, TypeInv, LocalInv, ValidInv, FreeInv
<1>3. /\ ip[p] \in Entry /\ ip[p] # Null /\ ref[ip[p]] > 0 /\ valid[ip[p]]
  BY <1>1, <1>2, IpIs DEF WithIp, Reading
<1>4. CopyKept /\ (\A f \in Entry : valid[f] => valid'[f])
  BY <1>1, <1>2, <1>3 DEF CopyInv, CopyKept
<1>5. Others(p) /\ pc'[p] = "put"
  BY <1>1, <1>2 DEF Others, ProcType
<1>6. TypeInv'
  <2>1. TableType'
    BY <1>1, <1>2, <1>3, FlagIs DEF TableType
  <2>2. DiskType' /\ ProcType' /\ CopyType'
    BY <1>1, <1>2 DEF DiskType, ProcType, CopyType, disk, PC
  <2>3. QED
    BY <2>1, <2>2 DEF TypeInv
<1>7. LockInv'
  BY <1>1, <1>2, <1>3, <1>5, LockDrop DEF Locking
<1>8. \A e \in Entry : Held(p, e)' = Held(p, e)
  BY <1>1 DEF Held
<1>9. LocalInv!(p)'
  BY <1>1, <1>2, <1>3, <1>5 DEF InTrans, WithIp, Naming, Creating
<1>10. ValidInv!(p)' /\ TransInv!(p)' /\ FreeInv!(p)'
  BY <1>1, <1>2, <1>3, <1>4, <1>5 DEF Linking, Reading, disk, Freeing
<1>11. pc[p] \notin Linking /\ pc'[p] \notin Linking /\ trans # p
  BY <1>1, <1>2, <1>5 DEF Linking, InTrans, Freeing
<1>12. QED
  BY <1>1, <1>4, <1>5, <1>6, <1>7, <1>8, <1>9, <1>10, <1>11, QuietStep

\* create of an old name: a file is kept locked for open, anything else put.
LEMMA CreateOldLockStep ==
    ASSUME IInv, NEW p \in Proc, CreateOldLock(p)
    PROVE  IInv'
<1> DEFINE ok == kind[p] = "FILE" /\ Ityp(ip[p]) = "FILE"
<1>1. /\ pc[p] = "createold" /\ ~busy[ip[p]] /\ busy' = [busy EXCEPT ![ip[p]] = ok]
      /\ Fields(ip[p], Inlk(ip[p]), Iadr(ip[p]))
      /\ pc' = [pc EXCEPT ![p] = IF ok THEN "created" ELSE "put"]
      /\ UNCHANGED disk /\ UNCHANGED <<inum, ref, rootbusy, trans, name, kind, ip, file, cwd>>
  BY DEF CreateOldLock, ilock, goto, locks, args, fds
<1>2. /\ TypeInv /\ LocalInv!(p) /\ ValidInv!(p) /\ FreeInv!(p) /\ LockInv /\ CopyInv
      /\ DiskType /\ TableType /\ ProcType
  BY DEF IInv, TypeInv, LocalInv, ValidInv, FreeInv
<1>3. /\ ip[p] \in Entry /\ ip[p] # Null /\ ref[ip[p]] > 0
  BY <1>1, IpIs DEF WithIp
<1>4. /\ CopyKept /\ CopyType' /\ valid' \in [Entry -> BOOLEAN] /\ valid'[ip[p]]
      /\ \A f \in Entry : valid[f] => valid'[f]
  BY <1>1, <1>3, ReadIs
<1>5. Others(p) /\ pc'[p] = IF ok THEN "created" ELSE "put"
  BY <1>1, <1>2 DEF Others, ProcType
<1>6. TypeInv'
  <2>1. TableType'
    <3>1. ok \in BOOLEAN
      OBVIOUS
    <3> HIDE DEF ok
    <3>2. busy' \in [Entry -> BOOLEAN]
      BY <1>1, <1>2, <1>3, <3>1, FlagIs DEF TableType
    <3>3. QED
      BY <1>1, <1>2, <1>4, <3>2 DEF TableType
  <2>2. DiskType' /\ ProcType'
    BY <1>1, <1>2 DEF DiskType, ProcType, disk, PC
  <2>3. QED
    BY <1>4, <2>1, <2>2 DEF TypeInv
<1>7. dtype' = dtype /\ cwd[p] \in Entry \cup {Null} /\ file[p] \in Entry \cup {Null} /\ Ityp(ip[p]) = dtype[inum[ip[p]]]
  BY <1>1, <1>2, <1>3, CopyIs DEF disk, ProcType
<1>8. LockInv'
  <2>1. CASE ok
    <3>1. busy' = [busy EXCEPT ![ip[p]] = TRUE]
      BY <1>1, <2>1
    <3>2. pc'[p] \in Locking /\ pc[p] \notin Locking /\ ip'[p] = ip[p]
      BY <1>1, <1>5, <2>1 DEF Locking
    <3>3. QED
      BY <1>1, <1>2, <1>3, <1>5, <3>1, <3>2, LockTake
  <2>2. CASE ~ok
    <3>1. busy' = [busy EXCEPT ![ip[p]] = FALSE]
      BY <1>1, <2>2
    <3>2. \A e \in Entry : busy'[e] <=> busy[e]
      BY <3>1, <1>1, <1>2 DEF TableType
    <3>3. pc'[p] \notin Locking /\ pc[p] \notin Locking
      BY <1>1, <1>5, <2>2 DEF Locking
    <3>4. QED
      BY <1>2, <1>5, <3>2, <3>3, LockSame
  <2>3. QED
    BY <2>1, <2>2
<1>9. \A e \in Entry : Held(p, e)' = Held(p, e)
  BY <1>1 DEF Held
<1>10. LocalInv!(p)'
  BY <1>1, <1>2, <1>3, <1>5 DEF InTrans, WithIp, Naming, Creating
<1>11. ValidInv!(p)' /\ TransInv!(p)' /\ FreeInv!(p)'
  BY <1>1, <1>2, <1>4, <1>5, <1>7 DEF Linking, InTrans, Freeing
<1>12. pc[p] \notin Linking /\ pc'[p] \notin Linking
  BY <1>1, <1>5 DEF Linking
<1>13. QED
  BY <1>1, <1>4, <1>5, <1>6, <1>8, <1>9, <1>10, <1>11, <1>12, QuietStep

\* An i-node is read and put: link(2) of a directory, which fails, and exec.
LEMMA ReadPutStep ==
    ASSUME IInv, NEW p \in Proc, pc[p] \in {"linkinc", "exec"},
           Fields(ip[p], Inlk(ip[p]), Iadr(ip[p])), pc' = [pc EXCEPT ![p] = "put"],
           UNCHANGED disk, UNCHANGED <<inum, ref, busy, rootbusy, trans, name, kind, ip, file, cwd>>
    PROVE  IInv'
<1>1. /\ pc[p] \in {"linkinc", "exec"}
      /\ Fields(ip[p], Inlk(ip[p]), Iadr(ip[p])) /\ pc' = [pc EXCEPT ![p] = "put"]
      /\ UNCHANGED disk /\ UNCHANGED <<inum, ref, busy, rootbusy, trans, name, kind, ip, file, cwd>>
  OBVIOUS
<1>2. /\ TypeInv /\ LocalInv!(p) /\ ValidInv!(p) /\ FreeInv!(p) /\ LockInv
      /\ DiskType /\ TableType /\ ProcType
  BY DEF IInv, TypeInv, LocalInv, ValidInv, FreeInv
<1>3. /\ ip[p] \in Entry /\ ip[p] # Null /\ ref[ip[p]] > 0
  BY <1>1, IpIs DEF WithIp
<1>4. /\ CopyKept /\ CopyType' /\ valid' \in [Entry -> BOOLEAN] /\ valid'[ip[p]]
      /\ \A f \in Entry : valid[f] => valid'[f]
  BY <1>1, <1>3, ReadIs
<1>5. Others(p) /\ pc'[p] = "put"
  BY <1>1, <1>2 DEF Others, ProcType
<1>6. TypeInv'
  BY <1>1, <1>2, <1>4 DEF TypeInv, DiskType, TableType, ProcType, disk, PC
<1>7. LockInv'
  <2>1. \A e \in Entry : busy'[e] <=> busy[e]
    BY <1>1
  <2>2. pc'[p] \notin Locking /\ pc[p] \notin Locking
    BY <1>1, <1>5 DEF Locking
  <2>3. QED
    BY <1>2, <1>5, <2>1, <2>2, LockSame
<1>8. \A e \in Entry : Held(p, e)' = Held(p, e)
  BY <1>1 DEF Held
<1>9. LocalInv!(p)'
  BY <1>1, <1>2, <1>3, <1>5 DEF InTrans, WithIp, Naming, Creating
<1>10. ValidInv!(p)' /\ TransInv!(p)' /\ FreeInv!(p)'
  <2>1. dtype' = dtype /\ cwd[p] \in Entry \cup {Null} /\ file[p] \in Entry \cup {Null}
    BY <1>1, <1>2 DEF disk, ProcType, Freeing
  <2>2. QED
    BY <2>1, <1>1, <1>2, <1>4, <1>5 DEF Linking, InTrans, Freeing
<1>11. pc[p] \notin Linking /\ pc'[p] \notin Linking
  BY <1>1, <1>5 DEF Linking
<1>12. QED
  BY <1>1, <1>4, <1>5, <1>6, <1>7, <1>8, <1>9, <1>10, <1>11, QuietStep

\* chdir: the new directory in, the old one out.
LEMMA ChdirLockStep ==
    ASSUME IInv, NEW p \in Proc, ChdirLock(p)
    PROVE  IInv'
<1>1. /\ pc[p] = "chdir" /\ Fields(ip[p], Inlk(ip[p]), Iadr(ip[p]))
      /\ UNCHANGED disk /\ UNCHANGED <<inum, ref, busy, rootbusy, trans, name, kind, file>>
  BY DEF ChdirLock, locks, args
<1>2. /\ TypeInv /\ LocalInv!(p) /\ ValidInv!(p) /\ FreeInv!(p) /\ LockInv /\ CopyInv
      /\ DiskType /\ TableType /\ ProcType
  BY DEF IInv, TypeInv, LocalInv, ValidInv, FreeInv
<1>3. /\ ip[p] \in Entry /\ ip[p] # Null /\ ref[ip[p]] > 0
  BY <1>1, IpIs DEF WithIp
<1>4. /\ CopyKept /\ CopyType' /\ valid' \in [Entry -> BOOLEAN] /\ valid'[ip[p]]
      /\ \A f \in Entry : valid[f] => valid'[f]
  BY <1>1, <1>3, ReadIs
<1>5. \/ /\ cwd' = [cwd EXCEPT ![p] = ip[p]] /\ ip' = [ip EXCEPT ![p] = cwd[p]]
         /\ pc' = [pc EXCEPT ![p] = IF cwd[p] = Null THEN "idle" ELSE "put"]
      \/ UNCHANGED <<ip, cwd>> /\ pc' = [pc EXCEPT ![p] = "put"]
  BY DEF ChdirLock, goto
<1>6. pc' \in [Proc -> PC \ {"panic"}] /\ ip' \in [Proc -> Entry \cup {Null}] /\ cwd' \in [Proc -> Entry \cup {Null}]
  BY <1>2, <1>5 DEF ProcType, PC
<1>7. /\ Others(p)
      /\ \/ pc'[p] = "idle" /\ cwd[p] = Null /\ ip'[p] = cwd[p] /\ cwd'[p] = ip[p]
         \/ pc'[p] = "put" /\ cwd[p] # Null /\ ip'[p] = cwd[p] /\ cwd'[p] = ip[p]
         \/ pc'[p] = "put" /\ ip'[p] = ip[p] /\ cwd'[p] = cwd[p]
  BY <1>1, <1>2, <1>5 DEF Others, ProcType
<1>8. TypeInv'
  <2>1. ProcType'
    BY <1>1, <1>2, <1>6 DEF ProcType
  <2>2. DiskType' /\ TableType'
    BY <1>1, <1>2, <1>4 DEF DiskType, TableType, disk
  <2>3. QED
    BY <1>4, <2>1, <2>2 DEF TypeInv
<1>9. LockInv'
  <2>1. \A e \in Entry : busy'[e] <=> busy[e]
    BY <1>1
  <2>2. pc'[p] \notin Locking /\ pc[p] \notin Locking
    BY <1>1, <1>7 DEF Locking
  <2>3. QED
    BY <1>2, <1>7, <2>1, <2>2, LockSame
<1>10. \A e \in Entry : Held(p, e)' = Held(p, e)
  BY <1>1, <1>7 DEF Held, One
<1>11. LocalInv!(p)'
  BY <1>1, <1>2, <1>3, <1>7 DEF InTrans, WithIp, Naming, Creating, Freeing
<1>12. ValidInv!(p)' /\ TransInv!(p)' /\ FreeInv!(p)'
  <2>1. dtype' = dtype /\ cwd[p] \in Entry \cup {Null} /\ file[p] \in Entry \cup {Null}
    BY <1>1, <1>2 DEF disk, ProcType, Freeing
  <2>2. QED
    BY <2>1, <1>1, <1>2, <1>4, <1>5, <1>7 DEF Linking, InTrans, Reading, Freeing
<1>13. pc[p] \notin Linking /\ pc'[p] \notin Linking
  BY <1>1, <1>7 DEF Linking
<1>14. QED
  BY <1>1, <1>4, <1>7, <1>8, <1>9, <1>10, <1>11, <1>12, <1>13, QuietStep

\* exec: the file is read and put, outside of a transaction.
LEMMA ExecLockStep ==
    ASSUME IInv, NEW p \in Proc, ExecLock(p)
    PROVE  IInv'
<1>1. /\ pc[p] = "exec"
      /\ Fields(ip[p], Inlk(ip[p]), Iadr(ip[p])) /\ pc' = [pc EXCEPT ![p] = "put"]
      /\ UNCHANGED disk /\ UNCHANGED <<inum, ref, busy, rootbusy, trans, name, kind, ip, file, cwd>>
  BY DEF ExecLock, goto, locks, args, fds
<1>2. QED
  BY <1>1, ReadPutStep

\* The calls that go on in their transaction with nothing done.
LEMMA GoOnStep ==
    ASSUME IInv, NEW p \in Proc, NEW to, goto(p, to), UNCHANGED disk, UNCHANGED icache,
           UNCHANGED <<rootbusy, trans, name, kind, ip, file, cwd>>,
           \/ pc[p] \in {"unlink", "write"} /\ to = "commit"
           \/ pc[p] = "linkdir" /\ to = "linkbad"
    PROVE  IInv'
<1>1. /\ pc' = [pc EXCEPT ![p] = to]
      /\ to \in PC \ {"panic"} /\ pc[p] \notin Locking /\ to \notin Locking
      /\ to \in Linking <=> pc[p] \in Linking
  BY DEF goto, PC, Locking, Linking
<1>2. /\ LocalInv!(p) /\ ValidInv!(p) /\ FreeInv!(p) /\ ProcType /\ TransInv!(p)
  BY DEF IInv, TypeInv, LocalInv, ValidInv, FreeInv, TransInv
<1>3. Others(p) /\ pc'[p] = to
  BY <1>1, <1>2 DEF Others, ProcType
<1>4. ProcType'
  BY <1>1, <1>2 DEF ProcType
<1>5. \A e \in Entry : Held(p, e)' = Held(p, e)
  BY DEF Held
<1>6. LocalInv!(p)'
  BY <1>1, <1>2, <1>3 DEF InTrans, WithIp, Naming, Creating
<1>7. UNCHANGED <<dtype, dnlink, dir, bitmap, inum, valid, ref>>
  BY DEF disk, icache
<1>8. ValidInv!(p)' /\ FreeInv!(p)' /\ TransInv!(p)'
  BY <1>2, <1>3, <1>7 DEF Reading, Linking, Freeing
<1>9. QED
  BY <1>1, <1>3, <1>4, <1>5, <1>6, <1>8, PlainStep

\* close: the pointer of the file is put in a transaction.
LEMMA CloseStep ==
    ASSUME IInv, NEW p \in Proc, Close(p)
    PROVE  IInv'
<1>1. /\ pc[p] = "idle" /\ file[p] # Null /\ trans = NoProc /\ trans' = p
      /\ ip' = [ip EXCEPT ![p] = file[p]] /\ file' = [file EXCEPT ![p] = Null]
      /\ pc' = [pc EXCEPT ![p] = "put"]
      /\ UNCHANGED disk /\ UNCHANGED icache /\ UNCHANGED <<rootbusy, name, kind, cwd>>
  BY DEF Close, begin_trans, goto, args
<1>2. /\ LocalInv!(p) /\ ValidInv!(p) /\ FreeInv!(p) /\ ProcType /\ NoProc \notin Proc
  BY Basics DEF IInv, TypeInv, LocalInv, ValidInv, FreeInv
<1>3. /\ Others(p) /\ pc'[p] = "put" /\ ip'[p] = file[p] /\ file'[p] = Null /\ ip[p] = Null
  BY <1>1, <1>2 DEF Others, ProcType, WithIp
<1>4. ProcType'
  BY <1>1, <1>2 DEF ProcType, PC
<1>5. \A e \in Entry : Held(p, e)' = Held(p, e)
  BY <1>1, <1>3 DEF Held, One
<1>6. LocalInv!(p)'
  BY <1>1, <1>2, <1>3 DEF InTrans, WithIp, Naming, Creating
<1>7. UNCHANGED <<dtype, inum, valid>>
  BY <1>1 DEF disk, icache
<1>8. ValidInv!(p)' /\ FreeInv!(p)' /\ TransInv!(p)'
  BY <1>1, <1>2, <1>3, <1>7 DEF Reading, Linking, Freeing
<1>9. pc[p] \notin Linking /\ pc'[p] \notin Linking /\ pc[p] \notin Locking /\ pc'[p] \notin Locking /\ trans # p
  BY <1>1, <1>2, <1>3 DEF Linking, Locking
<1>10. QED
  BY <1>1, <1>3, <1>4, <1>5, <1>6, <1>8, <1>9, PlainStep

\* exit and chdir("/"): the current directory is put outside of a transaction.
LEMMA LeaveCwdStep ==
    ASSUME IInv, NEW p \in Proc, LeaveCwd(p)
    PROVE  IInv'
<1>1. /\ pc[p] = "idle" /\ cwd[p] # Null
      /\ ip' = [ip EXCEPT ![p] = cwd[p]] /\ cwd' = [cwd EXCEPT ![p] = Null]
      /\ pc' = [pc EXCEPT ![p] = "put"]
      /\ UNCHANGED disk /\ UNCHANGED icache /\ UNCHANGED <<rootbusy, trans, name, kind, file>>
  BY DEF LeaveCwd, goto, args, locks
<1>2. /\ LocalInv!(p) /\ ValidInv!(p) /\ FreeInv!(p) /\ ProcType
  BY DEF IInv, TypeInv, LocalInv, ValidInv, FreeInv
<1>3. /\ Others(p) /\ pc'[p] = "put" /\ ip'[p] = cwd[p] /\ cwd'[p] = Null /\ ip[p] = Null
  BY <1>1, <1>2 DEF Others, ProcType, WithIp
<1>4. ProcType'
  BY <1>1, <1>2 DEF ProcType, PC
<1>5. \A e \in Entry : Held(p, e)' = Held(p, e)
  BY <1>1, <1>3 DEF Held, One
<1>6. LocalInv!(p)'
  BY <1>1, <1>2, <1>3 DEF InTrans, WithIp, Naming, Creating
<1>7. UNCHANGED <<dtype, inum, valid>>
  BY <1>1 DEF disk, icache
<1>8. ValidInv!(p)' /\ FreeInv!(p)' /\ TransInv!(p)'
  BY <1>1, <1>2, <1>3, <1>7 DEF Reading, Linking, Freeing
<1>9. pc[p] \notin Linking /\ pc'[p] \notin Linking /\ pc[p] \notin Locking /\ pc'[p] \notin Locking
  BY <1>1, <1>3 DEF Linking, Locking
<1>10. QED
  BY <1>1, <1>3, <1>4, <1>5, <1>6, <1>8, <1>9, PlainStep

\* iput of the last pointer to an i-node without links: nobody holds it locked.
Last(e) == ref[e] = 1 /\ valid[e] /\ nlink[e] = 0

LEMMA LastIs ==
    ASSUME IInv, NEW p \in Proc, pc[p] = "put", Last(ip[p])
    PROVE  ~busy[ip[p]] /\ dnlink[inum[ip[p]]] = 0
<1>1. /\ ip[p] \in Entry /\ ref[ip[p]] > 0 /\ PtrFacts
  BY IpIs DEF WithIp
<1>2. \A q \in Proc : ip[q] = ip[p] => q = p
  BY <1>1 DEF PtrFacts, Last
<1>3. ~busy[ip[p]]
  <2>1. \A e \in Entry : busy[e] <=> \E q \in Proc : pc[q] \in Locking /\ ip[q] = e
    BY DEF IInv, LockInv
  <2>2. QED
    BY <1>1, <1>2, <2>1 DEF Locking
<1>4. dnlink[inum[ip[p]]] = 0
  BY <1>1 DEF IInv, CopyInv, Last
<1>5. QED
  BY <1>3, <1>4

LEMMA IputLastStep ==
    ASSUME IInv, NEW p \in Proc, Iput(p), Last(ip[p])
    PROVE  IInv'
<1>1. /\ pc[p] = "put" /\ ~busy[ip[p]] /\ dnlink[inum[ip[p]]] = 0
  BY LastIs DEF Iput
<1>2. /\ busy' = [busy EXCEPT ![ip[p]] = TRUE] /\ pc' = [pc EXCEPT ![p] = "free"]
      /\ UNCHANGED disk
      /\ UNCHANGED <<inum, ref, valid, type, nlink, addrs, rootbusy, trans, name, kind, ip, file, cwd>>
  BY <1>1 DEF Iput, Last, goto, copy, locks, args, fds
<1>3. /\ TypeInv /\ LocalInv!(p) /\ ValidInv!(p) /\ FreeInv!(p) /\ LockInv /\ CopyInv
      /\ DiskType /\ TableType /\ CopyType /\ ProcType
  BY DEF IInv, TypeInv, LocalInv, ValidInv, FreeInv
<1>4. /\ ip[p] \in Entry /\ ip[p] # Null /\ ref[ip[p]] = 1 /\ valid[ip[p]]
  BY <1>1, IpIs DEF WithIp, Last
<1>5. CopyKept /\ (\A f \in Entry : valid[f] => valid'[f])
  BY <1>2, <1>3 DEF CopyInv, CopyKept
<1>6. Others(p) /\ pc'[p] = "free"
  BY <1>2, <1>3 DEF Others, ProcType
<1>7. TypeInv'
  <2>1. TableType'
    BY <1>2, <1>3, <1>4, FlagIs DEF TableType
  <2>2. DiskType' /\ ProcType' /\ CopyType'
    BY <1>2, <1>3 DEF DiskType, ProcType, CopyType, disk, PC
  <2>3. QED
    BY <2>1, <2>2 DEF TypeInv
<1>8. LockInv'
  BY <1>1, <1>2, <1>3, <1>4, <1>6, LockTake DEF Locking
<1>9. \A e \in Entry : Held(p, e)' = Held(p, e)
  BY <1>2 DEF Held
<1>10. LocalInv!(p)'
  BY <1>1, <1>2, <1>3, <1>4, <1>6 DEF InTrans, WithIp, Naming, Creating, Freeing
<1>11. UNCHANGED <<dtype, dnlink>>
  BY <1>2 DEF disk
<1>12. ValidInv!(p)' /\ TransInv!(p)' /\ FreeInv!(p)'
  BY <1>1, <1>2, <1>3, <1>4, <1>6, <1>11 DEF Linking, Reading, Freeing
<1>13. pc[p] \notin Linking /\ pc'[p] \notin Linking
  BY <1>1, <1>6 DEF Linking
<1>14. QED
  BY <1>1, <1>2, <1>5, <1>6, <1>7, <1>8, <1>9, <1>10, <1>12, <1>13, QuietStep

-----------------------------------------------------------------------------
\* A reference is dropped: the entry keeps its fields unless it was the last.
Drops(e) ==
    /\ ref'[e] = ref[e] - 1
    /\ \A f \in Entry \ {e} : ref'[f] = ref[f]
    /\ \A f \in Entry : f # e \/ ref[e] # 1 =>
        /\ inum'[f] = inum[f] /\ valid'[f] = valid[f]
        /\ type'[f] = type[f] /\ nlink'[f] = nlink[f] /\ addrs'[f] = addrs[f]

LEMMA DropIs ==
    ASSUME TypeInv, NEW e \in Entry, ref[e] > 0, drop(e)
    PROVE  /\ Drops(e) /\ CopyType' /\ ref' \in [Entry -> Nat] /\ valid' \in [Entry -> BOOLEAN]
           /\ inum' \in [Entry -> Inum \cup {Null}]
<1>1. TableType /\ CopyType
  BY DEF TypeInv
<1>2. ref' = [ref EXCEPT ![e] = ref[e] - 1] /\ ref[e] \in Nat
  BY <1>1 DEF drop, TableType
<1>3. ref' \in [Entry -> Nat] /\ ref'[e] = ref[e] - 1 /\ \A f \in Entry \ {e} : ref'[f] = ref[f]
  BY <1>1, <1>2 DEF TableType
<1>4. CASE ref[e] = 1
  <2>1. /\ inum' = [inum EXCEPT ![e] = Null] /\ valid' = [valid EXCEPT ![e] = FALSE]
        /\ type' = [type EXCEPT ![e] = "FREE"] /\ nlink' = [nlink EXCEPT ![e] = 0]
        /\ addrs' = [addrs EXCEPT ![e] = {}]
    BY <1>4 DEF drop
  <2>2. valid' \in [Entry -> BOOLEAN] /\ \A f \in Entry \ {e} : valid'[f] = valid[f]
    BY <1>1, <2>1, FlagIs DEF TableType
  <2>3. CopyType' /\ inum' \in [Entry -> Inum \cup {Null}]
    BY <1>1, <2>1 DEF CopyType, TableType, Type
  <2>4. \A f \in Entry \ {e} : /\ inum'[f] = inum[f]
                               /\ type'[f] = type[f] /\ nlink'[f] = nlink[f] /\ addrs'[f] = addrs[f]
    BY <1>1, <2>1 DEF CopyType, TableType
  <2>5. QED
    BY <1>3, <1>4, <2>2, <2>3, <2>4 DEF Drops
<1>5. CASE ref[e] # 1
  <2>1. UNCHANGED <<inum, valid, type, nlink, addrs>>
    BY <1>5 DEF drop
  <2>2. QED
    BY <1>1, <1>3, <2>1 DEF Drops, TableType, CopyType
<1>6. QED
  BY <1>4, <1>5

\* What a step that only drops the pointer of a call does to the table.
DropLeaves(p) ==
    /\ \A f \in Entry : ref'[f] > 0 =>
        /\ ref[f] > 0 /\ inum'[f] = inum[f] /\ valid'[f] = valid[f]
        /\ type'[f] = type[f] /\ nlink'[f] = nlink[f] /\ addrs'[f] = addrs[f]
    /\ \A f \in Entry : f # ip[p] => ref'[f] = ref[f] /\ inum'[f] = inum[f]
    /\ \A q \in Proc \ {p} : ip[q] # Null =>
        /\ ip[q] \in Entry /\ inum'[ip[q]] = inum[ip[q]] /\ valid'[ip[q]] = valid[ip[q]]
        /\ ref[ip[q]] = 1 => ref'[ip[q]] = 1
    /\ \A q \in Proc : cwd[q] # Null => cwd[q] \in Entry /\ inum'[cwd[q]] = inum[cwd[q]]

LEMMA DropTable ==
    ASSUME IInv, NEW p \in Proc, pc[p] \in {"put", "freed"}, drop(ip[p]),
           ip' = [ip EXCEPT ![p] = Null], UNCHANGED fds, Others(p), pc'[p] \notin Reading
    PROVE  RefInv' /\ ValidInv' /\ DropLeaves(p)
<1> DEFINE e == ip[p]
<1>1. /\ e \in Entry /\ e # Null /\ ref[e] > 0 /\ PtrFacts
  BY IpIs DEF WithIp
<1>2. TypeInv /\ RefInv /\ ValidInv /\ TableType /\ ProcType /\ LocalInv
  BY DEF IInv, TypeInv
<1>3. Drops(e)
  BY <1>1, <1>2, DropIs
<1>4. UNCHANGED <<file, cwd>> /\ ip'[p] = Null /\ \A q \in Proc \ {p} : ip'[q] = ip[q]
  BY <1>2 DEF fds, ProcType
<1>5. RefInv'
  <2>1. OnlyAt(Proc, ip, ip', p) /\ OnlyAt(Proc, file, file', p) /\ OnlyAt(Proc, cwd, cwd', p)
    BY <1>4 DEF OnlyAt
  <2>2. ASSUME NEW f \in Entry PROVE ref'[f] = ref[f] + Held(p, f)' - Held(p, f)
    <3>1. ref[f] \in Nat /\ ref'[f] = ref[f] - One(e, f) /\ f # Null
      BY <1>1, <1>2, <1>3, Basics DEF TableType, Drops, One
    <3>2. Held(p, f)' = 0 + One(file[p], f) + One(cwd[p], f)
      BY <1>4, <3>1 DEF Held, One
    <3>3. Held(p, f) = One(e, f) + One(file[p], f) + One(cwd[p], f)
      BY DEF Held
    <3>4. One(e, f) \in Nat /\ One(file[p], f) \in Nat /\ One(cwd[p], f) \in Nat
      BY DEF One
    <3>5. QED
      BY <3>1, <3>2, <3>3, <3>4
  <2>3. QED
    BY <1>2, <2>1, <2>2, RefStep
<1>6. ASSUME NEW q \in Proc, NEW f \in Entry, (q # p /\ ip[q] = f) \/ file[q] = f \/ cwd[q] = f
      PROVE  f # e \/ ref[e] # 1
  BY <1>1, <1>6 DEF PtrFacts
<1>7. /\ \A q \in Proc : file[q] # Null => file[q] \in Entry
      /\ \A q \in Proc : cwd[q] # Null => cwd[q] \in Entry
      /\ \A q \in Proc : ip[q] # Null => ip[q] \in Entry
  BY <1>2 DEF ProcType
<1>8. DropLeaves(p)
  <2>1. ASSUME NEW f \in Entry, ref'[f] > 0
        PROVE  /\ ref[f] > 0 /\ inum'[f] = inum[f] /\ valid'[f] = valid[f]
               /\ type'[f] = type[f] /\ nlink'[f] = nlink[f] /\ addrs'[f] = addrs[f]
    <3>1. f # e \/ ref[e] # 1
      BY <1>1, <1>2, <1>3, <2>1 DEF Drops, TableType
    <3>2. QED
      BY <1>1, <1>2, <1>3, <2>1, <3>1 DEF Drops
  <2>2. \A f \in Entry : f # e => ref'[f] = ref[f] /\ inum'[f] = inum[f]
    BY <1>3 DEF Drops
  <2>3. ASSUME NEW q \in Proc \ {p}, ip[q] # Null
        PROVE  /\ ip[q] \in Entry /\ inum'[ip[q]] = inum[ip[q]] /\ valid'[ip[q]] = valid[ip[q]]
               /\ ref[ip[q]] = 1 => ref'[ip[q]] = 1
    <3>1. ip[q] \in Entry /\ (ip[q] # e \/ ref[e] # 1)
      BY <1>6, <1>7, <2>3
    <3>2. QED
      BY <1>3, <3>1 DEF Drops
  <2>4. ASSUME NEW q \in Proc, cwd[q] # Null
        PROVE  cwd[q] \in Entry /\ inum'[cwd[q]] = inum[cwd[q]]
    <3>1. cwd[q] \in Entry /\ (cwd[q] # e \/ ref[e] # 1)
      BY <1>6, <1>7, <2>4
    <3>2. QED
      BY <1>3, <3>1 DEF Drops
  <2>5. QED
    BY <2>1, <2>2, <2>3, <2>4 DEF DropLeaves
<1>9. ValidInv'
  <2> SUFFICES ASSUME NEW q \in Proc PROVE ValidInv!(q)'
    BY DEF ValidInv
  <2>1. ValidInv!(q)
    BY <1>2 DEF ValidInv
  <2>2. ASSUME NEW f \in Entry, (q # p /\ ip[q] = f) \/ file[q] = f \/ cwd[q] = f
        PROVE  valid'[f] = valid[f]
    BY <1>3, <1>6, <2>2 DEF Drops
  <2>3. (file[q] # Null => valid'[file[q]]) /\ (cwd[q] # Null => valid'[cwd[q]])
    BY <1>7, <2>1, <2>2
  <2>4. pc'[q] \in Reading => valid'[ip'[q]]
    <3>1. CASE q = p
      BY <3>1
    <3>2. CASE q # p
      <4>1. pc[q] \in Reading => ip[q] \in Entry
        BY <1>2, <1>7 DEF LocalInv, Reading, WithIp
      <4>2. QED
        BY <3>2, <4>1, <2>1, <2>2, <1>4 DEF Others
    <3>3. QED
      BY <3>1, <3>2
  <2>5. QED
    BY <1>4, <2>3, <2>4
<1>10. QED
  BY <1>5, <1>8, <1>9

\* iput of a pointer that is not the last one, or to an i-node with a link.
LEMMA IputDropStep ==
    ASSUME IInv, NEW p \in Proc, Iput(p), ~Last(ip[p])
    PROVE  IInv'
<1> DEFINE e == ip[p]
<1>1. /\ pc[p] = "put" /\ drop(e) /\ ip' = [ip EXCEPT ![p] = Null]
      /\ pc' = [pc EXCEPT ![p] = IF trans = p THEN "commit" ELSE "idle"]
      /\ UNCHANGED disk /\ UNCHANGED fds /\ UNCHANGED <<busy, rootbusy, trans, name, kind, file, cwd>>
  BY DEF Iput, Last, goto, locks, args, fds
<1>2. /\ TypeInv /\ LocalInv /\ EntryInv /\ LockInv /\ CopyInv /\ ValidInv /\ DirInv /\ LinkInv
      /\ RootInv /\ BlockInv /\ FreeInv /\ DiskType /\ TableType /\ ProcType
  BY DEF IInv, TypeInv
<1>3. /\ e \in Entry /\ e # Null /\ ref[e] > 0 /\ inum[e] \in Inum
  BY <1>1, IpIs DEF WithIp
<1>4. /\ Others(p) /\ pc'[p] = (IF trans = p THEN "commit" ELSE "idle") /\ ip'[p] = Null
  BY <1>1, <1>2 DEF Others, ProcType
<1>5. RefInv' /\ ValidInv' /\ DropLeaves(p)
  <2>1. pc'[p] \notin Reading /\ pc[p] \in {"put", "freed"}
    BY <1>1, <1>4 DEF Reading
  <2>2. QED
    BY <1>1, <1>4, <2>1, DropTable
<1>6. TypeInv'
  <2>1. /\ CopyType' /\ ref' \in [Entry -> Nat] /\ valid' \in [Entry -> BOOLEAN]
        /\ inum' \in [Entry -> Inum \cup {Null}]
    BY <1>1, <1>2, <1>3, DropIs
  <2>2. DiskType' /\ ProcType'
    BY <1>1, <1>2 DEF DiskType, ProcType, disk, PC
  <2>3. QED
    BY <1>1, <1>2, <2>1, <2>2 DEF TypeInv, TableType
<1>7. UNCHANGED <<dtype, dnlink, daddrs, dir, rootnlink, bitmap>>
  BY <1>1 DEF disk
<1>8. EntryInv' /\ CopyInv'
  BY <1>2, <1>5, <1>7 DEF EntryInv, CopyInv, DropLeaves
<1>9. LockInv'
  <2>1. \A f \in Entry : busy'[f] <=> busy[f]
    BY <1>1
  <2>2. pc'[p] \notin Locking /\ pc[p] \notin Locking
    BY <1>1, <1>4 DEF Locking
  <2>3. QED
    BY <1>2, <1>4, <2>1, <2>2, LockSame
<1>10. LocalInv'
  <2>1. LocalInv!(p) /\ LocalInv!(p)'
    BY <1>1, <1>2, <1>4 DEF LocalInv, InTrans, WithIp, Naming, Creating
  <2>2. QED
    BY <1>2, <1>4, <2>1, LocalFrame
<1>11. DirInv' /\ RootInv' /\ BlockInv'
  BY <1>1, <1>2, DiskFrame
<1>12. ref[e] = 1 => dnlink[inum[e]] # 0
  <2>1. valid[e]
    BY <1>1, <1>2 DEF ValidInv, Reading
  <2>2. nlink[e] = dnlink[inum[e]]
    BY <1>2, <1>3, <2>1 DEF CopyInv
  <2>3. QED
    BY <2>1, <2>2 DEF Last
<1>13. \A f \in Entry : ref[f] > 0 /\ dnlink[inum[f]] = 0 => ref'[f] > 0 /\ inum'[f] = inum[f]
  <2> SUFFICES ASSUME NEW f \in Entry, ref[f] > 0, dnlink[inum[f]] = 0 PROVE ref'[f] > 0 /\ inum'[f] = inum[f]
    OBVIOUS
  <2>1. Drops(e)
    BY <1>1, <1>2, <1>3, DropIs
  <2>2. f # e \/ ref[e] # 1
    BY <1>12
  <2>3. QED
    BY <1>2, <2>1, <2>2 DEF Drops, TableType
<1>14. LinkInv'
  <2>1. \A q \in Proc : pc'[q] \in Linking <=> pc[q] \in Linking
    BY <1>1, <1>4 DEF Others, Linking
  <2>2. \A q \in Proc : pc[q] \in Linking => ip'[q] = ip[q] /\ inum'[ip[q]] = inum[ip[q]]
    <3>1. \A q \in Proc : pc[q] \in Linking => q # p /\ ip[q] # Null
      BY <1>1, <1>2 DEF LocalInv, Linking, WithIp
    <3>2. QED
      BY <1>4, <1>5, <3>1 DEF Others, DropLeaves
  <2>3. UNCHANGED <<dtype, dnlink, dir>>
    BY <1>7
  <2>4. QED
    BY <1>2, <1>13, <2>1, <2>2, <2>3, LinkFrame
<1>15. TransInv'
  <2>1. /\ pc'[p] \notin Relying
        /\ \A q \in Proc \ {p} : pc'[q] = pc[q] /\ name'[q] = name[q] /\ kind'[q] = kind[q] /\ ip'[q] = ip[q]
    BY <1>4 DEF Relying, Others
  <2>2. \A q \in Proc \ {p} : pc[q] \in InTrans /\ ip[q] # Null => inum'[ip[q]] = inum[ip[q]]
    BY <1>5 DEF DropLeaves
  <2>3. QED
    BY <1>1, <2>1, <2>2, TransFrame
<1>16. FreeInv'
  <2>1. FreeInv!(p)' /\ \A q \in Proc \ {p} : pc'[q] = pc[q] /\ ip'[q] = ip[q]
    BY <1>4 DEF Freeing, Others
  <2>2. ASSUME NEW q \in Proc \ {p}, pc[q] \in Freeing PROVE FreeKept(q)
    <3>1. ip[q] # Null /\ ref[ip[q]] = 1
      BY <2>2, FreeIs
    <3>2. QED
      BY <1>5, <1>7, <3>1 DEF DropLeaves, FreeKept
  <2>3. QED
    BY <1>2, <2>1, <2>2, FreeFrame
<1>17. QED
  BY <1>5, <1>6, <1>8, <1>9, <1>10, <1>11, <1>14, <1>15, <1>16 DEF IInv

-----------------------------------------------------------------------------
\* A process in a transaction: no other call relies on the disk.
LEMMA TransAlone ==
    ASSUME LocalInv, NEW p \in Proc, trans = p, Others(p), TransInv!(p)'
    PROVE  TransInv'
<1> SUFFICES ASSUME NEW q \in Proc, q # p PROVE TransInv!(q)'
  BY DEF TransInv
<1>1. pc'[q] = pc[q] /\ pc[q] \notin InTrans
  BY DEF Others, LocalInv
<1>2. QED
  BY <1>1 DEF InTrans, Linking

LEMMA LinkAlone ==
    ASSUME LocalInv, NEW p \in Proc, trans = p, Others(p)
    PROVE  /\ \A q \in Proc : pc[q] \in Linking => q = p
           /\ \A q \in Proc : pc'[q] \in Linking => q = p
           /\ \A i \in Inum : Extra(i) = IF pc[p] \in Linking /\ inum[ip[p]] = i THEN 1 ELSE 0
           /\ \A i \in Inum : Extra(i)' = IF pc'[p] \in Linking /\ inum'[ip'[p]] = i THEN 1 ELSE 0
<1>1. \A q \in Proc : pc[q] \in Linking => q = p
  BY DEF LocalInv, InTrans, Linking
<1>2. \A q \in Proc : pc'[q] \in Linking => q = p
  BY <1>1 DEF Others
<1>3. QED
  BY <1>1, <1>2 DEF Extra

LEMMA ExtraIs ==
    \A i \in Inum : Extra(i) \in {0, 1}
BY DEF Extra

\* What the other calls rely on, when a step of p changes the i-node that p frees:
\* none of them points to it.
LEMMA FreeOthers ==
    ASSUME IInv, NEW p \in Proc, pc[p] \in Freeing, Others(p), TransInv!(p)', FreeInv!(p)',
           UNCHANGED <<dnlink, dir>>, bitmap' \in SUBSET bitmap, Unallocated \in SUBSET Unallocated',
           \A j \in Inum \ {inum[ip[p]]} : dtype'[j] = dtype[j] /\ daddrs'[j] = daddrs[j],
           \A f \in Entry \ {ip[p]} : ref'[f] = ref[f] /\ inum'[f] = inum[f]
    PROVE  TransInv' /\ FreeInv'
<1> DEFINE e == ip[p]
<1> DEFINE i == inum[e]
<1>1. /\ \A q \in Proc : ip[q] = e => q = p
      /\ \A f \in Entry : ref[f] > 0 /\ f # e => inum[f] # i
  BY FreeIs
<1>2. ASSUME NEW q \in Proc \ {p}, pc[q] \in WithIp
      PROVE  /\ ref'[ip[q]] = ref[ip[q]] /\ inum'[ip[q]] = inum[ip[q]] /\ inum[ip[q]] \in Inum
             /\ dtype'[inum[ip[q]]] = dtype[inum[ip[q]]] /\ daddrs'[inum[ip[q]]] = daddrs[inum[ip[q]]]
  <2>1. ip[q] \in Entry /\ ref[ip[q]] > 0 /\ inum[ip[q]] \in Inum
    BY <1>2, IpIs
  <2>2. ip[q] # e /\ inum[ip[q]] # i
    BY <1>1, <2>1
  <2> HIDE DEF e, i
  <2>3. QED
    BY <2>1, <2>2 DEF e, i
<1>3. TransInv'
  <2> SUFFICES ASSUME NEW q \in Proc, q # p PROVE TransInv!(q)'
    BY DEF TransInv
  <2>1. TransInv!(q)
    BY DEF IInv, TransInv
  <2>2. pc'[q] = pc[q] /\ name'[q] = name[q] /\ kind'[q] = kind[q] /\ ip'[q] = ip[q]
    BY DEF Others
  <2>3. pc[q] \in {"createnew", "linkdir", "linkbad", "created", "unlinkold"} =>
            inum'[ip[q]] = inum[ip[q]] /\ dtype'[inum[ip[q]]] = dtype[inum[ip[q]]]
    BY <1>2 DEF WithIp
  <2>4. Unallocated # {} => Unallocated' # {}
    OBVIOUS
  <2>5. Block \ bitmap # {} => Block \ bitmap' # {}
    OBVIOUS
  <2>6. QED
    BY <2>1, <2>2, <2>3, <2>4, <2>5 DEF Linking
<1>4. FreeInv'
  <2>1. \A q \in Proc \ {p} : pc[q] \in Freeing => FreeKept(q)
    BY <1>2 DEF Freeing, WithIp, FreeKept
  <2>2. FreeInv /\ \A q \in Proc \ {p} : pc'[q] = pc[q] /\ ip'[q] = ip[q]
    BY DEF IInv, Others
  <2>3. QED
    BY <2>1, <2>2, FreeFrame
<1>5. QED
  BY <1>3, <1>4

\* log_write panics without a transaction: nothing else changes.
LEMMA LogPanicStep ==
    ASSUME IInv, NEW p \in Proc, pc[p] \in Freeing, LogPanic(p), UNCHANGED <<locks, args, fds>>
    PROVE  IInv'
<1>1. /\ trans = NoProc /\ pc' = [pc EXCEPT ![p] = "logpanic"]
      /\ UNCHANGED disk /\ UNCHANGED icache /\ UNCHANGED <<rootbusy, trans, name, kind, ip, file, cwd>>
  BY DEF LogPanic, goto, locks, args, fds
<1>2. LocalInv!(p) /\ ValidInv!(p) /\ ProcType /\ NoProc \notin Proc
  BY Basics DEF IInv, TypeInv, LocalInv, ValidInv
<1>3. Others(p) /\ pc'[p] = "logpanic"
  BY <1>1, <1>2 DEF Others, ProcType
<1>4. ProcType'
  BY <1>1, <1>2 DEF ProcType, PC
<1>5. \A e \in Entry : Held(p, e)' = Held(p, e)
  BY <1>1 DEF Held
<1>6. LocalInv!(p)'
  BY <1>1, <1>2, <1>3 DEF InTrans, WithIp, Naming, Creating, Freeing
<1>7. valid' = valid
  BY <1>1 DEF icache
<1>8. ValidInv!(p)' /\ TransInv!(p)' /\ FreeInv!(p)'
  BY <1>1, <1>2, <1>3, <1>7 DEF Linking, Reading, Freeing
<1>9. /\ pc[p] \notin Linking /\ pc'[p] \notin Linking /\ pc[p] \in Locking /\ pc'[p] \in Locking
      /\ ip'[p] = ip[p]
  BY <1>1, <1>3 DEF Linking, Locking, Freeing
<1>10. QED
  BY <1>1, <1>3, <1>4, <1>5, <1>6, <1>8, <1>9, PlainStep

\* itrunc: the blocks of the i-node are free again.
LEMMA IputTruncStep ==
    ASSUME IInv, NEW p \in Proc, IputTrunc(p)
    PROVE  IInv'
<1> DEFINE e == ip[p]
<1> DEFINE i == inum[e]
<1>0. pc[p] = "free" /\ pc[p] \in Freeing
  BY DEF IputTrunc, Freeing
<1>1. CASE LogPanic(p)
  BY <1>0, <1>1, LogPanicStep DEF IputTrunc
<1>2. CASE ~LogPanic(p)
  <2>1. /\ e \in Entry /\ e # Null /\ i \in Inum /\ ref[e] = 1 /\ dnlink[i] = 0 /\ addrs[e] = daddrs[i]
        /\ dtype[i] # "FREE" /\ valid[e]
        /\ \A f \in Entry : ref[f] > 0 /\ f # e => inum[f] # i
    BY <1>0, FreeIs
  <2>2. /\ bitmap' = bitmap \ daddrs[i] /\ daddrs' = [daddrs EXCEPT ![i] = {}]
        /\ addrs' = [addrs EXCEPT ![e] = {}] /\ pc' = [pc EXCEPT ![p] = "freed"]
        /\ UNCHANGED <<dtype, dnlink, dir, rootnlink, inum, ref, busy, valid, type, nlink, ip>>
        /\ UNCHANGED <<rootbusy, trans, name, kind, file, cwd>>
    BY <1>2, <2>1 DEF IputTrunc, goto, locks, args, fds
  <2>3. /\ TypeInv /\ LocalInv /\ RefInv /\ EntryInv /\ LockInv /\ CopyInv /\ ValidInv /\ DirInv /\ LinkInv
        /\ RootInv /\ BlockInv /\ FreeInv /\ DiskType /\ TableType /\ CopyType /\ ProcType
    BY DEF IInv, TypeInv
  <2>4. Others(p) /\ pc'[p] = "freed"
    BY <2>2, <2>3 DEF Others, ProcType
  <2>5. daddrs'[i] = {} /\ \A j \in Inum \ {i} : daddrs'[j] = daddrs[j]
    BY <2>1, <2>2, <2>3 DEF DiskType
  <2>6. addrs'[e] = {} /\ \A f \in Entry \ {e} : addrs'[f] = addrs[f]
    BY <2>1, <2>2, <2>3 DEF CopyType
  <2>7. TypeInv'
    <3>1. DiskType'
      BY <2>1, <2>2, <2>3 DEF DiskType
    <3>2. TableType' /\ CopyType'
      BY <2>1, <2>2, <2>3 DEF TableType, CopyType
    <3>3. ProcType'
      BY <2>2, <2>3 DEF ProcType, PC
    <3>4. QED
      BY <3>1, <3>2, <3>3 DEF TypeInv
  <2>8. RefInv' /\ EntryInv'
    BY <2>2, <2>3 DEF RefInv, EntryInv, Pointers
  <2>9. LockInv'
    <3>1. \A f \in Entry : busy'[f] <=> busy[f]
      BY <2>2
    <3>2. pc'[p] \in Locking /\ pc[p] \in Locking /\ ip'[p] = ip[p]
      BY <1>0, <2>2, <2>4 DEF Locking
    <3>3. QED
      BY <2>3, <2>4, <3>1, <3>2, LockSame
  <2>10. CopyInv'
    <3> SUFFICES ASSUME NEW f \in Entry, ref[f] > 0, valid[f]
                 PROVE  type[f] = dtype[inum[f]] /\ nlink[f] = dnlink[inum[f]] /\ addrs'[f] = daddrs'[inum[f]]
      BY <2>2 DEF CopyInv
    <3>1. type[f] = dtype[inum[f]] /\ nlink[f] = dnlink[inum[f]] /\ addrs[f] = daddrs[inum[f]] /\ inum[f] \in Inum
      BY <2>3 DEF CopyInv, EntryInv
    <3>2. QED
      BY <2>1, <2>5, <2>6, <3>1
  <2>11. LocalInv'
    <3>1. LocalInv!(p) /\ LocalInv!(p)'
      BY <1>0, <2>2, <2>3, <2>4 DEF LocalInv, InTrans, WithIp, Naming, Creating, Freeing
    <3>2. QED
      BY <2>3, <2>4, <3>1, LocalFrame
  <2>12. ValidInv'
    <3>1. \A q \in Proc : pc'[q] \in Reading => pc[q] \in Reading
      BY <1>0, <2>4 DEF Others, Reading
    <3>2. QED
      BY <2>2, <2>3, <3>1 DEF ValidInv
  <2>13. DirInv' /\ RootInv'
    <3>1. NamedDirs' = NamedDirs
      BY <2>2 DEF NamedDirs
    <3>2. QED
      BY <2>2, <2>3, <3>1 DEF DirInv, RootInv
  <2>14. LinkInv'
    <3>1. \A q \in Proc : pc'[q] \in Linking <=> pc[q] \in Linking
      BY <1>0, <2>4 DEF Others, Linking
    <3>2. /\ \A q \in Proc : pc[q] \in Linking => ip'[q] = ip[q] /\ inum'[ip[q]] = inum[ip[q]]
          /\ \A f \in Entry : ref[f] > 0 /\ dnlink[inum[f]] = 0 => ref'[f] > 0 /\ inum'[f] = inum[f]
          /\ UNCHANGED <<dtype, dnlink, dir>>
      BY <2>2
    <3>3. QED
      BY <2>3, <3>1, <3>2, LinkFrame
  <2>15. BlockInv'
    <3>1. UNION {daddrs'[j] : j \in Inum} = (UNION {daddrs[j] : j \in Inum}) \ daddrs[i]
      BY <2>1, <2>3, <2>5 DEF BlockInv
    <3>2. QED
      BY <2>2, <2>3, <2>5, <3>1 DEF BlockInv
  <2>16. TransInv' /\ FreeInv'
    <3>1. TransInv!(p)' /\ FreeInv!(p)'
      BY <2>1, <2>2, <2>4, <2>5 DEF Linking, Freeing
    <3>2. bitmap' \in SUBSET bitmap /\ Unallocated \in SUBSET Unallocated'
      BY <2>2 DEF Unallocated
    <3>3. /\ \A j \in Inum \ {i} : dtype'[j] = dtype[j] /\ daddrs'[j] = daddrs[j]
          /\ \A f \in Entry \ {e} : ref'[f] = ref[f] /\ inum'[f] = inum[f]
          /\ UNCHANGED <<dnlink, dir>>
      BY <2>2, <2>5
    <3>4. QED
      BY <1>0, <2>4, <3>1, <3>2, <3>3, FreeOthers
  <2>17. QED
    BY <2>7, <2>8, <2>9, <2>10, <2>11, <2>12, <2>13, <2>14, <2>15, <2>16 DEF IInv
<1>3. QED
  BY <1>1, <1>2

LEMMA IputFreeStep ==
    ASSUME IInv, NEW p \in Proc, IputFree(p)
    PROVE  IInv'
<1> DEFINE e == ip[p]
<1> DEFINE i == inum[e]
<1>0. pc[p] = "freed" /\ pc[p] \in Freeing
  BY DEF IputFree, Freeing
<1>1. CASE LogPanic(p)
  BY <1>0, <1>1, LogPanicStep DEF IputFree
<1>2. CASE ~LogPanic(p)
  <2>1. /\ e \in Entry /\ e # Null /\ i \in Inum /\ ref[e] = 1 /\ dnlink[i] = 0
        /\ \A n \in Name : dir[n] # i
        /\ \A q \in Proc : (ip[q] = e => q = p) /\ file[q] # e /\ cwd[q] # e
        /\ \A f \in Entry : ref[f] > 0 /\ f # e => inum[f] # i
    BY <1>0, FreeIs
  <2>2. /\ drop(e) /\ ip' = [ip EXCEPT ![p] = Null]
        /\ pc' = [pc EXCEPT ![p] = IF trans = p THEN "commit" ELSE "idle"]
        /\ dtype' = [dtype EXCEPT ![i] = "FREE"] /\ busy' = [busy EXCEPT ![e] = FALSE]
        /\ UNCHANGED fds
        /\ UNCHANGED <<dnlink, daddrs, dir, rootnlink, bitmap, rootbusy, trans, name, kind, file, cwd>>
    BY <1>2 DEF IputFree, goto, locks, args, fds
  <2>3. /\ TypeInv /\ LocalInv /\ EntryInv /\ LockInv /\ CopyInv /\ ValidInv /\ DirInv /\ LinkInv
        /\ RootInv /\ BlockInv /\ FreeInv /\ DiskType /\ TableType /\ ProcType
    BY DEF IInv, TypeInv
  <2>4. daddrs[i] = {}
    BY <1>0, <2>3 DEF FreeInv
  <2>5. Others(p) /\ pc'[p] = (IF trans = p THEN "commit" ELSE "idle") /\ ip'[p] = Null
    BY <2>2, <2>3 DEF Others, ProcType
  <2>6. RefInv' /\ ValidInv' /\ DropLeaves(p) /\ Drops(e)
    <3>1. pc'[p] \notin Reading /\ pc[p] \in {"put", "freed"}
      BY <1>0, <2>5 DEF Reading
    <3>2. ref[e] > 0
      BY <2>1
    <3>3. QED
      BY <2>1, <2>2, <2>3, <2>5, <3>1, <3>2, DropTable, DropIs
  <2>7. TypeInv'
    <3>1. /\ CopyType' /\ ref' \in [Entry -> Nat] /\ valid' \in [Entry -> BOOLEAN]
          /\ inum' \in [Entry -> Inum \cup {Null}]
      BY <2>1, <2>2, <2>3, DropIs
    <3>2. DiskType'
      BY <2>1, <2>2, <2>3 DEF DiskType, Type
    <3>3. ProcType'
      BY <2>2, <2>3 DEF ProcType, PC
    <3>4. busy' \in [Entry -> BOOLEAN]
      BY <2>1, <2>2, <2>3, FlagIs DEF TableType
    <3>5. QED
      BY <3>1, <3>2, <3>3, <3>4 DEF TypeInv, TableType
  <2>8. dtype'[i] = "FREE" /\ \A j \in Inum \ {i} : dtype'[j] = dtype[j]
    BY <2>1, <2>2, <2>3 DEF DiskType
  <2>9. \A f \in Entry : ref'[f] > 0 =>
            f # e /\ ref'[f] = ref[f] /\ inum'[f] = inum[f] /\ inum[f] # i /\ inum[f] \in Inum
    <3>1. ref'[e] = 0
      BY <2>1, <2>6 DEF Drops
    <3>2. QED
      BY <2>1, <2>3, <2>6, <3>1 DEF Drops, EntryInv
  <2>10. EntryInv' /\ CopyInv'
    <3>1. EntryInv'
      BY <2>3, <2>8, <2>9 DEF EntryInv
    <3>2. CopyInv'
      BY <2>2, <2>3, <2>6, <2>8, <2>9 DEF CopyInv, DropLeaves
    <3>3. QED
      BY <3>1, <3>2
  <2>11. LockInv'
    <3>1. pc[p] \in Locking /\ pc'[p] \notin Locking
      BY <1>0, <2>5 DEF Locking
    <3>2. QED
      BY <2>1, <2>2, <2>3, <2>5, <3>1, LockDrop
  <2>12. LocalInv'
    <3>1. LocalInv!(p) /\ LocalInv!(p)'
      BY <1>0, <2>2, <2>3, <2>5 DEF LocalInv, InTrans, WithIp, Naming, Creating, Freeing
    <3>2. QED
      BY <2>3, <2>5, <3>1, LocalFrame
  <2>13. DirInv'
    <3>1. \A n \in Name : dir[n] # Null => dir[n] \in Inum \ {i}
      BY <2>1, <2>3 DEF DiskType
    <3>2. QED
      BY <2>2, <2>3, <2>8, <3>1 DEF DirInv
  <2>14. RootInv'
    <3>1. NamedDirs' = NamedDirs
      BY <2>1, <2>2, <2>8 DEF NamedDirs
    <3>2. QED
      BY <2>2, <2>3, <3>1 DEF RootInv
  <2>15. BlockInv'
    BY <2>2, <2>3, <2>4, <2>8 DEF BlockInv
  <2>16. LinkInv'
    <3> SUFFICES ASSUME NEW j \in Inum, dtype'[j] # "FREE"
                 PROVE  /\ dnlink[j] = Count(Name, dir, j) + Extra(j)'
                        /\ dnlink[j] = 0 => \E f \in Entry : ref'[f] > 0 /\ inum'[f] = j
      BY <2>2 DEF LinkInv, Count
    <3>1. j # i /\ dtype[j] # "FREE"
      BY <2>8
    <3>2. Extra(j)' = Extra(j)
      <4>1. \A q \in Proc : pc'[q] \in Linking <=> pc[q] \in Linking
        BY <1>0, <2>5 DEF Others, Linking
      <4>2. \A q \in Proc : pc[q] \in Linking => q # p /\ ip[q] # Null
        BY <1>0, <2>3 DEF LocalInv, Linking, WithIp
      <4>3. \A q \in Proc : pc[q] \in Linking => ip'[q] = ip[q] /\ inum'[ip[q]] = inum[ip[q]]
        BY <2>5, <2>6, <4>2 DEF Others, DropLeaves
      <4>4. QED
        BY <4>1, <4>3 DEF Extra
    <3>3. ASSUME NEW f \in Entry, ref[f] > 0, inum[f] = j PROVE ref'[f] > 0 /\ inum'[f] = j
      BY <2>6, <3>1, <3>3 DEF Drops
    <3>4. QED
      BY <2>3, <3>1, <3>2, <3>3 DEF LinkInv
  <2>17. TransInv' /\ FreeInv'
    <3>1. TransInv!(p)' /\ FreeInv!(p)'
      BY <2>5 DEF Linking, Freeing
    <3>2. bitmap' \in SUBSET bitmap /\ Unallocated \in SUBSET Unallocated'
      BY <2>2, <2>8 DEF Unallocated
    <3>3. /\ \A j \in Inum \ {i} : dtype'[j] = dtype[j] /\ daddrs'[j] = daddrs[j]
          /\ \A f \in Entry \ {e} : ref'[f] = ref[f] /\ inum'[f] = inum[f]
          /\ UNCHANGED <<dnlink, dir>>
      BY <2>2, <2>6, <2>8 DEF DropLeaves
    <3>4. QED
      BY <1>0, <2>5, <3>1, <3>2, <3>3, FreeOthers
  <2>18. QED
    BY <2>6, <2>7, <2>10, <2>11, <2>12, <2>13, <2>14, <2>15, <2>16, <2>17 DEF IInv
<1>3. QED
  BY <1>1, <1>2

-----------------------------------------------------------------------------
\* iget in a transaction: create of an old name, and unlink.
LEMMA GetInTransStep ==
    ASSUME IInv, NEW p \in Proc, NEW to \in {"createold", "unlinkold"},
           pc[p] = IF to = "createold" THEN "create" ELSE "unlink",
           dir[name[p]] # Null, iget(p, dir[name[p]]), goto(p, to),
           rootbusy' \in Proc \cup {NoProc}, UNCHANGED <<disk, copy, fds>>, UNCHANGED <<trans, name, kind>>
    PROVE  IInv'
<1> DEFINE n == name[p]
<1> DEFINE i == dir[n]
<1>1. TypeInv /\ ProcType /\ LocalInv /\ LocalInv!(p) /\ DirInv /\ LinkInv /\ TransInv!(p) /\ EntryInv
  BY DEF IInv, TypeInv, LocalInv, TransInv
<1>2. n \in Name /\ ip[p] = Null /\ trans = p
  BY <1>1 DEF Naming, WithIp, InTrans
<1>3. i \in Inum /\ dtype[i] # "FREE" /\ dnlink[i] > 0
  BY <1>1, <1>2, NamedIs
<1>4. PICK e \in Entry : Gets(p, i, e)
  BY <1>1, <1>3, IgetIs
<1>5. /\ TypeInv' /\ RefInv' /\ EntryInv' /\ LockInv' /\ CopyInv' /\ ValidInv'
      /\ DirInv' /\ LinkInv' /\ RootInv' /\ BlockInv' /\ FreeInv'
  <2>1. name' \in [Proc -> Name \cup {NoName}]
    BY <1>1 DEF ProcType
  <2>2. QED
    BY <1>2, <1>3, <1>4, <2>1, GetNamed
<1>6. GetFacts(p, i, e)
  BY <1>1, <1>3, <1>4, GetsIs
<1>7. UNCHANGED <<file, cwd, dtype, dnlink, dir>> /\ pc' = [pc EXCEPT ![p] = to]
  BY DEF fds, disk, goto
<1>8. Others(p) /\ pc'[p] = to /\ ip'[p] = e /\ ip'[p] # Null
  BY <1>1, <1>6, <1>7, Basics DEF Others, GetFacts, ProcType
<1>9. LocalInv'
  <2>1. LocalInv!(p)'
    BY <1>1, <1>2, <1>7, <1>8 DEF InTrans, WithIp, Naming, Creating
  <2>2. QED
    BY <1>1, <1>8, <2>1, LocalFrame
<1>10. TransInv'
  <2>1. inum'[e] = i
    BY <1>6 DEF GetFacts
  <2>2. TransInv!(p)'
    BY <1>7, <1>8, <2>1 DEF Linking
  <2>3. QED
    BY <1>1, <1>2, <1>8, <2>2, TransAlone
<1>11. QED
  BY <1>5, <1>9, <1>10 DEF IInv

LEMMA CreateOldStep ==
    ASSUME IInv, NEW p \in Proc, CreateOld(p)
    PROVE  IInv'
<1>1. /\ pc[p] = "create" /\ dir[name[p]] # Null /\ iget(p, dir[name[p]]) /\ goto(p, "createold")
      /\ UNCHANGED <<disk, copy, fds>> /\ UNCHANGED <<trans, name, kind>> /\ rootbusy' = rootbusy
  BY DEF CreateOld, dirlookup, locks, args
<1>2. rootbusy \in Proc \cup {NoProc}
  BY DEF IInv, TypeInv, ProcType
<1>3. QED
  BY <1>1, <1>2, GetInTransStep

LEMMA UnlinkStep ==
    ASSUME IInv, NEW p \in Proc, Unlink(p)
    PROVE  IInv'
<1>1. /\ pc[p] = "unlink" /\ UNCHANGED <<disk, copy, fds>> /\ UNCHANGED <<trans, name, kind>>
  BY DEF Unlink, args
<1>2. CASE dir[name[p]] # Null
  <2>1. iget(p, dir[name[p]]) /\ goto(p, "unlinkold") /\ rootbusy' = p
    BY <1>2 DEF Unlink, dirlookup
  <2>2. QED
    BY <1>1, <1>2, <2>1, GetInTransStep
<1>3. CASE dir[name[p]] = Null
  <2>1. goto(p, "commit") /\ UNCHANGED <<inum, ref, busy, valid, rootbusy, ip>>
    BY <1>3 DEF Unlink, dirlookup
  <2>2. UNCHANGED disk /\ UNCHANGED icache /\ UNCHANGED <<rootbusy, trans, name, kind, ip, file, cwd>>
    BY <1>1, <2>1 DEF icache, fds
  <2>3. QED
    BY <1>1, <2>1, <2>2, GoOnStep
<1>4. QED
  BY <1>2, <1>3

\* ialloc takes an i-node that nobody knows.
LEMMA FreshIs ==
    ASSUME IInv, Unallocated # {}
    PROVE  LET i == First(Unallocated)
           IN /\ i \in Inum /\ dtype[i] = "FREE" /\ daddrs[i] = {}
              /\ \A n \in Name : dir[n] # i
              /\ \A f \in Entry : ref[f] > 0 => inum[f] # i
<1> DEFINE i == First(Unallocated)
<1>1. Unallocated \in SUBSET Nat
  BY Basics DEF Unallocated
<1>2. i \in Unallocated
  BY <1>1, FirstIs
<1>3. i \in Inum /\ dtype[i] = "FREE"
  BY <1>2 DEF Unallocated
<1>4. QED
  BY <1>3, Basics DEF IInv, BlockInv, DirInv, EntryInv

LEMMA CreateAllocStep ==
    ASSUME IInv, NEW p \in Proc, CreateAlloc(p)
    PROVE  IInv'
<1> DEFINE i == First(Unallocated)
<1>1. /\ pc[p] = "create" /\ dir[name[p]] = Null
      /\ dtype' = [dtype EXCEPT ![i] = kind[p]] /\ dnlink' = [dnlink EXCEPT ![i] = 0]
      /\ daddrs' = [daddrs EXCEPT ![i] = {}] /\ iget(p, i) /\ rootbusy' = p /\ goto(p, "createnew")
      /\ UNCHANGED fds
      /\ UNCHANGED <<dir, rootnlink, bitmap, type, nlink, addrs, trans, name, kind, file, cwd>>
  BY DEF CreateAlloc, dirlookup, copy, args, fds
<1>2. /\ TypeInv /\ DiskType /\ TableType /\ CopyType /\ ProcType /\ LocalInv /\ LocalInv!(p) /\ EntryInv
      /\ CopyInv /\ DirInv /\ LinkInv /\ RootInv /\ BlockInv /\ TransInv!(p)
  BY DEF IInv, TypeInv, LocalInv, TransInv
<1>3. /\ i \in Inum /\ dtype[i] = "FREE" /\ daddrs[i] = {}
      /\ \A n \in Name : dir[n] # i
      /\ \A f \in Entry : ref[f] > 0 => inum[f] # i
  BY <1>1, <1>2, FreshIs
<1>4. trans = p /\ ip[p] = Null /\ name[p] \in Name /\ kind[p] \in {"FILE", "DIR"}
  BY <1>1, <1>2 DEF InTrans, WithIp, Naming, Creating
<1> HIDE DEF i
<1>5. PICK e \in Entry : Gets(p, i, e)
  BY <1>1, <1>2, <1>3, IgetIs
<1>6. GetFacts(p, i, e)
  BY <1>2, <1>3, <1>5, GetsIs
<1>7. /\ RefInv' /\ LockInv' /\ ValidInv'
      /\ \A f \in Entry : ref[f] > 0 => ref'[f] > 0 /\ inum'[f] = inum[f]
  <2>1. pc[p] \in {"idle", "create", "unlink"}
    BY <1>1
  <2>2. QED
    BY <1>1, <1>3, <1>4, <1>5, <2>1, GetTable
<1>8. pc' = [pc EXCEPT ![p] = "createnew"]
  BY <1>1 DEF goto
<1>9. Others(p) /\ pc'[p] = "createnew" /\ ip'[p] = e /\ ip'[p] # Null
  BY <1>1, <1>2, <1>6, <1>8, Basics DEF Others, GetFacts, ProcType
<1>10. TypeInv'
  <2>1. TableType'
    BY <1>2, <1>3, <1>5, GetsType
  <2>2. DiskType' /\ CopyType'
    BY <1>1, <1>2, <1>3, <1>4 DEF DiskType, CopyType, Type
  <2>3. ProcType'
    BY <1>1, <1>2, <1>5, <1>8 DEF ProcType, PC, Gets
  <2>4. QED
    BY <2>1, <2>2, <2>3 DEF TypeInv
<1>11. /\ \A j \in Inum \ {i} : dtype'[j] = dtype[j] /\ dnlink'[j] = dnlink[j] /\ daddrs'[j] = daddrs[j]
       /\ dtype'[i] = kind[p] /\ dnlink'[i] = 0 /\ daddrs'[i] = {}
  BY <1>1, <1>2, <1>3 DEF DiskType
<1>12. /\ ref[e] = 0 /\ ref'[e] = 1 /\ inum'[e] = i /\ ~valid'[e]
       /\ \A f \in Entry : ref'[f] > 0 /\ f # e =>
            /\ ref[f] > 0 /\ ref'[f] = ref[f] /\ inum'[f] = inum[f] /\ inum[f] \in Inum \ {i}
            /\ valid'[f] = valid[f]
  BY <1>2, <1>3, <1>6 DEF GetFacts, TableType, EntryInv
<1>13. EntryInv'
  BY <1>2, <1>3, <1>4, <1>11, <1>12 DEF EntryInv
<1>14. CopyInv'
  BY <1>1, <1>2, <1>11, <1>12 DEF CopyInv
<1>15. DirInv'
  <2>1. \A n \in Name : dir[n] # Null => dir[n] \in Inum \ {i}
    BY <1>2, <1>3 DEF DiskType
  <2>2. QED
    BY <1>1, <1>2, <1>11, <2>1 DEF DirInv
<1>16. LinkInv'
  <2> SUFFICES ASSUME NEW j \in Inum, dtype'[j] # "FREE"
               PROVE  /\ dnlink'[j] = Count(Name, dir, j) + Extra(j)'
                      /\ dnlink'[j] = 0 => \E f \in Entry : ref'[f] > 0 /\ inum'[f] = j
    BY <1>1 DEF LinkInv, Count
  <2>1. Extra(j)' = 0 /\ Extra(j) = 0
    BY <1>1, <1>2, <1>4, <1>9, LinkAlone DEF Linking
  <2>2. CASE j = i
    <3>1. Count(Name, dir, j) = 0
      BY <1>3, <2>2, Basics, CountIs
    <3>2. QED
      BY <2>1, <2>2, <3>1, <1>11, <1>12
  <2>3. CASE j # i
    <3>1. dtype[j] # "FREE" /\ dnlink'[j] = dnlink[j]
      BY <1>11, <2>3
    <3>2. QED
      BY <1>2, <1>7, <2>1, <3>1 DEF LinkInv
  <2>4. QED
    BY <2>2, <2>3
<1>17. RootInv'
  <2>1. NamedDirs' = NamedDirs
    BY <1>3, <1>11 DEF NamedDirs
  <2>2. QED
    BY <1>1, <1>2, <2>1 DEF RootInv
<1>18. BlockInv'
  <2>1. \A j \in Inum : daddrs'[j] = daddrs[j]
    BY <1>3, <1>11
  <2>2. QED
    BY <1>1, <1>2, <1>3, <1>11, <2>1 DEF BlockInv
<1>19. LocalInv'
  <2>1. LocalInv!(p)'
    BY <1>1, <1>2, <1>4, <1>9 DEF InTrans, WithIp, Naming, Creating
  <2>2. QED
    BY <1>2, <1>9, <2>1, LocalFrame
<1>20. TransInv'
  <2>1. TransInv!(p)'
    BY <1>1, <1>2, <1>4, <1>9, <1>11, <1>12 DEF Linking
  <2>2. QED
    BY <1>2, <1>4, <1>9, <2>1, TransAlone
<1>21. FreeInv'
  <2>1. pc'[p] \notin Freeing /\ \A q \in Proc \ {p} : pc'[q] = pc[q]
    BY <1>9 DEF Freeing, Others
  <2>2. \A q \in Proc : pc[q] \in Freeing => inum[ip[q]] # i
    <3> SUFFICES ASSUME NEW q \in Proc, pc[q] \in Freeing PROVE inum[ip[q]] # i
      OBVIOUS
    <3>1. ip[q] \in Entry /\ ref[ip[q]] = 1
      BY FreeIs
    <3>2. QED
      BY <1>3, <3>1
  <2>3. QED
    BY <1>3, <1>6, <1>11, <2>1, <2>2, GetFree
<1>22. QED
  BY <1>7, <1>10, <1>13, <1>14, <1>15, <1>16, <1>17, <1>18, <1>19, <1>20, <1>21 DEF IInv

-----------------------------------------------------------------------------
\* iupdate: the disk and the copy get the same link count and blocks.
LEMMA UpdateIs ==
    ASSUME IInv, NEW e \in Entry, ref[e] > 0, NEW lnk \in Nat, NEW adr \in SUBSET Block,
           iupdate(e, lnk, adr), UNCHANGED <<inum, ref>>
    PROVE  /\ dtype' = dtype /\ dnlink' = [dnlink EXCEPT ![inum[e]] = lnk]
           /\ daddrs' = [daddrs EXCEPT ![inum[e]] = adr]
           /\ CopyInv' /\ CopyType' /\ valid' \in [Entry -> BOOLEAN] /\ valid'[e]
           /\ \A f \in Entry : valid[f] => valid'[f]
<1> DEFINE i == inum[e]
<1>1. TypeInv /\ CopyInv /\ EntryInv /\ DiskType /\ TableType /\ CopyType
  BY DEF IInv, TypeInv
<1>2. i \in Inum /\ dtype[i] \in Type /\ Ityp(e) = dtype[i]
  BY <1>1, CopyIs DEF EntryInv, DiskType
<1>3. /\ dtype' = [dtype EXCEPT ![i] = dtype[i]] /\ dnlink' = [dnlink EXCEPT ![i] = lnk]
      /\ daddrs' = [daddrs EXCEPT ![i] = adr]
      /\ type' = [type EXCEPT ![e] = dtype[i]] /\ nlink' = [nlink EXCEPT ![e] = lnk]
      /\ addrs' = [addrs EXCEPT ![e] = adr] /\ valid' = [valid EXCEPT ![e] = TRUE]
  BY <1>2 DEF iupdate, Fields
<1>4. dtype' = dtype
  BY <1>1, <1>2, <1>3 DEF DiskType
<1>5. CopyType' /\ valid' \in [Entry -> BOOLEAN]
  BY <1>1, <1>2, <1>3, FlagIs DEF CopyType, TableType
<1>6. valid'[e] /\ \A f \in Entry \ {e} : valid'[f] = valid[f]
  BY <1>1, <1>3 DEF TableType
<1>7. CopyInv'
  <2> SUFFICES ASSUME NEW f \in Entry, ref[f] > 0, valid'[f]
               PROVE  /\ type'[f] = dtype'[inum[f]] /\ nlink'[f] = dnlink'[inum[f]]
                      /\ addrs'[f] = daddrs'[inum[f]]
    BY DEF CopyInv
  <2>1. CASE f = e
    BY <1>1, <1>2, <1>3, <1>4, <2>1 DEF CopyType, DiskType
  <2>2. CASE f # e
    <3>1. inum[f] \in Inum \ {i} /\ valid[f]
      BY <1>1, <1>6, <2>2 DEF EntryInv
    <3>2. /\ type[f] = dtype[inum[f]] /\ nlink[f] = dnlink[inum[f]] /\ addrs[f] = daddrs[inum[f]]
      BY <1>1, <3>1 DEF CopyInv
    <3>3. QED
      BY <1>1, <1>2, <1>3, <1>4, <2>2, <3>1, <3>2 DEF CopyType, DiskType
  <2>3. QED
    BY <2>1, <2>2
<1>8. QED
  BY <1>3, <1>4, <1>5, <1>6, <1>7

\* A step that updates the i-node of a call in its transaction.
LEMMA UpdateStep ==
    ASSUME IInv, NEW p \in Proc, trans = p, Others(p),
           UNCHANGED <<dtype, inum, ref, trans, ip, file, cwd>>,
           TypeInv', LockInv', CopyInv', DirInv', LinkInv', RootInv', BlockInv',
           \A f \in Entry : valid[f] => valid'[f],
           pc'[p] \in Reading => valid'[ip[p]],
           LocalInv!(p)', TransInv!(p)', pc'[p] \notin Freeing,
           NEW e \in Entry, ref[e] > 0, e = ip[p] \/ e = file[p],
           \A j \in Inum \ {inum[e]} : dnlink'[j] = dnlink[j] /\ daddrs'[j] = daddrs[j]
    PROVE  IInv'
<1>1. LocalInv /\ RefInv /\ EntryInv /\ ValidInv /\ FreeInv /\ ProcType
  BY DEF IInv, TypeInv
<1>2. RefInv' /\ EntryInv'
  BY <1>1 DEF RefInv, EntryInv, Pointers
<1>3. LocalInv' /\ TransInv'
  BY <1>1, LocalFrame, TransAlone
<1>4. ValidInv'
  <2> SUFFICES ASSUME NEW q \in Proc PROVE ValidInv!(q)'
    BY DEF ValidInv
  <2>1. /\ ValidInv!(q) /\ (file[q] # Null => file[q] \in Entry) /\ (cwd[q] # Null => cwd[q] \in Entry)
        /\ (pc[q] \in Reading => ip[q] \in Entry)
    BY <1>1 DEF ValidInv, ProcType, LocalInv, Reading, WithIp
  <2>2. QED
    BY <2>1 DEF Others
<1>5. FreeInv'
  <2>1. FreeInv!(p)' /\ \A q \in Proc \ {p} : pc'[q] = pc[q] /\ ip'[q] = ip[q]
    BY DEF Freeing, Others
  <2>2. ASSUME NEW q \in Proc \ {p}, pc[q] \in Freeing PROVE FreeKept(q)
    <3>1. ip[q] \in Entry /\ inum[ip[q]] \in Inum /\ ip[q] # e /\ inum[ip[q]] # inum[e]
      BY <2>2, FreeIs
    <3>2. QED
      BY <3>1 DEF FreeKept
  <2>3. QED
    BY <1>1, <2>1, <2>2, FreeFrame
<1>6. QED
  BY <1>2, <1>3, <1>4, <1>5 DEF IInv

\* The links after such a step.
LEMMA LinkUpdate ==
    ASSUME IInv, NEW p \in Proc, trans = p, Others(p), NEW e \in Entry, ref[e] > 0,
           UNCHANGED <<dtype, inum, ref, ip>>,
           \A j \in Inum \ {inum[e]} : dnlink'[j] = dnlink[j] /\ Count(Name, dir', j) = Count(Name, dir, j),
           dnlink'[inum[e]] = Count(Name, dir', inum[e]) + (IF pc'[p] \in Linking THEN 1 ELSE 0),
           pc[p] \in Linking => ip[p] = e, pc'[p] \in Linking => ip[p] = e
    PROVE  LinkInv'
<1> DEFINE i == inum[e]
<1>1. LocalInv /\ LinkInv
  BY DEF IInv
<1>2. /\ \A j \in Inum : Extra(j) = IF pc[p] \in Linking /\ inum[ip[p]] = j THEN 1 ELSE 0
      /\ \A j \in Inum : Extra(j)' = IF pc'[p] \in Linking /\ inum'[ip'[p]] = j THEN 1 ELSE 0
  BY <1>1, LinkAlone
<1> SUFFICES ASSUME NEW j \in Inum, dtype[j] # "FREE"
             PROVE  /\ dnlink'[j] = Count(Name, dir', j) + Extra(j)'
                    /\ dnlink'[j] = 0 => \E f \in Entry : ref[f] > 0 /\ inum[f] = j
  BY DEF LinkInv, Count
<1>3. CASE j = i
  BY <1>2, <1>3
<1>4. CASE j # i
  <2>1. Extra(j) = 0 /\ Extra(j)' = 0
    BY <1>2, <1>4
  <2>2. dnlink'[j] = dnlink[j] /\ Count(Name, dir', j) = Count(Name, dir, j)
    BY <1>4
  <2>3. QED
    BY <1>1, <2>1, <2>2 DEF LinkInv
<1>5. QED
  BY <1>3, <1>4

\* The blocks: as before, or one more that was free.
LEMMA BlockSame ==
    ASSUME BlockInv, UNCHANGED <<dtype, bitmap>>, \A j \in Inum : daddrs'[j] = daddrs[j]
    PROVE  BlockInv'
BY DEF BlockInv

LEMMA BlockGrows ==
    ASSUME BlockInv, DiskType, NEW i \in Inum, dtype[i] # "FREE", NEW b \in Block, b \notin bitmap, dtype' = dtype,
           bitmap' = bitmap \cup {b}, daddrs' = [daddrs EXCEPT ![i] = daddrs[i] \cup {b}]
    PROVE  BlockInv'
<1>1. daddrs'[i] = daddrs[i] \cup {b} /\ \A j \in Inum \ {i} : daddrs'[j] = daddrs[j]
  BY DEF DiskType
<1>2. \A j \in Inum : b \notin daddrs[j]
  BY DEF BlockInv
<1>3. UNION {daddrs'[j] : j \in Inum} = (UNION {daddrs[j] : j \in Inum}) \cup {b}
  BY <1>1
<1>4. QED
  BY <1>1, <1>2, <1>3 DEF BlockInv

LEMMA BallocIs ==
    ASSUME Block \ bitmap # {}
    PROVE  balloc \in Block /\ balloc \notin bitmap
<1>1. Block \ bitmap \in SUBSET Nat
  BY Basics
<1>2. First(Block \ bitmap) \in Block \ bitmap
  BY <1>1, FirstIs
<1>3. QED
  BY <1>2 DEF balloc

\* The number of names of an i-node, and the links it has without link(2).
LEMMA LinksAre ==
    ASSUME IInv, NEW i \in Inum, dtype[i] # "FREE"
    PROVE  Count(Name, dir, i) \in Nat /\ dnlink[i] \in Nat /\ dnlink[i] = Count(Name, dir, i) + Extra(i)
BY Basics, CountIs DEF IInv, LinkInv, TypeInv, DiskType

\* writei: inside the file nothing changes, beyond its end it gets a block.
LEMMA WriteStep ==
    ASSUME IInv, NEW p \in Proc, Write(p)
    PROVE  IInv'
<1> DEFINE e == file[p]
<1> DEFINE i == inum[e]
<1>1. /\ pc[p] = "write" /\ goto(p, "commit")
      /\ UNCHANGED <<inum, ref, busy, rootbusy, trans, name, kind, ip, file, cwd>>
  BY DEF Write, locks, args, fds
<1>2. /\ TypeInv /\ DiskType /\ TableType /\ ProcType /\ LocalInv /\ LocalInv!(p) /\ EntryInv /\ LockInv
      /\ DirInv /\ LinkInv /\ RootInv /\ BlockInv /\ CopyInv
  BY DEF IInv, TypeInv, LocalInv
<1>3. e \in Entry /\ ref[e] > 0 /\ i \in Inum /\ dtype[i] # "FREE" /\ trans = p
  <2>1. e \in Entry /\ trans = p /\ PtrFacts
    BY <1>1, <1>2, PtrNow DEF ProcType, InTrans, IInv
  <2>2. QED
    BY <1>2, <2>1 DEF PtrFacts, EntryInv
<1>4. CASE UNCHANGED <<disk, valid, copy>>
  <2>1. UNCHANGED disk /\ UNCHANGED icache
    BY <1>1, <1>4 DEF icache
  <2>2. QED
    BY <1>1, <2>1, GoOnStep
<1>5. CASE /\ Block \ bitmap # {} /\ bitmap' = bitmap \cup {balloc}
           /\ iupdate(e, Inlk(e), bmap(e)) /\ UNCHANGED <<dir, rootnlink>>
  <2>1. balloc \in Block /\ balloc \notin bitmap
    BY <1>5, BallocIs
  <2>2. Inlk(e) = dnlink[i] /\ bmap(e) = daddrs[i] \cup {balloc}
    BY <1>2, <1>3, CopyIs DEF bmap
  <2> HIDE DEF balloc
  <2>3. dnlink[i] \in Nat /\ daddrs[i] \cup {balloc} \in SUBSET Block
    BY <1>2, <1>3, <2>1 DEF DiskType
  <2>4. /\ dtype' = dtype /\ dnlink' = [dnlink EXCEPT ![i] = dnlink[i]]
        /\ daddrs' = [daddrs EXCEPT ![i] = daddrs[i] \cup {balloc}]
        /\ CopyInv' /\ CopyType' /\ valid' \in [Entry -> BOOLEAN] /\ valid'[e]
        /\ \A f \in Entry : valid[f] => valid'[f]
    BY <1>1, <1>3, <1>5, <2>2, <2>3, UpdateIs
  <2>5. dnlink' = dnlink
    BY <1>2, <1>3, <2>4 DEF DiskType
  <2>6. pc' = [pc EXCEPT ![p] = "commit"]
    BY <1>1 DEF goto
  <2>7. Others(p) /\ pc'[p] = "commit"
    BY <1>1, <1>2, <2>6 DEF Others, ProcType
  <2>8. TypeInv'
    <3>1. DiskType'
      BY <1>2, <1>3, <1>5, <2>1, <2>3, <2>4, <2>5 DEF DiskType
    <3>2. TableType' /\ ProcType'
      BY <1>1, <1>2, <2>4, <2>6 DEF TableType, ProcType, PC
    <3>3. QED
      BY <2>4, <3>1, <3>2 DEF TypeInv
  <2>9. LockInv'
    <3>1. \A f \in Entry : busy'[f] <=> busy[f]
      BY <1>1
    <3>2. pc'[p] \notin Locking /\ pc[p] \notin Locking
      BY <1>1, <2>7 DEF Locking
    <3>3. QED
      BY <1>2, <2>7, <3>1, <3>2, LockSame
  <2>10. DirInv' /\ RootInv'
    <3>1. NamedDirs' = NamedDirs
      BY <2>4, <2>5 DEF NamedDirs
    <3>2. QED
      BY <1>2, <1>5, <2>4, <3>1 DEF DirInv, RootInv
  <2>11. BlockInv'
    BY <1>2, <1>3, <1>5, <2>1, <2>4, BlockGrows
  <2>12. LinkInv'
    <3>1. pc[p] \notin Linking /\ pc'[p] \notin Linking
      BY <1>1, <2>7 DEF Linking
    <3>2. \A q \in Proc : pc'[q] \in Linking <=> pc[q] \in Linking
      BY <2>7, <3>1 DEF Others
    <3>3. UNCHANGED <<dtype, dnlink, dir>>
      BY <1>5, <2>4, <2>5
    <3>4. /\ \A q \in Proc : pc[q] \in Linking => ip'[q] = ip[q] /\ inum'[ip[q]] = inum[ip[q]]
          /\ \A f \in Entry : ref[f] > 0 /\ dnlink[inum[f]] = 0 => ref'[f] > 0 /\ inum'[f] = inum[f]
      BY <1>1
    <3>5. QED
      BY <1>2, <3>2, <3>3, <3>4, LinkFrame
  <2>13. LocalInv!(p)' /\ TransInv!(p)' /\ pc'[p] \notin Freeing /\ pc'[p] \notin Reading
    BY <1>1, <1>2, <2>7 DEF InTrans, WithIp, Naming, Creating, Linking, Reading, Freeing
  <2>14. \A j \in Inum \ {i} : dnlink'[j] = dnlink[j] /\ daddrs'[j] = daddrs[j]
    BY <1>2, <2>4, <2>5 DEF DiskType
  <2>15. QED
    BY <1>1, <1>3, <2>4, <2>7, <2>8, <2>9, <2>10, <2>11, <2>12, <2>13, <2>14, UpdateStep
<1>6. QED
  <2>1. \/ UNCHANGED <<disk, valid, copy>>
        \/ /\ Block \ bitmap # {} /\ bitmap' = bitmap \cup {balloc}
           /\ iupdate(e, Inlk(e), bmap(e)) /\ UNCHANGED <<dir, rootnlink>>
    BY DEF Write
  <2>2. QED
    BY <1>4, <1>5, <2>1

\* link(2) counts a link of a file, or takes it back.
LEMMA RelinkStep ==
    ASSUME IInv, NEW p \in Proc, NEW lnk \in Nat,
           NEW to, NEW more \in {0, 1}, lnk = Count(Name, dir, inum[ip[p]]) + more,
           more = 1 => pc[p] = "linkinc" /\ to = "linkdir", more = 0 => pc[p] = "linkbad" /\ to = "put",
           dtype[inum[ip[p]]] = "FILE",
           iupdate(ip[p], lnk, daddrs[inum[ip[p]]]), goto(p, to),
           UNCHANGED <<dir, rootnlink, bitmap, inum, ref, busy, rootbusy, trans, name, kind, ip, file, cwd>>
    PROVE  IInv'
<1> DEFINE e == ip[p]
<1> DEFINE i == inum[e]
<1>1. /\ TypeInv /\ DiskType /\ TableType /\ ProcType /\ LocalInv /\ LocalInv!(p) /\ EntryInv /\ LockInv
      /\ DirInv /\ RootInv /\ BlockInv /\ CopyInv
  BY DEF IInv, TypeInv, LocalInv
<1>2. pc[p] \in WithIp /\ pc[p] \in InTrans
  BY DEF WithIp, InTrans
<1>3. e \in Entry /\ ref[e] > 0 /\ i \in Inum /\ dtype[i] = "FILE" /\ trans = p /\ daddrs[i] \in SUBSET Block
      /\ e # Null
  BY <1>1, <1>2, IpIs DEF DiskType
<1>4. /\ dtype' = dtype /\ dnlink' = [dnlink EXCEPT ![i] = lnk] /\ daddrs' = [daddrs EXCEPT ![i] = daddrs[i]]
      /\ CopyInv' /\ CopyType' /\ valid' \in [Entry -> BOOLEAN] /\ valid'[e]
      /\ \A f \in Entry : valid[f] => valid'[f]
  BY <1>3, UpdateIs
<1>5. daddrs' = daddrs /\ dnlink'[i] = lnk /\ \A j \in Inum \ {i} : dnlink'[j] = dnlink[j]
  BY <1>1, <1>3, <1>4 DEF DiskType
<1>6. pc' = [pc EXCEPT ![p] = to] /\ to \in {"linkdir", "put"} /\ pc[p] \in {"linkinc", "linkbad"}
  BY DEF goto
<1>7. Others(p) /\ pc'[p] = to
  BY <1>1, <1>6 DEF Others, ProcType
<1>8. TypeInv'
  <2>1. DiskType'
    BY <1>1, <1>3, <1>4, <1>5 DEF DiskType
  <2>2. TableType' /\ ProcType'
    BY <1>1, <1>4, <1>6 DEF TableType, ProcType, PC
  <2>3. QED
    BY <1>4, <2>1, <2>2 DEF TypeInv
<1>9. LockInv'
  <2>1. \A f \in Entry : busy'[f] <=> busy[f]
    OBVIOUS
  <2>2. pc'[p] \notin Locking /\ pc[p] \notin Locking
    BY <1>6, <1>7 DEF Locking
  <2>3. QED
    BY <1>1, <1>7, <2>1, <2>2, LockSame
<1>10. DirInv' /\ RootInv' /\ BlockInv'
  <2>1. NamedDirs' = NamedDirs
    BY <1>3, <1>4, <1>5 DEF NamedDirs
  <2>2. QED
    BY <1>1, <1>4, <1>5, <2>1, BlockSame DEF DirInv, RootInv
<1>11. LinkInv'
  <2>1. \A j \in Inum \ {inum[e]} : dnlink'[j] = dnlink[j] /\ Count(Name, dir', j) = Count(Name, dir, j)
    BY <1>5
  <2>2. dnlink'[inum[e]] = Count(Name, dir', inum[e]) + (IF pc'[p] \in Linking THEN 1 ELSE 0)
    <3>1. more = IF pc'[p] \in Linking THEN 1 ELSE 0
      BY <1>6, <1>7 DEF Linking
    <3>2. QED
      BY <1>5, <3>1
  <2>3. QED
    BY <1>3, <1>4, <1>7, <2>1, <2>2, LinkUpdate
<1>12. LocalInv!(p)' /\ TransInv!(p)' /\ pc'[p] \notin Freeing
  BY <1>1, <1>3, <1>4, <1>6, <1>7 DEF InTrans, WithIp, Naming, Creating, Linking, Freeing
<1>13. \A j \in Inum \ {i} : dnlink'[j] = dnlink[j] /\ daddrs'[j] = daddrs[j]
  BY <1>5
<1>14. QED
  BY <1>3, <1>4, <1>7, <1>8, <1>9, <1>10, <1>11, <1>12, <1>13, UpdateStep

LEMMA LinkIncStep ==
    ASSUME IInv, NEW p \in Proc, LinkInc(p)
    PROVE  IInv'
<1> DEFINE e == ip[p]
<1> DEFINE i == inum[e]
<1>1. CASE Ityp(e) = "DIR"
  <2>1. /\ pc[p] = "linkinc"
        /\ Fields(ip[p], Inlk(ip[p]), Iadr(ip[p])) /\ pc' = [pc EXCEPT ![p] = "put"]
        /\ UNCHANGED disk /\ UNCHANGED <<inum, ref, busy, rootbusy, trans, name, kind, ip, file, cwd>>
    BY <1>1 DEF LinkInc, ilock, goto, locks, args, fds, disk
  <2>2. QED
    BY <2>1, ReadPutStep
<1>2. CASE Ityp(e) # "DIR"
  <2>1. /\ pc[p] = "linkinc" /\ iupdate(e, Inlk(e) + 1, Iadr(e)) /\ goto(p, "linkdir")
        /\ UNCHANGED <<dir, rootnlink, bitmap, inum, ref, busy, rootbusy, trans, name, kind, ip, file, cwd>>
    BY <1>2 DEF LinkInc, locks, args, fds
  <2>2. e \in Entry /\ ref[e] > 0 /\ i \in Inum /\ dtype[i] # "FREE"
    BY <2>1, IpIs DEF WithIp
  <2>3. Inlk(e) = dnlink[i] /\ Iadr(e) = daddrs[i] /\ dtype[i] # "DIR"
    BY <1>2, <2>2, CopyIs DEF IInv
  <2>4. dtype[i] = "FILE"
    BY <2>2, <2>3 DEF IInv, TypeInv, DiskType, Type
  <2>5. Count(Name, dir, i) \in Nat /\ dnlink[i] \in Nat /\ dnlink[i] = Count(Name, dir, i) + Extra(i)
    BY <2>2, LinksAre
  <2>6. Extra(i) = 0
    <3>1. \A q \in Proc : pc[q] \notin Linking
      BY <2>1 DEF IInv, LocalInv, InTrans, Linking
    <3>2. QED
      BY <3>1 DEF Extra
  <2>7. dnlink[i] + 1 \in Nat /\ dnlink[i] + 1 = Count(Name, dir, i) + 1
    BY <2>5, <2>6
  <2>8. iupdate(e, dnlink[i] + 1, daddrs[i]) /\ goto(p, "linkdir")
    BY <2>1, <2>3
  <2>9. /\ pc[p] = "linkinc"
        /\ UNCHANGED <<dir, rootnlink, bitmap, inum, ref, busy, rootbusy, trans, name, kind, ip, file, cwd>>
    BY <2>1
  <2>10. QED
    BY <2>4, <2>7, <2>8, <2>9, RelinkStep
<1>3. QED
  BY <1>1, <1>2

LEMMA LinkBadStep ==
    ASSUME IInv, NEW p \in Proc, LinkBad(p)
    PROVE  IInv'
<1> DEFINE e == ip[p]
<1> DEFINE i == inum[e]
<1>1. /\ pc[p] = "linkbad" /\ iupdate(e, Inlk(e) - 1, Iadr(e)) /\ goto(p, "put")
      /\ UNCHANGED <<dir, rootnlink, bitmap, inum, ref, busy, rootbusy, trans, name, kind, ip, file, cwd>>
  BY DEF LinkBad, locks, args, fds
<1>2. e \in Entry /\ ref[e] > 0 /\ i \in Inum /\ dtype[i] # "FREE"
  BY <1>1, IpIs DEF WithIp
<1>3. Inlk(e) = dnlink[i] /\ Iadr(e) = daddrs[i] /\ dtype[i] = "FILE"
  BY <1>1, <1>2, CopyIs DEF IInv, TransInv, Linking
<1>4. Count(Name, dir, i) \in Nat /\ dnlink[i] \in Nat /\ dnlink[i] = Count(Name, dir, i) + Extra(i)
  BY <1>2, LinksAre
<1>5. Extra(i) = 1
  BY <1>1 DEF Extra, Linking
<1>6. dnlink[i] - 1 \in Nat /\ dnlink[i] - 1 = Count(Name, dir, i) + 0
  BY <1>4, <1>5
<1>7. QED
  BY <1>1, <1>3, <1>6, RelinkStep

\* dirlink: a name that is taken is an error, a new one uses the link counted.
LEMMA LinkDirStep ==
    ASSUME IInv, NEW p \in Proc, LinkDir(p)
    PROVE  IInv'
<1> DEFINE e == ip[p]
<1> DEFINE i == inum[e]
<1> DEFINE n == name[p]
<1>1. /\ pc[p] = "linkdir"
      /\ UNCHANGED <<dtype, dnlink, daddrs, rootnlink, bitmap, inum, ref, busy, valid, type, nlink, addrs>>
      /\ UNCHANGED <<rootbusy, trans, name, kind, ip, file, cwd>>
  BY DEF LinkDir, icache, copy, locks, args, fds
<1>2. CASE dir[n] # Null
  <2>1. goto(p, "linkbad") /\ UNCHANGED disk /\ UNCHANGED icache
    BY <1>1, <1>2 DEF LinkDir, dirlookup, disk, icache, copy
  <2>2. QED
    BY <1>1, <2>1, GoOnStep
<1>3. CASE dir[n] = Null
  <2>1. /\ TypeInv /\ DiskType /\ TableType /\ CopyType /\ ProcType /\ LocalInv /\ LocalInv!(p) /\ EntryInv
        /\ LockInv /\ DirInv /\ RootInv /\ BlockInv /\ CopyInv /\ ValidInv /\ ValidInv!(p)
    BY DEF IInv, TypeInv, LocalInv, ValidInv
  <2>2. /\ e \in Entry /\ ref[e] > 0 /\ i \in Inum /\ dtype[i] = "FILE" /\ trans = p /\ n \in Name
        /\ e # Null /\ valid[e]
    BY <1>1, <2>1, IpIs DEF WithIp, InTrans, Naming, Reading, Linking, IInv, TransInv
  <2>3. dir' = [dir EXCEPT ![n] = i] /\ pc' = [pc EXCEPT ![p] = "put"]
    BY <1>3 DEF LinkDir, dirlookup, dirlink, goto
  <2>4. /\ dir' \in [Name -> Inum \cup {Null}] /\ dir'[n] = i /\ \A m \in Name \ {n} : dir'[m] = dir[m]
        /\ Others(p) /\ pc'[p] = "put"
    BY <1>1, <2>1, <2>2, <2>3 DEF Others, ProcType, DiskType
  <2>5. TypeInv'
    BY <1>1, <2>1, <2>3, <2>4 DEF TypeInv, DiskType, TableType, CopyType, ProcType, PC
  <2>6. LockInv'
    <3>1. \A f \in Entry : busy'[f] <=> busy[f]
      BY <1>1
    <3>2. pc'[p] \notin Locking /\ pc[p] \notin Locking
      BY <1>1, <2>4 DEF Locking
    <3>3. QED
      BY <2>1, <2>4, <3>1, <3>2, LockSame
  <2>7. CopyInv'
    BY <1>1, <2>1 DEF CopyInv
  <2>8. DirInv'
    BY <1>1, <2>1, <2>2, <2>4 DEF DirInv
  <2>9. RootInv' /\ BlockInv'
    <3>1. NamedDirs' = NamedDirs
      BY <1>1 DEF NamedDirs
    <3>2. QED
      BY <1>1, <2>1, <3>1, BlockSame DEF RootInv
  <2>10. LinkInv'
    <3>0. OnlyAt(Name, dir, dir', n)
      BY <2>4 DEF OnlyAt
    <3>1. \A v : /\ Count(Name, dir, v) \in Nat
                 /\ Count(Name, dir', v) = Count(Name, dir, v) + One(dir'[n], v) - One(dir[n], v)
      BY <2>2, <3>0, Basics, Change
    <3>2. \A j \in Inum \ {i} : Count(Name, dir', j) = Count(Name, dir, j)
      BY <1>3, <2>4, <3>1, Basics DEF One
    <3>3. Count(Name, dir', i) = Count(Name, dir, i) + 1
      BY <1>3, <2>2, <2>4, <3>1, Basics DEF One
    <3>4. dnlink[i] = Count(Name, dir, i) + 1
      <4>1. Extra(i) = 1
        BY <1>1 DEF Extra, Linking
      <4>2. QED
        BY <2>2, <4>1, LinksAre
    <3>5. pc'[p] \notin Linking
      BY <2>4 DEF Linking
    <3>6. dnlink'[i] = Count(Name, dir', i) + (IF pc'[p] \in Linking THEN 1 ELSE 0)
      BY <1>1, <3>1, <3>3, <3>4, <3>5
    <3>7. \A j \in Inum \ {i} : dnlink'[j] = dnlink[j] /\ Count(Name, dir', j) = Count(Name, dir, j)
      BY <1>1, <3>2
    <3>8. QED
      BY <1>1, <2>2, <2>4, <3>5, <3>6, <3>7, LinkUpdate
  <2>11. LocalInv!(p)' /\ TransInv!(p)' /\ pc'[p] \notin Freeing
    BY <1>1, <2>1, <2>2, <2>4 DEF InTrans, WithIp, Naming, Creating, Linking, Freeing
  <2>12. /\ \A j \in Inum \ {i} : dnlink'[j] = dnlink[j] /\ daddrs'[j] = daddrs[j]
         /\ valid' = valid
    BY <1>1
  <2>13. QED
    BY <1>1, <2>2, <2>4, <2>5, <2>6, <2>7, <2>8, <2>9, <2>10, <2>11, <2>12, UpdateStep
<1>4. QED
  BY <1>2, <1>3

\* The blocks of the new i-node: none for a file, one for a directory.
LEMMA CreateNewIs ==
    ASSUME IInv, NEW p \in Proc, CreateNew(p)
    PROVE  /\ \E adr \in SUBSET Block :
                /\ iupdate(ip[p], 1, adr)
                /\ \/ adr = daddrs[inum[ip[p]]] /\ bitmap' = bitmap
                   \/ \E b \in Block \ bitmap : /\ adr = daddrs[inum[ip[p]]] \cup {b}
                                                /\ bitmap' = bitmap \cup {b}
           /\ rootnlink' = IF kind[p] = "DIR" THEN rootnlink + 1 ELSE rootnlink
           /\ kind[p] \in {"FILE", "DIR"}
<1> DEFINE e == ip[p]
<1> DEFINE i == inum[e]
<1>1. pc[p] = "createnew"
  BY DEF CreateNew
<1>2. e \in Entry /\ ref[e] > 0 /\ i \in Inum
  BY <1>1, IpIs DEF WithIp
<1>3. Iadr(e) = daddrs[i] /\ daddrs[i] \in SUBSET Block
  BY <1>2, CopyIs DEF IInv, TypeInv, DiskType
<1>4. CASE kind[p] = "FILE"
  <2>1. iupdate(e, 1, daddrs[i]) /\ bitmap' = bitmap /\ rootnlink' = rootnlink
    BY <1>3, <1>4 DEF CreateNew
  <2>2. QED
    BY <1>3, <1>4, <2>1
<1>5. CASE kind[p] = "DIR"
  <2>1. Block \ bitmap # {}
    BY <1>1, <1>5 DEF IInv, TransInv
  <2>2. balloc \in Block /\ balloc \notin bitmap
    BY <2>1, BallocIs
  <2>3. iupdate(e, 1, daddrs[i] \cup {balloc}) /\ bitmap' = bitmap \cup {balloc} /\ rootnlink' = rootnlink + 1
    BY <1>3, <1>5 DEF CreateNew, bmap
  <2> HIDE DEF balloc
  <2>4. daddrs[i] \cup {balloc} \in SUBSET Block
    BY <1>3, <2>2
  <2>5. QED
    BY <1>5, <2>2, <2>3, <2>4
<1>6. QED
  BY <1>4, <1>5 DEF CreateNew

\* create of a new name: its first link, and that of the root for a directory.
LEMMA CreateNewStep ==
    ASSUME IInv, NEW p \in Proc, CreateNew(p)
    PROVE  IInv'
<1> DEFINE e == ip[p]
<1> DEFINE i == inum[e]
<1> DEFINE n == name[p]
<1> DEFINE to == IF kind[p] = "FILE" THEN "created" ELSE "put"
<1>1. /\ pc[p] = "createnew" /\ ~busy[e] /\ dir' = [dir EXCEPT ![n] = i] /\ rootbusy' = NoProc
      /\ busy' = [busy EXCEPT ![e] = (kind[p] = "FILE")] /\ pc' = [pc EXCEPT ![p] = to]
      /\ UNCHANGED <<inum, ref, trans, name, kind, ip, file, cwd>>
  BY DEF CreateNew, ilock, dirlink, goto, args, fds
<1>2. /\ TypeInv /\ DiskType /\ TableType /\ CopyType /\ ProcType /\ LocalInv /\ LocalInv!(p) /\ EntryInv
      /\ LockInv /\ DirInv /\ RootInv /\ BlockInv /\ CopyInv /\ TransInv!(p)
  BY DEF IInv, TypeInv, LocalInv, TransInv
<1>3. PICK adr \in SUBSET Block :
        /\ iupdate(e, 1, adr)
        /\ \/ adr = daddrs[i] /\ bitmap' = bitmap
           \/ \E b \in Block \ bitmap : adr = daddrs[i] \cup {b} /\ bitmap' = bitmap \cup {b}
  BY CreateNewIs
<1>4. rootnlink' = (IF kind[p] = "DIR" THEN rootnlink + 1 ELSE rootnlink) /\ kind[p] \in {"FILE", "DIR"}
  BY CreateNewIs
<1>5. /\ e \in Entry /\ ref[e] > 0 /\ i \in Inum /\ dtype[i] = kind[p] /\ trans = p /\ n \in Name
      /\ e # Null /\ dnlink[i] = 0 /\ dir[n] = Null /\ dtype[i] # "FREE"
  BY <1>1, <1>2, IpIs DEF WithIp, InTrans, Naming
<1>6. /\ dtype' = dtype /\ dnlink' = [dnlink EXCEPT ![i] = 1] /\ daddrs' = [daddrs EXCEPT ![i] = adr]
      /\ CopyInv' /\ CopyType' /\ valid' \in [Entry -> BOOLEAN] /\ valid'[e]
      /\ \A f \in Entry : valid[f] => valid'[f]
  BY <1>1, <1>3, <1>5, UpdateIs
<1>7. dnlink'[i] = 1 /\ \A j \in Inum \ {i} : dnlink'[j] = dnlink[j]
  BY <1>2, <1>5, <1>6 DEF DiskType
<1>8. /\ dir' \in [Name -> Inum \cup {Null}] /\ dir'[n] = i /\ \A m \in Name \ {n} : dir'[m] = dir[m]
      /\ Others(p) /\ pc'[p] = to /\ to \in {"created", "put"}
  BY <1>1, <1>2, <1>5 DEF Others, ProcType, DiskType
<1>9. /\ \A v : /\ Count(Name, dir, v) \in Nat
                /\ Count(Name, dir', v) = Count(Name, dir, v) + One(dir'[n], v) - One(dir[n], v)
      /\ Count(Name, dir, i) = 0
  <2>1. OnlyAt(Name, dir, dir', n)
    BY <1>8 DEF OnlyAt
  <2>2. Count(Name, dir, i) \in Nat /\ Extra(i) \in {0, 1} /\ 0 = Count(Name, dir, i) + Extra(i)
    BY <1>5, LinksAre, ExtraIs
  <2>3. QED
    BY <1>5, <2>1, <2>2, Basics, Change
<1>10. TypeInv'
  <2>1. busy' \in [Entry -> BOOLEAN]
    BY <1>1, <1>2, <1>5, FlagIs DEF TableType
  <2>2. DiskType'
    BY <1>2, <1>3, <1>4, <1>5, <1>6, <1>8 DEF DiskType
  <2>3. TableType' /\ ProcType'
    BY <1>1, <1>2, <1>6, <1>8, <2>1 DEF TableType, ProcType, PC
  <2>4. QED
    BY <1>6, <2>2, <2>3 DEF TypeInv
<1>11. LockInv'
  <2>1. CASE kind[p] = "FILE"
    <3>1. busy' = [busy EXCEPT ![e] = TRUE] /\ pc'[p] \in Locking /\ pc[p] \notin Locking /\ ip'[p] = e
      BY <1>1, <1>8, <2>1 DEF Locking
    <3>2. QED
      BY <1>1, <1>2, <1>5, <1>8, <3>1, LockTake
  <2>2. CASE kind[p] # "FILE"
    <3>1. \A f \in Entry : busy'[f] <=> busy[f]
      BY <1>1, <1>2, <1>5, <2>2 DEF TableType
    <3>2. pc'[p] \notin Locking /\ pc[p] \notin Locking
      BY <1>1, <1>8, <2>2 DEF Locking
    <3>3. QED
      BY <1>2, <1>8, <3>1, <3>2, LockSame
  <2>3. QED
    BY <2>1, <2>2
<1>12. DirInv'
  <2>1. \A m \in Name : dir[m] # i
    BY <1>9, Basics, CountIs
  <2>2. QED
    BY <1>2, <1>5, <1>6, <1>8, <2>1 DEF DirInv
<1>13. RootInv'
  <2>1. IsFiniteSet(NamedDirs) /\ Cardinality(NamedDirs) \in Nat /\ i \notin NamedDirs
    BY <1>5, Basics, FS_Subset, FS_CardinalityType DEF NamedDirs
  <2>2. CASE kind[p] = "DIR"
    <3>1. NamedDirs' = NamedDirs \cup {i}
      BY <1>2, <1>5, <1>6, <1>7, <2>2 DEF NamedDirs, DiskType
    <3>2. Cardinality(NamedDirs \cup {i}) = Cardinality(NamedDirs) + 1
      BY <2>1, FS_AddElement
    <3>3. QED
      BY <1>2, <1>4, <2>1, <2>2, <3>1, <3>2 DEF RootInv
  <2>3. CASE kind[p] # "DIR"
    <3>1. NamedDirs' = NamedDirs
      BY <1>5, <1>6, <1>7, <2>3 DEF NamedDirs
    <3>2. QED
      BY <1>2, <1>4, <2>3, <3>1 DEF RootInv
  <2>4. QED
    BY <2>2, <2>3
<1>14. BlockInv'
  <2>1. CASE adr = daddrs[i] /\ bitmap' = bitmap
    <3>1. \A j \in Inum : daddrs'[j] = daddrs[j]
      BY <1>2, <1>5, <1>6, <2>1 DEF DiskType
    <3>2. QED
      BY <1>2, <1>6, <2>1, <3>1, BlockSame
  <2>2. CASE \E b \in Block \ bitmap : adr = daddrs[i] \cup {b} /\ bitmap' = bitmap \cup {b}
    BY <1>2, <1>5, <1>6, <2>2, BlockGrows
  <2>3. QED
    BY <1>3, <2>1, <2>2
<1>15. LinkInv'
  <2>1. \A j \in Inum \ {i} : Count(Name, dir', j) = Count(Name, dir, j)
    BY <1>5, <1>8, <1>9, Basics DEF One
  <2>2. Count(Name, dir', i) = 1
    BY <1>5, <1>8, <1>9, Basics DEF One
  <2>3. pc'[p] \notin Linking /\ pc[p] \notin Linking
    BY <1>1, <1>8 DEF Linking
  <2>4. dnlink'[i] = Count(Name, dir', i) + (IF pc'[p] \in Linking THEN 1 ELSE 0)
    BY <1>7, <2>2, <2>3
  <2>5. \A j \in Inum \ {i} : dnlink'[j] = dnlink[j] /\ Count(Name, dir', j) = Count(Name, dir, j)
    BY <1>7, <2>1
  <2>6. QED
    BY <1>1, <1>5, <1>6, <1>8, <2>3, <2>4, <2>5, LinkUpdate
<1>16. LocalInv!(p)' /\ TransInv!(p)' /\ pc'[p] \notin Freeing
  BY <1>1, <1>2, <1>4, <1>5, <1>6, <1>8 DEF InTrans, WithIp, Naming, Creating, Linking, Freeing
<1>17. \A j \in Inum \ {i} : dnlink'[j] = dnlink[j] /\ daddrs'[j] = daddrs[j]
  BY <1>2, <1>6, <1>7 DEF DiskType
<1>18. QED
  BY <1>1, <1>5, <1>6, <1>8, <1>10, <1>11, <1>12, <1>13, <1>14, <1>15, <1>16, <1>17, UpdateStep

\* unlink: the name goes with its link.  A directory has no other name.
LEMMA UnlinkOldStep ==
    ASSUME IInv, NEW p \in Proc, UnlinkOld(p)
    PROVE  IInv'
<1> DEFINE e == ip[p]
<1> DEFINE i == inum[e]
<1> DEFINE n == name[p]
<1>1. pc[p] = "unlinkold" /\ UNCHANGED <<inum, ref, busy, trans, name, kind, ip, file, cwd>>
  BY DEF UnlinkOld, args, fds
<1>2. /\ TypeInv /\ DiskType /\ TableType /\ CopyType /\ ProcType /\ LocalInv /\ LocalInv!(p) /\ EntryInv
      /\ LockInv /\ DirInv /\ LinkInv /\ RootInv /\ BlockInv /\ CopyInv /\ TransInv!(p)
  BY DEF IInv, TypeInv, LocalInv, TransInv
<1>3. /\ e \in Entry /\ ref[e] > 0 /\ i \in Inum /\ trans = p /\ n \in Name
      /\ e # Null /\ dir[n] = i /\ dtype[i] # "FREE" /\ i # Null
  BY <1>1, <1>2, IpIs, Basics DEF WithIp, InTrans, Naming
<1>4. Inlk(e) = dnlink[i] /\ Iadr(e) = daddrs[i] /\ Ityp(e) = dtype[i] /\ dnlink[i] > 0 /\ dnlink[i] \in Nat
      /\ daddrs[i] \in SUBSET Block
  BY <1>2, <1>3, CopyIs, NamedIs DEF DiskType
<1> DEFINE lnk == dnlink[i] - 1
<1>5. /\ iupdate(e, lnk, daddrs[i]) /\ dir' = [dir EXCEPT ![n] = Null] /\ bitmap' = bitmap
      /\ rootnlink' = (IF dtype[i] = "DIR" THEN rootnlink - 1 ELSE rootnlink)
      /\ pc' = [pc EXCEPT ![p] = "put"] /\ rootbusy' = NoProc
  <2>1. ~(Inlk(e) < 1)
    BY <1>4
  <2>2. QED
    BY <1>4, <2>1 DEF UnlinkOld, goto
<1>6. lnk \in Nat
  BY <1>4
<1>7. /\ dtype' = dtype /\ dnlink' = [dnlink EXCEPT ![i] = lnk] /\ daddrs' = [daddrs EXCEPT ![i] = daddrs[i]]
      /\ CopyInv' /\ CopyType' /\ valid' \in [Entry -> BOOLEAN] /\ valid'[e]
      /\ \A f \in Entry : valid[f] => valid'[f]
  BY <1>1, <1>3, <1>4, <1>5, <1>6, UpdateIs
<1>8. daddrs' = daddrs /\ dnlink'[i] = lnk /\ \A j \in Inum \ {i} : dnlink'[j] = dnlink[j]
  BY <1>2, <1>3, <1>7 DEF DiskType
<1>9. /\ dir' \in [Name -> Inum \cup {Null}] /\ dir'[n] = Null /\ \A m \in Name \ {n} : dir'[m] = dir[m]
      /\ Others(p) /\ pc'[p] = "put"
  BY <1>1, <1>2, <1>3, <1>5 DEF Others, ProcType, DiskType
<1>10. \A v : /\ Count(Name, dir, v) \in Nat
              /\ Count(Name, dir', v) = Count(Name, dir, v) + One(dir'[n], v) - One(dir[n], v)
  <2>1. OnlyAt(Name, dir, dir', n)
    BY <1>9 DEF OnlyAt
  <2>2. QED
    BY <1>3, <2>1, Basics, Change
<1>11. /\ \A j \in Inum \ {i} : Count(Name, dir', j) = Count(Name, dir, j)
       /\ Count(Name, dir', i) = Count(Name, dir, i) - 1
  BY <1>3, <1>9, <1>10, Basics DEF One
<1>12. lnk = Count(Name, dir', i)
  <2>1. Extra(i) = 0
    BY <1>1, <1>2, <1>3, <1>9, LinkAlone DEF Linking
  <2>2. dnlink[i] = Count(Name, dir, i) + Extra(i)
    BY <1>3, LinksAre
  <2>3. QED
    BY <1>4, <1>10, <1>11, <2>1, <2>2
<1>13. dtype[i] = "DIR" => lnk = 0
  <2> SUFFICES ASSUME dtype[i] = "DIR" PROVE lnk = 0
    OBVIOUS
  <2>1. \A m \in Name : dir'[m] # i
    BY <1>2, <1>3, <1>9 DEF DirInv
  <2>2. Count(Name, dir', i) = 0
    BY <2>1, Basics, CountIs
  <2>3. QED
    BY <1>12, <2>2
<1> HIDE DEF lnk
<1>14. Cardinality(NamedDirs) \in Nat /\ IsFiniteSet(NamedDirs)
  BY Basics, FS_Subset, FS_CardinalityType DEF NamedDirs
<1>15. RootInv' /\ rootnlink' \in Nat
  <2>1. CASE dtype[i] = "DIR"
    <3>1. NamedDirs' = NamedDirs \ {i} /\ i \in NamedDirs
      BY <1>3, <1>4, <1>7, <1>8, <1>13, <2>1 DEF NamedDirs
    <3>2. Cardinality(NamedDirs \ {i}) = Cardinality(NamedDirs) - 1
      BY <1>14, <3>1, FS_RemoveElement
    <3>3. rootnlink' = rootnlink - 1 /\ rootnlink = 1 + Cardinality(NamedDirs)
      BY <1>2, <1>5, <2>1 DEF RootInv
    <3>4. QED
      BY <1>14, <3>1, <3>2, <3>3 DEF RootInv
  <2>2. CASE dtype[i] # "DIR"
    <3>1. NamedDirs' = NamedDirs
      BY <1>3, <1>7, <1>8, <2>2 DEF NamedDirs
    <3>2. QED
      BY <1>2, <1>5, <2>2, <3>1 DEF RootInv, DiskType
  <2>3. QED
    BY <2>1, <2>2
<1>16. TypeInv'
  <2>1. DiskType'
    BY <1>2, <1>5, <1>6, <1>7, <1>8, <1>9, <1>15, <1>3 DEF DiskType
  <2>2. TableType' /\ ProcType'
    BY <1>1, <1>2, <1>5, <1>7 DEF TableType, ProcType, PC
  <2>3. QED
    BY <1>7, <2>1, <2>2 DEF TypeInv
<1>17. LockInv'
  <2>1. \A f \in Entry : busy'[f] <=> busy[f]
    BY <1>1
  <2>2. pc'[p] \notin Locking /\ pc[p] \notin Locking
    BY <1>1, <1>9 DEF Locking
  <2>3. QED
    BY <1>2, <1>9, <2>1, <2>2, LockSame
<1>18. DirInv' /\ BlockInv'
  BY <1>2, <1>5, <1>7, <1>8, <1>9, BlockSame DEF DirInv
<1>19. LinkInv'
  <2>1. pc'[p] \notin Linking /\ pc[p] \notin Linking
    BY <1>1, <1>9 DEF Linking
  <2>2. dnlink'[i] = Count(Name, dir', i) + (IF pc'[p] \in Linking THEN 1 ELSE 0)
    BY <1>6, <1>8, <1>12, <2>1
  <2>3. \A j \in Inum \ {i} : dnlink'[j] = dnlink[j] /\ Count(Name, dir', j) = Count(Name, dir, j)
    BY <1>8, <1>11
  <2>4. QED
    BY <1>1, <1>3, <1>7, <1>9, <2>1, <2>2, <2>3, LinkUpdate
<1>20. LocalInv!(p)' /\ TransInv!(p)' /\ pc'[p] \notin Freeing
  BY <1>1, <1>2, <1>3, <1>9 DEF InTrans, WithIp, Naming, Creating, Linking, Freeing
<1>21. \A j \in Inum \ {i} : dnlink'[j] = dnlink[j] /\ daddrs'[j] = daddrs[j]
  BY <1>8
<1>22. QED
  BY <1>1, <1>3, <1>7, <1>9, <1>15, <1>16, <1>17, <1>18, <1>19, <1>20, <1>21, UpdateStep

-----------------------------------------------------------------------------
LEMMA IputStep ==
    ASSUME IInv, NEW p \in Proc, Iput(p)
    PROVE  IInv'
BY IputLastStep, IputDropStep

LEMMA StepIInv ==
    ASSUME IInv, NEW p \in Proc, Step(p)
    PROVE  IInv'
<1>1. CASE Iput(p) \/ IputTrunc(p) \/ IputFree(p) \/ Commit(p)
  BY <1>1, IputStep, IputTruncStep, IputFreeStep, CommitStep
<1>2. CASE OpenLock(p) \/ OpenDone(p) \/ OpenFail(p)
  BY <1>2, OpenLockStep, OpenDoneStep, OpenFailStep
<1>3. CASE CreateOld(p) \/ CreateOldLock(p) \/ CreateAlloc(p) \/ CreateNew(p)
  BY <1>3, CreateOldStep, CreateOldLockStep, CreateAllocStep, CreateNewStep
<1>4. CASE Unlink(p) \/ UnlinkOld(p)
  BY <1>4, UnlinkStep, UnlinkOldStep
<1>5. CASE LinkBegin(p) \/ LinkInc(p) \/ LinkDir(p) \/ LinkBad(p)
  BY <1>5, LinkBeginStep, LinkIncStep, LinkDirStep, LinkBadStep
<1>6. CASE Write(p) \/ ChdirLock(p) \/ ExecLock(p)
  BY <1>6, WriteStep, ChdirLockStep, ExecLockStep
<1>7. QED
  BY <1>1, <1>2, <1>3, <1>4, <1>5, <1>6 DEF Step

LEMMA SyscallIInv ==
    ASSUME IInv, NEW p \in Proc, Syscall(p)
    PROVE  IInv'
<1>1. CASE \E n \in Name : Open(p, n) \/ Chdir(p, n) \/ Exec(p, n) \/ UnlinkBegin(p, n)
  BY <1>1, OpenStep, ChdirStep, ExecStep, UnlinkBeginStep
<1>2. CASE \E n \in Name : \E k \in {"FILE", "DIR"} : CreateBegin(p, n, k)
  BY <1>2, CreateBeginStep
<1>3. CASE \E n \in Name : \E old \in Name : Link(p, old, n)
  BY <1>3, LinkStep
<1>4. CASE WriteBegin(p) \/ Close(p) \/ LeaveCwd(p)
  BY <1>4, WriteBeginStep, CloseStep, LeaveCwdStep
<1>5. QED
  BY <1>1, <1>2, <1>3, <1>4 DEF Syscall

LEMMA NextIInv ==
    IInv /\ [Next]_vars => IInv'
<1> SUFFICES ASSUME IInv, [Next]_vars PROVE IInv'
  OBVIOUS
<1>1. CASE \E p \in Proc : Step(p) \/ Syscall(p)
  BY <1>1, StepIInv, SyscallIInv
<1>2. CASE UNCHANGED vars
  <2>1. UNCHANGED <<dtype, dnlink, daddrs, dir, rootnlink, bitmap, inum, ref, busy, valid, type, nlink, addrs>>
        /\ UNCHANGED <<rootbusy, trans, pc, name, kind, ip, file, cwd>>
    BY <1>2 DEF vars, disk, icache, copy, locks, args, fds
  <2>2. TypeInv' /\ LocalInv' /\ RefInv' /\ EntryInv' /\ LockInv'
    BY <2>1 DEF IInv, TypeInv, DiskType, TableType, CopyType, ProcType, LocalInv, RefInv, Pointers, EntryInv, LockInv
  <2>3. CopyInv' /\ ValidInv' /\ DirInv' /\ BlockInv' /\ FreeInv'
    BY <2>1 DEF IInv, CopyInv, ValidInv, DirInv, BlockInv, FreeInv
  <2>4. LinkInv' /\ RootInv'
    BY <2>1 DEF IInv, LinkInv, Extra, RootInv, NamedDirs
  <2>5. TransInv'
    BY <2>1 DEF IInv, TransInv, Unallocated
  <2>6. QED
    BY <2>2, <2>3, <2>4, <2>5 DEF IInv
<1>3. QED
  BY <1>1, <1>2 DEF Next, Halted

LEMMA InitIInv ==
    Init => IInv
<1> SUFFICES ASSUME Init PROVE IInv
  OBVIOUS
<1>1. TypeInv
  BY InodeAssumption, Basics DEF Init, TypeInv, DiskType, TableType, CopyType, ProcType, Type, PC
<1>2. LocalInv /\ EntryInv /\ LockInv /\ CopyInv /\ ValidInv
  BY InodeAssumption DEF Init, LocalInv, EntryInv, LockInv, CopyInv, ValidInv, InTrans, WithIp, Naming, Creating,
       Locking, Reading
<1>3. RefInv
  <2> SUFFICES ASSUME NEW e \in Entry PROVE ref[e] = Pointers(e)
    BY DEF RefInv
  <2>1. \A p \in Proc : ip[p] # e /\ file[p] # e /\ cwd[p] # e
    BY Basics DEF Init
  <2>2. Count(Proc, ip, e) = 0 /\ Count(Proc, file, e) = 0 /\ Count(Proc, cwd, e) = 0
    BY <2>1, Basics, CountIs
  <2>3. Pointers(e) = 0
    BY <2>2 DEF Pointers, Count
  <2>4. QED
    BY <2>3 DEF Init
<1>4. DirInv /\ LinkInv
  BY DEF Init, DirInv, LinkInv
<1>5. RootInv
  <2>1. NamedDirs = {}
    BY DEF Init, NamedDirs
  <2>2. QED
    BY <2>1, FS_EmptySet DEF Init, RootInv
<1>6. BlockInv
  BY DEF Init, BlockInv
<1>7. TransInv /\ FreeInv
  BY DEF Init, TransInv, FreeInv, Linking, Freeing
<1>8. QED
  BY <1>1, <1>2, <1>3, <1>4, <1>5, <1>6, <1>7 DEF IInv

-----------------------------------------------------------------------------
\* The counters stay within TypeOK.  A step leaves a link count as it is, clears
\* it, or writes that of an i-node in use, which the names bound.
Bounded ==
    /\ \A i \in Inum : dnlink[i] <= Cardinality(Name) + 1
    /\ \A e \in Entry : nlink[e] <= Cardinality(Name) + 1
Settled ==
    /\ \A i \in Inum : dnlink'[i] = dnlink[i] \/ dtype'[i] # "FREE"
    /\ \A e \in Entry : nlink'[e] = nlink[e] \/ nlink'[e] = 0 \/ (ref'[e] > 0 /\ valid'[e])

LEMMA CountBound ==
    ASSUME NEW S, IsFiniteSet(S), NEW F, NEW v
    PROVE  Count(S, F, v) <= Cardinality(S) /\ Count(S, F, v) \in Nat /\ Cardinality(S) \in Nat
<1> DEFINE A == {s \in S : F[s] = v}
<1>1. A \in SUBSET S /\ Count(S, F, v) = Cardinality(A)
  BY DEF Count
<1> HIDE DEF A
<1>2. QED
  BY <1>1, FS_Subset, FS_CardinalityType

LinksBound == \A i \in Inum : dtype[i] # "FREE" => dnlink[i] <= Cardinality(Name) + 1

LEMMA LinksBounded ==
    IInv => LinksBound
<1> SUFFICES ASSUME IInv, NEW i \in Inum, dtype[i] # "FREE"
             PROVE  dnlink[i] <= Cardinality(Name) + 1
  BY DEF LinksBound
<1>1. Count(Name, dir, i) <= Cardinality(Name) /\ Cardinality(Name) \in Nat
  BY Basics, CountBound
<1>2. Extra(i) \in {0, 1}
  BY ExtraIs
<1>3. QED
  BY <1>1, <1>2, LinksAre

LEMMA BoundedStep ==
    ASSUME IInv', Bounded, Settled
    PROVE  Bounded'
<1>1. LinksBound'
  BY LinksBounded, PTL
<1>2. \A i \in Inum : dnlink'[i] <= Cardinality(Name) + 1
  BY <1>1 DEF LinksBound, Bounded, Settled
<1>3. \A e \in Entry : nlink'[e] <= Cardinality(Name) + 1
  <2> SUFFICES ASSUME NEW e \in Entry PROVE nlink'[e] <= Cardinality(Name) + 1
    OBVIOUS
  <2>1. CASE nlink'[e] = nlink[e]
    BY <2>1 DEF Bounded
  <2>2. CASE nlink'[e] = 0
    <3>1. Cardinality(Name) \in Nat
      BY Basics, FS_CardinalityType
    <3>2. QED
      BY <2>2, <3>1
  <2>3. CASE ref'[e] > 0 /\ valid'[e]
    BY <1>2, <2>3 DEF IInv, CopyInv, EntryInv
  <2>4. QED
    BY <2>1, <2>2, <2>3 DEF Settled
<1>4. QED
  BY <1>2, <1>3 DEF Bounded

LEMMA FieldsSettle ==
    ASSUME IInv, NEW e \in Entry, ref[e] > 0, NEW lnk, NEW adr, Fields(e, lnk, adr), ref' = ref
    PROVE  /\ \A f \in Entry : nlink'[f] = nlink[f] \/ (ref'[f] > 0 /\ valid'[f])
           /\ iupdate(e, lnk, adr) => Settled
<1>1. TypeInv /\ CopyInv /\ EntryInv /\ DiskType /\ TableType /\ CopyType
  BY DEF IInv, TypeInv
<1>2. inum[e] \in Inum /\ Ityp(e) # "FREE"
  BY <1>1, CopyIs DEF EntryInv
<1>3. \A f \in Entry : nlink'[f] = nlink[f] \/ (ref'[f] > 0 /\ valid'[f])
  BY <1>1 DEF Fields, CopyType, TableType
<1>4. ASSUME iupdate(e, lnk, adr) PROVE \A i \in Inum : dnlink'[i] = dnlink[i] \/ dtype'[i] # "FREE"
  BY <1>1, <1>2, <1>4 DEF iupdate, DiskType
<1>5. QED
  BY <1>3, <1>4 DEF Settled

LEMMA DropSettles ==
    ASSUME IInv, NEW e \in Entry, drop(e)
    PROVE  \A f \in Entry : nlink'[f] = nlink[f] \/ nlink'[f] = 0
BY DEF drop, IInv, TypeInv, CopyType

LEMMA StepSettles ==
    ASSUME IInv, NEW p \in Proc, Step(p)
    PROVE  Settled
<1>1. CASE UNCHANGED <<dnlink, nlink>>
  BY <1>1 DEF Settled
<1>2. pc[p] \in WithIp => ip[p] \in Entry /\ ref[ip[p]] > 0
  BY IpIs
<1>3. CASE Iput(p)
  BY <1>1, <1>2, <1>3, DropSettles DEF Iput, disk, copy, WithIp, Settled
<1>4. CASE IputTrunc(p) \/ IputFree(p)
  BY <1>1, <1>2, <1>4, DropSettles DEF IputTrunc, IputFree, LogPanic, disk, icache, copy, WithIp, Settled
<1>5. CASE Commit(p) \/ OpenDone(p) \/ OpenFail(p) \/ CreateOld(p)
  BY <1>1, <1>5 DEF Commit, OpenDone, OpenFail, CreateOld, disk, icache, copy
<1>6. CASE Unlink(p) \/ LinkBegin(p) \/ LinkDir(p)
  BY <1>1, <1>6 DEF Unlink, LinkBegin, LinkDir, disk, icache, copy
<1>7. CASE OpenLock(p)
  BY <1>2, <1>7, FieldsSettle DEF OpenLock, WithIp, Settled, disk
<1>8. CASE CreateOldLock(p)
  BY <1>2, <1>8, FieldsSettle DEF CreateOldLock, WithIp, Settled, disk
<1>9. CASE ChdirLock(p) \/ ExecLock(p)
  BY <1>2, <1>9, FieldsSettle DEF ChdirLock, ExecLock, WithIp, Settled, disk
<1>10. CASE CreateAlloc(p)
  <2>1. kind[p] # "FREE" /\ Unallocated # {}
    BY <1>10 DEF CreateAlloc, IInv, LocalInv, Creating, TransInv
  <2>2. First(Unallocated) \in Inum
    BY <2>1, FreshIs
  <2>3. QED
    BY <1>10, <2>1, <2>2 DEF CreateAlloc, copy, Settled, IInv, TypeInv, DiskType
<1>11. CASE CreateNew(p)
  BY <1>2, <1>11, FieldsSettle DEF CreateNew, iupdate, WithIp
<1>12. CASE UnlinkOld(p)
  BY <1>1, <1>2, <1>12, FieldsSettle DEF UnlinkOld, iupdate, WithIp, disk, copy
<1>13. CASE LinkInc(p)
  BY <1>2, <1>13, FieldsSettle DEF LinkInc, iupdate, WithIp, Settled
<1>14. CASE LinkBad(p)
  BY <1>2, <1>14, FieldsSettle DEF LinkBad, iupdate, WithIp
<1>15. CASE Write(p)
  <2>1. file[p] \in Entry /\ ref[file[p]] > 0
    BY <1>15, PtrNow DEF Write, IInv, LocalInv, TypeInv, ProcType, PtrFacts
  <2>2. QED
    BY <1>1, <1>15, <2>1, FieldsSettle DEF Write, iupdate, disk, copy
<1>16. QED
  BY <1>3, <1>4, <1>5, <1>6, <1>7, <1>8, <1>9, <1>10, <1>11, <1>12, <1>13, <1>14, <1>15 DEF Step

LEMMA SyscallSettles ==
    ASSUME NEW p \in Proc, Syscall(p)
    PROVE  Settled
<1>1. UNCHANGED disk /\ UNCHANGED copy
  BY DEF Syscall, Open, Chdir, Exec, UnlinkBegin, CreateBegin, Link, Namei, WriteBegin, Close, LeaveCwd, icache
<1>2. QED
  BY <1>1 DEF Settled, disk, copy

LEMMA NextBounded ==
    IInv /\ Bounded /\ [Next]_vars => IInv' /\ Bounded'
<1> SUFFICES ASSUME IInv, Bounded, [Next]_vars PROVE IInv' /\ Bounded'
  OBVIOUS
<1>1. IInv'
  BY NextIInv
<1>2. Settled
  <2>1. CASE \E p \in Proc : Step(p) \/ Syscall(p)
    BY <2>1, StepSettles, SyscallSettles
  <2>2. CASE UNCHANGED vars
    BY <2>2 DEF Settled, vars, disk, icache, copy
  <2>3. QED
    BY <2>1, <2>2 DEF Next, Halted
<1>3. QED
  BY <1>1, <1>2, BoundedStep

LEMMA InitBounded ==
    Init => Bounded
<1>1. Cardinality(Name) \in Nat
  BY Basics, FS_CardinalityType
<1>2. QED
  BY <1>1 DEF Init, Bounded

LEMMA Invariants ==
    Spec => [](IInv /\ Bounded)
<1>1. Init => IInv /\ Bounded
  BY InitIInv, InitBounded
<1>2. IInv /\ Bounded /\ [Next]_vars => (IInv /\ Bounded)'
  BY NextBounded
<1>3. QED
  BY <1>1, <1>2, PTL DEF Spec

LEMMA RefBound ==
    ASSUME IInv, NEW e \in Entry
    PROVE  ref[e] \in 0..3 * Cardinality(Proc)
<1> DEFINE a == Count(Proc, ip, e)
<1> DEFINE b == Count(Proc, file, e)
<1> DEFINE c == Count(Proc, cwd, e)
<1>1. ref[e] = a + b + c
  BY DEF IInv, RefInv, Pointers, Count
<1>2. /\ a \in Nat /\ b \in Nat /\ c \in Nat /\ Cardinality(Proc) \in Nat
      /\ a <= Cardinality(Proc) /\ b <= Cardinality(Proc) /\ c <= Cardinality(Proc)
  BY Basics, CountBound
<1> HIDE DEF a, b, c
<1>3. QED
  BY <1>1, <1>2

LEMMA RootBound ==
    ASSUME IInv
    PROVE  rootnlink \in 1..Ninodes
<1>1. NamedDirs \in SUBSET Inum /\ Ninodes \in Nat \ {0} /\ rootnlink = 1 + Cardinality(NamedDirs)
  BY InodeAssumption DEF NamedDirs, IInv, RootInv
<1>2. Cardinality(2..Ninodes) = IF 2 > Ninodes THEN 0 ELSE Ninodes - 2 + 1
  BY <1>1, FS_Interval
<1>3. Cardinality(Inum) = Ninodes - 1
  BY <1>1, <1>2 DEF Inum
<1>4. Cardinality(NamedDirs) \in Nat /\ Cardinality(NamedDirs) <= Cardinality(Inum)
  BY <1>1, Basics, FS_Subset, FS_CardinalityType
<1>5. QED
  BY <1>1, <1>3, <1>4

LEMMA TypeHolds ==
    IInv /\ Bounded => TypeOK
<1> SUFFICES ASSUME IInv, Bounded PROVE TypeOK
  OBVIOUS
<1>1. DiskType /\ TableType /\ CopyType /\ ProcType
  BY DEF IInv, TypeInv
<1>2. Cardinality(Name) \in Nat
  BY Basics, FS_CardinalityType
<1>3. ref \in [Entry -> 0..3 * Cardinality(Proc)]
  BY <1>1, RefBound DEF TableType
<1>4. dnlink \in [Inum -> 0..Cardinality(Name) + 1]
  <2>1. \A i \in Inum : dnlink[i] \in 0..Cardinality(Name) + 1
    BY <1>1, <1>2 DEF DiskType, Bounded
  <2>2. QED
    BY <1>1, <2>1 DEF DiskType
<1>5. nlink \in [Entry -> 0..Cardinality(Name) + 1]
  <2>1. \A e \in Entry : nlink[e] \in 0..Cardinality(Name) + 1
    BY <1>1, <1>2 DEF CopyType, Bounded
  <2>2. QED
    BY <1>1, <2>1 DEF CopyType
<1>6. \A f \in {ip, file, cwd} : f \in [Proc -> Entry \cup {Null}]
  BY <1>1 DEF ProcType
<1>7. QED
  BY <1>1, <1>3, <1>4, <1>5, <1>6, RootBound DEF TypeOK, DiskType, TableType, CopyType, ProcType

LEMMA DiskHolds ==
    IInv => DiskConsistent
<1> SUFFICES ASSUME IInv PROVE DiskConsistent
  OBVIOUS
<1>1. ASSUME trans = NoProc, NEW i \in Inum, dtype[i] # "FREE"
      PROVE  /\ dnlink[i] = Cardinality({n \in Name : dir[n] = i})
             /\ dnlink[i] = 0 => Cached(i) # {}
  <2>1. Extra(i) = 0
    <3>1. \A p \in Proc : pc[p] \notin Linking
      BY <1>1, Basics DEF IInv, LocalInv, InTrans, Linking
    <3>2. QED
      BY <3>1 DEF Extra
  <2>2. dnlink[i] = Count(Name, dir, i)
    BY <1>1, <2>1, LinksAre
  <2>3. dnlink[i] = 0 => \E e \in Entry : ref[e] > 0 /\ inum[e] = i
    BY <1>1 DEF IInv, LinkInv
  <2>4. QED
    BY <2>2, <2>3 DEF Count, Cached
<1>2. rootnlink = 1 + Cardinality({i \in Inum : dtype[i] = "DIR" /\ dnlink[i] > 0})
  BY DEF IInv, RootInv, NamedDirs
<1>3. /\ bitmap = UNION {daddrs[i] : i \in Inum}
      /\ \A i, j \in Inum : i # j => daddrs[i] \cap daddrs[j] = {}
      /\ \A e \in Entry : ref[e] > 0 /\ valid[e] => addrs[e] = daddrs[inum[e]]
  BY DEF IInv, BlockInv, CopyInv
<1>4. QED
  BY <1>1, <1>2, <1>3 DEF DiskConsistent

-----------------------------------------------------------------------------
(* The types of the disk, the table and the processes; no panic of iput    *)
(* and unlink.                                                             *)
THEOREM TypeCorrect == Spec => []TypeOK
BY Invariants, TypeHolds, PTL

(* fs.c's ref is the number of pointers to the entry, an i-node in use has *)
(* one entry, and iput frees none that a name, a file, a current directory *)
(* or a call leads to.                                                     *)
THEOREM RefsExact == Spec => []RefsCounted
<1>1. IInv => RefsCounted
  BY DEF IInv, RefsCounted, RefInv, EntryInv, DirInv
<1>2. QED
  BY <1>1, Invariants, PTL

(* Between transactions the link counts are the numbers of names, and no   *)
(* i-node without a name is lost; balloc and bfree never share or lose a   *)
(* block.                                                                  *)
THEOREM DiskSound == Spec => []DiskConsistent
BY Invariants, DiskHolds, PTL
=============================================================================
