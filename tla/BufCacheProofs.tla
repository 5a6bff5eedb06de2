--------------------------- MODULE BufCacheProofs ---------------------------
(***************************************************************************)
(* Proofs about BufCache.tla, for any numbers of buffers, sectors and      *)
(* processes: nobody panics but in bget, when no buffer is left, a sector  *)
(* has one buffer and a buffer one user, no transfer and no wakeup is      *)
(* lost, and the cache implements the store.                               *)
(***************************************************************************)
EXTENDS BufCache, FiniteSetTheorems, SequenceTheorems, TLAPS

\* A process and its buffer: what the flags say at each of its places.
UserInv ==
    \A p \in Proc :
        /\ pc[p] \in {"bget", "bsleep"} => want[p] \in Sector
        /\ pc[p] = "bsleep" => b[p] \in Buf /\ busy[b[p]]
        /\ Uses(p) => b[p] \in Buf /\ want[p] \in Sector
        /\ pc[p] \in {"iderw", "iosleep"} => ~valid[b[p]] \/ dirty[b[p]]
        /\ pc[p] = "iowoken" => valid[b[p]] /\ ~dirty[b[p]]
        /\ pc[p] = "hold" => valid[b[p]]

\* A busy buffer has a user; B_DIRTY implies B_VALID, and B_VALID a sector.
FlagInv ==
    \A x \in Buf :
        /\ busy[x] => \E p \in Proc : Uses(p) /\ b[p] = x
        /\ dirty[x] => valid[x]
        /\ valid[x] => sector[x] \in Sector

\* The requests are those of the processes that sleep in iderw, one each, and
\* the drive's command is the first of them.
Queued(x) == \E i \in DOMAIN idequeue : idequeue[i] = x

QueueInv ==
    /\ \A p \in Proc : pc[p] = "iosleep" => Queued(b[p])
    /\ \A i \in DOMAIN idequeue : \E p \in Proc : pc[p] = "iosleep" /\ b[p] = idequeue[i]
    /\ \A i, j \in DOMAIN idequeue : idequeue[i] = idequeue[j] => i = j
    /\ idequeue = <<>> <=> cmd = NoCmd
    /\ idequeue # <<>> =>
        /\ cmd.sector = sector[Head(idequeue)]
        /\ cmd.op = "write" <=> dirty[Head(idequeue)]
        /\ cmd.data = data[Head(idequeue)]
    /\ irq => idequeue # <<>>

\* Every buffer is in the list.
ListInv == \A x \in Buf : \E i \in DOMAIN mru : mru[i] = x

IInv == TypeOK /\ OneBufferPerSector /\ UserInv /\ FlagInv /\ QueueInv /\ ListInv

\* With reads that do not fail, what is clean is on the disk.
CleanInv ==
    /\ \A x \in Buf : valid[x] /\ ~dirty[x] => disk[sector[x]] = data[x]
    /\ irq /\ dirty[Head(idequeue)] => disk[sector[Head(idequeue)]] = data[Head(idequeue)]

-----------------------------------------------------------------------------
\* The types of the flags, one by one.
LEMMA FlagTypes ==
    ASSUME TypeOK
    PROVE  busy \in [Buf -> BOOLEAN] /\ valid \in [Buf -> BOOLEAN] /\ dirty \in [Buf -> BOOLEAN]
BY DEF TypeOK

\* Several requests wait: what a queue is after a push and after a pop.
LEMMA AppendIs ==
    ASSUME NEW q \in Seq(Buf), NEW x \in Buf
    PROVE  /\ Append(q, x) \in Seq(Buf) /\ Append(q, x) # <<>> /\ Len(Append(q, x)) = Len(q) + 1
           /\ DOMAIN Append(q, x) = DOMAIN q \cup {Len(q) + 1} /\ Len(q) + 1 \notin DOMAIN q
           /\ \A i \in DOMAIN q : Append(q, x)[i] = q[i]
           /\ Append(q, x)[Len(q) + 1] = x
           /\ Head(Append(q, x)) = IF q = <<>> THEN x ELSE Head(q)
<1>1. Append(q, x) \in Seq(Buf) /\ Len(Append(q, x)) = Len(q) + 1 /\ Len(q) \in Nat
  OBVIOUS
<1>2. DOMAIN q = 1..Len(q) /\ DOMAIN Append(q, x) = 1..Len(q) + 1
  BY <1>1
<1>3. \A i \in 1..Len(q) : Append(q, x)[i] = q[i]
  OBVIOUS
<1>4. Append(q, x)[Len(q) + 1] = x
  OBVIOUS
<1>5. q # <<>> => 1 \in 1..Len(q)
  BY <1>1
<1>6. q = <<>> => Len(q) = 0
  OBVIOUS
<1>7. Append(q, x) # <<>>
  BY <1>1
<1>8. Head(Append(q, x)) = Append(q, x)[1] /\ Head(q) = q[1]
  BY <1>7
<1>9. QED
  BY <1>1, <1>2, <1>3, <1>4, <1>5, <1>6, <1>7, <1>8

LEMMA TailIs ==
    ASSUME NEW q \in Seq(Buf), q # <<>>
    PROVE  /\ Tail(q) \in Seq(Buf) /\ Len(Tail(q)) = Len(q) - 1
           /\ 1 \in DOMAIN q /\ Head(q) = q[1]
           /\ \A i \in DOMAIN Tail(q) : i + 1 \in DOMAIN q /\ i + 1 # 1 /\ Tail(q)[i] = q[i + 1]
           /\ \A i \in DOMAIN q : i # 1 => i - 1 \in DOMAIN Tail(q) /\ Tail(q)[i - 1] = q[i]
           /\ Tail(q) # <<>> <=> Len(q) > 1
           /\ Len(q) > 1 => Head(Tail(q)) = q[2] /\ 2 \in DOMAIN q
<1>1. Len(q) \in Nat /\ Len(q) > 0 /\ DOMAIN q = 1..Len(q)
  OBVIOUS
<1>2. Tail(q) \in Seq(Buf) /\ Len(Tail(q)) = Len(q) - 1
  OBVIOUS
<1>3. DOMAIN Tail(q) = 1..Len(q) - 1
  BY <1>1, <1>2
<1>4. \A i \in 1..Len(q) - 1 : Tail(q)[i] = q[i + 1]
  BY <1>1
<1>5. Tail(q) # <<>> <=> Len(q) > 1
  <2>1. Tail(q) = <<>> <=> Len(Tail(q)) = 0
    BY <1>2, EmptySeq
  <2>2. Len(Tail(q)) = 0 <=> ~(Len(q) > 1)
    <3>1. \A k \in Nat : k > 0 => (k - 1 = 0 <=> ~(k > 1))
      OBVIOUS
    <3>2. QED
      BY <1>1, <1>2, <3>1, Zenon
  <2>3. QED
    BY <2>1, <2>2, Zenon
<1>6. Len(q) > 1 => Head(Tail(q)) = q[2]
  BY <1>1, <1>2, <1>4, <1>5
<1>7. Head(q) = q[1]
  OBVIOUS
<1>8. QED
  BY <1>1, <1>2, <1>3, <1>4, <1>5, <1>6, <1>7

\* wakeup moves the sleepers of one buffer, and nobody else.
LEMMA WakeupIs ==
    ASSUME TypeOK, NEW x
    PROVE  /\ wakeup(pc, x) \in [Proc -> PC \ {"panic"}]
           /\ \A p \in Proc :
                wakeup(pc, x)[p] = IF b[p] = x /\ pc[p] = "bsleep" THEN "bget"
                                   ELSE IF b[p] = x /\ pc[p] = "iosleep" THEN "iowoken" ELSE pc[p]
BY DEF wakeup, TypeOK, PC

\* Nobody uses a buffer that is not busy, and a queued one has its user asleep.
LEMMA FreeIs ==
    ASSUME IInv, NEW x \in Buf, ~busy[x]
    PROVE  \A p \in Proc : (Uses(p) => b[p] # x) /\ (pc[p] = "bsleep" => b[p] # x)
BY DEF IInv, OneBufferPerSector, UserInv

\* binit.
LEMMA InitIInv == Init => IInv
<1> SUFFICES ASSUME Init PROVE IInv
  OBVIOUS
<1>0. Cardinality(Proc) \in Nat /\ Zero \in Value
  BY BufCacheAssumption, FS_CardinalityType
<1>1. TypeOK
  <2>1. \A g \in {busy, valid, dirty} : g \in [Buf -> BOOLEAN]
    BY DEF Init
  <2>2. idequeue \in Seq(Buf) /\ Len(idequeue) <= Cardinality(Proc)
    BY <1>0 DEF Init
  <2>3. QED
    BY <1>0, <2>1, <2>2 DEF Init, TypeOK, PC
<1>2. \A p \in Proc : pc[p] = "idle" /\ ~Uses(p)
  BY DEF Init, Uses
<1>3. \A x \in Buf : ~busy[x] /\ ~valid[x] /\ ~dirty[x] /\ sector[x] = NoSector
  BY DEF Init
<1>4. OneBufferPerSector /\ UserInv /\ FlagInv
  BY <1>2, <1>3 DEF OneBufferPerSector, UserInv, FlagInv
<1>5. QueueInv
  BY <1>2 DEF Init, QueueInv, Queued
<1>6. ListInv
  BY DEF Init, ListInv
<1>7. QED
  BY <1>1, <1>4, <1>5, <1>6 DEF IInv

\* bread, called.
LEMMA BreadStep ==
    ASSUME IInv, NEW p \in Proc, NEW s \in Sector, Bread(p, s)
    PROVE  IInv'
<1> USE DEF IInv
<1>1. /\ pc[p] = "idle" /\ pc' = [pc EXCEPT ![p] = "bget"] /\ want' = [want EXCEPT ![p] = s]
      /\ UNCHANGED <<sector, busy, valid, dirty, data, mru, idequeue, disk, cmd, irq, b>>
  BY DEF Bread, goto, bufs, drive
<1>2. TypeOK'
  BY <1>1 DEF TypeOK, PC
<1>3. \A q \in Proc : (Uses(q)' <=> Uses(q)) /\ (Uses(q) => q # p)
  BY <1>1 DEF Uses, TypeOK
<1>4. OneBufferPerSector'
  BY <1>1, <1>3 DEF OneBufferPerSector, TypeOK
<1>5. UserInv'
  BY <1>1, <1>3 DEF UserInv, TypeOK
<1>6. FlagInv'
  BY <1>1, <1>3 DEF FlagInv
<1>7. QueueInv'
  BY <1>1 DEF QueueInv, Queued, TypeOK
<1>8. ListInv'
  BY <1>1 DEF ListInv
<1>9. QED
  BY <1>2, <1>4, <1>5, <1>6, <1>7, <1>8

\* bget finds the sector in the cache.
LEMMA BgetCachedStep ==
    ASSUME IInv, NEW p \in Proc, BgetCached(p)
    PROVE  IInv'
<1> USE DEF IInv
<1>1. PICK x \in Buf :
        /\ sector[x] = want[p] /\ b' = [b EXCEPT ![p] = x]
        /\ IF busy[x]
           THEN pc' = [pc EXCEPT ![p] = "bsleep"] /\ UNCHANGED busy
           ELSE /\ busy' = [busy EXCEPT ![x] = TRUE]
                /\ pc' = [pc EXCEPT ![p] = IF valid[x] THEN "hold" ELSE "iderw"]
  BY DEF BgetCached, goto, Cached
<1>2. /\ pc[p] = "bget"
      /\ UNCHANGED <<sector, valid, dirty, data, mru, idequeue, disk, cmd, irq, want>>
  BY DEF BgetCached, drive
<1>3. want[p] \in Sector
  BY <1>2 DEF UserInv
<1>4. /\ busy \in [Buf -> BOOLEAN] /\ valid \in [Buf -> BOOLEAN] /\ dirty \in [Buf -> BOOLEAN]
      /\ pc \in [Proc -> PC \ {"panic"}] /\ b \in [Proc -> Buf \cup {NoBuf}]
  BY FlagTypes DEF TypeOK
<1>5. ~Uses(p)
  BY <1>2 DEF Uses
<1>6. CASE busy[x]
  <2>1. pc' = [pc EXCEPT ![p] = "bsleep"] /\ UNCHANGED busy
    BY <1>1, <1>6
  <2>2. TypeOK'
    BY <1>1, <1>2, <2>1 DEF TypeOK, PC
  <2>3. \A q \in Proc : /\ Uses(q)' <=> Uses(q)
                        /\ Uses(q) => q # p /\ b'[q] = b[q] /\ pc'[q] = pc[q]
    BY <1>1, <1>2, <1>4, <1>5, <2>1 DEF Uses
  <2>4. OneBufferPerSector'
    BY <1>2, <2>1, <2>3 DEF OneBufferPerSector
  <2>5. UserInv'
    BY <1>1, <1>2, <1>3, <1>4, <1>6, <2>1, <2>3 DEF UserInv
  <2>6. FlagInv'
    BY <1>2, <2>1, <2>3 DEF FlagInv
  <2>7. QueueInv'
    BY <1>1, <1>2, <1>4, <2>1 DEF QueueInv, Queued
  <2>8. ListInv'
    BY <1>2 DEF ListInv
  <2>9. QED
    BY <2>2, <2>4, <2>5, <2>6, <2>7, <2>8
<1>7. CASE ~busy[x]
  <2>1. /\ busy' = [busy EXCEPT ![x] = TRUE]
        /\ pc' = [pc EXCEPT ![p] = IF valid[x] THEN "hold" ELSE "iderw"]
    BY <1>1, <1>7
  <2>2. /\ pc' \in [Proc -> PC \ {"panic"}] /\ pc'[p] = IF valid[x] THEN "hold" ELSE "iderw"
        /\ b'[p] = x /\ \A q \in Proc \ {p} : pc'[q] = pc[q] /\ b'[q] = b[q]
    BY <1>1, <1>4, <2>1 DEF PC
  <2>3. /\ busy' \in [Buf -> BOOLEAN] /\ busy'[x] /\ \A y \in Buf : y # x => busy'[y] = busy[y]
    BY <1>4, <2>1
  <2>4. TypeOK'
    BY <1>1, <1>2, <1>4, <2>2, <2>3 DEF TypeOK
  <2>5. /\ \A q \in Proc \ {p} : (Uses(q)' <=> Uses(q)) /\ (Uses(q) => b[q] # x)
        /\ Uses(p)'
    BY <1>1, <1>7, <2>2, FreeIs DEF Uses
  <2>6. OneBufferPerSector'
    BY <1>1, <1>2, <2>2, <2>3, <2>5 DEF OneBufferPerSector, UserInv
  <2>7. UserInv'
    <3> SUFFICES ASSUME NEW q \in Proc PROVE UserInv!(q)'
      BY DEF UserInv
    <3>1. CASE q = p
      BY <3>1, <1>1, <1>2, <1>3, <1>4, <2>2 DEF FlagInv
    <3>2. CASE q # p
      BY <3>2, <1>2, <2>2, <2>3, <2>5 DEF UserInv
    <3>3. QED
      BY <3>1, <3>2
  <2>8. FlagInv'
    BY <1>2, <1>5, <2>2, <2>3, <2>5 DEF FlagInv
  <2>9. QueueInv'
    <3>1. \A q \in Proc : pc'[q] = "iosleep" <=> pc[q] = "iosleep"
      BY <1>2, <2>2
    <3>2. \A q \in Proc : pc[q] = "iosleep" => b'[q] = b[q]
      BY <1>2, <2>2
    <3>3. QED
      BY <1>2, <3>1, <3>2 DEF QueueInv, Queued
  <2>10. ListInv'
    BY <1>2 DEF ListInv
  <2>11. QED
    BY <2>4, <2>6, <2>7, <2>8, <2>9, <2>10
<1>8. QED
  BY <1>6, <1>7

\* A loop down the list that finds an entry finds a last one.
LEMMA LastIs ==
    ASSUME NEW N \in Nat, NEW S \in SUBSET (1..N), S # {}
    PROVE  (CHOOSE i \in S : \A j \in S : j <= i) \in S
<1> DEFINE D == {d \in Nat : N - d \in S}
<1>1. D \subseteq Nat /\ D # {}
  <2>1. PICK i \in S : TRUE
    OBVIOUS
  <2>2. N - i \in Nat /\ N - (N - i) = i
    OBVIOUS
  <2>3. N - i \in D
    BY <2>2
  <2>4. QED
    BY <2>3
<1>2. PICK m \in D : \A d \in D : ~(<<d, m>> \in OpToRel(<, Nat))
  BY <1>1, NatLessThanWellFounded, WFMin
<1>3. m \in Nat /\ N - m \in S
  OBVIOUS
<1>4. \A j \in S : j <= N - m
  <2> SUFFICES ASSUME NEW j \in S PROVE j <= N - m
    OBVIOUS
  <2>1. j \in Nat /\ N - j \in Nat /\ N - (N - j) = j
    OBVIOUS
  <2>2. N - j \in D
    BY <2>1
  <2>3. ~(N - j < m)
    BY <1>2, <1>3, <2>1, <2>2 DEF OpToRel
  <2>4. QED
    BY <1>3, <2>1, <2>3
<1>5. QED
  BY <1>3, <1>4

\* What bget recycles is free and clean.
LEMMA RecycledIs ==
    ASSUME IInv, Reusable # {}
    PROVE  LET x == mru[CHOOSE i \in Reusable : \A j \in Reusable : j <= i]
           IN  x \in Buf /\ ~busy[x] /\ ~dirty[x]
<1>1. Cardinality(Buf) \in Nat
  BY FS_CardinalityType, BufCacheAssumption
<1>2. mru \in [1..Cardinality(Buf) -> Buf]
  BY DEF IInv, TypeOK
<1>3. Reusable \in SUBSET (1..Cardinality(Buf)) /\ Reusable # {}
  BY <1>2 DEF Reusable
<1>4. (CHOOSE i \in Reusable : \A j \in Reusable : j <= i) \in Reusable
  BY <1>1, <1>3, LastIs
<1>5. QED
  BY <1>2, <1>4 DEF Reusable

\* bget finds no buffer: only its process has moved.
LEMMA NoBuffersIs ==
    ASSUME IInv, NEW p \in Proc, BgetRecycle(p), Reusable = {}
    PROVE  /\ pc[p] = "bget" /\ pc' = [pc EXCEPT ![p] = "nobuffers"]
           /\ UNCHANGED <<sector, busy, valid, dirty, data, mru, idequeue, disk, cmd, irq, want, b>>
           /\ \A q \in Proc : (Uses(q)' <=> Uses(q)) /\ (Uses(q) => q # p)
<1>1. /\ pc[p] = "bget" /\ pc' = [pc EXCEPT ![p] = "nobuffers"]
      /\ UNCHANGED <<sector, busy, valid, dirty, data, mru, idequeue, disk, cmd, irq, want, b>>
  BY DEF BgetRecycle, goto, bufs, drive
<1>2. QED
  BY <1>1 DEF Uses, IInv, TypeOK

LEMMA NoBuffersStep ==
    ASSUME IInv, NEW p \in Proc, BgetRecycle(p), Reusable = {}
    PROVE  IInv'
<1> USE DEF IInv
<1>1. /\ pc[p] = "bget" /\ pc' = [pc EXCEPT ![p] = "nobuffers"]
      /\ UNCHANGED <<sector, busy, valid, dirty, data, mru, idequeue, disk, cmd, irq, want, b>>
      /\ \A q \in Proc : (Uses(q)' <=> Uses(q)) /\ (Uses(q) => q # p)
  BY NoBuffersIs
<1>2. TypeOK'
  BY <1>1 DEF TypeOK, PC
<1>3. OneBufferPerSector'
  BY <1>1 DEF OneBufferPerSector, TypeOK
<1>4. UserInv'
  BY <1>1 DEF UserInv, TypeOK
<1>5. FlagInv'
  BY <1>1 DEF FlagInv
<1>6. QueueInv'
  BY <1>1 DEF QueueInv, Queued, TypeOK
<1>7. ListInv'
  BY <1>1 DEF ListInv
<1>8. QED
  BY <1>2, <1>3, <1>4, <1>5, <1>6, <1>7

\* bget recycles a buffer nobody uses, wants or has pinned.
LEMMA BgetRecycleStep ==
    ASSUME IInv, NEW p \in Proc, BgetRecycle(p), Reusable # {}
    PROVE  IInv'
<1> DEFINE x == mru[CHOOSE i \in Reusable : \A j \in Reusable : j <= i]
<1> USE DEF IInv
<1>1. /\ pc[p] = "bget" /\ \A y \in Buf : sector[y] # want[p]
      /\ UNCHANGED <<mru, idequeue, disk, cmd, irq, want>>
  BY DEF BgetRecycle, Cached, drive
<1>2. /\ sector' = [sector EXCEPT ![x] = want[p]] /\ busy' = [busy EXCEPT ![x] = TRUE]
      /\ valid' = [valid EXCEPT ![x] = FALSE] /\ dirty' = [dirty EXCEPT ![x] = FALSE]
      /\ b' = [b EXCEPT ![p] = x] /\ pc' = [pc EXCEPT ![p] = "iderw"] /\ UNCHANGED data
  BY <1>1 DEF BgetRecycle, goto
<1>3. x \in Buf /\ ~busy[x] /\ ~dirty[x]
  BY RecycledIs
<1> HIDE DEF x
<1>4. want[p] \in Sector /\ NoSector \notin Sector
  BY <1>1, BufCacheAssumption DEF UserInv
<1>5. /\ busy \in [Buf -> BOOLEAN] /\ valid \in [Buf -> BOOLEAN] /\ dirty \in [Buf -> BOOLEAN]
      /\ sector \in [Buf -> Sector \cup {NoSector}]
      /\ pc \in [Proc -> PC \ {"panic"}] /\ b \in [Proc -> Buf \cup {NoBuf}]
  BY FlagTypes DEF TypeOK
<1>6. /\ busy' \in [Buf -> BOOLEAN] /\ valid' \in [Buf -> BOOLEAN] /\ dirty' \in [Buf -> BOOLEAN]
      /\ busy'[x] /\ ~valid'[x] /\ ~dirty'[x]
      /\ \A y \in Buf \ {x} : busy'[y] = busy[y] /\ valid'[y] = valid[y] /\ dirty'[y] = dirty[y]
  BY <1>2, <1>3, <1>5
<1>7. sector'[x] = want[p] /\ \A y \in Buf \ {x} : sector'[y] = sector[y]
  BY <1>2, <1>3, <1>5
<1>8. /\ pc'[p] = "iderw" /\ b'[p] = x
      /\ \A q \in Proc \ {p} : pc'[q] = pc[q] /\ b'[q] = b[q] /\ (Uses(q)' <=> Uses(q))
      /\ Uses(p)' /\ ~Uses(p)
  BY <1>1, <1>2, <1>5 DEF Uses
<1>9. \A q \in Proc \ {p} : (Uses(q) => b[q] # x) /\ (pc[q] = "bsleep" => b[q] # x)
  BY <1>3, FreeIs
<1>10. TypeOK'
  BY <1>1, <1>2, <1>3, <1>4, <1>6 DEF TypeOK, PC
<1>11. OneBufferPerSector'
  <2>1. \A y, z \in Buf : sector'[y] = sector'[z] /\ sector'[y] # NoSector => y = z
    BY <1>1, <1>7 DEF OneBufferPerSector
  <2>2. ASSUME NEW q \in Proc, Uses(q)'
        PROVE  /\ busy'[b'[q]] /\ sector'[b'[q]] = want'[q]
               /\ \A o \in Proc \ {q} : Uses(o)' => b'[o] # b'[q]
    <3>1. CASE q = p
      BY <3>1, <1>1, <1>6, <1>7, <1>8, <1>9
    <3>2. CASE q # p
      <4>1. Uses(q) /\ b'[q] = b[q] /\ b[q] \in Buf \ {x} /\ pc'[q] = pc[q]
        BY <2>2, <3>2, <1>8, <1>9 DEF UserInv
      <4>2. busy[b[q]] /\ sector[b[q]] = want[q] /\ \A o \in Proc \ {q} : Uses(o) => b[o] # b[q]
        BY <4>1 DEF OneBufferPerSector
      <4>3. QED
        BY <4>1, <4>2, <1>1, <1>6, <1>7, <1>8
    <3>3. QED
      BY <3>1, <3>2
  <2>3. QED
    BY <2>1, <2>2 DEF OneBufferPerSector
<1>12. UserInv'
  <2> SUFFICES ASSUME NEW q \in Proc PROVE UserInv!(q)'
    BY DEF UserInv
  <2>1. CASE q = p
    BY <2>1, <1>1, <1>3, <1>4, <1>6, <1>8
  <2>2. CASE q # p
    <3>1. UserInv!(q)
      BY DEF UserInv
    <3>2. (Uses(q) \/ pc[q] = "bsleep") => b[q] \in Buf \ {x}
      BY <2>2, <1>9, <3>1
    <3>3. QED
      BY <2>2, <1>1, <1>6, <1>8, <3>1, <3>2 DEF Uses
  <2>3. QED
    BY <2>1, <2>2
<1>13. FlagInv'
  BY <1>4, <1>6, <1>7, <1>8 DEF FlagInv
<1>14. QueueInv'
  <2>1. \A i \in DOMAIN idequeue : idequeue[i] # x
    BY <1>9, <1>1 DEF QueueInv, Uses
  <2>2. idequeue # <<>> => Head(idequeue) \in Buf \ {x}
    <3>1. idequeue # <<>> => Head(idequeue) = idequeue[1] /\ 1 \in DOMAIN idequeue /\ idequeue[1] \in Buf
      BY TailIs DEF TypeOK
    <3>2. QED
      BY <2>1, <3>1
  <2>3. \A q \in Proc : /\ pc'[q] = "iosleep" <=> pc[q] = "iosleep"
                        /\ pc[q] = "iosleep" => b'[q] = b[q]
    BY <1>1, <1>8
  <2>4. QED
    BY <1>1, <1>2, <1>6, <1>7, <2>2, <2>3 DEF QueueInv, Queued
<1>15. ListInv'
  BY <1>1 DEF ListInv
<1>16. QED
  BY <1>10, <1>11, <1>12, <1>13, <1>14, <1>15

\* The buffer of a process that is not asleep in iderw has no request.
LEMMA NotQueued ==
    ASSUME IInv, NEW p \in Proc, Uses(p), pc[p] # "iosleep"
    PROVE  /\ \A i \in DOMAIN idequeue : idequeue[i] # b[p]
           /\ idequeue # <<>> => Head(idequeue) \in Buf \ {b[p]}
<1> USE DEF IInv
<1>1. \A i \in DOMAIN idequeue : idequeue[i] # b[p]
  BY DEF QueueInv, OneBufferPerSector, Uses
<1>2. idequeue # <<>> => Head(idequeue) = idequeue[1] /\ 1 \in DOMAIN idequeue /\ idequeue[1] \in Buf
  BY TailIs DEF TypeOK
<1>3. QED
  BY <1>1, <1>2

\* A user stores into its buffer and makes it B_DIRTY.
LEMMA StoreStep ==
    ASSUME IInv, NEW p \in Proc, NEW v \in Value, Bwrite(p, v) \/ LogWrite(p, v)
    PROVE  IInv'
<1> DEFINE x == b[p]
<1> USE DEF IInv
<1>1. /\ pc[p] = "hold" /\ data' = [data EXCEPT ![x] = v] /\ dirty' = [dirty EXCEPT ![x] = TRUE]
      /\ UNCHANGED <<sector, busy, valid, mru, idequeue, disk, cmd, irq, want, b>>
  BY DEF Bwrite, LogWrite, drive, local
<1>2. Uses(p)
  BY <1>1 DEF Uses
<1>3. x \in Buf /\ busy[x] /\ valid[x] /\ sector[x] \in Sector
  BY <1>1, <1>2 DEF UserInv, OneBufferPerSector
<1>4. pc' = [pc EXCEPT ![p] = "iderw"] \/ pc' = pc
  BY <1>3 DEF Bwrite, LogWrite, goto, local
<1>5. \A i \in DOMAIN idequeue : idequeue[i] # x
  BY <1>1, <1>2, NotQueued
<1>6. idequeue # <<>> => Head(idequeue) \in Buf \ {x}
  BY <1>1, <1>2, NotQueued
<1> HIDE DEF x
<1>7. /\ busy \in [Buf -> BOOLEAN] /\ valid \in [Buf -> BOOLEAN] /\ dirty \in [Buf -> BOOLEAN]
      /\ pc \in [Proc -> PC \ {"panic"}] /\ data \in [Buf -> Value]
  BY FlagTypes DEF TypeOK
<1>8. /\ dirty' \in [Buf -> BOOLEAN] /\ dirty'[x]
      /\ \A y \in Buf \ {x} : dirty'[y] = dirty[y] /\ data'[y] = data[y]
  BY <1>1, <1>3, <1>7
<1>9. /\ pc' \in [Proc -> PC \ {"panic"}] /\ pc'[p] \in {"hold", "iderw"}
      /\ \A q \in Proc \ {p} : pc'[q] = pc[q]
  BY <1>1, <1>4, <1>7 DEF PC
<1>10. \A q \in Proc : Uses(q)' <=> Uses(q)
  BY <1>1, <1>9 DEF Uses
<1>11. TypeOK'
  BY <1>1, <1>3, <1>7, <1>8, <1>9 DEF TypeOK
<1>12. OneBufferPerSector'
  BY <1>1, <1>10 DEF OneBufferPerSector
<1>13. UserInv'
  <2> SUFFICES ASSUME NEW q \in Proc PROVE UserInv!(q)'
    BY DEF UserInv
  <2>1. CASE q = p
    BY <2>1, <1>1, <1>2, <1>3, <1>8, <1>9, <1>10 DEF UserInv, x
  <2>2. CASE q # p
    <3>1. Uses(q) => b[q] \in Buf \ {x}
      BY <1>2, <2>2 DEF OneBufferPerSector, UserInv, x
    <3>2. QED
      BY <2>2, <1>1, <1>8, <1>9, <1>10, <3>1 DEF UserInv, Uses
  <2>3. QED
    BY <2>1, <2>2
<1>14. FlagInv'
  <2>1. \A y \in Buf : busy'[y] => \E q \in Proc : Uses(q)' /\ b'[q] = y
    BY <1>1, <1>10 DEF FlagInv
  <2>2. QED
    BY <2>1, <1>1, <1>3, <1>8 DEF FlagInv
<1>15. QueueInv'
  <2>1. \A q \in Proc : pc'[q] = "iosleep" <=> pc[q] = "iosleep"
    BY <1>1, <1>9
  <2>2. QED
    BY <1>1, <1>6, <1>8, <2>1 DEF QueueInv, Queued
<1>16. ListInv'
  BY <1>1 DEF ListInv
<1>17. QED
  BY <1>11, <1>12, <1>13, <1>14, <1>15, <1>16

\* Moving a buffer to the front of the list loses none.
LEMMA ToFrontIs ==
    ASSUME NEW N \in Nat, NEW l \in [1..N -> Buf], NEW x \in Buf,
           \A y \in Buf : \E i \in DOMAIN l : l[i] = y
    PROVE  /\ toFront(l, x) \in [1..N -> Buf]
           /\ \A y \in Buf : \E i \in DOMAIN toFront(l, x) : toFront(l, x)[i] = y
<1> DEFINE k == CHOOSE i \in DOMAIN l : l[i] = x
           m == toFront(l, x)
<1>1. k \in 1..N /\ l[k] = x
  OBVIOUS
<1>2. m = [i \in 1..N |-> IF i = 1 THEN x ELSE IF i <= k THEN l[i - 1] ELSE l[i]]
  BY DEF toFront
<1> HIDE DEF k, m
<1>3. \A i \in 1..N : i # 1 /\ i <= k => i - 1 \in 1..N
  OBVIOUS
<1>4. m \in [1..N -> Buf]
  BY <1>2, <1>3
<1>5. ASSUME NEW y \in Buf PROVE \E i \in 1..N : m[i] = y
  <2>1. CASE y = x
    <3>1. 1 \in 1..N
      BY <1>1
    <3>2. QED
      BY <2>1, <1>2, <3>1
  <2>2. CASE y # x
    <3>1. PICK i \in 1..N : l[i] = y
      OBVIOUS
    <3>2. i # k
      BY <3>1, <2>2, <1>1
    <3>3. CASE i < k
      <4>1. i + 1 \in 1..N /\ i + 1 # 1 /\ i + 1 <= k /\ (i + 1) - 1 = i
        BY <3>3, <1>1
      <4>2. m[i + 1] = l[i]
        BY <4>1, <1>2
      <4>3. QED
        BY <4>1, <4>2, <3>1
    <3>4. CASE i > k
      <4>1. i # 1 /\ ~(i <= k)
        BY <3>4, <1>1
      <4>2. QED
        BY <4>1, <1>2, <3>1
    <3>5. QED
      BY <3>2, <3>3, <3>4, <1>1
  <2>3. QED
    BY <2>1, <2>2
<1>6. QED
  BY <1>4, <1>5 DEF m

\* brelse.
LEMMA BrelseStep ==
    ASSUME IInv, NEW p \in Proc, Brelse(p)
    PROVE  IInv'
<1> DEFINE x == b[p]
<1> USE DEF IInv
<1>1. pc[p] = "hold" /\ Uses(p) /\ UNCHANGED <<sector, valid, dirty, data, idequeue, disk, cmd, irq>>
  BY DEF Brelse, Uses, drive
<1>2. x \in Buf /\ busy[x] /\ \A q \in Proc \ {p} : Uses(q) => b[q] # x
  BY <1>1 DEF UserInv, OneBufferPerSector
<1>3. /\ mru' = toFront(mru, x) /\ busy' = [busy EXCEPT ![x] = FALSE]
      /\ pc' = [wakeup(pc, x) EXCEPT ![p] = "idle"] /\ b' = [b EXCEPT ![p] = NoBuf]
      /\ want' = [want EXCEPT ![p] = NoSector]
  BY <1>2 DEF Brelse
<1> HIDE DEF x
<1>4. /\ busy \in [Buf -> BOOLEAN] /\ pc \in [Proc -> PC \ {"panic"}]
      /\ b \in [Proc -> Buf \cup {NoBuf}] /\ want \in [Proc -> Sector \cup {NoSector}]
  BY FlagTypes DEF TypeOK
<1>5. /\ pc' \in [Proc -> PC \ {"panic"}] /\ pc'[p] = "idle"
      /\ \A q \in Proc \ {p} : /\ pc'[q] = IF b[q] = x /\ pc[q] = "bsleep" THEN "bget" ELSE pc[q]
                               /\ b'[q] = b[q] /\ want'[q] = want[q]
  <2>1. \A q \in Proc \ {p} : ~(b[q] = x /\ pc[q] = "iosleep")
    BY <1>2 DEF Uses
  <2>2. QED
    BY <1>3, <1>4, <2>1, WakeupIs DEF PC
<1>6. /\ busy' \in [Buf -> BOOLEAN] /\ ~busy'[x] /\ \A y \in Buf \ {x} : busy'[y] = busy[y]
  BY <1>2, <1>3, <1>4
<1>7. ~Uses(p)' /\ \A q \in Proc \ {p} : Uses(q)' <=> Uses(q)
  BY <1>5 DEF Uses
<1>8. /\ mru' \in [1..Cardinality(Buf) -> Buf]
      /\ \A y \in Buf : \E i \in DOMAIN mru' : mru'[i] = y
  <2>1. Cardinality(Buf) \in Nat /\ mru \in [1..Cardinality(Buf) -> Buf]
    BY FS_CardinalityType, BufCacheAssumption DEF TypeOK
  <2>2. \A y \in Buf : \E i \in DOMAIN mru : mru[i] = y
    BY DEF ListInv
  <2>3. /\ toFront(mru, x) \in [1..Cardinality(Buf) -> Buf]
        /\ \A y \in Buf : \E i \in DOMAIN toFront(mru, x) : toFront(mru, x)[i] = y
    BY <1>2, <2>1, <2>2, ToFrontIs, Zenon
  <2>4. QED
    BY <1>3, <2>3, Zenon
<1>9. TypeOK'
  BY <1>1, <1>3, <1>5, <1>6, <1>8 DEF TypeOK
<1>10. OneBufferPerSector'
  <2>1. \A q \in Proc : Uses(q)' => q # p /\ Uses(q) /\ b'[q] = b[q] /\ want'[q] = want[q] /\ b[q] \in Buf \ {x}
    BY <1>2, <1>5, <1>7 DEF UserInv
  <2>2. QED
    BY <1>1, <1>6, <2>1 DEF OneBufferPerSector
<1>11. UserInv'
  <2> SUFFICES ASSUME NEW q \in Proc PROVE UserInv!(q)'
    BY DEF UserInv
  <2>1. CASE q = p
    BY <2>1, <1>5, <1>7
  <2>2. CASE q # p
    <3>1. UserInv!(q)
      BY DEF UserInv
    <3>2. pc'[q] = "bsleep" => b[q] # x
      BY <2>2, <1>5
    <3>3. QED
      BY <2>2, <1>1, <1>5, <1>6, <1>7, <3>1, <3>2
  <2>3. QED
    BY <2>1, <2>2
<1>12. FlagInv'
  <2>1. ASSUME NEW y \in Buf, busy'[y] PROVE \E q \in Proc : Uses(q)' /\ b'[q] = y
    <3>1. busy[y] /\ y # x
      BY <2>1, <1>6
    <3>2. PICK q \in Proc : Uses(q) /\ b[q] = y
      BY <3>1 DEF FlagInv
    <3>3. q # p
      BY <3>1, <3>2 DEF x
    <3>4. QED
      BY <3>2, <3>3, <1>5, <1>7
  <2>2. QED
    BY <1>1, <2>1 DEF FlagInv
<1>13. \A q \in Proc : /\ pc'[q] = "iosleep" <=> pc[q] = "iosleep"
                       /\ pc'[q] = "iderw" <=> pc[q] = "iderw"
                       /\ pc[q] \in {"iosleep", "iderw"} => b'[q] = b[q]
  BY <1>1, <1>5
<1>14. QueueInv'
  BY <1>1, <1>13 DEF QueueInv, Queued
<1>15. ListInv'
  BY <1>8 DEF ListInv
<1>16. QED
  BY <1>9, <1>10, <1>11, <1>12, <1>14, <1>15

\* There is at most one request for each process.
LEMMA QueueShort ==
    ASSUME NEW q \in Seq(Buf), NEW o \in [Proc -> Buf \cup {NoBuf}],
           \A i, j \in DOMAIN q : q[i] = q[j] => i = j,
           \A i \in DOMAIN q : \E p \in Proc : o[p] = q[i]
    PROVE  Len(q) <= Cardinality(Proc)
<1> DEFINE D == 1..Len(q)
           f == [i \in D |-> CHOOSE p \in Proc : o[p] = q[i]]
<1>1. Len(q) \in Nat /\ DOMAIN q = D
  OBVIOUS
<1>2. \A i \in D : f[i] \in Proc /\ o[f[i]] = q[i]
  BY <1>1
<1>3. f \in [D -> Proc]
  BY <1>2
<1> HIDE DEF f
<1>4. \A i, j \in D : f[i] = f[j] => i = j
  BY <1>1, <1>2
<1>5. f \in Injection(D, Proc)
  BY <1>3, <1>4 DEF Injection, IsInjective
<1>6. IsFiniteSet(Proc)
  BY BufCacheAssumption
<1>7. Cardinality(D) <= Cardinality(Proc)
  BY <1>5, <1>6, FS_Injection
<1>8. Cardinality(D) = IF 1 > Len(q) THEN 0 ELSE Len(q) - 1 + 1
  BY <1>1, FS_Interval
<1>9. Cardinality(Proc) \in Nat
  BY <1>6, FS_CardinalityType
<1> HIDE DEF D
<1>10. QED
  BY <1>1, <1>7, <1>8, <1>9

\* idestart gives the drive a well-formed command for a buffer in use.
LEMMA CommandIs ==
    ASSUME IInv, NEW x \in Buf, sector[x] \in Sector, idestart(x)
    PROVE  /\ cmd' \in [op : {"read", "write"}, sector : Sector, data : Value] /\ cmd' # NoCmd
           /\ cmd'.sector = sector[x] /\ (cmd'.op = "write" <=> dirty[x]) /\ cmd'.data = data[x]
<1>1. data[x] \in Value
  BY DEF IInv, TypeOK
<1>2. cmd' = [op |-> IF dirty[x] THEN "write" ELSE "read", sector |-> sector[x], data |-> data[x]]
  BY DEF idestart
<1>3. cmd'.op \in {"read", "write"} /\ (cmd'.op = "write" <=> dirty[x])
  BY <1>2
<1>4. cmd' # NoCmd
  BY <1>3 DEF NoCmd
<1>5. QED
  BY <1>1, <1>2, <1>3, <1>4

\* iderw queues the buffer and sleeps; it does not panic.
LEMMA IderwStep ==
    ASSUME IInv, NEW p \in Proc, Iderw(p)
    PROVE  IInv'
<1> DEFINE x == b[p]
<1> USE DEF IInv
<1>1. pc[p] = "iderw" /\ Uses(p) /\ UNCHANGED <<sector, busy, valid, dirty, data, mru, disk, irq, want, b>>
  BY DEF Iderw, Uses, bufs
<1>2. x \in Buf /\ busy[x] /\ sector[x] \in Sector /\ (~valid[x] \/ dirty[x])
  BY <1>1 DEF UserInv, OneBufferPerSector
<1>3. \A i \in DOMAIN idequeue : idequeue[i] # x
  BY <1>1, NotQueued
<1>4. /\ idequeue' = Append(idequeue, x) /\ pc' = [pc EXCEPT ![p] = "iosleep"]
      /\ IF idequeue = <<>> THEN idestart(x) ELSE UNCHANGED cmd
  BY <1>2 DEF Iderw, goto
<1>5. idequeue \in Seq(Buf) /\ pc \in [Proc -> PC \ {"panic"}] /\ b \in [Proc -> Buf \cup {NoBuf}]
  BY DEF TypeOK
<1> DEFINE k == Len(idequeue) + 1
<1>6. /\ idequeue' \in Seq(Buf) /\ idequeue' # <<>>
      /\ DOMAIN idequeue' = DOMAIN idequeue \cup {k} /\ k \notin DOMAIN idequeue
      /\ \A i \in DOMAIN idequeue : idequeue'[i] = idequeue[i]
      /\ idequeue'[k] = x
      /\ Head(idequeue') = IF idequeue = <<>> THEN x ELSE Head(idequeue)
  BY <1>2, <1>4, <1>5, AppendIs
<1>7. pc'[p] = "iosleep" /\ \A q \in Proc \ {p} : pc'[q] = pc[q]
  BY <1>4, <1>5
<1>8. \A q \in Proc : Uses(q)' <=> Uses(q)
  BY <1>1, <1>7 DEF Uses
<1>9. idequeue # <<>> => Head(idequeue) \in Buf
  BY <1>5, TailIs
<1>10. QueueInv'
  <2>1. \A q \in Proc : pc'[q] = "iosleep" => Queued(b[q])'
    <3> SUFFICES ASSUME NEW q \in Proc, pc'[q] = "iosleep" PROVE \E i \in DOMAIN idequeue' : idequeue'[i] = b'[q]
      BY <1>1 DEF Queued
    <3>1. CASE q = p
      BY <3>1, <1>1, <1>6
    <3>2. CASE q # p
      BY <3>2, <1>1, <1>6, <1>7 DEF QueueInv, Queued
    <3>3. QED
      BY <3>1, <3>2
  <2>2. \A i \in DOMAIN idequeue' : \E q \in Proc : pc'[q] = "iosleep" /\ b'[q] = idequeue'[i]
    <3> SUFFICES ASSUME NEW i \in DOMAIN idequeue'
                 PROVE  \E q \in Proc : pc'[q] = "iosleep" /\ b'[q] = idequeue'[i]
      OBVIOUS
    <3>1. CASE i = k
      BY <3>1, <1>1, <1>6, <1>7
    <3>2. CASE i # k
      <4>1. PICK q \in Proc : pc[q] = "iosleep" /\ b[q] = idequeue[i]
        BY <3>2, <1>6 DEF QueueInv
      <4>2. QED
        BY <3>2, <4>1, <1>1, <1>6, <1>7
    <3>3. QED
      BY <3>1, <3>2
  <2>3. \A i, j \in DOMAIN idequeue' : idequeue'[i] = idequeue'[j] => i = j
    <3> HIDE DEF k, x
    <3>1. QED
      BY <1>3, <1>6 DEF QueueInv
  <2>4. CASE idequeue = <<>>
    <3>1. cmd' # NoCmd /\ cmd'.sector = sector[x] /\ (cmd'.op = "write" <=> dirty[x]) /\ cmd'.data = data[x]
      BY <1>2, <1>4, <2>4, CommandIs
    <3>2. Head(idequeue') = x
      BY <1>6, <2>4
    <3>3. QED
      BY <1>1, <1>6, <2>1, <2>2, <2>3, <3>1, <3>2 DEF QueueInv
  <2>5. CASE idequeue # <<>>
    <3>1. Head(idequeue') = Head(idequeue) /\ cmd' = cmd
      BY <1>4, <1>6, <2>5
    <3>2. QED
      BY <1>1, <1>6, <2>1, <2>2, <2>3, <2>5, <3>1 DEF QueueInv
  <2>6. QED
    BY <2>4, <2>5
<1>11. TypeOK'
  <2>1. cmd' = NoCmd \/ cmd' \in [op : {"read", "write"}, sector : Sector, data : Value]
    <3>1. CASE idequeue = <<>>
      BY <1>2, <1>4, <3>1, CommandIs
    <3>2. CASE idequeue # <<>>
      BY <1>4, <3>2 DEF TypeOK
    <3>3. QED
      BY <3>1, <3>2
  <2>2. Len(idequeue') <= Cardinality(Proc)
    <3>1. \A i, j \in DOMAIN idequeue' : idequeue'[i] = idequeue'[j] => i = j
      BY <1>10 DEF QueueInv
    <3>2. \A i \in DOMAIN idequeue' : \E q \in Proc : b[q] = idequeue'[i]
      BY <1>1, <1>10 DEF QueueInv
    <3>3. QED
      BY <1>5, <1>6, <3>1, <3>2, QueueShort
  <2>3. QED
    BY <1>1, <1>4, <1>6, <2>1, <2>2 DEF TypeOK, PC
<1>12. OneBufferPerSector'
  BY <1>1, <1>8 DEF OneBufferPerSector
<1>13. UserInv'
  BY <1>1, <1>2, <1>7, <1>8 DEF UserInv
<1>14. FlagInv'
  BY <1>1, <1>8 DEF FlagInv
<1>15. ListInv'
  BY <1>1 DEF ListInv
<1>16. QED
  BY <1>10, <1>11, <1>12, <1>13, <1>14, <1>15

\* iderw, woken: it is never woken for somebody else's sake.
LEMMA IderwWokenStep ==
    ASSUME IInv, NEW p \in Proc, IderwWoken(p)
    PROVE  IInv'
<1> USE DEF IInv
<1>1. /\ pc[p] = "iowoken"
      /\ UNCHANGED <<sector, busy, valid, dirty, data, mru, idequeue, disk, cmd, irq, want, b>>
  BY DEF IderwWoken, bufs, drive
<1>2. valid[b[p]] /\ ~dirty[b[p]]
  BY <1>1 DEF UserInv
<1>3. pc' = [pc EXCEPT ![p] = "hold"]
  BY <1>2 DEF IderwWoken, goto
<1>4. TypeOK'
  BY <1>1, <1>3 DEF TypeOK, PC
<1>5. pc'[p] = "hold" /\ \A q \in Proc \ {p} : pc'[q] = pc[q]
  BY <1>3 DEF TypeOK
<1>6. \A q \in Proc : Uses(q)' <=> Uses(q)
  BY <1>1, <1>5 DEF Uses
<1>7. OneBufferPerSector'
  BY <1>1, <1>6 DEF OneBufferPerSector
<1>8. UserInv'
  BY <1>1, <1>2, <1>5, <1>6 DEF UserInv
<1>9. FlagInv'
  BY <1>1, <1>6 DEF FlagInv
<1>10. QueueInv'
  BY <1>1, <1>5 DEF QueueInv, Queued
<1>11. ListInv'
  BY <1>1 DEF ListInv
<1>12. QED
  BY <1>4, <1>7, <1>8, <1>9, <1>10, <1>11

\* The disk carries out its command.
LEMMA DiskDoneStep ==
    ASSUME IInv, DiskDone
    PROVE  IInv'
<1> USE DEF IInv
<1>1. /\ cmd # NoCmd /\ irq' = TRUE
      /\ disk' = IF cmd.op = "write" THEN [disk EXCEPT ![cmd.sector] = cmd.data] ELSE disk
      /\ UNCHANGED <<sector, busy, valid, dirty, data, mru, idequeue, cmd, pc, want, b>>
  BY DEF DiskDone, bufs, local
<1>2. TypeOK'
  BY <1>1 DEF TypeOK
<1>3. \A q \in Proc : Uses(q)' <=> Uses(q)
  BY <1>1 DEF Uses
<1>4. OneBufferPerSector' /\ UserInv' /\ FlagInv'
  BY <1>1, <1>3 DEF OneBufferPerSector, UserInv, FlagInv
<1>5. QueueInv'
  BY <1>1 DEF QueueInv, Queued
<1>6. ListInv'
  BY <1>1 DEF ListInv
<1>7. QED
  BY <1>2, <1>4, <1>5, <1>6

\* What ideintr does to the buffer of the request that is done, and to its user.
Interrupted(x) ==
    /\ x = Head(idequeue) /\ idequeue # <<>> /\ sector[x] \in Sector /\ cmd.sector = sector[x]
    /\ ~valid[x] \/ dirty[x]
    /\ valid' \in [Buf -> BOOLEAN] /\ dirty' \in [Buf -> BOOLEAN] /\ valid'[x] /\ ~dirty'[x]
    /\ \A y \in Buf \ {x} : valid'[y] = valid[y] /\ dirty'[y] = dirty[y] /\ data'[y] = data[y]
    /\ data' \in [Buf -> Value]
    /\ pc' \in [Proc -> PC \ {"panic"}]
    /\ \A p \in Proc :
        pc'[p] = IF b[p] = x /\ pc[p] = "bsleep" THEN "bget"
                 ELSE IF b[p] = x /\ pc[p] = "iosleep" THEN "iowoken" ELSE pc[p]
    /\ idequeue' = Tail(idequeue) /\ irq' = FALSE
    /\ UNCHANGED <<sector, busy, mru, disk, want, b>>

LEMMA InterruptIs ==
    ASSUME IInv, ideintr
    PROVE  \E x \in Buf : Interrupted(x)
<1> DEFINE x == Head(idequeue)
<1> USE DEF IInv
<1>1. idequeue # <<>> /\ idequeue' = Tail(idequeue) /\ irq' = FALSE
      /\ UNCHANGED <<sector, busy, mru, disk, want, b>>
  BY DEF ideintr
<1>2. /\ valid' = [valid EXCEPT ![x] = TRUE] /\ dirty' = [dirty EXCEPT ![x] = FALSE]
      /\ pc' = wakeup(pc, x)
      /\ data' = data \/ data' = [data EXCEPT ![x] = disk[cmd.sector]]
  BY DEF ideintr
<1>3. x = idequeue[1] /\ 1 \in DOMAIN idequeue /\ x \in Buf
  BY <1>1, TailIs DEF TypeOK
<1>4. PICK u \in Proc : pc[u] = "iosleep" /\ b[u] = x
  BY <1>3 DEF QueueInv
<1>5. sector[x] \in Sector /\ (~valid[x] \/ dirty[x])
  BY <1>4 DEF UserInv, OneBufferPerSector, Uses
<1>6. cmd.sector = sector[x] /\ disk[cmd.sector] \in Value
  BY <1>1, <1>5 DEF QueueInv, TypeOK
<1> HIDE DEF x
<1>7. /\ valid \in [Buf -> BOOLEAN] /\ dirty \in [Buf -> BOOLEAN] /\ data \in [Buf -> Value]
  BY FlagTypes DEF TypeOK
<1>8. /\ valid' \in [Buf -> BOOLEAN] /\ dirty' \in [Buf -> BOOLEAN] /\ valid'[x] /\ ~dirty'[x]
      /\ \A y \in Buf \ {x} : valid'[y] = valid[y] /\ dirty'[y] = dirty[y]
  BY <1>2, <1>3, <1>7
<1>9. data' \in [Buf -> Value] /\ \A y \in Buf \ {x} : data'[y] = data[y]
  BY <1>2, <1>3, <1>6, <1>7
<1>10. x = Head(idequeue)
  BY DEF x
<1>11. /\ pc' \in [Proc -> PC \ {"panic"}]
       /\ \A p \in Proc :
            pc'[p] = IF b[p] = x /\ pc[p] = "bsleep" THEN "bget"
                     ELSE IF b[p] = x /\ pc[p] = "iosleep" THEN "iowoken" ELSE pc[p]
  BY <1>2, WakeupIs
<1>12. Interrupted(x)
  BY <1>1, <1>5, <1>6, <1>8, <1>9, <1>10, <1>11, Zenon DEF Interrupted
<1>13. QED
  BY <1>3, <1>12

\* ideintr.
LEMMA IdeintrStep ==
    ASSUME IInv, ideintr
    PROVE  IInv'
<1> USE DEF IInv
<1>0. PICK x \in Buf : Interrupted(x)
  BY InterruptIs
<1>1. Interrupted(x)!:
  BY <1>0 DEF Interrupted
<1>2. \A p \in Proc : Uses(p)' <=> Uses(p)
  BY <1>1 DEF Uses
<1>3. PICK u \in Proc : pc[u] = "iosleep" /\ b[u] = x
  BY <1>1, TailIs DEF QueueInv, TypeOK
<1>4. \A p \in Proc \ {u} : Uses(p) => b[p] \in Buf \ {x}
  BY <1>3 DEF OneBufferPerSector, UserInv, Uses
<1>5. \A p \in Proc : pc'[p] = "iosleep" <=> pc[p] = "iosleep" /\ p # u
  BY <1>1, <1>3, <1>4 DEF Uses
<1>6. OneBufferPerSector'
  BY <1>1, <1>2 DEF OneBufferPerSector
<1>7. UserInv'
  <2> SUFFICES ASSUME NEW p \in Proc PROVE UserInv!(p)'
    BY DEF UserInv
  <2>1. CASE p = u
    BY <2>1, <1>1, <1>2, <1>3 DEF UserInv, Uses
  <2>2. CASE p # u
    <3>1. UserInv!(p)
      BY DEF UserInv
    <3>2. Uses(p) => pc'[p] = pc[p] /\ b[p] \in Buf \ {x}
      BY <2>2, <1>1, <1>4 DEF Uses
    <3>3. ~Uses(p) => /\ pc'[p] \in {"idle", "bget", "bsleep", "nobuffers"}
                      /\ (pc'[p] = "bsleep" => pc[p] = "bsleep")
                      /\ (pc'[p] = "bget" => pc[p] \in {"bget", "bsleep"})
      BY <1>1 DEF Uses, TypeOK, PC
    <3>4. CASE Uses(p)
      BY <3>1, <3>2, <3>4, <1>1, <1>2 DEF Uses
    <3>5. CASE ~Uses(p)
      BY <3>1, <3>3, <3>5, <1>1, <1>2
    <3>6. QED
      BY <3>4, <3>5
  <2>3. QED
    BY <2>1, <2>2
<1>8. FlagInv'
  <2>1. \A y \in Buf : busy'[y] => \E p \in Proc : Uses(p)' /\ b'[p] = y
    BY <1>1, <1>2 DEF FlagInv
  <2>2. QED
    BY <2>1, <1>1 DEF FlagInv
<1>9. idequeue \in Seq(Buf) /\ idequeue # <<>>
  BY <1>1 DEF TypeOK
<1> DEFINE more == Len(idequeue) > 1
           y == idequeue[2]
<1>10. more => y \in Buf \ {x} /\ sector[y] \in Sector /\ 2 \in DOMAIN idequeue
  <2> SUFFICES ASSUME more PROVE y \in Buf \ {x} /\ sector[y] \in Sector /\ 2 \in DOMAIN idequeue
    OBVIOUS
  <2>1. 2 \in DOMAIN idequeue /\ 1 \in DOMAIN idequeue /\ x = idequeue[1]
    BY <1>1, <1>9, TailIs
  <2>2. PICK p \in Proc : pc[p] = "iosleep" /\ b[p] = y
    BY <2>1 DEF QueueInv
  <2>3. y # x
    BY <2>1 DEF QueueInv
  <2>4. y \in Buf /\ sector[y] \in Sector
    BY <2>2 DEF UserInv, OneBufferPerSector, Uses
  <2>5. QED
    BY <2>1, <2>3, <2>4
<1>11. IF more THEN idestart(y) ELSE cmd' = NoCmd
  BY DEF ideintr
<1>12. /\ cmd' = NoCmd \/ cmd' \in [op : {"read", "write"}, sector : Sector, data : Value]
       /\ ~more <=> cmd' = NoCmd
       /\ more => cmd'.sector = sector[y] /\ (cmd'.op = "write" <=> dirty[y]) /\ cmd'.data = data[y]
  BY <1>10, <1>11, CommandIs
<1> HIDE DEF more, y
<1>13. QueueInv'
  <2>1. /\ \A i \in DOMAIN idequeue' : i + 1 \in DOMAIN idequeue /\ i + 1 # 1 /\ idequeue'[i] = idequeue[i + 1]
        /\ \A i \in DOMAIN idequeue : i # 1 => i - 1 \in DOMAIN idequeue' /\ idequeue'[i - 1] = idequeue[i]
        /\ 1 \in DOMAIN idequeue /\ x = idequeue[1]
        /\ idequeue' \in Seq(Buf)
    BY <1>1, <1>9, TailIs
  <2>2. idequeue' # <<>> <=> more
    BY <1>1, <1>9, TailIs DEF more
  <2>3. more => Head(idequeue') = y
    BY <1>1, <1>9, TailIs DEF more, y
  <2>4. \A p \in Proc : pc'[p] = "iosleep" => Queued(b[p])'
    <3> SUFFICES ASSUME NEW p \in Proc, pc'[p] = "iosleep"
                 PROVE  \E i \in DOMAIN idequeue' : idequeue'[i] = b'[p]
      BY <1>1 DEF Queued
    <3>1. pc[p] = "iosleep" /\ p # u
      BY <1>5
    <3>2. PICK i \in DOMAIN idequeue : idequeue[i] = b[p]
      BY <3>1 DEF QueueInv, Queued
    <3>3. i # 1
      BY <3>1, <3>2, <2>1, <1>4 DEF Uses
    <3>4. i - 1 \in DOMAIN idequeue' /\ idequeue'[i - 1] = b[p]
      BY <3>2, <3>3, <2>1
    <3>5. b' = b
      BY <1>1
    <3>6. QED
      BY <3>4, <3>5
  <2>5. \A i \in DOMAIN idequeue' : \E p \in Proc : pc'[p] = "iosleep" /\ b'[p] = idequeue'[i]
    <3> SUFFICES ASSUME NEW i \in DOMAIN idequeue'
                 PROVE  \E p \in Proc : pc'[p] = "iosleep" /\ b'[p] = idequeue'[i]
      OBVIOUS
    <3>1. PICK p \in Proc : pc[p] = "iosleep" /\ b[p] = idequeue[i + 1]
      BY <2>1 DEF QueueInv
    <3>2. idequeue[i + 1] # x
      BY <2>1 DEF QueueInv
    <3>3. p # u
      BY <3>1, <3>2, <1>3
    <3>4. QED
      BY <3>1, <3>3, <2>1, <1>1, <1>5
  <2>6. \A i, j \in DOMAIN idequeue' : idequeue'[i] = idequeue'[j] => i = j
    <3> SUFFICES ASSUME NEW i \in DOMAIN idequeue', NEW j \in DOMAIN idequeue', idequeue'[i] = idequeue'[j]
                 PROVE  i = j
      OBVIOUS
    <3>1. i + 1 = j + 1
      BY <2>1 DEF QueueInv
    <3>2. i \in Int /\ j \in Int
      BY <2>1
    <3>3. QED
      BY <3>1, <3>2
  <2>7. idequeue' = <<>> <=> cmd' = NoCmd
    BY <2>2, <1>12
  <2>8. idequeue' # <<>> => /\ cmd'.sector = sector'[Head(idequeue')]
                            /\ cmd'.op = "write" <=> dirty'[Head(idequeue')]
                            /\ cmd'.data = data'[Head(idequeue')]
    BY <1>1, <1>10, <1>12, <2>2, <2>3
  <2>9. irq' = FALSE
    BY <1>1
  <2>10. QED
    BY <2>4, <2>5, <2>6, <2>7, <2>8, <2>9, <1>1 DEF QueueInv
<1>14. TypeOK'
  <2>1. idequeue' \in Seq(Buf) /\ Len(idequeue') <= Cardinality(Proc)
    <3>1. idequeue' \in Seq(Buf) /\ Len(idequeue') = Len(idequeue) - 1
      BY <1>1, <1>9, TailIs
    <3>2. Len(idequeue) \in Nat /\ Cardinality(Proc) \in Nat /\ Len(idequeue) <= Cardinality(Proc)
      BY <1>9, FS_CardinalityType, BufCacheAssumption DEF TypeOK
    <3>3. QED
      BY <3>1, <3>2
  <2>2. busy' \in [Buf -> BOOLEAN]
    BY <1>1, FlagTypes
  <2>3. QED
    BY <1>1, <1>12, <2>1, <2>2 DEF TypeOK
<1>15. ListInv'
  BY <1>1 DEF ListInv
<1>16. QED
  BY <1>6, <1>7, <1>8, <1>13, <1>14, <1>15

-----------------------------------------------------------------------------
\* Every step preserves the invariant.
LEMMA NextIInv == IInv /\ [Next]_vars => IInv'
<1> SUFFICES ASSUME IInv, [Next]_vars PROVE IInv'
  OBVIOUS
<1>1. ASSUME NEW p \in Proc, Step(p) PROVE IInv'
  BY <1>1, BgetCachedStep, BgetRecycleStep, NoBuffersStep, IderwStep, IderwWokenStep, BrelseStep DEF Step
<1>2. ASSUME NEW p \in Proc, Call(p) PROVE IInv'
  BY <1>2, BreadStep, StoreStep DEF Call
<1>3. CASE UNCHANGED vars
  <2>1. UNCHANGED <<sector, busy, valid, dirty, data, mru, idequeue, disk, cmd, irq, pc, want, b>>
    BY <1>3 DEF vars, bufs, drive, local
  <2>2. \A p \in Proc : Uses(p)' <=> Uses(p)
    BY <2>1 DEF Uses
  <2>3. TypeOK' /\ OneBufferPerSector' /\ UserInv' /\ FlagInv'
    BY <2>1, <2>2 DEF IInv, TypeOK, OneBufferPerSector, UserInv, FlagInv
  <2>4. QueueInv' /\ ListInv'
    BY <2>1, <2>2 DEF IInv, QueueInv, Queued, ListInv
  <2>5. QED
    BY <2>3, <2>4 DEF IInv
<1>4. QED
  BY <1>1, <1>2, <1>3, DiskDoneStep, IdeintrStep DEF Next, Halted

\* The inductive invariant holds throughout.
LEMMA Invariant == Spec => []IInv
BY InitIInv, NextIInv, PTL DEF Spec

\* Types, and no panic of iderw, bwrite and brelse: they are called with the
\* flags they demand.  bget's panic, when no buffer is left, is not excluded.
THEOREM TypeCorrect == Spec => []TypeOK
<1>1. IInv => TypeOK
  BY DEF IInv
<1>2. QED
  BY <1>1, Invariant, PTL

\* A sector never has two buffers nor a buffer two users, although a process
\* that slept in bget looks the sector up again and the buffer may have been
\* recycled meanwhile (bget, brelse).
THEOREM Exclusive == Spec => []OneBufferPerSector
<1>1. IInv => OneBufferPerSector
  BY DEF IInv
<1>2. QED
  BY <1>1, Invariant, PTL

\* No request and no wakeup is lost between iderw, ideintr and brelse.
THEOREM NoLostWakeup == Spec => []SleepersServed
<1>1. IInv => SleepersServed
  <2> SUFFICES ASSUME IInv PROVE SleepersServed
    OBVIOUS
  <2>1. \A p \in Proc : pc[p] = "iosleep" => \E i \in DOMAIN idequeue : idequeue[i] = b[p]
    BY DEF IInv, QueueInv, Queued
  <2>2. \A p \in Proc : pc[p] = "bsleep" => busy[b[p]]
    BY DEF IInv, UserInv
  <2>3. QED
    BY <2>1, <2>2 DEF SleepersServed, IInv, QueueInv
<1>2. QED
  BY <1>1, Invariant, PTL

-----------------------------------------------------------------------------
\* The store's view: one buffer gives a sector its content, one process uses
\* it.
ContentIs ==
    \A s \in Sector :
        /\ \A x \in Buf : sector[x] = s /\ valid[x] => Content[s] = data[x]
        /\ (\A x \in Buf : ~(sector[x] = s /\ valid[x])) => Content[s] = disk[s]

UserIs ==
    \A s \in Sector :
        /\ \A p \in Proc : Uses(p) /\ sector[b[p]] = s => User[s] = p
        /\ (\A p \in Proc : ~(Uses(p) /\ sector[b[p]] = s)) => User[s] = NoProc

LEMMA ContentNow == IInv => ContentIs
<1> SUFFICES ASSUME IInv, NEW s \in Sector PROVE ContentIs!(s)
  BY DEF ContentIs
<1> DEFINE full == {x \in Cached(s) : valid[x]}
<1>1. Content[s] = IF full # {} THEN data[CHOOSE x \in full : TRUE] ELSE disk[s]
  BY DEF Content
<1>2. \A x \in Buf : x \in full <=> sector[x] = s /\ valid[x]
  BY DEF Cached
<1>3. \A x \in full : x \in Buf
  BY DEF Cached
<1>4. \A x, y \in full : x = y
  BY <1>2, <1>3, BufCacheAssumption DEF IInv, OneBufferPerSector
<1> HIDE DEF full
<1>5. ASSUME NEW x \in Buf, sector[x] = s, valid[x] PROVE Content[s] = data[x]
  <2>1. x \in full
    BY <1>2, <1>5
  <2>2. (CHOOSE y \in full : TRUE) = x
    BY <1>4, <2>1
  <2>3. QED
    BY <1>1, <2>1, <2>2
<1>6. ASSUME \A x \in Buf : ~(sector[x] = s /\ valid[x]) PROVE Content[s] = disk[s]
  <2>1. full = {}
    BY <1>2, <1>3, <1>6
  <2>2. QED
    BY <1>1, <2>1
<1>7. QED
  BY <1>5, <1>6

LEMMA UserNow == IInv => UserIs
<1> SUFFICES ASSUME IInv, NEW s \in Sector PROVE UserIs!(s)
  BY DEF UserIs
<1> DEFINE mine == {p \in Proc : Uses(p) /\ sector[b[p]] = s}
<1>1. User[s] = IF mine # {} THEN CHOOSE p \in mine : TRUE ELSE NoProc
  BY DEF User
<1>2. \A p, q \in mine : p = q
  BY BufCacheAssumption DEF IInv, OneBufferPerSector, UserInv
<1>3. ASSUME NEW p \in Proc, Uses(p), sector[b[p]] = s PROVE User[s] = p
  <2>1. p \in mine
    BY <1>3
  <2> HIDE DEF mine
  <2>2. (CHOOSE q \in mine : TRUE) = p
    BY <1>2, <2>1
  <2>3. QED
    BY <1>1, <2>1, <2>2
<1>4. ASSUME \A p \in Proc : ~(Uses(p) /\ sector[b[p]] = s) PROVE User[s] = NoProc
  <2>1. mine = {}
    BY <1>4
  <2>2. QED
    BY <1>1, <2>1
<1>5. QED
  BY <1>3, <1>4

\* What both views say before and after a step.
LEMMA Views ==
    ASSUME IInv, IInv'
    PROVE  ContentIs /\ ContentIs' /\ UserIs /\ UserIs'
BY ContentNow, UserNow, PTL

\* A step that moves no process in or out of its buffer changes no user.
LEMMA SameUser ==
    ASSUME IInv, IInv',
           \A p \in Proc : Uses(p)' <=> Uses(p),
           \A p \in Proc : Uses(p) => sector'[b'[p]] = sector[b[p]]
    PROVE  UNCHANGED User
<1>1. UserIs /\ UserIs'
  BY Views
<1>2. ASSUME NEW s \in Sector PROVE User'[s] = User[s]
  <2>1. CASE \E p \in Proc : Uses(p) /\ sector[b[p]] = s
    BY <1>1, <2>1 DEF UserIs
  <2>2. CASE ~\E p \in Proc : Uses(p) /\ sector[b[p]] = s
    BY <1>1, <2>2 DEF UserIs
  <2>3. QED
    BY <2>1, <2>2
<1>3. User = [s \in Sector |-> User[s]] /\ User' = [s \in Sector |-> User'[s]]
  BY DEF User
<1>4. QED
  BY <1>2, <1>3

\* A step that leaves the buffers and the disk alone changes no content.
LEMMA SameContent ==
    ASSUME UNCHANGED <<sector, valid, data, disk>>
    PROVE  UNCHANGED Content
BY DEF Content, Cached

\* A process that starts or stops using a sector changes that sector's user.
LEMMA NewUser ==
    ASSUME IInv, IInv', NEW p \in Proc, NEW s \in Sector, NEW v \in {p, NoProc},
           \A q \in Proc \ {p} : /\ Uses(q)' <=> Uses(q)
                                 /\ Uses(q) => sector'[b'[q]] = sector[b[q]] /\ sector[b[q]] # s,
           Uses(p) => sector[b[p]] = s,
           Uses(p)' => sector'[b'[p]] = s,
           IF v = p THEN Uses(p)' ELSE ~Uses(p)'
    PROVE  User' = [User EXCEPT ![s] = v]
<1>1. UserIs /\ UserIs'
  BY Views
<1>2. NoProc # p
  BY BufCacheAssumption
<1>3. User'[s] = v
  <2>1. CASE v = p
    BY <2>1, <1>1 DEF UserIs
  <2>2. CASE v # p
    <3>1. \A q \in Proc : ~(Uses(q)' /\ sector'[b'[q]] = s)
      BY <2>2
    <3>2. QED
      BY <2>2, <3>1, <1>1 DEF UserIs
  <2>3. QED
    BY <2>1, <2>2
<1>4. ASSUME NEW u \in Sector, u # s PROVE User'[u] = User[u]
  <2>1. \A q \in Proc : (Uses(q)' /\ sector'[b'[q]] = u) <=> (Uses(q) /\ sector[b[q]] = u)
    BY <1>4
  <2>2. CASE \E q \in Proc : Uses(q) /\ sector[b[q]] = u
    BY <1>1, <2>1, <2>2 DEF UserIs
  <2>3. CASE ~\E q \in Proc : Uses(q) /\ sector[b[q]] = u
    BY <1>1, <2>1, <2>3 DEF UserIs
  <2>4. QED
    BY <2>2, <2>3
<1>5. User = [u \in Sector |-> User[u]] /\ User' = [u \in Sector |-> User'[u]]
  BY DEF User
<1>6. QED
  BY <1>3, <1>4, <1>5

\* bget takes a buffer that is in the cache: the process becomes the user of
\* its sector; or it sleeps, and nothing changes.
LEMMA BgetCachedRefines ==
    ASSUME IInv, IInv', CleanInv, NEW p \in Proc, BgetCached(p)
    PROVE  CleanInv' /\ (Store!Next \/ UNCHANGED <<Content, User>>)
<1>1. PICK x \in Buf :
        /\ sector[x] = want[p] /\ b' = [b EXCEPT ![p] = x]
        /\ IF busy[x]
           THEN pc' = [pc EXCEPT ![p] = "bsleep"]
           ELSE pc' = [pc EXCEPT ![p] = IF valid[x] THEN "hold" ELSE "iderw"]
  BY DEF BgetCached, goto, Cached
<1>2. pc[p] = "bget" /\ UNCHANGED <<sector, valid, dirty, data, disk, irq, idequeue>>
  BY DEF BgetCached, drive
<1>3. CleanInv' /\ UNCHANGED Content
  BY <1>2, SameContent DEF CleanInv
<1>4. /\ pc \in [Proc -> PC \ {"panic"}] /\ b \in [Proc -> Buf \cup {NoBuf}]
      /\ want[p] \in Sector /\ NoSector \notin Sector
  BY <1>2, BufCacheAssumption DEF IInv, TypeOK, UserInv
<1>5. ~Uses(p)
  BY <1>2 DEF Uses
<1>6. \A q \in Proc \ {p} : (Uses(q)' <=> Uses(q)) /\ b'[q] = b[q]
  BY <1>1, <1>4 DEF Uses
<1>7. CASE busy[x]
  <2>1. \A q \in Proc : Uses(q)' <=> Uses(q)
    BY <1>1, <1>4, <1>5, <1>6, <1>7 DEF Uses
  <2>2. \A q \in Proc : Uses(q) => sector'[b'[q]] = sector[b[q]]
    BY <1>2, <1>5, <1>6
  <2>3. QED
    BY <1>3, <2>1, <2>2, SameUser
<1>8. CASE ~busy[x]
  <2>1. Uses(p)' /\ b'[p] = x
    BY <1>1, <1>4, <1>8 DEF Uses
  <2>2. \A q \in Proc \ {p} : Uses(q) => sector[b[q]] # sector[x]
    BY <1>1, <1>4, <1>8, FreeIs DEF IInv, OneBufferPerSector, UserInv
  <2>3. User' = [User EXCEPT ![want[p]] = p]
    BY <1>1, <1>2, <1>4, <1>5, <1>6, <2>1, <2>2, NewUser
  <2>4. User[want[p]] = NoProc
    <3>1. \A q \in Proc : ~(Uses(q) /\ sector[b[q]] = want[p])
      BY <1>1, <1>5, <2>2
    <3>2. QED
      BY <1>4, <3>1, Views DEF UserIs
  <2>5. QED
    BY <1>3, <1>4, <2>3, <2>4 DEF Store!Next, Store!Take
<1>9. QED
  BY <1>7, <1>8

\* bget panics: the store does not change.
LEMMA NoBuffersRefines ==
    ASSUME IInv, IInv', CleanInv, NEW p \in Proc, BgetRecycle(p), Reusable = {}
    PROVE  CleanInv' /\ UNCHANGED <<Content, User>>
<1>1. /\ UNCHANGED <<sector, valid, dirty, data, disk, irq, idequeue, b>>
      /\ \A q \in Proc : Uses(q)' <=> Uses(q)
  BY NoBuffersIs
<1>2. CleanInv' /\ UNCHANGED Content
  BY <1>1, SameContent DEF CleanInv
<1>3. UNCHANGED User
  BY <1>1, SameUser
<1>4. QED
  BY <1>2, <1>3

\* bget evicts: the content of the sector that leaves the cache is on the disk.
LEMMA BgetRecycleRefines ==
    ASSUME IInv, IInv', CleanInv, NEW p \in Proc, BgetRecycle(p), Reusable # {}
    PROVE  CleanInv' /\ (Store!Next \/ UNCHANGED <<Content, User>>)
<1> DEFINE x == mru[CHOOSE i \in Reusable : \A j \in Reusable : j <= i]
<1>1. /\ pc[p] = "bget" /\ \A y \in Buf : sector[y] # want[p]
      /\ UNCHANGED <<idequeue, disk, irq, want>>
  BY DEF BgetRecycle, Cached, drive
<1>2. /\ sector' = [sector EXCEPT ![x] = want[p]]
      /\ valid' = [valid EXCEPT ![x] = FALSE] /\ dirty' = [dirty EXCEPT ![x] = FALSE]
      /\ b' = [b EXCEPT ![p] = x] /\ pc' = [pc EXCEPT ![p] = "iderw"] /\ UNCHANGED data
  BY <1>1 DEF BgetRecycle, goto
<1>3. x \in Buf /\ ~busy[x] /\ ~dirty[x]
  BY RecycledIs
<1> HIDE DEF x
<1>4. /\ pc \in [Proc -> PC \ {"panic"}] /\ b \in [Proc -> Buf \cup {NoBuf}]
      /\ valid \in [Buf -> BOOLEAN] /\ dirty \in [Buf -> BOOLEAN]
      /\ sector \in [Buf -> Sector \cup {NoSector}]
      /\ want[p] \in Sector /\ NoSector \notin Sector
  BY <1>1, FlagTypes, BufCacheAssumption DEF IInv, TypeOK, UserInv
<1>5. /\ sector'[x] = want[p] /\ ~valid'[x] /\ ~dirty'[x]
      /\ \A y \in Buf \ {x} : sector'[y] = sector[y] /\ valid'[y] = valid[y] /\ dirty'[y] = dirty[y]
  BY <1>2, <1>3, <1>4
<1>6. ~Uses(p) /\ Uses(p)' /\ b'[p] = x /\ \A q \in Proc \ {p} : (Uses(q)' <=> Uses(q)) /\ b'[q] = b[q]
  BY <1>1, <1>2, <1>4 DEF Uses
<1>7. \A q \in Proc : Uses(q) => b[q] \in Buf \ {x}
  BY <1>3, FreeIs DEF IInv, UserInv
<1>8. CleanInv'
  <2>1. \A y \in Buf : valid'[y] /\ ~dirty'[y] => disk'[sector'[y]] = data'[y]
    BY <1>1, <1>2, <1>5 DEF CleanInv
  <2>2. idequeue # <<>> => Head(idequeue) \in Buf \ {x}
    <3>1. idequeue # <<>> => Head(idequeue) = idequeue[1] /\ 1 \in DOMAIN idequeue
      BY TailIs DEF IInv, TypeOK
    <3>2. \A i \in DOMAIN idequeue : idequeue[i] \in Buf \ {x}
      BY <1>7 DEF IInv, QueueInv, Uses
    <3>3. QED
      BY <3>1, <3>2
  <2>3. irq => idequeue # <<>>
    BY DEF IInv, QueueInv
  <2>4. QED
    BY <1>1, <1>2, <1>5, <2>1, <2>2, <2>3 DEF CleanInv
<1>9. UNCHANGED Content
  <2>1. ContentIs /\ ContentIs'
    BY Views
  <2>2. ASSUME NEW s \in Sector PROVE Content'[s] = Content[s]
    <3>1. CASE \E y \in Buf \ {x} : sector[y] = s /\ valid[y]
      BY <3>1, <1>2, <1>5, <2>1 DEF ContentIs
    <3>2. CASE ~\E y \in Buf \ {x} : sector[y] = s /\ valid[y]
      <4>1. Content'[s] = disk[s]
        BY <3>2, <1>1, <1>5, <2>1 DEF ContentIs
      <4>2. CASE sector[x] = s /\ valid[x]
        BY <4>1, <4>2, <1>3, <2>1 DEF ContentIs, CleanInv
      <4>3. CASE ~(sector[x] = s /\ valid[x])
        BY <4>1, <4>3, <3>2, <2>1 DEF ContentIs
      <4>4. QED
        BY <4>2, <4>3
    <3>3. QED
      BY <3>1, <3>2
  <2>3. Content = [s \in Sector |-> Content[s]] /\ Content' = [s \in Sector |-> Content'[s]]
    BY DEF Content
  <2>4. QED
    BY <2>2, <2>3
<1>10. \A q \in Proc : Uses(q) => sector'[b[q]] = sector[b[q]] /\ sector[b[q]] # want[p]
  BY <1>1, <1>5, <1>7
<1>11. User' = [User EXCEPT ![want[p]] = p]
  BY <1>4, <1>5, <1>6, <1>10, NewUser
<1>12. User[want[p]] = NoProc
  <2>1. \A q \in Proc : ~(Uses(q) /\ sector[b[q]] = want[p])
    BY <1>10
  <2>2. QED
    BY <1>4, <2>1, Views DEF UserIs
<1>13. QED
  BY <1>4, <1>8, <1>9, <1>11, <1>12 DEF Store!Next, Store!Take

\* bwrite and log_write store into the user's sector.
LEMMA StoreRefines ==
    ASSUME IInv, IInv', CleanInv, NEW p \in Proc, NEW v \in Value, Bwrite(p, v) \/ LogWrite(p, v)
    PROVE  CleanInv' /\ (Store!Next \/ UNCHANGED <<Content, User>>)
<1> DEFINE x == b[p]
<1>1. /\ pc[p] = "hold" /\ data' = [data EXCEPT ![x] = v] /\ dirty' = [dirty EXCEPT ![x] = TRUE]
      /\ UNCHANGED <<sector, valid, idequeue, disk, irq, b>>
      /\ \A q \in Proc : Uses(q)' <=> Uses(q)
  <2>1. pc' = pc \/ pc' = [pc EXCEPT ![p] = IF busy[x] THEN "iderw" ELSE "panic"]
    BY DEF Bwrite, LogWrite, goto, local
  <2>2. pc[p] = "hold" /\ busy[x] /\ pc \in [Proc -> PC \ {"panic"}]
    BY DEF Bwrite, LogWrite, IInv, TypeOK, OneBufferPerSector, Uses
  <2>3. \A q \in Proc : Uses(q)' <=> Uses(q)
    BY <2>1, <2>2 DEF Uses
  <2>4. QED
    BY <2>2, <2>3 DEF Bwrite, LogWrite, drive, local
<1>2. Uses(p)
  BY <1>1 DEF Uses
<1>3. x \in Buf /\ valid[x] /\ sector[x] \in Sector /\ NoSector \notin Sector
  BY <1>1, <1>2, BufCacheAssumption DEF IInv, UserInv, OneBufferPerSector
<1>4. idequeue # <<>> => Head(idequeue) \in Buf \ {x}
  BY <1>1, <1>2, NotQueued
<1>5. User[sector[x]] = p
  BY <1>2, <1>3, Views DEF UserIs
<1>6. UNCHANGED User
  BY <1>1, SameUser
<1> HIDE DEF x
<1>7. /\ dirty'[x] /\ data'[x] = v
      /\ \A y \in Buf \ {x} : dirty'[y] = dirty[y] /\ data'[y] = data[y]
  <2>1. dirty \in [Buf -> BOOLEAN] /\ data \in [Buf -> Value]
    BY FlagTypes DEF IInv, TypeOK
  <2>2. QED
    BY <1>1, <1>3, <2>1
<1>8. CleanInv'
  <2>1. irq => idequeue # <<>>
    BY DEF IInv, QueueInv
  <2>2. QED
    BY <1>1, <1>4, <1>7, <2>1 DEF CleanInv
<1>9. Content' = [Content EXCEPT ![sector[x]] = v]
  <2>1. ContentIs /\ ContentIs'
    BY Views
  <2>2. Content'[sector[x]] = v
    BY <1>1, <1>3, <1>7, <2>1 DEF ContentIs
  <2>3. ASSUME NEW s \in Sector, s # sector[x] PROVE Content'[s] = Content[s]
    <3>1. CASE \E y \in Buf : sector[y] = s /\ valid[y]
      <4>1. PICK y \in Buf : sector[y] = s /\ valid[y]
        BY <3>1
      <4>2. y # x
        BY <4>1, <2>3
      <4>3. QED
        BY <4>1, <4>2, <1>1, <1>7, <2>1 DEF ContentIs
    <3>2. CASE ~\E y \in Buf : sector[y] = s /\ valid[y]
      BY <3>2, <1>1, <2>1 DEF ContentIs
    <3>3. QED
      BY <3>1, <3>2
  <2>4. Content = [s \in Sector |-> Content[s]] /\ Content' = [s \in Sector |-> Content'[s]]
    BY DEF Content
  <2>5. QED
    BY <2>2, <2>3, <2>4
<1>10. QED
  BY <1>3, <1>5, <1>6, <1>8, <1>9 DEF Store!Next, Store!Store

\* brelse: the user leaves the sector as it is.
LEMMA BrelseRefines ==
    ASSUME IInv, IInv', CleanInv, NEW p \in Proc, Brelse(p)
    PROVE  CleanInv' /\ (Store!Next \/ UNCHANGED <<Content, User>>)
<1> DEFINE x == b[p]
<1>1. pc[p] = "hold" /\ Uses(p) /\ UNCHANGED <<sector, valid, dirty, data, idequeue, disk, irq>>
  BY DEF Brelse, Uses, drive
<1>2. CleanInv' /\ UNCHANGED Content
  BY <1>1, SameContent DEF CleanInv
<1>3. /\ x \in Buf /\ busy[x] /\ sector[x] \in Sector /\ NoSector \notin Sector
      /\ \A q \in Proc \ {p} : Uses(q) => b[q] \in Buf \ {x}
  BY <1>1, BufCacheAssumption DEF IInv, UserInv, OneBufferPerSector
<1>4. pc' = [wakeup(pc, x) EXCEPT ![p] = "idle"] /\ b' = [b EXCEPT ![p] = NoBuf]
  BY <1>3 DEF Brelse
<1>5. \A q \in Proc \ {p} : sector[x] # sector[b[q]] \/ ~Uses(q)
  BY <1>3 DEF IInv, OneBufferPerSector
<1>6. User[sector[x]] = p
  BY <1>1, <1>3, Views DEF UserIs
<1> HIDE DEF x
<1>7. ~Uses(p)' /\ \A q \in Proc \ {p} : (Uses(q)' <=> Uses(q)) /\ b'[q] = b[q]
  BY <1>4, WakeupIs DEF Uses, IInv, TypeOK
<1>8. User' = [User EXCEPT ![sector[x]] = NoProc]
  <2>1. NoProc # p /\ sector[b[p]] = sector[x]
    BY BufCacheAssumption DEF x
  <2>2. QED
    BY <1>1, <1>3, <1>5, <1>7, <2>1, NewUser
<1>9. QED
  BY <1>2, <1>3, <1>6, <1>8 DEF Store!Next, Store!Return

\* The disk stores what the cache holds already.
LEMMA DiskDoneRefines ==
    ASSUME IInv, IInv', CleanInv, DiskDone
    PROVE  CleanInv' /\ UNCHANGED <<Content, User>>
<1> DEFINE x == Head(idequeue)
<1>1. /\ cmd # NoCmd
      /\ disk' = IF cmd.op = "write" THEN [disk EXCEPT ![cmd.sector] = cmd.data] ELSE disk
      /\ UNCHANGED <<sector, valid, dirty, data, idequeue, pc, b>>
  BY DEF DiskDone, bufs, local
<1>2. /\ idequeue # <<>> /\ cmd.sector = sector[x] /\ (cmd.op = "write" <=> dirty[x])
      /\ cmd.data = data[x]
  BY <1>1 DEF IInv, QueueInv
<1>3. x \in Buf /\ disk \in [Sector -> Value] /\ NoSector \notin Sector
  BY <1>2, TailIs, BufCacheAssumption DEF IInv, TypeOK
<1>4. (dirty[x] => valid[x]) /\ (valid[x] => sector[x] \in Sector)
  BY <1>3 DEF IInv, FlagInv
<1> HIDE DEF x
<1>5. /\ dirty[x] => disk'[sector[x]] = data[x]
      /\ \A s \in Sector : (s = sector[x] /\ dirty[x]) \/ disk'[s] = disk[s]
  BY <1>1, <1>2, <1>3, <1>4
<1>6. CleanInv'
  <2>1. ASSUME NEW y \in Buf, valid[y], ~dirty[y] PROVE disk'[sector[y]] = data[y]
    <3>1. sector[y] \in Sector /\ disk[sector[y]] = data[y]
      BY <2>1 DEF IInv, FlagInv, CleanInv
    <3>2. dirty[x] => sector[y] # sector[x]
      BY <2>1, <3>1, <1>3 DEF IInv, OneBufferPerSector
    <3>3. QED
      BY <3>1, <3>2, <1>5
  <2>2. x = Head(idequeue)
    BY DEF x
  <2>3. QED
    BY <1>1, <1>5, <2>1, <2>2 DEF CleanInv
<1>7. UNCHANGED Content
  <2>1. ContentIs /\ ContentIs'
    BY Views
  <2>2. ASSUME NEW s \in Sector PROVE Content'[s] = Content[s]
    <3>1. CASE \E y \in Buf : sector[y] = s /\ valid[y]
      BY <3>1, <1>1, <2>1 DEF ContentIs
    <3>2. CASE ~\E y \in Buf : sector[y] = s /\ valid[y]
      <4>1. disk'[s] = disk[s]
        BY <3>2, <1>3, <1>4, <1>5
      <4>2. QED
        BY <3>2, <4>1, <1>1, <2>1 DEF ContentIs
    <3>3. QED
      BY <3>1, <3>2
  <2>3. Content = [s \in Sector |-> Content[s]] /\ Content' = [s \in Sector |-> Content'[s]]
    BY DEF Content
  <2>4. QED
    BY <2>2, <2>3
<1>8. UNCHANGED User
  BY <1>1 DEF User, Uses
<1>9. QED
  BY <1>6, <1>7, <1>8

\* ideintr: a read gives the buffer the content of its sector.
LEMMA IdeintrRefines ==
    ASSUME ReadSucceeds = {TRUE}, IInv, IInv', CleanInv, ideintr
    PROVE  CleanInv' /\ UNCHANGED <<Content, User>>
<1>0. PICK x \in Buf : Interrupted(x)
  BY InterruptIs
<1>1. Interrupted(x)!:
  BY <1>0 DEF Interrupted
<1>2. irq /\ IF dirty[x] THEN data' = data ELSE data' = [data EXCEPT ![x] = disk[sector[x]]]
  BY <1>1 DEF ideintr
<1>3. data \in [Buf -> Value] /\ NoSector \notin Sector
  BY BufCacheAssumption DEF IInv, TypeOK
<1>4. data'[x] = IF dirty[x] THEN data[x] ELSE disk[sector[x]]
  BY <1>2, <1>3
<1>5. dirty[x] => disk[sector[x]] = data[x]
  BY <1>1, <1>2 DEF CleanInv
<1>6. CleanInv'
  <2>1. ASSUME NEW y \in Buf, valid'[y], ~dirty'[y] PROVE disk[sector[y]] = data'[y]
    <3>1. CASE y = x
      BY <3>1, <1>4, <1>5
    <3>2. CASE y # x
      BY <2>1, <3>2, <1>1 DEF CleanInv
    <3>3. QED
      BY <3>1, <3>2
  <2>2. QED
    BY <1>1, <2>1 DEF CleanInv
<1>7. UNCHANGED Content
  <2>1. ContentIs /\ ContentIs'
    BY Views
  <2>2. \A y \in Buf : sector[y] = sector[x] => y = x
    BY <1>1, <1>3 DEF IInv, OneBufferPerSector
  <2>3. ASSUME NEW s \in Sector PROVE Content'[s] = Content[s]
    <3>1. CASE s = sector[x]
      <4>1. Content'[s] = data'[x]
        BY <3>1, <1>1, <2>1 DEF ContentIs
      <4>2. CASE dirty[x]
        <5>1. valid[x]
          BY <4>2 DEF IInv, FlagInv
        <5>2. QED
          BY <3>1, <4>1, <4>2, <5>1, <1>4, <2>1 DEF ContentIs
      <4>3. CASE ~dirty[x]
        <5>1. Content[s] = disk[s]
          BY <3>1, <4>3, <1>1, <2>1, <2>2 DEF ContentIs
        <5>2. QED
          BY <3>1, <4>1, <4>3, <5>1, <1>4
      <4>4. QED
        BY <4>2, <4>3
    <3>2. CASE s # sector[x]
      <4>1. \A y \in Buf : sector[y] = s => y # x /\ sector'[y] = s /\ valid'[y] = valid[y] /\ data'[y] = data[y]
        BY <3>2, <1>1
      <4>2. CASE \E y \in Buf : sector[y] = s /\ valid[y]
        BY <4>1, <4>2, <2>1 DEF ContentIs
      <4>3. CASE ~\E y \in Buf : sector[y] = s /\ valid[y]
        <5>1. \A y \in Buf : ~(sector'[y] = s /\ valid'[y])
          BY <4>1, <4>3, <1>1
        <5>2. Content'[s] = disk'[s] /\ Content[s] = disk[s]
          BY <4>3, <5>1, <2>1 DEF ContentIs
        <5>3. QED
          BY <5>2, <1>1
      <4>4. QED
        BY <4>2, <4>3
    <3>3. QED
      BY <3>1, <3>2
  <2>4. Content = [s \in Sector |-> Content[s]] /\ Content' = [s \in Sector |-> Content'[s]]
    BY DEF Content
  <2>5. QED
    BY <2>3, <2>4
<1>8. UNCHANGED User
  <2>1. \A p \in Proc : Uses(p)' <=> Uses(p)
    BY <1>1 DEF Uses
  <2>2. QED
    BY <1>1, <2>1, SameUser
<1>9. QED
  BY <1>6, <1>7, <1>8

\* What the other steps leave alone.
LEMMA OtherRefines ==
    ASSUME IInv, IInv', CleanInv, NEW p \in Proc,
           (\E s \in Sector : Bread(p, s)) \/ Iderw(p) \/ IderwWoken(p)
    PROVE  CleanInv' /\ UNCHANGED <<Content, User>>
<1>1. UNCHANGED <<sector, valid, dirty, data, disk, irq, b>>
  BY DEF Bread, Iderw, IderwWoken, bufs, drive
<1>2. irq /\ idequeue # <<>> => Head(idequeue') = Head(idequeue)
  <2>1. CASE Iderw(p)
    <3>1. idequeue \in Seq(Buf) /\ b[p] \in Buf
      BY <2>1 DEF Iderw, IInv, TypeOK, UserInv, Uses
    <3>2. idequeue' = idequeue \/ idequeue' = Append(idequeue, b[p])
      BY <2>1 DEF Iderw
    <3>3. QED
      BY <3>1, <3>2, AppendIs
  <2>2. CASE ~Iderw(p)
    BY <2>2 DEF Bread, IderwWoken
  <2>3. QED
    BY <2>1, <2>2
<1>3. CleanInv'
  BY <1>1, <1>2 DEF CleanInv, IInv, QueueInv
<1>4. \A q \in Proc : Uses(q)' <=> Uses(q)
  <2>1. \/ /\ pc[p] = "idle"
           /\ pc' = [pc EXCEPT ![p] = "bget"]
        \/ /\ pc[p] \in {"iderw", "iowoken"}
           /\ \E to \in {"iosleep", "hold", "panic"} : pc' = [pc EXCEPT ![p] = to]
    BY DEF Bread, Iderw, IderwWoken, goto
  <2>2. pc \in [Proc -> PC \ {"panic"}] /\ pc' \in [Proc -> PC \ {"panic"}]
    BY DEF IInv, TypeOK
  <2>3. QED
    BY <2>1, <2>2 DEF Uses
<1>5. QED
  BY <1>1, <1>3, <1>4, SameContent, SameUser

(* The cache and the driver implement a store with one user per sector,    *)
(* for any numbers of buffers, sectors and processes, when reads of the    *)
(* disk do not fail: no write is lost to an eviction, a queued transfer or *)
(* a recycled buffer, and nobody is shown an old content.                  *)
THEOREM Refinement ==
    ASSUME ReadSucceeds = {TRUE}
    PROVE  Spec => ImplementsBlockStore
<1>1. Init => Store!Init /\ CleanInv
  <2> SUFFICES ASSUME Init PROVE Store!Init /\ CleanInv
    OBVIOUS
  <2>1. ContentIs /\ UserIs
    BY InitIInv, ContentNow, UserNow
  <2>2. \A x \in Buf : ~valid[x]
    BY DEF Init
  <2>3. \A p \in Proc : ~Uses(p)
    BY DEF Init, Uses
  <2>4. \A s \in Sector : Content[s] = Zero /\ User[s] = NoProc
    BY <2>1, <2>2, <2>3 DEF ContentIs, UserIs, Init
  <2>5. Content = [s \in Sector |-> Content[s]] /\ User = [s \in Sector |-> User[s]]
    BY DEF Content, User
  <2>6. CleanInv
    BY <2>2 DEF CleanInv, Init
  <2>7. QED
    BY <2>4, <2>5, <2>6 DEF Store!Init
<1>2. IInv /\ IInv' /\ CleanInv /\ [Next]_vars => CleanInv' /\ [Store!Next]_(Store!vars)
  <2> SUFFICES ASSUME IInv, IInv', CleanInv, [Next]_vars
               PROVE  CleanInv' /\ (Store!Next \/ UNCHANGED <<Content, User>>)
    BY DEF Store!vars
  <2>1. CASE UNCHANGED vars
    <3>1. UNCHANGED <<sector, valid, dirty, data, idequeue, disk, irq, pc, b>>
      BY <2>1 DEF vars, bufs, drive, local
    <3>2. QED
      BY <3>1, SameContent DEF CleanInv, User, Uses
  <2>2. ASSUME NEW p \in Proc, Step(p)
        PROVE  CleanInv' /\ (Store!Next \/ UNCHANGED <<Content, User>>)
    BY <2>2, BgetCachedRefines, BgetRecycleRefines, NoBuffersRefines, BrelseRefines, OtherRefines DEF Step
  <2>3. ASSUME NEW p \in Proc, Call(p)
        PROVE  CleanInv' /\ (Store!Next \/ UNCHANGED <<Content, User>>)
    BY <2>3, StoreRefines, OtherRefines DEF Call
  <2>4. QED
    BY <2>1, <2>2, <2>3, DiskDoneRefines, IdeintrRefines DEF Next, Halted
<1>3. QED
  BY <1>1, <1>2, InitIInv, NextIInv, PTL DEF Spec, ImplementsBlockStore, Store!Spec

=============================================================================
