----------------------------- MODULE LogProofs -----------------------------
(***************************************************************************)
(* Proofs about Log.tla, for any sets of blocks, values and processes and  *)
(* any log that has room for the largest transaction: one transaction at a *)
(* time, and the log implements an atomic disk across crashes.             *)
(***************************************************************************)
EXTENDS Log, TLAPS

\* Who may be where: one process in a transaction, or the first one in
\* recovery while the others have not started, or nobody.
Where ==
    \/ /\ busy
       /\ \E p \in Proc : /\ pc[p] \in {"trans", "install", "end"}
                          /\ \A q \in Proc \ {p} : pc[q] \in {"idle", "asleep", "woken"}
    \/ /\ ~busy
       /\ pc[FirstProc] \in {"boot", "install"}
       /\ \A q \in Proc \ {FirstProc} : pc[q] = "down"
    \/ ~busy /\ \A p \in Proc : pc[p] \in {"idle", "woken"}

Installing == \E p \in Proc : pc[p] = "install"

\* The header on disk and the one in memory: each names a block once, the
\* disk's is empty unless it is being installed or waits for a reboot, and
\* the two agree while install_trans runs.
HeaderInv ==
    /\ n <= MaxBlocks /\ hn <= MaxBlocks
    /\ \A i, j \in 1..n : sector[i] = sector[j] => i = j
    /\ \A i, j \in 1..hn : hsector[i] = hsector[j] => i = j
    /\ n # 0 => \E p \in Proc : pc[p] \in {"trans", "install"}
    /\ hn # 0 => \E p \in Proc : pc[p] \in {"install", "boot"}
    /\ Installing => n = hn /\ tail <= n + 1 /\ \A i \in 1..n : sector[i] = hsector[i]

\* Log sector i has yet to be copied to its block.
Pending(i) == Installing => tail <= i

\* A buffer is pinned exactly while its log sector is pending in a running
\* transaction, and then holds what the log holds; any other buffer holds
\* what the home sector holds, and so does a log sector already installed.
CacheInv ==
    /\ \A b \in Block : dirty[b] <=> (busy /\ \E i \in 1..n : sector[i] = b /\ Pending(i))
    /\ \A i \in 1..n : busy /\ Pending(i) => cache[sector[i]] = logdata[i]
    /\ \A b \in Block : ~dirty[b] => cache[b] \in {NoValue, home[b]}
    /\ \A i \in 1..n : ~Pending(i) => home[sector[i]] = logdata[i]

IInv == TypeOK /\ Where /\ HeaderInv /\ CacheInv


-----------------------------------------------------------------------------
\* The block a crash or mkfs leaves in an unused slot is a block.
LEMMA SomeBlock == (CHOOSE b \in Block : TRUE) \in Block
BY LogAssumption

\* The slot log_write picks holds the block already, or is the next one.
LEMMA SlotOfBlock ==
    ASSUME TypeOK, NEW b \in Block
    PROVE  \/ SlotOf(b) \in 1..n /\ sector[SlotOf(b)] = b
           \/ SlotOf(b) = n + 1 /\ \A i \in 1..n : sector[i] # b
BY DEF SlotOf

\* The first process finds an empty log, or one it has to install.
LEMMA InitIInv == Init => IInv
<1> SUFFICES ASSUME Init PROVE IInv
  OBVIOUS
<1>1. hsector \in [LogIndex -> Block]
  BY SomeBlock DEF Init
<1>2. TypeOK
  <2>1. busy \in BOOLEAN /\ dirty \in [Block -> BOOLEAN]
    BY DEF Init
  <2>2. pc \in [Proc -> PC \ {"panic"}]
    BY DEF Init, PC
  <2>3. QED
    BY <1>1, <2>1, <2>2, LogAssumption DEF Init, TypeOK, LogIndex
<1>3. Where
  BY LogAssumption DEF Init, Where
<1>4. HeaderInv /\ CacheInv
  BY LogAssumption DEF Init, HeaderInv, CacheInv, Installing
<1>5. QED
  BY <1>2, <1>3, <1>4 DEF IInv

\* What the place of one process says about the others.
LEMMA Alone ==
    ASSUME IInv, NEW p \in Proc
    PROVE  /\ pc[p] \in {"trans", "end"} =>
                 busy /\ \A q \in Proc \ {p} : pc[q] \in {"idle", "asleep", "woken"}
           /\ pc[p] = "install" => \A q \in Proc \ {p} : 
                 pc[q] \in IF busy THEN {"idle", "asleep", "woken"} ELSE {"down"}
           /\ pc[p] = "install" /\ ~busy => p = FirstProc
           /\ pc[p] \in {"boot", "down"} =>
                 /\ ~busy /\ pc[FirstProc] \in {"boot", "install"}
                 /\ \A q \in Proc \ {FirstProc} : pc[q] = "down"
           /\ pc[p] \in {"idle", "woken"} /\ ~busy => \A q \in Proc : pc[q] \in {"idle", "woken"}
BY LogAssumption DEF IInv, Where

\* Reading a block into the cache.
LEMMA BreadStep ==
    ASSUME IInv, NEW b \in Block, Bread(b)
    PROVE  IInv'
<1> USE DEF IInv, Bread, disk, bufs, lh
<1>1. TypeOK'
  BY DEF TypeOK
<1>2. Where' /\ HeaderInv'
  BY DEF Where, HeaderInv, Installing
<1>3. CacheInv'
  <2>1. ~dirty[b]
    BY LogAssumption DEF CacheInv, TypeOK, HeaderInv, LogIndex
  <2>2. QED
    BY <2>1 DEF CacheInv, TypeOK, Pending, Installing, HeaderInv, LogIndex
<1>4. QED
  BY <1>1, <1>2, <1>3

\* Eviction: only of a buffer the log has not pinned.
LEMMA EvictStep ==
    ASSUME IInv, NEW b \in Block, Evict(b)
    PROVE  IInv'
<1> USE DEF IInv, Evict, disk, bufs, lh
<1>1. TypeOK'
  BY DEF TypeOK
<1>2. Where' /\ HeaderInv'
  BY DEF Where, HeaderInv, Installing
<1>3. CacheInv'
  BY DEF CacheInv, TypeOK, Pending, Installing, HeaderInv, LogIndex
<1>4. QED
  BY <1>1, <1>2, <1>3

\* begin_trans.
LEMMA BeginStep ==
    ASSUME IInv, NEW p \in Proc, BeginTrans(p)
    PROVE  IInv'
<1> USE DEF IInv, BeginTrans, goto, disk, bufs, lh
<1>1. TypeOK'
  BY DEF TypeOK, PC
<1>2. CASE busy
  <2>1. PICK w \in Proc : /\ pc[w] \in {"trans", "install", "end"}
                          /\ \A q \in Proc \ {w} : pc[q] \in {"idle", "asleep", "woken"}
    BY <1>2 DEF Where
  <2>2. w # p /\ pc' = [pc EXCEPT ![p] = "asleep"] /\ busy'
    BY <1>2, <2>1
  <2>3. Where'
    BY <2>1, <2>2 DEF Where, TypeOK
  <2>4. HeaderInv' /\ (Installing' <=> Installing)
    BY <2>2, <2>1 DEF HeaderInv, Installing, TypeOK
  <2>5. CacheInv'
    BY <1>2, <2>2, <2>4 DEF CacheInv, Pending
  <2>6. QED
    BY <1>1, <2>3, <2>4, <2>5
<1>3. CASE ~busy
  <2>1. \A q \in Proc : pc[q] \in {"idle", "woken"}
    BY <1>3, Alone
  <2>2. n = 0 /\ hn = 0 /\ ~Installing
    BY <2>1 DEF HeaderInv, TypeOK, Installing
  <2>3. busy' /\ pc' = [pc EXCEPT ![p] = "trans"]
    BY <1>3
  <2>4. Where' /\ ~Installing'
    BY <2>1, <2>3 DEF Where, TypeOK, Installing
  <2>5. HeaderInv'
    BY <2>2, <2>4 DEF HeaderInv
  <2>6. CacheInv'
    BY <2>2, <2>4 DEF CacheInv, TypeOK
  <2>7. QED
    BY <1>1, <2>4, <2>5, <2>6
<1>4. QED
  BY <1>2, <1>3 DEF TypeOK

\* log_write: it never panics, its slot is free or the block's own, and the
\* buffer it pins holds what it wrote to the log.
LEMMA WriteStep ==
    ASSUME IInv, NEW p \in Proc, NEW b \in Block, NEW v \in Value, LogWrite(p, b, v)
    PROVE  /\ IInv'
           /\ cache' = [cache EXCEPT ![b] = v]
           /\ UNCHANGED <<home, hn, hsector, busy, pc, tail>>
<1> DEFINE s == SlotOf(b)
<1> USE DEF IInv
<1>1. busy /\ \A q \in Proc \ {p} : pc[q] \in {"idle", "asleep", "woken"}
  BY Alone DEF LogWrite
<1>2. pc[p] = "trans" /\ ~Installing
  BY <1>1 DEF LogWrite, Installing
<1>3. s <= MaxBlocks /\ \/ s \in 1..n /\ sector[s] = b
                        \/ s = n + 1 /\ \A i \in 1..n : sector[i] # b
  BY SlotOfBlock DEF LogWrite, Fits
<1> HIDE DEF s
<1>4. s \in LogIndex /\ s \in Nat /\ n \in Nat /\ n <= MaxBlocks
  BY <1>3, LogAssumption DEF TypeOK, LogIndex, HeaderInv
<1>5. ~(n >= LOGSIZE \/ n >= Size - 1 \/ ~busy)
  BY <1>1, <1>3, <1>4, LogAssumption DEF TypeOK
<1>6. /\ sector' = [sector EXCEPT ![s] = b]
      /\ logdata' = [logdata EXCEPT ![s] = v]
      /\ n' = IF s = n + 1 THEN n + 1 ELSE n
      /\ dirty' = [dirty EXCEPT ![b] = TRUE]
      /\ cache' = [cache EXCEPT ![b] = v]
      /\ UNCHANGED <<home, hn, hsector, busy, pc, tail>>
  BY <1>5 DEF LogWrite, s
<1>7. TypeOK'
  BY <1>3, <1>4, <1>6, LogAssumption DEF TypeOK, LogIndex
<1>8. Where' /\ ~Installing'
  BY <1>2, <1>6 DEF Where, Installing
<1>9. n' \in Nat /\ n' <= MaxBlocks /\ 1..n' = (1..n) \cup {s} /\ 1..n' \subseteq LogIndex
  BY <1>3, <1>4, <1>6, LogAssumption DEF LogIndex
<1>10. /\ sector'[s] = b /\ logdata'[s] = v
       /\ \A i \in 1..n' : i # s => /\ i \in 1..n /\ sector[i] # b
                                    /\ sector'[i] = sector[i] /\ logdata'[i] = logdata[i]
  BY <1>3, <1>4, <1>6, <1>9 DEF TypeOK, HeaderInv
<1>11. HeaderInv'
  <2>1. \A i, j \in 1..n' : sector'[i] = sector'[j] => i = j
    BY <1>9, <1>10 DEF HeaderInv
  <2>2. QED
    BY <2>1, <1>2, <1>6, <1>8, <1>9 DEF HeaderInv, TypeOK
<1>12. CacheInv'
  <2>1. \A c \in Block : dirty'[c] <=> \E i \in 1..n' : sector'[i] = c
    <3> SUFFICES ASSUME NEW c \in Block
                 PROVE  dirty'[c] <=> \E i \in 1..n' : sector'[i] = c
      OBVIOUS
    <3>1. CASE c = b
      BY <3>1, <1>6, <1>9, <1>10 DEF TypeOK
    <3>2. CASE c # b
      <4>1. dirty'[c] <=> dirty[c]
        BY <3>2, <1>6 DEF TypeOK
      <4>2. dirty[c] <=> \E i \in 1..n : sector[i] = c
        BY <1>1, <1>2 DEF CacheInv, Pending
      <4>3. (\E i \in 1..n : sector[i] = c) <=> (\E i \in 1..n' : sector'[i] = c)
        <5>1. \A i \in 1..n : sector[i] = c => i # s
          BY <3>2, <1>3, <1>4
        <5>2. QED
          BY <5>1, <3>2, <1>9, <1>10
      <4>4. QED
        BY <4>1, <4>2, <4>3
    <3>3. QED
      BY <3>1, <3>2
  <2>2. \A i \in 1..n' : cache'[sector'[i]] = logdata'[i]
    <3> SUFFICES ASSUME NEW i \in 1..n' PROVE cache'[sector'[i]] = logdata'[i]
      OBVIOUS
    <3>1. CASE i = s
      BY <3>1, <1>6, <1>10 DEF TypeOK
    <3>2. CASE i # s
      <4>1. i \in 1..n /\ sector[i] # b /\ sector'[i] = sector[i] /\ logdata'[i] = logdata[i]
        BY <3>2, <1>10
      <4>2. cache[sector[i]] = logdata[i]
        BY <4>1, <1>1, <1>2 DEF CacheInv, Pending
      <4>3. sector[i] \in Block
        BY <4>1, <1>9 DEF TypeOK
      <4>4. QED
        BY <4>1, <4>2, <4>3, <1>6 DEF TypeOK
    <3>3. QED
      BY <3>1, <3>2
  <2>3. \A c \in Block : ~dirty'[c] => cache'[c] \in {NoValue, home'[c]}
    BY <1>6 DEF CacheInv, TypeOK
  <2>4. QED
    BY <2>1, <2>2, <2>3, <1>1, <1>6, <1>8 DEF CacheInv, Pending
<1>13. QED
  BY <1>6, <1>7, <1>8, <1>11, <1>12

\* commit_trans up to the header write.
LEMMA CommitStep ==
    ASSUME IInv, NEW p \in Proc, CommitTrans(p)
    PROVE  IInv'
<1> USE DEF IInv, CommitTrans, goto, disk, bufs, lh
<1>1. busy /\ pc[p] = "trans" /\ \A q \in Proc \ {p} : pc[q] \in {"idle", "asleep", "woken"}
  BY Alone
<1>2. ~Installing /\ hn = 0
  BY <1>1 DEF Installing, HeaderInv, TypeOK
<1>3. CASE n > 0
  <2>1. /\ hn' = n /\ tail' = 1 /\ pc' = [pc EXCEPT ![p] = "install"]
        /\ hsector' = [i \in LogIndex |-> IF i <= n THEN sector[i] ELSE hsector[i]]
    BY <1>3 DEF write_head
  <2>2. TypeOK'
    BY <2>1, LogAssumption DEF TypeOK, PC, LogIndex
  <2>3. Where' /\ Installing'
    BY <1>1, <2>1 DEF Where, Installing, TypeOK
  <2>4. \A i \in 1..n : hsector'[i] = sector[i]
    BY <2>1, LogAssumption DEF TypeOK, LogIndex
  <2>5. HeaderInv'
    BY <2>1, <2>3, <2>4 DEF HeaderInv, TypeOK, Installing
  <2>6. CacheInv'
    BY <1>2, <2>1, <2>3 DEF CacheInv, Pending, TypeOK
  <2>7. QED
    BY <2>2, <2>3, <2>5, <2>6
<1>4. CASE ~(n > 0)
  <2>1. n = 0 /\ pc' = [pc EXCEPT ![p] = "end"] /\ UNCHANGED <<hn, hsector, tail>>
    BY <1>4 DEF TypeOK
  <2>2. TypeOK'
    BY <2>1 DEF TypeOK, PC
  <2>3. Where' /\ ~Installing'
    BY <1>1, <2>1 DEF Where, Installing, TypeOK
  <2>4. HeaderInv' /\ CacheInv'
    BY <1>2, <2>1, <2>3 DEF HeaderInv, CacheInv
  <2>5. QED
    BY <2>2, <2>3, <2>4
<1>5. QED
  BY <1>3, <1>4

\* install_trans, one block.
LEMMA InstallStep ==
    ASSUME IInv, NEW p \in Proc, InstallTrans(p)
    PROVE  IInv'
<1> DEFINE b == sector[tail]
<1> USE DEF IInv
<1>1. /\ Installing /\ tail <= n /\ tail \in 1..n /\ tail \in LogIndex /\ b \in Block
      /\ n <= LOGSIZE /\ n \in Nat /\ 1..n \subseteq LogIndex
  BY LogAssumption DEF InstallTrans, Installing, TypeOK, LogIndex
<1>2. /\ cache' = [cache EXCEPT ![b] = logdata[tail]]
      /\ home' = [home EXCEPT ![b] = logdata[tail]]
      /\ dirty' = [dirty EXCEPT ![b] = FALSE]
      /\ tail' = tail + 1
      /\ UNCHANGED <<logdata, hn, hsector, busy, n, sector, pc>>
  BY DEF InstallTrans, lh
<1> HIDE DEF b
<1>3. TypeOK'
  <2>1. tail + 1 \in 1..LOGSIZE + 1 /\ logdata[tail] \in Value
    BY <1>1, LogAssumption DEF TypeOK, LogIndex
  <2>2. QED
    BY <1>1, <1>2, <2>1 DEF TypeOK
<1>4. Where' /\ Installing'
  BY <1>1, <1>2 DEF Where, Installing
<1>5. HeaderInv'
  BY <1>1, <1>2, <1>4 DEF HeaderInv
<1>6. \A i \in 1..n : sector[i] = b => i = tail
  BY <1>1 DEF HeaderInv, b
<1>7. CacheInv'
  <2>1. \A c \in Block : dirty'[c] <=> (busy /\ \E i \in 1..n : sector[i] = c /\ tail + 1 <= i)
    <3> SUFFICES ASSUME NEW c \in Block
                 PROVE  dirty'[c] <=> (busy /\ \E i \in 1..n : sector[i] = c /\ tail + 1 <= i)
      OBVIOUS
    <3>1. CASE c = b
      BY <3>1, <1>1, <1>2, <1>6 DEF TypeOK
    <3>2. CASE c # b
      <4>1. dirty'[c] <=> dirty[c]
        BY <3>2, <1>2 DEF TypeOK
      <4>2. dirty[c] <=> (busy /\ \E i \in 1..n : sector[i] = c /\ tail <= i)
        BY <1>1 DEF CacheInv, Pending
      <4>3. \A i \in 1..n : sector[i] = c => (tail <= i <=> tail + 1 <= i)
        BY <3>2, <1>1 DEF b
      <4>4. QED
        BY <4>1, <4>2, <4>3
    <3>3. QED
      BY <3>1, <3>2
  <2>2. \A i \in 1..n : busy /\ tail + 1 <= i => cache'[sector[i]] = logdata[i]
    BY <1>1, <1>2, <1>6 DEF CacheInv, Pending, TypeOK
  <2>3. \A c \in Block : ~dirty'[c] => cache'[c] \in {NoValue, home'[c]}
    BY <1>1, <1>2 DEF CacheInv, TypeOK
  <2>4. \A i \in 1..n : ~(tail + 1 <= i) => home'[sector[i]] = logdata[i]
    <3> SUFFICES ASSUME NEW i \in 1..n, ~(tail + 1 <= i)
                 PROVE  home'[sector[i]] = logdata[i]
      OBVIOUS
    <3>1. CASE i = tail
      BY <3>1, <1>1, <1>2 DEF b, TypeOK
    <3>2. CASE i # tail
      <4>1. ~(tail <= i) /\ sector[i] # b /\ sector[i] \in Block
        BY <3>2, <1>1, <1>6 DEF TypeOK
      <4>2. home[sector[i]] = logdata[i]
        BY <4>1, <1>1 DEF CacheInv, Pending
      <4>3. QED
        BY <4>1, <4>2, <1>2 DEF TypeOK
    <3>3. QED
      BY <3>1, <3>2
  <2>5. QED
    BY <2>1, <2>2, <2>3, <2>4, <1>2, <1>4 DEF CacheInv, Pending
<1>8. QED
  BY <1>3, <1>4, <1>5, <1>7

\* The end of install_trans: the header is cleared once every log sector is
\* in its block.
LEMMA EraseStep ==
    ASSUME IInv, NEW p \in Proc, EraseLog(p)
    PROVE  IInv'
<1> USE DEF IInv, EraseLog, goto, write_head, disk, bufs, lh
<1>1. Installing /\ tail > n /\ n' = 0 /\ hn' = 0 /\ UNCHANGED <<busy, cache, dirty, home>>
  BY DEF Installing
<1>2. \A c \in Block : ~dirty[c]
  BY <1>1 DEF CacheInv, Pending, TypeOK
<1>3. TypeOK'
  <2>1. hsector' \in [LogIndex -> Block]
    BY DEF TypeOK
  <2>2. pc' \in [Proc -> PC \ {"panic"}]
    BY DEF TypeOK, PC
  <2>3. QED
    BY <2>1, <2>2, LogAssumption DEF TypeOK
<1>4. Where'
  BY Alone DEF Where, TypeOK
<1>5. ~Installing'
  BY Alone DEF Installing, TypeOK
<1>6. HeaderInv'
  BY <1>1, <1>5, LogAssumption DEF HeaderInv
<1>7. CacheInv'
  BY <1>1, <1>2, <1>5 DEF CacheInv
<1>8. QED
  BY <1>3, <1>4, <1>6, <1>7

\* The end of commit_trans.
LEMMA EndStep ==
    ASSUME IInv, NEW p \in Proc, EndTrans(p)
    PROVE  /\ IInv' /\ n = 0 /\ hn = 0
           /\ \A b \in Block : ~dirty[b]
<1> USE DEF IInv, EndTrans, disk, bufs, lh
<1>1. busy /\ \A q \in Proc \ {p} : pc[q] \in {"idle", "asleep", "woken"}
  BY Alone
<1>2. n = 0 /\ hn = 0
  BY <1>1 DEF HeaderInv, TypeOK
<1>3. \A b \in Block : ~dirty[b]
  BY <1>2 DEF CacheInv
<1>4. \A q \in Proc : pc'[q] \in {"idle", "woken"}
  BY <1>1 DEF TypeOK
<1>5. TypeOK'
  BY <1>4 DEF TypeOK, PC
<1>6. Where' /\ ~Installing'
  BY <1>4 DEF Where, Installing
<1>7. HeaderInv' /\ CacheInv'
  BY <1>2, <1>3, <1>6 DEF HeaderInv, CacheInv
<1>8. QED
  BY <1>2, <1>3, <1>5, <1>6, <1>7

\* recover_from_log reads the header.
LEMMA RecoverStep ==
    ASSUME IInv, NEW p \in Proc, Recover(p)
    PROVE  IInv'
<1> USE DEF IInv, Recover, goto, disk, bufs
<1>1. p = FirstProc /\ ~busy /\ \A q \in Proc \ {p} : pc[q] = "down"
  BY Alone, LogAssumption
<1>2. ~Installing /\ Installing'
  BY <1>1 DEF Installing, TypeOK
<1>3. n = 0
  BY <1>1 DEF HeaderInv, TypeOK
<1>4. TypeOK'
  BY LogAssumption DEF TypeOK, PC
<1>5. Where'
  BY <1>1 DEF Where, TypeOK
<1>6. \A i \in 1..hn : sector'[i] = hsector[i]
  BY LogAssumption DEF TypeOK, LogIndex
<1>7. HeaderInv'
  BY <1>2, <1>6, LogAssumption DEF HeaderInv, TypeOK, Installing
<1>8. CacheInv'
  BY <1>1, <1>2, <1>3 DEF CacheInv, TypeOK, Pending
<1>9. QED
  BY <1>4, <1>5, <1>7, <1>8

\* A crash: the disk alone is enough to establish the invariant again.
LEMMA CrashStep ==
    ASSUME IInv, Crash
    PROVE  IInv'
<1> USE DEF IInv, Crash, disk
<1>1. TypeOK'
  <2>1. dirty' \in [Block -> BOOLEAN] /\ busy' \in BOOLEAN
    OBVIOUS
  <2>2. sector' \in [LogIndex -> Block]
    BY SomeBlock
  <2>3. pc' \in [Proc -> PC \ {"panic"}]
    BY DEF PC
  <2>4. QED
    BY <2>1, <2>2, <2>3, LogAssumption DEF TypeOK
<1>2. Where'
  BY LogAssumption DEF Where
<1>3. ~Installing' /\ pc'[FirstProc] = "boot"
  BY LogAssumption DEF Installing
<1>4. HeaderInv'
  BY <1>3, LogAssumption DEF HeaderInv
<1>5. CacheInv'
  BY <1>3 DEF CacheInv
<1>6. QED
  BY <1>1, <1>2, <1>4, <1>5

\* Every step keeps the invariant.
LEMMA NextIInv == IInv /\ [Next]_vars => IInv'
<1> SUFFICES ASSUME IInv, [Next]_vars PROVE IInv'
  OBVIOUS
<1>1. CASE UNCHANGED vars
  BY <1>1 DEF vars, disk, bufs, lh, IInv, TypeOK, Where, HeaderInv, CacheInv, Pending, Installing
<1>2. CASE Next
  BY <1>2, BreadStep, EvictStep, BeginStep, WriteStep, CommitStep, InstallStep,
     EraseStep, EndStep, RecoverStep, CrashStep DEF Next
<1>3. QED
  BY <1>1, <1>2

-----------------------------------------------------------------------------
(* The types of the log, the cache and the disk hold throughout, and no    *)
(* log_write that keeps to its budget panics, whatever the sizes are.      *)
THEOREM TypeCorrect == Spec => []TypeOK
<1>1. IInv => TypeOK
  BY DEF IInv
<1>2. QED
  BY <1>1, InitIInv, NextIInv, PTL DEF Spec

(* begin_trans lets one process into a transaction at a time, for any      *)
(* number of processes and across crashes, and nobody sleeps in            *)
(* begin_trans when no transaction is open.                                *)
THEOREM TransactionsExclude == Spec => []OneTransaction
<1>1. IInv => OneTransaction
  BY DEF IInv, Where, OneTransaction, InTrans
<1>2. QED
  BY <1>1, InitIInv, NextIInv, PTL DEF Spec

-----------------------------------------------------------------------------
\* What the invariant says about the three variables of AtomicDisk: a reboot
\* would find the log's copy of the blocks in the header; the writer is the
\* process in a transaction; and there is one exactly when log.busy is set.
RecoveredIs ==
    /\ \A i \in 1..hn : Recovered[hsector[i]] = logdata[i]
    /\ \A b \in Block : (\A i \in 1..hn : hsector[i] # b) => Recovered[b] = home[b]
    /\ hn = 0 => Recovered = home

WriterIs ==
    /\ \A p \in Proc : InTrans(p) => Writer = p
    /\ (\A p \in Proc : ~InTrans(p)) => Writer = NoProc

BusyIs ==
    /\ busy => ~Recovering /\ \E p \in Proc : InTrans(p)
    /\ ~busy => \A p \in Proc : ~InTrans(p)

LEMMA RecoveredNow == IInv => RecoveredIs
<1> SUFFICES ASSUME IInv PROVE RecoveredIs
  OBVIOUS
<1>1. \A i \in 1..hn : hsector[i] \in Block
  BY LogAssumption DEF IInv, TypeOK, LogIndex
<1>2. ASSUME NEW i \in 1..hn PROVE Recovered[hsector[i]] = logdata[i]
  <2>1. (CHOOSE j \in 1..hn : hsector[j] = hsector[i]) = i
    BY DEF IInv, HeaderInv
  <2>2. QED
    BY <1>1, <2>1 DEF Recovered
<1>3. \A b \in Block : (\A i \in 1..hn : hsector[i] # b) => Recovered[b] = home[b]
  BY DEF Recovered
<1>4. ASSUME hn = 0 PROVE Recovered = home
  <2>1. \A i \in 1..hn : FALSE
    BY <1>4
  <2>2. Recovered = [b \in Block |-> home[b]]
    BY <2>1 DEF Recovered
  <2>3. QED
    BY <2>2 DEF IInv, TypeOK
<1>5. QED
  BY <1>2, <1>3, <1>4 DEF RecoveredIs

LEMMA WriterNow == IInv => WriterIs /\ BusyIs
<1> SUFFICES ASSUME IInv PROVE WriterIs /\ BusyIs
  OBVIOUS
<1>1. \A p, q \in Proc : InTrans(p) /\ InTrans(q) => p = q
  BY DEF IInv, Where, InTrans
<1>2. WriterIs
  BY <1>1 DEF WriterIs, Writer
<1>3. BusyIs
  BY DEF IInv, Where, Recovering, InTrans, TypeOK, BusyIs
<1>4. QED
  BY <1>2, <1>3

\* They hold before and after a step that keeps the invariant.
LEMMA MappedStates ==
    ASSUME IInv, IInv'
    PROVE  RecoveredIs /\ RecoveredIs' /\ WriterIs /\ WriterIs' /\ BusyIs /\ BusyIs'
<1>1. (IInv => RecoveredIs) /\ (IInv' => RecoveredIs')
  BY RecoveredNow, PTL
<1>2. (IInv => WriterIs /\ BusyIs) /\ (IInv' => WriterIs' /\ BusyIs')
  BY WriterNow, PTL
<1>3. QED
  BY <1>1, <1>2

\* Steps of the cache alone are invisible.
LEMMA CacheRefines ==
    ASSUME IInv, IInv', NEW b \in Block, Bread(b) \/ Evict(b)
    PROVE  UNCHANGED <<Recovered, View, Writer>>
<1>0. /\ UNCHANGED <<home, logdata, hn, hsector, dirty, busy, pc>>
      /\ \/ cache' = [cache EXCEPT ![b] = home[b]] /\ cache[b] = NoValue
         \/ cache' = [cache EXCEPT ![b] = NoValue] /\ ~dirty[b]
  BY DEF Bread, Evict, disk
<1>1. UNCHANGED Recovered
  BY <1>0 DEF Recovered
<1>2. UNCHANGED Writer
  BY <1>0 DEF Writer, InTrans
<1>3. Recovering' <=> Recovering
  BY <1>0 DEF Recovering
<1>4. CASE Recovering
  BY <1>1, <1>2, <1>3, <1>4 DEF View
<1>5. CASE ~Recovering
  <2>1. \A c \in Block : (IF cache'[c] # NoValue THEN cache'[c] ELSE home'[c])
                           = (IF cache[c] # NoValue THEN cache[c] ELSE home[c])
    <3> SUFFICES ASSUME NEW c \in Block
                 PROVE  (IF cache'[c] # NoValue THEN cache'[c] ELSE home'[c])
                           = (IF cache[c] # NoValue THEN cache[c] ELSE home[c])
      OBVIOUS
    <3>1. CASE c = b
      BY <3>1, <1>0 DEF IInv, TypeOK, CacheInv
    <3>2. CASE c # b
      BY <3>2, <1>0 DEF IInv, TypeOK
    <3>3. QED
      BY <3>1, <3>2
  <2>2. QED
    BY <1>1, <1>2, <1>3, <1>5, <2>1 DEF View
<1>6. QED
  BY <1>4, <1>5

\* begin_trans: the abstract transaction begins, or the caller sleeps.
LEMMA BeginRefines ==
    ASSUME IInv, IInv', NEW p \in Proc, BeginTrans(p)
    PROVE  Atomic!Begin(p) \/ UNCHANGED <<Recovered, View, Writer>>
<1> USE DEF BeginTrans, goto, disk, bufs, lh
<1>1. UNCHANGED Recovered
  BY DEF Recovered
<1>2. CASE busy
  <2>1. PICK w \in Proc : InTrans(w)
    BY <1>2, MappedStates DEF BusyIs
  <2>2. w # p /\ InTrans(w)' /\ busy'
    BY <1>2, <2>1 DEF InTrans, IInv, TypeOK
  <2>3. Writer = w /\ Writer' = w
    BY <2>1, <2>2, MappedStates DEF WriterIs
  <2>4. ~Recovering /\ ~Recovering'
    BY <1>2, <2>2, MappedStates DEF BusyIs
  <2>5. UNCHANGED View
    BY <2>4 DEF View
  <2>6. QED
    BY <1>1, <2>3, <2>5
<1>3. CASE ~busy
  <2>1. Writer = NoProc
    BY <1>3, MappedStates DEF BusyIs, WriterIs
  <2>2. InTrans(p)' /\ busy'
    BY <1>3 DEF InTrans, IInv, TypeOK
  <2>3. Writer' = p
    BY <2>2, MappedStates DEF WriterIs
  <2>4. ~Recovering
    BY <1>3, Alone DEF Recovering
  <2>5. ~Recovering'
    BY <2>2 DEF Recovering
  <2>6. UNCHANGED View
    BY <2>4, <2>5 DEF View
  <2>7. QED
    BY <1>1, <2>1, <2>3, <2>6 DEF Atomic!Begin
<1>4. QED
  BY <1>2, <1>3

\* log_write: the view changes at once, the disk does not.
LEMMA WriteRefines ==
    ASSUME IInv, IInv', NEW p \in Proc, NEW b \in Block, NEW v \in Value, LogWrite(p, b, v)
    PROVE  Atomic!Write(p, b, v)
<1>1. /\ cache' = [cache EXCEPT ![b] = v]
      /\ UNCHANGED <<home, hn, hsector, busy, pc, tail>>
  BY WriteStep
<1>2. InTrans(p) /\ busy /\ hn = 0
  BY Alone DEF LogWrite, InTrans, IInv, HeaderInv, TypeOK
<1>3. Writer = p /\ Writer' = p
  BY <1>1, <1>2, MappedStates DEF WriterIs, InTrans
<1>4. Recovered = home /\ Recovered' = home'
  BY <1>1, <1>2, MappedStates DEF RecoveredIs
<1>5. ~Recovering /\ ~Recovering'
  BY <1>1, <1>2 DEF Recovering
<1>6. View' = [View EXCEPT ![b] = v]
  <2>1. v # NoValue
    BY LogAssumption
  <2>2. QED
    BY <1>1, <1>5, <2>1 DEF View, IInv, TypeOK
<1>7. QED
  BY <1>1, <1>3, <1>4, <1>6 DEF Atomic!Write

\* The header write commits; a transaction that logged nothing is over.
LEMMA CommitRefines ==
    ASSUME IInv, IInv', NEW p \in Proc, CommitTrans(p)
    PROVE  Atomic!Commit(p) \/ UNCHANGED <<Recovered, View, Writer>>
<1> USE DEF CommitTrans, goto, bufs, lh
<1>1. /\ busy /\ busy' /\ pc[p] = "trans"
      /\ \A q \in Proc \ {p} : pc[q] \in {"idle", "asleep", "woken"}
  BY Alone
<1>2. InTrans(p) /\ InTrans(p)'
  BY <1>1 DEF InTrans, IInv, TypeOK
<1>3. Writer = p /\ Writer' = p
  BY <1>2, MappedStates DEF WriterIs
<1>4. ~Recovering /\ ~Recovering'
  BY <1>1 DEF Recovering
<1>5. UNCHANGED View
  BY <1>4 DEF View
<1>6. CASE n > 0
  <2>1. ~Installing
    BY <1>1 DEF Installing
  <2>2. hn' = n /\ \A i \in 1..n : hsector'[i] = sector[i] /\ sector[i] \in Block
    BY <1>6, LogAssumption DEF write_head, IInv, TypeOK, LogIndex
  <2>3. ASSUME NEW b \in Block PROVE Recovered'[b] = View[b]
    <3>1. CASE \E i \in 1..n : sector[i] = b
      <4>1. PICK i \in 1..n : sector[i] = b
        BY <3>1
      <4>2. Recovered'[b] = logdata'[i]
        BY <4>1, <2>2, MappedStates DEF RecoveredIs
      <4>3. cache[b] = logdata[i] /\ logdata[i] # NoValue
        BY <1>1, <2>1, <4>1, LogAssumption DEF IInv, CacheInv, Pending, TypeOK, LogIndex
      <4>4. QED
        BY <4>2, <4>3, <1>4 DEF View
    <3>2. CASE \A i \in 1..n : sector[i] # b
      <4>1. Recovered'[b] = home'[b]
        BY <3>2, <2>2, MappedStates DEF RecoveredIs
      <4>2. ~dirty[b]
        BY <3>2 DEF IInv, CacheInv
      <4>3. View[b] = home[b]
        BY <4>2, <1>4 DEF IInv, CacheInv, View
      <4>4. QED
        BY <4>1, <4>3
    <3>3. QED
      BY <3>1, <3>2
  <2>4. Recovered' = View
    <3>1. Recovered' = [b \in Block |-> Recovered'[b]] /\ View = [b \in Block |-> View[b]]
      BY <1>4 DEF Recovered, View
    <3>2. QED
      BY <3>1, <2>3
  <2>5. QED
    BY <1>3, <1>5, <2>4 DEF Atomic!Commit
<1>7. CASE ~(n > 0)
  BY <1>3, <1>5, <1>7 DEF Recovered
<1>8. QED
  BY <1>6, <1>7

\* Installing a block changes neither what a reboot would find nor what a
\* reader sees.
LEMMA InstallRefines ==
    ASSUME IInv, IInv', NEW p \in Proc, InstallTrans(p)
    PROVE  UNCHANGED <<Recovered, View, Writer>>
<1> DEFINE b == sector[tail]
<1>1. /\ Installing /\ tail \in 1..n /\ b \in Block /\ n = hn /\ hsector[tail] = b
      /\ \A i \in 1..hn : hsector[i] = b => i = tail
  <2>1. Installing
    BY DEF InstallTrans, Installing
  <2>2. tail \in 1..n /\ tail \in LogIndex
    BY LogAssumption DEF InstallTrans, IInv, TypeOK, LogIndex
  <2>3. QED
    BY <2>1, <2>2 DEF IInv, HeaderInv, TypeOK
<1>2. /\ cache' = [cache EXCEPT ![b] = logdata[tail]]
      /\ home' = [home EXCEPT ![b] = logdata[tail]]
      /\ UNCHANGED <<logdata, hn, hsector, busy, pc>>
  BY DEF InstallTrans
<1> HIDE DEF b
<1>3. UNCHANGED Writer /\ (Recovering' <=> Recovering)
  BY <1>2 DEF Writer, InTrans, Recovering
<1>4. UNCHANGED Recovered
  <2>1. ASSUME NEW c \in Block PROVE Recovered'[c] = Recovered[c]
    <3>1. CASE \E i \in 1..hn : hsector[i] = c
      BY <3>1, <1>2, MappedStates DEF RecoveredIs
    <3>2. CASE \A i \in 1..hn : hsector[i] # c
      <4>1. c # b
        BY <3>2, <1>1
      <4>2. home'[c] = home[c]
        BY <4>1, <1>2 DEF IInv, TypeOK
      <4>3. QED
        BY <3>2, <4>2, <1>2, MappedStates DEF RecoveredIs
    <3>3. QED
      BY <3>1, <3>2
  <2>2. Recovered' = [c \in Block |-> Recovered'[c]] /\ Recovered = [c \in Block |-> Recovered[c]]
    BY DEF Recovered
  <2>3. QED
    BY <2>1, <2>2
<1>5. CASE Recovering
  BY <1>3, <1>4, <1>5 DEF View
<1>6. CASE ~Recovering
  <2>1. busy
    BY <1>1, <1>6 DEF Recovering, Installing
  <2>2. cache[b] = logdata[tail]
    BY <1>1, <2>1 DEF IInv, CacheInv, Pending, b, TypeOK
  <2>3. logdata[tail] # NoValue
    BY <1>1, LogAssumption DEF IInv, TypeOK, LogIndex
  <2>4. \A c \in Block : (IF cache'[c] # NoValue THEN cache'[c] ELSE home'[c])
                           = (IF cache[c] # NoValue THEN cache[c] ELSE home[c])
    BY <1>1, <1>2, <2>2, <2>3 DEF IInv, TypeOK
  <2>5. UNCHANGED View
    BY <1>3, <1>6, <2>4 DEF View
  <2>6. QED
    BY <1>3, <1>4, <2>5
<1>7. QED
  BY <1>5, <1>6

\* Clearing the header changes nothing either: every block is home.
LEMMA EraseRefines ==
    ASSUME IInv, IInv', NEW p \in Proc, EraseLog(p)
    PROVE  UNCHANGED <<Recovered, View, Writer>>
<1>1. Installing /\ tail > n /\ n = hn /\ \A i \in 1..n : sector[i] = hsector[i]
  BY DEF EraseLog, Installing, IInv, HeaderInv
<1>2. hn' = 0 /\ UNCHANGED <<home, cache, busy>>
  BY DEF EraseLog, write_head, bufs
<1>3. \A i \in 1..hn : home[hsector[i]] = logdata[i]
  BY <1>1 DEF IInv, CacheInv, Pending, TypeOK
<1>4. Recovered = home
  <2>1. \A c \in Block : Recovered[c] = home[c]
    BY <1>3, MappedStates DEF RecoveredIs
  <2>2. Recovered = [c \in Block |-> Recovered[c]] /\ home = [c \in Block |-> home[c]]
    BY DEF Recovered, IInv, TypeOK
  <2>3. QED
    BY <2>1, <2>2
<1>5. UNCHANGED Recovered
  BY <1>2, <1>4, MappedStates DEF RecoveredIs
<1>6. CASE busy
  <2>1. InTrans(p) /\ InTrans(p)'
    BY <1>6 DEF InTrans, EraseLog, goto, IInv, TypeOK
  <2>2. UNCHANGED Writer
    BY <2>1, MappedStates DEF WriterIs
  <2>3. ~Recovering /\ ~Recovering'
    BY <1>2, <1>6 DEF Recovering
  <2>4. UNCHANGED View
    BY <2>3, <1>2 DEF View
  <2>5. QED
    BY <1>5, <2>2, <2>4
<1>7. CASE ~busy
  <2>1. UNCHANGED Writer
    BY <1>2, <1>7, MappedStates DEF WriterIs, BusyIs
  <2>2. Recovering
    BY <1>1, <1>7 DEF Recovering, Installing
  <2>3. ~Recovering'
    BY <1>7 DEF Recovering, EraseLog
  <2>4. \A c \in Block : cache[c] \in {NoValue, home[c]}
    BY <1>7 DEF IInv, CacheInv
  <2>5. View' = [c \in Block |-> home[c]]
    BY <2>3, <2>4, <1>2 DEF View
  <2>6. View = home /\ home = [c \in Block |-> home[c]]
    BY <2>2, <1>4 DEF View, IInv, TypeOK
  <2>7. QED
    BY <1>5, <2>1, <2>5, <2>6
<1>8. QED
  BY <1>6, <1>7

\* The end of commit_trans ends the abstract transaction: the disk holds
\* all that a reader sees.
LEMMA EndRefines ==
    ASSUME IInv, IInv', NEW p \in Proc, EndTrans(p)
    PROVE  Atomic!End(p)
<1>1. hn = 0 /\ \A b \in Block : ~dirty[b]
  BY EndStep
<1>2. busy /\ ~busy' /\ InTrans(p) /\ UNCHANGED <<home, logdata, hn, hsector, cache>>
  BY Alone DEF EndTrans, InTrans, disk, bufs
<1>3. Writer = p /\ Writer' = NoProc
  BY <1>2, MappedStates DEF WriterIs, BusyIs
<1>4. UNCHANGED Recovered
  BY <1>2 DEF Recovered
<1>5. Recovered = home
  BY <1>1, MappedStates DEF RecoveredIs
<1>6. ~Recovering /\ ~Recovering'
  <2>1. \A q \in Proc \ {p} : pc[q] \in {"idle", "asleep", "woken"}
    BY Alone DEF EndTrans
  <2>2. QED
    BY <1>2, <2>1 DEF Recovering, EndTrans
<1>7. View = [b \in Block |-> home[b]]
  <2>1. \A b \in Block : (IF cache[b] # NoValue THEN cache[b] ELSE home[b]) = home[b]
    BY <1>1 DEF IInv, CacheInv
  <2>2. QED
    BY <2>1, <1>6 DEF View
<1>8. UNCHANGED View
  BY <1>2, <1>6 DEF View
<1>9. home = [b \in Block |-> home[b]]
  BY DEF IInv, TypeOK
<1>10. QED
  BY <1>3, <1>4, <1>5, <1>7, <1>8, <1>9 DEF Atomic!End

\* Reading the header is invisible.
LEMMA RecoverRefines ==
    ASSUME IInv, IInv', NEW p \in Proc, Recover(p)
    PROVE  UNCHANGED <<Recovered, View, Writer>>
<1>1. ~busy /\ ~busy' /\ UNCHANGED Recovered
  BY Alone DEF Recover, disk, Recovered
<1>2. UNCHANGED Writer
  BY <1>1, MappedStates DEF WriterIs, BusyIs
<1>3. Recovering /\ Recovering'
  BY <1>1 DEF Recovering, Recover, goto, IInv, TypeOK
<1>4. QED
  BY <1>1, <1>2, <1>3 DEF View

\* A crash throws away what was not committed and nothing else.
LEMMA CrashRefines ==
    ASSUME IInv, IInv', Crash
    PROVE  Atomic!Crash
<1>1. ~busy' /\ UNCHANGED Recovered
  BY DEF Crash, disk, Recovered
<1>2. Writer' = NoProc
  BY <1>1, MappedStates DEF WriterIs, BusyIs
<1>3. Recovering'
  BY <1>1, LogAssumption DEF Recovering, Crash
<1>4. QED
  BY <1>1, <1>2, <1>3 DEF View, Atomic!Crash

(* The log implements the atomic disk, for any number of blocks and        *)
(* processes and any size of log: the header write is the commit point,    *)
(* and a crash at any step, in recovery too, keeps exactly the committed   *)
(* transactions.                                                           *)
THEOREM Refinement == Spec => ImplementsAtomicDisk
<1>1. Init => Atomic!Init
  <2> SUFFICES ASSUME Init PROVE Atomic!Init
    OBVIOUS
  <2>1. IInv
    BY InitIInv
  <2>2. WriterIs /\ BusyIs /\ RecoveredIs
    BY <2>1, WriterNow, RecoveredNow
  <2>3. Recovered = home /\ Writer = NoProc
    BY <2>2 DEF WriterIs, BusyIs, RecoveredIs, Init
  <2>4. Recovering
    BY LogAssumption DEF Init, Recovering
  <2>5. QED
    BY <2>3, <2>4 DEF View, Init, Atomic!Init
<1>2. IInv /\ IInv' /\ [Next]_vars => [Atomic!Next]_(Atomic!vars)
  <2> SUFFICES ASSUME IInv, IInv', [Next]_vars
               PROVE  Atomic!Next \/ UNCHANGED <<Recovered, View, Writer>>
    BY DEF Atomic!vars
  <2>1. CASE UNCHANGED vars
    BY <2>1 DEF vars, disk, bufs, lh, Recovered, View, Recovering, Writer, InTrans
  <2>2. CASE \E b \in Block : Bread(b) \/ Evict(b)
    BY <2>2, CacheRefines
  <2>3. ASSUME NEW p \in Proc,
               \/ BeginTrans(p) \/ CommitTrans(p) \/ EndTrans(p)
               \/ \E b \in Block, v \in Value : LogWrite(p, b, v)
        PROVE  Atomic!Next \/ UNCHANGED <<Recovered, View, Writer>>
    BY <2>3, BeginRefines, CommitRefines, EndRefines, WriteRefines DEF Atomic!Next
  <2>4. ASSUME NEW p \in Proc, InstallTrans(p) \/ EraseLog(p) \/ Recover(p)
        PROVE  UNCHANGED <<Recovered, View, Writer>>
    BY <2>4, InstallRefines, EraseRefines, RecoverRefines
  <2>5. CASE Crash
    BY <2>5, CrashRefines DEF Atomic!Next
  <2>6. QED
    BY <2>1, <2>2, <2>3, <2>4, <2>5 DEF Next
<1>3. QED
  BY <1>1, <1>2, InitIInv, NextIInv, PTL DEF Spec, ImplementsAtomicDisk, Atomic!Spec

=============================================================================
