--------------------------- MODULE ConsoleProofs ---------------------------
(***************************************************************************)
(* Proofs about Console.tla, for any number of readers, any size of the    *)
(* ring and any width of its indices that is a multiple of it: the indices *)
(* stay in order, no wakeup is lost, and consoleintr with consoleread      *)
(* implements the terminal of Tty.                                         *)
(***************************************************************************)
EXTENDS Console, SequenceTheorems, WellFoundedInduction, TLAPS

\* A reader holds input.lock from acquire to sleep or return, and has received
\* nothing when it is outside a call.
LockInv ==
    \A p \in Reader :
        /\ lock = p <=> pc[p] \in {"loop", "sleep"}
        /\ n[p] = -1 <=> pc[p] = "idle"
        /\ dst[p] \in Seq(Char) /\ (pc[p] = "idle" => dst[p] = <<>>)

\* There is nothing to read from the test up to the wakeup.
SleepInv == \A p \in Reader : pc[p] \in {"sleep", "asleep"} => r = w

IInv == TypeOK /\ dst \in [Reader -> Seq(Char)] /\ LockInv /\ SleepInv

\* The characters typed and not read, and those of them that can be read.
Used == Plus(e, -r)
Ready == Plus(w, -r)

-----------------------------------------------------------------------------
\* Division with remainder, and what follows for indices that wrap.
LEMMA Division ==
    ASSUME NEW x \in Int, NEW d \in Int, d > 0
    PROVE  x \div d \in Int /\ x % d \in 0..d - 1 /\ x = d * (x \div d) + (x % d)
<1>1. x \div d \in Int
  OBVIOUS
<1>2. x % d \in 0..d - 1
  OBVIOUS
<1>3. x = d * (x \div d) + (x % d)
  OBVIOUS
<1>4. QED
  BY <1>1, <1>2, <1>3

\* A remainder is what is left after taking the divisor away some times.
LEMMA Remainder ==
    ASSUME NEW d \in Nat \ {0}, NEW q \in Int, NEW k \in 0..d - 1
    PROVE  (d * q + k) % d = k
OBVIOUS

LEMMA ModOnce ==
    \A x \in -Wrap..2 * Wrap - 1 : x % Wrap = IF x < 0 THEN x + Wrap
                                              ELSE IF x < Wrap THEN x ELSE x - Wrap
<1>1. Wrap \in Nat \ {0}
  BY ConsoleAssumption
<1> SUFFICES ASSUME NEW x \in -Wrap..2 * Wrap - 1
             PROVE  x % Wrap = IF x < 0 THEN x + Wrap ELSE IF x < Wrap THEN x ELSE x - Wrap
  OBVIOUS
<1>2. CASE x < 0
  <2>1. x + Wrap \in 0..Wrap - 1 /\ x = Wrap * (-1) + (x + Wrap)
    BY <1>1, <1>2
  <2>2. (Wrap * (-1) + (x + Wrap)) % Wrap = x + Wrap
    BY <1>1, <2>1, Remainder
  <2>3. QED
    BY <1>2, <2>1, <2>2
<1>3. CASE x \in 0..Wrap - 1
  BY <1>1, <1>3
<1>4. CASE x >= Wrap
  <2>1. x - Wrap \in 0..Wrap - 1 /\ x = Wrap * 1 + (x - Wrap)
    BY <1>1, <1>4
  <2>2. (Wrap * 1 + (x - Wrap)) % Wrap = x - Wrap
    BY <1>1, <2>1, Remainder
  <2>3. QED
    BY <1>1, <1>4, <2>1, <2>2
<1>5. QED
  BY <1>1, <1>2, <1>3, <1>4

\* Forward and back from an index.
LEMMA PlusIs ==
    ASSUME NEW i \in 0..Wrap - 1, NEW k \in 0..Wrap - 1
    PROVE  /\ Plus(i, k) \in 0..Wrap - 1 /\ Plus(i, -k) \in 0..Wrap - 1
           /\ Plus(i, k) = IF i + k < Wrap THEN i + k ELSE i + k - Wrap
           /\ Plus(i, -k) = IF i >= k THEN i - k ELSE i - k + Wrap
<1>1. Wrap \in Nat \ {0}
  BY ConsoleAssumption
<1>2. /\ i + k \in -Wrap..2 * Wrap - 1 /\ i + (-k) \in -Wrap..2 * Wrap - 1
      /\ i + k >= 0 /\ i + (-k) = i - k /\ i - k < Wrap
  BY <1>1
<1>3. /\ Plus(i, k) = IF i + k < Wrap THEN i + k ELSE i + k - Wrap
      /\ Plus(i, -k) = IF i >= k THEN i - k ELSE i - k + Wrap
  BY <1>1, <1>2, ModOnce DEF Plus
<1>4. QED
  BY <1>1, <1>3

\* Two slots of a ring less than its size apart differ.
LEMMA ModDistinct ==
    ASSUME NEW d \in Nat \ {0}, NEW x \in Nat, NEW k \in 1..d - 1
    PROVE  (x + k) % d # x % d
<1> DEFINE q == x \div d
           s == (x + k) \div d
<1>1. x = d * q + (x % d) /\ q \in Int /\ x % d \in 0..d - 1
  BY Division
<1>2. x + k = d * s + ((x + k) % d) /\ s \in Int
  BY Division
<1>3. SUFFICES ASSUME (x + k) % d = x % d PROVE FALSE
  OBVIOUS
<1> HIDE DEF q, s
<1>4. k = d * s - d * q
  BY <1>1, <1>2, <1>3
<1>5. d * s - d * q = d * (s - q)
  BY <1>1, <1>2
<1>6. CASE s - q <= 0
  <2>1. d * (s - q) <= 0
    BY <1>6, <1>1, <1>2
  <2>2. QED
    BY <2>1, <1>4, <1>5
<1>7. CASE s - q >= 1
  <2>1. d * (s - q) >= d
    BY <1>7, <1>1, <1>2
  <2>2. QED
    BY <2>1, <1>4, <1>5
<1>8. QED
  BY <1>6, <1>7, <1>1, <1>2

\* An index that wraps at a multiple of the ring's size stays on its slot.
LEMMA SlotWrapped ==
    ASSUME NEW x \in Nat
    PROVE  (x + Wrap) % INPUT_BUF = x % INPUT_BUF
<1> DEFINE q == x \div INPUT_BUF
           m == Wrap \div INPUT_BUF
           s == x % INPUT_BUF
<1>1. INPUT_BUF \in Nat \ {0} /\ Wrap \in Nat /\ Wrap % INPUT_BUF = 0
  BY ConsoleAssumption
<1>2. x = INPUT_BUF * q + s /\ q \in Int /\ s \in 0..INPUT_BUF - 1
  BY <1>1, Division
<1>3. Wrap = INPUT_BUF * m + 0 /\ m \in Int
  BY <1>1, Division
<1> HIDE DEF q, m, s
<1>4. x + Wrap = INPUT_BUF * (q + m) + s /\ q + m \in Int
  BY <1>1, <1>2, <1>3
<1>5. (INPUT_BUF * (q + m) + s) % INPUT_BUF = s
  BY <1>1, <1>2, <1>4, Remainder
<1>6. QED
  BY <1>4, <1>5 DEF s

\* A set of numbers that is not empty has a least one.
LEMMA LeastIs ==
    ASSUME NEW S \in SUBSET Nat, S # {}
    PROVE  (CHOOSE x \in S : \A y \in S : x <= y) \in S
<1>1. PICK m \in S : \A k \in S : <<k, m>> \notin OpToRel(<, Nat)
  BY NatLessThanWellFounded, WFMin
<1>2. \A k \in S : m <= k
  <2> SUFFICES ASSUME NEW k \in S PROVE m <= k
    OBVIOUS
  <2>1. ~(k < m)
    BY <1>1 DEF OpToRel
  <2>2. QED
    BY <2>1
<1>3. QED
  BY <1>2

\* What the indices say, wrapped or not.
Counted ==
    {r, w, e} \subseteq 0..Wrap - 1 =>
        /\ Used \in 0..Wrap - 1 /\ (e = r + Used \/ e + Wrap = r + Used)
        /\ Ready \in 0..Wrap - 1 /\ (w = r + Ready \/ w + Wrap = r + Ready)
        /\ r = w <=> Ready = 0
        /\ Ready <= Used => Plus(e, -w) = Used - Ready

LEMMA CountedNow == Counted
<1> SUFFICES ASSUME {r, w, e} \subseteq 0..Wrap - 1 PROVE Counted
  BY DEF Counted
<1>1. Wrap \in Nat \ {0} /\ r \in 0..Wrap - 1 /\ w \in 0..Wrap - 1 /\ e \in 0..Wrap - 1
  BY ConsoleAssumption
<1>2. /\ Plus(e, -r) \in 0..Wrap - 1
      /\ Plus(e, -r) = IF e >= r THEN e - r ELSE e - r + Wrap
  BY <1>1, PlusIs
<1>3. /\ Plus(w, -r) \in 0..Wrap - 1
      /\ Plus(w, -r) = IF w >= r THEN w - r ELSE w - r + Wrap
  BY <1>1, PlusIs
<1>4. Plus(e, -w) = IF e >= w THEN e - w ELSE e - w + Wrap
  BY <1>1, PlusIs
<1>5. QED
  BY <1>1, <1>2, <1>3, <1>4 DEF Counted, Used, Ready

LEMMA CountedThen == Counted'
BY CountedNow, PTL

RingIs ==
    /\ Wrap \in Nat \ {0} /\ INPUT_BUF \in Nat \ {0} /\ INPUT_BUF < Wrap
    /\ r \in 0..Wrap - 1 /\ w \in 0..Wrap - 1 /\ e \in 0..Wrap - 1
    /\ Used \in 0..INPUT_BUF /\ Ready \in 0..Used
    /\ e = r + Used \/ e + Wrap = r + Used
    /\ w = r + Ready \/ w + Wrap = r + Ready
    /\ r = w <=> Ready = 0
    /\ Plus(e, -w) = Used - Ready
    /\ Used = INPUT_BUF => Ready # 0

LEMMA RingNow == ASSUME TypeOK PROVE RingIs
<1>1. Ready <= Used /\ Used <= INPUT_BUF /\ (Used = INPUT_BUF => r # w)
  BY DEF TypeOK, Used, Ready
<1>2. Wrap \in Nat \ {0} /\ INPUT_BUF \in Nat \ {0} /\ INPUT_BUF < Wrap
  BY ConsoleAssumption
<1>3. {r, w, e} \subseteq 0..Wrap - 1
  BY DEF TypeOK
<1> HIDE DEF Used, Ready
<1>4. QED
  BY <1>1, <1>2, <1>3, CountedNow DEF Counted, RingIs

\* The types of the ring after a step that keeps its order.
RingTypes ==
    /\ {r, w, e} \subseteq 0..Wrap - 1
    /\ Plus(w, -r) <= Plus(e, -r) /\ Plus(e, -r) <= INPUT_BUF
    /\ Plus(e, -r) = INPUT_BUF => r # w

LEMMA RingThen ==
    ASSUME r' \in 0..Wrap - 1, w' \in 0..Wrap - 1, e' \in 0..Wrap - 1,
           Used' \in 0..INPUT_BUF, Ready' \in 0..Used', Used' = INPUT_BUF => Ready' # 0
    PROVE  RingTypes'
<1>1. r' = w' <=> Ready' = 0
  BY CountedThen DEF Counted
<1>2. Used' = Plus(e', -r') /\ Ready' = Plus(w', -r')
  BY DEF Used, Ready
<1>3. Ready' <= Used' /\ Used' <= INPUT_BUF
  BY ConsoleAssumption
<1>4. QED
  BY <1>1, <1>2, <1>3 DEF RingTypes

\* A character joins the ring, and perhaps the line is handed to the readers.
Inserts(c) ==
    /\ Used < INPUT_BUF
    /\ buf' = [buf EXCEPT ![e % INPUT_BUF] = c]
    /\ r' = r /\ e' \in 0..Wrap - 1 /\ Used' = Used + 1
    /\ \/ (c \in {NL, EOF} \/ Used + 1 = INPUT_BUF) /\ w' = e' /\ Ready' = Used + 1 /\ wakeup
       \/ ~(c \in {NL, EOF} \/ Used + 1 = INPUT_BUF) /\ w' = w /\ Ready' = Ready /\ pc' = pc

\* k characters leave the line.
Erases(k) ==
    /\ UNCHANGED <<buf, r, w, pc>> /\ e' \in 0..Wrap - 1 /\ Ready' = Ready
    /\ k \in 0..Used - Ready /\ Used' = Used - k

LEMMA InsertIs ==
    ASSUME TypeOK, NEW c \in Char, insert(c)
    PROVE  Inserts(c)
<1>1. RingIs
  BY RingNow
<1>2. /\ Used < INPUT_BUF /\ r' = r /\ e' = Plus(e, 1)
      /\ buf' = [buf EXCEPT ![e % INPUT_BUF] = c]
      /\ IF commits(c) THEN w' = e' /\ wakeup ELSE UNCHANGED <<w, pc>>
  BY DEF insert, Used
<1>3. e' \in 0..Wrap - 1 /\ e' = IF e + 1 < Wrap THEN e + 1 ELSE e + 1 - Wrap
  <2>1. 1 \in 0..Wrap - 1 /\ e \in 0..Wrap - 1
    BY <1>1 DEF RingIs
  <2>2. QED
    BY <1>2, <2>1, PlusIs
<1>4. Used' = Used + 1
  <2>1. Used' \in 0..Wrap - 1 /\ Used' = IF e' >= r THEN e' - r ELSE e' - r + Wrap
    BY <1>1, <1>2, <1>3, PlusIs DEF RingIs, Used
  <2> HIDE DEF Used, Ready
  <2>2. QED
    BY <1>1, <1>2, <1>3, <2>1 DEF RingIs
<1>5. commits(c) <=> (c \in {NL, EOF} \/ Used + 1 = INPUT_BUF)
  <2>1. Plus(r, INPUT_BUF) = IF r + INPUT_BUF < Wrap THEN r + INPUT_BUF ELSE r + INPUT_BUF - Wrap
    <3>1. INPUT_BUF \in 0..Wrap - 1 /\ r \in 0..Wrap - 1
      BY <1>1 DEF RingIs
    <3>2. QED
      BY <3>1, PlusIs
  <2> HIDE DEF Used, Ready
  <2>2. Plus(e, 1) = Plus(r, INPUT_BUF) <=> Used + 1 = INPUT_BUF
    BY <1>1, <1>2, <1>3, <2>1 DEF RingIs
  <2>3. QED
    BY <2>2 DEF commits
<1>6. CASE commits(c)
  <2>1. w' = e' /\ wakeup
    BY <1>2, <1>6
  <2>2. Ready' = Used'
    BY <2>1 DEF Used, Ready
  <2> HIDE DEF Used, Ready
  <2>3. QED
    BY <1>2, <1>3, <1>4, <1>5, <1>6, <2>1, <2>2 DEF Inserts
<1>7. CASE ~commits(c)
  <2>1. w' = w /\ pc' = pc
    BY <1>2, <1>7
  <2>2. Ready' = Ready
    BY <2>1, <1>2 DEF Ready
  <2> HIDE DEF Used, Ready
  <2>3. QED
    BY <1>2, <1>3, <1>4, <1>5, <1>7, <2>1, <2>2 DEF Inserts
<1>8. QED
  BY <1>6, <1>7

LEMMA EraseIs ==
    ASSUME TypeOK, NEW k \in 0..Used - Ready, e' = Plus(e, -k), UNCHANGED <<buf, r, w, pc>>
    PROVE  Erases(k)
<1>1. RingIs
  BY RingNow
<1>2. k \in 0..Wrap - 1
  BY <1>1 DEF RingIs
<1>3. e' \in 0..Wrap - 1 /\ e' = IF e >= k THEN e - k ELSE e - k + Wrap
  BY <1>1, <1>2, PlusIs DEF RingIs
<1>4. Used' \in 0..Wrap - 1 /\ Used' = IF e' >= r THEN e' - r ELSE e' - r + Wrap
  BY <1>1, <1>3, PlusIs DEF RingIs, Used
<1>5. Ready' = Ready
  BY DEF Ready
<1> HIDE DEF Used, Ready
<1>6. Used' = Used - k
  BY <1>1, <1>2, <1>3, <1>4 DEF RingIs
<1>7. QED
  BY <1>3, <1>5, <1>6 DEF Erases

\* What a round of consoleintr's loop does to the ring.
LEMMA EditIs ==
    ASSUME TypeOK, NEW c \in Typed, edit(c)
    PROVE  \/ \E k \in 0..Used - Ready : Erases(k) /\ (k \in {0, 1} \/ k \in Unkilled)
           \/ \E d \in Char : Inserts(d)
<1>1. RingIs
  BY RingNow
<1>2. CASE c = "^U"
  <2> DEFINE k == Min(Unkilled)
  <2>1. Used - Ready \in Unkilled /\ Unkilled \in SUBSET (0..Used - Ready)
    BY <1>1 DEF Unkilled, RingIs
  <2>2. k \in Unkilled
    <3> HIDE DEF Used, Ready
    <3>1. Unkilled \in SUBSET Nat /\ Unkilled # {}
      BY <2>1, <1>1 DEF RingIs
    <3>2. QED
      BY <3>1, LeastIs DEF Min
  <2>3. e' = Plus(e, -k) /\ UNCHANGED <<buf, r, w, pc>>
    BY <1>2 DEF edit
  <2> HIDE DEF k
  <2>4. QED
    BY <2>1, <2>2, <2>3, EraseIs
<1>3. CASE c = "^H"
  <2>1. UNCHANGED <<buf, r, w, pc>> /\ e' = IF e # w THEN Plus(e, -1) ELSE e
    BY <1>3 DEF edit
  <2>2. CASE e # w
    <3>1. 1 \in 0..Used - Ready
      BY <2>2, <1>1 DEF RingIs
    <3>2. QED
      BY <2>1, <2>2, <3>1, EraseIs
  <2>3. CASE e = w
    <3>1. e' = Plus(e, -0) /\ 0 \in 0..Used - Ready
      BY <2>1, <2>3, <1>1, PlusIs DEF RingIs
    <3>2. QED
      BY <2>1, <3>1, EraseIs
  <2>4. QED
    BY <2>2, <2>3
<1>4. CASE c \notin {"^U", "^H"} /\ (c = NUL \/ Plus(e, -r) >= INPUT_BUF)
  <2>1. UNCHANGED <<buf, r, w, e, pc>>
    BY <1>4 DEF edit, input
  <2>2. e' = Plus(e, -0) /\ 0 \in 0..Used - Ready
    BY <2>1, <1>1, PlusIs DEF RingIs
  <2>3. QED
    BY <2>1, <2>2, EraseIs
<1>5. CASE c \notin {"^U", "^H"} /\ ~(c = NUL \/ Plus(e, -r) >= INPUT_BUF)
  <2> DEFINE d == IF c = "cr" THEN NL ELSE c
  <2>1. d \in Char
    BY <1>5, ConsoleAssumption DEF Char, NL, EOF, NUL
  <2>2. insert(d)
    BY <1>5 DEF edit
  <2>3. QED
    BY <2>1, <2>2, InsertIs
<1>6. QED
  BY <1>2, <1>3, <1>4, <1>5

-----------------------------------------------------------------------------
LEMMA InitIInv == Init => IInv
<1> SUFFICES ASSUME Init PROVE IInv
  OBVIOUS
<1>1. Wrap \in Nat \ {0} /\ INPUT_BUF \in Nat \ {0} /\ 0 \in 0..Wrap - 1
  BY ConsoleAssumption
<1>2. Plus(0, -0) = 0
  BY <1>1, PlusIs
<1>3. r = 0 /\ w = 0 /\ e = 0
  BY DEF Init
<1>4. TypeOK
  BY <1>1, <1>2, <1>3 DEF Init, TypeOK, Char
<1>5. LockInv /\ SleepInv /\ dst \in [Reader -> Seq(Char)]
  BY ConsoleAssumption DEF Init, LockInv, SleepInv
<1>6. QED
  BY <1>4, <1>5 DEF IInv

\* A step that leaves the ring alone.
LEMMA RingFrame ==
    ASSUME TypeOK, UNCHANGED <<buf, r, w, e>>
    PROVE  RingTypes'
BY DEF TypeOK, RingTypes

\* The interrupt takes a character.
LEMMA IntrCharStep ==
    ASSUME IInv, NEW c \in Typed, IntrChar(c)
    PROVE  IInv'
<1> USE DEF IInv
<1>1. lock = "intr" /\ edit(c) /\ UNCHANGED <<lock, n, dst, killed>>
  BY DEF IntrChar
<1>2. RingIs
  BY RingNow
<1>3. \A p \in Reader : pc[p] \notin {"loop", "sleep"}
  BY <1>1, ConsoleAssumption DEF LockInv
<1>4. ASSUME NEW k \in 0..Used - Ready, Erases(k) PROVE IInv'
  <2>1. Used' = Used - k
    BY <1>4 DEF Erases
  <2>2. UNCHANGED <<buf, r, w, pc>> /\ e' \in 0..Wrap - 1 /\ Ready' = Ready
    BY <1>4 DEF Erases
  <2> HIDE DEF Used, Ready
  <2>3. /\ r' \in 0..Wrap - 1 /\ w' \in 0..Wrap - 1
        /\ Used' \in 0..INPUT_BUF /\ Ready' \in 0..Used' /\ (Used' = INPUT_BUF => Ready' # 0)
    BY <1>2, <2>1, <2>2 DEF RingIs
  <2>4. RingTypes'
    BY <2>2, <2>3, RingThen
  <2>5. TypeOK'
    BY <1>1, <2>2, <2>4 DEF TypeOK, RingTypes
  <2>6. QED
    BY <1>1, <2>2, <2>5 DEF LockInv, SleepInv
<1>5. ASSUME NEW d \in Char, Inserts(d) PROVE IInv'
  <2>1. /\ Used < INPUT_BUF /\ buf' = [buf EXCEPT ![e % INPUT_BUF] = d]
        /\ r' = r /\ e' \in 0..Wrap - 1 /\ Used' = Used + 1
        /\ \/ w' = e' /\ Ready' = Used + 1 /\ wakeup
           \/ Used + 1 # INPUT_BUF /\ w' = w /\ Ready' = Ready /\ pc' = pc
    BY <1>5 DEF Inserts
  <2>2. /\ r' \in 0..Wrap - 1 /\ w' \in 0..Wrap - 1
        /\ Used' \in 0..INPUT_BUF /\ Ready' \in 0..Used' /\ (Used' = INPUT_BUF => Ready' # 0)
    <3> HIDE DEF Used, Ready
    <3>1. QED
      BY <1>2, <2>1 DEF RingIs
  <2>3. RingTypes'
    <3> HIDE DEF Used, Ready
    <3>1. QED
      BY <2>1, <2>2, RingThen
  <2>4. buf' \in [0..INPUT_BUF - 1 -> Char]
    BY <2>1 DEF TypeOK
  <2>5. wakeup \/ (pc' = pc /\ w' = w)
    BY <2>1
  <2>6. /\ pc' \in [Reader -> {"idle", "acquire", "loop", "sleep", "asleep"}]
        /\ \A p \in Reader : /\ pc'[p] \in {"loop", "sleep"} <=> pc[p] \in {"loop", "sleep"}
                             /\ pc'[p] = "idle" <=> pc[p] = "idle"
                             /\ pc'[p] = "asleep" => pc' = pc /\ pc[p] = "asleep" /\ w' = w
    <3>1. CASE wakeup
      BY <3>1 DEF wakeup, TypeOK
    <3>2. CASE pc' = pc /\ w' = w
      BY <3>2 DEF TypeOK
    <3>3. QED
      BY <2>5, <3>1, <3>2
  <2>7. TypeOK'
    BY <1>1, <2>3, <2>4, <2>6 DEF TypeOK, RingTypes
  <2>8. LockInv'
    BY <1>1, <2>6 DEF LockInv
  <2>9. SleepInv'
    BY <1>3, <2>1, <2>6 DEF SleepInv
  <2>10. QED
    BY <1>1, <2>7, <2>8, <2>9
<1>6. QED
  BY <1>1, <1>4, <1>5, EditIs

\* A reader takes a character or uses up a ^D.
LEMMA TakeIs ==
    ASSUME TypeOK, r # w, r' = Plus(r, 1), UNCHANGED <<buf, w, e>>
    PROVE  /\ RingTypes' /\ Ready > 0 /\ Used > 0
           /\ Ready' = Ready - 1 /\ Used' = Used - 1
           /\ r' \in 0..Wrap - 1 /\ (r' = r + 1 \/ r' + Wrap = r + 1)
<1>1. RingIs
  BY RingNow
<1>2. r' \in 0..Wrap - 1 /\ r' = IF r + 1 < Wrap THEN r + 1 ELSE r + 1 - Wrap
  <2>1. 1 \in 0..Wrap - 1 /\ r \in 0..Wrap - 1
    BY <1>1 DEF RingIs
  <2>2. QED
    BY <2>1, PlusIs
<1>3. Used' = IF e >= r' THEN e - r' ELSE e - r' + Wrap
  BY <1>1, <1>2, PlusIs DEF RingIs, Used
<1>4. Ready' = IF w >= r' THEN w - r' ELSE w - r' + Wrap
  BY <1>1, <1>2, PlusIs DEF RingIs, Ready
<1> HIDE DEF Used, Ready
<1>5. Ready > 0 /\ Used > 0
  BY <1>1 DEF RingIs
<1>6. Ready' = Ready - 1 /\ Used' = Used - 1
  BY <1>1, <1>2, <1>3, <1>4, <1>5 DEF RingIs
<1>7. RingTypes'
  <2>1. /\ w' \in 0..Wrap - 1 /\ e' \in 0..Wrap - 1
        /\ Used' \in 0..INPUT_BUF /\ Ready' \in 0..Used' /\ (Used' = INPUT_BUF => Ready' # 0)
    BY <1>1, <1>5, <1>6 DEF RingIs
  <2>2. QED
    BY <1>2, <2>1, RingThen
<1>8. QED
  BY <1>1, <1>2, <1>5, <1>6, <1>7 DEF RingIs

LEMMA SlotIs ==
    ASSUME TypeOK, NEW i \in Nat
    PROVE  i % INPUT_BUF \in 0..INPUT_BUF - 1 /\ buf[i % INPUT_BUF] \in Char
<1>1. i % INPUT_BUF \in 0..INPUT_BUF - 1
  BY Division, ConsoleAssumption
<1>2. QED
  BY <1>1 DEF TypeOK

LEMMA ReadCharStep ==
    ASSUME IInv, NEW p \in Reader, ReadChar(p)
    PROVE  IInv'
<1> USE DEF IInv
<1>1. /\ pc[p] = "loop" /\ r # w /\ r' = Plus(r, 1)
      /\ dst' = [dst EXCEPT ![p] = Append(dst[p], At(r))]
      /\ UNCHANGED <<lock, buf, w, e, pc, n, killed>>
  BY DEF ReadChar, Wants
<1>2. RingTypes'
  BY <1>1, TakeIs
<1>3. TypeOK'
  BY <1>1, <1>2 DEF TypeOK, RingTypes
<1>4. At(r) \in Char
  <2>1. r \in Nat
    BY RingNow DEF RingIs
  <2>2. QED
    BY <2>1, SlotIs DEF At
<1>5. dst' \in [Reader -> Seq(Char)]
  BY <1>1, <1>4
<1>6. LockInv'
  BY <1>1, <1>5 DEF LockInv
<1>7. SleepInv'
  BY <1>1 DEF SleepInv, LockInv
<1>8. QED
  BY <1>3, <1>5, <1>6, <1>7

\* A read returns.
LEMMA ReturnStep ==
    ASSUME IInv, NEW p \in Reader, pc[p] = "loop", return(p), UNCHANGED <<buf, w, e, killed>>,
           r' = r \/ (r # w /\ r' = Plus(r, 1))
    PROVE  IInv'
<1> USE DEF IInv
<1>1. /\ lock' = NoOne /\ pc' = [pc EXCEPT ![p] = "idle"] /\ n' = [n EXCEPT ![p] = -1]
      /\ dst' = [dst EXCEPT ![p] = <<>>]
  BY DEF return
<1>2. RingTypes'
  <2>1. CASE r' = r
    BY <2>1, RingFrame
  <2>2. CASE r # w /\ r' = Plus(r, 1)
    BY <2>2, TakeIs
  <2>3. QED
    BY <2>1, <2>2
<1>3. TypeOK'
  BY <1>1, <1>2 DEF TypeOK, RingTypes
<1>4. dst' \in [Reader -> Seq(Char)]
  BY <1>1
<1>5. \A q \in Reader \ {p} : pc'[q] = pc[q] /\ n'[q] = n[q] /\ dst'[q] = dst[q]
  BY <1>1 DEF TypeOK
<1>6. \A q \in Reader \ {p} : pc[q] \notin {"loop", "sleep"}
  BY DEF LockInv
<1>7. pc'[p] = "idle" /\ n'[p] = -1 /\ dst'[p] = <<>>
  BY <1>1 DEF TypeOK
<1>8. LockInv'
  <2> SUFFICES ASSUME NEW q \in Reader PROVE LockInv!(q)'
    BY DEF LockInv
  <2>1. NoOne # q
    BY ConsoleAssumption
  <2>2. CASE q = p
    BY <2>1, <2>2, <1>1, <1>4, <1>7
  <2>3. CASE q # p
    BY <2>1, <2>3, <1>1, <1>4, <1>5, <1>6 DEF LockInv
  <2>4. QED
    BY <2>2, <2>3
<1>9. SleepInv'
  BY <1>5, <1>6, <1>7 DEF SleepInv
<1>10. QED
  BY <1>3, <1>4, <1>8, <1>9

\* The steps that only move a process or the lock.
LEMMA OtherStep ==
    ASSUME IInv,
           \/ Intr \/ IntrDone
           \/ \E p \in Reader : Read(p) \/ ReadAcquire(p) \/ ReadEmpty(p) \/ ReadSleep(p) \/ Kill(p)
    PROVE  IInv'
<1> USE DEF IInv
<1>1. UNCHANGED <<buf, r, w, e, dst>>
  BY DEF Intr, IntrDone, Read, ReadAcquire, ReadEmpty, ReadSleep, Kill, input, reader
<1>2. RingTypes'
  BY <1>1, RingFrame
<1>3. CASE Intr \/ IntrDone
  <2>1. UNCHANGED <<n, pc>> /\ lock \notin Reader /\ lock' \in {NoOne, "intr"} /\ lock' \notin Reader
    BY <1>3, ConsoleAssumption DEF Intr, IntrDone, reader
  <2>2. TypeOK'
    BY <1>1, <1>2, <2>1 DEF TypeOK, RingTypes
  <2>3. QED
    BY <1>1, <2>1, <2>2 DEF LockInv, SleepInv
<1>4. ASSUME NEW p \in Reader,
             Read(p) \/ ReadAcquire(p) \/ ReadEmpty(p) \/ ReadSleep(p) \/ Kill(p)
      PROVE  IInv'
  <2>1. \A q \in Reader \ {p} : pc'[q] = pc[q] /\ n'[q] = n[q]
    BY <1>4 DEF Read, ReadAcquire, ReadEmpty, ReadSleep, Kill, TypeOK
  <2>2. pc' \in [Reader -> {"idle", "acquire", "loop", "sleep", "asleep"}]
    BY <1>4 DEF Read, ReadAcquire, ReadEmpty, ReadSleep, Kill, TypeOK
  <2>3. lock' \in Reader \cup {NoOne, "intr"} /\ n' \in [Reader -> Sizes \cup {-1}]
    <3>1. CASE Read(p)
      <4>1. PICK k \in Sizes : n' = [n EXCEPT ![p] = k]
        BY <3>1 DEF Read
      <4>2. QED
        BY <3>1, <4>1 DEF Read, TypeOK
    <3>2. CASE ~Read(p)
      BY <1>4, <3>2 DEF ReadAcquire, ReadEmpty, ReadSleep, Kill, TypeOK
    <3>3. QED
      BY <3>1, <3>2
  <2>4. TypeOK'
    BY <1>1, <1>2, <2>2, <2>3 DEF TypeOK, RingTypes
  <2>5. \A k \in Sizes : k # -1
    BY ConsoleAssumption
  <2>6. /\ n'[p] = -1 <=> pc'[p] = "idle"
        /\ pc'[p] = "idle" => pc[p] = "idle"
        /\ pc'[p] \in {"sleep", "asleep"} => r = w
        /\ lock' = p <=> pc'[p] \in {"loop", "sleep"}
        /\ \A q \in Reader \ {p} : lock' = q <=> lock = q
    <3>1. LockInv!(p) /\ SleepInv!(p) /\ p # NoOne
      BY ConsoleAssumption DEF LockInv, SleepInv
    <3>2. CASE Read(p)
      BY <3>1, <3>2, <2>5 DEF Read, TypeOK
    <3>3. CASE ReadAcquire(p)
      BY <3>1, <3>3, ConsoleAssumption DEF ReadAcquire, TypeOK
    <3>4. CASE ReadEmpty(p)
      BY <3>1, <3>4 DEF ReadEmpty, Wants, TypeOK
    <3>5. CASE ReadSleep(p)
      BY <3>1, <3>5, ConsoleAssumption DEF ReadSleep, TypeOK
    <3>6. CASE Kill(p)
      BY <3>1, <3>6 DEF Kill, TypeOK
    <3>7. QED
      BY <1>4, <3>2, <3>3, <3>4, <3>5, <3>6
  <2>7. LockInv'
    BY <1>1, <2>1, <2>6 DEF LockInv
  <2>8. SleepInv'
    BY <1>1, <2>1, <2>6 DEF SleepInv
  <2>9. QED
    BY <1>1, <2>4, <2>7, <2>8
<1>5. QED
  BY <1>3, <1>4

LEMMA NextIInv == IInv /\ [Next]_vars => IInv'
<1> SUFFICES ASSUME IInv, [Next]_vars PROVE IInv'
  OBVIOUS
<1>1. CASE UNCHANGED vars
  BY <1>1 DEF vars, input, reader, IInv, TypeOK, LockInv, SleepInv
<1>2. ASSUME NEW c \in Typed, IntrChar(c) PROVE IInv'
  BY <1>2, IntrCharStep
<1>3. ASSUME NEW p \in Reader, ReadDone(p) \/ ReadKilled(p) \/ ReadEof(p) PROVE IInv'
  <2>1. /\ pc[p] = "loop" /\ return(p) /\ UNCHANGED <<buf, w, e, killed>>
        /\ r' = r \/ (r # w /\ r' = Plus(r, 1))
    BY <1>3 DEF ReadDone, ReadKilled, ReadEof, Wants, input
  <2>2. QED
    BY <2>1, ReturnStep
<1>4. ASSUME NEW p \in Reader, ReadChar(p) PROVE IInv'
  BY <1>4, ReadCharStep
<1>5. QED
  BY <1>1, <1>2, <1>3, <1>4, OtherStep DEF Next

LEMMA Invariant == Spec => []IInv
BY InitIInv, NextIInv, PTL DEF Spec

(* The indices of the ring stay in order and never more than INPUT_BUF     *)
(* apart, across their wrap, and a full ring has something to read.        *)
THEOREM TypeCorrect == Spec => []TypeOK
<1>1. IInv => TypeOK
  BY DEF IInv
<1>2. QED
  BY Invariant, <1>1, PTL

(* A reader sleeps only while there is nothing to read: the wakeup of      *)
(* consoleintr cannot come between the test and the sleep.                 *)
THEOREM NoLostWakeup == Spec => []SleepersMustWait
<1>1. IInv => SleepersMustWait
  BY DEF IInv, SleepInv, SleepersMustWait
<1>2. QED
  BY Invariant, <1>1, PTL

-----------------------------------------------------------------------------
\* What the terminal's line and queue are, character by character.
Line == Slice(w, e)
Queue == Slice(r, w)
Text(k) == buf[(r + k - 1) % INPUT_BUF]

Layout ==
    /\ Queue \in Seq(Char) /\ Len(Queue) = Ready
    /\ \A k \in 1..Ready : Queue[k] = Text(k)
    /\ Line \in Seq(Char) /\ Len(Line) = Used - Ready
    /\ \A k \in 1..Used - Ready : Line[k] = Text(Ready + k)

LEMMA SliceIs ==
    ASSUME TypeOK, NEW i \in 0..Wrap - 1, NEW j \in 0..Wrap - 1
    PROVE  /\ Slice(i, j) \in Seq(Char) /\ Len(Slice(i, j)) = Plus(j, -i)
           /\ \A k \in 1..Plus(j, -i) : Slice(i, j)[k] = buf[(i + k - 1) % INPUT_BUF]
<1> DEFINE m == Plus(j, -i)
<1>1. m \in 0..Wrap - 1 /\ Wrap \in Nat \ {0} /\ m \in Nat
  <2>1. m \in 0..Wrap - 1
    BY PlusIs
  <2>2. Wrap \in Nat \ {0}
    BY ConsoleAssumption
  <2> HIDE DEF m
  <2>3. QED
    BY <2>1, <2>2
<1> HIDE DEF m
<1>2. \A k \in 1..m : At(Plus(i, k - 1)) = buf[(i + k - 1) % INPUT_BUF]
  <2> SUFFICES ASSUME NEW k \in 1..m PROVE At(Plus(i, k - 1)) = buf[(i + k - 1) % INPUT_BUF]
    OBVIOUS
  <2>1. k - 1 \in 0..Wrap - 1 /\ i + (k - 1) = i + k - 1
    BY <1>1
  <2>2. Plus(i, k - 1) = i + k - 1 \/ (Plus(i, k - 1) \in Nat /\ Plus(i, k - 1) + Wrap = i + k - 1)
    BY <1>1, <2>1, PlusIs
  <2>3. Plus(i, k - 1) % INPUT_BUF = (i + k - 1) % INPUT_BUF
    BY <2>2, SlotWrapped
  <2>4. QED
    BY <2>3 DEF At
<1>3. \A k \in 1..m : buf[(i + k - 1) % INPUT_BUF] \in Char
  <2> SUFFICES ASSUME NEW k \in 1..m PROVE buf[(i + k - 1) % INPUT_BUF] \in Char
    OBVIOUS
  <2>1. i + k - 1 \in Nat
    BY <1>1
  <2>2. QED
    BY <2>1, SlotIs
<1>4. Slice(i, j) = [k \in 1..m |-> At(Plus(i, k - 1))]
  BY DEF Slice, m
<1>5. Slice(i, j) \in [1..m -> Char]
  BY <1>2, <1>3, <1>4
<1>6. Slice(i, j) \in Seq(Char)
  BY <1>1, <1>5, SeqDef
<1>7. Len(Slice(i, j)) = m
  BY <1>1, <1>5, <1>6, LenProperties
<1>8. QED
  BY <1>2, <1>4, <1>6, <1>7 DEF m

LEMMA LayoutNow == TypeOK => Layout
<1> SUFFICES ASSUME TypeOK PROVE Layout
  OBVIOUS
<1>1. RingIs
  BY RingNow
<1>2. /\ Queue \in Seq(Char) /\ Len(Queue) = Ready
      /\ \A k \in 1..Ready : Queue[k] = Text(k)
  BY <1>1, SliceIs DEF Queue, Text, Ready, RingIs
<1>3. /\ Line \in Seq(Char) /\ Len(Line) = Plus(e, -w)
      /\ \A k \in 1..Plus(e, -w) : Line[k] = buf[(w + k - 1) % INPUT_BUF]
  BY <1>1, SliceIs DEF Line, RingIs
<1> HIDE DEF Used, Ready, Line, Queue
<1>4. Len(Line) = Used - Ready
  BY <1>1, <1>3 DEF RingIs
<1>5. ASSUME NEW k \in 1..Used - Ready PROVE Line[k] = Text(Ready + k)
  <2>1. Line[k] = buf[(w + k - 1) % INPUT_BUF]
    BY <1>1, <1>3 DEF RingIs
  <2>2. w + k - 1 \in Nat /\ (w + k - 1 = r + (Ready + k) - 1 \/ (w + k - 1) + Wrap = r + (Ready + k) - 1)
    BY <1>1 DEF RingIs
  <2>3. (w + k - 1) % INPUT_BUF = (r + (Ready + k) - 1) % INPUT_BUF
    BY <2>2, SlotWrapped
  <2>4. QED
    BY <2>1, <2>3 DEF Text
<1>6. QED
  BY <1>2, <1>3, <1>4, <1>5 DEF Layout

\* The same after a step.
TextNext(k) == buf'[(r' + k - 1) % INPUT_BUF]

LEMMA LayoutThen ==
    ASSUME TypeOK'
    PROVE  /\ Queue' \in Seq(Char) /\ Len(Queue') = Ready'
           /\ \A k \in 1..Ready' : Queue'[k] = TextNext(k)
           /\ Line' \in Seq(Char) /\ Len(Line') = Used' - Ready'
           /\ \A k \in 1..Used' - Ready' : Line'[k] = TextNext(Ready' + k)
<1>1. TypeOK' => Layout'
  BY LayoutNow, PTL
<1> HIDE DEF Used, Ready, Line, Queue
<1>2. QED
  BY <1>1 DEF Layout, Text, TextNext

LEMMA SameLayout ==
    ASSUME UNCHANGED <<buf, r, w, e>>
    PROVE  UNCHANGED <<Line, Queue>>
BY DEF Line, Queue, Slice, At

\* A character put into the ring changes none of the others.
LEMMA TextThen ==
    ASSUME TypeOK, NEW c \in Char, Inserts(c)
    PROVE  (\A k \in 1..Used : TextNext(k) = Text(k)) /\ TextNext(Used + 1) = c
<1>1. RingIs /\ Used < INPUT_BUF /\ buf' = [buf EXCEPT ![e % INPUT_BUF] = c] /\ r' = r
  BY RingNow DEF Inserts
<1> HIDE DEF Used, Ready
<1>2. r + Used \in Nat /\ e % INPUT_BUF = (r + Used) % INPUT_BUF
  <2>1. e \in Nat /\ (r + Used = e \/ r + Used = e + Wrap) /\ r + Used \in Nat
    BY <1>1 DEF RingIs
  <2>2. QED
    BY <2>1, SlotWrapped
<1>3. ASSUME NEW k \in 1..Used PROVE TextNext(k) = Text(k)
  <2> DEFINE x == r + k - 1
             j == Used - (k - 1)
  <2>1. x \in Nat /\ j \in 1..INPUT_BUF - 1 /\ x + j = r + Used /\ INPUT_BUF \in Nat \ {0}
    BY <1>1 DEF RingIs
  <2> HIDE DEF x, j
  <2>2. (x + j) % INPUT_BUF # x % INPUT_BUF
    BY <2>1, ModDistinct
  <2>3. x % INPUT_BUF \in 0..INPUT_BUF - 1
    BY <2>1, SlotIs
  <2>4. buf'[x % INPUT_BUF] = buf[x % INPUT_BUF]
    BY <1>1, <1>2, <2>1, <2>2, <2>3 DEF TypeOK
  <2>5. QED
    BY <1>1, <2>4 DEF Text, TextNext, x
<1>4. TextNext(Used + 1) = c
  <2>1. r + (Used + 1) - 1 = r + Used
    BY <1>1 DEF RingIs
  <2>2. (r + Used) % INPUT_BUF \in 0..INPUT_BUF - 1
    BY <1>2, SlotIs
  <2>3. QED
    BY <1>1, <1>2, <2>1, <2>2 DEF TextNext, TypeOK
<1>5. QED
  BY <1>3, <1>4

\* A character typed is Tty's Type.
LEMMA InsertRefines ==
    ASSUME TypeOK, TypeOK', NEW c \in Char, Inserts(c), UNCHANGED <<n, dst>>
    PROVE  Terminal!Type(c)
<1>1. RingIs /\ Layout
  BY RingNow, LayoutNow
<1>2. /\ Used < INPUT_BUF /\ Used' = Used + 1
      /\ \/ (c \in {NL, EOF} \/ Used + 1 = INPUT_BUF) /\ Ready' = Used + 1
         \/ ~(c \in {NL, EOF} \/ Used + 1 = INPUT_BUF) /\ Ready' = Ready
  BY DEF Inserts
<1>3. (\A k \in 1..Used : TextNext(k) = Text(k)) /\ TextNext(Used + 1) = c
  BY TextThen
<1> HIDE DEF Used, Ready, Line, Queue
<1>4. Used \in Nat /\ Ready \in Nat /\ Ready <= Used
  BY <1>1 DEF RingIs
<1>5. /\ Len(Line) + Len(Queue) = Used /\ Len(Line) = Used - Ready /\ Len(Queue) = Ready
      /\ Line \in Seq(Char) /\ Queue \in Seq(Char)
  BY <1>1, <1>4 DEF Layout
<1>6. /\ Append(Line, c) \in Seq(Char) /\ Len(Append(Line, c)) = Used - Ready + 1
      /\ \A k \in 1..Used - Ready : Append(Line, c)[k] = Text(Ready + k)
      /\ Append(Line, c)[Used - Ready + 1] = c
  BY <1>1, <1>5, AppendProperties DEF Layout
<1>7. CASE Ready' = Used + 1
  <2> DEFINE t == Queue \o Append(Line, c)
  <2>1. /\ t \in Seq(Char) /\ Len(t) = Used + 1
        /\ \A k \in 1..Used + 1 : t[k] = IF k <= Ready THEN Queue[k] ELSE Append(Line, c)[k - Ready]
    <3>1. Len(Queue) + Len(Append(Line, c)) = Used + 1
      BY <1>4, <1>5, <1>6
    <3> DEFINE u == Append(Line, c)
    <3> HIDE DEF u
    <3>2. u \in Seq(Char) /\ Len(Queue) + Len(u) = Used + 1 /\ Queue \in Seq(Char) /\ Len(Queue) = Ready
      BY <1>5, <1>6, <3>1 DEF u
    <3>3. /\ Queue \o u \in Seq(Char) /\ Len(Queue \o u) = Len(Queue) + Len(u)
          /\ \A k \in 1..Len(Queue) + Len(u) :
                (Queue \o u)[k] = IF k <= Len(Queue) THEN Queue[k] ELSE u[k - Len(Queue)]
      BY <3>2, ConcatProperties
    <3>4. QED
      BY <3>2, <3>3 DEF u
  <2> HIDE DEF t
  <2>2. ASSUME NEW k \in 1..Used + 1 PROVE Queue'[k] = t[k]
    <3>1. Queue'[k] = TextNext(k)
      BY <1>7, LayoutThen
    <3>2. CASE k <= Ready
      <4>1. k \in 1..Ready /\ k \in 1..Used
        BY <1>4, <3>2
      <4>2. QED
        BY <1>1, <1>3, <2>1, <3>1, <3>2, <4>1 DEF Layout
    <3>3. CASE k > Ready /\ k <= Used
      <4>1. k - Ready \in 1..Used - Ready /\ Ready + (k - Ready) = k /\ k \in 1..Used
        BY <1>4, <3>3
      <4>2. Append(Line, c)[k - Ready] = Text(k)
        BY <1>6, <4>1
      <4>3. t[k] = Append(Line, c)[k - Ready]
        <5>1. ~(k <= Ready)
          BY <1>4, <3>3
        <5>2. QED
          BY <2>1, <5>1
      <4>4. QED
        BY <1>3, <3>1, <4>1, <4>2, <4>3
    <3>4. CASE k = Used + 1
      <4>1. t[k] = Append(Line, c)[Used - Ready + 1]
        <5>1. k - Ready = Used - Ready + 1 /\ ~(k <= Ready)
          BY <1>4, <3>4
        <5>2. QED
          BY <2>1, <5>1
      <4>2. QED
        BY <1>3, <1>6, <3>1, <3>4, <4>1
    <3>5. k <= Ready \/ (k > Ready /\ k <= Used) \/ k = Used + 1
      BY <1>4
    <3>6. QED
      BY <3>2, <3>3, <3>4, <3>5
  <2>3. Queue' \in Seq(Char) /\ Len(Queue') = Used + 1
    BY <1>7, LayoutThen
  <2>4. Queue' = t
    BY <2>1, <2>2, <2>3, SeqEqual
  <2>5. Line' = <<>>
    <3>1. Line' \in Seq(Char) /\ Len(Line') = 0
      BY <1>2, <1>4, <1>7, LayoutThen
    <3>2. QED
      BY <3>1, EmptySeq
  <2>6. c \in {NL, EOF} \/ Used + 1 = INPUT_BUF
    BY <1>2, <1>4, <1>7
  <2>7. QED
    BY <1>2, <1>5, <2>4, <2>5, <2>6 DEF Terminal!Type, Line, Queue, t
<1>8. CASE Ready' = Ready
  <2>1. Line' \in Seq(Char) /\ Len(Line') = Used - Ready + 1
    BY <1>2, <1>4, <1>8, LayoutThen
  <2>2. ASSUME NEW k \in 1..Used - Ready + 1 PROVE Line'[k] = Append(Line, c)[k]
    <3>1. Line'[k] = TextNext(Ready + k)
      <4>1. k \in 1..Used' - Ready'
        BY <1>2, <1>4, <1>8
      <4>2. QED
        BY <1>8, <4>1, LayoutThen
    <3>2. CASE k \in 1..Used - Ready
      <4>1. Ready + k \in 1..Used
        BY <1>4, <3>2
      <4>2. QED
        BY <1>3, <1>6, <3>1, <3>2, <4>1
    <3>3. CASE k = Used - Ready + 1
      <4>1. Ready + k = Used + 1
        BY <1>4, <3>3
      <4>2. QED
        BY <1>3, <1>6, <3>1, <3>3, <4>1
    <3>4. k \in 1..Used - Ready \/ k = Used - Ready + 1
      BY <1>4
    <3>5. QED
      BY <3>2, <3>3, <3>4
  <2>3. Line' = Append(Line, c)
    BY <1>6, <2>1, <2>2, SeqEqual
  <2>4. Queue' = Queue
    <3>1. Queue' \in Seq(Char) /\ Len(Queue') = Ready
      BY <1>8, LayoutThen
    <3>2. ASSUME NEW k \in 1..Ready PROVE Queue'[k] = Queue[k]
      <4>1. k \in 1..Used
        BY <1>4
      <4>2. QED
        BY <1>1, <1>3, <1>8, <4>1, LayoutThen DEF Layout
    <3>3. QED
      BY <1>5, <3>1, <3>2, SeqEqual
  <2>5. ~(c \in {NL, EOF} \/ Used + 1 = INPUT_BUF)
    BY <1>2, <1>4, <1>8
  <2>6. QED
    BY <1>2, <1>5, <2>3, <2>4, <2>5 DEF Terminal!Type, Line, Queue
<1>9. QED
  BY <1>2, <1>7, <1>8

\* The line that is edited has no newline, since a newline completes it.
LineInv == \A i \in 1..Len(Line) : Line[i] # NL

\* So kill-line goes back to its start.
LEMMA KillIs ==
    ASSUME TypeOK, LineInv
    PROVE  \A k \in Unkilled : k = Used - Ready
<1>1. RingIs /\ Layout
  BY RingNow, LayoutNow
<1> DEFINE D == Plus(e, -w)
<1>2. Wrap \in Nat /\ INPUT_BUF \in Nat /\ e \in 0..Wrap - 1 /\ w \in 0..Wrap - 1 /\ D = Used - Ready
      /\ D \in 0..Wrap - 1
  BY <1>1, PlusIs DEF RingIs
<1>3. Len(Line) = D /\ (\A i \in 1..D : Line[i] = At(Plus(w, i - 1)))
  <2>1. \A i \in 1..D : Line[i] = At(Plus(w, i - 1))
    BY DEF Line, Slice
  <2> HIDE DEF D
  <2>2. Len(Line) = D
    BY <1>1, <1>2 DEF Layout
  <2>3. QED
    BY <2>1, <2>2
<1>4. ASSUME NEW k \in 0..D, k # D PROVE At(Plus(e, -k - 1)) # NL
  <2>1. D = IF e >= w THEN e - w ELSE e - w + Wrap
    BY <1>2, PlusIs
  <2> HIDE DEF D
  <2>2. k \in Nat /\ k + 1 \in 0..Wrap - 1 /\ D - k \in 1..D /\ D - k - 1 \in 0..Wrap - 1 /\ -k - 1 = -(k + 1)
    BY <1>2, <1>4
  <2>3. Plus(e, -(k + 1)) = IF e >= k + 1 THEN e - (k + 1) ELSE e - (k + 1) + Wrap
    BY <1>2, <2>2, PlusIs
  <2>4. Plus(w, D - k - 1) = IF w + (D - k - 1) < Wrap THEN w + (D - k - 1) ELSE w + (D - k - 1) - Wrap
    BY <1>2, <2>2, PlusIs
  <2>5. Plus(e, -(k + 1)) = Plus(w, D - k - 1)
    <3>1. D \in Nat /\ k < D
      BY <1>2, <2>2
    <3>2. CASE e >= w
      BY <1>2, <2>1, <2>2, <2>3, <2>4, <3>1, <3>2
    <3>3. CASE e < w
      BY <1>2, <2>1, <2>2, <2>3, <2>4, <3>1, <3>3
    <3>4. QED
      BY <1>2, <3>2, <3>3
  <2>6. Line[D - k] # NL /\ Line[D - k] = At(Plus(w, D - k - 1))
    BY <1>3, <2>2 DEF LineInv
  <2>7. QED
    BY <2>2, <2>5, <2>6
<1>5. QED
  BY <1>2, <1>4 DEF Unkilled

\* Backspace and kill-line are Tty's Erase, or have nothing to erase, ...
LEMMA EraseRefines ==
    ASSUME TypeOK, TypeOK', LineInv, UNCHANGED <<n, dst>>,
           NEW k \in 0..Used - Ready, Erases(k), k \in {0, 1} \/ k = Used - Ready
    PROVE  LineInv' /\ (Terminal!Erase \/ UNCHANGED <<Line, Queue>>)
<1>1. RingIs /\ Layout
  BY RingNow, LayoutNow
<1>2. UNCHANGED <<buf, r, w>> /\ Ready' = Ready
  BY DEF Erases
<1>3. Used' = Used - k
  BY DEF Erases
<1>4. Queue' = Queue
  BY <1>2 DEF Queue, Slice, At
<1> HIDE DEF Used, Ready, Line, Queue
<1> DEFINE m == Used - Ready - k
<1>5. /\ Used \in Nat /\ Ready \in Nat /\ Ready <= Used /\ m \in 0..Used - Ready
      /\ Used' - Ready' = m /\ m \in Nat
  BY <1>1, <1>2, <1>3 DEF RingIs
<1>6. Line \in Seq(Char) /\ Len(Line) = Used - Ready
  BY <1>1 DEF Layout
<1> HIDE DEF m
<1>7. /\ SubSeq(Line, 1, m) \in Seq(Char) /\ Len(SubSeq(Line, 1, m)) = m
      /\ \A i \in 1..m : SubSeq(Line, 1, m)[i] = Line[i]
  <2>1. \A i \in 1..m : Line[i] \in Char
    BY <1>5, <1>6, ElementOfSeq
  <2>2. /\ SubSeq(Line, 1, m) \in Seq(Char)
        /\ Len(SubSeq(Line, 1, m)) = IF 1 <= m THEN m - 1 + 1 ELSE 0
        /\ \A i \in 1..m - 1 + 1 : SubSeq(Line, 1, m)[i] = Line[1 + i - 1]
    BY <1>5, <2>1, SubSeqProperties
  <2>3. QED
    BY <1>5, <2>2
<1>8. Line' \in Seq(Char) /\ Len(Line') = m
  BY <1>5, LayoutThen
<1>9. ASSUME NEW i \in 1..m PROVE Line'[i] = SubSeq(Line, 1, m)[i]
  <2>1. Line'[i] = TextNext(Ready + i)
    BY <1>2, <1>5, LayoutThen
  <2>2. Line[i] = Text(Ready + i)
    BY <1>1, <1>5 DEF Layout
  <2>3. QED
    BY <1>2, <1>7, <2>1, <2>2 DEF Text, TextNext
<1>10. Line' = SubSeq(Line, 1, m)
  BY <1>7, <1>8, <1>9, SeqEqual
<1>11. m \in 0..Len(Line)
  BY <1>5, <1>6
<1>12. LineInv'
  <2>1. ASSUME NEW i \in 1..m PROVE Line'[i] # NL
    <3>1. i \in 1..Len(Line)
      BY <1>5, <1>11
    <3>2. QED
      BY <1>7, <1>9, <3>1 DEF LineInv
  <2>2. QED
    BY <1>8, <2>1 DEF LineInv
<1>13. CASE k = 0
  <2>1. m = Len(Line)
    BY <1>5, <1>6, <1>13 DEF m
  <2>2. Line' = Line
    BY <1>6, <1>7, <1>8, <1>9, <2>1, SeqEqual
  <2>3. QED
    BY <1>4, <1>12, <2>2
<1>14. CASE k = 1
  <2>1. m = Len(Line) - 1 /\ Len(Line) > 0
    BY <1>5, <1>6, <1>14 DEF m
  <2>2. Line # <<>>
    BY <1>6, <2>1
  <2>3. QED
    BY <1>4, <1>10, <1>12, <2>1, <2>2 DEF Terminal!Erase, Line, Queue
<1>15. CASE k = Used - Ready
  <2>1. m = 0
    BY <1>5, <1>15 DEF m
  <2>2. Line' = <<>>
    BY <1>8, <2>1, EmptySeq
  <2>3. QED
    BY <1>4, <1>12, <2>2 DEF Terminal!Erase, Line, Queue
<1>16. QED
  BY <1>13, <1>14, <1>15

\* A newline that is typed does not stay in the line.
LEMMA TypeKeepsLine ==
    ASSUME TypeOK, TypeOK', LineInv, NEW c \in Char, Terminal!Type(c)
    PROVE  LineInv'
<1>1. Line \in Seq(Char)
  BY LayoutNow DEF Layout
<1>2. Line' = <<>> \/ (Line' = Append(Line, c) /\ c # NL)
  BY DEF Terminal!Type, Line
<1> HIDE DEF Line
<1>3. CASE Line' = <<>>
  BY <1>3 DEF LineInv
<1>4. CASE Line' = Append(Line, c) /\ c # NL
  <2>1. /\ Len(Append(Line, c)) = Len(Line) + 1 /\ Len(Line) \in Nat
        /\ \A i \in 1..Len(Line) : Append(Line, c)[i] = Line[i]
        /\ Append(Line, c)[Len(Line) + 1] = c
    BY <1>1, AppendProperties
  <2>2. ASSUME NEW i \in 1..Len(Line) + 1 PROVE Line'[i] # NL
    BY <1>4, <2>1, <2>2 DEF LineInv
  <2>3. QED
    BY <1>4, <2>1, <2>2 DEF LineInv
<1>5. QED
  BY <1>2, <1>3, <1>4

\* ... and a reader takes the head of the queue.
LEMMA TakeRefines ==
    ASSUME TypeOK, TypeOK', r # w, r' = Plus(r, 1), UNCHANGED <<buf, w, e>>
    PROVE  Queue # <<>> /\ Queue' = Tail(Queue) /\ Line' = Line
<1>1. RingIs /\ Layout
  BY RingNow, LayoutNow
<1>2. /\ Ready > 0 /\ Used > 0 /\ Ready' = Ready - 1 /\ Used' = Used - 1
      /\ r' \in 0..Wrap - 1 /\ (r' = r + 1 \/ r' + Wrap = r + 1)
  BY TakeIs
<1>3. Line' = Line
  BY DEF Line, Slice, At
<1> HIDE DEF Used, Ready, Line, Queue
<1>4. Ready \in Nat /\ r \in Nat /\ Wrap \in Nat
  BY <1>1 DEF RingIs
<1>5. Queue # <<>> /\ Queue \in Seq(Char) /\ Len(Queue) = Ready
  BY <1>1, <1>2, <1>4, EmptySeq DEF Layout
<1>6. /\ Tail(Queue) \in Seq(Char) /\ Len(Tail(Queue)) = Ready - 1
      /\ \A k \in 1..Ready - 1 : Tail(Queue)[k] = Queue[k + 1]
  BY <1>5, HeadTailProperties
<1>7. ASSUME NEW k \in 1..Ready - 1 PROVE Queue'[k] = Tail(Queue)[k]
  <2>1. Queue'[k] = buf[(r' + k - 1) % INPUT_BUF]
    BY <1>2, LayoutThen DEF TextNext
  <2>2. k + 1 \in 1..Ready
    BY <1>4
  <2>3. Queue[k + 1] = buf[(r + (k + 1) - 1) % INPUT_BUF]
    BY <1>1, <2>2 DEF Layout, Text
  <2>4. /\ r' + k - 1 \in Nat
        /\ \/ r + (k + 1) - 1 = r' + k - 1
           \/ r + (k + 1) - 1 = (r' + k - 1) + Wrap
    BY <1>2, <1>4
  <2>5. (r + (k + 1) - 1) % INPUT_BUF = (r' + k - 1) % INPUT_BUF
    BY <2>4, SlotWrapped
  <2>6. QED
    BY <1>6, <2>1, <2>3, <2>5
<1>8. Queue' \in Seq(Char) /\ Len(Queue') = Ready - 1
  BY <1>2, LayoutThen
<1>9. Queue' = Tail(Queue)
  BY <1>6, <1>7, <1>8, SeqEqual
<1>10. QED
  BY <1>3, <1>5, <1>9

\* The head of the queue is at input.r.
LEMMA HeadIs ==
    ASSUME TypeOK
    PROVE  (r = w <=> Queue = <<>>) /\ (r # w => Head(Queue) = At(r))
<1>1. RingIs /\ Layout
  BY RingNow, LayoutNow
<1> HIDE DEF Used, Ready, Line, Queue
<1>2. Queue \in Seq(Char) /\ Len(Queue) = Ready /\ (r = w <=> Ready = 0) /\ r \in Nat /\ Ready \in Nat
  BY <1>1 DEF Layout, RingIs
<1>3. r = w <=> Queue = <<>>
  BY <1>2, EmptySeq
<1>4. ASSUME r # w PROVE Head(Queue) = At(r)
  <2>1. Head(Queue) = Queue[1] /\ 1 \in 1..Ready /\ r + 1 - 1 = r
    BY <1>2, <1>3, <1>4
  <2>2. QED
    BY <1>1, <2>1 DEF Layout, Text, At
<1>5. QED
  BY <1>3, <1>4

\* The readers' steps.
LEMMA ReadRefines ==
    ASSUME IInv, NEW p \in Reader, Read(p)
    PROVE  \E k \in Sizes : Terminal!Begin(p, k)
<1>1. PICK k \in Sizes : n' = [n EXCEPT ![p] = k]
  BY DEF Read
<1>2. n[p] = -1 /\ UNCHANGED <<buf, r, w, e, dst>>
  BY DEF Read, IInv, LockInv, input
<1>3. UNCHANGED <<Line, Queue>>
  BY <1>2, SameLayout
<1>4. Terminal!Begin(p, k)
  BY <1>1, <1>2, <1>3 DEF Terminal!Begin, Line, Queue
<1>5. QED
  BY <1>4

LEMMA ReadCharRefines ==
    ASSUME IInv, IInv', NEW p \in Reader, ReadChar(p)
    PROVE  Terminal!Take(p)
<1>1. /\ Wants(p) /\ r # w /\ At(r) # EOF /\ r' = Plus(r, 1)
      /\ dst' = [dst EXCEPT ![p] = Append(dst[p], At(r))] /\ UNCHANGED <<buf, w, e, n>>
  BY DEF ReadChar
<1>2. Queue # <<>> /\ Queue' = Tail(Queue) /\ Line' = Line
  BY <1>1, TakeRefines DEF IInv
<1>3. Head(Queue) = At(r)
  BY <1>1, HeadIs DEF IInv
<1>4. Len(dst[p]) < n[p] /\ ~(dst[p] # <<>> /\ dst[p][Len(dst[p])] = NL)
  BY <1>1 DEF Wants, EndOfLine
<1> HIDE DEF Line, Queue
<1>5. /\ Queue # <<>> /\ Head(Queue) # EOF
      /\ dst' = [dst EXCEPT ![p] = Append(dst[p], Head(Queue))]
  BY <1>1, <1>2, <1>3
<1>6. QED
  BY <1>1, <1>2, <1>4, <1>5 DEF Terminal!Take, Terminal!EndOfLine, Line, Queue

LEMMA ReturnRefines ==
    ASSUME IInv, IInv', NEW p \in Reader, ReadDone(p) \/ ReadKilled(p) \/ ReadEof(p)
    PROVE  Terminal!End(p) \/ Terminal!GiveUp(p)
<1>1. /\ pc[p] = "loop" /\ n' = [n EXCEPT ![p] = -1] /\ dst' = [dst EXCEPT ![p] = <<>>]
      /\ UNCHANGED <<buf, w, e>>
  BY DEF ReadDone, ReadKilled, ReadEof, Wants, return, input
<1>2. n[p] # -1
  BY <1>1 DEF IInv, LockInv
<1>3. CASE ReadDone(p)
  <2>1. r' = r /\ (Len(dst[p]) = n[p] \/ (dst[p] # <<>> /\ dst[p][Len(dst[p])] = NL))
    BY <1>3 DEF ReadDone, EndOfLine, input
  <2>2. UNCHANGED <<Line, Queue>>
    BY <1>1, <2>1, SameLayout
  <2>3. Len(dst[p]) \in Nat
    BY LenProperties DEF IInv
  <2>4. ~(Len(dst[p]) < n[p] /\ dst[p] = <<>>)
    BY <2>1, <2>3
  <2>5. QED
    BY <1>1, <1>2, <2>1, <2>2, <2>4 DEF Terminal!End, Terminal!EndOfLine, Line, Queue
<1>4. CASE ReadKilled(p)
  <2>1. r' = r /\ r = w
    BY <1>4 DEF ReadKilled, input
  <2>2. UNCHANGED <<Line, Queue>>
    BY <1>1, <2>1, SameLayout
  <2>3. Queue = <<>>
    BY <2>1, HeadIs DEF IInv
  <2>4. QED
    BY <1>1, <1>2, <2>2, <2>3 DEF Terminal!GiveUp, Line, Queue
<1>5. CASE ReadEof(p)
  <2>1. /\ Wants(p) /\ r # w /\ At(r) = EOF
        /\ r' = IF dst[p] = <<>> THEN Plus(r, 1) ELSE r
    BY <1>5 DEF ReadEof, usesEof
  <2>2. Queue # <<>> /\ Head(Queue) = EOF
    BY <2>1, HeadIs DEF IInv
  <2>3. Len(dst[p]) < n[p]
    BY <2>1 DEF Wants
  <2>4. /\ Queue' = IF Len(dst[p]) < n[p] /\ dst[p] = <<>> THEN Tail(Queue) ELSE Queue
        /\ Line' = Line
    <3>1. CASE dst[p] = <<>>
      <4>1. Queue' = Tail(Queue) /\ Line' = Line
        BY <1>1, <2>1, <3>1, TakeRefines DEF IInv
      <4>2. QED
        BY <2>3, <3>1, <4>1
    <3>2. CASE dst[p] # <<>>
      <4>1. UNCHANGED <<Line, Queue>>
        BY <1>1, <2>1, <3>2, SameLayout
      <4>2. QED
        BY <3>2, <4>1
    <3>3. QED
      BY <3>1, <3>2
  <2> HIDE DEF Line, Queue
  <2>5. QED
    BY <1>1, <1>2, <2>2, <2>4 DEF Terminal!End, Line, Queue
<1>6. QED
  BY <1>3, <1>4, <1>5

(* consoleintr and consoleread implement the terminal, for any number of   *)
(* readers, any INPUT_BUF and any multiple of it at which the indices      *)
(* wrap: characters reach the readers in the order they were typed, and    *)
(* once; editing changes only the line that is not complete.               *)
THEOREM Refinement == Spec => ImplementsTty
<1>1. Init => Terminal!Init /\ LineInv
  <2> SUFFICES ASSUME Init PROVE Terminal!Init /\ LineInv
    OBVIOUS
  <2>1. TypeOK /\ r = w /\ Used = Ready
    BY InitIInv DEF IInv, Init, Used, Ready
  <2>2. Layout /\ RingIs
    BY <2>1, LayoutNow, RingNow
  <2> HIDE DEF Used, Ready, Line, Queue
  <2>3. Line = <<>> /\ Queue = <<>>
    BY <2>1, <2>2, EmptySeq DEF Layout, RingIs
  <2>4. QED
    BY <2>3 DEF Init, Terminal!Init, LineInv, Line, Queue
<1>2. IInv /\ IInv' /\ LineInv /\ [Next]_vars => LineInv' /\ [Terminal!Next]_(Terminal!vars)
  <2> SUFFICES ASSUME IInv, IInv', LineInv, [Next]_vars
               PROVE  LineInv' /\ (Terminal!Next \/ UNCHANGED <<Line, Queue, dst, n>>)
    BY DEF Terminal!vars, Line, Queue
  <2> HIDE DEF Line, Queue
  <2>1. CASE UNCHANGED <<buf, r, w, e, dst, n>>
    BY <2>1, SameLayout DEF LineInv
  <2>2. ASSUME NEW c \in Typed, IntrChar(c)
        PROVE  LineInv' /\ (Terminal!Next \/ UNCHANGED <<Line, Queue, dst, n>>)
    <3>1. edit(c) /\ UNCHANGED <<n, dst>> /\ TypeOK /\ TypeOK'
      BY <2>2 DEF IntrChar, IInv
    <3>2. ASSUME NEW k \in 0..Used - Ready, Erases(k), k \in {0, 1} \/ k \in Unkilled
          PROVE  LineInv' /\ (Terminal!Next \/ UNCHANGED <<Line, Queue, dst, n>>)
      <4>1. k \in {0, 1} \/ k = Used - Ready
        BY <3>1, <3>2, KillIs
      <4>2. LineInv' /\ (Terminal!Erase \/ UNCHANGED <<Line, Queue>>)
        BY <3>1, <3>2, <4>1, EraseRefines
      <4>3. QED
        BY <3>1, <4>2 DEF Terminal!Next
    <3>3. ASSUME NEW d \in Char, Inserts(d) PROVE LineInv' /\ Terminal!Next
      <4>1. Terminal!Type(d)
        BY <3>1, <3>3, InsertRefines
      <4>2. LineInv'
        BY <3>1, <4>1, TypeKeepsLine
      <4>3. QED
        BY <4>1, <4>2 DEF Terminal!Next
    <3>4. QED
      BY <3>1, <3>2, <3>3, EditIs
  <2>3. ASSUME NEW p \in Reader, Read(p) PROVE Terminal!Next
    BY <2>3, ReadRefines DEF Terminal!Next
  <2>4. ASSUME NEW p \in Reader, ReadChar(p) PROVE Terminal!Next
    BY <2>4, ReadCharRefines DEF Terminal!Next
  <2>5. ASSUME NEW p \in Reader, ReadDone(p) \/ ReadKilled(p) \/ ReadEof(p) PROVE Terminal!Next
    BY <2>5, ReturnRefines DEF Terminal!Next
  <2>6. \/ UNCHANGED <<buf, r, w, e, dst, n>>
        \/ \E c \in Typed : IntrChar(c)
        \/ \E p \in Reader : \/ Read(p) \/ ReadChar(p)
                             \/ ReadDone(p) \/ ReadKilled(p) \/ ReadEof(p)
    BY DEF Next, vars, input, reader, Intr, IntrDone, ReadAcquire, ReadEmpty, ReadSleep, Kill
  <2>7. ASSUME NEW p \in Reader,
               Read(p) \/ ReadChar(p) \/ ReadDone(p) \/ ReadKilled(p) \/ ReadEof(p)
        PROVE  LineInv'
    <3>1. UNCHANGED <<buf, w, e>>
      BY <2>7 DEF Read, ReadChar, ReadDone, ReadKilled, ReadEof, input
    <3>2. Line' = Line
      BY <3>1 DEF Line, Slice, At
    <3>3. QED
      BY <3>2 DEF LineInv
  <2>8. QED
    BY <2>1, <2>2, <2>3, <2>4, <2>5, <2>6, <2>7
<1>3. QED
  BY <1>1, <1>2, Invariant, PTL DEF Spec, ImplementsTty, Terminal!Spec

=============================================================================
