-------------------------------- MODULE Mkfs --------------------------------
(***************************************************************************)
(* mkfs.c, which builds the file system image, and the kernel's view of    *)
(* the image (fs.h, fs.c).  A block is BSIZE units; a unit holds an        *)
(* i-node, a directory entry, a block number or a piece of a file, so that *)
(* IPB and NINDIRECT are BSIZE.  The bitmap block has in its first unit    *)
(* the set of the bits that are on.  The file that inum was made from has  *)
(* the pieces <<inum, 0>>, <<inum, 1>>, ...                                *)
(*                                                                         *)
(* mkfs does not test that what it is given fits: data goes on into the    *)
(* log and i-nodes into the bitmap, and the size of a root whose entries   *)
(* fill its last block takes in a block that it has not.                   *)
(***************************************************************************)
EXTENDS Naturals, SequencesExt

CONSTANTS BSIZE, NDIRECT, BPB, size, ninodes, nblocks, nlog,
          Nil          \* a unit of zeroes

VARIABLES img,         \* the image
          freeinode, freeblock, usedblocks,
          stage        \* "files" until the end, then "done"

kVars == <<img, freeinode, freeblock, usedblocks, stage>>

IPB == BSIZE
MAXFILE == NDIRECT + BSIZE
ROOTINO == 1
bitblocks == size \div BPB + 1
meta == ninodes \div IPB + 3 + bitblocks   \* main's first usedblocks

ASSUME MkfsAssumption ==
    /\ {BSIZE, NDIRECT, BPB, ninodes, nblocks, nlog} \subseteq Nat \ {Nil}
    /\ meta + nblocks + nlog = size     \* main's assertion

Zero == [k \in 0..BSIZE - 1 |-> Nil]
Dinode(type) == [type |-> type, nlink |-> 1, size |-> 0, addrs |-> [k \in 0..NDIRECT |-> Nil]]

\* Faulty variant: i-numbers counted from 1.
i2bOne(inum) == (inum - 1) \div IPB + 2

i2b(inum) == inum \div IPB + 2
rinode(im, inum) == im[i2b(inum)][inum % IPB]
winode(im, inum, din) == [im EXCEPT ![i2b(inum)][inum % IPB] = din]

\* The image while it is built: its blocks and the first block not in use.
State == [img |-> img, free |-> freeblock]

\* rsect finds no block after the last: mkfs exits.
Full(st) == st.free > size

\* Block number fbn of the file inum, which gets it here if it has it not.
direct(st, inum, fbn) ==
    LET din == rinode(st.img, inum) IN
    IF din.addrs[fbn] # Nil THEN st
    ELSE [img |-> winode(st.img, inum, [din EXCEPT !.addrs[fbn] = st.free]), free |-> st.free + 1]

indirect(st, inum, fbn) ==
    LET t == direct(st, inum, NDIRECT)
        b == rinode(t.img, inum).addrs[NDIRECT]
    IN IF Full(t) \/ t.img[b][fbn - NDIRECT] # Nil THEN t
       ELSE [img |-> [t.img EXCEPT ![b][fbn - NDIRECT] = t.free], free |-> t.free + 1]

\* One unit of iappend.
append1(st, inum, x) ==
    LET off == rinode(st.img, inum).size
        fbn == off \div BSIZE
        t == IF fbn < NDIRECT THEN direct(st, inum, fbn) ELSE indirect(st, inum, fbn)
        din == rinode(t.img, inum)
        b == IF fbn < NDIRECT THEN din.addrs[fbn] ELSE t.img[din.addrs[NDIRECT]][fbn - NDIRECT]
    IN IF Full(t) THEN t
       ELSE [t EXCEPT !.img = winode([@ EXCEPT ![b][off % BSIZE] = x], inum,
                                     [din EXCEPT !.size = off + 1])]

iappend(st, inum, xs) == FoldLeft(LAMBDA t, x : append1(t, inum, x), st, xs)

ialloc(st, inum, type) == [st EXCEPT !.img = winode(@, inum, Dinode(type))]

\* iappend's assertion, for n more units of inum.
Asserted(inum, n) == rinode(img, inum).size + n <= MAXFILE * BSIZE

becomes(st) ==
    /\ ~Full(st)
    /\ img' = st.img /\ freeblock' = st.free
    /\ usedblocks' = usedblocks + (st.free - freeblock)

-----------------------------------------------------------------------------
\* balloc(): the first used blocks are marked.
balloc(im, used) ==
    [im EXCEPT ![ninodes \div IPB + 3] = [Zero EXCEPT ![0] = [bits |-> 0..used - 1]]]

\* The directory entries: "." and "..", and the names of the files.
Entry(inum) == [name |-> <<"file", inum>>, inum |-> inum]
Dots == <<[name |-> <<".">>, inum |-> ROOTINO], [name |-> <<"..">>, inum |-> ROOTINO]>>

(* main(): the zeroed image with its super block and the root directory.   *)
MkfsInit ==
    LET empty == [b \in 0..size - 1 |-> Zero]
        super == [empty EXCEPT ![1][0] = [size |-> size, ninodes |-> ninodes, nlog |-> nlog]]
        root == iappend(ialloc([img |-> super, free |-> meta], ROOTINO, "dir"), ROOTINO, Dots)
    IN /\ img = root.img
       /\ freeblock = root.free /\ usedblocks = root.free
       /\ freeinode = ROOTINO + 1
       /\ stage = "files"

(* main(): the next file gets its i-node and its entry ...                 *)
AddFile ==
    /\ stage = "files"
    /\ Asserted(ROOTINO, 1)
    /\ becomes(iappend(ialloc(State, freeinode, "file"), ROOTINO, <<Entry(freeinode)>>))
    /\ freeinode' = freeinode + 1
    /\ UNCHANGED stage

(* ... and then its contents, as read(fd, buf, BSIZE) delivers them.       *)
AddData(cc) ==
    /\ stage = "files" /\ freeinode > ROOTINO + 1
    /\ Asserted(freeinode - 1, cc)
    /\ LET inum == freeinode - 1
           off == rinode(img, inum).size
       IN becomes(iappend(State, inum, [k \in 1..cc |-> <<inum, off + k - 1>>]))
    /\ UNCHANGED <<freeinode, stage>>

(* main(): the size of the root, and the bitmap (balloc).                  *)
Finish ==
    /\ stage = "files"
    /\ usedblocks < BPB
    /\ LET din == rinode(img, ROOTINO)
           im == winode(img, ROOTINO, [din EXCEPT !.size = (@ \div BSIZE + 1) * BSIZE])
       IN img' = balloc(im, usedblocks)
    /\ stage' = "done"
    /\ UNCHANGED <<freeinode, freeblock, usedblocks>>

MkfsNext == AddFile \/ (\E cc \in 1..BSIZE : AddData(cc)) \/ Finish

-----------------------------------------------------------------------------
\* The kernel's side: where it finds an i-node, a bit, a block of a file, the
\* log.  A block that bmap would have to allocate is Nil.
sb == img[1][0]
IBLOCK(i) == i \div IPB + 2
BBLOCK(b) == b \div BPB + sb.ninodes \div IPB + 3
disk(i) == img[IBLOCK(i)][i % IPB]
bmap(ip, bn) ==
    IF bn < NDIRECT THEN ip.addrs[bn]
    ELSE IF ip.addrs[NDIRECT] = Nil THEN Nil ELSE img[ip.addrs[NDIRECT]][bn - NDIRECT]
readi(ip, off) == img[bmap(ip, off \div BSIZE)][off % BSIZE]

\* The blocks an i-node refers to, as a sequence.
BlocksOf(ip) ==
    [k \in 1..(ip.size + BSIZE - 1) \div BSIZE |-> bmap(ip, k - 1)]
    \o (IF ip.addrs[NDIRECT] = Nil THEN <<>> ELSE <<ip.addrs[NDIRECT]>>)

(* The kernel finds in the image what mkfs was given: every file under its *)
(* name and with its contents, in an i-node of the i-node blocks and in    *)
(* blocks of its own between the bitmap and the log; just these and the    *)
(* meta data are marked in use; the log is empty.                          *)
Mounts ==
    LET Files == ROOTINO + 1..freeinode - 1
        root == disk(ROOTINO)
        entries == {readi(root, k) : k \in 0..root.size - 1} \ {Nil}
        all == FlattenSeq([i \in 1..freeinode - 1 |-> BlocksOf(disk(i))])
    IN /\ \A i \in Files : IBLOCK(i) < BBLOCK(0)
       /\ \A i \in 1..sb.ninodes - 1 : disk(i) # Nil <=> i < freeinode
       /\ IsInjective(all)
       /\ Range(all) \subseteq meta..sb.size - sb.nlog - 1
       /\ img[BBLOCK(0)][0].bits = 0..meta - 1 \cup Range(all)
       /\ \A b \in sb.size - sb.nlog..sb.size - 1 : img[b] = Zero
       /\ root.type = "dir"
       /\ entries = {Entry(i) : i \in Files} \cup Range(Dots)
       /\ \A i \in Files :
            /\ disk(i).type = "file" /\ disk(i).nlink = 1
            /\ \A k \in 0..disk(i).size - 1 : readi(disk(i), k) = <<i, k>>

(* Which finished images the kernel can mount (i2b against IBLOCK, iappend *)
(* against bmap and readi, usedblocks against freeblock, main's layout     *)
(* against fs.h): just those whose data ends before the log, whose i-nodes *)
(* end before the bitmap, and whose root has room for one more entry in    *)
(* its last block, since main gives it another block otherwise.            *)
ImageMounts ==
    stage = "done" =>
        (Mounts <=> /\ freeblock <= meta + nblocks
                    /\ freeinode <= (ninodes \div IPB + 1) * IPB
                    /\ freeinode % BSIZE # 0)
=============================================================================
