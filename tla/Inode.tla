------------------------------- MODULE Inode -------------------------------
(***************************************************************************)
(* The i-node layer of fs.c and the system calls of sysfile.c and file.c   *)
(* that use it: open, create, mkdir, link, unlink, write, close, chdir,    *)
(* exec and exit, on one directory, the root, of files and empty           *)
(* directories.                                                            *)
(*                                                                         *)
(* A step is a critical section of icache.lock, or what a process does     *)
(* between an ilock and the matching iunlock.  The root is always in       *)
(* memory and never freed; walking through it (namex: iget, ilock,         *)
(* dirlookup, iunlockput) is one step when nobody holds it locked.  Blocks *)
(* are read and written through the log and the cache (Log, BufCache).     *)
(***************************************************************************)
EXTENDS Integers, FiniteSets

CONSTANTS Proc, NoProc,
          Name, NoName,
          Ninodes,   \* sb.ninodes: the i-nodes after the root are 2..Ninodes
          NINODE,    \* size of icache.inode, the root's entry not counted
          NBlock     \* data blocks

ASSUME InodeAssumption ==
    /\ IsFiniteSet(Proc) /\ NoProc \notin Proc
    /\ IsFiniteSet(Name) /\ NoName \notin Name
    /\ Ninodes \in Nat \ {0} /\ NINODE \in Nat /\ NBlock \in Nat
    /\ NINODE >= Ninodes - 1

Inum == 2..Ninodes
Entry == 1..NINODE
Block == 1..NBlock
Null == 0          \* no i-node, no entry; as a current directory, the root

VARIABLES
    dtype, dnlink, daddrs,   \* struct dinode, as bread returns it
    dir, rootnlink,          \* the root's entries and link count
    bitmap,                  \* blocks in use
    inum, ref, busy, valid, type, nlink, addrs,  \* struct inode
    rootbusy,                \* the process that holds the root locked
    trans,                   \* the process in a transaction (log.busy)
    pc, name, kind, ip,      \* each process: place, arguments, local
    file, cwd                \* its open file and its current directory

disk == <<dtype, dnlink, daddrs, dir, rootnlink, bitmap>>
copy == <<type, nlink, addrs>>
icache == <<inum, ref, busy, valid, copy>>
locks == <<rootbusy, trans>>
args == <<name, kind>>
fds == <<file, cwd>>
vars == <<disk, icache, locks, pc, args, ip, fds>>

Type == {"FREE", "FILE", "DIR"}
PC == {"idle", "open", "opened", "create", "createold", "createnew", "created",
       "unlink", "unlinkold", "link", "linkinc", "linkdir", "linkbad", "write",
       "chdir", "exec", "put", "free", "freed", "commit", "panic", "logpanic"}

Init ==
    /\ dtype = [i \in Inum |-> "FREE"]
    /\ dnlink = [i \in Inum |-> 0]
    /\ daddrs = [i \in Inum |-> {}]
    /\ dir = [n \in Name |-> Null] /\ rootnlink = 1
    /\ bitmap = {}
    /\ inum = [e \in Entry |-> Null]
    /\ ref = [e \in Entry |-> 0]
    /\ busy = [e \in Entry |-> FALSE]
    /\ valid = [e \in Entry |-> FALSE]
    /\ type = [e \in Entry |-> "FREE"]
    /\ nlink = [e \in Entry |-> 0]
    /\ addrs = [e \in Entry |-> {}]
    /\ rootbusy = NoProc /\ trans = NoProc
    /\ pc = [p \in Proc |-> "idle"]
    /\ name = [p \in Proc |-> NoName]
    /\ kind = [p \in Proc |-> "FREE"]
    /\ ip = [p \in Proc |-> Null]
    /\ file = [p \in Proc |-> Null]
    /\ cwd = [p \in Proc |-> Null]

goto(p, to) == pc' = [pc EXCEPT ![p] = to]
First(S) == CHOOSE x \in S : \A y \in S : x <= y

\* begin_trans; the call that started it ends with commit_trans.
begin_trans(p) == trans = NoProc /\ trans' = p

-----------------------------------------------------------------------------
\* Faulty variant: an entry is found only once it has been read from the disk.
CachedValid(i) == {e \in Entry : ref[e] > 0 /\ inum[e] = i /\ valid[e]}

Cached(i) == {e \in Entry : ref[e] > 0 /\ inum[e] = i}

(* iget(i): one more reference to its entry, or the first unused one.      *)
iget(p, i) ==
    LET hit == Cached(i) # {}
        unused == {e \in Entry : ref[e] = 0}
        e == IF hit THEN First(Cached(i)) ELSE First(unused)
    IN /\ hit \/ unused # {}
       /\ ip' = [ip EXCEPT ![p] = e]
       /\ ref' = [ref EXCEPT ![e] = @ + 1]
       /\ inum' = [inum EXCEPT ![e] = i]
       /\ busy' = IF hit THEN busy ELSE [busy EXCEPT ![e] = FALSE]
       /\ valid' = IF hit THEN valid ELSE [valid EXCEPT ![e] = FALSE]

\* The fields after ilock(e): read from the disk if they are not I_VALID.
Ityp(e) == IF valid[e] THEN type[e] ELSE dtype[inum[e]]
Inlk(e) == IF valid[e] THEN nlink[e] ELSE dnlink[inum[e]]
Iadr(e) == IF valid[e] THEN addrs[e] ELSE daddrs[inum[e]]

(* ilock(e) waits while I_BUSY.  Its panic on an i-node without a type is  *)
(* what RefsCounted rules out.                                             *)
ilock(e) == ~busy[e]

\* The copy in memory, as ilock and the caller leave it at iunlock.
Fields(e, lnk, adr) ==
    /\ valid' = [valid EXCEPT ![e] = TRUE]
    /\ type' = [type EXCEPT ![e] = Ityp(e)]
    /\ nlink' = [nlink EXCEPT ![e] = lnk]
    /\ addrs' = [addrs EXCEPT ![e] = adr]

(* iupdate: the fields go to the disk too.                                 *)
iupdate(e, lnk, adr) ==
    /\ Fields(e, lnk, adr)
    /\ dtype' = [dtype EXCEPT ![inum[e]] = Ityp(e)]
    /\ dnlink' = [dnlink EXCEPT ![inum[e]] = lnk]
    /\ daddrs' = [daddrs EXCEPT ![inum[e]] = adr]

\* ref--.  Nobody reads the fields of an entry without references.
drop(e) ==
    LET last == ref[e] = 1
    IN /\ ref' = [ref EXCEPT ![e] = @ - 1]
       /\ inum' = IF last THEN [inum EXCEPT ![e] = Null] ELSE inum
       /\ valid' = IF last THEN [valid EXCEPT ![e] = FALSE] ELSE valid
       /\ type' = IF last THEN [type EXCEPT ![e] = "FREE"] ELSE type
       /\ nlink' = IF last THEN [nlink EXCEPT ![e] = 0] ELSE nlink
       /\ addrs' = IF last THEN [addrs EXCEPT ![e] = {}] ELSE addrs

(* iput, where every call ends: drop the reference, or go on to free the   *)
(* i-node if it is the last one and no link is left.                       *)
Iput(p) ==
    LET e == ip[p] IN
    /\ pc[p] = "put"
    /\ IF ref[e] = 1 /\ valid[e] /\ nlink[e] = 0
       THEN /\ busy' = [busy EXCEPT ![e] = TRUE]
            /\ goto(p, IF busy[e] THEN "panic" ELSE "free")
            /\ UNCHANGED <<inum, ref, valid, copy, ip>>
       ELSE /\ drop(e)
            /\ ip' = [ip EXCEPT ![p] = Null]
            /\ goto(p, IF trans = p THEN "commit" ELSE "idle")
            /\ UNCHANGED busy
    /\ UNCHANGED <<disk, locks, args, fds>>

\* log_write, for a step that frees: without any transaction it panics, in one
\* of another process it goes unnoticed.
LogPanic(p) ==
    /\ trans = NoProc
    /\ goto(p, "logpanic")
    /\ UNCHANGED <<disk, icache, ip>>

\* Faulty variant: itrunc forgets the blocks and does not free them.
IputTruncKeepsBlocks(p) ==
    LET e == ip[p] IN
    /\ pc[p] = "free" /\ trans # NoProc
    /\ daddrs' = [daddrs EXCEPT ![inum[e]] = {}]
    /\ addrs' = [addrs EXCEPT ![e] = {}]
    /\ goto(p, "freed")
    /\ UNCHANGED <<dtype, dnlink, dir, rootnlink, bitmap, inum, ref, busy, valid, type, nlink>>
    /\ UNCHANGED <<ip, locks, args, fds>>

(* iput with the i-node locked: itrunc frees every block (bfree) and       *)
(* writes the i-node ...                                                   *)
IputTrunc(p) ==
    LET e == ip[p] IN
    /\ pc[p] = "free"
    /\ \/ LogPanic(p)
       \/ /\ trans # NoProc
          /\ bitmap' = bitmap \ addrs[e]
          /\ daddrs' = [daddrs EXCEPT ![inum[e]] = {}]
          /\ addrs' = [addrs EXCEPT ![e] = {}]
          /\ goto(p, "freed")
          /\ UNCHANGED <<dtype, dnlink, dir, rootnlink, inum, ref, busy, valid, type, nlink, ip>>
    /\ UNCHANGED <<locks, args, fds>>

(* ... then type = 0, iupdate and ref--.                                   *)
IputFree(p) ==
    LET e == ip[p] IN
    /\ pc[p] = "freed"
    /\ \/ LogPanic(p)
       \/ /\ trans # NoProc
          /\ dtype' = [dtype EXCEPT ![inum[e]] = "FREE"]
          /\ busy' = [busy EXCEPT ![e] = FALSE]
          /\ drop(e)
          /\ ip' = [ip EXCEPT ![p] = Null]
          /\ goto(p, IF trans = p THEN "commit" ELSE "idle")
          /\ UNCHANGED <<dnlink, daddrs, dir, rootnlink, bitmap>>
    /\ UNCHANGED <<locks, args, fds>>

(* commit_trans; open goes on with the i-node that create returned.        *)
Commit(p) ==
    /\ pc[p] \in {"commit", "created"}
    /\ trans' = NoProc
    /\ goto(p, IF pc[p] = "created" THEN "opened" ELSE "idle")
    /\ name' = [name EXCEPT ![p] = NoName]
    /\ kind' = [kind EXCEPT ![p] = "FREE"]
    /\ UNCHANGED <<disk, icache, rootbusy, ip, fds>>

-----------------------------------------------------------------------------
(* dirlookup and dirlink, in the root.                                     *)
dirlookup(n) == dir[n]
dirlink(n, i) == dir' = [dir EXCEPT ![n] = i]

(* namei("/n") finds an i-node: open, chdir, exec and the first part of    *)
(* link.                                                                   *)
Namei(p, n, to) ==
    /\ pc[p] = "idle" /\ rootbusy = NoProc
    /\ dirlookup(n) # Null
    /\ iget(p, dirlookup(n))
    /\ goto(p, to)
    /\ UNCHANGED <<disk, copy, locks, kind, fds>>

(* open(n) without O_CREATE.                                               *)
Open(p, n) ==
    /\ file[p] = Null
    /\ Namei(p, n, "open")
    /\ UNCHANGED name

(* ilock(ip), kept until the file is allocated.                            *)
OpenLock(p) ==
    /\ pc[p] = "open" /\ ilock(ip[p])
    /\ busy' = [busy EXCEPT ![ip[p]] = TRUE]
    /\ Fields(ip[p], Inlk(ip[p]), Iadr(ip[p]))
    /\ goto(p, "opened")
    /\ UNCHANGED <<disk, inum, ref, locks, args, ip, fds>>

(* The file is set up and the i-node unlocked ...                          *)
OpenDone(p) ==
    /\ pc[p] = "opened"
    /\ busy' = [busy EXCEPT ![ip[p]] = FALSE]
    /\ file' = [file EXCEPT ![p] = ip[p]]
    /\ ip' = [ip EXCEPT ![p] = Null]
    /\ goto(p, "idle")
    /\ UNCHANGED <<disk, inum, ref, valid, copy, locks, args, cwd>>

(* ... or open fails, for a directory to be written or without a free file *)
(* or descriptor: iunlockput, outside of any transaction.                  *)
OpenFail(p) ==
    /\ pc[p] = "opened"
    /\ busy' = [busy EXCEPT ![ip[p]] = FALSE]
    /\ goto(p, "put")
    /\ UNCHANGED <<disk, inum, ref, valid, copy, locks, args, ip, fds>>

Unallocated == {i \in Inum : dtype[i] = "FREE"}

(* open(n, O_CREATE) and mkdir(n).  ialloc's panic without a free i-node   *)
(* and balloc's without a block are bounds of the model.                   *)
CreateBegin(p, n, k) ==
    /\ pc[p] = "idle" /\ begin_trans(p)
    /\ k = "FILE" => file[p] = Null
    /\ Unallocated # {}
    /\ k = "DIR" => Block \ bitmap # {}
    /\ name' = [name EXCEPT ![p] = n]
    /\ kind' = [kind EXCEPT ![p] = k]
    /\ goto(p, "create")
    /\ UNCHANGED <<disk, icache, rootbusy, ip, fds>>

(* create, the name exists: on to lock its i-node.                         *)
CreateOld(p) ==
    /\ pc[p] = "create" /\ rootbusy = NoProc
    /\ dirlookup(name[p]) # Null
    /\ iget(p, dirlookup(name[p]))
    /\ goto(p, "createold")
    /\ UNCHANGED <<disk, copy, locks, args, fds>>

(* A file can be opened; anything else fails (iunlockput).                 *)
CreateOldLock(p) ==
    /\ pc[p] = "createold" /\ ilock(ip[p])
    /\ LET ok == kind[p] = "FILE" /\ Ityp(ip[p]) = "FILE"
       IN /\ busy' = [busy EXCEPT ![ip[p]] = ok]
          /\ goto(p, IF ok THEN "created" ELSE "put")
    /\ Fields(ip[p], Inlk(ip[p]), Iadr(ip[p]))
    /\ UNCHANGED <<disk, inum, ref, locks, args, ip, fds>>

(* create, a new name: ialloc marks the first free i-node on the disk.     *)
(* The root stays locked.                                                  *)
CreateAlloc(p) ==
    /\ pc[p] = "create" /\ rootbusy = NoProc
    /\ dirlookup(name[p]) = Null
    /\ LET i == First(Unallocated)
       IN /\ dtype' = [dtype EXCEPT ![i] = kind[p]]
          /\ dnlink' = [dnlink EXCEPT ![i] = 0]
          /\ daddrs' = [daddrs EXCEPT ![i] = {}]
          /\ iget(p, i)
    /\ rootbusy' = p
    /\ goto(p, "createnew")
    /\ UNCHANGED <<dir, rootnlink, bitmap, copy, trans, args, fds>>

(* balloc: the first block that is free in the bitmap.                     *)
balloc == First(Block \ bitmap)

(* bmap, beyond the end of the file: one more block.                       *)
bmap(e) == Iadr(e) \cup {balloc}

(* The new i-node gets its link, a directory also the block for its dots,  *)
(* and the root its entry.  mkdir unlocks the i-node, open keeps it.       *)
CreateNew(p) ==
    LET e == ip[p] IN
    /\ pc[p] = "createnew" /\ ilock(e)
    /\ \/ /\ kind[p] = "FILE"
          /\ iupdate(e, 1, Iadr(e))
          /\ UNCHANGED <<rootnlink, bitmap>>
       \/ /\ kind[p] = "DIR"
          /\ iupdate(e, 1, bmap(e))
          /\ bitmap' = bitmap \cup {balloc}
          /\ rootnlink' = rootnlink + 1
    /\ dirlink(name[p], inum[e])
    /\ rootbusy' = NoProc
    /\ busy' = [busy EXCEPT ![e] = (kind[p] = "FILE")]
    /\ goto(p, IF kind[p] = "FILE" THEN "created" ELSE "put")
    /\ UNCHANGED <<inum, ref, trans, args, ip, fds>>

-----------------------------------------------------------------------------
(* unlink(n).                                                              *)
UnlinkBegin(p, n) ==
    /\ pc[p] = "idle" /\ begin_trans(p)
    /\ name' = [name EXCEPT ![p] = n]
    /\ goto(p, "unlink")
    /\ UNCHANGED <<disk, icache, rootbusy, kind, ip, fds>>

(* Find the i-node, with the root locked; without one, fail.               *)
Unlink(p) ==
    /\ pc[p] = "unlink" /\ rootbusy = NoProc
    /\ \/ /\ dirlookup(name[p]) = Null
          /\ goto(p, "commit")
          /\ UNCHANGED <<inum, ref, busy, valid, rootbusy, ip>>
       \/ /\ dirlookup(name[p]) # Null
          /\ iget(p, dirlookup(name[p]))
          /\ rootbusy' = p
          /\ goto(p, "unlinkold")
    /\ UNCHANGED <<disk, copy, trans, args, fds>>

(* Clear the entry, unlock the root, and drop the link (iunlockput).       *)
UnlinkOld(p) ==
    LET e == ip[p] IN
    /\ pc[p] = "unlinkold" /\ ilock(e)
    /\ IF Inlk(e) < 1
       THEN goto(p, "panic") /\ UNCHANGED <<disk, valid, copy, rootbusy>>
       ELSE /\ iupdate(e, Inlk(e) - 1, Iadr(e))
            /\ rootnlink' = IF Ityp(e) = "DIR" THEN rootnlink - 1 ELSE rootnlink
            /\ dir' = [dir EXCEPT ![name[p]] = Null]
            /\ goto(p, "put")
            /\ rootbusy' = NoProc
            /\ UNCHANGED bitmap
    /\ UNCHANGED <<inum, ref, busy, trans, args, ip, fds>>

(* link(old, n): old is looked up before the transaction begins.           *)
Link(p, old, n) ==
    /\ Namei(p, old, "link")
    /\ name' = [name EXCEPT ![p] = n]

LinkBegin(p) ==
    /\ pc[p] = "link" /\ begin_trans(p)
    /\ goto(p, "linkinc")
    /\ UNCHANGED <<disk, icache, rootbusy, args, ip, fds>>

\* Faulty variant: the link is not counted.
LinkIncForgets(p) ==
    LET e == ip[p] IN
    /\ pc[p] = "linkinc" /\ ilock(e)
    /\ Fields(e, Inlk(e), Iadr(e))
    /\ goto(p, IF Ityp(e) = "DIR" THEN "put" ELSE "linkdir")
    /\ UNCHANGED <<disk, inum, ref, busy, locks, args, ip, fds>>

(* nlink++, or fail for a directory.                                       *)
LinkInc(p) ==
    LET e == ip[p] IN
    /\ pc[p] = "linkinc" /\ ilock(e)
    /\ IF Ityp(e) = "DIR"
       THEN Fields(e, Inlk(e), Iadr(e)) /\ goto(p, "put") /\ UNCHANGED <<dtype, dnlink, daddrs>>
       ELSE iupdate(e, Inlk(e) + 1, Iadr(e)) /\ goto(p, "linkdir")
    /\ UNCHANGED <<dir, rootnlink, bitmap, inum, ref, busy, locks, args, ip, fds>>

(* dirlink: the name must be new.                                          *)
LinkDir(p) ==
    /\ pc[p] = "linkdir" /\ rootbusy = NoProc
    /\ IF dirlookup(name[p]) # Null
       THEN goto(p, "linkbad") /\ UNCHANGED dir
       ELSE dirlink(name[p], inum[ip[p]]) /\ goto(p, "put")
    /\ UNCHANGED <<dtype, dnlink, daddrs, rootnlink, bitmap, icache, locks, args, ip, fds>>

(* bad: take the link back.                                                *)
LinkBad(p) ==
    LET e == ip[p] IN
    /\ pc[p] = "linkbad" /\ ilock(e)
    /\ iupdate(e, Inlk(e) - 1, Iadr(e))
    /\ goto(p, "put")
    /\ UNCHANGED <<dir, rootnlink, bitmap, inum, ref, busy, locks, args, ip, fds>>

-----------------------------------------------------------------------------
(* filewrite, one round.                                                   *)
WriteBegin(p) ==
    /\ pc[p] = "idle" /\ file[p] # Null /\ type[file[p]] = "FILE"
    /\ begin_trans(p)
    /\ goto(p, "write")
    /\ UNCHANGED <<disk, icache, rootbusy, args, ip, fds>>

(* writei inside the file, or beyond its end: balloc takes the first free  *)
(* block.  "Out of blocks" is a panic: a bound of the model.               *)
Write(p) ==
    LET e == file[p] IN
    /\ pc[p] = "write" /\ ilock(e)
    /\ \/ UNCHANGED <<disk, valid, copy>>
       \/ /\ Block \ bitmap # {}
          /\ bitmap' = bitmap \cup {balloc}
          /\ iupdate(e, Inlk(e), bmap(e))
          /\ UNCHANGED <<dir, rootnlink>>
    /\ goto(p, "commit")
    /\ UNCHANGED <<inum, ref, busy, locks, args, ip, fds>>

(* fileclose of the last descriptor: begin_trans and iput.                 *)
Close(p) ==
    /\ pc[p] = "idle" /\ file[p] # Null
    /\ begin_trans(p)
    /\ ip' = [ip EXCEPT ![p] = file[p]]
    /\ file' = [file EXCEPT ![p] = Null]
    /\ goto(p, "put")
    /\ UNCHANGED <<disk, icache, rootbusy, args, cwd>>

(* chdir(n).                                                               *)
Chdir(p, n) ==
    /\ Namei(p, n, "chdir")
    /\ UNCHANGED name

(* The new directory in, the old one out: iput without a transaction.      *)
ChdirLock(p) ==
    LET e == ip[p] IN
    /\ pc[p] = "chdir" /\ ilock(e)
    /\ Fields(e, Inlk(e), Iadr(e))
    /\ IF Ityp(e) # "DIR"
       THEN goto(p, "put") /\ UNCHANGED <<ip, cwd>>
       ELSE /\ cwd' = [cwd EXCEPT ![p] = e]
            /\ ip' = [ip EXCEPT ![p] = cwd[p]]
            /\ goto(p, IF cwd[p] = Null THEN "idle" ELSE "put")
    /\ UNCHANGED <<disk, inum, ref, busy, locks, args, file>>

(* exec(n), with a program or with anything else.                          *)
Exec(p, n) ==
    /\ Namei(p, n, "exec")
    /\ UNCHANGED name

(* The file is read and loaded, or is no program: iunlockput, without a    *)
(* transaction.                                                            *)
ExecLock(p) ==
    LET e == ip[p] IN
    /\ pc[p] = "exec" /\ ilock(e)
    /\ Fields(e, Inlk(e), Iadr(e))
    /\ goto(p, "put")
    /\ UNCHANGED <<disk, inum, ref, busy, locks, args, ip, fds>>

(* exit, and chdir("/"): iput(proc->cwd) without a transaction.            *)
LeaveCwd(p) ==
    /\ pc[p] = "idle" /\ cwd[p] # Null
    /\ ip' = [ip EXCEPT ![p] = cwd[p]]
    /\ cwd' = [cwd EXCEPT ![p] = Null]
    /\ goto(p, "put")
    /\ UNCHANGED <<disk, icache, locks, args, file>>

Step(p) ==
    \/ Iput(p) \/ IputTrunc(p) \/ IputFree(p) \/ Commit(p)
    \/ OpenLock(p) \/ OpenDone(p) \/ OpenFail(p)
    \/ CreateOld(p) \/ CreateOldLock(p) \/ CreateAlloc(p) \/ CreateNew(p)
    \/ Unlink(p) \/ UnlinkOld(p)
    \/ LinkBegin(p) \/ LinkInc(p) \/ LinkDir(p) \/ LinkBad(p)
    \/ Write(p) \/ ChdirLock(p) \/ ExecLock(p)

Syscall(p) ==
    \/ \E n \in Name :
        \/ Open(p, n) \/ Chdir(p, n) \/ Exec(p, n) \/ UnlinkBegin(p, n)
        \/ \E k \in {"FILE", "DIR"} : CreateBegin(p, n, k)
        \/ \E old \in Name : Link(p, old, n)
    \/ WriteBegin(p) \/ Close(p) \/ LeaveCwd(p)

\* The machine stops at a panic.
Halted == (\E p \in Proc : pc[p] = "logpanic") /\ UNCHANGED vars

Next == (\E p \in Proc : Step(p) \/ Syscall(p)) \/ Halted

Spec == Init /\ [][Next]_vars

-----------------------------------------------------------------------------
(* Types of the disk, the i-node table and the processes.  Nobody has met  *)
(* a panic of iput or unlink; log_write's is one that an iput outside of a *)
(* transaction can meet.                                                   *)
TypeOK ==
    /\ dtype \in [Inum -> Type] /\ daddrs \in [Inum -> SUBSET Block]
    /\ dnlink \in [Inum -> 0..Cardinality(Name) + 1]
    /\ dir \in [Name -> Inum \cup {Null}] /\ rootnlink \in 1..Ninodes
    /\ bitmap \subseteq Block
    /\ inum \in [Entry -> Inum \cup {Null}] /\ ref \in [Entry -> 0..3 * Cardinality(Proc)]
    /\ busy \in [Entry -> BOOLEAN] /\ valid \in [Entry -> BOOLEAN]
    /\ type \in [Entry -> Type] /\ addrs \in [Entry -> SUBSET Block]
    /\ nlink \in [Entry -> 0..Cardinality(Name) + 1]
    /\ rootbusy \in Proc \cup {NoProc} /\ trans \in Proc \cup {NoProc}
    /\ pc \in [Proc -> PC \ {"panic"}]
    /\ name \in [Proc -> Name \cup {NoName}] /\ kind \in [Proc -> Type]
    /\ \A f \in {ip, file, cwd} : f \in [Proc -> Entry \cup {Null}]

Pointers(e) ==
    Cardinality({p \in Proc : ip[p] = e}) + Cardinality({p \in Proc : file[p] = e})
        + Cardinality({p \in Proc : cwd[p] = e})

(* "ip->ref tracks the number of in-memory pointers to the entry", and an  *)
(* i-node in use has one entry, so that I_BUSY locks the i-node.  None is  *)
(* freed while a name, an open file, a current directory or a system call  *)
(* leads to it: ilock never finds one without a type.                      *)
RefsCounted ==
    /\ \A e \in Entry : ref[e] = Pointers(e)
    /\ \A e, f \in Entry : ref[e] > 0 /\ ref[f] > 0 /\ inum[e] = inum[f] => e = f
    /\ \A n \in Name : dir[n] # Null => dtype[dir[n]] # "FREE"
    /\ \A e \in Entry : ref[e] > 0 => dtype[inum[e]] # "FREE"

(* What a file system check would look for.  Between transactions the link *)
(* counts are the numbers of names, and an i-node without a name is still  *)
(* in use: none is lost.  A block in use belongs to one i-node and a free  *)
(* block to none, on the disk and in the copies in memory.                 *)
DiskConsistent ==
    /\ trans = NoProc =>
        /\ \A i \in Inum : dtype[i] # "FREE" =>
            /\ dnlink[i] = Cardinality({n \in Name : dir[n] = i})
            /\ dnlink[i] = 0 => Cached(i) # {}
        /\ rootnlink = 1 + Cardinality({i \in Inum : dtype[i] = "DIR" /\ dnlink[i] > 0})
    /\ bitmap = UNION {daddrs[i] : i \in Inum}
    /\ \A i, j \in Inum : i # j => daddrs[i] \cap daddrs[j] = {}
    /\ \A e \in Entry : ref[e] > 0 /\ valid[e] => addrs[e] = daddrs[inum[e]]
=============================================================================
