----------------------------- MODULE FileSystem -----------------------------
(***************************************************************************)
(* The inode cache, the directories and the path system calls of xv6       *)
(* (xv6/fs.c, xv6/sysfile.c, xv6/file.c), with crashes.                    *)
(*                                                                         *)
(* Several processes make system calls.  todo[p] is the rest of p's call: a *)
(* sequence of <<operation, variable>>, the variable one of the C          *)
(* variables ip, dp and next of the call.  A step takes at most one sleep  *)
(* lock, before anything else it does, and releases locks last, so every   *)
(* race between a lookup and the use of what it found, and every wait for  *)
(* a lock with others held, is a behaviour.                                *)
(*                                                                         *)
(* A path is any sequence of names: its elements are chosen as namex takes *)
(* them, so its length has no bound.  The log below is its specification,  *)
(* AtomicDisk: an operation changes mem, the end_op of the last one makes  *)
(* all of it durable, and a crash returns to what is durable.  What files  *)
(* contain is module FileData's.                                           *)
(***************************************************************************)
EXTENDS Integers, Sequences, FiniteSets, FiniteSetsExt, Functions

CONSTANTS Proc,        \* processes, besides init
          None,
          Name,        \* names of files, besides "." and ".."
          NINODES,     \* sb.ninodes
          NINODE,      \* entries of the inode cache
          NFILE,       \* entries of the file table
          NOFILE,      \* descriptors of a process
          Dots,        \* which of "." and ".." occur in paths
          LinkDots,    \* which of them may end the second path of link
          Calls,       \* the system calls that the processes make
          MaxCalls     \* bound on their number; close, fstat and exit do not count

ROOTINO == 1
Inum  == 1 .. NINODES - 1
Slot  == 1 .. NINODE       \* a struct inode*; 0 is the null pointer
Entry == Name \cup {".", ".."}

ASSUME FileSystemAssumption ==
    /\ None \notin Proc /\ IsFiniteSet(Proc)
    /\ NINODES \in Nat /\ NINODES >= 2 /\ NINODE \in Nat \ {0} /\ NFILE \in Nat /\ NOFILE \in Nat /\ MaxCalls \in Nat
    /\ Name \cap {".", ".."} = {} /\ LinkDots \subseteq Dots /\ Dots \subseteq {".", ".."}

VARIABLES mem,       \* inodes and directories, as a reader sees them
          durable,   \* the same, as a reboot finds them
          icache,    \* icache.inode
          file,      \* ftable.file: reference count and inode
          ofile,     \* p->ofile
          cwd,       \* p->cwd; 0: p does not exist
          todo,      \* the rest of the system call
          var,       \* its variables ip, dp and next
          path,      \* name: the element taken last; last: nothing follows it
          type,      \* the type that create() is to make
          calls,     \* calls made so far, as counted for MaxCalls
          inop,      \* processes between begin_op and end_op
          panicked   \* the message of the panic, or ""

disk  == <<mem, durable>>
files == <<file, ofile, cwd>>
call  == <<todo, var, path, type, calls>>
vars  == <<mem, durable, icache, file, ofile, cwd, todo, var, path, type, calls, inop, panicked>>

NoEnts == [e \in Entry |-> 0]
NoVars == [ip |-> 0, dp |-> 0, next |-> 0]
NoPath == [name |-> ".", last |-> FALSE]

\* mkfs: a root directory, its own parent.  Two histories are kept with the disk:
\* strays, the inodes named from a directory that was removed already, and
\* lost, those whose last reference was dropped by a crash.
mkfs == [type   |-> [i \in Inum |-> IF i = ROOTINO THEN "dir" ELSE "free"],
         nlink  |-> [i \in Inum |-> IF i = ROOTINO THEN 1 ELSE 0],
         ents   |-> [i \in Inum |-> [e \in Entry |-> IF i = ROOTINO /\ e \notin Name THEN ROOTINO ELSE 0]],
         strays |-> {},
         lost   |-> {}]

Unused == [inum |-> 0, ref |-> 0, valid |-> FALSE, type |-> "free", nlink |-> 0, owner |-> None]

\* What there is in memory after a boot, once init has started the processes:
\* each of them, and init, in the root directory.
bootCache == [s \in Slot |-> IF s = 1 THEN [Unused EXCEPT !.inum = ROOTINO, !.ref = Cardinality(Proc) + 1] ELSE Unused]
bootFile  == [f \in 1 .. NFILE |-> [ref |-> 0, ip |-> 0]]
bootOfile == [p \in Proc |-> [d \in 1 .. NOFILE |-> 0]]
bootCwd   == [p \in Proc |-> 1]

Init ==
    /\ mem = mkfs /\ durable = mkfs
    /\ icache = bootCache /\ file = bootFile /\ ofile = bootOfile /\ cwd = bootCwd
    /\ todo = [p \in Proc |-> << >>]
    /\ var = [p \in Proc |-> NoVars]
    /\ path = [p \in Proc |-> NoPath]
    /\ type = [p \in Proc |-> "free"]
    /\ calls = 0
    /\ inop = {}
    /\ panicked = ""

-----------------------------------------------------------------------------
\* Control.

At(p, op, r) == panicked = "" /\ todo[p] # << >> /\ Head(todo[p]) = <<op, r>>

\* The step is over; `more' comes before what was to be done next.
Then(p, more) == todo' = [todo EXCEPT ![p] = more \o Tail(@)]

\* The step is over, and `rest' is all that is left to do.
Only(p, rest) == todo' = [todo EXCEPT ![p] = rest]

Panic(message) == panicked' = message /\ UNCHANGED <<disk, icache, files, call, inop>>

end == << <<"end_op", "ip">> >>

\* iput, after an iunlock: the error returns.
GiveUp(r) == << <<"iput", r>> >> \o end

Set(p, r, s) == var' = [var EXCEPT ![p][r] = s]
Inode(p, r) == icache[var[p][r]]

-----------------------------------------------------------------------------
\* The inode cache.

Cached(i) == {s \in Slot : icache[s].ref > 0 /\ icache[s].inum = i}
Empty     == {s \in Slot : icache[s].ref = 0}

\* iget has no entry to recycle.
NoInodes(i) == Cached(i) = {} /\ Empty = {}

\* The entry that iget returns.
Found(i) == IF Cached(i) # {} THEN Min(Cached(i)) ELSE Min(Empty)

\* Faulty variant: a recycled entry keeps ip->valid.
iget_Valid(i, c) == IF Cached(i) # {} THEN [c EXCEPT ![Found(i)].ref = @ + 1]
                    ELSE [c EXCEPT ![Found(i)].inum = i, ![Found(i)].ref = 1]

\* What iget does to the cache c.
iget(i, c) == IF Cached(i) # {} THEN [c EXCEPT ![Found(i)].ref = @ + 1]
              ELSE [c EXCEPT ![Found(i)].inum = i, ![Found(i)].ref = 1, ![Found(i)].valid = FALSE]

\* An entry as ilock leaves it: read from the disk when it is not valid.
Loaded(s) == IF icache[s].valid THEN icache[s]
             ELSE [icache[s] EXCEPT !.valid = TRUE, !.type = mem.type[icache[s].inum],
                                    !.nlink = mem.nlink[icache[s].inum]]

\* ilock finds something that it cannot lock.
ilockPanics(s) == icache[s].ref < 1 \/ (~ icache[s].valid /\ Loaded(s).type = "free")

\* ilock can return at once.
Free(s) == icache[s].owner = None /\ ~ ilockPanics(s)

\* The cache with s locked by p, and with s unlocked.
Lock(p, s) == [icache EXCEPT ![s] = [Loaded(s) EXCEPT !.owner = p]]
Unlock(s, c) == [c EXCEPT ![s].owner = None]
Touch(s) == [icache EXCEPT ![s] = Loaded(s)]

\* The operations that begin with ilock.
Locking == {"walk", "create", "exists", "enter", "openDir", "unlink", "remove", "link", "dirlink", "bad", "chdir"}

\* The entry whose lock p needs next, in variable r; in namex it is `next'.
Wanted(p, r) == IF Head(todo[p])[1] = "walk" /\ var[p].next # 0 THEN var[p].next ELSE var[p][r]

\* p has come to an ilock that panics. (panic() stops the machine; the call takes no further step.)
ilockPanic(p, r) ==
    /\ todo[p] # << >> /\ Head(todo[p]) \in Locking \X {r}
    /\ ~ (Head(todo[p]) = <<"walk", r>> /\ path[p].last)
    /\ icache[Wanted(p, r)].owner = None
    /\ ilockPanics(Wanted(p, r))

iunlock(p, r) ==
    /\ At(p, "iunlock", r)
    /\ icache' = Unlock(var[p][r], icache)
    /\ Then(p, << >>)
    /\ UNCHANGED <<disk, files, var, path, type, calls, inop, panicked>>

\* Faulty variant: the references of others do not count.
MustFree_Ref(s) == icache[s].valid /\ icache[s].nlink = 0

\* iput's conditions to free the inode.
MustFree(s) == icache[s].valid /\ icache[s].nlink = 0 /\ icache[s].ref = 1

\* iput has the sleep lock; without anything to free it releases it at once.
iput(p, r) ==
    /\ At(p, "iput", r)
    /\ Inode(p, r).owner = None
    /\ IF MustFree(var[p][r])
       THEN /\ icache' = [icache EXCEPT ![var[p][r]].owner = p]
            /\ Then(p, << <<"itrunc", r>>, <<"forget", r>>, <<"drop", r>> >>)
       ELSE Then(p, << <<"drop", r>> >>) /\ UNCHANGED icache
    /\ UNCHANGED <<disk, files, var, path, type, calls, inop, panicked>>

\* itrunc, ip->type = 0, iupdate
itrunc(p, r) ==
    /\ At(p, "itrunc", r)
    /\ LET i == Inode(p, r).inum
       IN  mem' = [mem EXCEPT !.type[i] = "free", !.ents[i] = NoEnts, !.strays = @ \ {i}]
    /\ icache' = [icache EXCEPT ![var[p][r]].type = "free"]
    /\ Then(p, << >>)
    /\ UNCHANGED <<durable, files, var, path, type, calls, inop, panicked>>

\* ip->valid = 0, releasesleep
forget(p, r) ==
    /\ At(p, "forget", r)
    /\ icache' = [icache EXCEPT ![var[p][r]].valid = FALSE, ![var[p][r]].owner = None]
    /\ Then(p, << >>)
    /\ UNCHANGED <<disk, files, var, path, type, calls, inop, panicked>>

\* The last lines of iput: ip->ref--
drop(p, r) ==
    /\ At(p, "drop", r)
    /\ icache' = [icache EXCEPT ![var[p][r]].ref = @ - 1]
    /\ Set(p, r, 0)
    /\ Then(p, << >>)
    /\ UNCHANGED <<disk, files, path, type, calls, inop, panicked>>

-----------------------------------------------------------------------------
\* namex.  With variable dp it is nameiparent, with ip namei.

Walk(r) == << <<"namex", r>>, <<"walk", r>> >>

\* What a call does when namex returns 0: return -1, or sys_link's "bad".
Bad(p, r) == IF r = "dp" /\ var[p].ip # 0 THEN << <<"bad", "ip">> >> ELSE end

\* From the root or from the working directory; the path may be empty.
namex(p, r) ==
    /\ At(p, "namex", r)
    /\ \/ NoInodes(ROOTINO) /\ Panic("iget: no inodes")
       \/ /\ \/ ~ NoInodes(ROOTINO) /\ icache' = iget(ROOTINO, icache) /\ Set(p, r, Found(ROOTINO))
             \/ icache' = [icache EXCEPT ![cwd[p]].ref = @ + 1] /\ Set(p, r, cwd[p])
          /\ \E last \in BOOLEAN : path' = [path EXCEPT ![p].last = last]
          /\ Then(p, << >>)
          /\ UNCHANGED <<disk, files, type, calls, inop, panicked>>

\* The names that may be the next element of the path.
Element(p, r, last) == IF r = "dp" /\ last /\ var[p].ip # 0 THEN Name \cup LinkDots ELSE Name \cup Dots

\* The inode number that dirlookup finds under name e.
dirlookup(s, e) == mem.ents[icache[s].inum][e]

\* The return from namex after the last element; nameiparent of an empty path fails.
walked(p, r) ==
    /\ At(p, "walk", r) /\ path[p].last
    /\ IF r = "dp" THEN Only(p, << <<"iput", r>> >> \o Bad(p, r)) ELSE Then(p, << >>)
    /\ var' = [var EXCEPT ![p][r] = Wanted(p, r), ![p].next = 0]
    /\ UNCHANGED <<disk, icache, files, path, type, calls, inop, panicked>>

\* An iteration of its loop, from skipelem to iunlock.
walk(p, r) ==
    /\ At(p, "walk", r) /\ ~ path[p].last /\ Free(Wanted(p, r))
    /\ \E last \in BOOLEAN : \E e \in Element(p, r, last) :
           LET s == Wanted(p, r)
               i == dirlookup(s, e)
               parent == r = "dp" /\ last
               found == Loaded(s).type = "dir" /\ (parent \/ i # 0)
           IN  IF found /\ ~ parent /\ NoInodes(i) THEN Panic("iget: no inodes")
               ELSE /\ path' = [path EXCEPT ![p] = [name |-> e, last |-> last]]
                    /\ var' = [var EXCEPT ![p][r] = s, ![p].next = IF found /\ ~ parent THEN Found(i) ELSE 0]
                    /\ icache' = IF found /\ ~ parent THEN iget(i, Touch(s)) ELSE Touch(s)
                    /\ \/ ~ found /\ Only(p, << <<"iput", r>> >> \o Bad(p, r))
                       \/ found /\ parent /\ Then(p, << >>)
                       \/ found /\ ~ parent /\ Then(p, << <<"iput", r>>, <<"walk", r>> >>)
                    /\ UNCHANGED <<disk, files, type, calls, inop, panicked>>

-----------------------------------------------------------------------------
\* create, on behalf of open, mkdir and mknod.

\* A link count changed under the lock, in the cache c; iupdate writes it to the disk.
Links(s, n, c) == [c EXCEPT ![s].nlink = n]

FreeInums == {i \in Inum : mem.type[i] = "free"}

\* The name exists, or ialloc finds the first free inode.
create(p) ==
    /\ At(p, "create", "dp") /\ Free(var[p].dp)
    /\ LET dp == var[p].dp
           old == dirlookup(dp, path[p].name)
           i == IF old # 0 THEN old ELSE Min(FreeInums)
       IN  IF old = 0 /\ FreeInums = {} THEN Panic("ialloc: no inodes")
           ELSE IF NoInodes(i) THEN Panic("iget: no inodes")
           ELSE /\ Set(p, "ip", Found(i))
                /\ IF old # 0
                   THEN /\ icache' = iget(i, Touch(dp))
                        /\ Then(p, << <<"iput", "dp">>, <<"exists", "ip">> >>)
                        /\ UNCHANGED mem
                   ELSE /\ icache' = iget(i, Lock(p, dp))
                        /\ Then(p, << <<"enter", "ip">>, <<"iput", "dp">> >>)
                        /\ mem' = [mem EXCEPT !.type[i] = type[p], !.nlink[i] = 0, !.ents[i] = NoEnts]
                /\ UNCHANGED <<durable, files, path, type, calls, inop, panicked>>

\* Only open may use a file that exists, and only a plain one; it stays locked.
exists(p) ==
    /\ At(p, "exists", "ip") /\ Free(var[p].ip)
    /\ IF type[p] = "file" /\ Loaded(var[p].ip).type = "file"
       THEN icache' = Lock(p, var[p].ip) /\ Then(p, << >>)
       ELSE icache' = Touch(var[p].ip) /\ Only(p, GiveUp("ip"))
    /\ UNCHANGED <<disk, files, var, path, type, calls, inop, panicked>>

\* The histories after a name for inode i was entered into directory d.
Stray(d, i) == IF mem.nlink[d] = 0 \/ d \in mem.strays THEN mem.strays \cup {d, i} ELSE mem.strays

\* Faulty variant: a new directory's ".." is not counted.
DotDot_Uncounted(t) == 0

\* The links that the parent gets or loses with an entry for an inode of type t.
DotDot(t) == IF t = "dir" THEN 1 ELSE 0

\* The new inode gets its link, a directory its dots, the parent the entry; ip stays locked.
enter(p) ==
    /\ At(p, "enter", "ip") /\ Free(var[p].ip)
    /\ LET d == Inode(p, "dp").inum
           i == Inode(p, "ip").inum
           n == Inode(p, "dp").nlink + DotDot(type[p])
       IN  /\ mem' = [mem EXCEPT !.nlink[i] = 1, !.nlink[d] = n, !.strays = Stray(d, i),
                                 !.ents[d][path[p].name] = i,
                                 !.ents[i] = IF type[p] = "dir" THEN [@ EXCEPT !["."] = i, ![".."] = d] ELSE @]
           /\ icache' = Unlock(var[p].dp, Links(var[p].dp, n, Links(var[p].ip, 1, Lock(p, var[p].ip))))
    /\ Then(p, << >>)
    /\ UNCHANGED <<durable, files, var, path, type, calls, inop, panicked>>

-----------------------------------------------------------------------------
\* sys_open, once it has the inode.

FreeFiles  == {f \in 1 .. NFILE : file[f].ref = 0}
FreeFds(p) == {d \in 1 .. NOFILE : ofile[p][d] = 0}

\* Without O_CREATE: ilock, and a directory may not be opened for writing.
openDir(p) ==
    /\ At(p, "openDir", "ip") /\ Free(var[p].ip)
    /\ \/ icache' = Lock(p, var[p].ip) /\ Then(p, << >>)
       \/ /\ Loaded(var[p].ip).type = "dir"
          /\ icache' = Touch(var[p].ip)
          /\ Only(p, GiveUp("ip"))
    /\ UNCHANGED <<disk, files, var, path, type, calls, inop, panicked>>

\* filealloc and fdalloc; without both the call gives everything back.  f->ip = ip
\* comes after end_op in the code, when only p can reach f.
open(p) ==
    /\ At(p, "open", "ip")
    /\ IF FreeFiles = {} \/ FreeFds(p) = {}
       THEN Only(p, GiveUp("ip")) /\ UNCHANGED <<file, ofile, var>>
       ELSE /\ file' = [file EXCEPT ![Min(FreeFiles)] = [ref |-> 1, ip |-> var[p].ip]]
            /\ ofile' = [ofile EXCEPT ![p][Min(FreeFds(p))] = Min(FreeFiles)]
            /\ Set(p, "ip", 0)
            /\ Then(p, end)
    /\ icache' = Unlock(var[p].ip, icache)
    /\ UNCHANGED <<disk, cwd, path, type, calls, inop, panicked>>

-----------------------------------------------------------------------------
\* sys_unlink.

\* "." and ".." and names that are not there are refused; else dp stays locked.
unlink(p) ==
    /\ At(p, "unlink", "dp") /\ Free(var[p].dp)
    /\ LET i == dirlookup(var[p].dp, path[p].name)
       IN  IF path[p].name \in {".", ".."} \/ i = 0
           THEN /\ icache' = Touch(var[p].dp)
                /\ Only(p, GiveUp("dp"))
                /\ UNCHANGED <<disk, files, var, path, type, calls, inop, panicked>>
           ELSE IF NoInodes(i) THEN Panic("iget: no inodes")
           ELSE /\ icache' = iget(i, Lock(p, var[p].dp))
                /\ Set(p, "ip", Found(i))
                /\ Then(p, << <<"remove", "ip">> >>)
                /\ UNCHANGED <<disk, files, path, type, calls, inop, panicked>>

isdirempty(i) == \A e \in Name : mem.ents[i][e] = 0

\* The entry goes, and with a directory the parent's link for ".."; ip stays locked.
\* A directory that is not empty stays, and dp is locked while ip is put.
remove(p) ==
    /\ At(p, "remove", "ip") /\ Free(var[p].ip)
    /\ LET d == Inode(p, "dp").inum
           ip == Loaded(var[p].ip)
           n == Inode(p, "dp").nlink - DotDot(ip.type)
       IN  IF ip.nlink < 1 THEN Panic("unlink: nlink < 1")
           ELSE IF ip.type = "dir" /\ ~ isdirempty(ip.inum)
           THEN /\ icache' = Touch(var[p].ip)
                /\ Only(p, << <<"iput", "ip">>, <<"iunlock", "dp">>, <<"iput", "dp">> >> \o end)
                /\ UNCHANGED <<disk, files, var, path, type, calls, inop, panicked>>
           ELSE /\ mem' = [mem EXCEPT !.ents[d][path[p].name] = 0, !.nlink[d] = n]
                /\ icache' = Unlock(var[p].dp, Links(var[p].dp, n, Lock(p, var[p].ip)))
                /\ Then(p, << <<"iput", "dp">>, <<"unlinked", "ip">> >>)
                /\ UNCHANGED <<durable, files, var, path, type, calls, inop, panicked>>

\* ip->nlink--, at the end of unlink with ip still locked, and of a link that failed.
undo(p) ==
    /\ At(p, "unlinked", "ip") \/ (At(p, "bad", "ip") /\ Free(var[p].ip))
    /\ LET n == Loaded(var[p].ip).nlink - 1
       IN  /\ mem' = [mem EXCEPT !.nlink[Inode(p, "ip").inum] = n]
           /\ icache' = Unlock(var[p].ip, Links(var[p].ip, n, Touch(var[p].ip)))
    /\ Only(p, GiveUp("ip"))
    /\ UNCHANGED <<durable, files, var, path, type, calls, inop, panicked>>

-----------------------------------------------------------------------------
\* sys_link.

\* The link is counted before the entry is made.
link(p) ==
    /\ At(p, "link", "ip") /\ Free(var[p].ip)
    /\ LET ip == Loaded(var[p].ip)
       IN  IF ip.type = "dir"
           THEN /\ icache' = Touch(var[p].ip)
                /\ Only(p, GiveUp("ip"))
                /\ UNCHANGED mem
           ELSE /\ mem' = [mem EXCEPT !.nlink[ip.inum] = ip.nlink + 1]
                /\ icache' = Links(var[p].ip, ip.nlink + 1, Touch(var[p].ip))
                /\ Then(p, Walk("dp") \o << <<"dirlink", "dp">> >>)
    /\ UNCHANGED <<durable, files, var, path, type, calls, inop, panicked>>

\* dirlink(dp, name, ip->inum): when the name is taken, its inode is put with dp locked.
dirlink(p) ==
    /\ At(p, "dirlink", "dp") /\ Free(var[p].dp)
    /\ LET d == Inode(p, "dp").inum
           i == Inode(p, "ip").inum
           old == dirlookup(var[p].dp, path[p].name)
       IN  IF old # 0 /\ NoInodes(old) THEN Panic("iget: no inodes")
           ELSE /\ IF old # 0
                   THEN /\ icache' = iget(old, Lock(p, var[p].dp))
                        /\ Set(p, "next", Found(old))
                        /\ Only(p, << <<"iput", "next">>, <<"iunlock", "dp">>, <<"iput", "dp">> >> \o Bad(p, "dp"))
                        /\ UNCHANGED mem
                   ELSE /\ icache' = Touch(var[p].dp)
                        /\ mem' = [mem EXCEPT !.ents[d][path[p].name] = i, !.strays = Stray(d, i)]
                        /\ Only(p, << <<"iput", "dp">>, <<"iput", "ip">> >> \o end)
                        /\ UNCHANGED var
                /\ UNCHANGED <<durable, files, path, type, calls, inop, panicked>>

-----------------------------------------------------------------------------
\* sys_chdir.  curproc->cwd = ip comes after end_op in the code; only p reads it.

chdir(p) ==
    /\ At(p, "chdir", "ip") /\ Free(var[p].ip)
    /\ icache' = Touch(var[p].ip)
    /\ IF Loaded(var[p].ip).type # "dir"
       THEN Only(p, GiveUp("ip")) /\ UNCHANGED <<var, cwd>>
       ELSE /\ var' = [var EXCEPT ![p].next = cwd[p], ![p].ip = 0]
            /\ cwd' = [cwd EXCEPT ![p] = var[p].ip]
            /\ Only(p, << <<"iput", "next">> >> \o end)
    /\ UNCHANGED <<disk, file, ofile, path, type, calls, inop, panicked>>


-----------------------------------------------------------------------------
\* The system calls.

Idle(p) == panicked = "" /\ todo[p] = << >> /\ cwd[p] # 0

\* A call that walks a path: begin_op and its steps.
PathCall(name, p, t, steps) ==
    /\ name \in Calls /\ Idle(p) /\ calls < MaxCalls
    /\ calls' = calls + 1
    /\ inop' = inop \cup {p}
    /\ type' = [type EXCEPT ![p] = t]
    /\ Only(p, steps)
    /\ UNCHANGED <<disk, icache, files, var, path, panicked>>

Create == Walk("dp") \o << <<"create", "dp">> >>

sys_open(p) ==
    \/ PathCall("open", p, "file", Create \o << <<"open", "ip">> >>)
    \/ PathCall("open", p, "free", Walk("ip") \o << <<"openDir", "ip">>, <<"open", "ip">> >>)
sys_mkdir(p)  == PathCall("mkdir", p, "dir", Create \o << <<"iunlock", "ip">>, <<"iput", "ip">> >> \o end)
sys_mknod(p)  == PathCall("mknod", p, "dev", Create \o << <<"iunlock", "ip">>, <<"iput", "ip">> >> \o end)
sys_unlink(p) == PathCall("unlink", p, "free", Walk("dp") \o << <<"unlink", "dp">> >>)
sys_link(p)   == PathCall("link", p, "free", Walk("ip") \o << <<"link", "ip">> >>)
sys_chdir(p)  == PathCall("chdir", p, "free", Walk("ip") \o << <<"chdir", "ip">> >>)

Open(p) == {d \in 1 .. NOFILE : ofile[p][d] # 0}

\* fileclose of a descriptor: the last reference puts the inode, in an operation.
fileclose(p, d, rest) ==
    LET f == ofile[p][d]
    IN  IF file[f].ref < 1 THEN Panic("fileclose")
        ELSE /\ ofile' = [ofile EXCEPT ![p][d] = 0]
             /\ IF file[f].ref > 1
                THEN /\ file' = [file EXCEPT ![f].ref = @ - 1]
                     /\ Only(p, rest)
                     /\ UNCHANGED <<var, inop>>
                ELSE /\ file' = [file EXCEPT ![f] = [ref |-> 0, ip |-> 0]]
                     /\ Set(p, "ip", file[f].ip)
                     /\ inop' = inop \cup {p}
                     /\ Only(p, << <<"iput", "ip">> >> \o end \o rest)
             /\ UNCHANGED <<disk, icache, cwd, path, type, calls, panicked>>

sys_close(p) == "close" \in Calls /\ Idle(p) /\ \E d \in Open(p) : fileclose(p, d, << >>)

sys_dup(p) ==
    /\ "dup" \in Calls /\ Idle(p) /\ FreeFds(p) # {} /\ calls < MaxCalls
    /\ calls' = calls + 1
    /\ \E d \in Open(p) :
           /\ ofile' = [ofile EXCEPT ![p][Min(FreeFds(p))] = ofile[p][d]]
           /\ file' = [file EXCEPT ![ofile[p][d]].ref = @ + 1]
    /\ UNCHANGED <<disk, icache, cwd, todo, var, path, type, inop, panicked>>

\* filestat, and the others that use f->ip under its lock outside an operation.
sys_fstat(p) ==
    /\ "fstat" \in Calls /\ Idle(p)
    /\ \E d \in Open(p) : Free(file[ofile[p][d]].ip) /\ icache' = Touch(file[ofile[p][d]].ip)
    /\ UNCHANGED <<disk, files, call, inop, panicked>>

\* What fork does to the files: filedup of each, idup of the directory.
fork(p, q) ==
    /\ "fork" \in Calls /\ Idle(p) /\ todo[q] = << >> /\ cwd[q] = 0 /\ calls < MaxCalls
    /\ calls' = calls + 1
    /\ ofile' = [ofile EXCEPT ![q] = ofile[p]]
    /\ file' = [f \in DOMAIN file |-> [file[f] EXCEPT !.ref = @ + Cardinality({d \in Open(p) : ofile[p][d] = f})]]
    /\ cwd' = [cwd EXCEPT ![q] = cwd[p]]
    /\ icache' = [icache EXCEPT ![cwd[p]].ref = @ + 1]
    /\ UNCHANGED <<disk, todo, var, path, type, inop, panicked>>

\* What exit does to them: every descriptor, then the directory.
exit(p) ==
    /\ \/ "fork" \in Calls /\ Idle(p)
       \/ At(p, "exit", "ip")
    /\ IF Open(p) # {} THEN fileclose(p, Min(Open(p)), << <<"exit", "ip">> >>)
       ELSE /\ Set(p, "next", cwd[p])
            /\ cwd' = [cwd EXCEPT ![p] = 0]
            /\ inop' = inop \cup {p}
            /\ Only(p, << <<"iput", "next">> >> \o end)
            /\ UNCHANGED <<disk, icache, file, ofile, path, type, calls, panicked>>

-----------------------------------------------------------------------------
\* The log, external to this module, and crashes.

\* The last operation to end commits them all.
end_op(p) ==
    /\ At(p, "end_op", "ip")
    /\ inop' = inop \ {p}
    /\ durable' = IF inop = {p} THEN mem ELSE durable
    /\ Then(p, << >>)
    /\ var' = [var EXCEPT ![p] = NoVars]
    /\ path' = [path EXCEPT ![p] = NoPath]
    /\ type' = [type EXCEPT ![p] = "free"]
    /\ UNCHANGED <<mem, icache, files, calls, panicked>>

\* A crash, or a reset after a panic: memory is gone.
crash ==
    /\ mem' = [durable EXCEPT !.lost = {i \in Inum : durable.type[i] # "free" /\ durable.nlink[i] = 0}]
    /\ durable' = mem'
    /\ icache' = bootCache /\ file' = bootFile /\ ofile' = bootOfile /\ cwd' = bootCwd
    /\ todo' = [p \in Proc |-> << >>]
    /\ var' = [p \in Proc |-> NoVars]
    /\ path' = [p \in Proc |-> NoPath]
    /\ type' = [p \in Proc |-> "free"]
    /\ inop' = {}
    /\ panicked' = ""
    /\ UNCHANGED calls

Next ==
    \/ \E p \in Proc :
           \/ \E r \in {"ip", "dp", "next"} : iput(p, r) \/ itrunc(p, r) \/ forget(p, r) \/ drop(p, r)
           \/ \E r \in {"ip", "dp"} : iunlock(p, r) \/ namex(p, r) \/ walk(p, r) \/ walked(p, r)
           \/ create(p) \/ exists(p) \/ enter(p) \/ openDir(p) \/ open(p)
           \/ unlink(p) \/ remove(p) \/ undo(p) \/ link(p) \/ dirlink(p) \/ chdir(p)
           \/ sys_open(p) \/ sys_mkdir(p) \/ sys_mknod(p) \/ sys_unlink(p) \/ sys_link(p) \/ sys_chdir(p)
           \/ sys_close(p) \/ sys_dup(p) \/ sys_fstat(p) \/ exit(p) \/ end_op(p)
           \/ \E q \in Proc : fork(p, q)
    \/ crash

Spec == Init /\ [][Next]_vars

-----------------------------------------------------------------------------
\* Properties.

\* ip->ref "tracks the number of in-memory pointers to the entry": the working
\* directories (init's is the root), the open files and the variables of the calls, at every step.
RefsExact ==
    \A s \in Slot : icache[s].ref = Cardinality({p \in Proc : cwd[p] = s}) + (IF s = 1 THEN 1 ELSE 0)
                                    + Cardinality({f \in DOMAIN file : file[f].ip = s})
                                    + Cardinality({x \in Proc \X {"ip", "dp", "next"} : var[x[1]][x[2]] = s})

\* The cache is write-through: two entries are never the same inode, and an
\* entry that is valid and not locked says what the disk says.
CacheCoherent ==
    \A s \in Slot : icache[s].ref > 0 =>
        /\ Cached(icache[s].inum) = {s}
        /\ icache[s].valid /\ icache[s].owner = None =>
               icache[s].type = mem.type[icache[s].inum] /\ icache[s].nlink = mem.nlink[icache[s].inum]

\* Directories that have a name and, so far, only named entries.
Live(fs) == {d \in Inum : fs.type[d] = "dir" /\ fs.nlink[d] > 0 /\ d \notin fs.strays}

\* Whatever the interleaving of calls and wherever the crash: on the disk that a
\* reboot finds, an inode's link count is the number of entries that name it (a
\* directory's "." not counted, the root's own ".." standing for its name), and
\* every entry names an allocated inode.  Excepted is what was entered into a
\* directory removed between the lookup of its path and the lock.
LinksExact ==
    \A i \in Inum : durable.type[i] # "free" /\ i \notin durable.strays =>
        /\ durable.nlink[i] = Cardinality({x \in Live(durable) \X (Name \cup {".."}) : durable.ents[x[1]][x[2]] = i})
        /\ i \in Live(durable) => \A e \in Entry : durable.ents[i][e] # 0 => durable.type[durable.ents[i][e]] # "free"

\* On that disk the directories are a tree: "." is the directory itself, ".." the
\* one directory that names it.
DirectoryTree ==
    \A d \in Live(durable) :
        /\ durable.ents[d]["."] = d
        /\ {x \in Live(durable) : \E e \in Name : durable.ents[x][e] = d}
               = IF d = ROOTINO THEN {} ELSE {durable.ents[d][".."]}

\* No inode leaks without a crash: one that is allocated and has no link is in
\* use, in a working directory, a file or a call.
OrphanHeld ==
    \A i \in Inum : mem.type[i] # "free" /\ mem.nlink[i] = 0 => i \in mem.lost \/ Cached(i) # {}

\* The calls never fail one of the kernel's assertions; excepted are the limits on
\* the number of inodes.
NoFsPanic == /\ panicked \in {"", "ialloc: no inodes", "iget: no inodes"}
             /\ panicked = "" => \A p \in Proc, r \in {"ip", "dp"} : ~ ilockPanic(p, r)

\* The inode cache at every step of every call: the reference counts are exact, and an entry is
\* the only one of its inode and says what the disk says.
InodesExact == RefsExact /\ CacheCoherent

\* The disk a reboot finds, after a crash at any step of any calls, is a tree with exact link counts,
\* and no assertion about what a directory entry leads to fails.
TreeExact == LinksExact /\ DirectoryTree /\ NoFsPanic

\* The lock that a process waits for, and the process that holds it.
Waits(p, q) ==
    /\ todo[p] # << >> /\ Head(todo[p])[1] \in Locking \cup {"iput"}
    /\ icache[Wanted(p, Head(todo[p])[2])].owner = q

\* The sleep locks of inodes are taken in an order: no set of processes waits
\* for locks held within the set.
NoDeadlock ==
    ~ \E P \in SUBSET Proc : P # {} /\ \A p \in P : \E q \in P : Waits(p, q)

\* A file stays what it was while it is open or a working directory: its inode
\* is not freed, nor used for another file.
Kept == {icache[s].inum : s \in ({file[f].ip : f \in DOMAIN file} \cup Range(cwd)) \ {0}}
OpenFileKept == [][\A i \in Kept : i \in Kept' => mem'.type[i] = mem.type[i]]_<<mem, icache, file, cwd>>
=============================================================================
