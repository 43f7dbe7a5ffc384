-------------------------------- MODULE Pipe --------------------------------
(***************************************************************************)
(* Pipes (xv6/pipe.c): pipewrite, piperead and pipeclose by several        *)
(* processes.  p->lock is explicit; the code under it is split at every    *)
(* byte and between the test of killed and sleep(), because kill() takes   *)
(* ptable.lock only and may come in between.  sleep() gives up p->lock and *)
(* goes to sleep in one step, which module Sleeplock justifies.            *)
(***************************************************************************)
EXTENDS Integers, Sequences, FiniteSets

CONSTANTS Writer, Reader,  \* the processes that hold the write and the read end
          Nobody, Byte,
          PIPESIZE,
          WordMod,         \* 2^32: nread and nwrite are of type uint
          MaxN             \* bound on the size of one read or write

ASSUME PipeAssumption == /\ PIPESIZE \in Nat \ {0} /\ WordMod \in Nat /\ MaxN \in Nat
                         /\ WordMod > PIPESIZE /\ WordMod % PIPESIZE = 0
                         /\ Writer \cap Reader = {} /\ Nobody \notin Writer \cup Reader

PipeProc == Writer \cup Reader

VARIABLES data, nread, nwrite, readopen, writeopen,  \* struct pipe
          freed,            \* kfree(p)
          lock,             \* holder of p->lock
          ppc, i, n,        \* the process's place in the code, and its variables
          chan,             \* what it sleeps on
          pkilled,
          fds               \* processes that have their end open (the ref counts of file.c)

pipe == <<data, nread, nwrite, readopen, writeopen, freed>>
pipevars == <<data, nread, nwrite, readopen, writeopen, freed, lock, ppc, i, n, chan, pkilled, fds>>

\* pipealloc, and the forks that hand out the two ends.
PipeInit == /\ data = [k \in 0 .. PIPESIZE - 1 |-> Nobody]   \* kalloc's contents are never read
            /\ nread = 0 /\ nwrite = 0 /\ readopen = TRUE /\ writeopen = TRUE /\ freed = FALSE
            /\ lock = Nobody
            /\ ppc = [p \in PipeProc |-> "user"]
            /\ i = [p \in PipeProc |-> 0] /\ n = [p \in PipeProc |-> 0]
            /\ chan = [p \in PipeProc |-> "none"]
            /\ pkilled = [p \in PipeProc |-> FALSE]
            /\ fds = PipeProc

Jump(p, l) == ppc' = [ppc EXCEPT ![p] = l]
AtPc(p, l) == lock = p /\ ppc[p] = l
Woken(c)   == [q \in PipeProc |-> IF chan[q] = c THEN "none" ELSE chan[q]]
Empty      == nread = nwrite

\* nread++ and nwrite++, of type uint.
Inc(x) == (x + 1) % WordMod

\* Faulty variant: the test forgets that nread wraps.
Full_NoWrap == nwrite = nread + PIPESIZE

\* The test of pipewrite-full.
Full == nwrite = (nread + PIPESIZE) % WordMod

-----------------------------------------------------------------------------
\* A system call starts (argfd has found the open file; m bytes are asked for).
call(p) ==
    /\ ppc[p] = "user" /\ p \in fds /\ ~ pkilled[p] /\ lock = Nobody
    /\ lock' = p
    /\ \E m \in 0 .. MaxN : n' = [n EXCEPT ![p] = m]
    /\ Jump(p, IF p \in Writer THEN "write" ELSE "read")
    /\ UNCHANGED <<pipe, i, chan, pkilled, fds>>

\* The call ends: p->lock is released, i and n are dead.
Reply(p) == /\ lock' = Nobody /\ Jump(p, "user")
            /\ i' = [i EXCEPT ![p] = 0] /\ n' = [n EXCEPT ![p] = 0]

\* sleep() on channel c: p->lock is released.
sleep(p, at, c) ==
    /\ AtPc(p, at)
    /\ chan' = [chan EXCEPT ![p] = c]
    /\ lock' = Nobody
    /\ Jump(p, IF p \in Writer THEN "wslept" ELSE "rslept")
    /\ UNCHANGED <<pipe, i, n, pkilled, fds>>

\* sleep() returns with p->lock.
awake(p) ==
    /\ ppc[p] \in {"wslept", "rslept"} /\ chan[p] = "none" /\ lock = Nobody
    /\ lock' = p
    /\ Jump(p, IF p \in Writer THEN "write" ELSE "read")
    /\ UNCHANGED <<pipe, i, n, chan, pkilled, fds>>

-----------------------------------------------------------------------------
\* pipewrite()

write_byte(p) ==
    /\ AtPc(p, "write") /\ i[p] < n[p] /\ ~ Full
    /\ \E b \in Byte : data' = [data EXCEPT ![nwrite % PIPESIZE] = b]
    /\ nwrite' = Inc(nwrite)
    /\ i' = [i EXCEPT ![p] = @ + 1]
    /\ UNCHANGED <<nread, readopen, writeopen, freed, lock, ppc, n, chan, pkilled, fds>>

write_broken(p) ==
    /\ AtPc(p, "write") /\ i[p] < n[p] /\ Full /\ (~ readopen \/ pkilled[p])
    /\ Reply(p)
    /\ UNCHANGED <<pipe, chan, pkilled, fds>>

write_full(p) ==
    /\ AtPc(p, "write") /\ i[p] < n[p] /\ Full /\ readopen /\ ~ pkilled[p]
    /\ chan' = Woken("nread")
    /\ Jump(p, "wsleep")
    /\ UNCHANGED <<pipe, lock, i, n, pkilled, fds>>

write_done(p) ==
    /\ AtPc(p, "write") /\ i[p] = n[p]
    /\ chan' = Woken("nread")
    /\ Reply(p)
    /\ UNCHANGED <<pipe, pkilled, fds>>

-----------------------------------------------------------------------------
\* piperead()

\* The test of pipe-empty.
MustWait(p) == Empty /\ writeopen

read_killed(p) ==
    /\ AtPc(p, "read") /\ MustWait(p) /\ pkilled[p]
    /\ Reply(p)
    /\ UNCHANGED <<pipe, chan, pkilled, fds>>

read_empty(p) ==
    /\ AtPc(p, "read") /\ MustWait(p) /\ ~ pkilled[p]
    /\ Jump(p, "rsleep")
    /\ UNCHANGED <<pipe, lock, i, n, chan, pkilled, fds>>

read_ready(p) ==
    /\ AtPc(p, "read") /\ ~ MustWait(p)
    /\ Jump(p, "copy")
    /\ UNCHANGED <<pipe, lock, i, n, chan, pkilled, fds>>

read_byte(p) ==
    /\ AtPc(p, "copy") /\ i[p] < n[p] /\ ~ Empty
    /\ nread' = Inc(nread)
    /\ i' = [i EXCEPT ![p] = @ + 1]
    /\ UNCHANGED <<data, nwrite, readopen, writeopen, freed, lock, ppc, n, chan, pkilled, fds>>

\* Faulty variant: piperead-wakeup is missing.
read_done_NoWakeup(p) ==
    /\ AtPc(p, "copy") /\ (i[p] = n[p] \/ Empty)
    /\ Reply(p)
    /\ UNCHANGED <<pipe, chan, pkilled, fds>>

read_done(p) ==
    /\ AtPc(p, "copy") /\ (i[p] = n[p] \/ Empty)
    /\ chan' = Woken("nwrite")
    /\ Reply(p)
    /\ UNCHANGED <<pipe, pkilled, fds>>

-----------------------------------------------------------------------------
\* close(), or exit() of a killed process: the last file of an end closes it.
close(p) ==
    /\ ppc[p] = "user" /\ p \in fds
    /\ fds' = fds \ {p}
    /\ Jump(p, IF (fds \ {p}) \cap (IF p \in Writer THEN Writer ELSE Reader) = {} THEN "close" ELSE "closed")
    /\ UNCHANGED <<pipe, lock, i, n, chan, pkilled>>

\* Faulty variant: the page is freed with the first end.
BothClosed_Either(r, w) == ~ r \/ ~ w

\* pipeclose's condition for kfree.
BothClosed(r, w) == ~ r /\ ~ w

pipeclose(p) ==
    /\ ppc[p] = "close" /\ lock = Nobody
    /\ writeopen' = (writeopen /\ p \notin Writer)
    /\ readopen' = (readopen /\ p \notin Reader)
    /\ chan' = Woken(IF p \in Writer THEN "nread" ELSE "nwrite")
    /\ freed' = BothClosed(readopen', writeopen')
    /\ Jump(p, "closed")
    /\ UNCHANGED <<data, nread, nwrite, lock, i, n, pkilled, fds>>

\* kill() by another process: ptable.lock only.
killPipe(p) ==
    /\ p \in fds /\ ~ pkilled[p]
    /\ pkilled' = [pkilled EXCEPT ![p] = TRUE]
    /\ chan' = [chan EXCEPT ![p] = "none"]
    /\ UNCHANGED <<pipe, lock, ppc, i, n, fds>>

Kernel(p) ==
    \/ awake(p) \/ sleep(p, "wsleep", "nwrite") \/ sleep(p, "rsleep", "nread")
    \/ write_byte(p) \/ write_broken(p) \/ write_full(p) \/ write_done(p)
    \/ read_killed(p) \/ read_empty(p) \/ read_ready(p) \/ read_byte(p) \/ read_done(p)
    \/ pipeclose(p)
    \/ (pkilled[p] /\ close(p))

PipeNext == \E p \in PipeProc : Kernel(p) \/ call(p) \/ close(p) \/ killPipe(p)

PipeSpec == PipeInit /\ [][PipeNext]_pipevars

\* A process in the kernel goes on, and p->lock is not denied to it for ever.
KernelSpec == PipeSpec /\ \A p \in PipeProc : SF_pipevars(Kernel(p))

-----------------------------------------------------------------------------
\* The bytes between nread and nwrite, across the ends of the ring and of uint.
InPipe == [k \in 1 .. (nwrite - nread) % WordMod |-> data[((nread + k - 1) % WordMod) % PIPESIZE]]

Abstract == INSTANCE Channel WITH queue <- InPipe, Capacity <- PIPESIZE

\* A pipe is a bounded FIFO: pipewrite overwrites no unread byte, piperead
\* returns every byte once and in order, also when nread and nwrite wrap.
Fifo == Abstract!ChannelSpec

\* Nobody sleeps through an event: when p->lock is free, a reader asleep on
\* &p->nread sees an empty pipe with its write end open, and a writer asleep on
\* &p->nwrite a full pipe with its read end open.  The exception is a killed
\* writer: pipewrite's return -1 on a full pipe skips wakeup(&p->nread), and the
\* reader sleeps beside the bytes of that call until somebody writes or the
\* write end is closed.
NoMissedEvent ==
    lock = Nobody => \A p \in PipeProc :
        /\ chan[p] = "nread" => (Empty \/ \E w \in Writer : pkilled[w]) /\ writeopen
        /\ chan[p] = "nwrite" => Full /\ readopen

\* piperead finds nothing to copy only when the write end is closed: several
\* readers woken for one byte do not take the others' emptiness for end of file.
EofAtEnd == \A p \in Reader : AtPc(p, "copy") /\ i[p] = 0 /\ Empty => ~ writeopen

\* Readers and writers see what happens at the other end: no sleep beside an event, and no
\* end of file while the write end is open.
EventsSeen == NoMissedEvent /\ EofAtEnd

\* Nobody uses the pipe after pipeclose has freed its page.
NoUseAfterFree == freed => \A p \in PipeProc : ppc[p] \in {"user", "closed"} /\ p \notin fds

\* "Wake process from sleep if necessary": a killed process does not stay in
\* piperead or pipewrite.
KilledReturns == \A p \in PipeProc : pkilled[p] ~> (ppc[p] \in {"user", "closed"})
=============================================================================
