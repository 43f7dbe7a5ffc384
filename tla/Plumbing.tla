------------------------------ MODULE Plumbing ------------------------------
(***************************************************************************)
(* The programs that start programs: init, the shell and the fork, wait    *)
(* and pipe tests of xv6, and the exercises that build a pipeline or wait  *)
(* for their children.  A program is the sequence of the calls it makes; a *)
(* process runs it with its descriptors, and the calls are those of the    *)
(* kernel at their interface.                                              *)
(***************************************************************************)
EXTENDS ShellParse

CONSTANTS NPROCS,        \* process slots
          NPIPES,        \* pipes
          NOFILES,       \* descriptors of a process
          PIPESIZE,      \* units a pipe holds
          Lines,         \* the lines that may be typed, as tokens
          MaxLines       \* how many are typed

Slot == 1 .. NPROCS
PipeId == 1 .. NPIPES
Fd == 0 .. NOFILES - 1

VARIABLES scenario,      \* which program is process 1
          proc,          \* the processes
          units,         \* units in each pipe
          typedLines     \* lines typed so far

pvars == <<scenario, proc, units, typedLines>>

\* Descriptors
Closed == <<0, "closed">>
Tty == <<0, "tty">>
OnDisk == <<0, "file">>
End(n, side) == <<n, side>>

\* Calls
Op(op) == [op |-> op]
Pipe2(r, w) == [op |-> "pipe", r |-> r, w |-> w]
Fork(body, pid) == [op |-> "fork", body |-> body, pid |-> pid]
Close(fd) == [op |-> "close", fd |-> fd]
Dup(fd) == [op |-> "dup", fd |-> fd]
Dup2(fd, to) == [op |-> "dup2", fd |-> fd, to |-> to]
Exec(image) == [op |-> "exec", image |-> image]
Waitpid(pid) == [op |-> "waitpid", pid |-> pid]
Expect(pid) == [op |-> "expect", pid |-> pid]                        \* a wait that must find this child
Kill(pid) == [op |-> "kill", pid |-> pid]
Write(fd) == [op |-> "write", fd |-> fd]
Read(fd) == [op |-> "read", fd |-> fd, loop |-> FALSE, then |-> << >>]  \* a read that must find a unit
ReadToEnd(fd, then) == [op |-> "read", fd |-> fd, loop |-> TRUE, then |-> then]

\* The end of a program, and every error path, is exit().
Exit == << >>

-----------------------------------------------------------------------------
\* init.c: for ever, start a shell and wait until it is the one that ended
InitMain == <<Fork(<<Exec("sh")>>, "pid"), Op("waitsh")>>

\* sh.c: main ensures three descriptors, then reads commands
ShMain == <<Op("ensure"), Op("getcmd")>>

\* Faulty variants: the parent of a pipe keeps its write end; it waits once more than it forked.
PipeOf_Kept(l, r) ==
    <<Pipe2("p0", "p1"),
      Fork(<<Close("1"), Dup("p1"), Close("p0"), Close("p1")>> \o l, "pid"),
      Fork(<<Close("0"), Dup("p0"), Close("p0"), Close("p1")>> \o r, "pid"),
      Close("p0"), Op("wait"), Op("wait")>>

PipeOf_Thrice(l, r) ==
    <<Pipe2("p0", "p1"),
      Fork(<<Close("1"), Dup("p1"), Close("p0"), Close("p1")>> \o l, "pid"),
      Fork(<<Close("0"), Dup("p0"), Close("p0"), Close("p1")>> \o r, "pid"),
      Close("p0"), Close("p1"), Op("wait"), Op("wait"), Op("wait")>>

\* runcmd: a list waits for its left side before it becomes its right side
ListOf(l, r) == <<Fork(l, "pid"), Op("wait")>> \o r

\* runcmd: a pipe
PipeOf(l, r) ==
    <<Pipe2("p0", "p1"),
      Fork(<<Close("1"), Dup("p1"), Close("p0"), Close("p1")>> \o l, "pid"),
      Fork(<<Close("0"), Dup("p0"), Close("p0"), Close("p1")>> \o r, "pid"),
      Close("p0"), Close("p1"), Op("wait"), Op("wait")>>

RECURSIVE runcmd(_)
runcmd(c) ==
    CASE c.type = "error" -> Exit                                        \* panic in the parser
      [] c.type = "EXEC" -> IF c.argv = << >> THEN Exit ELSE <<Exec("program")>>
      [] c.type = "REDIR" -> <<Close(IF c.op = "O_RDONLY" THEN "0" ELSE "1"), Op("open")>> \o runcmd(c.cmd)
      [] c.type = "LIST" -> ListOf(runcmd(c.left), runcmd(c.right))
      [] c.type = "PIPE" -> PipeOf(runcmd(c.left), runcmd(c.right))
      [] c.type = "BACK" -> <<Fork(runcmd(c.cmd), "pid")>>

\* shell_ytdl_pipe_ffmpeg.c
ytdl ==
    <<Pipe2("p0", "p1"),
      Fork(<<Close("p0"), Dup2("p1", "1"), Close("p1"), Exec("program")>>, "pid"),
      Fork(<<Close("p1"), Dup2("p0", "0"), Close("p0"), Exec("program")>>, "pid"),
      Close("p0"), Close("p1"), Op("wait"), Op("wait")>>

\* merge_mystrings_split.c; split_files also inherits the read end of the first pipe
merge_mystrings_split ==
    <<Pipe2("p0", "p1"),
      Fork(<<Close("p0"), Dup2("p1", "1"), Close("p1"), Exec("program")>>, "pid"),
      Close("p1"),
      Pipe2("q0", "q1"),
      Fork(<<Close("q0"), Dup2("p0", "0"), Close("p0"), Dup2("q1", "1"), Close("q1"), Exec("program")>>, "pid"),
      Fork(<<Close("q1"), Dup2("q0", "0"), Close("q0"), Exec("program")>>, "pid"),
      Close("p0"), Close("q0"), Close("q1"), Op("wait"), Op("wait"), Op("wait")>>

\* shell_ls_redir.c
ls_redir == <<Fork(<<Close("1"), Op("open"), Exec("program")>>, "pid"), Op("wait")>>

\* openpdf.c
openpdf == <<Fork(<<Op("access"), Exec("program")>>, "pid"), Op("wait")>>

\* Tarea2/openimg.c with two images: every child is created before the first is awaited
openimg == <<Fork(<<Exec("program")>>, "p0"), Fork(<<Exec("program")>>, "p1"), Waitpid("p0"), Waitpid("p1")>>

\* forktest.c and forktest of usertests.c: fork until it fails, wait for as many, and once more in vain
forktest == <<Op("forks")>>

\* usertests.c; the rounds of exitwait start and end alike: two stand for the hundred
exitwait == LET round == <<Fork(Exit, "pid"), Expect("pid")>> IN round \o round

preempt == <<Fork(<<Op("spin")>>, "q0"), Fork(<<Op("spin")>>, "q1"), Pipe2("p0", "p1"),
             Fork(<<Close("p0"), Write("p1"), Close("p1"), Op("spin")>>, "pid"),
             Close("p1"), Read("p0"), Close("p0"),
             Kill("q0"), Kill("q1"), Kill("pid"), Op("wait"), Op("wait"), Op("wait")>>

pipe1 == <<Pipe2("p0", "p1"), Fork(<<Close("p0"), Write("p1"), Write("p1"), Write("p1")>>, "pid"),
           Close("p1"), ReadToEnd("p0", << >>), Close("p0"), Op("wait")>>

\* zombie.c
zombie == <<Fork(Exit, "pid"), Op("sleep")>>

Scenario == {"init", "ytdl", "merge_mystrings_split", "ls_redir", "openpdf", "openimg",
             "forktest", "exitwait", "preempt", "pipe1", "zombie"}
Main(s) == CASE s = "init" -> InitMain
             [] s = "ytdl" -> ytdl
             [] s = "merge_mystrings_split" -> merge_mystrings_split
             [] s = "ls_redir" -> ls_redir
             [] s = "openpdf" -> openpdf
             [] s = "openimg" -> openimg
             [] s = "forktest" -> forktest
             [] s = "exitwait" -> exitwait
             [] s = "preempt" -> preempt
             [] s = "pipe1" -> pipe1
             [] s = "zombie" -> zombie

\* What the programs started do: write, copy, or neither read nor write
Behaviour == {<<Write("1"), Write("1")>>, <<ReadToEnd("0", <<Write("1")>>)>>, Exit}

-----------------------------------------------------------------------------
Free == [state |-> "free"]
Reg == {"p0", "p1", "q0", "q1", "pid"}

PlInit ==
    /\ scenario \in Scenario
    /\ proc = [p \in Slot |-> IF p # 1 THEN Free
               ELSE [state |-> "run", parent |-> 0, image |-> scenario, code |-> Main(scenario),
                     fds |-> [f \in Fd |-> IF f <= 2 THEN Tty ELSE Closed], reg |-> [r \in Reg |-> 0]]]
    /\ units = [n \in PipeId |-> 0]
    /\ typedLines = 0

\* Process 1 adopts orphans when it is init; else a process outside the model does.
Adopter == IF scenario = "init" THEN 1 ELSE 0

Running(p) == proc[p].state = "run"
At(p, op) == Running(p) /\ proc[p].code # << >> /\ Head(proc[p].code).op = op
Call(p) == Head(proc[p].code)
Following(p) == Tail(proc[p].code)
Children(p) == {c \in Slot : proc[c].state # "free" /\ proc[c].parent = p}
Value(p, x) == CASE x = "0" -> 0 [] x = "1" -> 1 [] OTHER -> proc[p].reg[x]

Holds(p, e) == Running(p) /\ \E f \in Fd : proc[p].fds[f] = e
Held(e) == \E p \in Slot : Holds(p, e)
FreeFds(p) == {f \in Fd : proc[p].fds[f] = Closed}
FreePipes == {n \in PipeId : ~ Held(End(n, "r")) /\ ~ Held(End(n, "w"))}
LeastOf(S) == CHOOSE x \in S : \A y \in S : x <= y

Continue(p) == proc' = [proc EXCEPT ![p].code = Following(p)]
Abandon(p) == proc' = [proc EXCEPT ![p].code = Exit]
Keep == UNCHANGED <<scenario, units, typedLines>>

\* pipe: the two lowest descriptors; without room the caller exits
doPipe(p) ==
    /\ At(p, "pipe")
    /\ IF FreePipes = {} THEN Abandon(p) /\ UNCHANGED units
       ELSE LET n == LeastOf(FreePipes)
                r == LeastOf(FreeFds(p))
                w == LeastOf(FreeFds(p) \ {r})
            IN  /\ proc' = [proc EXCEPT ![p].code = Following(p),
                                        ![p].fds[r] = End(n, "r"), ![p].fds[w] = End(n, "w"),
                                        ![p].reg[Call(p).r] = r, ![p].reg[Call(p).w] = w]
                /\ units' = [units EXCEPT ![n] = 0]
    /\ UNCHANGED <<scenario, typedLines>>

\* fork: the child runs the body with a copy of the descriptors; without a slot the caller exits
doFork(p) ==
    LET slots == {c \in Slot : proc[c].state = "free"}
        c == LeastOf(slots)
    IN  /\ At(p, "fork")
        /\ IF slots = {} THEN Abandon(p)
           ELSE proc' = [proc EXCEPT ![p].code = Following(p), ![p].reg[Call(p).pid] = c,
                                     ![c] = [proc[p] EXCEPT !.parent = p, !.code = Call(p).body]]
        /\ Keep

\* forktest's loop: a child that exits, until fork fails; then the waits
doForks(p) ==
    LET slots == {c \in Slot : proc[c].state = "free"}
        n == Cardinality(Children(p))
    IN  /\ At(p, "forks")
        /\ proc' = IF slots # {} THEN [proc EXCEPT ![LeastOf(slots)] = [proc[p] EXCEPT !.parent = p, !.code = Exit]]
                   ELSE [proc EXCEPT ![p].code = [k \in 1 .. n |-> Op("wait")] \o <<Op("nowait")>>]
        /\ Keep

\* kill ends the process at its next trap; a process that spins ends no other way.
doKill(p) ==
    /\ \/ At(p, "kill") /\ proc' = [proc EXCEPT ![p].code = Following(p), ![Value(p, Call(p).pid)].code = Exit]
       \/ At(p, "sleep") /\ Continue(p)
    /\ Keep

\* close (of an open descriptor: CallsSucceed)
doClose(p) ==
    /\ At(p, "close")
    /\ LET f == Value(p, Call(p).fd)
       IN  IF proc[p].fds[f] = Closed THEN Abandon(p)
           ELSE proc' = [proc EXCEPT ![p].code = Following(p), ![p].fds[f] = Closed]
    /\ Keep

doDup(p) ==
    /\ \/ At(p, "dup") /\ proc' = [proc EXCEPT ![p].code = Following(p),
                                    ![p].fds[LeastOf(FreeFds(p))] = proc[p].fds[Value(p, Call(p).fd)]]
       \/ At(p, "dup2") /\ proc' = [proc EXCEPT ![p].code = Following(p),
                                    ![p].fds[Value(p, Call(p).to)] = proc[p].fds[Value(p, Call(p).fd)]]
    /\ Keep

\* open takes the lowest descriptor; it, and access, may fail, and then the caller exits.
doOpen(p) ==
    /\ \/ At(p, "open") /\ proc' = [proc EXCEPT ![p].code = Following(p), ![p].fds[LeastOf(FreeFds(p))] = OnDisk]
       \/ At(p, "access") /\ Continue(p)
       \/ (At(p, "open") \/ At(p, "access")) /\ Abandon(p)
    /\ Keep

\* exec replaces the program, or fails and the caller exits.
doExec(p) ==
    /\ At(p, "exec")
    /\ \/ \E b \in IF Call(p).image = "sh" THEN {ShMain} ELSE Behaviour :
             proc' = [proc EXCEPT ![p].code = b, ![p].image = Call(p).image]
       \/ Call(p).image # "sh" /\ Abandon(p)
    /\ Keep

\* sh.c: the descriptors 0, 1 and 2 are open before the first command.
doEnsure(p) ==
    /\ At(p, "ensure")
    /\ proc' = [proc EXCEPT ![p].code = Following(p),
                            ![p].fds = [f \in Fd |-> IF f <= 2 /\ @[f] = Closed THEN Tty ELSE @[f]]]
    /\ Keep

\* sh.c: the next command, run by a child that parses it first, or the end of input
doGetcmd(p) ==
    /\ At(p, "getcmd")
    /\ typedLines < MaxLines
    /\ typedLines' = typedLines + 1
    /\ \/ \E line \in Lines :
             proc' = [proc EXCEPT ![p].code = <<Fork(runcmd(parsecmd(line)), "pid"), Op("wait"), Op("getcmd")>>]
       \/ Abandon(p)
    /\ UNCHANGED <<scenario, units>>

\* wait and waitpid reap a child that has ended; without one to wait for, the caller exits.
Reap(p, c, code) == proc' = [proc EXCEPT ![p].code = code, ![c] = Free]
doWait(p) ==
    /\ \/ At(p, "wait") /\ \E c \in Children(p) : proc[c].state = "zombie" /\ Reap(p, c, Following(p))
       \/ At(p, "wait") /\ Children(p) = {} /\ Abandon(p)
       \/ At(p, "expect") /\ \E c \in Children(p) :
             proc[c].state = "zombie" /\ Reap(p, c, IF c = Value(p, Call(p).pid) THEN Following(p) ELSE Exit)
       \/ At(p, "nowait") /\ Children(p) = {} /\ Continue(p)
       \/ At(p, "waitpid") /\ LET c == Value(p, Call(p).pid)
                              IN  IF c \in Children(p) THEN proc[c].state = "zombie" /\ Reap(p, c, Following(p))
                                  ELSE Continue(p)
       \/ At(p, "waitsh") /\ \E c \in Children(p) :
             proc[c].state = "zombie" /\ Reap(p, c, IF c = Value(p, "pid") THEN InitMain ELSE proc[p].code)
    /\ Keep

\* Reading, once or until the end of file, and writing
doRead(p) ==
    LET in == proc[p].fds[Value(p, Call(p).fd)]
    IN  /\ At(p, "read")
        /\ IF in \in {Tty, OnDisk} THEN Continue(p) /\ UNCHANGED units
           ELSE \/ /\ units[in[1]] > 0
                   /\ units' = [units EXCEPT ![in[1]] = @ - 1]
                   /\ proc' = [proc EXCEPT ![p].code = Call(p).then \o IF Call(p).loop THEN @ ELSE Following(p)]
                \/ units[in[1]] = 0 /\ ~ Held(End(in[1], "w")) /\ Continue(p) /\ UNCHANGED units
        /\ UNCHANGED <<scenario, typedLines>>

doWrite(p) ==
    LET out == proc[p].fds[Value(p, Call(p).fd)]
    IN  /\ At(p, "write")
        /\ IF out \in {Tty, OnDisk} THEN Continue(p) /\ UNCHANGED units
           ELSE \/ ~ Held(End(out[1], "r")) /\ Abandon(p) /\ UNCHANGED units
                \/ /\ Held(End(out[1], "r")) /\ units[out[1]] < PIPESIZE
                   /\ units' = [units EXCEPT ![out[1]] = @ + 1]
                   /\ Continue(p)
        /\ UNCHANGED <<scenario, typedLines>>

\* exit: the children are adopted; a process whose parent is outside is reaped there.
doExit(p) ==
    /\ Running(p) /\ proc[p].code = << >>
    /\ proc' = [q \in Slot |->
                  IF q = p THEN IF proc[p].parent = 0 THEN Free ELSE [state |-> "zombie", parent |-> proc[p].parent]
                  ELSE IF q \in Children(p)
                       THEN IF Adopter = 0 /\ proc[q].state = "zombie" THEN Free ELSE [proc[q] EXCEPT !.parent = Adopter]
                       ELSE proc[q]]
    /\ Keep

Run(p) == doPipe(p) \/ doFork(p) \/ doClose(p) \/ doDup(p) \/ doOpen(p) \/ doExec(p) \/ doEnsure(p) \/ doWait(p)
           \/ doRead(p) \/ doWrite(p) \/ doForks(p) \/ doKill(p) \/ doExit(p)

PlNext == \E p \in Slot : Run(p) \/ doGetcmd(p)
PlSpec == PlInit /\ [][PlNext]_pvars /\ \A p \in Slot : WF_pvars(Run(p))

-----------------------------------------------------------------------------
Started(p) == Running(p) /\ proc[p].image = "program"

\* No program is started that holds the write end of the pipe it reads: it would never see its end.
NoSelfFeed == \A p \in Slot : \A n \in PipeId :
    Started(p) => ~ (proc[p].fds[0] = End(n, "r") /\ Holds(p, End(n, "w")))

\* The shell starts a program with its three descriptors only, and with no child of the shell's left
\* to end under it.
StartsClean == scenario = "init" =>
    \A p \in Slot : Started(p) => Children(p) = {} /\ \A f \in Fd : (proc[p].fds[f] # Closed) <=> (f <= 2)

\* No close, dup or wait of these programs ever fails: the descriptor is open, the child is there, and
\* what the tests call a failure never happens: the wrong child, one too many, a read or a write of a
\* pipe whose other side is gone.
CallsSucceed == \A p \in Slot :
    /\ At(p, "close") \/ At(p, "dup") \/ At(p, "dup2") => proc[p].fds[Value(p, Call(p).fd)] # Closed
    /\ At(p, "wait") => Children(p) # {}
    /\ At(p, "waitpid") => Value(p, Call(p).pid) \in Children(p)
    /\ At(p, "expect") => Children(p) = {Value(p, Call(p).pid)}
    /\ At(p, "nowait") => Children(p) = {}
    /\ At(p, "read") /\ ~ Call(p).loop => LET n == proc[p].fds[Value(p, Call(p).fd)][1] IN units[n] > 0 \/ Held(End(n, "w"))
    /\ At(p, "write") /\ scenario \in {"preempt", "pipe1"} => Held(End(proc[p].fds[Value(p, "p1")][1], "r"))

\* Programs are started with the descriptors and children they expect, and their calls succeed.
StartsRight == StartsClean /\ NoSelfFeed /\ CallsSucceed

\* Whatever is typed, and whatever fails, everything started ends and is reaped, background commands
\* included: the shell is back at its prompt with init alone, an exercise leaves nothing behind.
Quiet == \A p \in Slot : proc[p].state = "free" \/ (scenario = "init" /\ (p = 1 \/ At(p, "getcmd")))
Quiesces == <>[]Quiet
=============================================================================
