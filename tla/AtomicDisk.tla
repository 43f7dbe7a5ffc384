----------------------------- MODULE AtomicDisk -----------------------------
(***************************************************************************)
(* What the logging layer promises to the file system (xv6/log.c, header   *)
(* comment): FS system calls run concurrently and change blocks, a commit  *)
(* makes the effects of all the finished ones durable at once and only     *)
(* happens when no system call is active, and after a crash the disk is    *)
(* the one of the last commit.                                             *)
(***************************************************************************)
CONSTANTS Proc, Block, Value

VARIABLES mem,      \* the contents that reads return
          durable,  \* the contents a reboot would find
          active    \* the processes inside an FS system call

vars == <<mem, durable, active>>

TypeOK == /\ mem \in [Block -> Value]
          /\ durable \in [Block -> Value]
          /\ active \subseteq Proc

Init == /\ mem \in [Block -> Value]
        /\ durable = mem
        /\ active = {}

Begin(p) == /\ p \notin active
            /\ active' = active \cup {p}
            /\ UNCHANGED <<mem, durable>>

Write(p, b, v) == /\ p \in active
                  /\ mem' = [mem EXCEPT ![b] = v]
                  /\ UNCHANGED <<durable, active>>

End(p) == /\ p \in active
          /\ active' = active \ {p}
          /\ UNCHANGED <<mem, durable>>

Commit == /\ active = {}
          /\ durable' = mem
          /\ UNCHANGED <<mem, active>>

Crash == /\ mem' = durable
         /\ active' = {}
         /\ UNCHANGED durable

Next == \/ \E p \in Proc : Begin(p) \/ End(p)
        \/ \E p \in Proc, b \in Block, v \in Value : Write(p, b, v)
        \/ Commit
        \/ Crash

Spec == Init /\ [][Next]_vars
=============================================================================
