---------------------------- MODULE MCFileSystem ----------------------------
\* FileSystem for TLC.
EXTENDS FileSystem, TLC

Symmetry == Permutations(Proc) \cup Permutations(Name)

\* Bounds: mknod, which differs from mkdir only in what it makes, is the last of the calls and alone,
MknodLast == \A p \in Proc : type[p] = "dev" => calls = MaxCalls /\ \A q \in Proc \ {p} : todo[q] = << >>

\* and a process exits while there are calls to come, fork's among them.
ExitEarly == \A p \in Proc : cwd[p] = 0 => calls < MaxCalls
=============================================================================
