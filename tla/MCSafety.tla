------------------------------ MODULE MCSafety ------------------------------
(***************************************************************************)
(* The parts whose properties are safety properties and that share no      *)
(* variable, for TLC, in one run. part, chosen at the start, is the one    *)
(* that moves while the others keep their initial state; the properties of *)
(* all of them are checked in every state.                                 *)
(***************************************************************************)
EXTENDS Pipe, Spinlock, Console, Clock, Keyboard, Memory, FileData, KernelLib, Heap, Mkfs, Grep, MyStrings

VARIABLE part

partsVars == <<part, pipevars, svars, cvars, tvars, kvars, mvars, fvars, input, hvars, mk, gvars, ms>>

PartsInit == /\ part \in {"pipe", "spinlock", "console", "clock", "kbd", "memory", "data", "lib", "malloc", "mkfs", "grep", "strings"}
             /\ PipeInit /\ SInit /\ CInit /\ TInit
             /\ KInit /\ MInit /\ FInit /\ LInit
             /\ HInit /\ ImageInit /\ GInit /\ MsInit

Pipes     == /\ part = "pipe" /\ PipeNext
             /\ UNCHANGED <<part, svars, cvars, tvars, kvars, mvars, fvars, input, hvars, mk, gvars, ms>>
Spinlocks == /\ part = "spinlock" /\ SNext
             /\ UNCHANGED <<part, pipevars, cvars, tvars, kvars, mvars, fvars, input, hvars, mk, gvars, ms>>
Consoles  == /\ part = "console" /\ CNext
             /\ UNCHANGED <<part, pipevars, svars, tvars, kvars, mvars, fvars, input, hvars, mk, gvars, ms>>
Clocks    == /\ part = "clock" /\ TNext
             /\ UNCHANGED <<part, pipevars, svars, cvars, kvars, mvars, fvars, input, hvars, mk, gvars, ms>>
Keyboards == /\ part = "kbd" /\ KNext
             /\ UNCHANGED <<part, pipevars, svars, cvars, tvars, mvars, fvars, input, hvars, mk, gvars, ms>>
Memories  == /\ part = "memory" /\ MNext
             /\ UNCHANGED <<part, pipevars, svars, cvars, tvars, kvars, fvars, input, hvars, mk, gvars, ms>>
FilesData == /\ part = "data" /\ FNext
             /\ UNCHANGED <<part, pipevars, svars, cvars, tvars, kvars, mvars, input, hvars, mk, gvars, ms>>
Library   == /\ part = "lib" /\ LNext
             /\ UNCHANGED <<part, pipevars, svars, cvars, tvars, kvars, mvars, fvars, hvars, mk, gvars, ms>>
Heaps     == /\ part = "malloc" /\ HNext
             /\ UNCHANGED <<part, pipevars, svars, cvars, tvars, kvars, mvars, fvars, input, mk, gvars, ms>>
Images    == /\ part = "mkfs" /\ ImageNext
             /\ UNCHANGED <<part, pipevars, svars, cvars, tvars, kvars, mvars, fvars, input, hvars, gvars, ms>>
Greps     == /\ part = "grep" /\ GNext
             /\ UNCHANGED <<part, pipevars, svars, cvars, tvars, kvars, mvars, fvars, input, hvars, mk, ms>>
StringsOf == /\ part = "strings" /\ MsNext
             /\ UNCHANGED <<part, pipevars, svars, cvars, tvars, kvars, mvars, fvars, input, hvars, mk, gvars>>

PartsNext == \/ Pipes \/ Spinlocks \/ Consoles \/ Clocks
             \/ Keyboards \/ Memories \/ FilesData \/ Library
             \/ Heaps \/ Images \/ Greps \/ StringsOf

SafetySpec == PartsInit /\ [][PartsNext]_partsVars

\* The sequential code computes what its reference definitions say: the library of the kernel, the
\* keyboard driver, grep and mystrings.
SequentialRight == LibraryRight /\ KeysRight /\ GrepRight /\ StringsFound
=============================================================================
