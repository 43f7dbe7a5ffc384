----------------------------- MODULE MCProgress -----------------------------
(***************************************************************************)
(* The parts with liveness properties, for TLC, in one run. part, chosen   *)
(* at the start, is the one that moves while the others keep their initial *)
(* state; the fairness is that of each part's own specification, for the   *)
(* part that moves.                                                        *)
(***************************************************************************)
EXTENDS Sleeplock, BufferCache, Plumbing, MergeSplit, Viewer

\* What is typed at the shell: a pipe, a list, a command in the background, a redirected block that
\* is a list, two pipes, and two lines with syntax errors.
TypedLines == LET A == "a"
              IN  {<<A, "|", A>>, <<A, ";", A>>, <<A, "&">>, <<"(", A, "&", ";", A, "|", A, ")", ">", A>>,
                   <<A, "|", A, "|", A>>, <<A, "<", A, "|">>, <<A, A, "<">>}

VARIABLE part

partsVars == <<part, vars, bvars, tokens, pvars, xvars, vwvars>>

PartsInit == /\ part \in {"sleeplock", "bio", "parse", "start", "merge", "viewer"}
             /\ Init /\ BInit /\ PInit /\ PlInit /\ (part # "start" => scenario = "init")
             /\ XInit /\ VwInit

Sleeplocks == /\ part = "sleeplock" /\ Next
              /\ UNCHANGED <<part, bvars, tokens, pvars, xvars, vwvars>>
Buffering  == /\ part = "bio" /\ BNext
              /\ UNCHANGED <<part, vars, tokens, pvars, xvars, vwvars>>
Parsing    == /\ part = "parse" /\ PNext
              /\ UNCHANGED <<part, vars, bvars, pvars, xvars, vwvars>>
Commands   == /\ part = "start" /\ PlNext
              /\ UNCHANGED <<part, vars, bvars, tokens, xvars, vwvars>>
Merges     == /\ part = "merge" /\ XNext
              /\ UNCHANGED <<part, vars, bvars, tokens, pvars, vwvars>>
Viewers    == /\ part = "viewer" /\ VwNext
              /\ UNCHANGED <<part, vars, bvars, tokens, pvars, xvars>>

PartsNext == \/ Sleeplocks \/ Buffering \/ Parsing \/ Commands
             \/ Merges \/ Viewers

ProgressSpec == /\ PartsInit /\ [][PartsNext]_partsVars
                /\ \A p \in Proc : SF_vars(part = "sleeplock" /\ Step(p))
                /\ WF_bvars(part = "bio" /\ ideintr)
                /\ \A p \in BProc : WF_bvars(part = "bio" /\ (bread(p) \/ iderw(p)))
                /\ \A p \in Slot : WF_pvars(part = "start" /\ Run(p))
                /\ WF_xvars(part = "merge" /\ XNext)
                /\ WF_vwvars(part = "viewer" /\ (loop \/ vfork \/ espera \/ pause))
                /\ WF_vwvars(part = "viewer" /\ manejador_sigchld)

\* openpdf.SIGCHLD.c: as long as no viewer ended in the window of SleepsWithViewer, there is a viewer
\* again and again, unless fork failed.
ViewerRestarts == []<>(part = "viewer" => viewer = "running" \/ late \/ at = "exited")

\* merge_files and split_files of Tarea4 end on every input: BothEnd, when they are what runs.
MergeAndSplitEnd == <>[](part = "merge" => Finished)

\* The exercises at every step: merging and splitting lose, repeat and misplace no byte, and the loop
\* of openpdf does not sleep without a viewer.
ExercisesRight == MergeRight /\ SplitRight /\ SleepsWithViewer

\* The programs get on: the process trees of shell, init, tests and pipelines come to rest, merge_files
\* and split_files end, and the viewer is there again and again.
ProgramsProgress == Quiesces /\ MergeAndSplitEnd /\ ViewerRestarts
=============================================================================
