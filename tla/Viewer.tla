------------------------------- MODULE Viewer -------------------------------
(***************************************************************************)
(* openpdf.SIGCHLD.c: a viewer is started, and started again whenever it   *)
(* ends.  The main loop sleeps in pause(); the handler of SIGCHLD reaps    *)
(* the viewer and asks for another.  The handler interrupts the loop       *)
(* between any two of its steps, and the loop stands still while it runs.  *)
(***************************************************************************)
EXTENDS Naturals

VARIABLES estado,        \* "RECARGA" or "ESPERA"
          at,            \* where the loop is
          viewer,        \* "none", "running", or "zombie" until it is reaped
          sigchld,       \* the signal is pending
          late           \* history: a handler ran where the loop no longer saw its request

vwvars == <<estado, at, viewer, sigchld, late>>

VwInit == /\ estado = "RECARGA" /\ at = "loop"
          /\ viewer = "none" /\ sigchld = FALSE /\ late = FALSE

\* if (estado == RECARGA)
Restart == estado = "RECARGA"

loop == /\ at = "loop"
        /\ at' = IF Restart THEN "fork" ELSE "pause"
        /\ UNCHANGED <<estado, viewer, sigchld, late>>

\* fork, which may fail: the program exits.
vfork == /\ at = "fork"
         /\ \/ viewer' = "running" /\ at' = "forked"
            \/ viewer' = viewer /\ at' = "exited"
         /\ UNCHANGED <<estado, sigchld, late>>

espera == /\ at = "forked"
          /\ estado' = "ESPERA" /\ at' = "pause"
          /\ UNCHANGED <<viewer, sigchld, late>>

pause == /\ at = "pause"
         /\ at' = "paused"
         /\ UNCHANGED <<estado, viewer, sigchld, late>>

\* The viewer is closed, or execlp fails.
close == /\ viewer = "running"
         /\ viewer' = "zombie" /\ sigchld' = TRUE
         /\ UNCHANGED <<estado, at, late>>

\* What the handler leaves in estado
Request == "RECARGA"

\* The handler: wait, and a request; pause() returns when it does.  wait fails when there is no child.
manejador_sigchld ==
    /\ sigchld /\ at # "exited"
    /\ sigchld' = FALSE
    /\ viewer' = "none"
    /\ IF viewer = "none" THEN at' = "exited" /\ UNCHANGED <<estado, late>>
       ELSE /\ estado' = Request
            /\ at' = IF at = "paused" THEN "loop" ELSE at
            /\ late' = (late \/ at \in {"forked", "pause"})

VwNext == loop \/ vfork \/ espera \/ pause \/ close \/ manejador_sigchld

\* The processor is not taken from the program for ever, and a pending signal is delivered.
VwSpec == VwInit /\ [][VwNext]_vwvars /\ WF_vwvars(loop \/ vfork \/ espera \/ pause) /\ WF_vwvars(manejador_sigchld)

-----------------------------------------------------------------------------
\* The loop never sleeps without a viewer and without a signal that will wake it, except after a
\* viewer that ended before the loop slept: between fork and estado = ESPERA the request is
\* overwritten, and before pause() the loop has already looked.
SleepsWithViewer == at = "paused" => viewer # "none" \/ late
=============================================================================
