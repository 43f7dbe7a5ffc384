----------------------------- MODULE MergeSplit -----------------------------
(***************************************************************************)
(* merge_files.c, which deals the bytes of its inputs out in turn, and     *)
(* split_files.c, which deals its input out to its outputs, joined by a    *)
(* pipe (syscalls/Semana4/src/Tarea4).  A byte is named by its file and    *)
(* place.  Inputs are regular files: a short read is their end.            *)
(***************************************************************************)
EXTENDS Integers, Sequences, FiniteSets, SequencesExt

CONSTANTS NFILES,        \* numFicheros of both programs
          MaxBytes,      \* longest input
          MBUF, SBUF     \* buf_size of merge_files and of split_files

File == 0 .. NFILES - 1

VARIABLES len,           \* bytes of each input
          mg,            \* merge_files
          sp             \* split_files
xvars == <<len, mg, sp>>

NoByte == <<NFILES, 0>>

MergeStart(flags) ==
    [at |-> "loop", off |-> [f \in File |-> 0], cjto |-> [f \in File |-> << >>], por |-> [f \in File |-> 0],
     term |-> flags, stale |-> flags, contador |-> 0, sal |-> [k \in 1 .. MBUF |-> NoByte], pw |-> 0, esc |-> 0, v |-> 0, f |-> 0, out |-> << >>]

SplitStart ==
    [at |-> "loop", off |-> 0, cjto |-> [f \in File |-> << >>], ref |-> 0, out |-> [f \in File |-> << >>]]

XInit == len = [f \in File |-> 0] /\ mg = [at |-> "start"] /\ sp = SplitStart

\* The inputs are there; ficherosTerminados is not initialised, so a flag may start as 1 or not.
start ==
    /\ mg.at = "start"
    /\ len' \in [File -> 0 .. MaxBytes]
    /\ \E flags \in [File -> {0, 1}] : mg' = MergeStart(flags)
    /\ UNCHANGED sp

\* read of each input: porEscribir is what it returned
ReadAll(m) ==
    LET n(f) == IF len[f] - m.off[f] < MBUF THEN len[f] - m.off[f] ELSE MBUF
    IN  [m EXCEPT !.cjto = [f \in File |-> [k \in 1 .. n(f) |-> <<f, m.off[f] + k>>]],
                  !.por = [f \in File |-> n(f)], !.off = [f \in File |-> @[f] + n(f)], !.contador = 0]

WriteOut(m, n) == [m EXCEPT !.out = @ \o SubSeq(m.sal, 1, n)]
Flush(m) == IF m.pw = MBUF THEN [WriteOut(m, m.esc) EXCEPT !.pw = 0] ELSE m
Put(m, f, v) == [m EXCEPT !.sal[m.pw + 1] = m.cjto[f][v + 1], !.pw = @ + 1]
Finish(m, f) == [m EXCEPT !.por[f] = -1, !.term[f] = 1, !.contador = @ + 1]

\* Faulty variant: the last write passes the whole buffer.
Rest_Full(m) == MBUF

\* What the last write passes: a_Escribir
Rest(m) == m.esc

\* The outer loop: read every input
merge_read ==
    /\ mg.at = "loop"
    /\ mg' = [ReadAll(mg) EXCEPT !.at = "deal", !.v = 0, !.f = 0]
    /\ UNCHANGED <<len, sp>>

\* A turn of the two inner loops, for byte v of file f; i-- makes the loop come to an ended file again.
merge_deal ==
    /\ mg.at = "deal" /\ mg.v < MBUF
    /\ LET f == mg.f
           v == mg.v
           g == Flush([mg EXCEPT !.esc = mg.pw])
           next == IF f + 1 < NFILES THEN [g EXCEPT !.f = f + 1] ELSE [g EXCEPT !.f = 0, !.v = v + 1]
       IN  mg' = IF g.term[f] = 1 THEN next
                 ELSE IF g.por[f] # MBUF /\ g.por[f] = v THEN Finish(g, f)
                 ELSE Put(next, f, v)
    /\ UNCHANGED <<len, sp>>

\* When every file has ended the rest is written.
merge_end ==
    /\ mg.at = "deal" /\ mg.v = MBUF
    /\ mg' = IF \A f \in File : mg.term[f] = 1 THEN [WriteOut(mg, Rest(mg)) EXCEPT !.at = "done"]
             ELSE IF mg.contador = NFILES THEN [mg EXCEPT !.at = "done"]
             ELSE [mg EXCEPT !.at = "loop"]
    /\ UNCHANGED <<len, sp>>

\* The buffer of an output is full.
IsFull(b) == Len(b) = SBUF

\* A byte of the input goes to the next output; write passes a full buffer on first,
\* always with buf_size bytes.
Deal(s, byte) ==
    LET f == IF s.ref = NFILES THEN 0 ELSE s.ref
        full == IsFull(s.cjto[f])
    IN  [s EXCEPT !.out[f] = IF full THEN @ \o s.cjto[f] \o [k \in 1 .. SBUF - Len(s.cjto[f]) |-> NoByte] ELSE @,
                  !.cjto[f] = IF full THEN <<byte>> ELSE Append(@, byte),
                  !.ref = f + 1]

\* finEntrada
Ends(n) == n = 0

\* A turn of split_files: a read from the pipe may be short; 0 is the end, and all is written.
split(n) ==
    /\ mg.at # "start" /\ sp.at = "loop"
    /\ n <= Len(mg.out) - sp.off
    /\ n = 0 => mg.at = "done" /\ sp.off = Len(mg.out)
    /\ LET s == FoldLeft(Deal, sp, SubSeq(mg.out, sp.off + 1, sp.off + n))
       IN  sp' = IF ~ Ends(n) THEN [s EXCEPT !.off = @ + n]
                 ELSE [s EXCEPT !.at = "done", !.out = [f \in File |-> @[f] \o s.cjto[f]]]
    /\ UNCHANGED <<len, mg>>

XNext == start \/ merge_read \/ merge_deal \/ merge_end \/ \E n \in 0 .. SBUF : split(n)
XSpec == XInit /\ [][XNext]_xvars /\ WF_xvars(XNext)

-----------------------------------------------------------------------------
\* The bytes of a set of inputs in turn: by place, then by file
Dealt(S) ==
    LET turns == [n \in 1 .. MaxBytes * NFILES |-> <<(n - 1) % NFILES, (n - 1) \div NFILES + 1>>]
    IN  SelectSeq(turns, LAMBDA b : b[1] \in S /\ b[2] <= len[b[1]])

\* merge_files writes every byte of its inputs once, in turn, whatever their lengths and the buffer;
\* an input whose flag happens to start as 1 is left out as a whole.
MergeRight == mg.at = "done" => mg.out = Dealt({f \in File : mg.stale[f] = 0})

\* split_files gives output i the bytes at places i, i + n, i + 2n, ... of what it read, through
\* short reads and full buffers.
SplitRight == sp.at = "done" => \A f \in File :
    sp.out[f] = [k \in 1 .. Cardinality({j \in DOMAIN mg.out : (j - 1) % NFILES = f}) |-> mg.out[(k - 1) * NFILES + f + 1]]

\* Both programs end, for every input.
Finished == mg.at = "done" /\ sp.at = "done"
BothEnd == <>[]Finished
=============================================================================
