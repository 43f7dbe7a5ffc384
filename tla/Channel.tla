------------------------------ MODULE Channel ------------------------------
(***************************************************************************)
(* What a pipe promises: a bounded first-in first-out queue of bytes.      *)
(* Bytes are put while the write end is open, got while the read end is,   *)
(* and an end that is closed stays closed.                                 *)
(***************************************************************************)
EXTENDS Integers, Sequences
CONSTANTS Byte, Capacity
VARIABLES queue, readopen, writeopen

ChannelInit == queue = << >> /\ readopen = TRUE /\ writeopen = TRUE

Put(b) == /\ writeopen /\ Len(queue) < Capacity
          /\ queue' = Append(queue, b) /\ UNCHANGED <<readopen, writeopen>>

Get == /\ readopen /\ queue # << >>
       /\ queue' = Tail(queue) /\ UNCHANGED <<readopen, writeopen>>

CloseWrite == writeopen /\ writeopen' = FALSE /\ UNCHANGED <<queue, readopen>>
CloseRead  == readopen /\ readopen' = FALSE /\ UNCHANGED <<queue, writeopen>>

ChannelNext == (\E b \in Byte : Put(b)) \/ Get \/ CloseWrite \/ CloseRead

ChannelSpec == ChannelInit /\ [][ChannelNext]_<<queue, readopen, writeopen>>
=============================================================================
