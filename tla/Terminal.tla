------------------------------ MODULE Terminal ------------------------------
(***************************************************************************)
(* What the console promises a program that reads from it: typed           *)
(* characters can be edited until a line is complete; complete input is    *)
(* read once, in order; an end of file is read as nothing.                 *)
(***************************************************************************)
EXTENDS Naturals, Sequences

CONSTANTS TReader, TChar,
          TNewline, TEof,    \* the two characters that complete a line
          TSize              \* characters that the console keeps

VARIABLES complete,   \* input that may be read
          edit,       \* the line being typed
          got         \* what the current read of each reader has

tvars == <<complete, edit, got>>

TInit == complete = << >> /\ edit = << >> /\ got = [p \in TReader |-> << >>]

\* A character is added if there is room; it may complete the line.
TType(c) ==
    /\ Len(complete) + Len(edit) < TSize
    /\ IF c \in {TNewline, TEof} \/ Len(complete) + Len(edit) + 1 = TSize
       THEN complete' = complete \o Append(edit, c) /\ edit' = << >>
       ELSE edit' = Append(edit, c) /\ UNCHANGED complete
    /\ UNCHANGED got

TErase == edit # << >> /\ edit' = SubSeq(edit, 1, Len(edit) - 1) /\ UNCHANGED <<complete, got>>

TKill == edit' = << >> /\ UNCHANGED <<complete, got>>

TStart(p) == got' = [got EXCEPT ![p] = << >>] /\ UNCHANGED <<complete, edit>>

\* A read takes a character.
TTake(p) ==
    /\ complete # << >> /\ Head(complete) # TEof
    /\ got' = [got EXCEPT ![p] = Append(@, Head(complete))]
    /\ complete' = Tail(complete)
    /\ UNCHANGED edit

\* A read that has nothing yet takes the end of file.
TTakeEof(p) ==
    /\ complete # << >> /\ Head(complete) = TEof /\ got[p] = << >>
    /\ complete' = Tail(complete)
    /\ UNCHANGED <<edit, got>>

TNext == \/ \E c \in TChar : TType(c)
         \/ TErase \/ TKill
         \/ \E p \in TReader : TStart(p) \/ TTake(p) \/ TTakeEof(p)

TSpec == TInit /\ [][TNext]_tvars
=============================================================================
