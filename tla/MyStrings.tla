----------------------------- MODULE MyStrings ------------------------------
(***************************************************************************)
(* mystrings.c: the strings of at least min_length printable characters in *)
(* a stream, read buffer by buffer; a read from a pipe may return less     *)
(* than a buffer.  The streams have no string longer than the buffer: the  *)
(* string being gathered is kept in a buffer of the same size.             *)
(***************************************************************************)
EXTENDS Naturals, Sequences, FiniteSets, SequencesExt, FiniteSetsExt

CONSTANTS StreamLen,     \* longest stream
          buf_size

VARIABLE ms

\* Bytes: two that are printable and one that is not
isprint(c) == c # "."

Streams == {t \in UNION {[1 .. n -> {"a", "b", "."}] : n \in 0 .. StreamLen} :
              \A k \in 1 .. Len(t) - buf_size : \E j \in k .. k + buf_size : ~ isprint(t[j])}

\* Before the arguments are checked
MsInit == ms = [at |-> "args"]

\* comprobarSizeCadena, comprobarSizeBuff: 1 <= min_length <= buf_size
args == /\ ms.at = "args"
        /\ \E t \in Streams, n \in 1 .. buf_size :
              ms' = [at |-> "read", text |-> t, rest |-> t, min_length |-> n,
                     bufEscritura |-> << >>, contador |-> 0, out |-> << >>, cut |-> FALSE]

Long(m) == m.contador >= m.min_length

gather(m, c) == [m EXCEPT !.bufEscritura = Append(@, c), !.contador = @ + 1]
write(m) == [m EXCEPT !.out = @ \o m.bufEscritura]

\* One byte of the buffer; puntero is the length of bufEscritura
byte(m, c) ==
    IF isprint(c) THEN gather(m, c)
    ELSE [IF m.contador >= Len(m.bufEscritura) /\ Long(m) THEN write(m) ELSE m EXCEPT !.bufEscritura = << >>, !.contador = 0]

\* The end of the stream ends a string.
AtEnd(m) == IF m.bufEscritura # << >> /\ Long(m) THEN write(m) ELSE m

\* A short read behind a long string is taken for the last one: what is printable in it is added.
TakenForLast(m, num_read) == num_read <= m.min_length /\ m.contador > m.min_length /\ num_read # 0
joined(m, got) == write(FoldLeft(gather, m, SelectSeq(got, isprint)))

\* One round of the loop
round ==
    /\ ms.at = "read"
    /\ \E num_read \in IF ms.rest = << >> THEN {0} ELSE 1 .. Min({buf_size, Len(ms.rest)}) :
          LET got == SubSeq(ms.rest, 1, num_read)
              m == [ms EXCEPT !.rest = SubSeq(@, num_read + 1, Len(@))]
          IN  ms' = IF TakenForLast(m, num_read) THEN [joined(m, got) EXCEPT !.at = "end", !.cut = TRUE]
                    ELSE IF num_read = 0 THEN [AtEnd(m) EXCEPT !.at = "end"]
                    ELSE FoldLeft(byte, m, got)

MsNext == args \/ round
MsSpec == MsInit /\ [][MsNext]_ms

-----------------------------------------------------------------------------
\* Position k of t is in a string of at least n printable characters.
InString(t, n, k) == \E i \in 1 .. k, j \in k .. Len(t) : j - i + 1 >= n /\ \A x \in i .. j : isprint(t[x])
StringsIn(t, n) == LET in == {k \in 1 .. Len(t) : InString(t, n, k)}
                   IN  [x \in 1 .. Cardinality(in) |-> t[CHOOSE k \in in : Cardinality({y \in in : y <= k}) = x]]

\* However the stream is cut into reads, what is written is every string of min_length characters and
\* nothing else, strings across a read and at the end included, unless a short read was taken for the last.
StringsFound == ms.at = "end" => ms.cut \/ ms.out = StringsIn(ms.text, ms.min_length)
=============================================================================
