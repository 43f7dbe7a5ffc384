-------------------------------- MODULE Grep --------------------------------
(***************************************************************************)
(* grep (xv6/grep.c): the matcher of regular expressions, and the loop     *)
(* that finds the lines of a file in a buffer that is smaller than it.     *)
(***************************************************************************)
EXTENDS Integers, Sequences, SequencesExt

CONSTANTS GBUF,          \* sizeof(buf)
          MaxText,       \* longest file
          MaxPattern     \* longest pattern

Symbol == {"a", "b"}     \* characters of a text; "n" ends a line
Meta == {"a", ".", "*", "^", "$"}

VARIABLES pattern,
          text,          \* the file
          gr             \* the loop of grep: its offset in the file, buf, what it printed
gvars == <<pattern, text, gr>>

CharAt(s, k) == IF k <= Len(s) THEN s[k] ELSE "0"
From(s, k) == SubSeq(s, k, Len(s))

RECURSIVE matchhere(_, _), matchstar(_, _, _), matchany(_, _)

\* Zero or more instances of c
Instances(c, re, t) == matchhere(re, t) \/ (t # << >> /\ (t[1] = c \/ c = ".") /\ matchstar(c, re, Tail(t)))

matchstar(c, re, t) == Instances(c, re, t)

matchhere(re, t) ==
    IF re = << >> THEN TRUE
    ELSE IF CharAt(re, 2) = "*" THEN matchstar(re[1], From(re, 3), t)
    ELSE IF re = <<"$">> THEN t = << >>
    ELSE t # << >> /\ (re[1] = "." \/ re[1] = t[1]) /\ matchhere(Tail(re), Tail(t))

\* The loop of match looks at the empty string too.
matchany(re, t) == matchhere(re, t) \/ (t # << >> /\ matchany(re, Tail(t)))
match(re, t) == IF CharAt(re, 1) = "^" THEN matchhere(Tail(re), t) ELSE matchany(re, t)

Reading == [off |-> 0, buf |-> << >>, out |-> << >>, at |-> "edit"]
GInit == pattern = << >> /\ text = << >> /\ gr = Reading

\* Any pattern and any file
edit ==
    /\ gr.at = "edit"
    /\ \/ Len(pattern) < MaxPattern /\ (\E c \in Meta : pattern' = Append(pattern, c)) /\ UNCHANGED <<text, gr>>
       \/ Len(text) < MaxText /\ (\E c \in Symbol \cup {"n"} : text' = Append(text, c)) /\ UNCHANGED <<pattern, gr>>
       \/ gr' = [gr EXCEPT !.at = "read"] /\ UNCHANGED <<pattern, text>>

\* The lines in a buffer, and what is behind the last newline
RECURSIVE Lines0(_)
Newlines(s) == {k \in DOMAIN s : s[k] = "n"}
FirstNl(s) == CHOOSE k \in Newlines(s) : \A j \in Newlines(s) : k <= j
LastNl(s) == CHOOSE k \in Newlines(s) : \A j \in Newlines(s) : k >= j
Lines0(s) == IF Newlines(s) = {} THEN << >>
             ELSE <<SubSeq(s, 1, FirstNl(s) - 1)>> \o Lines0(From(s, FirstNl(s) + 1))

\* Faulty variant: the part of a line at the end is dropped.
Kept_None(buf) == << >>

\* memmove: the part of a line at the end stays; a buffer without a newline is dropped (m = 0).
Kept(buf) == IF Newlines(buf) = {} THEN << >> ELSE From(buf, LastNl(buf) + 1)

\* A turn of the loop: read fills the buffer, as it does from a file.
grep ==
    LET room == GBUF - Len(gr.buf) - 1
        left == Len(text) - gr.off
        n == IF room < left THEN room ELSE left
        buf == gr.buf \o SubSeq(text, gr.off + 1, gr.off + n)
    IN  /\ gr.at = "read"
        /\ gr' = IF n = 0 THEN [gr EXCEPT !.at = "done"]
                 ELSE [gr EXCEPT !.off = @ + n, !.buf = Kept(buf),
                                 !.out = @ \o SelectSeq(Lines0(buf), LAMBDA l : match(pattern, l))]
        /\ UNCHANGED <<pattern, text>>

GNext == edit \/ grep
GSpec == GInit /\ [][GNext]_gvars

-----------------------------------------------------------------------------
\* The same language by sets of positions: S holds the places of t a prefix of the pattern may end at.
RECURSIVE Closure(_, _, _), EndsAt(_, _, _)
Ok(c, t, k) == k < Len(t) /\ (c = "." \/ t[k + 1] = c)
Closure(c, t, S) == LET T == S \cup {k + 1 : k \in {j \in S : Ok(c, t, j)}} IN IF T = S THEN S ELSE Closure(c, t, T)
EndsAt(re, t, S) ==
    IF re = << >> THEN S
    ELSE IF Len(re) > 1 /\ re[2] = "*" THEN EndsAt(From(re, 3), t, Closure(re[1], t, S))
    ELSE IF re = <<"$">> THEN S \cap {Len(t)}
    ELSE EndsAt(Tail(re), t, {k + 1 : k \in {j \in S : Ok(re[1], t, j)}})
Language(re, t) == IF re # << >> /\ re[1] = "^" THEN EndsAt(Tail(re), t, {0}) # {} ELSE EndsAt(re, t, 0 .. Len(t)) # {}

\* The matcher finds exactly the texts of its pattern's language, backtracking included.
MatchesLanguage == Newlines(text) = {} => (match(pattern, text) <=> Language(pattern, text))

\* Every line of a file that matches is printed once, whole and in order, wherever the buffer cuts
\* it, if no line is longer than the buffer.
PrintsLines == gr.at = "done" /\ (\A k \in DOMAIN Lines0(text) : Len(Lines0(text)[k]) + 1 < GBUF) =>
    gr.out = SelectSeq(Lines0(text), LAMBDA l : match(pattern, l))

\* grep prints the lines whose text is in the pattern's language.
GrepRight == MatchesLanguage /\ PrintsLines
=============================================================================
