----------------------------- MODULE ShellParse -----------------------------
(***************************************************************************)
(* The parser of the shell (xv6/sh.c): a line, as the tokens gettoken      *)
(* finds in it, becomes a command tree or a syntax error.  A word is named *)
(* by its position.                                                        *)
(***************************************************************************)
EXTENDS Integers, Sequences, FiniteSets, SequencesExt

CONSTANTS MAXARGS,       \* size of argv, with the 0 at its end
          MaxTokens      \* length of a line

\* 'a' is a word, '+' is >>
Token == {"a", "<", ">", "+", "|", "&", ";", "(", ")"}

VARIABLE tokens          \* the line

Error == [type |-> "error"]

\* The constructors
execcmd == [type |-> "EXEC", argv |-> << >>]
redircmd(c, file, op) == [type |-> "REDIR", cmd |-> c, file |-> file, op |-> op]
pipecmd(l, r) == [type |-> "PIPE", left |-> l, right |-> r]
listcmd(l, r) == [type |-> "LIST", left |-> l, right |-> r]
backcmd(c) == [type |-> "BACK", cmd |-> c]

\* gettoken: the token at a position, 0 at the end
gettoken(ts, k) == IF k <= Len(ts) THEN ts[k] ELSE "0"
peek(ts, k, set) == gettoken(ts, k) \in set

\* A parser returns the command and the position behind it; panic exits.
Result(c, k) == [cmd |-> c, at |-> k]
Failed == Result(Error, 0)
IsError(x) == x.cmd.type = "error"

RECURSIVE parseline(_, _), parsepipe(_, _), parseredirs(_, _, _), parseargs(_, _, _)

\* What a redirection's operator opens
mode(tok) == IF tok = "<" THEN "O_RDONLY" ELSE "O_WRONLY|O_CREATE"

parseredirs(c, ts, k) ==
    IF ~ peek(ts, k, {"<", ">", "+"}) THEN Result(c, k)
    ELSE IF gettoken(ts, k + 1) # "a" THEN Failed          \* missing file for redirection
    ELSE parseredirs(redircmd(c, k + 1, mode(ts[k])), ts, k + 2)

\* A word is added to the EXEC below the redirections so far.
RECURSIVE AddArg(_, _)
AddArg(c, k) == IF c.type = "EXEC" THEN [c EXCEPT !.argv = Append(@, k)] ELSE [c EXCEPT !.cmd = AddArg(@, k)]

RECURSIVE Argc(_)
Argc(c) == IF c.type = "EXEC" THEN Len(c.argv) ELSE Argc(c.cmd)

\* The loop of parseexec
parseargs(c, ts, k) ==
    IF peek(ts, k, {"|", ")", "&", ";", "0"}) THEN Result(c, k)
    ELSE IF ts[k] # "a" \/ Argc(c) + 1 >= MAXARGS THEN Failed       \* syntax, too many args
    ELSE LET r == parseredirs(AddArg(c, k), ts, k + 1) IN IF IsError(r) THEN r ELSE parseargs(r.cmd, ts, r.at)

parseblock(ts, k) ==
    LET r == parseline(ts, k + 1)
    IN  IF IsError(r) \/ ~ peek(ts, r.at, {")"}) THEN Failed ELSE parseredirs(r.cmd, ts, r.at + 1)

parseexec(ts, k) ==
    IF peek(ts, k, {"("}) THEN parseblock(ts, k)
    ELSE LET r == parseredirs(execcmd, ts, k) IN IF IsError(r) THEN r ELSE parseargs(r.cmd, ts, r.at)

parsepipe(ts, k) ==
    LET l == parseexec(ts, k)
        r == parsepipe(ts, l.at + 1)
    IN  IF IsError(l) \/ ~ peek(ts, l.at, {"|"}) THEN l
        ELSE IF IsError(r) THEN r ELSE Result(pipecmd(l.cmd, r.cmd), r.at)

RECURSIVE background(_, _)
background(x, ts) == IF peek(ts, x.at, {"&"}) THEN background(Result(backcmd(x.cmd), x.at + 1), ts) ELSE x

\* Faulty variant: one & only.
background_Once(x, ts) == IF peek(ts, x.at, {"&"}) THEN Result(backcmd(x.cmd), x.at + 1) ELSE x

\* The loop over & in parseline
backs(x, ts) == background(x, ts)

parseline(ts, k) ==
    LET p == parsepipe(ts, k)
        l == backs(p, ts)
        r == parseline(ts, l.at + 1)
    IN  IF IsError(p) THEN p
        ELSE IF ~ peek(ts, l.at, {";"}) THEN l
        ELSE IF IsError(r) THEN r ELSE Result(listcmd(l.cmd, r.cmd), r.at)

\* No leftovers
parsecmd(ts) == LET r == parseline(ts, 1) IN IF IsError(r) \/ r.at <= Len(ts) THEN Error ELSE r.cmd

\* nulterminate: the words it ends
RECURSIVE Ended(_)
Ended(c) ==
    CASE c.type = "EXEC" -> {c.argv[i] : i \in DOMAIN c.argv}
      [] c.type = "REDIR" -> Ended(c.cmd) \cup {c.file}
      [] c.type = "BACK" -> Ended(c.cmd)
      [] OTHER -> Ended(c.left) \cup Ended(c.right)

nulterminate(c) == Ended(c)

PInit == tokens = << >>
PNext == Len(tokens) < MaxTokens /\ \E t \in Token : tokens' = Append(tokens, t)
PSpec == PInit /\ [][PNext]_tokens

-----------------------------------------------------------------------------
\* The grammar, read from the line as a whole: split at the operators outside parentheses.

Depth(ts, k) == Cardinality({i \in 1 .. k : ts[i] = "("}) - Cardinality({i \in 1 .. k : ts[i] = ")"})
Balanced(ts) == Depth(ts, Len(ts)) = 0 /\ \A k \in DOMAIN ts : Depth(ts, k) >= 0
Top(ts, t) == {k \in DOMAIN ts : ts[k] = t /\ Depth(ts, k) = 0}
First(S) == CHOOSE k \in S : \A j \in S : k <= j

\* Words and redirections: the plain words, and (file, operator) of each redirection
IsSimple(ts) == \A k \in DOMAIN ts :
    /\ ts[k] \in {"a", "<", ">", "+"}
    /\ ts[k] # "a" => k < Len(ts) /\ ts[k + 1] = "a"
Files(ts) == {k \in DOMAIN ts : ts[k] = "a" /\ k > 1 /\ ts[k - 1] # "a"}
Plain(ts) == {k \in DOMAIN ts : ts[k] = "a"} \ Files(ts)

RECURSIVE Redirected(_, _, _), GLine(_, _)
Redirected(c, ts, d) == IF ts = << >> THEN c
                        ELSE Redirected(redircmd(c, d + 2, mode(ts[1])), SubSeq(ts, 3, Len(ts)), d + 2)

\* d is how many tokens of the line come before ts.
GSimple(ts, d) ==
    IF ~ IsSimple(ts) \/ Cardinality(Plain(ts)) >= MAXARGS THEN Error
    ELSE LET argv == [n \in 1 .. Cardinality(Plain(ts)) |->
                        d + CHOOSE k \in Plain(ts) : Cardinality({j \in Plain(ts) : j <= k}) = n]
             RECURSIVE Wrap(_)
             Wrap(F) == IF F = {} THEN [execcmd EXCEPT !.argv = argv]
                        ELSE LET k == CHOOSE k \in F : \A j \in F : j <= k
                             IN  redircmd(Wrap(F \ {k}), d + k, mode(ts[k - 1]))
         IN  Wrap(Files(ts))

GExec(ts, d) ==
    IF ts = << >> \/ ts[1] # "(" THEN GSimple(ts, d)
    ELSE LET close == First({k \in DOMAIN ts : Depth(ts, k) = 0})
             tail == SubSeq(ts, close + 1, Len(ts))
             c == GLine(SubSeq(ts, 2, close - 1), d + 1)
         IN  IF c = Error \/ ~ IsSimple(tail) \/ Plain(tail) # {} THEN Error ELSE Redirected(c, tail, d + close)

RECURSIVE GPipe(_, _), GBack(_, _)
GPipe(ts, d) ==
    IF Top(ts, "|") = {} THEN GExec(ts, d)
    ELSE LET k == First(Top(ts, "|"))
             l == GExec(SubSeq(ts, 1, k - 1), d)
             r == GPipe(SubSeq(ts, k + 1, Len(ts)), d + k)
         IN  IF Error \in {l, r} THEN Error ELSE pipecmd(l, r)

GBack(ts, d) == IF ts # << >> /\ Last(ts) = "&"
                THEN LET c == GBack(Front(ts), d) IN IF c = Error THEN c ELSE backcmd(c)
                ELSE GPipe(ts, d)

GLine(ts, d) ==
    IF Top(ts, ";") = {} THEN GBack(ts, d)
    ELSE LET k == First(Top(ts, ";"))
             l == GBack(SubSeq(ts, 1, k - 1), d)
             r == GLine(SubSeq(ts, k + 1, Len(ts)), d + k)
         IN  IF Error \in {l, r} THEN Error ELSE listcmd(l, r)

\* The recursive descent builds the tree of the grammar, or finds an error where it has none:
\* ; binds weaker than &, & weaker than |, later redirections are outermost.
ParsesGrammar == parsecmd(tokens) = IF Balanced(tokens) THEN GLine(tokens, 0) ELSE Error

\* After nulterminate every word of the line is a string of its own.
WordsEnded == parsecmd(tokens) # Error => nulterminate(parsecmd(tokens)) = {k \in DOMAIN tokens : tokens[k] = "a"}

\* A line is parsed as the grammar says, into words that are strings.
ParseRight == ParsesGrammar /\ WordsEnded
=============================================================================
