----------------------------- MODULE KernelLib -----------------------------
(***************************************************************************)
(* Functions every system call rests on: the checks of its arguments       *)
(* (xv6/syscall.c), memory and string copies (string.c), and the format    *)
(* and number conversions of cprintf and printf (console.c, printf.c).     *)
(* Each is run on every small input.  Words have LWord values.             *)
(***************************************************************************)
EXTENDS Integers, Sequences, SequencesExt

CONSTANTS LWord,         \* values of a word (2^32)
          LWidth,        \* bytes of an int (4)
          LTop,          \* KERNBASE: a process is no larger
          MaxFormat      \* longest format

VARIABLE input           \* the function under test and its arguments
Uint(x) == x % LWord

\* fetchint(addr) with the process's size
fetchint(sz, addr) == ~ (addr >= sz \/ Uint(addr + LWidth) > sz)

\* argint: where argument n is
argint(esp, n) == Uint(esp + LWidth + LWidth * n)

\* argptr, once the argument i was fetched
argptr(sz, i, size) == ~ (size < 0 \/ i >= sz \/ Uint(i + size) > sz)

\* fetchstr: the length of the string, whose 0 is searched up to the end of the process
RECURSIVE scan(_, _, _)
Beyond(s, ep) == s >= ep
scan(nuls, s, ep) == IF Beyond(s, ep) THEN -1 ELSE IF s \in nuls THEN s ELSE scan(nuls, s + 1, ep)
fetchstr(sz, addr, nuls) ==
    LET end == scan(nuls, addr, sz) IN IF addr >= sz \/ end = -1 THEN -1 ELSE end - addr

\* argstr, of argument n; word is what the stack holds there
argstr(sz, esp, n, word, nuls) == IF fetchint(sz, argint(esp, n)) THEN fetchstr(sz, word, nuls) ELSE -1

\* memmove copies downwards when the destination starts inside the source.
CopiesDown(dst, src, n) == src < dst /\ src + n > dst

RECURSIVE Up(_, _, _, _), Down(_, _, _, _)
Up(mem, d, s, n) == IF n = 0 THEN mem ELSE Up([mem EXCEPT ![d] = mem[s]], d + 1, s + 1, n - 1)
Down(mem, d, s, n) == IF n = 0 THEN mem ELSE Down([mem EXCEPT ![d - 1] = mem[s - 1]], d - 1, s - 1, n - 1)
memmove(mem, dst, src, n) ==
    IF CopiesDown(dst, src, n) THEN Down(mem, dst + n, src + n, n) ELSE Up(mem, dst, src, n)

\* The user library's memmove (ulib.c), upwards only
umemmove(mem, dst, src, n) == Up(mem, dst, src, n)

\* strncpy and safestrcpy: t ends with 0; what is written, from s on
RECURSIVE strncpy(_, _), safecopy(_, _)
strncpy(t, n) == IF n = 0 THEN << >>
                 ELSE IF t[1] = 0 THEN [k \in 1 .. n |-> 0]
                 ELSE <<t[1]>> \o strncpy(Tail(t), n - 1)
safecopy(t, n) == IF n <= 1 \/ t[1] = 0 THEN <<0>> ELSE <<t[1]>> \o safecopy(Tail(t), n - 1)
safestrcpy(t, n) == IF n <= 0 THEN << >> ELSE safecopy(t, n)

\* printint: the magnitude as an unsigned word, negated with wrap
Magnitude(xx, sign) == IF sign /\ xx < 0 THEN Uint(-xx) ELSE Uint(xx)

RECURSIVE Digits(_, _)
Digits(x, b) == IF x \div b = 0 THEN <<x % b>> ELSE Digits(x \div b, b) \o <<x % b>>
printint(xx, b, sign) == [neg |-> sign /\ xx < 0, digits |-> Digits(Magnitude(xx, sign), b)]

\* What a % and the character c behind it print, with ap the next argument; known take one
Conversion(c, ap, known) ==
    IF c \in known THEN << <<c, ap>> >>
    ELSE (IF c = "%" THEN << >> ELSE << <<"char", "%">> >>) \o << <<"char", c>> >>
Taken(c, known) == IF c \in known THEN 1 ELSE 0

\* printf goes through the format character by character, with a state.
Known == {"d", "x", "s", "c"}

printfChar(s, c) ==
    IF ~ s.percent THEN IF c = "%" THEN [s EXCEPT !.percent = TRUE] ELSE [s EXCEPT !.out = Append(@, <<"char", c>>)]
    ELSE [percent |-> FALSE, ap |-> s.ap + Taken(c, Known), out |-> s.out \o Conversion(c, s.ap, Known)]
printf(fmt) == FoldLeft(printfChar, [percent |-> FALSE, ap |-> 1, out |-> << >>], fmt).out

\* cprintf looks one character ahead, and knows no %c.
RECURSIVE cprintf(_, _)
cprintf(fmt, ap) ==
    IF fmt = << >> THEN << >>
    ELSE IF fmt[1] # "%" THEN << <<"char", fmt[1]>> >> \o cprintf(Tail(fmt), ap)
    ELSE IF Len(fmt) = 1 THEN << >>
    ELSE LET known == Known \ {"c"}
         IN  Conversion(fmt[2], ap, known) \o cprintf(Tail(Tail(fmt)), ap + Taken(fmt[2], known))

\* One call
Formats == UNION {[1 .. n -> {"%", "d", "s", "c", "t"}] : n \in 0 .. MaxFormat}
Mem == 0 .. 5
Texts == {<<0>>, <<7, 0>>, <<7, 8, 0>>, <<7, 8, 9, 0>>}
LInit == input = [f |-> "none"]
aCall ==
    \/ \E sz \in 0 .. LTop, i \in 0 .. LWord - 1, size \in -(LWord \div 2) .. LWord \div 2 - 1 :
          input' = [f |-> "argptr", sz |-> sz, i |-> i, size |-> size]
    \/ \E dst, src \in Mem, n \in 0 .. 6 : dst + n <= 6 /\ src + n <= 6 /\
          input' = [f |-> "memmove", dst |-> dst, src |-> src, n |-> n]
    \/ \E sz \in 0 .. LTop, i \in 0 .. LWord - 1, nul \in 0 .. LTop :
          input' = [f |-> "argstr", sz |-> sz, i |-> i, nul |-> nul]
    \/ \E fmt \in Formats : input' = [f |-> "printf", fmt |-> fmt]
    \/ \E t \in Texts, n \in 0 .. 5 : input' = [f |-> "strcpy", t |-> t, n |-> n]
    \/ \E xx \in -(LWord \div 2) .. LWord \div 2 - 1, b \in {2, 3}, sign \in BOOLEAN :
          input' = [f |-> "printint", xx |-> xx, b |-> b, sign |-> sign]
LNext == input.f = "none" /\ aCall
LSpec == LInit /\ [][LNext]_input

-----------------------------------------------------------------------------
\* A pointer is accepted if and only if all its bytes are the process's: the sums of syscall.c do not
\* wrap into it, for any pointer and any size a program passes.
ArgumentsInside == input.f = "argptr" =>
    /\ argptr(input.sz, input.i, input.size) <=> (input.size >= 0 /\ input.i < input.sz /\ input.i + input.size <= input.sz)
    /\ \A n \in 0 .. 2 : LET addr == argint(input.i, n)
                         IN  fetchint(input.sz, addr) <=> addr + LWidth <= input.sz

\* A string is accepted if and only if it and its 0 are the process's, wherever it starts: for the
\* last byte, for a string without an end and for one that ends where the process does.
StringsInside == input.f = "argstr" =>
    /\ fetchstr(input.sz, input.i, {input.nul}) = IF input.i <= input.nul /\ input.nul < input.sz THEN input.nul - input.i ELSE -1
    /\ argstr(input.sz, input.i, 0, input.nul, {input.nul}) # -1 => input.nul < input.sz /\ argint(input.i, 0) + LWidth <= input.sz

\* The kernel and the programs print a format alike, argument for argument, %c excepted: unknown
\* conversions, doubled percents and a percent at the end included.
FormattersAgree == input.f = "printf" =>
    ((\A k \in 2 .. Len(input.fmt) : ~ (input.fmt[k] = "c" /\ input.fmt[k - 1] = "%")) => printf(input.fmt) = cprintf(input.fmt, 1))

\* Copies: memmove is right for every overlap, the user library's for a move downwards or apart;
\* strncpy writes n characters and safestrcpy a terminated string of at most n.
CopiesRight ==
    /\ input.f = "memmove" =>
         LET mem == [k \in Mem |-> k]
             moved == [k \in Mem |-> IF k \in input.dst .. input.dst + input.n - 1 THEN k - input.dst + input.src ELSE k]
         IN  /\ memmove(mem, input.dst, input.src, input.n) = moved
             /\ input.dst <= input.src \/ input.dst >= input.src + input.n =>
                   umemmove(mem, input.dst, input.src, input.n) = moved
    /\ input.f = "strcpy" =>
         /\ Len(strncpy(input.t, input.n)) = input.n
         /\ \A k \in 1 .. input.n : strncpy(input.t, input.n)[k] = IF k < Len(input.t) THEN input.t[k] ELSE 0
         /\ input.n > 0 => LET s == safestrcpy(input.t, input.n)
                           IN  Len(s) <= input.n /\ s[Len(s)] = 0 /\ \A k \in 1 .. Len(s) - 1 : s[k] = input.t[k]

\* printint writes the digits of its number, the most negative one included, with no leading zero.
PrintsNumber == input.f = "printint" =>
    LET r == printint(input.xx, input.b, input.sign)
        value[k \in 0 .. Len(r.digits)] == IF k = 0 THEN 0 ELSE value[k - 1] * input.b + r.digits[k]
        v == value[Len(r.digits)]
    IN  /\ (IF r.neg THEN -v ELSE v) = IF input.sign THEN input.xx ELSE Uint(input.xx)
        /\ Len(r.digits) > 1 => r.digits[1] # 0

\* The functions do what their callers rely on, for every small input.
LibraryRight == ArgumentsInside /\ StringsInside /\ FormattersAgree /\ CopiesRight /\ PrintsNumber
=============================================================================
