----------------------------- MODULE PipeProofs -----------------------------
(***************************************************************************)
(* A pipe is a bounded queue, nobody sleeps beside an event and nobody     *)
(* uses a freed pipe, for any number of readers and writers, any ring and  *)
(* any width of the counters that the ring divides.  The first part, on    *)
(* words that wrap, rings indexed by them and the sequences that the rings *)
(* hold, also serves the proofs about console.c and the clock.             *)
(***************************************************************************)
EXTENDS Pipe, TLAPS

-----------------------------------------------------------------------------
(* Words and rings *)

\* Division with remainder
LEMMA DivMod == ASSUME NEW W \in Nat \ {0}, NEW x \in Int
                PROVE  x % W \in 0 .. W - 1 /\ x \div W \in Int /\ x = W * (x \div W) + (x % W)
  OBVIOUS

\* The remainder is the only number of its range that does.
LEMMA ModUnique == ASSUME NEW W \in Nat \ {0}, NEW x \in Int, NEW q \in Int, NEW r \in 0 .. W - 1, x = W * q + r
                   PROVE  x % W = r
  OBVIOUS

\* The counters wrap at most once in a step.
LEMMA ModWrap == ASSUME NEW W \in Nat \ {0}, NEW x \in Int
                 PROVE  /\ 0 <= x /\ x < W => x % W = x
                        /\ W <= x /\ x < 2 * W => x % W = x - W
                        /\ -W <= x /\ x < 0 => x % W = x + W
  <1>1. ASSUME 0 <= x, x < W PROVE x % W = x
    BY <1>1, x = W * 0 + x, ModUnique
  <1>2. ASSUME W <= x, x < 2 * W PROVE x % W = x - W
    BY <1>2, x = W * 1 + (x - W), ModUnique
  <1>3. ASSUME -W <= x, x < 0 PROVE x % W = x + W
    BY <1>3, x = W * (-1) + (x + W), ModUnique
  <1>4. QED
    BY <1>1, <1>2, <1>3

\* The ring divides the range of the counters, so that the place of a byte does not change when they wrap.
LEMMA ModShift == ASSUME NEW P \in Nat \ {0}, NEW W \in Nat, W % P = 0, NEW x \in Int
                  PROVE  (x + W) % P = x % P /\ (x - W) % P = x % P
  <1>1. W \div P \in Int /\ W = P * (W \div P) + (W % P)
    BY DivMod
  <1>2. x \div P \in Int /\ x % P \in 0 .. P - 1 /\ x = P * (x \div P) + (x % P)
    BY DivMod
  <1>3. PICK m \in Int : m = W \div P
    BY <1>1
  <1>4. PICK q \in Int, r \in 0 .. P - 1 : q = x \div P /\ r = x % P
    BY <1>2
  <1>5. x + W = P * (q + m) + r /\ x - W = P * (q - m) + r
    BY <1>1, <1>2, <1>3, <1>4
  <1>6. x + W \in Int /\ x - W \in Int /\ q + m \in Int /\ q - m \in Int
    OBVIOUS
  <1>7. (x + W) % P = r
    BY ONLY Zenon, P \in Nat \ {0}, r \in 0 .. P - 1, <1>5, <1>6, ModUnique
  <1>8. (x - W) % P = r
    BY ONLY Zenon, P \in Nat \ {0}, r \in 0 .. P - 1, <1>5, <1>6, ModUnique
  <1>9. QED
    BY <1>4, <1>7, <1>8

\* Bytes less than the ring apart are in different cells.
LEMMA ModDistinct == ASSUME NEW P \in Nat \ {0}, NEW x \in Int, NEW y \in Int, 0 < y - x, y - x < P
                     PROVE  x % P # y % P
  <1> SUFFICES ASSUME x % P = y % P PROVE FALSE
    OBVIOUS
  <1>1. PICK q \in Int, r \in 0 .. P - 1 : x = P * q + r /\ x % P = r
    BY Zenon, DivMod
  <1>2. PICK s \in Int : y = P * s + r
    BY Zenon, DivMod, <1>1
  <1>3. y - x = P * (s - q)
    BY <1>1, <1>2
  <1>4. PICK d \in Int : d = s - q
    OBVIOUS
  <1>5. CASE d <= 0
    <2>1. P * d <= 0
      BY <1>5
    <2>2. QED
      BY <1>3, <1>4, <2>1
  <1>6. CASE d >= 1
    <2>1. P * d >= P
      BY <1>6
    <2>2. QED
      BY <1>3, <1>4, <2>1
  <1>7. QED
    BY <1>4, <1>5, <1>6

\* Sequences are determined by their members: t is s with b appended,
LEMMA IsAppend == ASSUME NEW S, NEW s \in Seq(S), NEW t \in Seq(S), NEW b \in S, Len(t) = Len(s) + 1,
                         \A k \in 1 .. Len(s) : t[k] = s[k], t[Len(s) + 1] = b
                  PROVE  t = Append(s, b)
  OBVIOUS

\* t is the tail of s,
LEMMA IsTail == ASSUME NEW S, NEW s \in Seq(S), NEW t \in Seq(S), Len(s) = Len(t) + 1, \A k \in 1 .. Len(t) : t[k] = s[k + 1]
                PROVE  t = Tail(s) /\ s # << >>
  OBVIOUS

\* equal to s,
LEMMA IsSame == ASSUME NEW S, NEW s \in Seq(S), NEW t \in Seq(S), Len(s) = Len(t), \A k \in 1 .. Len(s) : s[k] = t[k]
                PROVE  s = t
  OBVIOUS

\* the first v members of s,
LEMMA IsFront == ASSUME NEW S, NEW s \in Seq(S), NEW t \in Seq(S), NEW v \in 0 .. Len(s), Len(t) = v,
                        \A k \in 1 .. Len(t) : t[k] = s[k]
                 PROVE  t = SubSeq(s, 1, v)
  OBVIOUS

\* and v is s followed by t, when their members say so.
LEMMA IsConcat == ASSUME NEW S, NEW s \in Seq(S), NEW t \in Seq(S), NEW v \in Seq(S), Len(v) = Len(s) + Len(t),
                         \A k \in 1 .. Len(s) : v[k] = s[k], \A k \in 1 .. Len(t) : v[Len(s) + k] = t[k]
                  PROVE  v = s \o t
  <1>1. s \o t \in Seq(S) /\ Len(s \o t) = Len(s) + Len(t)
    OBVIOUS
  <1>2. ASSUME NEW k \in 1 .. Len(v) PROVE v[k] = (s \o t)[k]
    <2>1. CASE k <= Len(s)
      BY <2>1
    <2>2. CASE k > Len(s)
      <3>1. PICK j \in 1 .. Len(t) : k = Len(s) + j
        <4>1. k - Len(s) \in 1 .. Len(t) /\ k = Len(s) + (k - Len(s))
          BY <2>2
        <4>2. QED
          BY Zenon, <4>1
      <3>2. QED
        BY <2>2, <3>1
    <2>3. QED
      BY <2>1, <2>2
  <1>3. QED
    BY <1>1, <1>2

\* Appending something else than x to a sequence without x leaves it without x.
LEMMA AppendAvoids == ASSUME NEW S, NEW s \in Seq(S), NEW b \in S, NEW x, b # x, \A k \in 1 .. Len(s) : s[k] # x
                      PROVE  \A k \in 1 .. Len(s) + 1 : Append(s, b)[k] # x
  OBVIOUS

-----------------------------------------------------------------------------
\* What a ring d of P cells holds, from index a on: u elements.  The index is a word of W values.
Segment(d, a, u, P, W) == [k \in 1 .. u |-> d[((a + (k - 1)) % W) % P]]

\* The k-th element from index a on
Cell(d, a, k, P) == d[(a + (k - 1)) % P]

\* The cells divide the word.
IsRing(P, W) == P \in Nat \ {0} /\ W \in Nat \ {0} /\ W % P = 0 /\ W > P

\* d is such a ring of elements of S, a an index into it, u a number of cells.
IsSegment(S, P, W, d, a, u) == IsRing(P, W) /\ d \in [0 .. P - 1 -> S] /\ a \in 0 .. W - 1 /\ u \in 0 .. P

\* A segment no longer than the ring, with a ring that divides the word: the wrap of the index does
\* not change the cells.
LEMMA SegmentFacts == ASSUME NEW S, NEW P, NEW W, NEW d, NEW a, NEW u, IsSegment(S, P, W, d, a, u)
                      PROVE  /\ Segment(d, a, u, P, W) \in Seq(S) /\ Len(Segment(d, a, u, P, W)) = u
                             /\ \A k \in 1 .. u : Segment(d, a, u, P, W)[k] = Cell(d, a, k, P)
  <1> USE DEF IsRing, IsSegment
  <1>1. ASSUME NEW k \in 1 .. u PROVE ((a + (k - 1)) % W) % P = (a + (k - 1)) % P
    <2>1. PICK x \in Int : x = a + (k - 1)
      OBVIOUS
    <2>2. 0 <= x /\ x < 2 * W
      BY <2>1
    <2>3. x % W = x \/ x % W = x - W
      <3>1. /\ 0 <= x /\ x < W => x % W = x
            /\ W <= x /\ x < 2 * W => x % W = x - W
        BY Zenon, ModWrap
      <3>2. QED
        BY <2>2, <3>1
    <2>4. (x - W) % P = x % P
      <3>1. W \in Nat
        OBVIOUS
      <3>2. QED
        BY Zenon, <3>1, ModShift
    <2>5. QED
      BY Zenon, <2>1, <2>3, <2>4
  <1>2. ASSUME NEW k \in 1 .. u PROVE d[((a + (k - 1)) % W) % P] \in S
    <2>1. (a + (k - 1)) \in Int
      OBVIOUS
    <2>2. (a + (k - 1)) % P \in 0 .. P - 1
      BY Zenon, <2>1, DivMod
    <2>3. QED
      BY Zenon, <1>1, <2>2
  <1>3. Segment(d, a, u, P, W) \in [1 .. u -> S]
    BY Zenon, <1>2 DEF Segment
  <1>4. Segment(d, a, u, P, W) \in Seq(S) /\ Len(Segment(d, a, u, P, W)) = u
    BY <1>3
  <1>5. \A k \in 1 .. u : Segment(d, a, u, P, W)[k] = d[((a + (k - 1)) % W) % P]
    BY Zenon DEF Segment
  <1>6. QED
    BY Zenon, <1>1, <1>4, <1>5 DEF Cell

-----------------------------------------------------------------------------
(* The inductive invariant *)

\* The number of bytes in the ring
Used == (nwrite - nread) % WordMod

Word == 0 .. WordMod - 1

\* Where a process is while it holds p->lock, and where it is once its end is closed.
InLock == {"write", "wsleep", "read", "rsleep", "copy"}
Gone == {"close", "closed"}

\* Types; a process runs the code of its end.
Types == /\ data \in [0 .. PIPESIZE - 1 -> Byte \cup {Nobody}]
         /\ nread \in Word /\ nwrite \in Word
         /\ lock \in PipeProc \cup {Nobody} /\ fds \in SUBSET PipeProc
         /\ ppc \in [PipeProc -> InLock \cup Gone \cup {"user", "wslept", "rslept"}]
         /\ i \in [PipeProc -> Nat] /\ n \in [PipeProc -> Nat]
         /\ chan \in [PipeProc -> {"none", "nread", "nwrite"}]

Booleans == /\ readopen \in BOOLEAN /\ writeopen \in BOOLEAN /\ freed \in BOOLEAN
            /\ pkilled \in [PipeProc -> BOOLEAN]

\* p->lock belongs to the process that is in the code under it, and only a sleeper has a channel.
Owned == \A p \in PipeProc :
             /\ ppc[p] \in InLock <=> lock = p
             /\ p \in Writer => ppc[p] \notin {"read", "rsleep", "rslept", "copy"} /\ chan[p] # "nread"
             /\ p \in Reader => ppc[p] \notin {"write", "wsleep", "wslept"} /\ chan[p] # "nwrite"
             /\ chan[p] # "none" => ppc[p] \in {"wslept", "rslept"}

\* The last process of an end closes it, after all others have closed their file.
Ends == /\ \A p \in PipeProc : p \in fds <=> ppc[p] \notin Gone
        /\ \A p, q \in PipeProc : ppc[p] = "close" /\ p # q /\ (p \in Writer <=> q \in Writer) => ppc[q] = "closed"
        /\ \A p \in Writer : ~ writeopen => ppc[p] = "closed"
        /\ \A p \in Reader : ~ readopen => ppc[p] = "closed"
        /\ freed => ~ readopen /\ ~ writeopen

\* What a sleeper waits for has not happened, or the process that made it happen still holds p->lock.
Asleep == \A p \in PipeProc :
              /\ ppc[p] = "rsleep" => Empty /\ writeopen
              /\ ppc[p] = "wsleep" => Full /\ readopen /\ \A q \in PipeProc : chan[q] # "nread"
              /\ chan[p] = "nread" => /\ writeopen
                                      /\ Empty \/ (\E w \in Writer : pkilled[w]) \/ (\E w \in Writer : AtPc(w, "write"))
              /\ chan[p] = "nwrite" => readopen /\ (Full \/ \E r \in Reader : AtPc(r, "copy"))

PInv == Types /\ Booleans /\ Owned /\ Ends /\ Used <= PIPESIZE /\ Asleep /\ EofAtEnd

-----------------------------------------------------------------------------
(* Every step preserves the invariant *)

\* What the assumption says of the constants.
LEMMA Constants == /\ PIPESIZE \in Nat \ {0} /\ WordMod \in Nat \ {0} /\ WordMod > PIPESIZE /\ WordMod % PIPESIZE = 0
                   /\ \A p \in Writer : p \in PipeProc /\ p \notin Reader /\ p # Nobody
                   /\ \A p \in Reader : p \in PipeProc /\ p \notin Writer /\ p # Nobody
                   /\ \A p \in PipeProc : p \in Writer \/ p \in Reader
  BY PipeAssumption DEF PipeProc

\* The counters, and the tests on them, in terms of the number of bytes in the ring.
LEMMA Counters == ASSUME nread \in Word, nwrite \in Word
                  PROVE  /\ Used \in Word
                         /\ Empty <=> Used = 0
                         /\ Full <=> Used = PIPESIZE
                         /\ Inc(nread) \in Word /\ Inc(nwrite) \in Word
  <1> USE Constants DEF Word
  <1>1. \A x \in Int : /\ 0 <= x /\ x < WordMod => x % WordMod = x
                       /\ WordMod <= x /\ x < 2 * WordMod => x % WordMod = x - WordMod
                       /\ -WordMod <= x /\ x < 0 => x % WordMod = x + WordMod
    BY Zenon, ModWrap
  <1>2. Used = IF nwrite >= nread THEN nwrite - nread ELSE nwrite - nread + WordMod
    <2>1. PICK x \in Int : x = nwrite - nread
      OBVIOUS
    <2>2. QED
      BY <1>1, <2>1 DEF Used
  <1>3. Used \in Word /\ (Empty <=> Used = 0)
    BY <1>2 DEF Empty
  <1>4. (nread + PIPESIZE) % WordMod = IF nread + PIPESIZE < WordMod THEN nread + PIPESIZE ELSE nread + PIPESIZE - WordMod
    <2>1. PICK x \in Int : x = nread + PIPESIZE
      OBVIOUS
    <2>2. QED
      BY <1>1, <2>1
  <1>5. Full <=> Used = PIPESIZE
    BY <1>2, <1>4 DEF Full
  <1>6. Inc(nread) \in Word /\ Inc(nwrite) \in Word
    BY DivMod DEF Inc
  <1>7. QED
    BY <1>3, <1>5, <1>6

\* Every step keeps the types, ...
LEMMA TypesStep == ASSUME PInv, [PipeNext]_pipevars PROVE Types'
  <1> USE Constants DEF PInv, Types, pipe, Jump, InLock, Gone
  <1>1. ASSUME NEW p \in PipeProc, awake(p) PROVE Types'
    BY <1>1 DEF awake
  <1>2. ASSUME NEW p \in PipeProc, sleep(p, "wsleep", "nwrite") PROVE Types'
    BY <1>2 DEF sleep, AtPc
  <1>3. ASSUME NEW p \in PipeProc, sleep(p, "rsleep", "nread") PROVE Types'
    BY <1>3 DEF sleep, AtPc
  <1>4. ASSUME NEW p \in PipeProc, write_byte(p) PROVE Types'
    <2>1. Inc(nwrite) \in Word /\ nwrite % PIPESIZE \in 0 .. PIPESIZE - 1
      BY Counters, DivMod DEF Word
    <2>2. data' \in [0 .. PIPESIZE - 1 -> Byte \cup {Nobody}]
      BY <1>4, <2>1 DEF write_byte
    <2>3. QED
      BY <1>4, <2>1, <2>2 DEF write_byte
  <1>5. ASSUME NEW p \in PipeProc, write_broken(p) PROVE Types'
    BY <1>5 DEF write_broken, AtPc, Reply
  <1>6. ASSUME NEW p \in PipeProc, write_full(p) PROVE Types'
    BY <1>6 DEF write_full, AtPc, Woken
  <1>7. ASSUME NEW p \in PipeProc, write_done(p) PROVE Types'
    BY <1>7 DEF write_done, AtPc, Reply, Woken
  <1>8. ASSUME NEW p \in PipeProc, read_killed(p) PROVE Types'
    BY <1>8 DEF read_killed, AtPc, Reply, MustWait
  <1>9. ASSUME NEW p \in PipeProc, read_empty(p) PROVE Types'
    BY <1>9 DEF read_empty, AtPc, MustWait
  <1>10. ASSUME NEW p \in PipeProc, read_ready(p) PROVE Types'
    BY <1>10 DEF read_ready, AtPc, MustWait
  <1>11. ASSUME NEW p \in PipeProc, read_byte(p) PROVE Types'
    <2>1. Inc(nread) \in Word
      BY Counters
    <2>2. QED
      BY <1>11, <2>1 DEF read_byte
  <1>12. ASSUME NEW p \in PipeProc, read_done(p) PROVE Types'
    BY <1>12 DEF read_done, AtPc, Reply, Woken
  <1>13. ASSUME NEW p \in PipeProc, pipeclose(p) PROVE Types'
    BY <1>13 DEF pipeclose, Woken, BothClosed
  <1>14. ASSUME NEW p \in PipeProc, close(p) PROVE Types'
    BY <1>14 DEF close
  <1>15. ASSUME NEW p \in PipeProc, call(p) PROVE Types'
    BY <1>15 DEF call
  <1>16. ASSUME NEW p \in PipeProc, killPipe(p) PROVE Types'
    BY <1>16 DEF killPipe
  <1>17. CASE UNCHANGED pipevars
    BY <1>17 DEF pipevars, AtPc
  <1>18. QED
    BY Zenon, <1>1, <1>2, <1>3, <1>4, <1>5, <1>6, <1>7, <1>8, <1>9, <1>10, <1>11, <1>12, <1>13, <1>14, <1>15, <1>16, <1>17 DEF PipeNext, Kernel

\* ... those of the flags, ...
LEMMA BooleansStep == ASSUME PInv, [PipeNext]_pipevars PROVE Booleans'
  <1> USE Constants DEF PInv, Booleans, pipe
  <1>1. ASSUME NEW p \in PipeProc, awake(p) PROVE Booleans'
    BY Zenon, <1>1 DEF awake
  <1>2. ASSUME NEW p \in PipeProc, sleep(p, "wsleep", "nwrite") PROVE Booleans'
    BY Zenon, <1>2 DEF sleep, AtPc
  <1>3. ASSUME NEW p \in PipeProc, sleep(p, "rsleep", "nread") PROVE Booleans'
    BY Zenon, <1>3 DEF sleep, AtPc
  <1>4. ASSUME NEW p \in PipeProc, write_byte(p) PROVE Booleans'
    BY Zenon, <1>4 DEF write_byte, AtPc
  <1>5. ASSUME NEW p \in PipeProc, write_broken(p) PROVE Booleans'
    BY Zenon, <1>5 DEF write_broken, AtPc, Reply
  <1>6. ASSUME NEW p \in PipeProc, write_full(p) PROVE Booleans'
    BY Zenon, <1>6 DEF write_full, AtPc, Woken
  <1>7. ASSUME NEW p \in PipeProc, write_done(p) PROVE Booleans'
    BY Zenon, <1>7 DEF write_done, AtPc, Reply, Woken
  <1>8. ASSUME NEW p \in PipeProc, read_killed(p) PROVE Booleans'
    BY Zenon, <1>8 DEF read_killed, AtPc, Reply, MustWait
  <1>9. ASSUME NEW p \in PipeProc, read_empty(p) PROVE Booleans'
    BY Zenon, <1>9 DEF read_empty, AtPc, MustWait
  <1>10. ASSUME NEW p \in PipeProc, read_ready(p) PROVE Booleans'
    BY Zenon, <1>10 DEF read_ready, AtPc, MustWait
  <1>11. ASSUME NEW p \in PipeProc, read_byte(p) PROVE Booleans'
    BY Zenon, <1>11 DEF read_byte, AtPc
  <1>12. ASSUME NEW p \in PipeProc, read_done(p) PROVE Booleans'
    BY Zenon, <1>12 DEF read_done, AtPc, Reply, Woken
  <1>13. ASSUME NEW p \in PipeProc, pipeclose(p) PROVE Booleans'
    BY Zenon, <1>13 DEF pipeclose, Woken, BothClosed
  <1>14. ASSUME NEW p \in PipeProc, close(p) PROVE Booleans'
    BY Zenon, <1>14 DEF close
  <1>15. ASSUME NEW p \in PipeProc, call(p) PROVE Booleans'
    BY Zenon, <1>15 DEF call
  <1>16. ASSUME NEW p \in PipeProc, killPipe(p) PROVE Booleans'
    BY Zenon, <1>16 DEF killPipe
  <1>17. CASE UNCHANGED pipevars
    BY <1>17 DEF pipevars, AtPc
  <1>18. QED
    BY Zenon, <1>1, <1>2, <1>3, <1>4, <1>5, <1>6, <1>7, <1>8, <1>9, <1>10, <1>11, <1>12, <1>13, <1>14, <1>15, <1>16, <1>17 DEF PipeNext, Kernel

\* ... the owner of p->lock, ...
LEMMA OwnedStep == ASSUME PInv, [PipeNext]_pipevars PROVE Owned'
  <1> USE Constants DEF PInv, Types, pipe, Owned, Jump, InLock, Gone
  <1>1. ASSUME NEW p \in PipeProc, awake(p) PROVE Owned'
    BY <1>1 DEF awake
  <1>2. ASSUME NEW p \in PipeProc, sleep(p, "wsleep", "nwrite") PROVE Owned'
    BY <1>2 DEF sleep, AtPc
  <1>3. ASSUME NEW p \in PipeProc, sleep(p, "rsleep", "nread") PROVE Owned'
    BY <1>3 DEF sleep, AtPc
  <1>4. ASSUME NEW p \in PipeProc, write_byte(p) PROVE Owned'
    BY <1>4 DEF write_byte, AtPc
  <1>5. ASSUME NEW p \in PipeProc, write_broken(p) PROVE Owned'
    BY <1>5 DEF write_broken, AtPc, Reply
  <1>6. ASSUME NEW p \in PipeProc, write_full(p) PROVE Owned'
    BY <1>6 DEF write_full, AtPc, Woken
  <1>7. ASSUME NEW p \in PipeProc, write_done(p) PROVE Owned'
    BY <1>7 DEF write_done, AtPc, Reply, Woken
  <1>8. ASSUME NEW p \in PipeProc, read_killed(p) PROVE Owned'
    BY <1>8 DEF read_killed, AtPc, Reply, MustWait
  <1>9. ASSUME NEW p \in PipeProc, read_empty(p) PROVE Owned'
    BY <1>9 DEF read_empty, AtPc, MustWait
  <1>10. ASSUME NEW p \in PipeProc, read_ready(p) PROVE Owned'
    BY <1>10 DEF read_ready, AtPc, MustWait
  <1>11. ASSUME NEW p \in PipeProc, read_byte(p) PROVE Owned'
    BY <1>11 DEF read_byte, AtPc
  <1>12. ASSUME NEW p \in PipeProc, read_done(p) PROVE Owned'
    BY <1>12 DEF read_done, AtPc, Reply, Woken
  <1>13. ASSUME NEW p \in PipeProc, pipeclose(p) PROVE Owned'
    BY <1>13 DEF pipeclose, Woken, BothClosed
  <1>14. ASSUME NEW p \in PipeProc, close(p) PROVE Owned'
    BY <1>14 DEF close
  <1>15. ASSUME NEW p \in PipeProc, call(p) PROVE Owned'
    BY <1>15 DEF call
  <1>16. ASSUME NEW p \in PipeProc, killPipe(p) PROVE Owned'
    BY <1>16 DEF killPipe
  <1>17. CASE UNCHANGED pipevars
    BY <1>17 DEF pipevars, AtPc
  <1>18. QED
    BY Zenon, <1>1, <1>2, <1>3, <1>4, <1>5, <1>6, <1>7, <1>8, <1>9, <1>10, <1>11, <1>12, <1>13, <1>14, <1>15, <1>16, <1>17 DEF PipeNext, Kernel

\* ... the order in which the ends are closed, ...
LEMMA EndsStep == ASSUME PInv, [PipeNext]_pipevars PROVE Ends'
  <1> USE Constants DEF PInv, Types, pipe, Owned, Ends, Jump, InLock, Gone
  <1>1. ASSUME NEW p \in PipeProc, awake(p) PROVE Ends'
    BY <1>1 DEF awake
  <1>2. ASSUME NEW p \in PipeProc, sleep(p, "wsleep", "nwrite") PROVE Ends'
    BY <1>2 DEF sleep, AtPc
  <1>3. ASSUME NEW p \in PipeProc, sleep(p, "rsleep", "nread") PROVE Ends'
    BY <1>3 DEF sleep, AtPc
  <1>4. ASSUME NEW p \in PipeProc, write_byte(p) PROVE Ends'
    BY <1>4 DEF write_byte, AtPc
  <1>5. ASSUME NEW p \in PipeProc, write_broken(p) PROVE Ends'
    BY <1>5 DEF write_broken, AtPc, Reply
  <1>6. ASSUME NEW p \in PipeProc, write_full(p) PROVE Ends'
    BY <1>6 DEF write_full, AtPc, Woken
  <1>7. ASSUME NEW p \in PipeProc, write_done(p) PROVE Ends'
    BY <1>7 DEF write_done, AtPc, Reply, Woken
  <1>8. ASSUME NEW p \in PipeProc, read_killed(p) PROVE Ends'
    BY <1>8 DEF read_killed, AtPc, Reply, MustWait
  <1>9. ASSUME NEW p \in PipeProc, read_empty(p) PROVE Ends'
    BY <1>9 DEF read_empty, AtPc, MustWait
  <1>10. ASSUME NEW p \in PipeProc, read_ready(p) PROVE Ends'
    BY <1>10 DEF read_ready, AtPc, MustWait
  <1>11. ASSUME NEW p \in PipeProc, read_byte(p) PROVE Ends'
    BY <1>11 DEF read_byte, AtPc
  <1>12. ASSUME NEW p \in PipeProc, read_done(p) PROVE Ends'
    BY <1>12 DEF read_done, AtPc, Reply, Woken
  <1>13. ASSUME NEW p \in PipeProc, pipeclose(p) PROVE Ends'
    <2>1. /\ writeopen' <=> writeopen /\ p \notin Writer
          /\ readopen' <=> readopen /\ p \notin Reader
          /\ freed' <=> ~ readopen' /\ ~ writeopen'
      BY Zenon, <1>13 DEF pipeclose, BothClosed
    <2>2. ppc[p] = "close" /\ ppc' = [ppc EXCEPT ![p] = "closed"] /\ fds' = fds
      BY <1>13 DEF pipeclose
    <2>3. QED
      BY <2>1, <2>2
  <1>14. ASSUME NEW p \in PipeProc, close(p) PROVE Ends'
    BY <1>14 DEF close
  <1>15. ASSUME NEW p \in PipeProc, call(p) PROVE Ends'
    BY <1>15 DEF call
  <1>16. ASSUME NEW p \in PipeProc, killPipe(p) PROVE Ends'
    BY <1>16 DEF killPipe
  <1>17. CASE UNCHANGED pipevars
    BY <1>17 DEF pipevars, AtPc
  <1>18. QED
    BY Zenon, <1>1, <1>2, <1>3, <1>4, <1>5, <1>6, <1>7, <1>8, <1>9, <1>10, <1>11, <1>12, <1>13, <1>14, <1>15, <1>16, <1>17 DEF PipeNext, Kernel

\* ... the reason for which everybody sleeps, ...
LEMMA AsleepStep == ASSUME PInv, [PipeNext]_pipevars PROVE Asleep'
  <1> USE Constants DEF PInv, Types, pipe, Owned, Ends, Asleep, AtPc, Empty, Full, Jump, InLock, Gone
  <1>1. ASSUME NEW p \in PipeProc, awake(p) PROVE Asleep'
    BY <1>1 DEF awake
  <1>2. ASSUME NEW p \in PipeProc, sleep(p, "wsleep", "nwrite") PROVE Asleep'
    BY <1>2 DEF sleep, AtPc
  <1>3. ASSUME NEW p \in PipeProc, sleep(p, "rsleep", "nread") PROVE Asleep'
    BY <1>3 DEF sleep, AtPc
  <1>4. ASSUME NEW p \in PipeProc, write_byte(p) PROVE Asleep'
    BY <1>4 DEF write_byte, AtPc
  <1>5. ASSUME NEW p \in PipeProc, write_broken(p) PROVE Asleep'
    BY <1>5 DEF write_broken, AtPc, Reply
  <1>6. ASSUME NEW p \in PipeProc, write_full(p) PROVE Asleep'
    BY <1>6 DEF write_full, AtPc, Woken
  <1>7. ASSUME NEW p \in PipeProc, write_done(p) PROVE Asleep'
    BY <1>7 DEF write_done, AtPc, Reply, Woken
  <1>8. ASSUME NEW p \in PipeProc, read_killed(p) PROVE Asleep'
    BY <1>8 DEF read_killed, AtPc, Reply, MustWait
  <1>9. ASSUME NEW p \in PipeProc, read_empty(p) PROVE Asleep'
    BY <1>9 DEF read_empty, AtPc, MustWait
  <1>10. ASSUME NEW p \in PipeProc, read_ready(p) PROVE Asleep'
    BY <1>10 DEF read_ready, AtPc, MustWait
  <1>11. ASSUME NEW p \in PipeProc, read_byte(p) PROVE Asleep'
    BY <1>11 DEF read_byte, AtPc
  <1>12. ASSUME NEW p \in PipeProc, read_done(p) PROVE Asleep'
    BY <1>12 DEF read_done, AtPc, Reply, Woken
  <1>13. ASSUME NEW p \in PipeProc, pipeclose(p) PROVE Asleep'
    BY <1>13 DEF pipeclose, Woken, BothClosed
  <1>14. ASSUME NEW p \in PipeProc, close(p) PROVE Asleep'
    BY <1>14 DEF close
  <1>15. ASSUME NEW p \in PipeProc, call(p) PROVE Asleep'
    BY <1>15 DEF call
  <1>16. ASSUME NEW p \in PipeProc, killPipe(p) PROVE Asleep'
    <2>1. \A q \in PipeProc : pkilled[q] => pkilled'[q]
      BY Zenon, <1>16 DEF killPipe, Booleans
    <2>2. chan' = [chan EXCEPT ![p] = "none"] /\ UNCHANGED <<nread, nwrite, readopen, writeopen, lock, ppc>>
      BY <1>16 DEF killPipe
    <2>3. QED
      BY <2>1, <2>2
  <1>17. CASE UNCHANGED pipevars
    BY <1>17 DEF pipevars, AtPc
  <1>18. QED
    BY Zenon, <1>1, <1>2, <1>3, <1>4, <1>5, <1>6, <1>7, <1>8, <1>9, <1>10, <1>11, <1>12, <1>13, <1>14, <1>15, <1>16, <1>17 DEF PipeNext, Kernel

\* ... and the meaning of an empty read.
LEMMA EofStep == ASSUME PInv, [PipeNext]_pipevars PROVE EofAtEnd'
  <1> USE Constants DEF PInv, Types, pipe, Owned, Ends, EofAtEnd, AtPc, Empty, Jump, InLock, Gone
  <1>1. ASSUME NEW p \in PipeProc, awake(p) PROVE EofAtEnd'
    BY <1>1 DEF awake
  <1>2. ASSUME NEW p \in PipeProc, sleep(p, "wsleep", "nwrite") PROVE EofAtEnd'
    BY <1>2 DEF sleep, AtPc
  <1>3. ASSUME NEW p \in PipeProc, sleep(p, "rsleep", "nread") PROVE EofAtEnd'
    BY <1>3 DEF sleep, AtPc
  <1>4. ASSUME NEW p \in PipeProc, write_byte(p) PROVE EofAtEnd'
    BY <1>4 DEF write_byte, AtPc
  <1>5. ASSUME NEW p \in PipeProc, write_broken(p) PROVE EofAtEnd'
    BY <1>5 DEF write_broken, AtPc, Reply
  <1>6. ASSUME NEW p \in PipeProc, write_full(p) PROVE EofAtEnd'
    BY <1>6 DEF write_full, AtPc, Woken
  <1>7. ASSUME NEW p \in PipeProc, write_done(p) PROVE EofAtEnd'
    BY <1>7 DEF write_done, AtPc, Reply, Woken
  <1>8. ASSUME NEW p \in PipeProc, read_killed(p) PROVE EofAtEnd'
    BY <1>8 DEF read_killed, AtPc, Reply, MustWait
  <1>9. ASSUME NEW p \in PipeProc, read_empty(p) PROVE EofAtEnd'
    BY <1>9 DEF read_empty, AtPc, MustWait
  <1>10. ASSUME NEW p \in PipeProc, read_ready(p) PROVE EofAtEnd'
    BY <1>10 DEF read_ready, AtPc, MustWait
  <1>11. ASSUME NEW p \in PipeProc, read_byte(p) PROVE EofAtEnd'
    BY <1>11 DEF read_byte, AtPc
  <1>12. ASSUME NEW p \in PipeProc, read_done(p) PROVE EofAtEnd'
    BY <1>12 DEF read_done, AtPc, Reply, Woken
  <1>13. ASSUME NEW p \in PipeProc, pipeclose(p) PROVE EofAtEnd'
    BY <1>13 DEF pipeclose, Woken, BothClosed
  <1>14. ASSUME NEW p \in PipeProc, close(p) PROVE EofAtEnd'
    BY <1>14 DEF close
  <1>15. ASSUME NEW p \in PipeProc, call(p) PROVE EofAtEnd'
    BY <1>15 DEF call
  <1>16. ASSUME NEW p \in PipeProc, killPipe(p) PROVE EofAtEnd'
    BY <1>16 DEF killPipe
  <1>17. CASE UNCHANGED pipevars
    BY <1>17 DEF pipevars, AtPc
  <1>18. QED
    BY Zenon, <1>1, <1>2, <1>3, <1>4, <1>5, <1>6, <1>7, <1>8, <1>9, <1>10, <1>11, <1>12, <1>13, <1>14, <1>15, <1>16, <1>17 DEF PipeNext, Kernel

-----------------------------------------------------------------------------
(* The ring as a queue *)

\* u bytes from counter r on, in the cells d
Queue(d, r, u) == [k \in 1 .. u |-> d[((r + k - 1) % WordMod) % PIPESIZE]]

Cells == [0 .. PIPESIZE - 1 -> Byte \cup {Nobody}]

\* The bytes from nread on are a sequence whose members are cells of the ring.
LEMMA QueueFacts == ASSUME NEW d \in Cells, NEW r \in Word, NEW u \in 0 .. PIPESIZE
                    PROVE  /\ Queue(d, r, u) \in Seq(Byte \cup {Nobody}) /\ Len(Queue(d, r, u)) = u
                           /\ \A k \in 1 .. u : Queue(d, r, u)[k] = d[(r + k - 1) % PIPESIZE]
  <1> USE Constants DEF Word, Cells
  <1>1. ASSUME NEW k \in 1 .. PIPESIZE PROVE ((r + k - 1) % WordMod) % PIPESIZE = (r + k - 1) % PIPESIZE
    <2>1. PICK x \in Int : x = r + k - 1
      OBVIOUS
    <2>2. 0 <= x /\ x < 2 * WordMod
      BY <2>1
    <2>3. x % WordMod = x \/ x % WordMod = x - WordMod
      <3>1. /\ 0 <= x /\ x < WordMod => x % WordMod = x
            /\ WordMod <= x /\ x < 2 * WordMod => x % WordMod = x - WordMod
        BY Zenon, ModWrap
      <3>2. QED
        BY <2>2, <3>1
    <2>4. (x - WordMod) % PIPESIZE = x % PIPESIZE
      BY Zenon, ModShift
    <2>5. (x % WordMod) % PIPESIZE = x % PIPESIZE
      BY Zenon, <2>3, <2>4
    <2>6. QED
      BY Zenon, <2>1, <2>5
  <1>2. ASSUME NEW k \in 1 .. u PROVE d[((r + k - 1) % WordMod) % PIPESIZE] \in Byte \cup {Nobody}
    <2>1. r + k - 1 \in Int
      OBVIOUS
    <2>2. (r + k - 1) % WordMod \in Int
      BY <2>1, DivMod
    <2>3. ((r + k - 1) % WordMod) % PIPESIZE \in 0 .. PIPESIZE - 1
      BY Zenon, <2>2, DivMod
    <2>4. QED
      BY Zenon, <2>3
  <1>3. Queue(d, r, u) \in [1 .. u -> Byte \cup {Nobody}]
    BY Zenon, <1>2 DEF Queue
  <1>4. Queue(d, r, u) \in Seq(Byte \cup {Nobody}) /\ Len(Queue(d, r, u)) = u
    BY <1>3
  <1>5. \A k \in 1 .. u : Queue(d, r, u)[k] = d[((r + k - 1) % WordMod) % PIPESIZE]
    BY Zenon DEF Queue
  <1>6. \A k \in 1 .. u : k \in 1 .. PIPESIZE
    OBVIOUS
  <1>7. QED
    BY Zenon, <1>1, <1>4, <1>5, <1>6

\* The distance of two counters, and a counter after ++
LEMMA Distance == \A x, y \in Word : (x - y) % WordMod = IF x >= y THEN x - y ELSE x - y + WordMod
  <1> USE Constants DEF Word
  <1> SUFFICES ASSUME NEW x \in Word, NEW y \in Word PROVE (x - y) % WordMod = IF x >= y THEN x - y ELSE x - y + WordMod
    OBVIOUS
  <1>1. PICK d \in Int : d = x - y
    OBVIOUS
  <1>2. (0 <= d /\ d < WordMod => d % WordMod = d) /\ (-WordMod <= d /\ d < 0 => d % WordMod = d + WordMod)
    BY Zenon, ModWrap
  <1>3. QED
    BY <1>1, <1>2

\* A counter goes up by one and wraps.
LEMMA IncIs == \A x \in Word : Inc(x) = IF x = WordMod - 1 THEN 0 ELSE x + 1
  <1> USE Constants DEF Word
  <1> SUFFICES ASSUME NEW x \in Word PROVE Inc(x) = IF x = WordMod - 1 THEN 0 ELSE x + 1
    OBVIOUS
  <1>1. PICK d \in Int : d = x + 1
    OBVIOUS
  <1>2. (0 <= d /\ d < WordMod => d % WordMod = d) /\ (WordMod <= d /\ d < 2 * WordMod => d % WordMod = d - WordMod)
    BY Zenon, ModWrap
  <1>3. QED
    BY <1>1, <1>2 DEF Inc

\* The ring and its counters, as the lemmas on queues want them.
LEMMA Rings == ASSUME PInv
               PROVE  /\ data \in Cells /\ nread \in Word /\ nwrite \in Word /\ Used \in 0 .. PIPESIZE
                      /\ InPipe = Queue(data, nread, Used)
                      /\ nwrite = nread + Used \/ nwrite = nread + Used - WordMod
  <1> USE Constants DEF Word
  <1>1. data \in Cells /\ nread \in Word /\ nwrite \in Word
    BY Zenon DEF PInv, Types, Cells
  <1>2. Used = IF nwrite >= nread THEN nwrite - nread ELSE nwrite - nread + WordMod
    BY Zenon, <1>1, Distance DEF Used
  <1>3. Used <= PIPESIZE
    BY Zenon DEF PInv
  <1>4. InPipe = Queue(data, nread, Used)
    BY Zenon DEF InPipe, Queue, Used
  <1>5. QED
    BY <1>1, <1>2, <1>3, <1>4

\* write_byte appends the byte: it goes to the one cell after the unread ones.
LEMMA WriteQueue ==
    ASSUME PInv, NEW b \in Byte, ~ Full, data' = [data EXCEPT ![nwrite % PIPESIZE] = b], nwrite' = Inc(nwrite), nread' = nread
    PROVE  Used' = Used + 1 /\ Len(InPipe) < PIPESIZE /\ Used' <= PIPESIZE /\ InPipe' = Append(InPipe, b)
  <1>a. data \in Cells /\ nread \in Word /\ nwrite \in Word /\ Used \in 0 .. PIPESIZE
    BY Zenon, Rings
  <1>b. InPipe = Queue(data, nread, Used)
    BY Zenon, Rings
  <1>c. nwrite = nread + Used \/ nwrite = nread + Used - WordMod
    BY Zenon, Rings
  <1>1. Used < PIPESIZE
    BY <1>a, Counters, Constants DEF Word
  <1>2. nwrite' \in Word /\ nwrite' = IF nwrite = WordMod - 1 THEN 0 ELSE nwrite + 1
    BY <1>a, IncIs, Counters, Constants DEF Word
  <1>3. Used' = IF nwrite' >= nread THEN nwrite' - nread ELSE nwrite' - nread + WordMod
    BY Zenon, <1>a, <1>2, Distance, Constants DEF Used
  <1>4. Used' = Used + 1
    BY <1>a, <1>c, <1>1, <1>2, <1>3, Constants DEF Word
  <1>5. nwrite % PIPESIZE = (nread + Used) % PIPESIZE
    <2>1. PICK x \in Int : x = nread + Used
      BY <1>a, Constants DEF Word
    <2>2. (x - WordMod) % PIPESIZE = x % PIPESIZE
      BY Zenon, ModShift, Constants
    <2>3. nwrite = x \/ nwrite = x - WordMod
      BY <1>a, <1>c, <2>1, Constants DEF Word
    <2>4. QED
      BY Zenon, <2>1, <2>2, <2>3
  <1>6. nwrite % PIPESIZE \in 0 .. PIPESIZE - 1
    BY <1>a, DivMod, Constants DEF Word
  <1>7. data' \in Cells /\ data'[nwrite % PIPESIZE] = b
    BY <1>a, <1>6, Constants DEF Cells, Word
  <1>8. ASSUME NEW k \in 1 .. Used PROVE data'[(nread + k - 1) % PIPESIZE] = data[(nread + k - 1) % PIPESIZE]
    <2>1. PICK x \in Int, y \in Int : x = nread + k - 1 /\ y = nread + Used
      BY <1>a, Constants DEF Word
    <2>2. 0 < y - x /\ y - x < PIPESIZE
      BY <1>a, <1>1, <2>1, Constants DEF Word
    <2>3. x % PIPESIZE # y % PIPESIZE
      BY Zenon, <2>2, ModDistinct, Constants
    <2>4. x % PIPESIZE \in 0 .. PIPESIZE - 1
      BY DivMod, Constants DEF Word
    <2>5. QED
      BY Zenon, <1>a, <1>5, <2>1, <2>3, <2>4 DEF Cells
  <1>9. /\ InPipe \in Seq(Byte \cup {Nobody}) /\ Len(InPipe) = Used
        /\ \A k \in 1 .. Used : InPipe[k] = data[(nread + k - 1) % PIPESIZE]
    BY Zenon, <1>a, QueueFacts, <1>b
  <1>10. InPipe' = Queue(data', nread, Used + 1)
    <2>1. InPipe' = Queue(data', nread', Used')
      BY Zenon DEF InPipe, Queue, Used
    <2>2. QED
      BY Zenon, <1>4, <2>1
  <1>11. /\ InPipe' \in Seq(Byte \cup {Nobody}) /\ Len(InPipe') = Used + 1
         /\ \A k \in 1 .. Used + 1 : InPipe'[k] = data'[(nread + k - 1) % PIPESIZE]
    <2>1. Used + 1 \in 0 .. PIPESIZE
      BY <1>a, <1>1, Constants DEF Word
    <2>2. /\ Queue(data', nread, Used + 1) \in Seq(Byte \cup {Nobody}) /\ Len(Queue(data', nread, Used + 1)) = Used + 1
          /\ \A k \in 1 .. Used + 1 : Queue(data', nread, Used + 1)[k] = data'[(nread + k - 1) % PIPESIZE]
      BY Zenon, <1>a, <1>7, <2>1, QueueFacts
    <2>3. QED
      BY Zenon, <1>10, <2>2
  <1>12. \A k \in 1 .. Len(InPipe) : InPipe'[k] = InPipe[k]
    <2>1. \A k \in 1 .. Used : k \in 1 .. Used + 1
      BY <1>a
    <2>2. QED
      BY Zenon, <1>8, <1>9, <1>11, <2>1
  <1>13. InPipe'[Len(InPipe) + 1] = b
    <2>1. Used + 1 \in 1 .. Used + 1 /\ nread + (Used + 1) - 1 = nread + Used
      BY <1>a, Constants DEF Word
    <2>2. QED
      BY Zenon, <1>5, <1>7, <1>9, <1>11, <2>1
  <1>14. InPipe' = Append(InPipe, b)
    <2>1. b \in Byte \cup {Nobody} /\ Len(InPipe') = Len(InPipe) + 1
      BY Zenon, <1>9, <1>11
    <2>2. QED
      BY <1>9, <1>11, <1>12, <1>13, <2>1, IsAppend
  <1>15. QED
    BY <1>a, <1>1, <1>4, <1>9, <1>14, Constants DEF Word

\* read_byte takes the oldest byte away.
LEMMA ReadQueue == ASSUME PInv, ~ Empty, data' = data, nwrite' = nwrite, nread' = Inc(nread)
                   PROVE  Used' = Used - 1 /\ Used' <= PIPESIZE /\ InPipe # << >> /\ InPipe' = Tail(InPipe)
  <1>a. data \in Cells /\ nread \in Word /\ nwrite \in Word /\ Used \in 0 .. PIPESIZE
    BY Zenon, Rings
  <1>b. InPipe = Queue(data, nread, Used)
    BY Zenon, Rings
  <1>c. nwrite = nread + Used \/ nwrite = nread + Used - WordMod
    BY Zenon, Rings
  <1>1. Used > 0
    BY <1>a, Counters, Constants DEF Word
  <1>2. nread' \in Word /\ nread' = IF nread = WordMod - 1 THEN 0 ELSE nread + 1
    BY <1>a, IncIs, Counters, Constants DEF Word
  <1>3. Used' = IF nwrite >= nread' THEN nwrite - nread' ELSE nwrite - nread' + WordMod
    BY Zenon, <1>a, <1>2, Distance, Constants DEF Used
  <1>4. Used' = Used - 1
    BY <1>a, <1>c, <1>1, <1>2, <1>3, Constants DEF Word
  <1>5. ASSUME NEW k \in Nat PROVE (nread' + k - 1) % PIPESIZE = (nread + (k + 1) - 1) % PIPESIZE
    <2>1. PICK x \in Int : x = nread + (k + 1) - 1
      BY <1>a, Constants DEF Word
    <2>2. (x - WordMod) % PIPESIZE = x % PIPESIZE
      BY Zenon, ModShift, Constants
    <2>3. nread' + k - 1 = x \/ nread' + k - 1 = x - WordMod
      BY <1>a, <1>2, <2>1, Constants DEF Word
    <2>4. QED
      BY Zenon, <2>1, <2>2, <2>3
  <1>6. /\ InPipe \in Seq(Byte \cup {Nobody}) /\ Len(InPipe) = Used
        /\ \A k \in 1 .. Used : InPipe[k] = data[(nread + k - 1) % PIPESIZE]
    BY Zenon, <1>a, QueueFacts, <1>b
  <1>7. InPipe' = Queue(data, nread', Used - 1)
    BY Zenon, <1>4 DEF InPipe, Queue, Used
  <1>8. /\ InPipe' \in Seq(Byte \cup {Nobody}) /\ Len(InPipe') = Used - 1
        /\ \A k \in 1 .. Used - 1 : InPipe'[k] = data[(nread' + k - 1) % PIPESIZE]
    <2>1. Used - 1 \in 0 .. PIPESIZE
      BY <1>a, <1>1, Constants DEF Word
    <2>2. QED
      BY Zenon, <1>a, QueueFacts, <1>2, <1>7, <2>1, <1>b
  <1>9. ASSUME NEW k \in 1 .. Len(InPipe') PROVE InPipe'[k] = InPipe[k + 1]
    <2>1. k \in 1 .. Used - 1 /\ k + 1 \in 1 .. Used /\ k \in Nat
      BY <1>a, <1>1, <1>8, Constants DEF Word
    <2>2. QED
      BY Zenon, <1>5, <1>6, <1>8, <2>1
  <1>10. Len(InPipe) = Len(InPipe') + 1
    BY <1>a, <1>6, <1>8, Constants DEF Word
  <1>11. InPipe' = Tail(InPipe) /\ InPipe # << >>
    BY Zenon, <1>6, <1>8, <1>9, <1>10, IsTail
  <1>12. QED
    BY <1>a, <1>4, <1>11, Constants DEF Word

\* What a step does to the ring: a byte more, a byte less, or nothing.
LEMMA RingStep ==
    ASSUME PInv, [PipeNext]_pipevars
    PROVE  \/ \E p \in PipeProc : write_byte(p)
           \/ \E p \in PipeProc : read_byte(p)
           \/ UNCHANGED <<data, nread, nwrite>>
  <1> USE DEF pipe
  <1>1. ASSUME NEW p \in PipeProc,
               \/ awake(p) \/ sleep(p, "wsleep", "nwrite") \/ sleep(p, "rsleep", "nread")
               \/ write_broken(p) \/ write_full(p) \/ write_done(p)
               \/ read_killed(p) \/ read_empty(p) \/ read_ready(p) \/ read_done(p)
               \/ pipeclose(p) \/ close(p) \/ call(p) \/ killPipe(p)
        PROVE  UNCHANGED <<data, nread, nwrite>>
    BY Zenon, <1>1 DEF awake, sleep, write_broken, write_full, write_done, read_killed, read_empty, read_ready,
                       read_done, pipeclose, close, call, killPipe
  <1>2. CASE UNCHANGED pipevars
    BY Zenon, <1>2 DEF pipevars
  <1>3. QED
    BY Zenon, <1>1, <1>2 DEF PipeNext, Kernel

\* No step puts more than PIPESIZE bytes into the ring.
LEMMA UsedStep == ASSUME PInv, [PipeNext]_pipevars PROVE Used' <= PIPESIZE
  <1>1. ASSUME NEW p \in PipeProc, write_byte(p) PROVE Used' <= PIPESIZE
    BY Zenon, <1>1, WriteQueue DEF write_byte
  <1>2. ASSUME NEW p \in PipeProc, read_byte(p) PROVE Used' <= PIPESIZE
    BY Zenon, <1>2, ReadQueue DEF read_byte
  <1>3. CASE UNCHANGED <<data, nread, nwrite>>
    BY Zenon, <1>3 DEF PInv, Used
  <1>4. QED
    BY Zenon, RingStep, <1>1, <1>2, <1>3

\* A new pipe
LEMMA InitInv == PipeInit => PInv
  <1> SUFFICES ASSUME PipeInit PROVE PInv
    OBVIOUS
  <1> USE Constants
  <1>1. Types
    BY DEF PipeInit, Types, Word, InLock, Gone
  <1>2. Booleans
    BY Zenon DEF PipeInit, Booleans
  <1>3. Owned /\ Ends /\ Asleep /\ EofAtEnd
    BY DEF PipeInit, Owned, Ends, Asleep, EofAtEnd, AtPc, InLock, Gone
  <1>4. Used = 0
    BY Counters DEF PipeInit, Word, Empty
  <1>5. Used <= PIPESIZE
    BY <1>4
  <1>6. QED
    BY Zenon, <1>1, <1>2, <1>3, <1>5 DEF PInv

-----------------------------------------------------------------------------
\* The inductive invariant holds in every state of a pipe.
THEOREM Invariance == PipeSpec => []PInv
  <1>1. PInv /\ [PipeNext]_pipevars => PInv'
    BY Zenon, TypesStep, BooleansStep, OwnedStep, EndsStep, UsedStep, AsleepStep, EofStep DEF PInv
  <1>2. QED
    BY InitInv, <1>1, PTL DEF PipeSpec

\* Whatever the number of readers and writers and the size of the ring, nobody sleeps in piperead or
\* pipewrite beside what it waits for, and a reader takes for the end of file only a closed write end.
THEOREM Events == PipeSpec => []EventsSeen
  <1>1. PInv => EventsSeen
    <2> SUFFICES ASSUME PInv PROVE EventsSeen
      OBVIOUS
    <2>1. lock = Nobody => \A q \in Writer \cup Reader : ~ AtPc(q, "write") /\ ~ AtPc(q, "copy")
      BY Zenon, Constants DEF AtPc
    <2>2. QED
      BY Zenon, <2>1 DEF PInv, Asleep, EventsSeen, NoMissedEvent
  <1>2. QED
    BY Invariance, <1>1, PTL

\* pipeclose frees the page when nobody can use the pipe any more.
THEOREM FreedUnused == PipeSpec => []NoUseAfterFree
  <1>1. PInv => NoUseAfterFree
    BY Zenon, Constants DEF PInv, Ends, NoUseAfterFree, Gone
  <1>2. QED
    BY Invariance, <1>1, PTL

\* A pipe implements the bounded queue, for every ring whose size divides the range of the counters.
THEOREM Refinement == PipeSpec => Fifo
  <1>1. PipeInit => Abstract!ChannelInit
    <2> SUFFICES ASSUME PipeInit PROVE Abstract!ChannelInit
      OBVIOUS
    <2>1. PInv /\ Used = 0
      BY InitInv, Counters DEF PInv, Types, PipeInit, Empty
    <2>2. data \in Cells /\ nread \in Word /\ Used \in 0 .. PIPESIZE /\ InPipe = Queue(data, nread, Used)
      BY Zenon, <2>1, Rings
    <2>3. InPipe \in Seq(Byte \cup {Nobody}) /\ Len(InPipe) = Used
      BY Zenon, <2>2, QueueFacts
    <2>4. InPipe = << >>
      BY <2>1, <2>3
    <2>5. QED
      BY Zenon, <2>4 DEF PipeInit, Abstract!ChannelInit
  <1>2. ASSUME PInv, [PipeNext]_pipevars PROVE [Abstract!ChannelNext]_<<InPipe, readopen, writeopen>>
    <2>1. ASSUME NEW p \in PipeProc, write_byte(p) PROVE Abstract!ChannelNext
      <3>1. PICK b \in Byte : data' = [data EXCEPT ![nwrite % PIPESIZE] = b]
        BY Zenon, <2>1 DEF write_byte
      <3>2. Len(InPipe) < PIPESIZE /\ InPipe' = Append(InPipe, b)
        BY Zenon, <1>2, <2>1, <3>1, WriteQueue DEF write_byte
      <3>3. writeopen /\ UNCHANGED <<readopen, writeopen>>
        BY Zenon, <1>2, <2>1, Constants DEF write_byte, AtPc, PInv, Owned, Ends
      <3>4. QED
        BY Zenon, <3>2, <3>3 DEF Abstract!ChannelNext, Abstract!Put
    <2>2. ASSUME NEW p \in PipeProc, read_byte(p) PROVE Abstract!ChannelNext
      <3>1. InPipe # << >> /\ InPipe' = Tail(InPipe)
        BY Zenon, <1>2, <2>2, ReadQueue DEF read_byte
      <3>2. readopen /\ UNCHANGED <<readopen, writeopen>>
        BY Zenon, <1>2, <2>2, Constants DEF read_byte, AtPc, PInv, Owned, Ends
      <3>3. QED
        BY Zenon, <3>1, <3>2 DEF Abstract!ChannelNext, Abstract!Get
    <2>3. ASSUME UNCHANGED <<data, nread, nwrite>> PROVE InPipe' = InPipe
      BY Zenon, <2>3 DEF InPipe
    <2>4. ASSUME NEW p \in PipeProc, pipeclose(p) PROVE Abstract!ChannelNext
      <3>1. InPipe' = InPipe
        BY Zenon, <2>3, <2>4 DEF pipeclose
      <3>2. /\ p \in Writer => writeopen /\ writeopen' = FALSE /\ readopen' = readopen
            /\ p \in Reader => readopen /\ readopen' = FALSE /\ writeopen' = writeopen
        BY Zenon, <1>2, <2>4, Constants DEF pipeclose, PInv, Booleans, Ends
      <3>3. QED
        BY Zenon, <3>1, <3>2, Constants DEF Abstract!ChannelNext, Abstract!CloseWrite, Abstract!CloseRead
    <2>5. ASSUME NEW p \in PipeProc,
                 \/ awake(p) \/ sleep(p, "wsleep", "nwrite") \/ sleep(p, "rsleep", "nread")
                 \/ write_broken(p) \/ write_full(p) \/ write_done(p)
                 \/ read_killed(p) \/ read_empty(p) \/ read_ready(p) \/ read_done(p)
                 \/ close(p) \/ call(p) \/ killPipe(p)
          PROVE  UNCHANGED <<data, nread, nwrite, readopen, writeopen>>
      BY Zenon, <2>5 DEF pipe, awake, sleep, write_broken, write_full, write_done, read_killed, read_empty, read_ready,
                         read_done, close, call, killPipe
    <2>6. CASE UNCHANGED pipevars
      BY Zenon, <2>3, <2>6 DEF pipevars
    <2>7. QED
      BY Zenon, <1>2, <2>1, <2>2, <2>3, <2>4, <2>5, <2>6 DEF PipeNext, Kernel
  <1>3. QED
    BY Invariance, <1>1, <1>2, PTL DEF PipeSpec, Fifo, Abstract!ChannelSpec
=============================================================================
