------------------------------ MODULE TtyProof ------------------------------
(***************************************************************************)
(* For any size of tty_in, any processes that read and any input: the ring *)
(* behaves as an editor of one line behind finished lines, and no reader   *)
(* waits while there is a line to read.                                    *)
(***************************************************************************)
EXTENDS Tty, ProcessesProof

Values == Stored \cup {"nul"}
Cells  == [0 .. IBLEN - 1 -> Values]
Ttys   == [in : Cells, istart : 0 .. IBLEN - 1, icount : 0 .. IBLEN, eof : BOOLEAN]

Kept == Buffered(tty)

-----------------------------------------------------------------------------
(* Where a loop stops *)

\* m is where a loop from k upwards stops: at N or at the first of Stop.
StopsAt(N, Stop, k, m) == /\ m \in k .. N /\ (m = N \/ m \in Stop)
                          /\ \A j \in k .. m - 1 : j \notin Stop

LEMMA StopExists ==
  ASSUME NEW N \in Nat, NEW Stop, NEW k \in 0 .. N
  PROVE  \E m \in k .. N : StopsAt(N, Stop, k, m)
<1> DEFINE D == {i \in 1 .. N - k + 1 : i + k - 1 = N \/ i + k - 1 \in Stop}
<1>1. N - k + 1 \in D
  OBVIOUS
<1>2. D \in SUBSET (1 .. N - k + 1) /\ N - k + 1 \in Nat /\ D # {}
  BY <1>1
<1> HIDE DEF D
<1>3. PICK i \in D : \A j \in 1 .. i - 1 : j \notin D
  BY <1>2, FirstIndex
<1>4. i \in 1 .. N - k + 1 /\ (i + k - 1 = N \/ i + k - 1 \in Stop)
  BY <1>3 DEF D
<1>5. ASSUME NEW j \in k .. i + k - 1 - 1  PROVE j \notin Stop
  <2>1. j - k + 1 \in 1 .. i - 1 /\ j - k + 1 \in 1 .. N - k + 1 /\ (j - k + 1) + k - 1 = j
    BY <1>4
  <2> QED BY <1>3, <2>1 DEF D
<1>6. i + k - 1 \in k .. N
  BY <1>4
<1> QED BY <1>4, <1>5, <1>6 DEF StopsAt

\* The recursive function that stands for the loop exists.
LEMMA ScanExists ==
  ASSUME NEW N \in Nat, NEW Stop
  PROVE  \E f : f = [n \in 0 .. N |-> IF n = N \/ n \in Stop THEN n ELSE f[n + 1]]
<1> DEFINE g == [k \in 0 .. N |-> CHOOSE m \in k .. N : StopsAt(N, Stop, k, m)]
<1>1. \A k \in 0 .. N : g[k] \in k .. N /\ StopsAt(N, Stop, k, g[k])
  BY StopExists
<1>0. g = [k \in 0 .. N |-> g[k]]
  OBVIOUS
<1> HIDE DEF g
<1>2. ASSUME NEW k \in 0 .. N, k = N \/ k \in Stop  PROVE g[k] = k
  <2>1. g[k] \in k .. N /\ StopsAt(N, Stop, k, g[k])
    BY <1>1
  <2>2. CASE g[k] > k
    <3>1. k \in k .. g[k] - 1 /\ k # N
      BY <2>1, <2>2
    <3> QED BY <1>2, <2>1, <3>1 DEF StopsAt
  <2> QED BY <2>1, <2>2
<1>3. ASSUME NEW k \in 0 .. N, ~(k = N \/ k \in Stop)  PROVE g[k] = g[k + 1]
  <2>1. k + 1 \in 0 .. N
    BY <1>3
  <2>2. PICK a \in k .. N : a = g[k] /\ StopsAt(N, Stop, k, a)
    BY <1>1
  <2>3. PICK b \in k + 1 .. N : b = g[k + 1] /\ StopsAt(N, Stop, k + 1, b)
    BY <1>1, <2>1
  <2>4. a # k
    BY <1>3, <2>2 DEF StopsAt
  <2>5. ~(a < b)
    <3> SUFFICES ASSUME a < b PROVE FALSE
      OBVIOUS
    <3>1. a \in k + 1 .. b - 1 /\ a # N
      BY <2>4
    <3> QED BY <2>2, <2>3, <3>1 DEF StopsAt
  <2>6. ~(b < a)
    <3> SUFFICES ASSUME b < a PROVE FALSE
      OBVIOUS
    <3>1. b \in k .. a - 1 /\ b # N
      OBVIOUS
    <3> QED BY <2>2, <2>3, <3>1 DEF StopsAt
  <2> QED BY <2>2, <2>3, <2>5, <2>6
<1>4. \A k \in 0 .. N : g[k] = IF k = N \/ k \in Stop THEN k ELSE g[k + 1]
  BY <1>2, <1>3
<1>5. g = [n \in 0 .. N |-> IF n = N \/ n \in Stop THEN n ELSE g[n + 1]]
  BY <1>0, <1>4
<1> QED BY <1>5

\* Its value at 0 is where the loop stops.
LEMMA ScanStops ==
  ASSUME NEW N \in Nat, NEW Stop, NEW f,
         f = [n \in 0 .. N |-> IF n = N \/ n \in Stop THEN n ELSE f[n + 1]]
  PROVE  StopsAt(N, Stop, 0, f[0])
<1>1. \A k \in 0 .. N : f[k] = IF k = N \/ k \in Stop THEN k ELSE f[k + 1]
  OBVIOUS
<1> DEFINE D == {i \in 1 .. N + 1 : ~StopsAt(N, Stop, N + 1 - i, f[N + 1 - i])}
<1>2. ASSUME D # {} PROVE FALSE
  <2>1. D \in SUBSET (1 .. N + 1) /\ N + 1 \in Nat
    OBVIOUS
  <2> HIDE DEF D
  <2>2. PICK i \in D : \A j \in 1 .. i - 1 : j \notin D
    BY <1>2, <2>1, FirstIndex
  <2>3. PICK k \in 0 .. N : k = N + 1 - i
    BY <2>1, <2>2
  <2>4. ~StopsAt(N, Stop, k, f[k])
    BY <2>2, <2>3 DEF D
  <2>5. CASE k = N \/ k \in Stop
    <3>1. f[k] = k
      BY <1>1, <2>5
    <3> QED BY <2>4, <2>5, <3>1 DEF StopsAt
  <2>6. CASE ~(k = N \/ k \in Stop)
    <3>1. f[k] = f[k + 1] /\ k + 1 \in 0 .. N
      BY <1>1, <2>6
    <3>2. i - 1 \in 1 .. i - 1 /\ i - 1 \in 1 .. N + 1 /\ k + 1 = N + 1 - (i - 1)
      BY <2>1, <2>2, <2>3, <3>1
    <3>3. StopsAt(N, Stop, k + 1, f[k + 1])
      BY <2>2, <3>2 DEF D
    <3>4. PICK m \in k + 1 .. N : m = f[k + 1]
      BY <3>3 DEF StopsAt
    <3>5. \A j \in k .. m - 1 : j = k \/ j \in k + 1 .. m - 1
      OBVIOUS
    <3>6. StopsAt(N, Stop, k, m)
      <4>1. \A j \in k + 1 .. m - 1 : j \notin Stop
        BY <3>3, <3>4 DEF StopsAt
      <4>2. m = N \/ m \in Stop
        BY <3>3, <3>4 DEF StopsAt
      <4>3. \A j \in k .. m - 1 : j \notin Stop
        BY <2>6, <3>5, <4>1
      <4>4. m \in k .. N
        OBVIOUS
      <4> QED BY <4>2, <4>3, <4>4 DEF StopsAt
    <3> QED BY <2>4, <3>1, <3>4, <3>6
  <2> QED BY <2>5, <2>6
<1>3. N + 1 \notin D
  BY <1>2
<1> QED BY <1>3
-----------------------------------------------------------------------------
(* The circular buffer as a sequence *)

LEMMA Size == IBLEN \in Nat \ {0}
  BY TtyAssumption

LEMMA WrapIn ==
  ASSUME NEW x \in 0 .. 2 * IBLEN - 1
  PROVE  Wrap(x) \in 0 .. IBLEN - 1
  BY Size DEF Wrap

LEMMA BufferedIs ==
  ASSUME NEW t \in Ttys
  PROVE  /\ Buffered(t) \in Seq(Values) /\ Len(Buffered(t)) = t.icount
         /\ \A i \in 1 .. t.icount : /\ Wrap(t.istart + i - 1) \in 0 .. IBLEN - 1
                                     /\ Buffered(t)[i] = t.in[Wrap(t.istart + i - 1)]
<1>1. t.icount \in 0 .. IBLEN /\ t.istart \in 0 .. IBLEN - 1 /\ t.in \in Cells /\ IBLEN \in Nat
  BY Size DEF Ttys
<1>2. \A i \in 1 .. t.icount : Wrap(t.istart + i - 1) \in 0 .. IBLEN - 1
  BY <1>1, WrapIn
<1>3. \A i \in 1 .. t.icount : t.in[Wrap(t.istart + i - 1)] \in Values
  BY <1>1, <1>2 DEF Cells
<1>4. t.icount \in Nat
  BY <1>1
<1>5. Buffered(t) \in Seq(Values)
  BY <1>3, <1>4, IsASeq DEF Buffered
<1>6. Len(Buffered(t)) = t.icount
  BY <1>4, <1>5, LenProperties DEF Buffered
<1> QED BY <1>2, <1>5, <1>6 DEF Buffered

\* Two buffers with the same characters hold the same line.
LEMMA SameKept ==
  ASSUME NEW s \in Seq(Values), NEW r \in Seq(Values), Len(s) = Len(r),
         \A i \in 1 .. Len(s) : s[i] = r[i]
  PROVE  s = r
  BY SeqEqual

\* The last n characters go.
LEMMA DeleteKept ==
  ASSUME tty \in Ttys, NEW n \in 0 .. tty.icount
  PROVE  /\ Delete(n).tty \in Ttys
         /\ Buffered(Delete(n).tty) = SubSeq(Kept, 1, Len(Kept) - n)
<1>1. PICK t \in Ttys : t = Delete(n).tty /\ t.in = tty.in /\ t.istart = tty.istart /\ t.icount = tty.icount - n
  <2>1. Delete(n).tty = [tty EXCEPT !.icount = @ - n]
    BY DEF Delete
  <2>2. tty.icount - n \in 0 .. IBLEN
    BY Size DEF Ttys
  <2> QED BY <2>1, <2>2 DEF Ttys
<1>2. PICK s \in Seq(Values) : /\ s = Kept /\ Len(s) = tty.icount
                              /\ \A i \in 1 .. tty.icount : s[i] = tty.in[Wrap(tty.istart + i - 1)]
  BY BufferedIs DEF Kept
<1>3. PICK r \in Seq(Values) : /\ r = Buffered(t) /\ Len(r) = t.icount
                              /\ \A i \in 1 .. t.icount : r[i] = t.in[Wrap(t.istart + i - 1)]
  BY BufferedIs
<1>4. tty.icount \in Nat
  BY Size DEF Ttys
<1>5. /\ SubSeq(s, 1, Len(s) - n) \in Seq(Values) /\ Len(SubSeq(s, 1, Len(s) - n)) = Len(s) - n
      /\ \A i \in 1 .. Len(s) - n : SubSeq(s, 1, Len(s) - n)[i] = s[i]
  BY <1>2, <1>4, SubSeqOf
<1>6. r = SubSeq(s, 1, Len(s) - n)
  BY <1>1, <1>2, <1>3, <1>4, <1>5, SameKept
<1> QED BY <1>1, <1>2, <1>3, <1>6

\* A character is put behind the last one, if there is room.
LEMMA IputcharKept ==
  ASSUME tty \in Ttys, NEW ch \in Stored
  PROVE  /\ Iputchar(ch).tty \in Ttys
         /\ \/ Iputchar(ch).tty = tty
            \/ Len(Kept) < IBLEN /\ Buffered(Iputchar(ch).tty) = Append(Kept, ch)
<1>1. CASE Full
  BY <1>1 DEF Iputchar
<1>2. CASE ~Full
  <2>1. PICK n \in 0 .. IBLEN - 1, start \in 0 .. IBLEN - 1, N \in Nat :
             n = tty.icount /\ start = tty.istart /\ N = IBLEN
    BY <1>2, Size DEF Full, Ttys
  <2>2. start + n \in 0 .. 2 * IBLEN - 1
    BY <2>1
  <2>3. Wrap(start + n) \in 0 .. IBLEN - 1
    BY <2>2, WrapIn
  <2>4. PICK t \in Ttys : /\ t = Iputchar(ch).tty /\ t.istart = start /\ t.icount = n + 1
                         /\ t.in = [tty.in EXCEPT ![Wrap(start + n)] = ch]
    <3>1. Iputchar(ch).tty = [tty EXCEPT !.in[Wrap(tty.istart + tty.icount)] = ch, !.icount = @ + 1]
      BY <1>2 DEF Iputchar
    <3>2. [tty.in EXCEPT ![Wrap(start + n)] = ch] \in Cells
      BY <2>3 DEF Ttys, Cells, Values
    <3>3. n + 1 \in 0 .. IBLEN
      BY <2>1
    <3> QED BY <2>1, <3>1, <3>2, <3>3 DEF Ttys
  <2>5. PICK s \in Seq(Values) : /\ s = Kept /\ Len(s) = n
                                /\ \A i \in 1 .. n : /\ Wrap(start + i - 1) \in 0 .. IBLEN - 1
                                                     /\ s[i] = tty.in[Wrap(start + i - 1)]
    BY <2>1, BufferedIs DEF Kept
  <2>6. PICK r \in Seq(Values) : /\ r = Buffered(t) /\ Len(r) = n + 1
                                /\ \A i \in 1 .. n + 1 : r[i] = t.in[Wrap(t.istart + i - 1)]
    <3>1. PICK k : k = t.icount /\ k = n + 1
      BY <2>4
    <3>2. /\ Buffered(t) \in Seq(Values) /\ Len(Buffered(t)) = k
          /\ \A i \in 1 .. k : Buffered(t)[i] = t.in[Wrap(t.istart + i - 1)]
      BY <3>1, BufferedIs
    <3> QED BY <3>1, <3>2
  <2>7. /\ Append(s, ch) \in Seq(Values) /\ Len(Append(s, ch)) = n + 1
        /\ \A i \in 1 .. n : Append(s, ch)[i] = s[i]
        /\ Append(s, ch)[n + 1] = ch
    BY <2>5, AppendProperties DEF Values
  <2>8. tty.in \in Cells
    BY DEF Ttys
  <2>9. t.in[Wrap(start + n)] = ch /\ \A x \in 0 .. IBLEN - 1 : x # Wrap(start + n) => t.in[x] = tty.in[x]
    BY <2>3, <2>4, <2>8 DEF Cells
  <2>10. \A i \in 1 .. n + 1 : r[i] = t.in[Wrap(start + i - 1)]
    BY <2>4, <2>6
  <2>11. ASSUME NEW i \in 1 .. n + 1 PROVE r[i] = Append(s, ch)[i]
    <3>1. CASE i = n + 1
      <4>1. start + i - 1 = start + n
        BY <3>1
      <4>2. r[i] = t.in[Wrap(start + n)]
        BY <2>10, <4>1
      <4> QED BY <2>7, <2>9, <3>1, <4>2
    <3>2. CASE i \in 1 .. n
      <4>1. Wrap(start + i - 1) # Wrap(start + n)
        BY <2>1, <3>2 DEF Wrap
      <4>2. r[i] = tty.in[Wrap(start + i - 1)] /\ s[i] = tty.in[Wrap(start + i - 1)]
        BY <2>5, <2>9, <2>10, <3>2, <4>1
      <4> QED BY <2>7, <3>2, <4>2
    <3>3. i = n + 1 \/ i \in 1 .. n
      OBVIOUS
    <3> QED BY <3>1, <3>2, <3>3
  <2>12. r = Append(s, ch)
    BY <2>6, <2>7, <2>11, SameKept
  <2> QED BY <2>1, <2>4, <2>5, <2>6, <2>12
<1> QED BY <1>1, <1>2

\* What is behind the first n.
LEMMA RestIs ==
  ASSUME NEW s \in Seq(Values), NEW n \in Nat, n <= Len(s)
  PROVE  /\ SubSeq(s, n + 1, Len(s)) \in Seq(Values) /\ Len(SubSeq(s, n + 1, Len(s))) = Len(s) - n
         /\ \A i \in 1 .. Len(s) - n : SubSeq(s, n + 1, Len(s))[i] = s[n + i]
<1>1. PICK a \in Nat \ {0}, b \in Nat : a = n + 1 /\ b = Len(s)
  BY LenProperties
<1>2. /\ SubSeq(s, a, b) \in Seq(Values)
      /\ Len(SubSeq(s, a, b)) = IF a <= b THEN b - a + 1 ELSE 0
      /\ \A i \in 1 .. Len(SubSeq(s, a, b)) : SubSeq(s, a, b)[i] = s[a + i - 1]
  BY <1>1, SubSeqOf, SMTT(40)
<1>3. Len(SubSeq(s, a, b)) = b - n
  BY <1>1, <1>2
<1>4. \A i \in 1 .. b - n : a + i - 1 = n + i
  BY <1>1
<1> QED BY <1>1, <1>2, <1>3, <1>4

\* ReadTake() copies the first n characters.
LEMMA TakeKept ==
  ASSUME tty \in Ttys, NEW n \in 0 .. tty.icount,
         tty' = [tty EXCEPT !.icount = @ - n, !.istart = Wrap(@ + n)]
  PROVE  tty' \in Ttys /\ Buffered(tty') = SubSeq(Kept, n + 1, Len(Kept))
<1>1. PICK m \in 0 .. IBLEN, start \in 0 .. IBLEN - 1, N \in Nat :
           m = tty.icount /\ start = tty.istart /\ N = IBLEN /\ n <= m
  BY Size DEF Ttys
<1>2. Wrap(start + n) \in 0 .. IBLEN - 1 /\ m - n \in 0 .. IBLEN
  BY <1>1, WrapIn
<1>3. PICK t \in Ttys : t = tty' /\ t.in = tty.in /\ t.istart = Wrap(start + n) /\ t.icount = m - n
  <2>1. PICK w \in 0 .. IBLEN - 1, k \in 0 .. IBLEN : w = Wrap(start + n) /\ k = m - n
    BY <1>2
  <2>2. tty' = [tty EXCEPT !.icount = k, !.istart = w]
    BY <1>1, <2>1
  <2>3. tty' \in Ttys /\ tty'.in = tty.in /\ tty'.istart = w /\ tty'.icount = k
    BY <2>2 DEF Ttys
  <2> QED BY <2>1, <2>3
<1>4. PICK s \in Seq(Values) : /\ s = Kept /\ Len(s) = m
                              /\ \A i \in 1 .. m : s[i] = tty.in[Wrap(start + i - 1)]
  BY <1>1, BufferedIs DEF Kept
<1>5. PICK r \in Seq(Values) : /\ r = Buffered(t) /\ Len(r) = m - n
                              /\ \A i \in 1 .. m - n : r[i] = t.in[Wrap(t.istart + i - 1)]
  <2>1. PICK k : k = t.icount /\ k = m - n
    BY <1>3
  <2>2. /\ Buffered(t) \in Seq(Values) /\ Len(Buffered(t)) = k
        /\ \A i \in 1 .. k : Buffered(t)[i] = t.in[Wrap(t.istart + i - 1)]
    BY <2>1, BufferedIs
  <2> QED BY <2>1, <2>2
<1>6. /\ SubSeq(s, n + 1, Len(s)) \in Seq(Values) /\ Len(SubSeq(s, n + 1, Len(s))) = m - n
      /\ \A i \in 1 .. m - n : SubSeq(s, n + 1, Len(s))[i] = s[n + i]
  BY <1>1, <1>4, RestIs
<1>7. ASSUME NEW i \in 1 .. m - n PROVE r[i] = SubSeq(s, n + 1, Len(s))[i]
  <2>1. n + i \in 1 .. m /\ start + (n + i) - 1 = start + n + i - 1
    BY <1>1
  <2>2. Wrap(Wrap(start + n) + i - 1) = Wrap(start + n + i - 1)
    <3>1. start \in Nat /\ n \in Nat /\ start < N /\ n <= N /\ i \in Nat \ {0} /\ i <= N - n
      BY <1>1
    <3>2. CASE start + n >= N
      <4>1. Wrap(start + n) = start + n - N
        BY <1>1, <3>2 DEF Wrap
      <4>2. start + n - N + i - 1 < N /\ start + n + i - 1 >= N
        BY <3>1, <3>2
      <4>3. Wrap(start + n - N + i - 1) = start + n - N + i - 1 /\ Wrap(start + n + i - 1) = start + n + i - 1 - N
        BY <1>1, <4>2 DEF Wrap
      <4> QED BY <1>1, <3>1, <4>1, <4>3
    <3>3. CASE start + n < N
      <4>1. Wrap(start + n) = start + n
        BY <1>1, <3>1, <3>3 DEF Wrap
      <4> QED BY <4>1
    <3> QED BY <1>1, <3>1, <3>2, <3>3
  <2>3. r[i] = t.in[Wrap(start + n + i - 1)]
    BY <1>3, <1>5, <2>2
  <2>4. s[n + i] = tty.in[Wrap(start + n + i - 1)]
    BY <1>4, <2>1
  <2> QED BY <1>3, <1>6, <2>3, <2>4
<1>8. r = SubSeq(s, n + 1, Len(s))
  BY <1>5, <1>6, <1>7, SameKept
<1> QED BY <1>3, <1>4, <1>5, <1>8
-----------------------------------------------------------------------------
(* What the editing characters delete *)

LEMMA KeptIs == tty \in Ttys => Kept \in Seq(Values) /\ Len(Kept) = tty.icount /\ tty.icount \in Nat
<1> SUFFICES ASSUME tty \in Ttys PROVE Kept \in Seq(Values) /\ Len(Kept) = tty.icount /\ tty.icount \in Nat
  OBVIOUS
<1>1. tty.icount \in Nat
  BY Size DEF Ttys
<1> QED BY <1>1, BufferedIs DEF Kept

\* The last character but n.
LEMMA LastBut ==
  ASSUME tty \in Ttys, NEW n \in 0 .. tty.icount - 1
  PROVE  tty.in[Back(n)] = Kept[Len(Kept) - n]
<1>1. PICK c \in Nat, start \in Nat : c = tty.icount /\ start = tty.istart
  BY Size DEF Ttys
<1>2. c - n \in 1 .. c /\ start + c - 1 - n = start + (c - n) - 1
  BY <1>1
<1>3. Kept[c - n] = tty.in[Wrap(start + (c - n) - 1)]
  BY <1>1, <1>2, BufferedIs DEF Kept
<1>4. Back(n) = Wrap(start + (c - n) - 1)
  BY <1>1, <1>2 DEF Back
<1> QED BY <1>1, <1>3, <1>4, KeptIs

LEMMA Kinds == ASSUME NEW c, NEW d PROVE KIND(c) = KIND(d) <=> Editor!Group(c) = Editor!Group(d)
<1>1. /\ KIND(" ") = 0 /\ Editor!Group(" ") = "blank"
      /\ KIND("/") = 2 /\ Editor!Group("/") = "slash"
  BY DEF KIND, Editor!Group
<1>2. \A e : e # " " /\ e # "/" => KIND(e) = 1 /\ Editor!Group(e) = "word"
  BY DEF KIND, Editor!Group
<1>3. ASSUME NEW e
      PROVE  \/ KIND(e) = 0 /\ Editor!Group(e) = "blank"
             \/ KIND(e) = 1 /\ Editor!Group(e) = "word"
             \/ KIND(e) = 2 /\ Editor!Group(e) = "slash"
  BY <1>1, <1>2
<1>4. PICK k, l, g, h : k = KIND(c) /\ l = KIND(d) /\ g = Editor!Group(c) /\ h = Editor!Group(d)
  OBVIOUS
<1>5. (k = 0 /\ g = "blank") \/ (k = 1 /\ g = "word") \/ (k = 2 /\ g = "slash")
  BY <1>3, <1>4
<1>6. (l = 0 /\ h = "blank") \/ (l = 1 /\ h = "word") \/ (l = 2 /\ h = "slash")
  BY <1>3, <1>4
<1>7. k = l <=> g = h
  BY <1>5, <1>6
<1> QED BY <1>4, <1>7

\* The driver's test for a word is that of the editor.
LEMMA WordIs ==
  ASSUME tty \in Ttys, NEW n \in 1 .. tty.icount
  PROVE  Editor!Word(n) <=> \A k \in 0 .. n - 1 : InWord(k)
<1>1. PICK c \in Nat : c = tty.icount /\ c = Len(Kept) /\ n <= c /\ n > 0
  BY KeptIs
<1>2. Editor!Word(n) <=> \A i \in c - n + 1 .. c : Kept[i] # NL /\ Editor!Group(Kept[i]) = Editor!Group(Kept[c])
  BY <1>1 DEF Editor!Word, Editor!Group, Kept
<1>3. ASSUME NEW k \in 0 .. n - 1
      PROVE  InWord(k) <=> Kept[c - k] # NL /\ Editor!Group(Kept[c - k]) = Editor!Group(Kept[c])
  <2>1. tty.in[Back(k)] = Kept[c - k]
    BY <1>1, LastBut
  <2>2. 0 \in 0 .. tty.icount - 1 /\ c - 0 = c
    BY <1>1
  <2>3. tty.in[Back(0)] = Kept[c]
    BY <1>1, <2>2, LastBut
  <2> QED BY <2>1, <2>3, Kinds DEF InWord
<1>4. ASSUME \A k \in 0 .. n - 1 : InWord(k), NEW i \in c - n + 1 .. c
      PROVE  Kept[i] # NL /\ Editor!Group(Kept[i]) = Editor!Group(Kept[c])
  <2>1. c - i \in 0 .. n - 1 /\ c - (c - i) = i
    BY <1>1
  <2> QED BY <1>3, <1>4, <2>1
<1>5. ASSUME \A i \in c - n + 1 .. c : Kept[i] # NL /\ Editor!Group(Kept[i]) = Editor!Group(Kept[c]),
             NEW k \in 0 .. n - 1
      PROVE  InWord(k)
  <2>1. c - k \in c - n + 1 .. c
    BY <1>1
  <2> QED BY <1>3, <1>5, <2>1
<1> QED BY <1>2, <1>4, <1>5

\* An editor deletes the last n characters.
Deleted(n, t) == t \in Ttys /\ Buffered(t) = SubSeq(Kept, 1, Len(Kept) - n)

LEMMA NoneDeleted == ASSUME tty \in Ttys, NEW t, Deleted(0, t) PROVE Buffered(t) = Kept
<1>1. PICK c \in Nat : Kept \in Seq(Values) /\ Len(Kept) = c
  BY KeptIs
<1>2. PICK s \in Seq(Values) : s = Kept /\ Len(s) = c /\ Len(s) \in Nat
  BY <1>1
<1>3. /\ SubSeq(s, 1, c - 0) \in Seq(Values) /\ Len(SubSeq(s, 1, c - 0)) = c
      /\ \A i \in 1 .. c : SubSeq(s, 1, c - 0)[i] = s[i]
  <2>1. c - 0 = c /\ \A i \in 1 .. c : 1 + i - 1 = i
    OBVIOUS
  <2> QED BY <1>2, <2>1, SubSeqOf
<1>4. SubSeq(s, 1, c - 0) = s
  BY <1>2, <1>3, SameKept
<1> QED BY <1>2, <1>4 DEF Deleted

\* delchar() deletes a character of the line that is being typed, if there is one.
LEMMA DelcharKept ==
  ASSUME tty \in Ttys
  PROVE  \/ Deleted(0, Delchar.tty)
         \/ Kept # <<>> /\ Editor!Word(1) /\ Deleted(1, Delchar.tty)
<1>1. CASE tty.icount = 0 \/ tty.in[Back(0)] = NL
  <2>1. Delchar = Delete(0) /\ 0 \in 0 .. tty.icount
    BY <1>1, KeptIs DEF Delchar
  <2> QED BY <2>1, DeleteKept DEF Deleted
<1>2. CASE ~(tty.icount = 0 \/ tty.in[Back(0)] = NL)
  <2>1. Delchar = Delete(1) /\ 1 \in 0 .. tty.icount /\ 1 \in 1 .. tty.icount
    BY <1>2, KeptIs DEF Delchar
  <2>2. InWord(0)
    BY <1>2 DEF InWord
  <2>3. Editor!Word(1)
    <3>1. \A k \in 0 .. 1 - 1 : k = 0
      OBVIOUS
    <3> QED BY <2>1, <2>2, <3>1, WordIs
  <2>4. Kept # <<>>
    BY <2>1, KeptIs, EmptySeq
  <2> QED BY <2>1, <2>3, <2>4, DeleteKept DEF Deleted
<1> QED BY <1>1, <1>2

\* delword() deletes the last word of the line that is being typed.
LEMMA DelwordKept ==
  ASSUME tty \in Ttys
  PROVE  \/ Deleted(0, Delword.tty)
         \/ \E n \in 1 .. Len(Kept) : /\ Editor!Word(n) /\ (n = Len(Kept) \/ ~Editor!Word(n + 1))
                                      /\ Deleted(n, Delword.tty)
<1> DEFINE erased[n \in 0 .. tty.icount] == IF n = tty.icount \/ ~InWord(n) THEN n ELSE erased[n + 1]
           Stop == {n \in 0 .. tty.icount : ~InWord(n)}
<1>1. PICK N \in Nat : N = tty.icount /\ N = Len(Kept)
  BY KeptIs
<1>2. erased = [n \in 0 .. tty.icount |-> IF n = tty.icount \/ ~InWord(n) THEN n ELSE erased[n + 1]]
  <2>0. \E f : f = [n \in 0 .. N |-> IF n = N \/ n \in Stop THEN n ELSE f[n + 1]]
    <3>1. \A M \in Nat : \A X : \E f : f = [n \in 0 .. M |-> IF n = M \/ n \in X THEN n ELSE f[n + 1]]
      BY ScanExists
    <3> HIDE DEF Stop, erased
    <3>2. N \in Nat
      OBVIOUS
    <3>3. \A X : \E f : f = [n \in 0 .. N |-> IF n = N \/ n \in X THEN n ELSE f[n + 1]]
      BY <3>1, <3>2
    <3> QED BY <3>3
  <2>1. PICK f : f = [n \in 0 .. N |-> IF n = N \/ n \in Stop THEN n ELSE f[n + 1]]
    BY <2>0
  <2>2. f = [n \in 0 .. tty.icount |-> IF n = tty.icount \/ ~InWord(n) THEN n ELSE f[n + 1]]
    BY <1>1, <2>1
  <2> QED BY <2>2, Zenon
<1>3. Delword = Delete(erased[0])
  BY DEF Delword
<1> HIDE DEF erased
<1>4. erased = [n \in 0 .. N |-> IF n = N \/ n \in Stop THEN n ELSE erased[n + 1]]
  BY <1>1, <1>2
<1>5. StopsAt(N, Stop, 0, erased[0])
  <2> HIDE DEF Stop
  <2> QED BY <1>4, ScanStops
<1>6. PICK m \in 0 .. N : m = erased[0] /\ (m = N \/ m \in Stop) /\ \A j \in 0 .. m - 1 : j \notin Stop
  BY <1>5 DEF StopsAt
<1>7. Deleted(m, Delword.tty)
  BY <1>1, <1>3, <1>6, DeleteKept DEF Deleted
<1>8. CASE m = 0
  BY <1>7, <1>8
<1>9. CASE m # 0
  <2>1. m \in 1 .. N
    BY <1>9
  <2>2. \A j \in 0 .. m - 1 : InWord(j)
    BY <1>1, <1>6
  <2>3. Editor!Word(m)
    BY <1>1, <2>1, <2>2, WordIs
  <2>4. m # N => ~Editor!Word(m + 1)
    <3> SUFFICES ASSUME m # N PROVE ~Editor!Word(m + 1)
      OBVIOUS
    <3>1. m + 1 \in 1 .. N /\ m \in 0 .. (m + 1) - 1 /\ m \in Stop
      BY <1>6, <2>1
    <3>2. ~InWord(m)
      BY <3>1
    <3> QED BY <1>1, <3>1, <3>2, WordIs
  <2> QED BY <1>1, <1>7, <2>1, <2>3, <2>4
<1> QED BY <1>8, <1>9
-----------------------------------------------------------------------------
(* Who waits for a line *)

\* As many wait as the count is below zero, and none of them is anywhere else.
Waits ==
  /\ semcnt \in [Sems -> Int] /\ semq \in [Sems -> Seq(All)] /\ Distinct(semq[isema])
  /\ Len(semq[isema]) = IF semcnt[isema] < 0 THEN -semcnt[isema] ELSE 0
  /\ \A p \in Members(semq[isema]) : pstate[p] = "PRWAIT"

\* Where the calls are: the null process makes none, who waits goes on to take.
Takes == {"take", "peek"}
Reads ==
  /\ DOMAIN cont = All /\ cont[NULLPROC].at = "idle"
  /\ \A p \in All : cont[p].at \in {"idle", "eof", "wait"} \cup Takes
  /\ \A p \in All : cont[p].at \in {"wait", "take"} => cont[p].len \in Nat
  /\ \A p \in Members(semq[isema]) : cont[p].at \in Takes

LEMMA OneSemaphore == isema \in Sems
<1>1. NSEM = 1
  BY TtyAssumption
<1> QED BY <1>1 DEF Sems, isema

LEMMA WaitingIs == Waits => Waiting = Members(semq[isema])
<1> SUFFICES ASSUME Waits PROVE Waiting = Members(semq[isema])
  OBVIOUS
<1>1. PICK Q \in Seq(All) : Q = semq[isema]
  BY OneSemaphore DEF Waits
<1>2. DOMAIN Q = 1 .. Len(Q)
  BY LenProperties
<1> QED BY <1>1, <1>2 DEF Waiting, Range, Members

\* wait() keeps it so: whoever gets through is about to take, whoever does not
\* was not awaited.
LEMMA AwaitStep ==
  ASSUME Sched, Waits, Reads, currpid # NULLPROC, cont[currpid].at \notin Takes,
         NEW new, new.at \in Takes, new.len \in Nat,
         cont' = [cont EXCEPT ![currpid] = new], Await
  PROVE  /\ Sched' /\ Waits' /\ Reads'
         /\ semcnt'[isema] = semcnt[isema] - 1
         /\ semcnt[isema] > 0 => Coming'
         /\ Coming => Coming'
<1>1. currpid \in Procs /\ currpid \in All
  BY DEF Sched, All
<1>2. /\ \A p \in All : cont'[p] = IF p = currpid THEN new ELSE cont[p]
      /\ DOMAIN cont' = All
  BY DEF Reads
<1>3. PICK Q \in Seq(All) : Q = semq[isema]
  BY OneSemaphore DEF Waits
<1>4. Distinct(Q) /\ currpid \notin Members(Q) /\ Members(Q) \subseteq All /\ Waiting = Members(Q)
  <2>1. currpid \notin Members(Q)
    BY <1>1, <1>3 DEF Waits, Sched
  <2>2. Members(Q) \subseteq All
    BY ElementOfSeq, LenProperties DEF Members
  <2> QED BY <1>3, <2>1, <2>2, WaitingIs DEF Waits
<1>5. /\ semcnt' \in [Sems -> Int] /\ semcnt'[isema] = semcnt[isema] - 1 /\ semcnt[isema] \in Int
  BY OneSemaphore DEF Await, WaitPass, WaitBlock, Waits
<1>6. CASE WaitPass(isema)
  <2>1. semcnt[isema] > 0 /\ semq' = semq /\ UNCHANGED schedVars
    BY <1>6 DEF WaitPass
  <2>2. Sched' /\ pstate' = pstate
    BY <2>1, SchedSame DEF schedVars
  <2>3. Len(semq'[isema]) = IF semcnt'[isema] < 0 THEN -semcnt'[isema] ELSE 0
    BY <1>5, <2>1 DEF Waits
  <2>4. Waits'
    BY <1>5, <2>1, <2>2, <2>3 DEF Waits
  <2>5. Reads'
    BY <1>1, <1>2, <1>3, <1>4, <2>1 DEF Reads, Takes
  <2>6. Waiting' = Members(Q)
    BY <1>4, <2>1 DEF Waiting
  <2>7. Coming'
    BY <1>1, <1>2, <1>4, <2>6 DEF Coming, Takes
  <2> QED BY <1>5, <2>2, <2>4, <2>5, <2>7
<1>7. CASE WaitBlock(isema)
  <2>1. /\ semcnt[isema] <= 0 /\ Block("PRWAIT")
        /\ semq' = [semq EXCEPT ![isema] = Append(semq[isema], currpid)]
    BY <1>7 DEF WaitBlock, Enqueued
  <2>2. /\ Append(Q, currpid) \in Seq(All) /\ Len(Append(Q, currpid)) = Len(Q) + 1
        /\ Distinct(Append(Q, currpid)) /\ Members(Append(Q, currpid)) = Members(Q) \cup {currpid}
    BY <1>1, <1>4, OneJoins
  <2>3. semq' \in [Sems -> Seq(All)] /\ semq'[isema] = Append(Q, currpid)
    BY <1>3, <2>1, <2>2, OneSemaphore DEF Waits
  <2>4. /\ Sched' /\ pstate'[currpid] = "PRWAIT" /\ \A p \in All \ {currpid} : Stays(p)
    <3>1. "PRWAIT" \in States \ Running
      BY DEF States, Running
    <3> QED BY <2>1, <3>1, BlockSched
  <2>5. \A p \in Members(Q) : pstate'[p] = "PRWAIT"
    <3>1. \A p \in Members(Q) : pstate[p] = "PRWAIT" /\ Stays(p)
      BY <1>3, <1>4, <2>4 DEF Waits
    <3> QED BY <3>1 DEF Stays, Becomes, Running
  <2>6. Len(semq'[isema]) = IF semcnt'[isema] < 0 THEN -semcnt'[isema] ELSE 0
    <3>1. Len(Q) = IF semcnt[isema] < 0 THEN -semcnt[isema] ELSE 0
      BY <1>3 DEF Waits
    <3> QED BY <1>5, <2>1, <2>2, <2>3, <3>1
  <2>7. Waits'
    BY <1>5, <2>2, <2>3, <2>4, <2>5, <2>6 DEF Waits
  <2>8. Reads'
    BY <1>1, <1>2, <1>3, <1>4, <2>2, <2>3 DEF Reads, Takes
  <2>9. Waiting' = Members(Q) \cup {currpid}
    <3>1. Append(Q, currpid) = semq'[isema] /\ DOMAIN Append(Q, currpid) = 1 .. Len(Append(Q, currpid))
      BY <2>2, <2>3, LenProperties
    <3>2. PICK A : A = Append(Q, currpid)
      OBVIOUS
    <3>3. Waiting' = Range(A)
      BY <3>1, <3>2 DEF Waiting, Range
    <3> QED BY <2>2, <3>1, <3>2, <3>3 DEF Range, Members
  <2>10. ASSUME Coming PROVE Coming'
    <3>1. PICK p \in Procs \ Waiting : cont[p].at \in Takes
      BY <2>10 DEF Coming, Takes
    <3>2. p # currpid /\ p \in All
      BY <3>1 DEF All
    <3>3. cont'[p].at \in Takes
      BY <1>2, <3>1, <3>2
    <3> QED BY <1>4, <2>9, <3>1, <3>2, <3>3 DEF Coming, Takes
  <2>11. ~(semcnt[isema] > 0)
    BY <1>5, <2>1
  <2> QED BY <1>5, <2>4, <2>7, <2>8, <2>10, <2>11
<1> QED BY <1>6, <1>7 DEF Await

\* signal() leaves a unit or somebody who is about to take.
LEMMA SignalStep ==
  ASSUME Sched, Waits, Reads, Signal(isema), DOMAIN cont' = All,
         \A p \in All \ {currpid} : cont'[p] = cont[p],
         cont'[currpid].at \in {"idle", "eof", "wait"} \cup Takes,
         cont'[currpid].at \in {"wait", "take"} => cont'[currpid].len \in Nat,
         cont'[NULLPROC].at = "idle"
  PROVE  /\ Sched' /\ Waits' /\ Reads'
         /\ semcnt'[isema] = semcnt[isema] + 1
         /\ semcnt'[isema] > 0 \/ Coming'
<1>1. currpid \in All /\ semcnt[isema] \in Int
  BY OneSemaphore DEF Sched, Waits
<1>2. PICK Q \in Seq(All) : Q = semq[isema]
  BY OneSemaphore DEF Waits
<1>3. Distinct(Q) /\ currpid \notin Members(Q) /\ Members(Q) \subseteq All /\ Len(Q) \in Nat
  <2>1. currpid \notin Members(Q)
    BY <1>1, <1>2 DEF Waits, Sched
  <2>2. Members(Q) \subseteq All
    BY ElementOfSeq, LenProperties DEF Members
  <2> QED BY <1>2, <2>1, <2>2, LenProperties DEF Waits
<1>4. semcnt' \in [Sems -> Int] /\ semcnt'[isema] = semcnt[isema] + 1
  BY OneSemaphore DEF Signal, Waits
<1>5. PICK k : k = Awakened(isema, 1)
  OBVIOUS
<1>6. Len(Q) = IF semcnt[isema] < 0 THEN -semcnt[isema] ELSE 0
  BY <1>2 DEF Waits
<1>7. k = (IF semcnt[isema] < 0 THEN 1 ELSE 0) /\ k \in 0 .. Len(Q)
  BY <1>1, <1>2, <1>5, <1>6 DEF Awakened
<1>8. PICK T : T = SubSeq(Q, k + 1, Len(Q))
  OBVIOUS
<1>9. PICK H : H = SubSeq(Q, 1, k)
  OBVIOUS
<1>10. /\ T \in Seq(All) /\ Len(T) = Len(Q) - k /\ Distinct(T)
       /\ Members(T) = Members(Q) \ Members(H) /\ Members(H) \subseteq Members(Q)
  BY <1>3, <1>7, <1>8, <1>9, FirstGone
<1>11. /\ semq' = [semq EXCEPT ![isema] = T]
       /\ IF k = 0 THEN UNCHANGED schedVars ELSE Ready(H)
  BY <1>2, <1>5, <1>8, <1>9 DEF Signal
<1>12. semq' \in [Sems -> Seq(All)] /\ semq'[isema] = T
  BY <1>10, <1>11, OneSemaphore DEF Waits
<1>13. Sched' /\ \A p \in All \ Members(H) : Stays(p)
  <2>1. CASE k = 0
    BY <1>11, <2>1, SchedSame
  <2>2. CASE k # 0
    <3>1. PICK D \in SUBSET All : D = Members(H) /\ D = {H[i] : i \in 1 .. Len(H)}
      BY <1>3, <1>10 DEF Members
    <3>2. Sched' /\ \A p \in All : IF p \in D THEN pstate'[p] \in Running ELSE Stays(p)
      BY <1>11, <2>2, <3>1, ReadySched
    <3> QED BY <3>1, <3>2
  <2> QED BY <2>1, <2>2
<1>14. \A p \in Members(T) : pstate'[p] = "PRWAIT"
  <2>1. \A p \in Members(T) : p \in All \ Members(H) /\ pstate[p] = "PRWAIT"
    BY <1>2, <1>3, <1>10 DEF Waits
  <2> QED BY <1>13, <2>1 DEF Stays, Becomes, Running
<1>15. Len(T) = IF semcnt'[isema] < 0 THEN -semcnt'[isema] ELSE 0
  BY <1>1, <1>4, <1>6, <1>7, <1>10
<1>16. Waits'
  BY <1>4, <1>10, <1>12, <1>14, <1>15 DEF Waits
<1>17. \A p \in Members(Q) : p \in All \ {currpid} /\ cont[p].at \in Takes /\ cont'[p].at \in Takes
  BY <1>2, <1>3 DEF Reads
<1>18. Reads'
  <2>1. \A p \in All : /\ cont'[p].at \in {"idle", "eof", "wait"} \cup Takes
                       /\ cont'[p].at \in {"wait", "take"} => cont'[p].len \in Nat
    BY DEF Reads
  <2> QED BY <1>10, <1>12, <1>17, <2>1 DEF Reads
<1>19. ASSUME ~(semcnt'[isema] > 0) PROVE Coming'
  <2>1. k = 1 /\ Len(Q) >= 1
    BY <1>1, <1>4, <1>6, <1>7, <1>19
  <2>2. Len(H) = 1 /\ H[1] \in Members(H)
    <3>1. Len(H) = 1
      BY <1>3, <1>9, <2>1, SubSeqOf
    <3> QED BY <3>1 DEF Members
  <2>3. PICK p \in Members(Q) : p \notin Members(T)
    BY <1>10, <2>2
  <2>4. p \in Procs /\ cont'[p].at \in Takes
    <3>1. cont[p].at \in Takes /\ p \in All
      BY <1>17
    <3>2. p # NULLPROC
      BY <3>1 DEF Reads, Takes
    <3> QED BY <1>17, <3>1, <3>2 DEF All
  <2>5. Waiting' = Members(T)
    <3>1. T = semq'[isema] /\ DOMAIN T = 1 .. Len(T)
      BY <1>10, <1>12, LenProperties
    <3>2. Waiting' = Range(T)
      BY <3>1 DEF Waiting, Range
    <3> QED BY <3>1, <3>2 DEF Range, Members
  <2> QED BY <2>3, <2>4, <2>5 DEF Coming, Takes
<1> QED BY <1>4, <1>13, <1>16, <1>18, <1>19
-----------------------------------------------------------------------------
(* The invariant *)

Peekers == {p \in Procs : cont[p].at = "peek"}

\* Where there is a line there is a unit, or somebody is about to take, or the
\* last read left the line behind.
Lines == semcnt[isema] > 0 \/ NL \notin Range(Kept) \/ Coming \/ left

TtyInv ==
  /\ Sched /\ Waits /\ Reads /\ tty \in Ttys /\ Lines
  /\ semcnt[isema] + Cardinality(Peekers) <= 1 + Cardinality(Procs)

LEMMA PeekersFinite == IsFiniteSet(Peekers) /\ Cardinality(Peekers) \in Nat /\ Cardinality(Peekers) <= Cardinality(Procs)
                       /\ Cardinality(Procs) \in Nat
<1>1. IsFiniteSet(Procs) /\ Peekers \subseteq Procs
  BY ProcsAssumption DEF Peekers
<1> QED BY <1>1, FS_Subset, FS_CardinalityType

\* What is left of a sequence has no other members.
LEMMA PartOf ==
  ASSUME NEW s \in Seq(Values), NEW m \in Nat \ {0}, NEW n \in Nat, n <= Len(s)
  PROVE  Range(SubSeq(s, m, n)) \subseteq Range(s)
<1>1. PICK r \in Seq(Values) : r = SubSeq(s, m, n)
  BY SubSeqOf
<1>2. Len(r) = (IF m <= n THEN n - m + 1 ELSE 0) /\ \A i \in 1 .. Len(r) : r[i] = s[m + i - 1]
  BY <1>1, SubSeqOf
<1>3. Len(s) \in Nat /\ DOMAIN s = 1 .. Len(s) /\ DOMAIN r = 1 .. Len(r)
  BY LenProperties
<1>4. ASSUME NEW i \in 1 .. Len(r) PROVE m + i - 1 \in 1 .. Len(s)
  BY <1>2, <1>3
<1> QED BY <1>1, <1>2, <1>3, <1>4 DEF Range

\* What is typed adds itself to the line, or only takes from it.
EditStep(t, ch) ==
  /\ t \in Ttys
  /\ \/ Buffered(t) = Kept
     \/ ch \in Stored /\ Len(Kept) < IBLEN /\ Buffered(t) = Append(Kept, ch)
     \/ Kept # <<>> /\ Editor!Word(1) /\ Deleted(1, t)
     \/ \E n \in 1 .. Len(Kept) : /\ Editor!Word(n) /\ (n = Len(Kept) \/ ~Editor!Word(n + 1))
                                  /\ Deleted(n, t)

LEMMA EditedKept ==
  ASSUME tty \in Ttys, NEW c \in Typed, NEW ch, ch = IF c = CR THEN NL ELSE c
  PROVE  EditStep(Edited(ch).tty, ch)
<1>1. CASE ch = "bs"
  <2>1. Edited(ch) = Delchar
    BY <1>1 DEF Edited, Dfltchars
  <2> QED BY <2>1, DelcharKept, NoneDeleted DEF EditStep, Deleted
<1>2. CASE ch = "^W"
  <2>1. Edited(ch) = Delword
    BY <1>2 DEF Edited, Dfltchars
  <2>2. PICK t : t = Delword.tty
    OBVIOUS
  <2>3. \/ Deleted(0, t)
        \/ \E n \in 1 .. Len(Kept) : /\ Editor!Word(n) /\ (n = Len(Kept) \/ ~Editor!Word(n + 1))
                                     /\ Deleted(n, t)
    BY <2>2, DelwordKept
  <2>4. Deleted(0, t) => Buffered(t) = Kept
    BY NoneDeleted
  <2>5. t \in Ttys
    BY <2>3 DEF Deleted
  <2> QED BY <2>1, <2>2, <2>3, <2>4, <2>5 DEF EditStep
<1>3. CASE ch = "^R"
  <2>1. Edited(ch).tty = tty
    BY <1>3 DEF Edited, Dfltchars, Reprint
  <2> QED BY <2>1 DEF EditStep, Kept
<1>4. CASE ch \notin {"bs", "^W", "^R"}
  <2>1. Edited(ch) = Iputchar(ch)
    BY <1>4 DEF Edited, Dfltchars
  <2>2. ch \in Stored
    BY <1>4 DEF Stored, Editing, Dfltchars
  <2> QED BY <2>1, <2>2, IputcharKept DEF EditStep, Kept
<1> QED BY <1>1, <1>2, <1>3, <1>4

LEMMA EditedRange ==
  ASSUME tty \in Ttys, NEW t, NEW ch, EditStep(t, ch), NL \in Range(Buffered(t)), ch # NL
  PROVE  NL \in Range(Kept)
<1>1. PICK s \in Seq(Values) : s = Kept /\ Len(s) \in Nat /\ DOMAIN s = 1 .. Len(s)
  BY KeptIs, LenProperties
<1>2. ASSUME NEW n \in Nat, n <= Len(s), Deleted(n, t) PROVE NL \in Range(s)
  <2>1. Buffered(t) = SubSeq(s, 1, Len(s) - n) /\ Len(s) - n \in Nat /\ Len(s) - n <= Len(s)
    BY <1>1, <1>2 DEF Deleted
  <2> QED BY <2>1, PartOf
<1>3. CASE Buffered(t) = Append(s, ch) /\ ch \in Stored
  <2>1. /\ Len(Append(s, ch)) = Len(s) + 1 /\ Append(s, ch) \in Seq(Values)
        /\ \A i \in 1 .. Len(s) : Append(s, ch)[i] = s[i]
        /\ Append(s, ch)[Len(s) + 1] = ch
    BY <1>3, AppendProperties DEF Values
  <2>2. PICK i \in 1 .. Len(s) + 1 : Append(s, ch)[i] = NL
    BY <1>3, <2>1, LenProperties DEF Range
  <2>3. i \in 1 .. Len(s)
    BY <1>1, <2>1, <2>2
  <2> QED BY <1>1, <2>1, <2>2, <2>3 DEF Range
<1>4. CASE Kept # <<>> /\ Deleted(1, t)
  <2>1. 1 <= Len(s)
    BY <1>1, <1>4, EmptySeq
  <2> QED BY <1>1, <1>2, <1>4, <2>1
<1>5. CASE \E n \in 1 .. Len(Kept) : Deleted(n, t)
  BY <1>1, <1>2, <1>5
<1> QED BY <1>1, <1>3, <1>4, <1>5 DEF EditStep
-----------------------------------------------------------------------------
(* The steps *)

EditorStep == [Editor!Next]_Kept

LEMMA TtyInit == Init => TtyInv /\ Editor!Init
<1> SUFFICES ASSUME Init PROVE TtyInv /\ Editor!Init
  OBVIOUS
<1>1. Sched
  BY SchedInitial DEF Init
<1>2. /\ semcnt = [s \in Sems |-> 0] /\ semq = [s \in Sems |-> <<>>]
      /\ cont = [p \in All |-> Idle] /\ tty = Ttynew
  BY DEF Init
<1>3. semcnt[isema] = 0 /\ semq[isema] = <<>>
  BY <1>2, OneSemaphore
<1>4. Distinct(semq[isema]) /\ Members(semq[isema]) = {} /\ Len(semq[isema]) = 0
  BY <1>3, Nobody
<1>5. Waits
  <2>1. semcnt \in [Sems -> Int] /\ semq \in [Sems -> Seq(All)]
    BY <1>2
  <2> QED BY <1>3, <1>4, <2>1 DEF Waits
<1>6. \A p \in All : cont[p].at = "idle"
  BY <1>2 DEF Idle
<1>7. Reads
  BY <1>2, <1>4, <1>6 DEF Reads, Takes, All
<1>8. tty \in Ttys /\ tty.icount = 0
  <2>1. [i \in 0 .. IBLEN - 1 |-> "nul"] \in Cells
    BY DEF Cells, Values
  <2>2. 0 \in 0 .. IBLEN - 1 /\ 0 \in 0 .. IBLEN
    BY Size
  <2> QED BY <1>2, <2>1, <2>2 DEF Ttynew, Ttys
<1>9. Kept = <<>>
  BY <1>8, KeptIs, EmptySeq
<1>10. NL \notin Range(Kept)
  BY <1>9 DEF Range
<1>11. Peekers = {}
  BY <1>6 DEF Peekers, All
<1>12. semcnt[isema] + Cardinality(Peekers) <= 1 + Cardinality(Procs)
  BY <1>3, <1>11, PeekersFinite, FS_EmptySet
<1> QED BY <1>1, <1>5, <1>7, <1>8, <1>9, <1>10, <1>12 DEF TtyInv, Lines, Editor!Init, Kept

\* A step that changes where the current process is, and nothing else.
LEMMA MoveStep ==
  ASSUME TtyInv, NEW new, cont' = [cont EXCEPT ![currpid] = new], currpid # NULLPROC,
         cont[currpid].at \notin Takes, new.at \in {"idle", "eof", "wait"},
         new.at = "wait" => new.len \in Nat,
         tty' \in Ttys, Kept' = Kept,
         UNCHANGED <<schedVars, semVars, left>>
  PROVE  TtyInv'
<1>1. currpid \in All /\ DOMAIN cont = All
  BY DEF TtyInv, Sched, Reads
<1>2. DOMAIN cont' = All /\ \A p \in All : cont'[p] = IF p = currpid THEN new ELSE cont[p]
  BY <1>1
<1>3. semcnt' = semcnt /\ semq' = semq /\ pstate' = pstate /\ left' = left
  BY DEF schedVars, semVars
<1>4. Sched'
  BY SchedSame DEF TtyInv
<1>5. Waits'
  BY <1>3 DEF TtyInv, Waits
<1>6. currpid \notin Members(semq[isema])
  BY DEF TtyInv, Reads
<1>7. Reads'
  <2>1. Members(semq[isema]) \subseteq All
    <3>1. PICK Q \in Seq(All) : Q = semq[isema]
      BY OneSemaphore DEF TtyInv, Waits
    <3> QED BY <3>1, ElementOfSeq, LenProperties DEF Members
  <2>2. cont'[NULLPROC].at = "idle"
    BY <1>2 DEF TtyInv, Reads, All
  <2>3. \A p \in All : cont'[p].at \in {"idle", "eof", "wait"} \cup Takes
    BY <1>2 DEF TtyInv, Reads
  <2>4. \A p \in All : cont'[p].at \in {"wait", "take"} => cont'[p].len \in Nat
    BY <1>2 DEF TtyInv, Reads
  <2>5. \A p \in Members(semq'[isema]) : cont'[p].at \in Takes
    BY <1>2, <1>3, <1>6, <2>1 DEF TtyInv, Reads
  <2> QED BY <1>2, <2>2, <2>3, <2>4, <2>5 DEF Reads
<1>8. ASSUME NEW p \in Procs
      PROVE  /\ cont[p].at \in Takes <=> cont'[p].at \in Takes
             /\ cont[p].at = "peek" <=> cont'[p].at = "peek"
  <2>1. CASE p = currpid
    BY <1>1, <1>2, <2>1 DEF Takes
  <2>2. CASE p # currpid
    BY <1>2, <2>2 DEF All
  <2> QED BY <2>1, <2>2
<1>9. Coming => Coming'
  BY <1>3, <1>8 DEF Coming, Waiting, Takes
<1>10. Lines'
  BY <1>3, <1>9 DEF TtyInv, Lines
<1>11. Peekers' = Peekers
  BY <1>8 DEF Peekers
<1>12. (semcnt[isema] + Cardinality(Peekers) <= 1 + Cardinality(Procs))'
  BY <1>3, <1>11 DEF TtyInv
<1> QED BY <1>4, <1>5, <1>7, <1>10, <1>12 DEF TtyInv

LEMMA TtyreadInv ==
  ASSUME TtyInv, NEW len \in Lens, Ttyread(len)
  PROVE  TtyInv' /\ EditorStep
<1>1. PICK new : /\ new = [at |-> IF tty.eof /\ tty.icount = 0 THEN "eof" ELSE "wait", len |-> len]
                 /\ cont' = [cont EXCEPT ![currpid] = new]
  BY DEF Ttyread, Goto
<1>2. currpid # NULLPROC /\ cont[currpid].at \notin Takes /\ UNCHANGED <<schedVars, semVars, left, tty>>
  BY DEF Ttyread, Idle, Takes
<1>3. new.at \in {"eof", "wait"} /\ new.len = len
  BY <1>1
<1>4. len \in Nat
  BY TtyAssumption
<1>5. tty' \in Ttys /\ Kept' = Kept
  BY <1>2 DEF TtyInv, Kept, Buffered
<1> QED BY <1>1, <1>2, <1>3, <1>4, <1>5, MoveStep DEF EditorStep

LEMMA ReadEofInv == TtyInv /\ ReadEof => TtyInv' /\ EditorStep
<1> SUFFICES ASSUME TtyInv, ReadEof PROVE TtyInv' /\ EditorStep
  OBVIOUS
<1>1. /\ cont[currpid].at = "eof" /\ cont' = [cont EXCEPT ![currpid] = Idle]
      /\ tty' = [tty EXCEPT !.eof = FALSE] /\ UNCHANGED <<schedVars, semVars, left>>
  BY DEF ReadEof
<1>2. currpid # NULLPROC /\ cont[currpid].at \notin Takes
  BY <1>1 DEF TtyInv, Reads, Takes
<1>3. Idle.at = "idle"
  BY DEF Idle
<1>4. tty' \in Ttys /\ Kept' = Kept
  BY <1>1 DEF TtyInv, Ttys, Kept, Buffered
<1> QED BY <1>1, <1>2, <1>3, <1>4, MoveStep DEF EditorStep

\* A step that waits.
LEMMA AwaitInv ==
  ASSUME TtyInv, currpid # NULLPROC, cont[currpid].at \notin Takes,
         NEW new, new.at \in Takes, new.len \in Nat,
         cont' = [cont EXCEPT ![currpid] = new], Await, UNCHANGED <<tty, left>>
  PROVE  TtyInv' /\ EditorStep
<1>1. /\ Sched' /\ Waits' /\ Reads' /\ semcnt'[isema] = semcnt[isema] - 1
      /\ semcnt[isema] > 0 => Coming'
      /\ Coming => Coming'
  BY AwaitStep DEF TtyInv
<1>2. Kept' = Kept /\ tty' \in Ttys
  BY DEF Kept, Buffered, TtyInv
<1>3. Lines'
  BY <1>1, <1>2 DEF TtyInv, Lines
<1>4. currpid \in All /\ \A p \in All : p # currpid => cont'[p] = cont[p]
  BY DEF TtyInv, Sched, Reads
<1>5. Peekers' = Peekers \/ Peekers' = Peekers \cup {currpid}
  <2>1. currpid \in Procs /\ \A p \in Procs : p # currpid => cont'[p] = cont[p]
    BY <1>4 DEF All
  <2>2. currpid \notin Peekers
    BY DEF Peekers, Takes
  <2>3. \A p : p # currpid => (p \in Peekers' <=> p \in Peekers)
    BY <2>1 DEF Peekers
  <2>4. CASE currpid \in Peekers'
    BY <2>2, <2>3, <2>4
  <2>5. CASE currpid \notin Peekers'
    BY <2>2, <2>3, <2>5
  <2> QED BY <2>4, <2>5
<1>6. IsFiniteSet(Peekers) /\ Cardinality(Peekers) \in Nat /\ Cardinality(Procs) \in Nat
  BY PeekersFinite
<1>7. Cardinality(Peekers') \in Nat /\ Cardinality(Peekers') <= Cardinality(Peekers) + 1
  <2>1. PICK P : P = Peekers /\ IsFiniteSet(P) /\ Cardinality(P) \in Nat
    BY <1>6
  <2>2. Cardinality(P \cup {currpid}) = IF currpid \in P THEN Cardinality(P) ELSE Cardinality(P) + 1
    BY <2>1, FS_AddElement
  <2>3. CASE Peekers' = P
    BY <2>1, <2>3
  <2>4. CASE Peekers' = P \cup {currpid}
    <3>1. PICK k : k = Cardinality(P)
      OBVIOUS
    <3>2. PICK m : m = Cardinality(P \cup {currpid})
      OBVIOUS
    <3>3. k \in Nat /\ (m = k \/ m = k + 1)
      BY <2>1, <2>2, <3>1, <3>2
    <3>4. m \in Nat /\ m <= k + 1
      BY <3>3
    <3> QED BY <2>1, <2>4, <3>1, <3>2, <3>4
  <2> QED BY <1>5, <2>1, <2>3, <2>4
<1>8. semcnt[isema] \in Int
  BY OneSemaphore DEF TtyInv, Waits
<1>9. semcnt'[isema] + Cardinality(Peekers') <= 1 + Cardinality(Procs)
  BY <1>1, <1>6, <1>7, <1>8 DEF TtyInv
<1> QED BY <1>1, <1>2, <1>3, <1>9 DEF TtyInv, EditorStep

LEMMA ReadWaitInv == TtyInv /\ ReadWait => TtyInv' /\ EditorStep
<1> SUFFICES ASSUME TtyInv, ReadWait PROVE TtyInv' /\ EditorStep
  OBVIOUS
<1>1. PICK new : new = [at |-> "take", len |-> cont[currpid].len] /\ cont' = [cont EXCEPT ![currpid] = new]
  BY DEF ReadWait, Goto
<1>2. cont[currpid].at = "wait" /\ Await /\ UNCHANGED <<tty, left>>
  BY DEF ReadWait
<1>3. currpid \in All /\ currpid # NULLPROC /\ cont[currpid].len \in Nat /\ cont[currpid].at \notin Takes
  BY <1>2 DEF TtyInv, Sched, Reads, Takes
<1>4. new.at \in Takes /\ new.len \in Nat
  BY <1>1, <1>3 DEF Takes
<1> QED BY <1>1, <1>2, <1>3, <1>4, AwaitInv

LEMMA NextcInv == TtyInv /\ Nextc => TtyInv' /\ EditorStep
<1> SUFFICES ASSUME TtyInv, Nextc PROVE TtyInv' /\ EditorStep
  OBVIOUS
<1>1. PICK new : new = [at |-> "peek", len |-> 0] /\ cont' = [cont EXCEPT ![currpid] = new]
  BY DEF Nextc, Goto
<1>2. /\ currpid # NULLPROC /\ cont[currpid].at \notin Takes /\ Await /\ UNCHANGED <<tty, left>>
  BY DEF Nextc, Idle, Takes
<1>3. new.at \in Takes /\ new.len \in Nat
  BY <1>1 DEF Takes
<1> QED BY <1>1, <1>2, <1>3, AwaitInv

\* The characters are copied: what is left is remembered.
LEMMA ReadTakeInv == TtyInv /\ ReadTake => TtyInv' /\ EditorStep
<1> SUFFICES ASSUME TtyInv, ReadTake PROVE TtyInv' /\ EditorStep
  OBVIOUS
<1>1. PICK n : /\ n = Count(cont[currpid].len)
               /\ tty' = [tty EXCEPT !.icount = @ - n, !.istart = Wrap(@ + n)]
               /\ left' = (n < tty.icount)
  BY DEF ReadTake
<1>2. /\ cont[currpid].at = "take" /\ cont' = [cont EXCEPT ![currpid] = Idle]
      /\ UNCHANGED <<schedVars, semVars>>
  BY DEF ReadTake
<1>3. PICK c \in Nat : c = tty.icount /\ c = Len(Kept)
  BY KeptIs DEF TtyInv
<1>4. currpid \in All /\ currpid # NULLPROC /\ cont[currpid].len \in Nat
  BY <1>2 DEF TtyInv, Sched, Reads
<1>5. n \in 0 .. c
  BY <1>1, <1>3, <1>4 DEF Count
<1>6. tty' \in Ttys /\ Kept' = SubSeq(Kept, n + 1, c)
  <2>1. tty' \in Ttys /\ Buffered(tty') = SubSeq(Kept, n + 1, Len(Kept))
    BY <1>1, <1>3, <1>5, TakeKept DEF TtyInv
  <2> QED BY <1>3, <2>1 DEF Kept
<1>7. PICK s \in Seq(Values) : s = Kept /\ Len(s) = c
  BY <1>3, KeptIs DEF TtyInv
<1>8. EditorStep
  <2>1. CASE n = 0
    <3>1. /\ SubSeq(s, 1, c) \in Seq(Values) /\ Len(SubSeq(s, 1, c)) = c
          /\ \A i \in 1 .. c : SubSeq(s, 1, c)[i] = s[i]
      <4>1. \A i \in 1 .. c : 1 + i - 1 = i
        OBVIOUS
      <4> QED BY <1>7, <4>1, SubSeqOf
    <3>2. SubSeq(s, 1, c) = s
      BY <1>7, <3>1, SameKept
    <3> QED BY <1>6, <1>7, <2>1, <3>2 DEF EditorStep
  <2>2. CASE n \in 1 .. c
    <3>1. Editor!Take(n)
      BY <1>3, <1>6 DEF Editor!Take, Kept
    <3>2. \E m \in 1 .. Len(Kept) : Editor!Take(m)
      BY <1>3, <2>2, <3>1
    <3> QED BY <3>2 DEF EditorStep, Editor!Next, Kept
  <2>3. n = 0 \/ n \in 1 .. c
    BY <1>5
  <2> QED BY <2>1, <2>2, <2>3
<1>9. semcnt' = semcnt /\ semq' = semq /\ pstate' = pstate
  BY <1>2 DEF schedVars, semVars
<1>10. Sched' /\ Waits'
  BY <1>2, <1>9, SchedSame DEF TtyInv, Waits
<1>11. currpid \notin Members(semq[isema]) /\ Members(semq[isema]) \subseteq All
  <2>1. PICK Q \in Seq(All) : Q = semq[isema]
    BY OneSemaphore DEF TtyInv, Waits
  <2>2. pstate[currpid] # "PRWAIT"
    BY <1>4 DEF TtyInv, Sched
  <2> QED BY <2>1, <2>2, ElementOfSeq, LenProperties DEF Members, TtyInv, Waits
<1>12. DOMAIN cont' = All /\ \A p \in All : cont'[p] = IF p = currpid THEN Idle ELSE cont[p]
  BY <1>2 DEF TtyInv, Reads
<1>13. Reads'
  BY <1>9, <1>11, <1>12 DEF TtyInv, Reads, Idle, All
<1>14. Lines'
  <2>1. CASE n < c
    BY <1>1, <1>3, <2>1 DEF Lines
  <2>2. CASE n = c
    <3>1. Len(SubSeq(s, c + 1, c)) = 0 /\ SubSeq(s, c + 1, c) \in Seq(Values)
      BY <1>7, SubSeqOf
    <3>2. Kept' = <<>>
      BY <1>6, <1>7, <2>2, <3>1, EmptySeq
    <3>3. NL \notin Range(Kept')
      BY <3>2 DEF Range
    <3> QED BY <3>3 DEF Lines
  <2> QED BY <1>5, <2>1, <2>2
<1>15. Peekers' = Peekers
  <2>1. \A p \in Procs : cont'[p].at = "peek" <=> cont[p].at = "peek"
    BY <1>2, <1>12 DEF Idle, All
  <2> QED BY <2>1 DEF Peekers
<1>16. (semcnt[isema] + Cardinality(Peekers) <= 1 + Cardinality(Procs))'
  BY <1>9, <1>15 DEF TtyInv
<1> QED BY <1>6, <1>8, <1>10, <1>13, <1>14, <1>16 DEF TtyInv

\* A peeker gives its unit back.
LEMMA PeekInv == TtyInv /\ Peek => TtyInv' /\ EditorStep
<1> SUFFICES ASSUME TtyInv, Peek PROVE TtyInv' /\ EditorStep
  OBVIOUS
<1>1. /\ cont[currpid].at = "peek" /\ cont' = [cont EXCEPT ![currpid] = Idle]
      /\ Signal(isema) /\ UNCHANGED <<tty, left>>
  BY DEF Peek
<1>2. currpid \in Procs /\ currpid \in All /\ currpid # NULLPROC
  BY <1>1 DEF TtyInv, Sched, Reads, All
<1>3. DOMAIN cont' = All /\ \A p \in All : cont'[p] = IF p = currpid THEN Idle ELSE cont[p]
  BY <1>1 DEF TtyInv, Reads
<1>4. cont'[currpid].at = "idle" /\ cont'[NULLPROC].at = "idle"
  BY <1>2, <1>3 DEF Idle, TtyInv, Reads, All
<1>5. /\ Sched' /\ Waits' /\ Reads' /\ semcnt'[isema] = semcnt[isema] + 1
      /\ semcnt'[isema] > 0 \/ Coming'
  <2>1. \A p \in All \ {currpid} : cont'[p] = cont[p]
    BY <1>3
  <2>2. cont'[currpid].at \in {"idle", "eof", "wait"} \cup Takes /\ cont'[currpid].at \notin {"wait", "take"}
    BY <1>4
  <2> QED BY <1>1, <1>3, <1>4, <2>1, <2>2, SignalStep DEF TtyInv
<1>6. Kept' = Kept /\ tty' \in Ttys
  BY <1>1 DEF Kept, Buffered, TtyInv
<1>7. Lines'
  BY <1>5 DEF Lines
<1>8. Peekers' = Peekers \ {currpid} /\ currpid \in Peekers
  <2>1. \A p \in Procs : p # currpid => cont'[p] = cont[p]
    BY <1>3 DEF All
  <2>2. currpid \in Peekers /\ currpid \notin Peekers'
    BY <1>1, <1>2, <1>4 DEF Peekers
  <2>3. \A p : p # currpid => (p \in Peekers' <=> p \in Peekers)
    BY <2>1 DEF Peekers
  <2> QED BY <2>2, <2>3
<1>9. PICK D : D = Peekers /\ IsFiniteSet(D) /\ Cardinality(D) \in Nat /\ Cardinality(Procs) \in Nat
  BY PeekersFinite
<1>10. Cardinality(D \ {currpid}) = Cardinality(D) - 1
  BY <1>8, <1>9, FS_RemoveElement
<1>11. semcnt[isema] \in Int
  BY OneSemaphore DEF TtyInv, Waits
<1>12. semcnt'[isema] + Cardinality(Peekers') <= 1 + Cardinality(Procs)
  BY <1>5, <1>8, <1>9, <1>10, <1>11 DEF TtyInv
<1> QED BY <1>5, <1>6, <1>7, <1>12 DEF TtyInv, EditorStep

\* The end of a time slice.
LEMMA SliceInv == TtyInv /\ Slice => TtyInv' /\ EditorStep
<1> SUFFICES ASSUME TtyInv, Slice PROVE TtyInv' /\ EditorStep
  OBVIOUS
<1>1. SliceEnd /\ semcnt' = semcnt /\ semq' = semq /\ cont' = cont /\ tty' = tty /\ left' = left
  BY DEF Slice, semVars
<1>2. Sched' /\ \A p \in All : Stays(p)
  BY <1>1, SliceSched DEF TtyInv
<1>3. \A p \in Members(semq[isema]) : p \in All /\ pstate'[p] = "PRWAIT"
  <2>1. PICK Q \in Seq(All) : Q = semq[isema]
    BY OneSemaphore DEF TtyInv, Waits
  <2>2. \A p \in Members(Q) : p \in All
    BY <2>1, ElementOfSeq, LenProperties DEF Members
  <2>3. \A p \in Members(Q) : pstate[p] = "PRWAIT"
    BY <2>1 DEF TtyInv, Waits
  <2> QED BY <1>2, <2>1, <2>2, <2>3 DEF Stays, Becomes, Running
<1>4. Waits'
  BY <1>1, <1>3 DEF TtyInv, Waits
<1>5. Reads' /\ tty' \in Ttys /\ Kept' = Kept
  BY <1>1 DEF TtyInv, Reads, Kept, Buffered
<1>6. Lines' /\ (semcnt[isema] + Cardinality(Peekers) <= 1 + Cardinality(Procs))'
  BY <1>1, <1>5 DEF TtyInv, Lines, Coming, Waiting, Peekers
<1> QED BY <1>2, <1>4, <1>5, <1>6 DEF TtyInv, EditorStep

\* A character is edited into the line; the end of a line is told.
LEMMA TtyiinInv ==
  ASSUME TtyInv, NEW c \in Typed, Ttyiin(c)
  PROVE  TtyInv' /\ EditorStep
<1>1. PICK ch : ch = IF c = CR THEN NL ELSE c
  OBVIOUS
<1>2. PICK t : t = Edited(ch).tty
  OBVIOUS
<1>3. EditStep(t, ch)
  BY <1>1, <1>2, EditedKept DEF TtyInv
<1>4. /\ tty' = [t EXCEPT !.eof = @ \/ ch = Dfltchars.eof] /\ cont' = cont /\ left' = left
      /\ IF ch \in {Dfltchars.eol, Dfltchars.eof} /\ Tell
           THEN Signal(isema) ELSE UNCHANGED <<semVars, schedVars>>
  BY <1>1, <1>2 DEF Ttyiin
<1>5. t \in Ttys
  BY <1>3 DEF EditStep
<1>6. tty' \in Ttys /\ Kept' = Buffered(t)
  <2>1. PICK b \in BOOLEAN : b = (t.eof \/ ch = Dfltchars.eof)
    BY <1>5 DEF Ttys
  <2>2. tty' = [t EXCEPT !.eof = b]
    BY <1>4, <2>1, Zenon
  <2>3. tty' \in Ttys /\ tty'.in = t.in /\ tty'.istart = t.istart /\ tty'.icount = t.icount
    BY <1>5, <2>2 DEF Ttys
  <2> QED BY <2>3 DEF Kept, Buffered
<1>7. EditorStep
  <2>1. CASE Kept' = Kept
    BY <2>1 DEF EditorStep
  <2>2. CASE ch \in Stored /\ Len(Kept) < IBLEN /\ Kept' = Append(Kept, ch)
    <3>1. Editor!Put(ch)
      BY <2>2 DEF Editor!Put, Kept
    <3> QED BY <2>2, <3>1 DEF EditorStep, Editor!Next
  <2>3. CASE Kept # <<>> /\ Editor!Word(1) /\ Kept' = SubSeq(Kept, 1, Len(Kept) - 1)
    <3>1. Editor!Erase
      BY <2>3 DEF Editor!Erase, Editor!Dropped, Kept
    <3> QED BY <3>1 DEF EditorStep, Editor!Next
  <2>4. CASE \E n \in 1 .. Len(Kept) : /\ Editor!Word(n) /\ (n = Len(Kept) \/ ~Editor!Word(n + 1))
                                       /\ Kept' = SubSeq(Kept, 1, Len(Kept) - n)
    <3>1. Editor!EraseWord
      BY <2>4 DEF Editor!EraseWord, Editor!Dropped, Kept
    <3> QED BY <3>1 DEF EditorStep, Editor!Next
  <2> QED BY <1>3, <1>6, <2>1, <2>2, <2>3, <2>4 DEF EditStep, Deleted
<1>8. Peekers' = Peekers
  BY <1>4 DEF Peekers
<1>9. semcnt[isema] \in Int /\ semcnt[isema] + Cardinality(Peekers) <= 1 + Cardinality(Procs)
  BY OneSemaphore DEF TtyInv, Waits
<1>10. CASE Tell /\ Signal(isema)
  <2>1. /\ Sched' /\ Waits' /\ Reads' /\ semcnt'[isema] = semcnt[isema] + 1
        /\ semcnt'[isema] > 0 \/ Coming'
    <3>1. /\ DOMAIN cont' = All /\ \A p \in All \ {currpid} : cont'[p] = cont[p]
          /\ currpid \in All /\ cont'[NULLPROC].at = "idle"
      BY <1>4 DEF TtyInv, Reads, Sched
    <3>2. /\ cont'[currpid].at \in {"idle", "eof", "wait"} \cup Takes
          /\ cont'[currpid].at \in {"wait", "take"} => cont'[currpid].len \in Nat
      BY <1>4, <3>1 DEF TtyInv, Reads
    <3> QED BY <1>10, <3>1, <3>2, SignalStep DEF TtyInv
  <2>2. semcnt'[isema] + Cardinality(Peekers') <= 1 + Cardinality(Procs)
    <3>1. semcnt[isema] <= 0
      BY <1>10 DEF Tell
    <3> QED BY <1>8, <1>9, <2>1, <3>1, PeekersFinite
  <2>3. Lines'
    BY <2>1 DEF Lines
  <2> QED BY <1>6, <1>7, <2>1, <2>2, <2>3 DEF TtyInv
<1>11. CASE UNCHANGED <<semVars, schedVars>> /\ (ch = NL => ~Tell)
  <2>1. semcnt' = semcnt /\ semq' = semq /\ pstate' = pstate /\ UNCHANGED schedVars
    BY <1>11 DEF semVars, schedVars
  <2>2. Sched' /\ Waits' /\ Reads'
    BY <1>4, <2>1, SchedSame DEF TtyInv, Waits, Reads
  <2>3. Lines'
    <3>1. CASE ch = NL
      <4>1. semcnt'[isema] > 0
        BY <1>9, <1>11, <2>1, <3>1 DEF Tell
      <4> QED BY <4>1 DEF Lines
    <3>2. CASE ch # NL
      <4>1. NL \in Range(Kept') => NL \in Range(Kept)
        BY <1>3, <1>6, <3>2, EditedRange DEF TtyInv
      <4>2. Coming' <=> Coming
        BY <1>4, <2>1 DEF Coming, Waiting
      <4>3. (semcnt[isema] > 0)' <=> semcnt[isema] > 0
        BY <2>1
      <4> QED BY <1>4, <4>1, <4>2, <4>3 DEF TtyInv, Lines
    <3> QED BY <3>1, <3>2
  <2>4. (semcnt[isema] + Cardinality(Peekers) <= 1 + Cardinality(Procs))'
    BY <1>8, <1>9, <2>1
  <2> QED BY <1>6, <1>7, <2>2, <2>3, <2>4 DEF TtyInv
<1>12. ch \in {Dfltchars.eol, Dfltchars.eof} <=> ch = NL \/ ch = "^D"
  BY DEF Dfltchars
<1> QED BY <1>4, <1>10, <1>11, <1>12

LEMMA TtyNext == TtyInv /\ [Next]_ttyVars => TtyInv' /\ EditorStep
<1> SUFFICES ASSUME TtyInv, [Next]_ttyVars PROVE TtyInv' /\ EditorStep
  OBVIOUS
<1>1. CASE UNCHANGED ttyVars
  <2>1. /\ semcnt' = semcnt /\ semq' = semq /\ pstate' = pstate /\ UNCHANGED schedVars
        /\ cont' = cont /\ tty' = tty /\ left' = left
    BY <1>1 DEF ttyVars, semVars, schedVars
  <2>2. Sched' /\ Waits' /\ Reads'
    BY <2>1, SchedSame DEF TtyInv, Waits, Reads
  <2>3. Kept' = Kept
    BY <2>1 DEF Kept, Buffered
  <2>4. Lines' /\ (semcnt[isema] + Cardinality(Peekers) <= 1 + Cardinality(Procs))'
    BY <2>1, <2>3 DEF TtyInv, Lines, Coming, Waiting, Peekers
  <2> QED BY <2>1, <2>2, <2>3, <2>4 DEF TtyInv, EditorStep
<1>2. CASE \E c \in Typed : Ttyiin(c)
  BY <1>2, TtyiinInv
<1>3. CASE \E len \in Lens : Ttyread(len)
  BY <1>3, TtyreadInv
<1> QED BY <1>1, <1>2, <1>3, ReadEofInv, ReadWaitInv, ReadTakeInv, NextcInv, PeekInv, SliceInv DEF Next

LEMMA TtyInvariant == Spec => []TtyInv /\ Editor!Init /\ [][Editor!Next]_Kept
<1>1. Init => TtyInv /\ Editor!Init
  BY TtyInit
<1>2. TtyInv /\ [Next]_ttyVars => TtyInv' /\ [Editor!Next]_Kept
  BY TtyNext DEF EditorStep
<1> QED BY <1>1, <1>2, PTL DEF Spec

\* Nobody waits while there is a line to read and nobody about to read it, but
\* after a read of a part of a line, and the semaphore never counts more units
\* than a line and the peekers account for (ttyiin.c:51-55, ttyread.c:33-41,
\* ttycntl.c:36), however many processes read.
THEOREM LineTakenTheorem == Spec => []LineTaken
<1>1. TtyInv => LineTaken
  <2> SUFFICES ASSUME TtyInv PROVE LineTaken
    OBVIOUS
  <2>1. Waiting # {} => ~(semcnt[isema] > 0)
    <3>1. PICK Q \in Seq(All) : Q = semq[isema]
      BY OneSemaphore DEF TtyInv, Waits
    <3>2. Waiting = Members(Q) /\ Len(Q) \in Nat
      BY <3>1, WaitingIs, LenProperties DEF TtyInv
    <3>3. semcnt[isema] \in Int /\ Len(Q) = IF semcnt[isema] < 0 THEN -semcnt[isema] ELSE 0
      BY <3>1, OneSemaphore DEF TtyInv, Waits
    <3>4. Len(Q) = 0 => Members(Q) = {}
      BY DEF Members
    <3> QED BY <3>2, <3>3, <3>4
  <2>2. Waiting # {} /\ NL \in Range(Buffered(tty)) /\ ~Coming => left
    BY <2>1 DEF TtyInv, Lines, Kept
  <2>3. semcnt[isema] \in Int /\ semcnt[isema] + Cardinality(Peekers) <= 1 + Cardinality(Procs)
    BY OneSemaphore DEF TtyInv, Waits
  <2>4. semcnt[isema] <= 1 + Cardinality(Procs)
    BY <2>3, PeekersFinite
  <2> QED BY <2>2, <2>4 DEF LineTaken
<1> QED BY <1>1, TtyInvariant, PTL

\* The ring of a terminal line, wherever its characters lie in it, does what an
\* editor of one line behind finished lines does: characters come behind, the
\* line that is typed is edited by characters and by words, and readers take
\* from the front (ttyiin.c:63-177, ttyread.c:33-40).
THEOREM EditsTheorem == Spec => EditsLine
  BY TtyInvariant, PTL DEF EditsLine, Editor!Spec, Kept
=============================================================================
