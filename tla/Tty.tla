-------------------------------- MODULE Tty --------------------------------
(***************************************************************************)
(* A terminal line (tty/ttyiin.c, ttyread.c, ttycntl.c): characters arrive *)
(* by interrupt and are edited in the circular buffer tty_in, processes    *)
(* take them out.  A semaphore tells that there is something to take.  The *)
(* terminal shows what the driver echoes.                                  *)
(***************************************************************************)
EXTENDS Semaphores, Functions

S == INSTANCE SequencesExt

CONSTANTS
  IBLEN,    \* size of tty_in
  Typed,    \* characters that arrive on the line
  Lens      \* lengths given to ttyread()

NL == "nl"
CR == "cr"

\* dfltchars, without the characters that no code looks at.  tc_intr sends a
\* message and touches nothing here.
Dfltchars == [erase |-> "bs", werase |-> "^W", reprint |-> "^R", eof |-> "^D", eol |-> NL]

Editing == {Dfltchars.erase, Dfltchars.werase, Dfltchars.reprint}
Stored  == (Typed \ (Editing \cup {CR})) \cup {NL}

ASSUME TtyAssumption ==
  /\ NSEM = 1 /\ IBLEN \in Nat \ {0} /\ Lens \subseteq Nat \ {0}
  /\ Typed \subseteq {"a", "/", " ", "meta", "del", NL, CR, "^D", "bs", "^W", "^R"}

VARIABLES
  tty,      \* the struct tty: in, istart, icount and whether TIF_EOF is set
  lastcr,   \* lastc of ttyiin() is a carriage return
  cont,     \* cont[p]: where p is in ttyread() or ttycntl(TTC_NEXTC)
  left      \* history: the last read left characters behind

ttyVars == <<schedVars, semVars, tty, lastcr, cont, left>>

isema == 0
Idle  == [at |-> "idle", len |-> 0]

\* ttynew(), as ttyopen() leaves it.
Ttynew == [in |-> [i \in 0 .. IBLEN - 1 |-> "nul"], istart |-> 0, icount |-> 0, eof |-> FALSE]

Init ==
  /\ SchedInit
  /\ sstate = [s \in Sems |-> "SUSED"] /\ semcnt = [s \in Sems |-> 0]
  /\ semq = [s \in Sems |-> <<>>] /\ nextsem = NSEM - 1
  /\ psem = [p \in All |-> 0] /\ pwaitret = [p \in All |-> "OK"]
  /\ tty = Ttynew /\ lastcr = FALSE /\ cont = [p \in All |-> Idle]
  /\ left = FALSE

\* Interrupts are disabled from just before wait() to the end of the call.
Interruptible == cont[currpid].at \in {"idle", "eof", "wait"}
-----------------------------------------------------------------------------
(* What is sent to the terminal. *)

High(ch)    == ch = "meta"
Control(ch) == ch \in {"^D", "^W", "^R"}   \* below a blank and not shown as they are

\* ttywrite() of one character that is not above 127, ttyputc().
Ttyputc(ch) == <<ch>>

\* Mutant: a control character is shown as it is.
Plain(ch) == Ttyputc(ch)
Echo(ch) ==
  CASE High(ch)      -> Ttyputc("M") \o Ttyputc("-") \o Ttyputc("a")
    [] Control(ch)   -> Ttyputc("^") \o Ttyputc(ch)
    [] ch = "del"    -> Ttyputc("^") \o Ttyputc("?")
    [] OTHER         -> Ttyputc(ch)

RUBOUT == <<"rub">>   \* a backspace, a blank and a backspace
Rubs(ch) ==
  (IF High(ch) THEN RUBOUT \o RUBOUT ELSE <<>>)
  \o (IF ch = "del" \/ Control(ch) THEN RUBOUT ELSE <<>>) \o RUBOUT

Bell == Ttyputc("bell")
-----------------------------------------------------------------------------
(* Editing in the circular buffer. *)

Wrap(pos) == IF pos >= IBLEN THEN pos - IBLEN ELSE pos
Back(n)   == Wrap(tty.istart + tty.icount - 1 - n)   \* the last character but n

Full == tty.icount >= IBLEN

\* Each of the four gives the tty afterwards and what is sent to the terminal.
Iputchar(ch) ==
  IF Full
    THEN [tty |-> tty, out |-> Bell]
    ELSE [tty |-> [tty EXCEPT !.in[Wrap(tty.istart + tty.icount)] = ch, !.icount = @ + 1],
          out |-> Echo(ch)]

\* The last n characters are deleted, one call of delchar() each.
Delete(n) ==
  [tty |-> [tty EXCEPT !.icount = @ - n],
   out |-> S!FlattenSeq([i \in 1 .. n |-> Rubs(tty.in[Back(i - 1)])])]

Delchar == Delete(IF tty.icount = 0 \/ tty.in[Back(0)] = NL THEN 0 ELSE 1)

KIND(ch) == CASE ch = " " -> 0 [] ch = "/" -> 2 [] OTHER -> 1

\* Mutant: the word goes on in the line before.
AnyOfKind(n) == KIND(tty.in[Back(n)]) = KIND(tty.in[Back(0)])
InWord(n) == tty.in[Back(n)] # NL /\ KIND(tty.in[Back(n)]) = KIND(tty.in[Back(0)])

\* delword(): delchar() while there are characters and their kind is the same.
Delword ==
  LET erased[n \in 0 .. tty.icount] == IF n = tty.icount \/ ~InWord(n) THEN n ELSE erased[n + 1]
  IN  Delete(erased[0])

\* reprint() scans back from one behind the last character.  At the border it
\* reads tty_in[IBLEN], which is padding and 0.
\* Mutant: it scans from the first character.
FromFirst(n) == tty.in[Wrap(tty.istart + n)]
Scanned(n) ==
  IF n = 0 /\ tty.istart + tty.icount = IBLEN THEN "nul" ELSE tty.in[Wrap(tty.istart + tty.icount - n)]

Reprint ==
  LET scan[n \in 0 .. tty.icount] == IF n = tty.icount \/ Scanned(n) = NL THEN n ELSE scan[n + 1]
      count == scan[0]
      pos   == Wrap(tty.istart + tty.icount - count)
      from  == IF Scanned(count) = NL THEN Wrap(pos + 1) ELSE pos
  IN  [tty |-> tty,
       out |-> Echo(Dfltchars.reprint) \o Echo(NL)
                \o S!FlattenSeq([i \in 1 .. count |-> Echo(tty.in[Wrap(from + i - 1)])])]

\* Mutant: the semaphore is signalled for the first reader only.
OnceFree == semcnt[isema] = 0
Tell == semcnt[isema] <= 0

Edited(ch) ==
  CASE ch = Dfltchars.erase   -> Delchar
    [] ch = Dfltchars.werase  -> Delword
    [] ch = Dfltchars.reprint -> Reprint
    [] OTHER                  -> Iputchar(ch)

\* ttyiin(): the receiver interrupt hands over the character c.
Ttyiin(c) ==
  LET ch == IF c = CR THEN NL ELSE c IN
  /\ Interruptible /\ ~(c = NL /\ lastcr)
  /\ lastcr' = (c = CR)
  /\ tty' = [Edited(ch).tty EXCEPT !.eof = @ \/ ch = Dfltchars.eof]
  /\ IF ch \in {Dfltchars.eol, Dfltchars.eof} /\ Tell
       THEN Signal(isema) ELSE UNCHANGED <<semVars, schedVars>>
  /\ UNCHANGED <<cont, left>>
-----------------------------------------------------------------------------
(* Reading. *)

Goto(at, len) == cont' = [cont EXCEPT ![currpid] = [at |-> at, len |-> len]]

\* ttyread() up to the test for the end of file.
Ttyread(len) ==
  /\ currpid # NULLPROC /\ cont[currpid] = Idle
  /\ Goto(IF tty.eof /\ tty.icount = 0 THEN "eof" ELSE "wait", len)
  /\ UNCHANGED <<lastcr, schedVars, semVars, tty, left>>

\* The flag is cleared and EOF returned.
ReadEof ==
  /\ cont[currpid].at = "eof" /\ cont' = [cont EXCEPT ![currpid] = Idle]
  /\ tty' = [tty EXCEPT !.eof = FALSE]
  /\ UNCHANGED <<lastcr, schedVars, semVars, left>>

Await == WaitPass(isema) \/ WaitBlock(isema)

ReadWait ==
  /\ cont[currpid].at = "wait" /\ Goto("take", cont[currpid].len)
  /\ Await /\ UNCHANGED <<lastcr, tty, left>>

\* The rest of ttyread(): up to len characters are copied.
Count(len) == IF len < tty.icount THEN len ELSE tty.icount
ReadTake ==
  LET n == Count(cont[currpid].len) IN
  /\ cont[currpid].at = "take" /\ cont' = [cont EXCEPT ![currpid] = Idle]
  /\ tty' = [tty EXCEPT !.icount = @ - n, !.istart = Wrap(@ + n)]
  /\ left' = (n < tty.icount)
  /\ UNCHANGED <<lastcr, schedVars, semVars>>

\* ttycntl(TTC_NEXTC): wait(), look at the character, signal().
Nextc ==
  /\ currpid # NULLPROC /\ cont[currpid] = Idle /\ Goto("peek", 0)
  /\ Await /\ UNCHANGED <<lastcr, tty, left>>
Peek ==
  /\ cont[currpid].at = "peek" /\ cont' = [cont EXCEPT ![currpid] = Idle]
  /\ Signal(isema) /\ UNCHANGED <<lastcr, tty, left>>

Slice == Interruptible /\ SliceEnd /\ UNCHANGED <<lastcr, semVars, tty, cont, left>>

Next ==
  \/ \E c \in Typed : Ttyiin(c)
  \/ \E len \in Lens : Ttyread(len)
  \/ ReadEof \/ ReadWait \/ ReadTake \/ Nextc \/ Peek \/ Slice

Spec == Init /\ [][Next]_ttyVars
-----------------------------------------------------------------------------
(* Properties. *)

Buffered(t) == [i \in 1 .. t.icount |-> t.in[Wrap(t.istart + i - 1)]]

\* The line that is being typed, as far as no process has taken it.
LineOf(s) ==
  LET k == CHOOSE n \in 0 .. Len(s) : (n = 0 \/ s[n] = NL) /\ \A j \in n + 1 .. Len(s) : s[j] # NL
  IN  SubSeq(s, k + 1, Len(s))

\* The buffer (ttyiin.c:63-177, ttyread.c:33-40) does what an editor of one line
\* behind finished lines does, wherever the characters lie in the ring.
Editor == INSTANCE LineEdit WITH kept <- Buffered(tty), Room <- IBLEN, Eol <- NL, Chars <- Stored
EditsLine == Editor!Spec

\* The terminal's last line after s has been sent to it when cells was there.
Shown(cells, s) ==
  S!FoldLeft(LAMBDA acc, c : CASE c = "rub" -> S!Front(acc) [] c = NL -> <<>>
                               [] c = "bell" -> acc [] OTHER -> Append(acc, c), cells, s)
Echoed(s) == S!FlattenSeq([i \in 1 .. Len(s) |-> Echo(s[i])])
Displayed == Echoed(LineOf(Buffered(tty)))

\* reprint() shows the line (ttyiin.c:183-209), with one character that is none of
\* it behind a finished line, or nothing where an old newline follows.
Reprinted ==
  LET s == Shown(Displayed, Reprint.out) IN
  \/ s = Displayed
  \/ s = <<>> /\ tty.in[Wrap(tty.istart + tty.icount)] = NL
  \/ NL \in Range(Buffered(tty)) /\ \E c \in Stored \cup {"nul"} : s = Displayed \o Echo(c)

\* What is rubbed out on the screen is what is deleted, what is shown is what is
\* stored (ttyiin.c:63-209): the screen goes on ending with the line typed.
ScreenFollows ==
  /\ \A ch \in (Typed \cup Stored) \ {CR, Dfltchars.reprint} :
       Shown(Displayed, Edited(ch).out) = Echoed(LineOf(Buffered(Edited(ch).tty)))
  /\ Reprinted

\* Nobody waits while there is a line to read and nobody about to read it
\* (ttyiin.c:51-55), but after a read of a part of a line (ttyread.c:41);
\* and nobody finds more units than a line and the peekers have left (ttycntl.c:36).
Waiting == Range(semq[isema])
Coming  == \E p \in Procs \ Waiting : cont[p].at \in {"take", "peek"}
LineTaken ==
  /\ Waiting # {} /\ NL \in Range(Buffered(tty)) /\ ~Coming => left
  /\ semcnt[isema] <= 1 + Cardinality(Procs)
=============================================================================
