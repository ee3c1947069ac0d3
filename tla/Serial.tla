------------------------------- MODULE Serial -------------------------------
(***************************************************************************)
(* Output on a serial line (com/comoutput.c, comintr.c): processes and the *)
(* echo of the terminal driver put characters into a circular buffer, the  *)
(* transmitter interrupt takes them out.  A semaphore counts the room.     *)
(* The echo runs inside the receiver interrupt and may block there, in     *)
(* whatever process was interrupted.                                       *)
(***************************************************************************)
EXTENDS Semaphores, Functions

CONSTANTS
  COMBUFSZ,   \* size of com_buf
  Text,       \* characters that processes write
  Echoes      \* sequences the terminal driver echoes for one character of input

\* NPROC is less than COMBUFSZ: not everybody can have half a newline's room.
ASSUME SerialAssumption ==
  /\ NSEM = 1 /\ COMBUFSZ \in Nat /\ Cardinality(All) < COMBUFSZ
  /\ \A e \in Echoes : e \in Seq(Text \cup {"nl"}) /\ e # <<>>

osema == 0
NL == "nl"
CR == "cr"
Chars == Text \cup {NL, CR}

VARIABLES
  com_buf, com_start, com_count,
  cont,    \* cont[p]: the computc() p is in, with interrupts disabled: how far, the
           \* position it has read and the characters it still has to write
  ier,     \* the transmitter interrupt is enabled (UART_IER_THRI)
  thre,    \* the transmitter can take a character (UART_LSR_THRE)
  thri     \* a transmitter interrupt is pending

bufVars    == <<com_buf, com_start, com_count>>
uartVars   == <<ier, thre, thri>>
serialVars == <<schedVars, semVars, bufVars, cont, uartVars>>

Idle == [at |-> "idle", pos |-> 0, todo |-> <<>>]

Init ==
  /\ SchedInit
  /\ sstate = [s \in Sems |-> "SUSED"] /\ semcnt = [s \in Sems |-> COMBUFSZ]
  /\ semq = [s \in Sems |-> <<>>] /\ nextsem = NSEM - 1
  /\ psem = [p \in All |-> 0] /\ pwaitret = [p \in All |-> "OK"]
  /\ com_buf = [i \in 0 .. COMBUFSZ - 1 |-> CR] /\ com_start = 0 /\ com_count = 0
  /\ cont = [p \in All |-> Idle]
  /\ ier = FALSE /\ thre = TRUE /\ thri = FALSE

\* EMPTY has become the current process: the kernel runs on proctab[-1].
Lost == currpid \notin All
Running == ~Lost
Interruptible == Running /\ cont[currpid] = Idle
-----------------------------------------------------------------------------
\* wait(com_osema), in the step at of computc().
Await(at, pos, todo) ==
  /\ cont' = [cont EXCEPT ![currpid] = [at |-> at, pos |-> pos, todo |-> todo]]
  /\ WaitPass(osema) \/ WaitBlock(osema)
  /\ UNCHANGED <<bufVars, uartVars>>

\* computc(c) by a process, up to its first wait().
Write(c) == currpid # NULLPROC /\ Interruptible /\ Await("room", 0, <<c>>)

\* The receiver interrupt: the terminal driver echoes the character.
Receive(echo) == Interruptible /\ Await("room", 0, echo)

\* The next character of an echo.
EchoMore == Running /\ cont[currpid].at = "more" /\ Await("room", 0, cont[currpid].todo)

\* Mutant: the position is not wrapped.
NoWrap(pos) == pos
Wrap(pos) == IF pos >= COMBUFSZ THEN pos - COMBUFSZ ELSE pos
WrapStart(start) == IF start >= COMBUFSZ THEN 0 ELSE start

\* A newline needs a second place.  The position is read before it is waited for.
Newline ==
  /\ Running /\ cont[currpid].at = "room" /\ Head(cont[currpid].todo) = NL
  /\ Await("second", com_start + com_count, cont[currpid].todo)

\* Mutant: the interrupt stays as it was.
IerKept == ier
IerSet  == TRUE

\* What is left of an echo.
Rest == IF Tail(cont[currpid].todo) = <<>> THEN Idle
        ELSE [at |-> "more", pos |-> 0, todo |-> Tail(cont[currpid].todo)]

\* Mutant: nobody is told of the room.
Untold(b, n, e) ==
  /\ com_buf' = b /\ com_count' = n - 1 /\ com_start' = WrapStart(com_start + 1)
  /\ ier' = (e /\ n # 1) /\ thre' = FALSE /\ thri' = FALSE
  /\ UNCHANGED <<semVars, schedVars>>

\* comwstrt() with b, n and e as com_buf, com_count and the enable bit.
Comwstrt(b, n, e) ==
  /\ com_buf' = b /\ com_count' = n - 1 /\ com_start' = WrapStart(com_start + 1)
  /\ ier' = (e /\ n # 1) /\ thre' = FALSE /\ thri' = FALSE
  /\ Signal(osema)

\* The end of computc(): the character is stored, and sent if the line is idle.
Store ==
  LET c  == Head(cont[currpid].todo)
      at == cont[currpid].at
      nl == at = "second"
      p1 == Wrap(IF nl THEN cont[currpid].pos ELSE com_start + com_count)
      b  == IF nl THEN [com_buf EXCEPT ![p1] = CR, ![Wrap(p1 + 1)] = NL]
            ELSE [com_buf EXCEPT ![p1] = c]
      n  == com_count + (IF nl THEN 2 ELSE 1)
  IN
  /\ Running
  /\ nl \/ (at = "room" /\ c # NL)
  /\ cont' = [cont EXCEPT ![currpid] = Rest]
  /\ IF thre THEN Comwstrt(b, n, IerSet)
     ELSE /\ com_buf' = b /\ com_count' = n /\ ier' = IerSet
          /\ UNCHANGED <<com_start, thre, thri, semVars, schedVars>>

\* The transmitter interrupt; reading the IIR takes it away.
Transmit ==
  /\ Interruptible /\ thri /\ ier
  /\ IF thre /\ com_count # 0 THEN Comwstrt(com_buf, com_count, ier)
     ELSE thri' = FALSE /\ UNCHANGED <<bufVars, ier, thre, semVars, schedVars>>
  /\ UNCHANGED cont

\* The UART (external) has sent its character.
Sent == ~thre /\ thre' = TRUE /\ thri' = ier /\ UNCHANGED <<schedVars, semVars, bufVars, cont, ier>>

\* The end of a time slice.
Slice == Interruptible /\ SliceEnd /\ UNCHANGED <<semVars, bufVars, cont, uartVars>>

Start == \/ \E c \in Text \cup {NL} : Write(c)
         \/ \E e \in Echoes : Receive(e)
Continue == EchoMore \/ Newline \/ Store
Next == Start \/ Continue \/ Transmit \/ Sent \/ Slice

Spec == Init /\ [][Next]_serialVars

\* Calls and input that the driver copes with: nobody begins to write while
\* somebody else is writing a newline or the other way round, and an echo inside
\* the null process finds room to spare.
Writing == {p \in All : cont[p] # Idle}
NewlineShares ==
  \E p \in Writing : Writing # {p} /\ \E i \in 1 .. Len(cont[p].todo) : cont[p].todo[i] = NL
Calm == /\ ~NewlineShares
        /\ cont[NULLPROC] # Idle => semcnt[osema] >= Len(cont[NULLPROC].todo)
CalmNext == (Start /\ Calm') \/ Continue \/ Transmit \/ Sent \/ Slice
CalmSpec == Init /\ [][CalmNext]_serialVars

\* The UART sends, a pending interrupt is taken when interrupts are enabled, the
\* CPU executes the current process and its time slice ends.
FairSpec ==
  /\ CalmSpec
  /\ WF_serialVars(Sent) /\ SF_serialVars(Transmit)
  /\ WF_serialVars(Continue) /\ SF_serialVars(Slice)
-----------------------------------------------------------------------------
\* What goes out on the line is what was written: the buffer is a queue, whatever
\* interrupt or writer comes between the two waits of a newline.
Line == INSTANCE LineAbs WITH
  Char <- Text \cup {NL}, Newline <- NL, Expanded <- <<CR, NL>>, Room <- COMBUFSZ,
  held <- [i \in 1 .. com_count |-> com_buf[(com_start + i - 1) % COMBUFSZ]]
InOrder == Line!Spec

\* The semaphore counts the room that nobody has or waits for (comoutput.c:29-47,
\* comintr.c): each wait() in a computc() that is not finished has taken one place.
Underway(ats) == {p \in All : cont[p].at \in ats}
RoomCounted ==
  semcnt[osema] = COMBUFSZ - com_count - Cardinality(Underway({"room", "second"}))
                                       - Cardinality(Underway({"second"}))

\* Characters never lie in the buffer with no interrupt to come.
Drains == com_count > 0 => ier /\ (thri \/ ~thre)

\* Who writes gets done: not everybody waits for room that nobody frees.
Written == \A p \in Procs : cont[p] # Idle ~> cont[p] = Idle
=============================================================================
