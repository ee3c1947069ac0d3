---------------------------- MODULE SerialProof ----------------------------
(***************************************************************************)
(* For any number of processes, any size of buffer and any echoes: the     *)
(* semaphore counts the room, what is in the buffer is on its way out, and *)
(* it goes out in the order in which it was written.                       *)
(***************************************************************************)
EXTENDS Serial, ListProof

RoomTypes ==
  /\ semcnt \in [Sems -> Int] /\ com_count \in Int
  /\ DOMAIN cont = All

RoomInv == RoomTypes /\ RoomCounted

LEMMA OneSemaphore == osema \in Sems
  BY SerialAssumption DEF Sems, osema

LEMMA UnderwayFinite ==
  ASSUME NEW ats PROVE IsFiniteSet(Underway(ats)) /\ Cardinality(Underway(ats)) \in Nat
<1>1. IsFiniteSet(All)
  BY ProcsAssumption, FS_AddElement DEF All
<1> QED BY <1>1, FS_Subset, FS_CardinalityType DEF Underway

\* p goes on to another step of computc().
LEMMA Moved ==
  ASSUME RoomTypes, currpid \in All, NEW new, cont' = [cont EXCEPT ![currpid] = new]
  PROVE  /\ DOMAIN cont' = All
         /\ \A ats : /\ currpid \in Underway(ats) <=> cont[currpid].at \in ats
                     /\ Underway(ats)' = IF new.at \in ats THEN Underway(ats) \cup {currpid}
                                                           ELSE Underway(ats) \ {currpid}
<1>1. \A p \in All : cont'[p] = IF p = currpid THEN new ELSE cont[p]
  BY DEF RoomTypes
<1>2. ASSUME NEW ats, new.at \in ats PROVE Underway(ats)' = Underway(ats) \cup {currpid}
  BY <1>1, <1>2 DEF Underway
<1>3. ASSUME NEW ats, new.at \notin ats PROVE Underway(ats)' = Underway(ats) \ {currpid}
  BY <1>1, <1>3 DEF Underway
<1>4. DOMAIN cont' = All
  BY DEF RoomTypes
<1>5. \A ats : currpid \in Underway(ats) <=> cont[currpid].at \in ats
  BY DEF Underway
<1> QED BY <1>2, <1>3, <1>4, <1>5

\* How many processes are in computc() after such a step.
LEMMA CountMoved ==
  ASSUME RoomTypes, currpid \in All, NEW new, cont' = [cont EXCEPT ![currpid] = new], NEW ats
  PROVE  Cardinality(Underway(ats)') = Cardinality(Underway(ats))
           + (IF new.at \in ats THEN 1 ELSE 0) - (IF cont[currpid].at \in ats THEN 1 ELSE 0)
<1>1. /\ currpid \in Underway(ats) <=> cont[currpid].at \in ats
      /\ Underway(ats)' = IF new.at \in ats THEN Underway(ats) \cup {currpid} ELSE Underway(ats) \ {currpid}
  BY Moved
<1>2. /\ Cardinality(Underway(ats) \cup {currpid}) =
           IF currpid \in Underway(ats) THEN Cardinality(Underway(ats)) ELSE Cardinality(Underway(ats)) + 1
      /\ Cardinality(Underway(ats) \ {currpid}) =
           IF currpid \in Underway(ats) THEN Cardinality(Underway(ats)) - 1 ELSE Cardinality(Underway(ats))
  BY UnderwayFinite, FS_AddElement, FS_RemoveElement
<1>3. Cardinality(Underway(ats)) \in Nat
  BY UnderwayFinite
<1> QED BY <1>1, <1>2, <1>3

\* wait(com_osema) takes one place.
LEMMA AwaitCounts ==
  ASSUME RoomInv, currpid \in All, NEW at, NEW pos, NEW todo, Await(at, pos, todo),
         \/ cont[currpid].at \notin {"room", "second"} /\ at = "room"
         \/ cont[currpid].at = "room" /\ at = "second"
  PROVE  RoomInv'
<1> DEFINE new == [at |-> at, pos |-> pos, todo |-> todo]
           R == {"room", "second"}
           S == {"second"}
<1>1. cont' = [cont EXCEPT ![currpid] = new] /\ com_count' = com_count /\ new.at = at
  BY DEF Await, bufVars
<1>2. semcnt' = [semcnt EXCEPT ![osema] = @ - 1]
  BY DEF Await, WaitPass, WaitBlock
<1>3. semcnt' \in [Sems -> Int] /\ semcnt'[osema] = semcnt[osema] - 1
  BY <1>2, OneSemaphore DEF RoomInv, RoomTypes
<1> HIDE DEF new, R, S
<1>4. /\ RoomTypes /\ com_count \in Int
      /\ semcnt[osema] = COMBUFSZ - com_count - Cardinality(Underway(R)) - Cardinality(Underway(S))
  BY DEF RoomInv, RoomTypes, RoomCounted, R, S
<1>5. DOMAIN cont' = All
  BY <1>1, <1>4, Moved
<1>6. /\ Cardinality(Underway(R)') = Cardinality(Underway(R))
           + (IF at \in R THEN 1 ELSE 0) - (IF cont[currpid].at \in R THEN 1 ELSE 0)
      /\ Cardinality(Underway(S)') = Cardinality(Underway(S))
           + (IF at \in S THEN 1 ELSE 0) - (IF cont[currpid].at \in S THEN 1 ELSE 0)
  BY <1>1, <1>4, CountMoved
<1>7. Cardinality(Underway(R)') + Cardinality(Underway(S)') = Cardinality(Underway(R)) + Cardinality(Underway(S)) + 1
  <2>1. CASE cont[currpid].at \notin R /\ at = "room"
    <3>1. at \in R /\ at \notin S /\ cont[currpid].at \notin R /\ cont[currpid].at \notin S
      BY <2>1 DEF R, S
    <3> QED BY <1>6, <3>1, UnderwayFinite
  <2>2. CASE cont[currpid].at = "room" /\ at = "second"
    <3>1. at \in R /\ at \in S /\ cont[currpid].at \in R /\ cont[currpid].at \notin S
      BY <2>2 DEF R, S
    <3> QED BY <1>6, <3>1, UnderwayFinite
  <2> QED BY <2>1, <2>2 DEF R
<1>8. /\ Cardinality(Underway(R)) \in Nat /\ Cardinality(Underway(S)) \in Nat
      /\ Cardinality(Underway(R)') \in Int /\ Cardinality(Underway(S)') \in Int /\ COMBUFSZ \in Int
  <2>1. \A ats : Cardinality(Underway(ats)) \in Nat
    BY UnderwayFinite
  <2>2. Cardinality(Underway(R)') \in Int /\ Cardinality(Underway(S)') \in Int
    BY <1>6, <2>1
  <2> QED BY <2>1, <2>2, SerialAssumption
<1>9. semcnt'[osema] = COMBUFSZ - com_count' - Cardinality(Underway(R)') - Cardinality(Underway(S)')
  BY <1>1, <1>3, <1>4, <1>7, <1>8
<1> QED BY <1>1, <1>3, <1>4, <1>5, <1>9 DEF RoomInv, RoomTypes, RoomCounted, R, S

\* comwstrt(): what is taken out of the buffer is signalled as room.
LEMMA Sends ==
  ASSUME RoomTypes, NEW b, NEW n \in Int, NEW e, Comwstrt(b, n, e)
  PROVE  /\ semcnt' \in [Sems -> Int] /\ semcnt'[osema] = semcnt[osema] + 1
         /\ com_count' = n - 1 /\ com_count' \in Int
<1>1. semcnt' = [semcnt EXCEPT ![osema] = @ + 1] /\ com_count' = n - 1
  BY DEF Comwstrt, Signal
<1> QED BY <1>1, OneSemaphore DEF RoomTypes

\* The end of computc(): one or two characters more, and one or two places less
\* that are waited for.
LEMMA StoreCounts == ASSUME RoomInv, Store PROVE RoomInv'
<1> DEFINE R == {"room", "second"}
           S == {"second"}
           at == cont[currpid].at
           m == IF at = "second" THEN 2 ELSE 1
           new == Rest
<1>1. /\ currpid \in All /\ cont' = [cont EXCEPT ![currpid] = new]
      /\ at = "second" \/ at = "room"
  BY DEF Store, Running, Lost
<1>2. PICK b : \/ Comwstrt(b, com_count + m, IerSet)
               \/ com_count' = com_count + m /\ UNCHANGED <<com_start, thre, thri, semVars, schedVars>>
  BY DEF Store
<1>3. new.at \notin R
  BY DEF Rest, Idle
<1>4. at \in R /\ (at \in S <=> m = 2) /\ m \in {1, 2}
  BY <1>1
<1>5. /\ RoomTypes /\ com_count \in Int /\ com_count + m \in Int /\ semcnt[osema] \in Int
      /\ semcnt[osema] = COMBUFSZ - com_count - Cardinality(Underway(R)) - Cardinality(Underway(S))
  BY <1>4, OneSemaphore DEF RoomInv, RoomTypes, RoomCounted
<1>6. new.at \notin S
  BY <1>3
<1> HIDE DEF R, S, at, new, m
<1>7. DOMAIN cont' = All
  BY <1>1, <1>5, Moved
<1>8. /\ Cardinality(Underway(R)') = Cardinality(Underway(R)) + (IF new.at \in R THEN 1 ELSE 0) - (IF at \in R THEN 1 ELSE 0)
      /\ Cardinality(Underway(S)') = Cardinality(Underway(S)) + (IF new.at \in S THEN 1 ELSE 0) - (IF at \in S THEN 1 ELSE 0)
  BY <1>1, <1>5, CountMoved DEF at
<1>9. Cardinality(Underway(R)) \in Nat /\ Cardinality(Underway(S)) \in Nat /\ COMBUFSZ \in Int
  BY UnderwayFinite, SerialAssumption
<1>10. /\ Cardinality(Underway(R)') \in Int /\ Cardinality(Underway(S)') \in Int
       /\ Cardinality(Underway(R)') + Cardinality(Underway(S)') = Cardinality(Underway(R)) + Cardinality(Underway(S)) - m
  BY <1>3, <1>4, <1>6, <1>8, <1>9
<1>11. /\ semcnt' \in [Sems -> Int] /\ com_count' \in Int
       /\ semcnt'[osema] + com_count' = semcnt[osema] + com_count + m
  <2>1. CASE Comwstrt(b, com_count + m, IerSet)
    <3>1. /\ semcnt' \in [Sems -> Int] /\ semcnt'[osema] = semcnt[osema] + 1
          /\ com_count' = com_count + m - 1 /\ com_count' \in Int
      <4>1. PICK n \in Int : n = com_count + m
        BY <1>5
      <4>2. RoomTypes /\ Comwstrt(b, n, IerSet)
        BY <1>5, <2>1, <4>1
      <4>3. /\ semcnt' \in [Sems -> Int] /\ semcnt'[osema] = semcnt[osema] + 1
            /\ com_count' = n - 1 /\ com_count' \in Int
        BY <4>2, Sends
      <4>4. com_count' = com_count + m - 1
        BY <1>4, <1>5, <4>1, <4>3
      <4> QED BY <4>3, <4>4
    <3> QED BY <1>4, <1>5, <3>1
  <2>2. CASE com_count' = com_count + m /\ UNCHANGED <<com_start, thre, thri, semVars, schedVars>>
    <3>1. semcnt' = semcnt
      BY <2>2 DEF semVars
    <3> QED BY <1>4, <1>5, <2>2, <3>1 DEF RoomTypes
  <2> QED BY <1>2, <2>1, <2>2
<1>12. semcnt'[osema] \in Int
  BY <1>11, OneSemaphore
<1>13. semcnt'[osema] = COMBUFSZ - com_count' - Cardinality(Underway(R)') - Cardinality(Underway(S)')
  BY <1>4, <1>5, <1>9, <1>10, <1>11, <1>12
<1> QED BY <1>7, <1>11, <1>13 DEF RoomInv, RoomTypes, RoomCounted, R, S

LEMMA TransmitCounts == ASSUME RoomInv, Transmit PROVE RoomInv'
<1>1. /\ RoomTypes /\ com_count \in Int /\ semcnt[osema] \in Int /\ COMBUFSZ \in Int
      /\ semcnt[osema] = COMBUFSZ - com_count - Cardinality(Underway({"room", "second"})) - Cardinality(Underway({"second"}))
  BY OneSemaphore, SerialAssumption DEF RoomInv, RoomTypes, RoomCounted
<1>2. cont' = cont
  BY DEF Transmit
<1>3. \A ats : Underway(ats)' = Underway(ats)
  BY <1>2 DEF Underway
<1>4. /\ semcnt' \in [Sems -> Int] /\ com_count' \in Int
      /\ semcnt'[osema] + com_count' = semcnt[osema] + com_count
  <2>1. CASE Comwstrt(com_buf, com_count, ier)
    <3>1. /\ semcnt' \in [Sems -> Int] /\ semcnt'[osema] = semcnt[osema] + 1
          /\ com_count' = com_count - 1 /\ com_count' \in Int
      BY <1>1, <2>1, Sends
    <3> QED BY <1>1, <3>1
  <2>2. CASE UNCHANGED <<bufVars, semVars>>
    <3>1. semcnt' = semcnt /\ com_count' = com_count
      BY <2>2 DEF semVars, bufVars
    <3> QED BY <1>1, <3>1 DEF RoomTypes
  <2> QED BY <2>1, <2>2 DEF Transmit
<1>5. semcnt'[osema] \in Int /\ Cardinality(Underway({"room", "second"})) \in Nat /\ Cardinality(Underway({"second"})) \in Nat
  BY <1>4, OneSemaphore, UnderwayFinite
<1>6. semcnt'[osema] = COMBUFSZ - com_count' - Cardinality(Underway({"room", "second"})) - Cardinality(Underway({"second"}))
  BY <1>1, <1>4, <1>5
<1> QED BY <1>1, <1>2, <1>3, <1>4, <1>6 DEF RoomInv, RoomTypes, RoomCounted

\* A step that leaves the semaphore, the count and the calls alone.
LEMMA SameRoom == ASSUME RoomInv, semcnt' = semcnt, com_count' = com_count, cont' = cont PROVE RoomInv'
  BY DEF RoomInv, RoomTypes, RoomCounted, Underway

LEMMA RoomInit == Init => RoomInv
<1> SUFFICES ASSUME Init PROVE RoomInv
  OBVIOUS
<1>1. COMBUFSZ \in Int
  BY SerialAssumption
<1>2. semcnt = [s \in Sems |-> COMBUFSZ] /\ com_count = 0 /\ cont = [p \in All |-> Idle]
  BY DEF Init
<1>3. \A ats : "idle" \notin ats => Underway(ats) = {}
  BY <1>2 DEF Underway, Idle
<1>4. Cardinality(Underway({"room", "second"})) = 0 /\ Cardinality(Underway({"second"})) = 0
  BY <1>3, FS_EmptySet
<1>5. semcnt[osema] = COMBUFSZ
  BY <1>2, OneSemaphore
<1> QED BY <1>1, <1>2, <1>4, <1>5 DEF RoomInv, RoomTypes, RoomCounted

LEMMA RoomNext == RoomInv /\ [Next]_serialVars => RoomInv'
<1> SUFFICES ASSUME RoomInv, [Next]_serialVars PROVE RoomInv'
  OBVIOUS
<1>1. ASSUME NEW c, Write(c) PROVE RoomInv'
  <2>1. currpid \in All /\ cont[currpid] = Idle /\ Await("room", 0, <<c>>)
    BY <1>1 DEF Write, Interruptible, Running, Lost
  <2>2. cont[currpid].at \notin {"room", "second"}
    BY <2>1 DEF Idle
  <2> QED BY <2>1, <2>2, AwaitCounts
<1>2. ASSUME NEW e, Receive(e) PROVE RoomInv'
  <2>1. currpid \in All /\ cont[currpid] = Idle /\ Await("room", 0, e)
    BY <1>2 DEF Receive, Interruptible, Running, Lost
  <2>2. cont[currpid].at \notin {"room", "second"}
    BY <2>1 DEF Idle
  <2> QED BY <2>1, <2>2, AwaitCounts
<1>3. ASSUME EchoMore PROVE RoomInv'
  <2>1. currpid \in All /\ cont[currpid].at = "more" /\ Await("room", 0, cont[currpid].todo)
    BY <1>3 DEF EchoMore, Running, Lost
  <2>2. cont[currpid].at \notin {"room", "second"}
    BY <2>1
  <2> QED BY <2>1, <2>2, AwaitCounts
<1>4. ASSUME Newline PROVE RoomInv'
  <2>1. currpid \in All /\ cont[currpid].at = "room" /\ Await("second", com_start + com_count, cont[currpid].todo)
    BY <1>4 DEF Newline, Running, Lost
  <2> QED BY <2>1, AwaitCounts
<1>5. ASSUME Store PROVE RoomInv'
  BY <1>5, StoreCounts
<1>6. ASSUME Transmit PROVE RoomInv'
  BY <1>6, TransmitCounts
<1>7. ASSUME Sent PROVE RoomInv'
  BY <1>7, SameRoom DEF Sent, semVars, bufVars
<1>8. ASSUME Slice PROVE RoomInv'
  BY <1>8, SameRoom DEF Slice, semVars, bufVars
<1>9. ASSUME UNCHANGED serialVars PROVE RoomInv'
  BY <1>9, SameRoom DEF serialVars, semVars, bufVars
<1> QED BY <1>1, <1>2, <1>3, <1>4, <1>5, <1>6, <1>7, <1>8, <1>9 DEF Next, Start, Continue

\* The semaphore of a serial line counts the room that nobody has or waits for
\* (comoutput.c, comintr.c), for any number of writers and any buffer.
THEOREM RoomTheorem == Spec => []RoomCounted
<1>1. RoomInv => RoomCounted
  BY DEF RoomInv
<1> QED BY <1>1, RoomInit, RoomNext, PTL DEF Spec

DrainInv == com_count \in Int /\ Drains

LEMMA SendsDrain ==
  ASSUME NEW b, NEW n \in Int, NEW e \in BOOLEAN, n > 1 => e, Comwstrt(b, n, e) PROVE DrainInv'
<1>1. com_count' = n - 1 /\ ier' = (e /\ n # 1) /\ thre' = FALSE
  BY DEF Comwstrt
<1>2. com_count' \in Int /\ (com_count' > 0 => n > 1 /\ n # 1)
  BY <1>1
<1>3. com_count' > 0 => ier'
  BY <1>1, <1>2
<1> QED BY <1>1, <1>2, <1>3 DEF DrainInv, Drains

\* Whoever stores a character enables the interrupt, the transmitter sends until the
\* buffer is empty: what is in it has an interrupt to come (comoutput.c:49-52, comintr.c).
THEOREM DrainTheorem == Spec => []Drains
<1>1. Init => DrainInv
  BY DEF Init, DrainInv, Drains
<1>2. DrainInv /\ [Next]_serialVars => DrainInv'
  <2> SUFFICES ASSUME DrainInv, [Next]_serialVars PROVE DrainInv'
    OBVIOUS
  <2>1. ASSUME UNCHANGED <<bufVars, uartVars>> PROVE DrainInv'
    <3>1. com_count' = com_count /\ ier' = ier /\ thre' = thre /\ thri' = thri
      BY <2>1 DEF bufVars, uartVars
    <3> QED BY <3>1 DEF DrainInv, Drains
  <2>2. ASSUME Start \/ EchoMore \/ Newline PROVE DrainInv'
    BY <2>1, <2>2 DEF Start, Write, Receive, EchoMore, Newline, Await
  <2>3. ASSUME Store PROVE DrainInv'
    <3> DEFINE m == IF cont[currpid].at = "second" THEN 2 ELSE 1
    <3>1. PICK b : IF thre THEN Comwstrt(b, com_count + m, IerSet)
                   ELSE com_count' = com_count + m /\ ier' = IerSet /\ thre' = thre
      BY <2>3 DEF Store
    <3>0. m \in {1, 2}
      OBVIOUS
    <3> HIDE DEF m
    <3>2. PICK n \in Int : n = com_count + m
      BY <3>0 DEF DrainInv
    <3>3. CASE thre
      <4>1. Comwstrt(b, n, IerSet)
        BY <3>1, <3>2, <3>3
      <4> QED BY <4>1, SendsDrain DEF IerSet
    <3>4. CASE ~thre
      <4>1. com_count' = n /\ ier' = IerSet /\ thre' = thre
        BY <3>1, <3>2, <3>4
      <4> QED BY <3>4, <4>1 DEF DrainInv, Drains, IerSet
    <3> QED BY <3>3, <3>4
  <2>4. ASSUME Transmit PROVE DrainInv'
    <3>1. com_count \in Int /\ ier
      BY <2>4 DEF DrainInv, Transmit
    <3>2. CASE thre /\ com_count # 0
      <4>1. Comwstrt(com_buf, com_count, TRUE)
        BY <2>4, <3>1, <3>2 DEF Transmit, Comwstrt
      <4> QED BY <3>1, <4>1, SendsDrain
    <3>3. CASE ~(thre /\ com_count # 0)
      <4>1. com_count' = com_count /\ ier' = ier /\ thre' = thre
        BY <2>4, <3>3 DEF Transmit, bufVars
      <4>2. com_count > 0 => ~thre
        BY <3>1, <3>3
      <4> QED BY <3>1, <4>1, <4>2 DEF DrainInv, Drains
    <3> QED BY <3>2, <3>3
  <2>5. ASSUME Sent PROVE DrainInv'
    <3>1. com_count' = com_count /\ ier' = ier /\ thri' = ier
      BY <2>5 DEF Sent, bufVars
    <3> QED BY <3>1 DEF DrainInv, Drains
  <2>6. ASSUME Slice PROVE DrainInv'
    BY <2>1, <2>6 DEF Slice
  <2>7. ASSUME UNCHANGED serialVars PROVE DrainInv'
    BY <2>1, <2>7 DEF serialVars
  <2> QED BY <2>2, <2>3, <2>4, <2>5, <2>6, <2>7 DEF Next, Continue
<1>3. DrainInv => Drains
  BY DEF DrainInv
<1> QED BY <1>1, <1>2, <1>3, PTL DEF Spec
-----------------------------------------------------------------------------
(* The circular buffer as a queue *)

\* What lies in the buffer b, n characters from start on.
HeldIn(b, start, n) == [i \in 1 .. n |-> b[(start + i - 1) % COMBUFSZ]]
Buffers == [0 .. COMBUFSZ - 1 -> Chars]

LEMMA Positive == COMBUFSZ \in Nat \ {0}
<1>1. IsFiniteSet(All)
  BY ProcsAssumption, FS_AddElement DEF All
<1> QED BY <1>1, FS_CardinalityType, SerialAssumption

LEMMA WrapIs ==
  ASSUME NEW x \in 0 .. 2 * COMBUFSZ - 1
  PROVE  Wrap(x) \in 0 .. COMBUFSZ - 1 /\ x % COMBUFSZ = Wrap(x)
<1> PICK N \in Nat \ {0} : N = COMBUFSZ
  BY Positive
<1>1. CASE x < N
  <2>1. x \in 0 .. N - 1
    BY <1>1
  <2>2. x % N = x
    BY <2>1
  <2> QED BY <1>1, <2>1, <2>2 DEF Wrap
<1>2. CASE ~(x < N)
  <2>1. x \in N .. 2 * N - 1
    BY <1>2
  <2>2. x % N = x - N
    BY <2>1
  <2> QED BY <1>2, <2>1, <2>2 DEF Wrap
<1> QED BY <1>1, <1>2

\* Character by character.
LEMMA HeldIs ==
  ASSUME NEW b \in Buffers, NEW start \in 0 .. COMBUFSZ - 1, NEW n \in 0 .. COMBUFSZ
  PROVE  /\ HeldIn(b, start, n) \in Seq(Chars) /\ Len(HeldIn(b, start, n)) = n
         /\ \A i \in 1 .. n : HeldIn(b, start, n)[i] = b[Wrap(start + i - 1)]
<1> PICK N \in Nat \ {0} : N = COMBUFSZ
  BY Positive
<1>1. ASSUME NEW i \in 1 .. n
      PROVE  /\ (start + i - 1) % COMBUFSZ = Wrap(start + i - 1)
             /\ Wrap(start + i - 1) \in 0 .. COMBUFSZ - 1
  <2>1. start + i - 1 \in 0 .. 2 * COMBUFSZ - 1
    BY DEF Buffers
  <2> QED BY <2>1, WrapIs
<1>2. \A i \in 1 .. n : b[(start + i - 1) % COMBUFSZ] \in Chars
  BY <1>1 DEF Buffers
<1>3. n \in Nat
  OBVIOUS
<1>4. HeldIn(b, start, n) \in Seq(Chars)
  BY <1>2, <1>3, IsASeq DEF HeldIn
<1>5. Len(HeldIn(b, start, n)) = n
  BY <1>3, <1>4, LenProperties DEF HeldIn
<1> QED BY <1>1, <1>4, <1>5 DEF HeldIn

\* A character is put behind the last one.
LEMMA HeldMore ==
  ASSUME NEW b \in Buffers, NEW start \in 0 .. COMBUFSZ - 1, NEW n \in 0 .. COMBUFSZ - 1, NEW c \in Chars
  PROVE  /\ [b EXCEPT ![Wrap(start + n)] = c] \in Buffers
         /\ HeldIn([b EXCEPT ![Wrap(start + n)] = c], start, n + 1) = HeldIn(b, start, n) \o <<c>>
<1> PICK N \in Nat \ {0} : N = COMBUFSZ
  BY Positive
<1> DEFINE d == [b EXCEPT ![Wrap(start + n)] = c]
<1>1. start + n \in 0 .. 2 * COMBUFSZ - 1
  OBVIOUS
<1>2. Wrap(start + n) \in 0 .. COMBUFSZ - 1
  BY <1>1, WrapIs
<1>3. d \in Buffers /\ d[Wrap(start + n)] = c
  BY <1>2 DEF Buffers
<1>4. ASSUME NEW i \in 1 .. n
      PROVE  d[Wrap(start + i - 1)] = b[Wrap(start + i - 1)]
  <2>1. Wrap(start + i - 1) # Wrap(start + n) /\ Wrap(start + i - 1) \in 0 .. COMBUFSZ - 1
    BY DEF Wrap
  <2> QED BY <2>1 DEF Buffers
<1>5. n \in 0 .. COMBUFSZ /\ n + 1 \in 0 .. COMBUFSZ
  OBVIOUS
<1>6. /\ HeldIn(b, start, n) \in Seq(Chars) /\ Len(HeldIn(b, start, n)) = n
      /\ \A i \in 1 .. n : HeldIn(b, start, n)[i] = b[Wrap(start + i - 1)]
  BY <1>5, HeldIs
<1> HIDE DEF d
<1>7. /\ HeldIn(d, start, n + 1) \in Seq(Chars) /\ Len(HeldIn(d, start, n + 1)) = n + 1
      /\ \A i \in 1 .. n + 1 : HeldIn(d, start, n + 1)[i] = d[Wrap(start + i - 1)]
  BY <1>3, <1>5, HeldIs
<1>8. PICK a \in Seq(Chars) : a = HeldIn(b, start, n)
  BY <1>6
<1>9. /\ Append(a, c) \in Seq(Chars) /\ Len(Append(a, c)) = n + 1
      /\ \A i \in 1 .. n : Append(a, c)[i] = a[i]
      /\ Append(a, c)[n + 1] = c
      /\ Append(a, c) = a \o <<c>>
  BY <1>6, <1>8, AppendProperties, AppendIsConcat
<1>10. ASSUME NEW i \in 1 .. n + 1  PROVE HeldIn(d, start, n + 1)[i] = Append(a, c)[i]
  <2>1. CASE i = n + 1
    <3>1. start + i - 1 = start + n
      BY <2>1
    <3> QED BY <1>3, <1>7, <1>9, <2>1, <3>1
  <2>2. CASE i \in 1 .. n
    BY <1>4, <1>6, <1>7, <1>8, <1>9, <2>2
  <2>3. i = n + 1 \/ i \in 1 .. n
    OBVIOUS
  <2> QED BY <2>1, <2>2, <2>3
<1>11. HeldIn(d, start, n + 1) = Append(a, c)
  BY <1>7, <1>9, <1>10, SeqEqual
<1> QED BY <1>3, <1>8, <1>9, <1>11 DEF d

\* The first character is taken out.
LEMMA HeldLess ==
  ASSUME NEW b \in Buffers, NEW start \in 0 .. COMBUFSZ - 1, NEW n \in 1 .. COMBUFSZ
  PROVE  /\ WrapStart(start + 1) \in 0 .. COMBUFSZ - 1
         /\ HeldIn(b, start, n) # <<>>
         /\ HeldIn(b, WrapStart(start + 1), n - 1) = Tail(HeldIn(b, start, n))
<1> PICK N \in Nat \ {0} : N = COMBUFSZ
  BY Positive
<1>1. WrapStart(start + 1) \in 0 .. COMBUFSZ - 1 /\ n - 1 \in 0 .. COMBUFSZ /\ n \in 0 .. COMBUFSZ
  BY DEF WrapStart
<1>2. PICK a \in Seq(Chars) : /\ a = HeldIn(b, start, n) /\ Len(a) = n
                             /\ \A i \in 1 .. n : a[i] = b[Wrap(start + i - 1)]
  BY <1>1, HeldIs
<1>3. PICK d \in Seq(Chars) : /\ d = HeldIn(b, WrapStart(start + 1), n - 1) /\ Len(d) = n - 1
                             /\ \A i \in 1 .. n - 1 : d[i] = b[Wrap(WrapStart(start + 1) + i - 1)]
  BY <1>1, HeldIs
<1>4. a # <<>>
  BY <1>2, EmptySeq
<1>5. /\ Tail(a) \in Seq(Chars) /\ Len(Tail(a)) = n - 1
      /\ \A i \in 1 .. n - 1 : Tail(a)[i] = a[i + 1]
  BY <1>2, <1>4, HeadTailProperties
<1>6. ASSUME NEW i \in 1 .. n - 1  PROVE d[i] = Tail(a)[i]
  <2>1. i + 1 \in 1 .. n /\ start + (i + 1) - 1 = start + i
    OBVIOUS
  <2>2. Wrap(WrapStart(start + 1) + i - 1) = Wrap(start + i)
    BY DEF Wrap, WrapStart
  <2>3. a[i + 1] = b[Wrap(start + i)]
    BY <1>2, <2>1
  <2> QED BY <1>3, <1>5, <2>2, <2>3
<1>7. d = Tail(a)
  BY <1>3, <1>5, <1>6, SeqEqual
<1> QED BY <1>1, <1>2, <1>3, <1>4, <1>7
-----------------------------------------------------------------------------
(* Who waits for room *)

Active == Pids(rdy) \cup {currpid}

\* As many wait as the count is below zero, each is in computc(), and nobody who
\* waits runs.  The kernel may have lost itself: currpid is then EMPTY.
Blocked ==
  /\ DOMAIN pstate = All /\ currpid \notin Pids(rdy)
  /\ semq \in [Sems -> Seq(All)] /\ Distinct(semq[osema])
  /\ Len(semq[osema]) = IF semcnt[osema] < 0 THEN -semcnt[osema] ELSE 0
  /\ Members(semq[osema]) \subseteq Underway({"room", "second"}) \ Active

\* resched() chooses among the ready processes and the current one.
LEMMA ReschedWho ==
  ASSUME NEW ps, NEW rd, DOMAIN ps = All, currpid \notin Pids(rd), Resched(ps, rd)
  PROVE  /\ DOMAIN pstate' = All /\ currpid' \notin Pids(rdy')
         /\ Active' \subseteq Pids(rd) \cup {EMPTY} \cup (IF ps[currpid] = "PRCURR" THEN {currpid} ELSE {})
<1> DEFINE stays  == ps[currpid] = "PRCURR" /\ \A e \in rd : e.key < PPrio(currpid)
           queued == IF ps[currpid] = "PRCURR" THEN Insert(rd, currpid, PPrio(currpid)) ELSE rd
           old    == IF ps[currpid] = "PRCURR" THEN [ps EXCEPT ![currpid] = "PRREADY"] ELSE ps
<1>1. /\ Pids(queued) = Pids(rd) \cup (IF ps[currpid] = "PRCURR" THEN {currpid} ELSE {})
      /\ DOMAIN old = All
  BY PidsInsert
<1>2. CASE stays /\ pstate' = ps /\ rdy' = rd /\ UNCHANGED currpid
  BY <1>2 DEF Active
<1> HIDE DEF queued, old
<1>3. CASE \E e \in queued :
              /\ IsLast(queued, e)
              /\ currpid' = e.pid
              /\ rdy' = Remove(queued, {e.pid})
              /\ pstate' = [old EXCEPT ![e.pid] = "PRCURR"]
  <2>1. PICK e \in queued : /\ currpid' = e.pid
                           /\ rdy' = Remove(queued, {e.pid})
                           /\ pstate' = [old EXCEPT ![e.pid] = "PRCURR"]
    BY <1>3
  <2>2. e.pid \in Pids(queued) /\ Pids(rdy') = Pids(queued) \ {e.pid}
    BY <2>1, PidsRemove DEF Pids
  <2> QED BY <1>1, <2>1, <2>2 DEF Active
<1>4. CASE currpid' = EMPTY /\ rdy' = {} /\ pstate' = old
  <2>1. Pids(rdy') = {}
    BY <1>4 DEF Pids
  <2> QED BY <1>1, <1>4, <2>1 DEF Active
<1> QED BY <1>2, <1>3, <1>4 DEF Resched, queued, old

LEMMA BlockWho ==
  ASSUME DOMAIN pstate = All, currpid \in All, currpid \notin Pids(rdy), Block("PRWAIT")
  PROVE  /\ DOMAIN pstate' = All /\ currpid' \notin Pids(rdy')
         /\ Active' \subseteq (Active \ {currpid}) \cup {EMPTY}
<1> DEFINE ps == [pstate EXCEPT ![currpid] = "PRWAIT"]
<1>1. DOMAIN ps = All /\ ps[currpid] = "PRWAIT" /\ Resched(ps, rdy)
  BY DEF Block
<1> HIDE DEF ps
<1> QED BY <1>1, ReschedWho DEF Active

LEMMA ReadyWho ==
  ASSUME currpid \notin Pids(rdy), NEW s, currpid \notin Members(s), Ready(s)
  PROVE  /\ DOMAIN pstate' = All /\ currpid' \notin Pids(rdy')
         /\ Active' \subseteq Active \cup Members(s) \cup {EMPTY}
<1> DEFINE S  == {s[i] : i \in 1 .. Len(s)}
           ps == [p \in All |-> IF p \in S THEN "PRREADY" ELSE pstate[p]]
           E  == { [pid |-> s[i], key |-> PPrio(s[i]), turn |-> i] : i \in 1 .. Len(s) }
           rd == InsertAll(rdy, E)
<1>1. Pids(E) \subseteq Members(s)
  BY DEF Pids, Members
<1>2. Pids(rd) \subseteq Pids(rdy) \cup Members(s)
  BY <1>1, PidsInsertAll
<1>3. DOMAIN ps = All /\ Resched(ps, rd)
  BY DEF Ready
<1> HIDE DEF ps, rd
<1>4. currpid \notin Pids(rd)
  BY <1>2
<1> QED BY <1>2, <1>3, <1>4, ReschedWho DEF Active

LEMMA NotEverybody == EMPTY \notin All
  BY ProcsAssumption DEF EMPTY, All, NULLPROC

LEMMA SchedInitialWho == SchedInit => DOMAIN pstate = All /\ currpid \notin Pids(rdy)
<1> SUFFICES ASSUME SchedInit PROVE DOMAIN pstate = All /\ currpid \notin Pids(rdy)
  OBVIOUS
<1> DEFINE E == { [pid |-> p, key |-> PPrio(p), turn |-> p] : p \in All \ {currpid} }
<1>1. rdy = InsertAll({}, E) /\ DOMAIN pstate = All
  BY DEF SchedInit
<1>2. currpid \notin Pids(E) /\ Pids({}) = {}
  BY DEF Pids
<1> HIDE DEF E
<1> QED BY <1>1, <1>2, PidsInsertAll

\* Only the current process moves in computc().
Others == \A p \in All \ {currpid} : cont'[p] = cont[p]

\* wait() keeps it so.
LEMMA AwaitBlocked ==
  ASSUME RoomTypes, Blocked, currpid \in All,
         NEW at \in {"room", "second"}, NEW pos, NEW todo, Await(at, pos, todo)
  PROVE  Blocked'
<1> DEFINE R == {"room", "second"}
<1>1. cont' = [cont EXCEPT ![currpid] = [at |-> at, pos |-> pos, todo |-> todo]]
  BY DEF Await
<1>2. Underway(R) \subseteq Underway(R)' /\ currpid \in Underway(R)'
  <2>1. \A p \in All : cont'[p] = IF p = currpid THEN [at |-> at, pos |-> pos, todo |-> todo] ELSE cont[p]
    BY <1>1 DEF RoomTypes
  <2> QED BY <2>1 DEF Underway
<1>3. semcnt[osema] \in Int /\ semq[osema] \in Seq(All) /\ osema \in Sems
  BY OneSemaphore DEF RoomTypes, Blocked
<1>4. semcnt' = [semcnt EXCEPT ![osema] = @ - 1]
  BY DEF Await, WaitPass, WaitBlock
<1>5. semcnt'[osema] = semcnt[osema] - 1
  BY <1>3, <1>4 DEF RoomTypes
<1>6. CASE WaitPass(osema)
  <2>1. semcnt[osema] > 0 /\ semq' = semq /\ pstate' = pstate /\ rdy' = rdy /\ currpid' = currpid
    BY <1>6 DEF WaitPass, schedVars
  <2>2. Active' = Active
    BY <2>1 DEF Active
  <2>3. Len(semq'[osema]) = IF semcnt'[osema] < 0 THEN -semcnt'[osema] ELSE 0
    BY <1>3, <1>5, <2>1 DEF Blocked
  <2> HIDE DEF R
  <2>4. Members(semq'[osema]) \subseteq Underway(R)' \ Active'
    BY <1>2, <2>1, <2>2 DEF Blocked, R
  <2> QED BY <2>1, <2>3, <2>4 DEF Blocked, R
<1>7. CASE WaitBlock(osema)
  <2>1. /\ semcnt[osema] <= 0 /\ Block("PRWAIT")
        /\ semq' = [semq EXCEPT ![osema] = Append(semq[osema], currpid)]
    BY <1>7 DEF WaitBlock, Enqueued
  <2>2. PICK Q \in Seq(All) : Q = semq[osema]
    BY <1>3
  <2>3. Distinct(Q) /\ currpid \notin Members(Q) /\ Members(Q) \subseteq Underway(R) \ Active
    BY <2>2 DEF Blocked, Active
  <2>4. /\ Append(Q, currpid) \in Seq(All) /\ Len(Append(Q, currpid)) = Len(Q) + 1
        /\ Distinct(Append(Q, currpid)) /\ Members(Append(Q, currpid)) = Members(Q) \cup {currpid}
    BY <2>3, OneJoins
  <2>5. semq' \in [Sems -> Seq(All)] /\ semq'[osema] = Append(Q, currpid)
    BY <1>3, <2>1, <2>2, <2>4 DEF Blocked
  <2>6. /\ DOMAIN pstate' = All /\ currpid' \notin Pids(rdy')
        /\ Active' \subseteq (Active \ {currpid}) \cup {EMPTY}
    BY <2>1, BlockWho DEF Blocked
  <2>7. Len(semq'[osema]) = IF semcnt'[osema] < 0 THEN -semcnt'[osema] ELSE 0
    <3>1. Len(Q) = IF semcnt[osema] < 0 THEN -semcnt[osema] ELSE 0
      BY <2>2 DEF Blocked
    <3> QED BY <1>3, <1>5, <2>1, <2>4, <2>5, <3>1
  <2> HIDE DEF R
  <2>8. Underway(R) \subseteq All
    BY DEF Underway
  <2>9. Members(semq'[osema]) \subseteq Underway(R)' \ Active'
    BY <1>2, <2>3, <2>4, <2>5, <2>6, <2>8, NotEverybody
  <2> QED BY <2>4, <2>5, <2>6, <2>7, <2>9 DEF Blocked, R
<1> QED BY <1>6, <1>7 DEF Await

\* signal() keeps it so: whoever it readies no longer waits.
LEMMA SignalBlocked ==
  ASSUME RoomTypes, Blocked, currpid \in All, Others, Signal(osema)
  PROVE  Blocked'
<1> DEFINE R == {"room", "second"}
<1>1. semcnt[osema] \in Int /\ osema \in Sems
  BY OneSemaphore DEF RoomTypes
<1>2. semcnt'[osema] = semcnt[osema] + 1
  BY <1>1 DEF Signal, RoomTypes
<1>3. PICK Q \in Seq(All) : Q = semq[osema]
  BY <1>1 DEF Blocked
<1>4. PICK k : k = Awakened(osema, 1)
  OBVIOUS
<1>5. Len(Q) = IF semcnt[osema] < 0 THEN -semcnt[osema] ELSE 0
  BY <1>3 DEF Blocked
<1>6. k = (IF semcnt[osema] < 0 THEN 1 ELSE 0) /\ k \in 0 .. Len(Q)
  BY <1>1, <1>3, <1>4, <1>5 DEF Awakened
<1>7. Distinct(Q) /\ currpid \notin Members(Q) /\ Members(Q) \subseteq Underway(R) \ Active
  BY <1>3 DEF Blocked, Active
<1>8. PICK T : T = SubSeq(Q, k + 1, Len(Q))
  OBVIOUS
<1>9. PICK H : H = SubSeq(Q, 1, k)
  OBVIOUS
<1>10. /\ T \in Seq(All) /\ Len(T) = Len(Q) - k /\ Distinct(T)
       /\ Members(T) = Members(Q) \ Members(H) /\ Members(H) \subseteq Members(Q)
  BY <1>6, <1>7, <1>8, <1>9, FirstGone
<1>11. /\ semq' = [semq EXCEPT ![osema] = T]
       /\ IF k = 0 THEN UNCHANGED schedVars ELSE Ready(H)
  BY <1>3, <1>4, <1>8, <1>9 DEF Signal
<1>12. semq' \in [Sems -> Seq(All)] /\ semq'[osema] = T
  BY <1>1, <1>10, <1>11 DEF Blocked
<1>13. /\ DOMAIN pstate' = All /\ currpid' \notin Pids(rdy')
       /\ Active' \subseteq Active \cup Members(H) \cup {EMPTY}
  <2>1. CASE k = 0
    <3>1. pstate' = pstate /\ rdy' = rdy /\ currpid' = currpid
      BY <1>11, <2>1 DEF schedVars
    <3> QED BY <3>1 DEF Blocked, Active
  <2>2. CASE k # 0
    <3>1. Ready(H) /\ currpid \notin Members(H)
      BY <1>7, <1>10, <1>11, <2>2
    <3> QED BY <3>1, ReadyWho DEF Blocked
  <2> QED BY <2>1, <2>2
<1>14. Len(T) = IF semcnt'[osema] < 0 THEN -semcnt'[osema] ELSE 0
  BY <1>1, <1>2, <1>5, <1>6, <1>10
<1>15. \A p \in Members(Q) : p \in Underway(R)'
  BY <1>7 DEF Others, Underway, Active
<1> HIDE DEF R
<1>16. Members(T) \subseteq Underway(R)' \ Active'
  <2>1. Underway(R) \subseteq All
    BY DEF Underway
  <2> QED BY <1>7, <1>10, <1>13, <1>15, <2>1, NotEverybody
<1> QED BY <1>10, <1>12, <1>13, <1>14, <1>16 DEF Blocked, R

\* Whoever is in computc() and runs has the places it needs: more are in computc()
\* than wait.
LEMMA HasRoom ==
  ASSUME RoomInv, Blocked, com_count \in 0 .. COMBUFSZ, currpid \in Underway({"room", "second"})
  PROVE  com_count + (IF cont[currpid].at = "second" THEN 2 ELSE 1) \in 1 .. COMBUFSZ
<1> DEFINE R == {"room", "second"}
           S == {"second"}
           T == Underway(R) \ {currpid}
<1>1. PICK Q \in Seq(All) : Q = semq[osema]
  BY OneSemaphore DEF Blocked
<1>2. PICK n \in Nat : n = Len(Q)
  BY LenProperties
<1>3. semcnt[osema] \in Int /\ n = IF semcnt[osema] < 0 THEN -semcnt[osema] ELSE 0
  BY <1>1, <1>2, OneSemaphore DEF Blocked, RoomInv, RoomTypes
<1>4. Distinct(Q) /\ Members(Q) \subseteq T
  BY <1>1 DEF Blocked, Active
<1>5. /\ IsFiniteSet(Underway(R)) /\ Cardinality(Underway(R)) \in Nat /\ Cardinality(Underway(S)) \in Nat
      /\ IsFiniteSet(Underway(S))
  BY UnderwayFinite
<1>6. IsFiniteSet(T) /\ Cardinality(T) = Cardinality(Underway(R)) - 1
  BY <1>5, FS_RemoveElement
<1> HIDE DEF T, R, S
<1>7. n <= Cardinality(T)
  <2> DEFINE f == [i \in 1 .. n |-> Q[i]]
  <2>1. f \in Injection(1 .. n, T)
    BY <1>2, <1>4 DEF Injection, IsInjective, Distinct, Members
  <2>2. Cardinality(1 .. n) = n
    BY FS_Interval
  <2> HIDE DEF f
  <2> QED BY <1>6, <2>1, <2>2, FS_Injection
<1>8. /\ com_count \in Int /\ COMBUFSZ \in Int
      /\ semcnt[osema] = COMBUFSZ - com_count - Cardinality(Underway(R)) - Cardinality(Underway(S))
  BY SerialAssumption DEF RoomInv, RoomCounted, R, S
<1>9. cont[currpid].at = "second" => Cardinality(Underway(S)) > 0
  <2> SUFFICES ASSUME cont[currpid].at = "second" PROVE Underway(S) # {}
    BY <1>5, FS_EmptySet
  <2> QED BY DEF Underway, S
<1> QED BY <1>3, <1>5, <1>6, <1>7, <1>8, <1>9
-----------------------------------------------------------------------------
(* Who is in computc() *)

\* Whoever has begun has something to write, a newline is at the second place, and
\* nobody writes a newline while somebody else writes.
Calls ==
  /\ \A p \in All : cont[p].todo \in Seq(Text \cup {NL}) /\ (cont[p].todo = <<>> => cont[p] = Idle)
  /\ \A p \in All : cont[p].at = "second" => Head(cont[p].todo) = NL
  /\ ~NewlineShares

\* The current process goes on with new: it writes nothing that it had not to
\* write, or it is known to write alone.
LEMMA CallsMoved ==
  ASSUME RoomTypes, Calls, currpid \in All, NEW new, cont' = [cont EXCEPT ![currpid] = new],
         new.todo \in Seq(Text \cup {NL}), new.todo = <<>> => new = Idle,
         new.at = "second" => Head(new.todo) = NL,
         \/ ~NewlineShares'
         \/ /\ cont[currpid] # Idle
            /\ \A i \in 1 .. Len(new.todo) : \E j \in 1 .. Len(cont[currpid].todo) :
                 new.todo[i] = cont[currpid].todo[j]
  PROVE  Calls'
<1>1. \A p \in All : cont'[p] = IF p = currpid THEN new ELSE cont[p]
  BY DEF RoomTypes
<1>2. /\ \A p \in All : cont'[p].todo \in Seq(Text \cup {NL}) /\ (cont'[p].todo = <<>> => cont'[p] = Idle)
      /\ \A p \in All : cont'[p].at = "second" => Head(cont'[p].todo) = NL
  BY <1>1 DEF Calls
<1>3. ASSUME cont[currpid] # Idle,
             \A i \in 1 .. Len(new.todo) : \E j \in 1 .. Len(cont[currpid].todo) :
               new.todo[i] = cont[currpid].todo[j],
             NewlineShares'
      PROVE  FALSE
  <2>1. PICK p \in Writing' : Writing' # {p} /\ \E i \in 1 .. Len(cont'[p].todo) : cont'[p].todo[i] = NL
    BY <1>3 DEF NewlineShares
  <2>2. Writing' \subseteq Writing /\ p \in Writing /\ currpid \in Writing /\ Writing # {p}
    BY <1>1, <1>3, <2>1 DEF Writing
  <2>3. \E i \in 1 .. Len(cont[p].todo) : cont[p].todo[i] = NL
    BY <1>1, <1>3, <2>1 DEF Writing
  <2> QED BY <2>2, <2>3 DEF Calls, NewlineShares
<1> QED BY <1>2, <1>3 DEF Calls

LEMMA CallsSame == ASSUME Calls, cont' = cont PROVE Calls'
  BY DEF Calls, NewlineShares, Writing

\* The process has begun: it has a character to write.
LEMMA HasSome ==
  ASSUME Calls, NEW p \in All, cont[p].at # "idle"
  PROVE  /\ cont[p] # Idle /\ cont[p].todo \in Seq(Text \cup {NL}) /\ cont[p].todo # <<>>
         /\ Head(cont[p].todo) \in Text \cup {NL} /\ Head(cont[p].todo) = cont[p].todo[1]
         /\ Tail(cont[p].todo) \in Seq(Text \cup {NL})
         /\ \A i \in 1 .. Len(Tail(cont[p].todo)) : \E j \in 1 .. Len(cont[p].todo) :
              Tail(cont[p].todo)[i] = cont[p].todo[j]
<1>1. cont[p] # Idle /\ cont[p].todo \in Seq(Text \cup {NL}) /\ cont[p].todo # <<>>
  BY DEF Calls, Idle
<1>2. PICK t \in Seq(Text \cup {NL}) : t = cont[p].todo /\ t # <<>>
  BY <1>1
<1>3. /\ Tail(t) \in Seq(Text \cup {NL}) /\ Len(Tail(t)) = Len(t) - 1 /\ Len(t) \in Nat
      /\ \A i \in 1 .. Len(Tail(t)) : Tail(t)[i] = t[i + 1]
      /\ Head(t) \in Text \cup {NL}
  BY <1>2, HeadTailProperties, LenProperties
<1>4. ASSUME NEW i \in 1 .. Len(Tail(t))  PROVE \E j \in 1 .. Len(t) : Tail(t)[i] = t[j]
  <2>1. i + 1 \in 1 .. Len(t)
    BY <1>3
  <2> QED BY <1>3, <2>1
<1>5. Head(t) = t[1]
  BY <1>2
<1> QED BY <1>1, <1>2, <1>3, <1>4, <1>5

\* Nobody writes beside a newline.
LEMMA Alone ==
  ASSUME Calls, NEW p \in All, cont[p].at = "second", NEW r \in All, cont[r].at # "idle"
  PROVE  r = p
<1>1. cont[p] # Idle /\ cont[p].todo \in Seq(Text \cup {NL}) /\ cont[p].todo # <<>>
      /\ cont[p].todo[1] = NL
  BY HasSome DEF Calls
<1>2. 1 \in 1 .. Len(cont[p].todo)
  BY <1>1, EmptySeq, LenProperties
<1>3. cont[r] # Idle
  BY DEF Idle
<1>4. p \in Writing /\ r \in Writing
  BY <1>1, <1>3 DEF Writing
<1> QED BY <1>1, <1>2, <1>4 DEF Calls, NewlineShares
-----------------------------------------------------------------------------
(* What was written goes out in order *)

\* The buffer is a ring, and whoever waits for the second place of a newline has
\* read the position that is still the next one to write.
Buffer ==
  /\ com_start \in 0 .. COMBUFSZ - 1 /\ com_count \in 0 .. COMBUFSZ /\ com_buf \in Buffers
  /\ \A p \in All : cont[p].at = "second" =>
       /\ cont[p].pos \in 0 .. 2 * COMBUFSZ - 1
       /\ Wrap(cont[p].pos) = Wrap(com_start + com_count)

LineInv == RoomInv /\ Blocked /\ Calls /\ Buffer

Held == HeldIn(com_buf, com_start, com_count)

LEMMA HeldThen ==
  ASSUME NEW b, NEW start, NEW n, com_buf' = b, com_start' = start, com_count' = n
  PROVE  Held' = HeldIn(b, start, n)
  BY DEF Held, HeldIn

LEMMA HeldSame == ASSUME UNCHANGED bufVars PROVE Held' = Held
  BY HeldThen DEF Held, bufVars

LEMMA LineInit == Init => LineInv
<1> SUFFICES ASSUME Init PROVE LineInv
  OBVIOUS
<1>1. /\ semcnt = [s \in Sems |-> COMBUFSZ] /\ semq = [s \in Sems |-> <<>>]
      /\ com_buf = [i \in 0 .. COMBUFSZ - 1 |-> CR] /\ com_start = 0 /\ com_count = 0
      /\ cont = [p \in All |-> Idle] /\ SchedInit
  BY DEF Init
<1>2. Blocked
  <2>1. semq \in [Sems -> Seq(All)] /\ semq[osema] = <<>> /\ semcnt[osema] = COMBUFSZ
    BY <1>1, OneSemaphore, EmptySeq
  <2>2. Distinct(semq[osema]) /\ Members(semq[osema]) = {} /\ Len(semq[osema]) = 0
    BY <2>1, EmptySeq DEF Distinct, Members
  <2> QED BY <1>1, <2>1, <2>2, SchedInitialWho, Positive DEF Blocked
<1>3. Calls
  <2>1. \A p \in All : cont[p] = Idle
    BY <1>1
  <2>2. Writing = {}
    BY <2>1 DEF Writing
  <2>3. Idle.at # "second" /\ Idle.todo = <<>>
    BY DEF Idle
  <2>4. <<>> \in Seq(Text \cup {NL})
    BY EmptySeq
  <2>5. ~NewlineShares
    BY <2>2 DEF NewlineShares
  <2> QED BY <2>1, <2>3, <2>4, <2>5 DEF Calls
<1>4. Buffer
  <2>1. com_buf \in Buffers
    BY <1>1 DEF Buffers, Chars
  <2> QED BY <1>1, <2>1, Positive DEF Buffer, Idle
<1> QED BY <1>2, <1>3, <1>4, RoomInit DEF LineInv

LEMMA CalmIsNext == [CalmNext]_serialVars => [Next]_serialVars
  BY DEF CalmNext, Next

\* A process waits for room: the buffer is as it was.
LEMMA AwaitLine ==
  ASSUME LineInv, RoomInv', currpid \in All, NEW at \in {"room", "second"}, NEW pos,
         NEW todo \in Seq(Text \cup {NL}), todo # <<>>, Await(at, pos, todo),
         at = "second" => Head(todo) = NL /\ pos = com_start + com_count,
         \/ ~NewlineShares'
         \/ cont[currpid] # Idle /\ todo = cont[currpid].todo
  PROVE  LineInv' /\ Held' = Held
<1> DEFINE new == [at |-> at, pos |-> pos, todo |-> todo]
<1>1. cont' = [cont EXCEPT ![currpid] = new] /\ UNCHANGED bufVars
  BY DEF Await
<1>2. RoomTypes /\ Blocked /\ Calls /\ Buffer
  BY DEF LineInv, RoomInv
<1>3. Blocked'
  BY <1>2, AwaitBlocked
<1>4. Calls'
  BY <1>1, <1>2, CallsMoved
<1>5. Buffer'
  <2>1. \A p \in All : cont'[p] = IF p = currpid THEN new ELSE cont[p]
    BY <1>1, <1>2 DEF RoomTypes
  <2>2. com_start' = com_start /\ com_count' = com_count /\ com_buf' = com_buf
    BY <1>1 DEF bufVars
  <2>3. com_start + com_count \in 0 .. 2 * COMBUFSZ - 1
    BY <1>2, Positive DEF Buffer
  <2>4. ASSUME NEW p \in All, cont'[p].at = "second"
        PROVE  cont'[p].pos \in 0 .. 2 * COMBUFSZ - 1 /\ Wrap(cont'[p].pos) = Wrap(com_start + com_count)
    BY <1>2, <2>1, <2>3, <2>4 DEF Buffer
  <2> QED BY <1>2, <2>2, <2>4 DEF Buffer
<1> QED BY <1>1, <1>3, <1>4, <1>5, HeldSame DEF LineInv

\* comwstrt() takes the first of n characters out of the buffer b.
LEMMA ComwstrtLine ==
  ASSUME LineInv, currpid \in All, Others, NEW b \in Buffers, NEW n \in 1 .. COMBUFSZ, NEW e, Comwstrt(b, n, e)
  PROVE  /\ Blocked'
         /\ com_start' \in 0 .. COMBUFSZ - 1 /\ com_count' \in 0 .. COMBUFSZ /\ com_buf' \in Buffers
         /\ Wrap(com_start' + com_count') = Wrap(com_start + n)
         /\ HeldIn(b, com_start, n) # <<>> /\ Held' = Tail(HeldIn(b, com_start, n))
<1>1. /\ com_buf' = b /\ com_count' = n - 1 /\ com_start' = WrapStart(com_start + 1) /\ Signal(osema)
  BY DEF Comwstrt
<1>2. RoomTypes /\ Blocked /\ com_start \in 0 .. COMBUFSZ - 1
  BY DEF LineInv, RoomInv, Buffer
<1>3. Blocked'
  BY <1>1, <1>2, SignalBlocked
<1>4. /\ com_start' \in 0 .. COMBUFSZ - 1 /\ HeldIn(b, com_start, n) # <<>>
      /\ HeldIn(b, WrapStart(com_start + 1), n - 1) = Tail(HeldIn(b, com_start, n))
  BY <1>1, <1>2, HeldLess
<1>5. n - 1 \in 0 .. COMBUFSZ
  BY Positive
<1>6. Wrap(com_start' + com_count') = Wrap(com_start + n)
  BY <1>1, <1>2, Positive DEF Wrap, WrapStart
<1> QED BY <1>1, <1>3, <1>4, <1>5, <1>6, HeldThen

\* Who stores a character puts it, a newline as two, behind what is in the buffer.
LEMMA StoreLine ==
  ASSUME LineInv, Store
  PROVE  \E b \in Buffers, n \in 1 .. COMBUFSZ, c \in Text \cup {NL} :
           /\ HeldIn(b, com_start, n) = Held \o (IF c = NL THEN <<CR, NL>> ELSE <<c>>)
           /\ IF thre THEN Comwstrt(b, n, IerSet)
              ELSE /\ com_buf' = b /\ com_count' = n /\ com_start' = com_start
                   /\ UNCHANGED <<semVars, schedVars>>
<1> DEFINE at == cont[currpid].at
           c  == Head(cont[currpid].todo)
<1>1. /\ currpid \in All /\ at \in {"room", "second"}
      /\ at = "second" \/ c # NL
      /\ RoomInv /\ Blocked /\ Calls
      /\ com_start \in 0 .. COMBUFSZ - 1 /\ com_count \in 0 .. COMBUFSZ /\ com_buf \in Buffers
  BY DEF Store, Running, Lost, LineInv, Buffer
<1>2. currpid \in Underway({"room", "second"})
  BY <1>1 DEF Underway
<1>3. com_count + (IF at = "second" THEN 2 ELSE 1) \in 1 .. COMBUFSZ
  BY <1>1, <1>2, HasRoom
<1>4. c \in Text \cup {NL} /\ (at = "second" => c = NL)
  <2>1. cont[currpid].at # "idle"
    BY <1>1
  <2> QED BY <1>1, <2>1, HasSome DEF Calls
<1>5. CASE at = "room"
  <2> DEFINE b == [com_buf EXCEPT ![Wrap(com_start + com_count)] = c]
             n == com_count + 1
  <2> HIDE DEF at, c
  <2>1. com_count \in 0 .. COMBUFSZ - 1 /\ c \in Chars /\ c # NL /\ n \in 1 .. COMBUFSZ
    <3>1. at # "second"
      BY <1>5
    <3>2. com_count + 1 \in 1 .. COMBUFSZ
      BY <1>3, <3>1
    <3>3. com_count \in 0 .. COMBUFSZ - 1
      BY <1>1, <3>2, Positive
    <3>4. c # NL /\ c \in Chars
      BY <1>1, <1>4, <3>1 DEF Chars
    <3> QED BY <3>2, <3>3, <3>4
  <2>2. b \in Buffers /\ HeldIn(b, com_start, n) = Held \o <<c>>
    BY <1>1, <2>1, HeldMore DEF Held
  <2>3. IF thre THEN Comwstrt(b, n, IerSet)
        ELSE com_buf' = b /\ com_count' = n /\ com_start' = com_start /\ UNCHANGED <<semVars, schedVars>>
    BY <1>5 DEF Store, at, c
  <2> HIDE DEF b, n
  <2> QED BY <1>4, <2>1, <2>2, <2>3
<1>6. CASE at = "second"
  <2> DEFINE m  == com_count + 1
             n  == com_count + 2
             b1 == [com_buf EXCEPT ![Wrap(com_start + com_count)] = CR]
             b2 == [b1 EXCEPT ![Wrap(com_start + m)] = NL]
             p1 == Wrap(cont[currpid].pos)
  <2>1. /\ com_count \in 0 .. COMBUFSZ - 1 /\ m \in 0 .. COMBUFSZ - 1 /\ n \in 1 .. COMBUFSZ
        /\ m + 1 = n /\ CR \in Chars /\ NL \in Chars
    BY <1>1, <1>3, <1>6, Positive DEF Chars
  <2>2. b1 \in Buffers /\ HeldIn(b1, com_start, m) = Held \o <<CR>>
    BY <1>1, <2>1, HeldMore DEF Held
  <2>3. p1 = Wrap(com_start + com_count)
    BY <1>1, <1>6 DEF LineInv, Buffer
  <2>4. Wrap(p1 + 1) = Wrap(com_start + m)
    BY <1>1, <2>1, <2>3, Positive DEF Wrap
  <2>5. [com_buf EXCEPT ![p1] = CR, ![Wrap(p1 + 1)] = NL] = b2
    BY <2>3, <2>4
  <2>6. IF thre THEN Comwstrt(b2, n, IerSet)
        ELSE com_buf' = b2 /\ com_count' = n /\ com_start' = com_start /\ UNCHANGED <<semVars, schedVars>>
    <3>1. IF thre THEN Comwstrt([com_buf EXCEPT ![p1] = CR, ![Wrap(p1 + 1)] = NL], n, IerSet)
          ELSE /\ com_buf' = [com_buf EXCEPT ![p1] = CR, ![Wrap(p1 + 1)] = NL] /\ com_count' = n
               /\ com_start' = com_start /\ UNCHANGED <<semVars, schedVars>>
      BY <1>6 DEF Store
    <3> HIDE DEF b2, n
    <3> QED BY <2>5, <3>1
  <2> HIDE DEF b1, m, n, p1
  <2>7. b2 \in Buffers /\ HeldIn(b2, com_start, n) = (Held \o <<CR>>) \o <<NL>>
    <3>1. /\ b2 \in Buffers
          /\ HeldIn(b2, com_start, m + 1) = HeldIn(b1, com_start, m) \o <<NL>>
      BY <1>1, <2>1, <2>2, HeldMore
    <3> HIDE DEF b2
    <3> QED BY <2>1, <2>2, <3>1
  <2> HIDE DEF b2
  <2>8. (Held \o <<CR>>) \o <<NL>> = Held \o <<CR, NL>>
    <3>1. Held \in Seq(Chars)
      BY <1>1, HeldIs DEF Held
    <3>2. PICK h \in Seq(Chars) : h = Held
      BY <3>1
    <3>3. <<CR>> \in Seq(Chars) /\ <<NL>> \in Seq(Chars)
      BY <2>1
    <3>4. <<CR>> \o <<NL>> = <<CR, NL>>
      <4>1. <<CR>> \o <<NL>> = Append(<<CR>>, NL)
        BY <3>3, <2>1, AppendIsConcat
      <4>2. /\ Append(<<CR>>, NL) \in Seq(Chars) /\ Len(Append(<<CR>>, NL)) = 2
            /\ Append(<<CR>>, NL)[1] = CR /\ Append(<<CR>>, NL)[2] = NL
        <5>1. <<CR>> \in Seq(Chars) /\ Len(<<CR>>) = 1 /\ <<CR>>[1] = CR
          BY <3>3
        <5> QED BY <2>1, <5>1, AppendProperties
      <4>3. <<CR, NL>> \in Seq(Chars) /\ Len(<<CR, NL>>) = 2
        BY <2>1
      <4>4. <<CR, NL>>[1] = CR /\ <<CR, NL>>[2] = NL
        OBVIOUS
      <4>5. \A i \in 1 .. 2 : i = 1 \/ i = 2
        OBVIOUS
      <4>6. \A i \in 1 .. 2 : Append(<<CR>>, NL)[i] = <<CR, NL>>[i]
        BY <4>2, <4>4, <4>5
      <4>7. Append(<<CR>>, NL) = <<CR, NL>>
        BY <4>2, <4>3, <4>6, SeqEqual
      <4> QED BY <4>1, <4>7
    <3>5. (h \o <<CR>>) \o <<NL>> = h \o (<<CR>> \o <<NL>>)
      BY <3>3, ConcatAssociative
    <3> QED BY <3>2, <3>4, <3>5
  <2> QED BY <1>4, <1>6, <2>1, <2>6, <2>7, <2>8
<1> QED BY <1>1, <1>5, <1>6

\* Nothing of the buffer, the semaphore or the processes changes.
LEMMA SameLine ==
  ASSUME LineInv, RoomInv', UNCHANGED <<bufVars, semVars, schedVars, cont>>
  PROVE  LineInv' /\ Held' = Held
<1>1. /\ semcnt' = semcnt /\ semq' = semq /\ pstate' = pstate /\ rdy' = rdy /\ currpid' = currpid
      /\ cont' = cont /\ UNCHANGED bufVars
      /\ com_buf' = com_buf /\ com_start' = com_start /\ com_count' = com_count
  BY DEF semVars, schedVars, bufVars
<1>2. Blocked'
  BY <1>1 DEF LineInv, Blocked, Active, Underway
<1>3. Calls'
  BY <1>1, CallsSame DEF LineInv
<1>4. Buffer'
  BY <1>1 DEF LineInv, Buffer
<1> QED BY <1>1, <1>2, <1>3, <1>4, HeldSame DEF LineInv

\* No more is held back than there is room for.
LEMMA HeldFits == LineInv' => Len(Held') <= COMBUFSZ
<1> SUFFICES ASSUME LineInv' PROVE Len(Held') <= COMBUFSZ
  OBVIOUS
<1>1. com_start' \in 0 .. COMBUFSZ - 1 /\ com_count' \in 0 .. COMBUFSZ /\ com_buf' \in Buffers
  BY DEF LineInv, Buffer
<1>2. Held' = HeldIn(com_buf', com_start', com_count')
  BY HeldThen
<1>3. Len(HeldIn(com_buf', com_start', com_count')) = com_count'
  BY <1>1, HeldIs
<1> QED BY <1>1, <1>2, <1>3, Positive

LEMMA StoreKeeps ==
  ASSUME LineInv, RoomInv', Store
  PROVE  LineInv' /\ [Line!Next]_Held
<1>1. PICK b \in Buffers, n \in 1 .. COMBUFSZ, c \in Text \cup {NL} :
           /\ HeldIn(b, com_start, n) = Held \o (IF c = NL THEN <<CR, NL>> ELSE <<c>>)
           /\ IF thre THEN Comwstrt(b, n, IerSet)
              ELSE /\ com_buf' = b /\ com_count' = n /\ com_start' = com_start
                   /\ UNCHANGED <<semVars, schedVars>>
  BY StoreLine
<1>2. currpid \in All /\ cont' = [cont EXCEPT ![currpid] = Rest] /\ cont[currpid].at \in {"room", "second"}
  BY DEF Store, Running, Lost
<1>3. RoomTypes /\ Blocked /\ Calls /\ Buffer
  BY DEF LineInv, RoomInv
<1>4. \A p \in All : cont'[p] = IF p = currpid THEN Rest ELSE cont[p]
  BY <1>2, <1>3 DEF RoomTypes
<1>5. Others
  BY <1>4 DEF Others
<1>6. Calls'
  <2>0. cont[currpid].at # "idle"
    BY <1>2
  <2>1. /\ cont[currpid] # Idle /\ Tail(cont[currpid].todo) \in Seq(Text \cup {NL})
        /\ \A i \in 1 .. Len(Tail(cont[currpid].todo)) : \E j \in 1 .. Len(cont[currpid].todo) :
             Tail(cont[currpid].todo)[i] = cont[currpid].todo[j]
    BY <1>2, <1>3, <2>0, HasSome
  <2>2. /\ Rest.at # "second" /\ Rest.todo = Tail(cont[currpid].todo)
        /\ Rest.todo = <<>> => Rest = Idle
    BY DEF Rest, Idle
  <2> HIDE DEF Rest
  <2> QED BY <1>2, <1>3, <2>1, <2>2, CallsMoved
<1>7. \A p \in All : cont'[p].at # "second"
  <2>1. Rest.at # "second"
    BY DEF Rest, Idle
  <2>2. ASSUME NEW p \in All, p # currpid, cont[p].at = "second" PROVE FALSE
    BY <1>2, <1>3, <2>2, Alone
  <2> QED BY <1>4, <2>1, <2>2
<1>8. CASE thre
  <2>1. Comwstrt(b, n, IerSet)
    BY <1>1, <1>8
  <2>2. /\ Blocked'
        /\ com_start' \in 0 .. COMBUFSZ - 1 /\ com_count' \in 0 .. COMBUFSZ /\ com_buf' \in Buffers
        /\ Held' = Tail(HeldIn(b, com_start, n))
    BY <1>2, <1>5, <2>1, ComwstrtLine
  <2>3. LineInv'
    BY <1>6, <1>7, <2>2 DEF LineInv, Buffer
  <2>4. Held' = Tail(Held \o (IF c = NL THEN <<CR, NL>> ELSE <<c>>))
    BY <1>1, <2>2
  <2> QED BY <2>3, <2>4, HeldFits DEF Line!Next, Line!Pass, Line!Out, Held, HeldIn
<1>9. CASE ~thre
  <2>1. com_buf' = b /\ com_count' = n /\ com_start' = com_start /\ UNCHANGED <<semVars, schedVars>>
    BY <1>1, <1>9
  <2>2. Blocked'
    <3>1. /\ semcnt' = semcnt /\ semq' = semq /\ pstate' = pstate /\ rdy' = rdy /\ currpid' = currpid
      BY <2>1 DEF semVars, schedVars
    <3>2. Members(semq[osema]) \subseteq Underway({"room", "second"}) \ {currpid}
      BY <1>3 DEF Blocked, Active
    <3>3. Underway({"room", "second"}) \ {currpid} \subseteq Underway({"room", "second"})'
      BY <1>4 DEF Underway
    <3> QED BY <1>3, <3>1, <3>2, <3>3 DEF Blocked, Active
  <2>3. LineInv'
    BY <1>1, <1>3, <1>6, <1>7, <2>1, <2>2 DEF LineInv, Buffer
  <2>4. Held' = Held \o (IF c = NL THEN <<CR, NL>> ELSE <<c>>)
    BY <1>1, <2>1, HeldThen
  <2> QED BY <2>3, <2>4, HeldFits DEF Line!Next, Line!Accept, Line!Out, Held, HeldIn
<1> QED BY <1>8, <1>9

LEMMA TransmitKeeps ==
  ASSUME LineInv, RoomInv', Transmit
  PROVE  LineInv' /\ [Line!Next]_Held
<1>1. currpid \in All /\ cont' = cont
  BY DEF Transmit, Interruptible, Running, Lost
<1>2. Others
  BY <1>1 DEF Others
<1>3. RoomTypes /\ Blocked /\ Calls /\ Buffer
  BY DEF LineInv, RoomInv
<1>4. Calls'
  BY <1>1, <1>3, CallsSame
<1>5. CASE com_count # 0 /\ Comwstrt(com_buf, com_count, ier)
  <2>1. com_count \in 1 .. COMBUFSZ /\ com_buf \in Buffers
    BY <1>3, <1>5, Positive DEF Buffer
  <2>2. /\ Blocked'
        /\ com_start' \in 0 .. COMBUFSZ - 1 /\ com_count' \in 0 .. COMBUFSZ /\ com_buf' \in Buffers
        /\ Wrap(com_start' + com_count') = Wrap(com_start + com_count)
        /\ Held # <<>> /\ Held' = Tail(Held)
    BY <1>1, <1>2, <1>5, <2>1, ComwstrtLine DEF Held
  <2>3. LineInv'
    BY <1>1, <1>3, <1>4, <2>2 DEF LineInv, Buffer
  <2> QED BY <2>2, <2>3, HeldFits DEF Line!Next, Line!Transmit, Held, HeldIn
<1>6. CASE UNCHANGED <<bufVars, ier, thre, semVars, schedVars>>
  <2>1. UNCHANGED <<bufVars, semVars, schedVars, cont>>
    BY <1>1, <1>6
  <2> QED BY <2>1, SameLine
<1> QED BY <1>5, <1>6 DEF Transmit

LEMMA LineNext ==
  LineInv /\ [CalmNext]_serialVars => LineInv' /\ [Line!Next]_Held
<1> SUFFICES ASSUME LineInv, [CalmNext]_serialVars PROVE LineInv' /\ [Line!Next]_Held
  OBVIOUS
<1>0. RoomInv /\ RoomInv' /\ Calls
  BY CalmIsNext, RoomNext DEF LineInv
<1>1. ASSUME NEW c \in Text \cup {NL}, Write(c), Calm' PROVE LineInv' /\ Held' = Held
  <2>1. currpid \in All /\ Await("room", 0, <<c>>) /\ ~NewlineShares'
    BY <1>1 DEF Write, Interruptible, Running, Lost, Calm
  <2>2. <<c>> \in Seq(Text \cup {NL}) /\ <<c>> # <<>>
    BY <1>1
  <2> QED BY <1>0, <2>1, <2>2, AwaitLine
<1>2. ASSUME NEW e \in Echoes, Receive(e), Calm' PROVE LineInv' /\ Held' = Held
  <2>1. currpid \in All /\ Await("room", 0, e) /\ ~NewlineShares'
    BY <1>2 DEF Receive, Interruptible, Running, Lost, Calm
  <2>2. e \in Seq(Text \cup {NL}) /\ e # <<>>
    BY <1>2, SerialAssumption DEF NL
  <2> QED BY <1>0, <2>1, <2>2, AwaitLine
<1>3. ASSUME EchoMore PROVE LineInv' /\ Held' = Held
  <2>1. currpid \in All /\ cont[currpid].at # "idle" /\ Await("room", 0, cont[currpid].todo)
    BY <1>3 DEF EchoMore, Running, Lost
  <2>2. cont[currpid] # Idle /\ cont[currpid].todo \in Seq(Text \cup {NL}) /\ cont[currpid].todo # <<>>
    BY <1>0, <2>1, HasSome
  <2> QED BY <1>0, <2>1, <2>2, AwaitLine
<1>4. ASSUME Newline PROVE LineInv' /\ Held' = Held
  <2>1. /\ currpid \in All /\ cont[currpid].at # "idle" /\ Head(cont[currpid].todo) = NL
        /\ Await("second", com_start + com_count, cont[currpid].todo)
    BY <1>4 DEF Newline, Running, Lost
  <2>2. cont[currpid] # Idle /\ cont[currpid].todo \in Seq(Text \cup {NL}) /\ cont[currpid].todo # <<>>
    BY <1>0, <2>1, HasSome
  <2> QED BY <1>0, <2>1, <2>2, AwaitLine
<1>5. ASSUME Store PROVE LineInv' /\ [Line!Next]_Held
  BY <1>0, <1>5, StoreKeeps
<1>6. ASSUME Transmit PROVE LineInv' /\ [Line!Next]_Held
  BY <1>0, <1>6, TransmitKeeps
<1>7. ASSUME Sent PROVE LineInv' /\ Held' = Held
  BY <1>0, <1>7, SameLine DEF Sent
<1>8. ASSUME Slice PROVE LineInv' /\ Held' = Held
  <2>1. /\ Resched(pstate, rdy) /\ semcnt' = semcnt /\ semq' = semq /\ cont' = cont
        /\ com_buf' = com_buf /\ com_start' = com_start /\ com_count' = com_count /\ UNCHANGED bufVars
    BY <1>8 DEF Slice, SliceEnd, semVars, bufVars
  <2>2. /\ DOMAIN pstate' = All /\ currpid' \notin Pids(rdy')
        /\ Active' \subseteq Active \cup {EMPTY}
    BY <2>1, ReschedWho DEF LineInv, Blocked, Active
  <2>3. Underway({"room", "second"})' = Underway({"room", "second"}) /\ EMPTY \notin Underway({"room", "second"})
    BY <2>1, NotEverybody DEF Underway
  <2>4. Blocked'
    BY <2>1, <2>2, <2>3 DEF LineInv, Blocked
  <2>5. Buffer' /\ Calls'
    BY <1>0, <2>1, CallsSame DEF LineInv, Buffer
  <2> QED BY <1>0, <2>1, <2>4, <2>5, HeldSame DEF LineInv
<1>9. ASSUME UNCHANGED serialVars PROVE LineInv' /\ Held' = Held
  BY <1>0, <1>9, SameLine DEF serialVars
<1> QED BY <1>1, <1>2, <1>3, <1>4, <1>5, <1>6, <1>7, <1>8, <1>9 DEF CalmNext, Start, Continue

\* The buffer of a serial line implements LineAbs: what is written goes out once and
\* in the order it was accepted, a newline as carriage return and line feed next to
\* each other, and no more is held back than there is room for (comoutput.c,
\* comintr.c), as long as the calls and the input are such as the driver copes with.
THEOREM OrderTheorem == CalmSpec => InOrder
<1>1. Init => Line!Init
  <2> SUFFICES ASSUME Init PROVE Held = <<>>
    BY DEF Line!Init, Held, HeldIn
  <2>1. com_count = 0 /\ com_start \in 0 .. COMBUFSZ - 1 /\ com_buf \in Buffers
    BY LineInit DEF Init, LineInv, Buffer
  <2>2. Held \in Seq(Chars) /\ Len(Held) = 0
    BY <2>1, Positive, HeldIs DEF Held
  <2> QED BY <2>2, EmptySeq
<1> QED BY <1>1, LineInit, LineNext, PTL DEF CalmSpec, InOrder, Line!Spec, Held, HeldIn
=============================================================================
