# Verification of the XINU readers/writer locks

This directory models the readers/writer locks that this repository adds to the
XINU kernel (`src/sys`), the part of the kernel they depend on, and the other
parts of the system that have logic of their own: memory, buffers, terminals, the
network boot monitor, the configuration program and the C library.  TLC checks the
models on small instances; TLAPS proves central invariants for every value of the
constants.

Contents: [inventory](#the-system) - [modules](#modules) - [how the code is
read](#how-the-code-is-read) - [properties and runs](#properties-and-runs) -
[bounds and fairness](#bounds-and-fairness) - [proofs](#proofs) -
[differences](#differences-from-the-documentation) - [limits of the
code](#limits-of-the-code-seen-while-modelling) - [not modelled](#not-modelled)

## The system

XINU is a small uniprocessor kernel for the i386.  Processes share one address
space; a system call disables interrupts and so runs undivided until it restores
them or calls `resched()`.  Interleaving therefore happens at three places: at
the `resched()` inside a system call (which returns only when the process is
chosen again), between system calls, and at clock and device interrupts.

| Component | State | Operations | Interacts with |
|---|---|---|---|
| Readers/writer locks (`lock.c`, `releaseall.c`, `lcreate.c`, `ldelete.c`, `linit.c`) | `locktab[]`: `lstate`, `ltype`, `lprio`, a queue, `lproc[]`, `deleteTracker[]`; in each process `locksState[]`, `lockid`, `pwaitret`, `procwaittime` | `lcreate`, `ldelete`, `lock`, `releaseall` | queues, ready list, inheritance |
| Priority inheritance (`priorityInheritance.c`) | `pinh` of each process | `findPrio`, `findMaxPriority`, `findProcessWithLock` | called by `lock`, `release`, `kill`; read by `resched`, `ready` |
| Scheduler and processes (`resched.c`, `ready.c`, `create.c`, `resume.c`, `suspend.c`, `kill.c`, `chprio.c`) | `proctab[]`, the ready list, `currpid` | create, resume, suspend, kill, chprio, context switch | everything |
| Queues (`insert.c`, `insertd.c`, `queue.c`, `getitem.c`, `newqueue.c`) | `q[]`, doubly linked lists of process ids, ordered by key, by arrival or as a delta list | insert, insertd, enqueue, dequeue, getfirst, getlast | ready list, locks, semaphores, sleep |
| Clock and sleeping (`sleep*.c`, `wakeup.c`, `unsleep.c`, `clkint.S`, `ssclock.c`) | the delta list `clockq`, `preempt`, `ctr1000` | sleep, wakeup, time slices, stop/start of the clock | scheduler, `recvtim` |
| Semaphores (`wait.c`, `signal.c`, `signaln.c`, `screate.c`, `sdelete.c`, `sreset.c`) | `semaph[]`: a count and a FIFO queue | as named | kill, buffer pools, gpq, tty |
| Messages (`send.c`, `receive.c`, `recvclr.c`, `recvtim.c`) | one message slot per process | as named | kill notifies the next of kin with `send` |
| Memory (`getmem.c`, `freemem.c`, `getstk.c`) | `memlist`, the free blocks in order of address | allocate and free heap blocks and stacks | buffer pools, item queues, process creation |
| Buffer pools (`mkpool.c`, `getbuf.c`, `freebuf.c`) | per pool a chain of buffers and a semaphore | make a pool, get, get without waiting, free | memory, semaphores |
| Item queues (`gpq.c`) | per queue two arrays, a count, a head | `newq`, `enq`, `deq`, `headq`, `freeq`, `seeq` | memory |
| Serial line (`com/`) | a circular buffer, a semaphore, the interrupt mask | write, transmitter and receiver interrupts | semaphores, terminal driver |
| Terminal (`tty/`) | a circular input buffer with the line being edited, a 1/0 semaphore, `lastc` | characters by interrupt, read, peek | semaphores, serial line |
| Boot monitor (`mon/monboot.c`, `montftp.c`, `monbootp.c`, `montimer.c`, `monudp.c`) | `mon_boot_state`, the timer, block and byte counters, the server's port | BOOTP, TFTP, the clock | network |
| Packets (`monarp.c`, `monip.c`, `monnet.c`, `mongpq.c`) | the ARP table with waiting packets, a queue, a buffer pool | send, receive, resolve | cards |
| Network cards (`ethinit.c`, `ethrom.c`, `ethwrite.c`, `ethwstrt.c`, `ethintr.c`, `mon3com.c`) | card registers, a transmit ring or rings of descriptors | search, set up, send, interrupts | PCI, packets |
| PCI (`pci.c`, `monpci.c`) | the entry of the BIOS service | find the service, find and list devices, configuration space | the BIOS (external) |
| C library (`qsort.c`, `doprnt.c`, `doscan.c`) | static comparison function; the position in the text | sort, print, scan | |
| Configuration program (`config.y`) | tables of types and devices | one action per piece of the grammar | writes `conf.h`, `conf.c` |

What is hard here: a hand-over decides for whole groups of waiters by re-reading
a queue that it changes; the same fact (who holds, who waits) is kept in three
tables; locks and descriptors are deleted and reused while processes still wait
or hold; processes are killed in any state and their slots reused; inheritance
is propagated recursively through tables that are partly stale; a call may be
suspended in its middle; interrupt handlers change what a loop with interrupts
enabled is in the middle of changing; packets are lost, late and doubled.  What
makes each component correct:

* locks: exclusion, nobody waits without a reason or for ever, no overtaking,
  deletion is noticed by those who wait, a deleted descriptor is refused;
* inheritance: whoever is waited for runs at the waiters' priority, the
  recursion ends;
* processes and queues: a process is on the list its state names, and on no other;
* clock: a sleeper is awakened when its time has come; semaphores: the count tells
  how many wait, FIFO order; messages: never lost between a time-out and a `send`;
* memory, pools, queues: nothing is handed out twice and nothing is lost, whoever
  has passed the semaphore finds a buffer, items leave by priority and age;
* lines: characters go out and come in in order, the screen shows the line that is
  edited, no reader sleeps beside a line, no writer for ever;
* booting: the image started is the file, whatever the network does; packets: every
  buffer has one owner and every frame the right address; cards: the one that is
  there is used and its rings never overlap;
* library and configuration: what is sorted, printed, scanned or declared is what
  was given.

## Modules

| Module | Models | Built from |
|---|---|---|
| `KeyedList` | the key-ordered lists of `q[]` | `insert.c`, `queue.c`, `getitem.c`, `q.h` |
| `RWLock` | the locks, inheritance, ready list, processes: one action per system call or interrupt | the files of the first three rows above |
| `RWLockClient` | `RWLock` under clients that follow rules, and its properties | who calls `lock`, `ldelete`, `kill` and when |
| `RWLockAbs` | the locking policy alone, an abstract specification | what `lock` and `release` promise |
| `LockLive` | `RWLockClient` with finite programs and fairness | |
| `QTable` | the lists as links in `q[]`, shown to represent `KeyedList` | `insert.c`, `queue.c`, `newqueue.c` |
| `HandOver` | the loops of `release()` pass by pass over `q[]`, shown to admit the set `RWLock` admits | `releaseall.c:92-268` |
| `Processes`, `Semaphores`, `Clock`, `Messages` | states, ready list, suspend and resume; counting semaphores; the delta list; one message slot per process | `resched.c`, `ready.c`, ...; `wait.c`, `signal.c`, ...; `insertd.c`, `unsleep.c`, `clkint.S`, ...; `send.c`, `recvtim.c`, ... |
| `Kernel` | the four together with create, setnok and kill | `kill.c`, `create.c`, `setnok.c` |
| `SemAbs` | counting semaphores as their users see them, an abstract specification | what `wait` and `signal` promise |
| `Serial` | output on a serial line: buffer, semaphore, transmitter interrupt, echo inside the receiver interrupt | `comoutput.c`, `comintr.c`, `cominit.c`, `ttyiin.c:63-115` |
| `LineAbs` | that buffer as a bounded queue, an abstract specification | what `computc` promises |
| `Tty` | a terminal line: editing and echo by interrupt, readers and peekers, the screen | `ttyiin.c`, `ttyread.c`, `ttycntl.c`, `ttygetc.c` |
| `LineEdit` | a queue that can be edited at its end, an abstract specification | what a terminal line promises |
| `Boot` | the boot loop store by store, its packet handlers and timer, servers, the network | `monboot.c`, `montftp.c`, `monbootp.c`, `monudp.c`, `montimer.c` |
| `TxRing` | the transmit ring in the memory of an EtherExpress | `ethwstrt.c` |
| `Ether` | the ARP table and `TxRing` with the packet buffers, the queue, the handlers of both cards and the boot loop's `write` step by step | `monarp.c`, `ethwrite.c`, `ethintr.c`, `mon3com.c`, `mongpq.c`, `monip.c`, ... |
| `Heap` | main memory as a set of free blocks | `getmem.c`, `freemem.c`, `getstk.c`, `mem.h` |
| `Pools` | buffer pools over `Heap`, with the moments between semaphore and chain | `mkpool.c`, `getbuf.c`, `freebuf.c` |
| `ItemQueue` | item queues over `Heap`, with the moments between test and exclusion | `gpq.c` |
| `PriorityLanes` | one FIFO lane per priority, an abstract specification | what `enq` and `deq` promise |
| `Qsort` | `qsort()` step by step, its recursion as a stack | `qsort.c` |
| `Printf`, `Formatted` | what each directive writes or takes; printing into a string and scanning it | `doprnt.c`, `doscan.c`, `sprintf.c`, `scanf.c` |
| `Config` | the actions of the grammar and what is written | `config.y` |
| `Pci` | the search for the BIOS32 service, the calls that find and list devices | `pci.c`, `monpci.c` |
| `Probe` | the search for an EtherExpress, its EEPROM read bit by bit, its memory test | `ethinit.c`, `ethrom.c`, `ethcmd.c` |
| `EthInit` | `Pci` and `Probe` together: which card is used, its registers in three banks | `ethinit.c`, `mon3com.c`, `monpci.c` |
| `Parts` | the parts that work alone, one at a time | |
| `ListProof`, `ProcessesProof`, `RWLockProof`, `HandOverProof`, `KernelProof`, `SerialProof`, `TtyProof`, `MemoryProof` | TLAPS proofs | |
| `MCLock`, `MCKernel`, `MCSerial`, `MCEther`, `MCTty`, `MCParts` | values of the constants for TLC | |

`RWLockClient` extends `RWLock`, of which `WakeupMeansSomething` holds under any
calls; it instantiates
`RWLockAbs` with a refinement mapping; `LockLive` extends `RWLockClient`;
`HandOver` extends `QTable` and instantiates `RWLock` with its own queue in place
of the lock's.  `Semaphores`, `Clock` and `Messages` extend `Processes`: their
actions say what a call does to their own variables and to the ready list, and
`Kernel` adds who may call and what stays unchanged.  `Serial` and `Tty` use
`Semaphores` and the scheduler in the same way and instantiate `LineAbs` and
`LineEdit`.  `Ether` extends `TxRing`; a handler runs to its end and is one
action, so what it calls are functions from a state record to a state record.
`Pools` and `ItemQueue` extend `Heap`: their calls take memory from it.  `Parts`
runs `Heap`, `Pools`, `ItemQueue`, `Qsort`, `Formatted`, `Config` or `EthInit`
(which extends `Pci` and `Probe`); `part` says which, the others stand still, and so
one instance checks them all.

## How the code is read

* **Steps.**  A system call up to its `resched()` is one action; what follows
  `resched()` in the callers is only `restore()` and `return`, except in
  `releaseall()`, whose loop goes on.  `rest[p]` holds the arguments that are
  left, and `ReleaseNext` is the loop's next pass once `p` runs again.  A clock
  interrupt is possible only while the current process runs its own code.
* **Refused calls** (`SYSERR`) change nothing and are not actions; for
  `releaseall()` a refused argument is skipped (`ReleaseRefused`).
* **Lists.**  A list is a set of `[pid, key, age]`.  `insert()` puts a process in
  front of the entries with the same key, and every scan of the lock code and
  `getlast()` starts at the tail, so among equal keys the earliest arrival is
  met first; `age`, the number of later arrivals of the same key, stands for the
  position.
* **Searches in the links** of `q[]` (`insert()`, and the scans of `release()`) are `Met` in
  `QTable`: what is in every set of indices that has the first one and goes on
  along the links up to an index where the loop stops.  It has one member where the loop
  ends, none where it would go round a circle, any where it would leave the table; the
  links of processes that are no longer on the list are there and can mislead it.
* **Inheritance.**  `findProcessWithLock()` is taken pass by pass.  `Pass` is the
  body of its loop for one process: only the first holder found is updated when it
  waits for nothing; if it waits, the function recurses and then goes on *over the
  last lock*, because the inner loop has moved `lptr` there.  `Loop` chains the passes
  and `Inherit` the nesting levels: as what a call recurses into depends on `lockid` and
  `lproc` only, a call nested more than `NLOCKS` deep has met a lock twice and never returns.
  The set of results is empty then and the kernel `"overflow"`: the stack
  runs out with interrupts disabled and no action is possible.
* **Waiting times.**  `release()` compares the *addresses* of two `procwaittime`
  fields, not their values (`releaseall.c:127, 130, 227, 230`).  The difference
  is the distance of the two entries in `proctab[]`, counted in words
  (`PROCWORDS`), so `Grace` depends on the process ids: process ids are
  integers here, not model values, and there is no symmetry.
* **Left out of the state.**  `lprio` is recomputed before each use,
  `procwaittime` is never read, and `numproc` only triggers a message.
* **Initial state.**  `Init` is what `sysinit()` and `linit()` leave, with the
  processes in `Started` created and resumed.  `lockid` is 0 in a process that
  has never waited: only the null process gets `NOTINWQ`.

`kill()` falls through from `PRWAIT` into the ready case, where it dequeues the
process a second time; as nothing is inserted between the two, the second call
writes the same two links again.  In `RWLock` a waiting process waits for a
lock; `Kernel` has both kinds, and of locks the waiting and what is in the entry of a
process: `lockid`, and the locks it is refused because its `locksState` says `DELETED`.
`kill()` writes both for whatever process it finds waiting (`kill.c:56-65`): one that
waits for a semaphore is barred from the lock in its `lockid`, and if that is `NOTINWQ`
the store to `locksState[-1]` hits the word before it, which is `pwaitret` (`Bar`).  Left
out there is what the same lines do outside the entry: `lprio` and the priorities
`findProcessWithLock()` passes on are the subject of `RWLock`, as the processes of `Kernel` inherit
none; and for `lockid` -1 they read and write in front of `locktab[]`, where the models
have nothing.  The return from `wait()`, which reads `pwaitret`, is an action of its own
(`WaitEnd`), so that `Counting` follows the answer until it is given.

How the other parts are read:

* **The boot loop** is one action per store, because the variables it shares with the
  handlers are stored in source order (the kernel is built with `-O`, and calls lie
  between most of them); a handler runs to its end.  `mon_timeout`, the timer and the
  state are left as the code leaves them from one attempt to the next.
* **A read from a terminal** is two actions: up to the `wait()` and after it.
  `tty_in[]` keeps what was read or erased, because word erase, reprint and the
  test for a second newline look at it.
* **Memory** is in words of four bytes, all lists of free blocks are sets, since the
  code keeps them in order of address and joins neighbours.
* **Words** of the library have `WIDTH` bits and `DIGITS` decimal digits, 16 and 5
  in place of 32 and 10: the routine that reduces a number with the highest bit set
  then does the same number of steps (`2^16` is more than six times `10^4`, `2^32`
  more than four times `10^9`); `string[]` has 10 characters in place of 20, enough for
  octal and too few for binary numbers in both.  Characters are strings of length one, a text is a
  sequence of them.
* **A configuration** is a sequence of grammar pieces, each with the action that
  `yacc` runs when it is reduced.
* **Cards, the BIOS, the network, servers, the typist** are external: what they may
  do is what the code in `src` relies on or reacts to.

## Properties and runs

Clients in `RWLockClient` follow rules that the code relies on and does not
enforce: a lock is asked for only after `lcreate()` returned it and not by a
process that holds it, it is deleted only when nobody holds it or waits for it,
and a process ends only when it has no part in a lock.  `SingleNext` adds that a
process holds one lock at a time and that descriptor 0 is not used.

| Run | Specification | Properties | Shows |
|---|---|---|---|
| `single` | `SingleSpec`, 3 processes of distinct priorities, one usable lock, 2 lock priorities | `TypeOK`, `WaiterHasHolder`, `ReaderWaitsForReason`, `SomeHolderInherits`, `NoOvertake`, `Policy` | Nobody is lost on a queue, a reader waits only for a writer, some holder runs at the waiters' priority and the recursion that sees to it ends, a hand-over overtakes nobody, and every step implements `RWLockAbs`, a call with its own type and priority. |
| `nested` | `ClientSpec`, process ids 1, 2, 8, two locks held together and released in one call or twice | `MutualExclusion`, `Agreement` | Exclusion and agreement of the three tables, also when inheritance never returns (such states stop, hence no deadlock check) and when the grace test fails. |
| `misuse` | `Spec`: every call in every order, 2 processes, one lock, out-of-range arguments | `Placement`, `WakeupMeansSomething` | States and lists stay in step through deletion in use, kill, reuse of slots and descriptors; a waiter leaves its queue with the lock, with `DELETED`, or dead. |
| `live` | `LiveSpec`: finite programs under fair scheduling | `WaiterServed` | Whoever waits gets the lock and runs. |
| `handover` | `HandOver!Spec`, process ids 1, 2, 7, 8 join and leave a queue up to `MaxWaits` times | `Linked`, `AdmitsAdmitted`, `ReleaseReturns` | `insert()` and `dequeue()` keep the links and the list of `KeyedList` in step (a second `dequeue()` in `kill()` included), the loops of `release()` end, and they admit the set `Admitted` that `RWLock` uses. |
| `kernel` | `Kernel!ClientSpec`, 3 processes with roles, one semaphore, delays of 1 and 2 ticks | `OnItsList`, `ReceiverWoken`, `DelayKept`, `Counting` | States and lists agree whatever is killed or suspended where; the keys of the delta list add up to every sleeper's delay and nobody oversleeps; no receiver sleeps on its message and no time-out loses one; the semaphores implement `SemAbs`, call by call, and `wait()` returns with the answer of what ended the waiting. |
| `serial` | `Serial!FairSpec`, 2 processes and the echo, a buffer of 4 characters | `RoomCounted`, `Drains`, `InOrder`, `Written` | The buffer is a queue that implements `LineAbs`, its semaphore counts the room, no character is left behind without an interrupt to come, every writer gets done. |
| `tty` | `Tty!Spec`, 2 readers, a buffer of 3 characters | `LineTaken`, `ScreenFollows`, `EditsLine` | The ring implements `LineEdit`; whatever is typed next, the screen ends with the line that is stored, also after a reprint but for one character; nobody waits beside a finished line but after a read of a part of one, and the semaphore exceeds 1 by the peekers only. |
| `boot` | `Boot!FairSpec`, a file of 3 blocks, 2 ports | `Loaded`, `ServerDone`, `Ends` | What is started is the file, a server's transfer completes only when the client has all of it, and an attempt to boot ends, with one exception (see below). |
| `ether` | `Ether!Spec` with either card, 2 hosts | `BufsOnce`, `Addressed`, `Apart`, `Chained` | Every buffer is in one place, a handler that refills a 3C905 finds one, frames go where they should, blocks in the ring do not overlap, and the card reaches every descriptor that is ready. |
| `parts` | `PartsSpec` | `MemoryWhole`, `ArraysAccounted`, `PoolsRight`, `SortsRight`, `TextRight`, `TablesRight`, `CardReady`, `Prioritised` | Each part on all that a small instance can be given; the last property is the refinement of `PriorityLanes`, and `ArraysAccounted` is about the arrays of the same queues: nothing is lost but what a failed `newq()` keeps. |
| `lost` | `SingleSpec`, process ids 1, 2, 8 | `WaiterHasHolder` violated | The first difference below. |

`PoolsRight` is that the chain has as many buffers as the semaphore promises, that
each is in one place, and that no two share memory.  `SortsRight`: the result is
the input in order, the scans stay within their piece, the depth of the calls is
logarithmic.  `ArraysAccounted`: the memory handed out to queues is two arrays for each
that `newq()` has returned, and what it keeps in a slot on which it has given up.
`TextRight`: a number is shown in full and within its field, only binary ones overrun
`string[]`, what was printed is read back, and a scan counts what it has stored or says -1,
which it does at the end of the text only: at a conversion if nothing has been stored, at a
literal of the format in any case.  `TablesRight`: every
entry of `devtab[]` is what the nearest declaration says, minor numbers fit the
control blocks, and a configuration is refused only for a reason.  `CardReady`: the
BIOS entry is that of the first directory, a scan lists every device it asks for, the
card and its memory are recognised, EEPROM words are read as they are, and the
registers end up in their banks.

`WaiterHasHolder` holds in `single` because the process ids there are close
together, so the grace test always succeeds, and fails in `lost`, where they are
not: the two runs differ in nothing else.  Deadlock is checked in `single`, `live`,
`kernel`, `serial` and `tty`.  It is not checked where the system may stop: in `nested` and `misuse` an
endless recursion stops the kernel; `handover`, `boot` and `parts` come to an end; `ether`
stops where the code has gone wrong in a way described below.

## Bounds and fairness

Three processes are the fewest with which a lock has a holder, a waiter and a
process that arrives, or two readers and a writer; `single` reaches queues with
both kinds and equal and different lock priorities.  Two locks are the fewest
with which a holder waits, and with which `findProcessWithLock()` continues over
another lock than it began with.  `misuse` has two processes and one lock
because every call is open in it.  `Requests` and `Naps` of `LockLive` bound how
many locks a process asks for and how often it sleeps: a process that asks
without end can starve another by the locking policy itself (a stream of readers
of high lock priority starves a writer), so liveness is a statement about finite
programs.

In `handover` four waiters join the queue at most four times in all: enough for
readers before and behind a writer, of its priority and above, with and without
grace (ids at a distance of five or more fail the test).

`kernel` gives each kind of call to some processes only (`Roles`): all of them for
all processes is out of reach.  The roles keep what is hard together: two
processes use the semaphore, one of them also sleeps, takes and waits for locks and receives
with a time-out while another sends to it and kills it (waiting for the semaphore with
`lockid` 0 and -1), and the third, which receives too and
outranks both, is the next of kin that takes the CPU in the middle of `kill()`.
With one semaphore, `psem` is always right for a process that waits for it; two
semaphores are too large for the same roles.  `Delays` has no 0 for `recvtim()`:
`recvtim(0)` puts a key of 0 in front of the delta list, the next tick is spent on
it, and everybody behind sleeps one tick longer.  `MaxCount` bounds a count from
above.  A client rule (`Rule`) keeps processes that wait for a lock from being
killed: see below.  The time slice (`preempt`) is not counted: it may end at any
interrupt.  Messages have no contents, the next of kin is set by itself.

In `serial` a newline takes half of the buffer, so that a writer waits for its
second place, the positions wrap, and the transmitter empties the buffer in
between.  `COMBUFSZ` is larger than the number of processes, as in the code (32 and
30): otherwise all places can go to halves of newlines.  `MaxCount` is above the
size of the buffer and so never stops a `signal()`.  Two rules (`Calm`) are about
the callers: nobody starts to write while somebody else is writing a newline or the
other way round, and an echo inside the null process finds room.  The UART holds one
character, because `comprobe()` leaves its FIFO off, and each of its interrupts is
delivered.

In `tty` three characters are enough for a line with a newline behind two
characters, for a full buffer and for a ring that wraps in the middle of a word.
`Typed` has a character of each kind that the driver treats in its own way, and
`Lens` a read shorter than a line and one as long as the buffer.  `EditsLine` holds
for any typist; output is taken as never waiting, since `serial` is about that.

In `boot` three blocks are the fewest with a block in front of, at, and behind the
expected one; there is one retry (`MaxTry`) and one retransmission (`MaxRetx`), and
packets of the first attempt may arrive in the second.  Two ports are two servers, or
the two lives of one.

In `ether` the ARP table has one entry, so that a second host evicts the first; the
transmit ring has 9 bytes with a header of 1 and frames of 3 and 4, so that it wraps at
several offsets; the 3C905 has three descriptors to send, one to receive, and as many
buffers as make its handlers never wait: `NetBufs` must be at least `RXRING + TXRING -
1`, as it is in the code.  The hosts are symmetric.

In `parts`: memory of 8 and 7 words with requests of 1, 2 and 4 is cut, emptied and joined
on both sides; two pools with two users reach an empty chain with a waiter while
the other is about to signal; item queues of one and two places fill and wrap, and for one of
eight there is memory for one array or for none; all
arrays of up to six elements over three keys are sorted, the fewest with which the
pivot's piece grows on both sides; formats have every directive with widths below, at and
above `MAXSTR`, numbers with and without the highest bit, and what is scanned literals before and
behind a conversion, at the end of the text and not; configurations are up to eight of
twelve pieces; there are 15 machines whose BIOS area and slots differ in one way each,
and cards at each border of the port ranges with every phase of the ID counter.
Widths of the EEPROM's words and addresses, the number of polls and the
memory pattern are small (`ADDRBITS`, `WORDBITS`, `POLLS`, `PATTERN`).

Fairness.  `live`: weak fairness of `CallStep` says that the CPU executes the current
process; weak fairness of `Wakeup({p})` that the clock interrupt comes and
that a delay ends.  Nothing is assumed of who is scheduled, of the order of
calls, or of time slices (`ClkInt` is never forced).  `serial`: weak fairness of
`Sent`, the UART sends what it has been given, and of `Continue`, the CPU goes on with
a call; strong fairness of `Transmit` and `Slice`, a pending interrupt is taken as soon
as interrupts are enabled, however short the time until the next call.  Without time
slices a process that never blocks would keep the CPU from one that has just got its
room.  `boot`: weak fairness of the loop and of the clock; a request that arrives is answered, a
server repeats its block, and neither side's packets of a transfer are lost for ever
(strong fairness of `AckIn` and of `DataIn` of the server's current block; requests and
any finite number of other packets may be lost).  `Ends` is about servers that forget a
failed attempt before the next one begins (`patient`), and about behaviours in which no block is
stored between the stores of `monboot.c:78` and `:79` (`Cleared`); data may come at any other
moment of the loop.  The section on limits says what happens otherwise.

## Proofs

Each theorem holds for every value of the constants.

`ListProof` has what the others about processes rest on: that a finite set has a least and a greatest
element, that a function defined step by step has the value of each step (`StepsExist`,
`StepsKeep`), who is on a list after
`insert()` and `dequeue()`, that these keep a list strictly ordered by key and age, so that
`getlast()` is defined, and what leaving and joining do to a queue in which nobody is twice.
`ProcessesProof` is about `resched()` and its callers in `Processes`: `Sched` says who is current
and ready and that the null process never blocks, so that `resched()` finds somebody, and
`BlockSched`, `ReadySched` and `SliceSched` say which other states a call leaves alone.
`KernelProof` and `TtyProof` build on it.

`RWLockProof` (any finite set of processes, any number of locks, any priorities and
argument lists):

* `PlacementTheorem`: `Spec => []Placement`.  The inductive invariant `PInv` adds
  to `Placement` that the lists hold process ids only and that a waiting process
  has a valid `lockid` (`Shape`): without the latter `kill()` of a waiter could
  not be placed.  `ReschedPlaces` says what `resched()` does to the
  states; `ReschedKeeps` and `AdmitKeeps` combine it with the lists, and each action
  has a lemma `PInv...`.
* `ExclusionTheorem`: `ClientSpec => []MutualExclusion` and `AgreementTheorem`:
  `ClientSpec => []Agreement`.  Neither is inductive.  `CInv` adds for each lock
  (`Owned`) that its holders have the lock's type, that a lock held is in use,
  that a writer holds it alone, and that nobody holds it and waits for it.  The
  key step is `Releaser`: a caller that passes the checks of `release()` holds
  the lock, and if it passes the lock on it is the only holder, so that the
  hand-over, which looks at no holder, is safe.  `AdmittedKinds` says that a
  hand-over admits readers or one writer.
* `WakeupTheorem`: `Spec => WakeupMeansSomething` and `OvertakeTheorem`:
  `Spec => NoOvertake`, for clients that follow no rule.  `SInv` adds to `PInv` that
  a wait queue is ordered and that whoever is on it has asked and is unanswered
  (`Waiting`).  The second is about the order: a hand-over admits a prefix of the
  readers and what it leaves is behind it or has a lower key.
* `StuckTheorem`: `ClientSpec => []HeldOrStuck`.  `release()` loses a wakeup when the grace
  test fails between a reader and a writer of equal lock priority (first difference
  below), so `WaiterHasHolder` is false in general; this theorem says that it is false
  in no other way.  `HInv` carries the two properties of each lock with that one
  exception: `Held`, a lock in use has a holder, and `Reason`, a reader waits for a writer.
* `HolderTheorem`, `ReasonTheorem` and `PolicyTheorem`: under the assumption `Close`, that the grace
  test fails for no two processes, `ClientSpec` implies `[]WaiterHasHolder`,
  `[]ReaderWaitsForReason` and `Policy`, the refinement of `RWLockAbs` by the
  mapping of owners and waiters.  `Close` is about process ids only: no two are more
  than four apart, as in run `single`.  It is a hypothesis of these three theorems
  and of `InheritsTheorem`.

These proofs do not look at `pinh`: they hold however inheritance behaves, also when it
never returns.  The last two are about it:

* `TypeTheorem`: `Spec => []TypeOK`.  `TInv` adds the types to `SInv` in three parts: `Lists`, the
  queues hold entries and the ready list is finite, so that it has a last entry; `Inheritance`, `pinh` holds natural
  numbers, which needs that the greatest of a finite set of them is one; `Others`.  That a pass of
  `findProcessWithLock()` leaves a table of this type (`Pass`) carries over to its loop by `StepsKeep` and to
  nested calls.
* `InheritsTheorem`: for clients that hold one lock at a time, under `Close` and with no `chprio()`,
  `SingleSpec => []SomeHolderInherits`.  The invariant `Singles` is relative to `HInv`, `TInv` and
  `WaiterHasHolder`, which are proved of these clients already.  `Inherits(i)` is the property for one lock.  `Apart`
  says why the recursion ends: `lockid` names a lock that the process waits for, or 0, which nobody
  holds, and who waits holds nothing, so a call for a lock meets holders that do not wait, or nobody.
  `Living`: a holder exists, or `kill()` could reset what it has inherited.  `PassInherits`: the pass for a holder raises
  it to the highest priority that waits for its lock and ends the loop;
  `LoopInherits` and `LoopUnheld`: the passes before it change nothing, and for a lock that
  nobody holds none does; `InheritInherits` puts the levels together.  The hypotheses are needed: `chprio()` of a waiter
  does not reach the holder (difference 6), a lock can be left without a holder without `Close` (difference 1), and
  clients of several locks meet differences 2 and 3.

`KernelProof` (any finite set of processes with any priorities and any roles, any number of
semaphores, any counts, any delays above 0):

* `ListTheorem`, `ReceiverTheorem`, `DelayTheorem` and `CountingTheorem` state `OnItsList`,
  `ReceiverWoken`, `DelayKept` and `Counting` of `ClientSpec`; the hypothesis is the client
  rule `Rule`, without which `kill()` raises a count nobody waits for (see below).
* One inductive invariant, `KInv`, has four parts, and none is inductive alone.  `Sched`:
  who is current and ready, and that the null process never blocks, so that
  `resched()` finds somebody.  `Waits`: the queue of a semaphore has each waiter once, all
  of them in `PRWAIT` with their `psem` naming it, as many as its count is below zero.
  `Sleeps`: each key of the delta list is its delay less the one before it, the first is above
  zero, `sltop` and `slnempty` say what is on top.  `Msgs`: the state of a process fits the
  call it is in and its slot; that is what `send()` relies on when it takes a
  receiver off the sleeping list.
* The lists of semaphores and of sleepers are sequences and their loops are about
  positions: `insertd()` stops at the first entry whose key is not below what is left, and
  that there is one is by induction on positions (`FirstExists`, from the least
  counterexample).  Each action has a lemma for each part that it touches.
* `CountingTheorem` maps each step to a step of `SemAbs` or to a stutter and shows that a call is the call of
  the same name there: a `wait()` that blocks joins the end, `signal()` answers
  the head, `kill()` of a waiter leaves the order of the others, and `wait()` returns with the
  answer given there.  The answer is kept in `pwaitret`, which `kill()` (`Bar`) and `lock()` write too: `InCall`,
  that whoever is on a queue is in a `wait()` that has not returned, and `KilledGone` show that what they
  write is of no process in `wait()`.

`HandOverProof` (any number of waiters and joins, any keys, ids and types; the assumptions are
that keys lie between those of a head and a tail and that ids are below `NPROC`):

* `LinkedTheorem`, `AdmitsTheorem` and `InsertEndsTheorem`: `Spec => []Linked`, `Spec => []AdmitsAdmitted`,
  and that the loop of `insert()` ends, at one place.  The invariant `IInv` has two parts.
  `Basics`: the links are the list without those that have been taken from it
  (`Holds`), and everybody on the list has asked for something.  `Progress` has an assertion for each loop
  of `release()`, as one would write it in front of the loop: in front of `Writer` and `Reader` who is first
  and what the scan for the others has found; `AtBefore`, only readers ahead of the first writer have
  been taken; `AtFavoured`, those taken are the ones taken before this loop and
  favoured ones of the rest, and `prev`, `readerId` and `readerPriority` are at the first that is left;
  `AtDone`, those taken are `Goal`, which `GoalIs` shows to be `Admitted` of `RWLock`.
* Head and tail are taken as entries of the list, so that each entry has neighbours
  (`BehindExists`, `AheadExists`).  `TwoLinks` and `LinksDequeue`, `LinksInsert` say that changing the links
  beside one entry leaves a list without it, or with it: if `e` was between `a` and `b`, these are neighbours
  afterwards and no other pair of neighbours changes.  `HoldsDequeue` adds that a second
  `dequeue()` of the same process, as in `kill()`, changes nothing.  `LinksAged` is why the ages, which `insert()`
  and `dequeue()` do not have, may be counted anew (`HoldsInsert`, `HoldsRemove`).
* A search ends at the entry it should (`ScanPrev`, `ScanNext`): the entries between the start and the
  goal are a finite set that the links do not leave before the goal, there is no other stop among them,
  and each link leads nearer to it; `MetIs` shows that then the goal and nothing else is met, by the
  nearest entry (`FirstExists`) of any other set that is closed under the links.

`MemoryProof` has six subjects; the first two are the boot monitor's.  Booting (any length of file that 16 signed bits can count, any number of servers):
`LoadedTheorem`, `ServerDoneTheorem` and `BootTypeTheorem`, from one inductive invariant
`IInv`.  It says which states the handlers may have left behind at each point of the loop
(`Stages`), that the expected block is 0 until the loop has set it (`Fresh`), that
during a transfer the blocks before the expected one are in their places (`Brought`), and
that the last block is acknowledged only when it has been taken (`LastAck`).  Between
the stores of the loop a handler so sees either block 0, which no packet carries, or a
block and a position in memory that belong together.

The transmit ring (any size of ring, header and block): `EndStaysBehind`, a block put where
the room exceeds it by more than a header leaves start and end apart, and `BlockIsApart`,
it overlaps nothing in use.  They are the condition under which `ether`'s `Apart` holds;
the code tests less (see below).

Memory (any blocks, any sizes): `MemoryWholeTheorem`, with `NoOverlapTheorem` as a part.
`HeapInv` is `NoOverlap` with the types; `WholeInv` adds `Joined` and `Covered`, which says
of each word what `NothingLost` says of their set.  `Cut` and `CutWhole` are the lemmas on
`getmem()` and `getstk()`, `FreedStep` and `FreedWhole` those on `freemem()`: the joined block
covers what is returned and its neighbours and nothing else.  `NotRefused` is why nothing is
lost: a block that was handed out lies between its free neighbours, so the test of
`freemem.c:27-30` lets it pass.

Buffer pools (any memory, any kinds of pools, any finite set of users): `PoolsTheorem`,
`PoolsSpec => []PoolsRight`, where `PoolsSpec` runs the calls on pools alone.  `PoolsInv`
counts and places.  `Awaited`: the queue of a pool's semaphore holds each waiter once, all of
them on their way to a buffer, and its length is minus a negative count.  `Counted`: the
chain is as long as the count and those who have passed `wait()` or not yet called
`signal()` together.  So one who is about to take a buffer finds one (`ChainHolds`): if the
count is negative, more processes are on their way than wait, hence the pigeon-hole.
`AtHome` says that a buffer is once in the chain or with one owner, `InPlace` that
there are as many as were made, apart from each other and inside the pool's memory; `ChainPlaced` and
`MkpoolHome` show that `mkpool()` lays the chain out so, and `TakenHome` and `FreedHome`
follow one buffer out of the chain and back.

Item queues (any priorities and items, any sizes and number of queues, one process that
inserts and one that does the rest; `QueueSpec` runs the calls on queues alone):

* `QueueTheorem`: `QueueSpec => Prioritised`, the refinement of `PriorityLanes` and that a call
  finds the queue as it tested it.  `CallsInv` says of each process where in its call it is and
  what of its test is still true; an insertion cannot undo the test of a removal, nor the other way
  round, and nobody frees a queue in use.  `InOrder` keeps the entries sorted.  That makes the
  lane of a priority a piece of the queue (`LaneWhere`, `LaneIs`), so that `PlacedLane`, `PlacedOther`,
  `TailLane` and `FirstHighest` can say what an insertion and a removal do to each lane;
  `LaneStep` is the step of the refinement.
* `ArraysTheorem`: `QueueSpec => []ArraysHeld /\ ArraysAccounted`, also when memory runs out
  (`GivesCell`: `getmem()` gives one address or none).  The step lemmas `FreshBlock` and `FreedBlock`
  come from the invariant of memory, `HeapInv`: a block that `getmem()` gives begins where no
  other does.  `Slot`, that the arrays of a queue are different blocks and that `freeq()` is
  about a queue that has both, is what makes the invariant inductive: without it `freeq()` might
  return one block twice and keep the other.

Sorting (arrays of any length with any integers as keys): `SortTheorem`, `QsortSpec => []SortsRight`.
In `SortInv`, two elements out of order are both in one of the pieces still to be sorted
(`OrderElsewhere`), those pieces fit the array and lie apart (`PiecesFit`, `PiecesApart`), and
`Nested` says that each nesting has halved the length: a call goes to one part and the loop
to the other (`qsort.c:70-77`), in the order that keeps it so.  During a partition it says
what has been compared with the pivot so far (`Partitioned`, with `AtI` and `AtEnd` at the two
ends of the loop).  The code moves elements only by exchanges of two and three
(`Exchanged`, `Rotated`); the lemmas `Parted...` follow one movement each, and `PieceMoves` says
that a movement inside a piece keeps what is known of the others.  Powers of two are the
function `TwoTo`, which `TwoToIs` shows to double.

`SerialProof` (any number of processes, any echoes, any buffer): `RoomTheorem` by counting
who is in `computc()` (`CountMoved`: a step of one process changes the count of a set of
places by its own leaving and coming; `StoreCounts` and `TransmitCounts` are the two steps at
which `com_count` changes) and `DrainTheorem`, which needs only `SendsDrain`, that
`comwstrt()` disables the interrupt with the last character and not before.  They are
proved for `Spec`, without fairness, and hence for `FairSpec` too.  `OrderTheorem`,
`CalmSpec => InOrder`, is the refinement of `LineAbs`, with the characters from `com_start`
on as the queue.  Its invariant `LineInv` adds three parts to `RoomInv`.  `Blocked`: whoever is
on the queue of the semaphore is in `computc()` and does not run, so that whoever stores a
character is not among those a negative count stands for; `HasRoom` counts from this that
there are places for all it stores.  `Calls`: nobody writes beside a newline (`Calm` gives it
where a call begins, `CallsMoved` keeps it until the call ends).  `Buffer`: the position
a newline has read before it waited is still the next one to write, whatever the transmitter has
taken meanwhile.  `HeldMore` and `HeldLess` are the two ends of the ring as `Append` and `Tail`.

`TtyProof` (any size of the buffer, any finite set of readers and peekers with any priorities,
any input):

* `LineTakenTheorem`: `Spec => []LineTaken`.  Its invariant `TtyInv` says more than the property
  where the property says nothing.  `Lines`: a line in the buffer has a unit, somebody who is about
  to take it, or a read that left it behind; `ttyiin()` tells only while the count is not above
  zero, so each step has to show which of the three it leaves.  `Waits` and `Reads`: whoever is on
  the queue is in `PRWAIT` and on its way to the characters, so that whoever `signal()` awakens is
  the one who will take.  The bound on the count is the sum of units and peekers, which only
  the end of a line raises, and only from zero or below.
* `EditsTheorem`: `Spec => EditsLine`, the refinement of `LineEdit`.  `DeleteKept`, `IputcharKept` and
  `TakeKept` say what the three movements in the ring do to the sequence it holds,
  whether they wrap or not.  `delword()` is a loop and its model a recursive function:
  `ScanExists` and `ScanStops` show that such a function exists and that its value is the first position
  at which the loop stops, by the least counterexample, and `WordIs` that this is the end of a word.

The assumptions are those named in the modules: `RWLock`'s (the processes are finitely many
positive integers, some are started, there is at least one lock), `Kernel`'s (the same, no
delay of 0 and roles for every kind of call), `BootAssumption`, `RingAssumption`, `HeapAssumption`, `PoolsAssumption`,
`QueueAssumption`, `QsortAssumption`, `SerialAssumption`, `TtyAssumption`, `TableAssumption` and
`WaitingAssumption`; TLC evaluates them in the runs.

Only model-checked:

* `Ether` (`BufsOnce`, `Addressed`, `Apart`, `Chained`) and the configuration program (`TablesRight`):
  a handler is built from operators that are recursive (`Wstrt`, `Completed`, `Xintr905`, `Weighed`),
  which the provers do not support.
* The screen of `Tty` (`ScreenFollows`), the text of `Formatted` (`TextRight`) and the search for the
  cards (`CardReady`): what is shown, what is printed, and what is shifted into the EEPROM or written
  to the registers are folds over sequences, and their value for every sequence needs an induction
  over it.
* All liveness (`WaiterServed`, `Written`, `Ends`, `ReleaseReturns`).

## Differences from the documentation

1. Run `lost`.  With a reader first in the queue and a writer of the same lock
   priority, `release()` admits nobody when the grace test fails, and the lock
   stays in use without a holder (`releaseall.c:227`; the repository's README.md:30).

Found with TLC while modelling, and not kept as runs:

2. Only the first holder found inherits (`priorityInheritance.c:63`; README.md:57-59).
3. `lockid` is followed although the process waits for nothing, and a process that has
   never waited has `lockid` 0: with descriptor 0 in use the recursion may never return
   (`priorityInheritance.c:62-65`).
4. A deleted lock is granted to a process that was alive when it was created
   (`lock.c:23, 38`; README.md:28).
5. The echo of a character runs inside the receiver interrupt and waits for room in
   whatever process was interrupted.  While everybody else waits for the line too that
   is the null process, which then waits for a semaphore, and `resched()` takes
   `EMPTY` from an empty ready list (`comoutput.c:37`; initialize.c:60-63, proc.h:38-39).
6. A process that has released its last lock keeps what it inherited if waiters took the
   lock over (`releaseall.c:269`; README.md:63); `chprio()` of a waiter does not reach the
   holder, and `kill()` of a waiting writer leaves the readers behind it waiting on a
   lock held by readers (README.md:64).
7. `getbuf()` is called in interrupt handlers where the comment says that this does not
   wait (`mon3com.c:17`); it does not as long as there are enough buffers (`BufsOnce`).
8. The semaphore of a terminal is called a 1/0 semaphore (`tty.h:33`), but `TTC_NEXTC`
   gives its unit back without a test (`ttycntl.c:36`), and several peekers raise it.

## Limits of the code, seen while modelling

The models stop, or assume something of the environment, where the code goes wrong;
each such place is named here.

*Locks and kernel.*  A ready holder keeps its old place in the ready list when it
inherits, so `resched()` may pass it over.  `lcreate()` may return a descriptor its
caller is refused, because the caller saw an earlier lock of that descriptor deleted
(`lcreate.c:35`); a holder whose lock was deleted may release the next lock of the same
descriptor (`ldelete.c:27`, `releaseall.c:50`).  `kill()` of a process that waits for a
lock raises the count of the semaphore in `psem` (0 if it never waited for one), after
which `signal()` leaves a waiter asleep (`kill.c:55`, `signal.c:24`); `kill()` of a process
that waits for a semaphore marks the lock in its `lockid` as deleted for its slot (lock 0 if it
never took one), and as nothing resets `locksState`, `lock()` refuses that lock to every
process created in the slot later (`kill.c:63`, `lock.c:23`; `refused` in `Kernel`); and `kill(p)`
sends to the next of kin before it looks at `p`'s state: a next of kin of higher
priority runs first, may kill `p` itself and create a process in its slot, which the
first `kill()` then ends (`kill.c:47-50`).

*Serial line.*  `computc()` reads the position of a newline, waits for its second place,
and meanwhile another process that has been given a place stores its character at the
same position; the newline then overwrites it, and what is in the buffer behind it is
sent although nobody wrote it there (`comoutput.c:39-44`).  Two processes of the same
priority are enough.

*Terminal.*  A line typed while an awakened reader has not run adds a unit; that reader
may take both lines, and the next read returns 0, which `ttygetc()` reports as the end of
the file (`ttyread.c:31`).  After a read of a part of a line the rest lies there while
others wait (`ttyread.c:41`).  A reprint shows one stale character behind a finished
line, or nothing where a stale newline follows, and may read `tty_in[IBLEN]`
(`ttyiin.c:187`).  Tabs and control characters typed with the eighth bit are rubbed out
with another width than they were shown with: they are not among `Typed`.  `lastc` is
shared by all lines and kept when a newline is dropped (`ttyiin.c:25`).

*Boot monitor.*  A packet of an old transfer stops the timer (`monudp.c:64`) and starts it
again only if it is of the expected block or a neighbour: if the request was lost, the
client waits for ever.  The servers of `Ends` (`patient`) leave no old transfer behind.  The
byte count is cleared after the request is sent (`monboot.c:79`): if a first block comes
between that store and the one before, the count says that nothing has been stored; at the next time-out
the transfer begins anew, and if that request is lost, what the server still sends of the
first transfer stops the timer for good (`Cleared`, which `Ends` excepts; without the
exception TLC finds this with patient servers too).  Any message to the BOOTP port that is no reply
counts as success, and the file is then requested from nobody (`monbootp.c:30`).  Blocks
from 32768 on never match (`montftp.c:47`).

*Packets and cards.*  `mon_3c905_ethwrite()` enables interrupts between reserving and
linking a descriptor: a handler that sends in between is cut off the chain, and from then
on nothing sent is freed (`mon3com.c:353`; `raced`).  `mon_ethwstrt()` accepts a block that
fills the ring to its start or overruns it by a header (`ethwstrt.c:59`; `tight`).  An ARP
entry that is given up takes the packet that waits in it along, and a packet to a multicast
address is not freed (`monarp.c:119`; `lost`).  The result of `i82595_init()` is ignored,
the carry flag of BIOS calls is not looked at, a Pro/100 found first leaves its number
behind (`ethinit.c:54-85`).

*Memory, pools, queues.*  A free block of one word overwrites its neighbour with its
header of two (`getmem.c:31`; `Tight`).  `getstk()` rounds to words and `freestk()` to
eight bytes (`mem.h:26`; stacks have an even number of words by assumption).  Two
processes that insert into an item queue, or two that remove, pass its test together
(`gpq.c:46, 97`): the model has one of each.  `newq()` scans with interrupts enabled, so two
callers may take the same slot: one process makes and frees.  When memory runs out it
returns -1 and keeps the slot, its semaphore and the array it got for ever (`gpq.c:221-224`;
`ArraysAccounted`); that `screate()` may fail it does not notice at all, the queue then has no exclusion: the
model takes it that there is a semaphore.

*Library.*  `qsort()` keeps the comparison function in a static variable and is not
reentrant; nothing in the repository calls it.  `%-0nd` fills with zeros on the right;
an unknown directive prints what is left in a buffer; `%.0s` means no limit; `%b` of 20
digits overruns its buffer on the stack (`doprnt.c:28`), where the model ends (`Overruns`).  A
scan goes on after a failed conversion; `-` alone matches `%d`; a literal at the end of the
text makes it return -1 although something was stored (`doscan.c:102`).  Signed overflow in the reduction of a number is taken to wrap, as the build does.

*Configuration.*  A device without `ON` is refused unless its type is on the first name
of the file, because what was left out is taken for symbol 0 (`config.y:168, 588`).

## Not modelled

The device switch (`open.c`, `read.c`, ...: a look-up in the table that `Config` writes, no
state of its own); start-up, interrupt entry and context switch in assembly (their effect
is `Init` and `Resched`); the test programs (`main.c`, `task1.c`: clients); `TMP/`, which
repeats kernel files; the scanner and parser tables generated by `lex` and `yacc`
(`lex.yy.c`, `y.tab.c`: `config.y` is the source); string, time and floating point
routines of the library (sequential, and each a single pass over its argument, except
floating point, which TLC does not have); the command line of the monitor.

Left out of parts that are modelled: closing of devices in `kill()`; `stopclk()` and
`strtclk()`, which nothing calls; terminal modes that no code sets, the interrupt
character, `TTC_SYNC`; `bpmaxused`, a statistic; the set-up of a 3C905's rings and the memory
its frames are received in; restart of an EtherExpress after a fatal transmission; `%[` of
the scan; `mon_cmd`'s repeated creation of pools.

What a next step would take: theorems on the places of the buffers in `Ether`, whose loops would have to
become folds, and on the search for the BIOS and the cards in `EthInit`.
