-------------------------------- MODULE Boot --------------------------------
(***************************************************************************)
(* Booting over the network (mon/): the loop of boot_xinu(), which the     *)
(* monitor runs with interrupts enabled, the clock's mon_timer(), the      *)
(* packet handlers, and servers behind a network that delays, reorders,    *)
(* duplicates and loses packets.  The loop and the handlers share          *)
(* mon_boot_state and the counters without any protection.                 *)
(***************************************************************************)
EXTENDS Integers

CONSTANTS N,          \* blocks of the boot file, the last one is short
          Ports,      \* transfer ids a server may answer from
          MaxTry,     \* MON_MAX_TRY
          MaxRetx,    \* bound on repeated acknowledgements in a transfer
          BootpKinds  \* what may come to the BOOTP port: "reply", "bad", "request"

ASSUME BootAssumption == /\ N \in 1..32767 /\ Ports # {} /\ 0 \notin Ports
                         /\ MaxTry \in Nat /\ MaxRetx \in Nat
                         /\ BootpKinds \subseteq {"reply", "bad", "request"}

VARIABLES pc,      \* where boot_xinu() is; "idle": the monitor reads commands
          bs,      \* mon_boot_state
          try,     \* mon_boot_try
          timer,   \* mon_timeout - mon_clktime, at least 0; Off if mon_timeout = 0
          block,   \* mon_tftp_block
          bytes,   \* whether mon_tftp_bytes > 0 (1) or not (0)
          retx,    \* mon_tftp_retx
          port,    \* mon_tftp_server_port, 0 before any packet
          server,  \* mon_tftp_server # 0
          mem,     \* the blocks in memory from BOOTPLOC on, 0 for anything else
          memloc,  \* mon_tftp_memloc, in blocks from BOOTPLOC, counted from 1
          asked,   \* a BOOTP request has reached the network
          rrq,     \* a read request is under way to the server
          cur,     \* block a server's transfer is at, 0: no transfer, N + 1: all acknowledged
          acks,    \* acknowledgements under way to each transfer
          patient  \* servers report no errors and leave no transfer a client is in

main == <<try, block, bytes, retx>>
file == <<mem, memloc>>
net  == <<asked, rrq, cur, acks, patient>>
vars == <<pc, bs, main, timer, port, server, file, net>>

States == {"BEGIN_BOOTP", "BOOTP_REQ_SENT", "BOOTP_RETX", "BEGIN_TFTP",
           "TFTP_REQ_SENT", "TFTP_RETX", "BOOT_DONE", "BOOT_ERROR"}
Off == -1

\* The 16 bits of a block number on the wire are read as a signed number.
Short(b) == IF b < 32768 THEN b ELSE b - 65536

Init == /\ pc = "idle" /\ bs = "BEGIN_BOOTP" /\ try = 0 /\ timer = Off
        /\ block = 0 /\ bytes = 0 /\ retx = 0 /\ port = 0 /\ server = FALSE
        /\ mem = [i \in 1..N |-> 0] /\ memloc = 1
        /\ asked = FALSE /\ rrq = FALSE
        /\ cur = [p \in Ports |-> 0] /\ acks = [p \in Ports |-> {}]
        /\ patient \in BOOLEAN

\* From mon_netinit() on interrupts are enabled, until boot_xinu() fails or jumps.
Booting == pc \notin {"idle", "jumped"}
-----------------------------------------------------------------------------
(* The loop: each action ends where an interrupt can come between.         *)

\* The first stores of boot_xinu().
BootXinu == pc' = "switch" /\ bs' = "BEGIN_BOOTP" /\ try' = 0 /\ timer' = Off

\* mon_cmd(), the command "b" of the monitor: the cards, the ARP table and interrupts
\* are set up and boot_xinu() begins.
Start == /\ pc = "idle" /\ BootXinu
         /\ patient => \A p \in Ports : cur[p] = 0
         /\ UNCHANGED <<block, bytes, retx, port, server, file, net>>

\* ++mon_boot_try > MON_MAX_TRY: back to the monitor, interrupts disabled.
GiveUp == /\ pc = "switch" /\ bs \in {"BOOTP_RETX", "TFTP_RETX"} /\ try >= MaxTry
          /\ pc' = "idle" /\ try' = try + 1
          /\ UNCHANGED <<bs, timer, block, bytes, retx, port, server, file, net>>

Retry(retxState) == try' = IF bs = retxState THEN try + 1 ELSE try

BeginBootp == /\ pc = "switch"
              /\ (bs = "BEGIN_BOOTP" \/ (bs = "BOOTP_RETX" /\ try < MaxTry))
              /\ Retry("BOOTP_RETX") /\ bs' = "BOOTP_REQ_SENT" /\ pc' = "bootp_request"
              /\ UNCHANGED <<timer, block, bytes, retx, port, server, file, net>>

BootpRequest == /\ pc = "bootp_request" /\ pc' = "bootp_timer"
                /\ asked' = TRUE
                /\ UNCHANGED <<bs, main, timer, port, server, file, rrq, cur, acks, patient>>

BeginTftp == /\ pc = "switch"
             /\ (bs = "BEGIN_TFTP" \/ (bs = "TFTP_RETX" /\ try < MaxTry))
             /\ Retry("TFTP_RETX") /\ pc' = "tftp_req"
             /\ UNCHANGED <<bs, timer, block, bytes, retx, port, server, file, net>>

\* Mutant: the file is loaded behind what an earlier request has brought.
GoOnBehind == /\ pc = "tftp_req" /\ pc' = "tftp_state"
              /\ block' = 0 /\ bytes' = 0
              /\ rrq' = (rrq \/ server)
              /\ UNCHANGED <<bs, try, timer, retx, port, server, file, asked, cur, acks, patient>>

\* A request to server 0 is broadcast and nobody answers it.
TftpReq == /\ pc = "tftp_req" /\ pc' = "tftp_state"
           /\ memloc' = 1 /\ block' = 0 /\ bytes' = 0
           /\ rrq' = (rrq \/ server)
           /\ UNCHANGED <<bs, try, timer, retx, port, server, mem, asked, cur, acks, patient>>

TftpState == /\ pc = "tftp_state" /\ pc' = "tftp_timer" /\ bs' = "TFTP_REQ_SENT"
             /\ UNCHANGED <<main, timer, port, server, file, net>>

StartTimer == /\ \/ pc = "bootp_timer" /\ pc' = "switch"
                 \/ pc = "tftp_timer" /\ pc' = "tftp_block"
              /\ timer' = try + 2
              /\ UNCHANGED <<bs, main, port, server, file, net>>

TftpBlock == /\ pc = "tftp_block" /\ pc' = "tftp_bytes" /\ block' = 1
             /\ UNCHANGED <<bs, try, timer, bytes, retx, port, server, file, net>>

TftpBytes == /\ pc = "tftp_bytes" /\ pc' = "tftp_retx" /\ bytes' = 0
             /\ UNCHANGED <<bs, try, timer, block, retx, port, server, file, net>>

TftpRetx == /\ pc = "tftp_retx" /\ pc' = "switch" /\ retx' = 0
            /\ UNCHANGED <<bs, try, timer, block, bytes, port, server, file, net>>

\* jumptobootcode(), or back to the monitor.
Leave == /\ pc = "switch"
         /\ \/ bs = "BOOT_DONE" /\ pc' = "jumped"
            \/ bs = "BOOT_ERROR" /\ pc' = "idle"
         /\ UNCHANGED <<bs, main, timer, port, server, file, net>>

Step == \/ GiveUp \/ BeginBootp \/ BootpRequest \/ BeginTftp \/ TftpReq \/ TftpState
        \/ StartTimer \/ TftpBlock \/ TftpBytes \/ TftpRetx \/ Leave
-----------------------------------------------------------------------------
(* Interrupts                                                              *)

\* mon_tftp_ack() to the transfer heard last.  A server forgets what it has
\* no use for: acknowledgements of blocks it has left behind.
Ack(p, b) == /\ timer' = 2
             /\ acks' = IF p # 0 /\ b >= cur[p] THEN [acks EXCEPT ![p] = @ \cup {b}]
                                                ELSE acks

Expired == timer \in 0..1

\* mon_timer(), once a second.
Tick == /\ Booting
        /\ \/ /\ Expired /\ bs = "BOOTP_REQ_SENT" /\ bs' = "BOOTP_RETX"
              /\ timer' = 0 /\ UNCHANGED <<acks, retx>>
           \/ /\ Expired /\ bs = "TFTP_REQ_SENT" /\ bytes = 0 /\ bs' = "TFTP_RETX"
              /\ timer' = 0 /\ UNCHANGED <<acks, retx>>
           \/ /\ Expired /\ bs = "TFTP_REQ_SENT" /\ bytes = 1 /\ retx < MaxRetx
              /\ Ack(port, block - 1) /\ retx' = retx + 1 /\ UNCHANGED bs
           \/ /\ Expired /\ bs = "TFTP_REQ_SENT" /\ bytes = 1 /\ retx >= MaxRetx
              /\ bs' = "BOOT_ERROR" /\ timer' = Off /\ UNCHANGED <<acks, retx>>
           \/ /\ timer > 0 /\ ~(Expired /\ bs \in {"BOOTP_REQ_SENT", "TFTP_REQ_SENT"})
              /\ timer' = timer - 1 /\ UNCHANGED <<bs, acks, retx>>
        /\ UNCHANGED <<pc, try, block, bytes, port, server, file, asked, rrq, cur, patient>>

\* mon_udp_in() and mon_bootp_in(): a message whose op is not BOOTREPLY is
\* taken for a success although nothing was learnt from it.
BootpIn(kind) == /\ Booting /\ asked /\ bs = "BOOTP_REQ_SENT"
                 /\ timer' = Off
                 /\ IF kind = "bad" THEN bs' = "BOOTP_RETX" /\ UNCHANGED try
                                    ELSE bs' = "BEGIN_TFTP" /\ try' = 0
                 /\ server' = (server \/ kind = "reply")
                 /\ UNCHANGED <<pc, block, bytes, retx, port, file, net>>

IsLastBlock(b) == b = N

Store(b) == /\ mem' = [mem EXCEPT ![memloc] = b]
            /\ memloc' = memloc + 1

\* mon_tftp_in(), DATA b from p: the block that is expected.
Expect(p, b) == /\ block = Short(b)
                /\ Store(b) /\ bytes' = 1 /\ Ack(p, block)
                /\ IF IsLastBlock(b) THEN bs' = "BOOT_DONE" /\ UNCHANGED block
                                ELSE block' = block + 1 /\ UNCHANGED bs

\* Mutants: what has arrived is acknowledged whether stored or not; a repeated
\* block is not acknowledged again.
AckArrived(p, b) == block # Short(b) /\ Ack(p, b)
NeverTwice(p, b) == block # Short(b) /\ timer' = Off /\ UNCHANGED acks

\* What is acknowledged of a block that is not expected.
Reack(p, b) == \/ block - Short(b) = 1 /\ Ack(p, b)
               \/ block - Short(b) = -1 /\ Ack(p, block)
               \/ block - Short(b) \notin {-1, 0, 1} /\ timer' = Off /\ UNCHANGED acks

DataIn(p, b) == /\ Booting /\ bs = "TFTP_REQ_SENT" /\ b \in 1..N /\ b <= cur[p]
                /\ port' = p
                /\ \/ Expect(p, b)
                   \/ Reack(p, b) /\ UNCHANGED <<bs, block, bytes, file>>
                /\ UNCHANGED <<pc, try, retx, server, asked, rrq, cur, patient>>

ErrorIn(p) == /\ ~patient /\ Booting /\ bs = "TFTP_REQ_SENT" /\ cur[p] \in 1..N
              /\ port' = p /\ timer' = Off /\ bs' = "TFTP_RETX"
              /\ UNCHANGED <<pc, main, server, file, net>>
-----------------------------------------------------------------------------
(* The servers (RFC 1350) and the network.  A block once sent may arrive   *)
(* at any later time, any number of times: DataIn asks for no more.        *)

Open(p) == /\ rrq /\ cur[p] = 0
           /\ cur' = [cur EXCEPT ![p] = 1] /\ rrq' \in BOOLEAN
           /\ UNCHANGED <<pc, bs, main, timer, port, server, file, asked, acks, patient>>

AckIn(p) == /\ cur[p] \in 1..N /\ cur[p] \in acks[p]
            /\ cur' = [cur EXCEPT ![p] = @ + 1]
            /\ acks' = [acks EXCEPT ![p] = {b \in @ : b > cur[p]}]
            /\ UNCHANGED <<pc, bs, main, timer, port, server, file, asked, rrq, patient>>

\* A server ends a transfer, and what it has sent is gone.
Close(p) == /\ cur[p] # 0 /\ (patient => pc = "idle")
            /\ cur' = [cur EXCEPT ![p] = 0] /\ acks' = [acks EXCEPT ![p] = {}]
            /\ UNCHANGED <<pc, bs, main, timer, port, server, file, asked, rrq, patient>>

Lose == /\ \/ rrq /\ rrq' = FALSE /\ UNCHANGED acks
           \/ \E p \in Ports : \E b \in acks[p] :
                 acks' = [acks EXCEPT ![p] = @ \ {b}] /\ UNCHANGED rrq
        /\ UNCHANGED <<pc, bs, main, timer, port, server, file, asked, cur, patient>>

Interrupt == \/ Tick
             \/ \E k \in BootpKinds : BootpIn(k)
             \/ \E p \in Ports : \E b \in 1..N : DataIn(p, b)
             \/ \E p \in Ports : ErrorIn(p)

Server == \E p \in Ports : Open(p) \/ AckIn(p) \/ Close(p)

Next == Start \/ Step \/ Interrupt \/ Server \/ Lose

Spec == Init /\ [][Next]_vars

\* The CPU goes on, the clock ticks, a request that arrives is answered, a
\* server repeats its block, and neither side's packets are lost for ever.
Fair == /\ WF_vars(Step) /\ WF_vars(Tick)
        /\ \A p \in Ports : WF_vars(Open(p)) /\ SF_vars(AckIn(p)) /\ SF_vars(DataIn(p, cur[p]))

FairSpec == Spec /\ Fair
-----------------------------------------------------------------------------
TypeOK ==
  /\ pc \in {"idle", "switch", "bootp_request", "bootp_timer", "tftp_req", "tftp_state",
            "tftp_timer", "tftp_block", "tftp_bytes", "tftp_retx", "jumped"}
  /\ bs \in States /\ try \in 0..(MaxTry + 1) /\ timer \in {Off} \cup 0..(MaxTry + 2)
  /\ block \in 0..N /\ bytes \in {0, 1} /\ retx \in 0..MaxRetx
  /\ port \in Ports \cup {0} /\ server \in BOOLEAN
  /\ mem \in [1..N -> 0..N] /\ memloc \in 1..(N + 1)
  /\ asked \in BOOLEAN /\ rrq \in BOOLEAN /\ patient \in BOOLEAN
  /\ cur \in [Ports -> 0..(N + 1)] /\ acks \in [Ports -> SUBSET (0..N)]

\* What is jumped to is the file, every block in its place, whatever was loaded
\* by earlier requests, sent twice, late, or by two servers at a time, and
\* wherever in the loop's stores the interrupts came.
Loaded == bs = "BOOT_DONE" => \A i \in 1..N : mem[i] = i

\* A server sees its transfer complete only when the client has the whole file:
\* the acknowledgement of a block that was not taken is never one it waits for.
ServerDone == \A p \in Ports : cur[p] > N => bs = "BOOT_DONE"

\* A first block has come between the stores of monboot.c:78 and :79; the second one
\* sets the count of what has been stored to 0 over it.
Cleared == pc = "tftp_bytes" /\ block > 1

\* An attempt ends, with the image loaded or with an error, if the servers are
\* patient and the count was never so cleared: the timer that every packet stops
\* (monudp.c:64) is started again in time.  After Cleared the transfer may hang: at the
\* next time-out it is begun anew, and what is still sent of the old one stops the timer.
Ends == []~Cleared => ((patient /\ Booting) ~> ~Booting)
=============================================================================
