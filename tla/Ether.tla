-------------------------------- MODULE Ether --------------------------------
(***************************************************************************)
(* Sending and receiving in the boot monitor (mon/): packets in buffers    *)
(* from the boot loop, which runs with interrupts enabled, and from the    *)
(* interrupt handlers, through ARP to one of two cards: an EtherExpress    *)
(* with a queue and a transmit ring in its own memory, or a 3c905 with     *)
(* rings of descriptors.  A handler runs to its end: it is one action, its *)
(* calls are functions of the state st.                                    *)
(***************************************************************************)
EXTENDS TxRing, FiniteSetsExt, Sequences

CONSTANTS TSIZE,     \* MON_ARP_TSIZE
          Hosts,     \* the other hosts on the network
          MonBufs,   \* the buffers of mon_bufpool
          NetBufs,   \* the buffers of mon_Net.netpool, for what a 3c905 receives
          QSize,     \* the size of ed_outq
          TXRING, RXRING,   \* descriptors of a 3c905
          LongLen, ShortLen \* bytes of a block with a BOOTP request, with another frame

ASSUME ArpAssumption == TSIZE \in Nat \ {0}
ASSUME EtherAssumption == /\ MonBufs \cap NetBufs = {} /\ MonBufs \cup NetBufs \subseteq Nat \ {0}
                          /\ TXRING \in Nat \ {0, 1} /\ RXRING \in Nat \ {0}

VARIABLES card,  \* the card that mon_ethinit() has found
          st,    \* what handlers and boot loop share
          main   \* where the boot loop is in sending a packet

vars == <<card, st, main>>

-----------------------------------------------------------------------------
(* The ARP table (mon/monarp.c).  A host stands for its protocol address   *)
(* and for its hardware address; 0 is no packet.                           *)

FreeEntry == [state |-> "free", pra |-> 0, hwa |-> 0, pep |-> 0]

Entry(bufs) == [state : {"free", "pending", "resolved"}, pra : Hosts \cup {0},
                hwa : Hosts \cup {0}, pep : bufs \cup {0}]

ArpInit == [i \in 1..TSIZE |-> FreeEntry]

ArpFound(t, ip) == {i \in 1..TSIZE : t[i].state # "free" /\ t[i].pra = ip}

\* The entry of ip, 0 if there is none.
ArpFind(t, ip) == IF ArpFound(t, ip) = {} THEN 0 ELSE Min(ArpFound(t, ip))

\* An entry for a new address: if none is free the first one, whatever waits there.
ArpAlloc(t) == LET avail == {i \in 1..TSIZE : t[i].state = "free"}
               IN  IF avail = {} THEN 1 ELSE Min(avail)
-----------------------------------------------------------------------------
Bufs == MonBufs \cup NetBufs
Broadcast == 0
Multicast == -1
NoHop == -2                                 \* of a packet that ARP makes, or received
Hops == Hosts \cup {Broadcast, Multicast}   \* ep_nexthop of a packet to send
NoSlot == -1

\* A block in the memory of the EtherExpress; a descriptor of the 3c905.
Block(at, len, next) == [at |-> at, len |-> len, next |-> next]
IdleSlot == [next |-> NoSlot, status |-> "idle", buf |-> 0]

Idle == [at |-> "idle", buf |-> 0, prev |-> 0, slot |-> 0]
NoPkt == [hop |-> NoHop, dst |-> Broadcast]

\* mon_newq(), mon_lenq(), mon_headq(), mon_deq(): all packets have the same key.
NewQ     == <<>>
Lenq(s)  == Len(s.outq)
Headq(s) == Head(s.outq)
Deq(s)   == [s EXCEPT !.outq = Tail(@)]

Init == /\ card \in {"eepro", "3c905"} /\ main = Idle
        /\ \E ring \in [0..(RXRING - 1) -> NetBufs] :
              /\ \A i, j \in DOMAIN ring : i < j => ring[i] < ring[j]
              /\ \A i \in DOMAIN ring : \A b \in NetBufs : b < ring[i] => \E j \in DOMAIN ring : ring[j] = b
              /\ st = [free |-> Bufs \ {ring[i] : i \in DOMAIN ring},
                       pkt |-> [b \in Bufs |-> NoPkt], arp |-> ArpInit,
                       outq |-> NewQ, start |-> 0, end |-> 0, blocks |-> <<>>, sent |-> 0,
                       slots |-> [i \in 0..(TXRING - 1) |-> IdleSlot],
                       txb |-> 0, txe |-> TXRING - 1, dn |-> NoSlot,
                       rx |-> [i \in DOMAIN ring |-> [buf |-> ring[i], full |-> FALSE]],
                       rxb |-> 0, up |-> 0,
                       lost |-> {}, astray |-> FALSE, tight |-> FALSE, raced |-> FALSE, stuck |-> "no"]
-----------------------------------------------------------------------------
(* Buffers.  getbuf() waits for a buffer: in a handler, or with interrupts *)
(* disabled, for ever.                                                     *)

Put(s, b) == [s EXCEPT !.free = @ \cup {b}, !.pkt[b] = NoPkt]

Stuck(s, pool) == [s EXCEPT !.stuck = pool]

\* The buffer getbuf() or nbgetbuf() returns; which one does not matter.
Next1(s, pool) == Min(s.free \cap pool)
Has(s, pool) == s.free \cap pool # {}

\* A frame goes to the card; whether it is one for a host that gets another address.
Sent(s, b) == [s EXCEPT !.astray = @ \/ (s.pkt[b].hop \in Hosts /\ s.pkt[b].dst # s.pkt[b].hop),
                        !.pkt[b] = NoPkt]

Take(s, b, hop) == [s EXCEPT !.free = @ \ {b}, !.pkt[b].hop = hop]
-----------------------------------------------------------------------------
(* The EtherExpress                                                        *)

\* mon_enq() after its test, which is made before interrupts are disabled.
Enq(s, b) == [s EXCEPT !.outq = Append(@, b)]

Full(s) == Lenq(s) >= QSize

BlockLen(p) == IF p.hop = Broadcast THEN LongLen ELSE ShortLen

\* Whether the first packet of the queue goes into the ring.
Fits(s) == BlockLen(s.pkt[Headq(s)]) <= Avail(s.start, s.end)

\* A block is appended to the ring and its buffer freed.
Append1(s) ==
  LET b   == Headq(s)
      len == BlockLen(s.pkt[b])
      e   == NextEnd(s.end, len)
  IN  Put([Deq(Sent(s, b)) EXCEPT !.end = e,
                    !.blocks = Append(@, Block(s.end, len, e)),
                    !.tight = @ \/ len + TxHeader >= Avail(s.start, s.end)], b)

\* mon_ethwstrt()
RECURSIVE Wstrt(_)
Wstrt(s) == IF Lenq(s) > 0 /\ Fits(s) THEN Wstrt(Append1(s)) ELSE s

EthWrite(s, b) == Wstrt(IF Full(s) THEN Put(s, b) ELSE Enq(s, b))

\* eep_xintr(): the blocks the card has done with, then what waits in the queue.
RECURSIVE Completed(_)
Completed(s) == IF s.start # s.end /\ s.sent > 0
                THEN Completed([s EXCEPT !.start = Head(s.blocks).next, !.sent = @ - 1,
                                         !.blocks = Tail(@)])
                ELSE s
EepXintr(s) == Wstrt(Completed(s))
-----------------------------------------------------------------------------
(* The 3c905                                                               *)

\* Mutants: nothing is ever in the way; the index is not wrapped; the descriptor
\* before does not lead to the new one.
NeverFull(s) == FALSE
Unwrapped(s) == [s EXCEPT !.txe = @ + 1]
NotLinked(s, prev, slot) == [s EXCEPT !.dn = IF @ = NoSlot THEN slot ELSE @]

RingFull(s) == (s.txe + 2) % TXRING = s.txb

Reserve(s) == [s EXCEPT !.txe = (@ + 1) % TXRING]

Describe(s, slot, b) == [Sent(s, b) EXCEPT !.slots[slot] = [next |-> NoSlot, status |-> "ready", buf |-> b]]

\* The list pointer of the card is 0 when it has come to the end of the list.
Link(s, prev, slot) == [s EXCEPT !.slots[prev].next = slot,
                                 !.dn = IF @ = NoSlot THEN slot ELSE @]

Write905(s, b) == LET slot == (s.txe + 1) % TXRING
                  IN  IF RingFull(s) THEN Put(s, b)
                      ELSE [Link(Describe(Reserve(s), slot, b), s.txe, slot)
                              EXCEPT !.raced = @ \/ main.at \in {"describe", "link"}]

\* mon_3c905_ethxintr(): the rest of a descriptor is left, and written before its next use.
RECURSIVE Xintr905(_)
Xintr905(s) == IF s.slots[s.txb].status # "done" THEN s
               ELSE Xintr905([Put(s, s.slots[s.txb].buf) EXCEPT
                                !.slots[s.txb] = IdleSlot, !.txb = (@ + 1) % TXRING])

\* ni_write
NiWrite(s, b) == IF card = "eepro" THEN EthWrite(s, b) ELSE Write905(s, b)
-----------------------------------------------------------------------------
(* ARP and mon_netwrite()                                                  *)

\* mon_arpsend(): a request is broadcast.
ArpSend(s) == IF ~Has(s, MonBufs) THEN Stuck(s, "mon")
              ELSE LET b == Next1(s, MonBufs) IN NiWrite(Take(s, b, NoHop), b)

\* Mutant: the packet that waited is forgotten.
Forget(s, i, b) == ArpSend([s EXCEPT !.arp[i].pep = b])

\* The packet that waited for the address makes room for a newer one.
Replace(s, i, b) == LET old == s.arp[i].pep
                    IN  ArpSend([(IF old # 0 THEN Put(s, old) ELSE s) EXCEPT !.arp[i].pep = b])

\* The entry that is given up may hold a packet: nobody frees it.
Evict(s, i) == [s EXCEPT !.lost = @ \cup ({s.arp[i].pep} \ {0})]

NewPending(s, b) ==
  LET i == ArpAlloc(s.arp)
  IN  ArpSend([Evict(s, i) EXCEPT !.arp[i] =
                 [state |-> "pending", pra |-> s.pkt[b].hop, hwa |-> @.hwa, pep |-> b]])

\* The part of mon_netwrite() with interrupts disabled, and whether ni_write follows.
Lookup(s, b) ==
  LET hop == s.pkt[b].hop
      i   == ArpFind(s.arp, hop)
  IN  IF hop = Broadcast THEN [s |-> [s EXCEPT !.pkt[b].dst = Broadcast], write |-> TRUE]
      ELSE IF i # 0 /\ s.arp[i].state = "resolved"
           THEN [s |-> [s EXCEPT !.pkt[b].dst = s.arp[i].hwa], write |-> TRUE]
      ELSE IF i # 0 THEN [s |-> Replace(s, i, b), write |-> FALSE]
      ELSE IF hop = Multicast THEN [s |-> [s EXCEPT !.lost = @ \cup {b}], write |-> FALSE]
      ELSE [s |-> NewPending(s, b), write |-> FALSE]

NetWrite(s, b) == LET l == Lookup(s, b) IN IF l.write THEN NiWrite(l.s, b) ELSE l.s

\* Mutant: the entry is used as it is, its address stays.
AddressKept(s, h) == LET i == ArpAlloc(s.arp)
                     IN  [Evict(s, i) EXCEPT !.arp[i].pep = 0, !.arp[i].hwa = h,
                                             !.arp[i].state = "resolved"]

AddResolved(s, h) == LET i == ArpAlloc(s.arp)
                     IN  [Evict(s, i) EXCEPT !.arp[i] =
                            [state |-> "resolved", pra |-> h, hwa |-> h, pep |-> 0]]

\* A reply has come, or a request that says as much.
Resolve(s, i) == LET b == s.arp[i].pep
                     r == [s EXCEPT !.arp[i].state = "resolved", !.arp[i].pep = 0]
                 IN  IF b = 0 THEN r ELSE NetWrite(r, b)

\* mon_arp_in(): a packet of host h in buffer b, about this host or another one.
ArpIn(s, b, h, forMe, request) ==
  LET i == ArpFind(s.arp, h)
      k == IF i # 0 THEN [s EXCEPT !.arp[i].hwa = h] ELSE s
      r == IF i = 0 THEN AddResolved(k, h)
           ELSE IF k.arp[i].state = "pending" THEN Resolve(k, i) ELSE k
  IN  IF ~forMe THEN Put(k, b)
      ELSE IF request THEN NiWrite([r EXCEPT !.pkt[b] = [hop |-> h, dst |-> h]], b)
      ELSE Put(r, b)

\* mon_tftp_ack() to host h.
SendAck(s, h) == IF ~Has(s, MonBufs) THEN Stuck(s, "mon")
                 ELSE LET b == Next1(s, MonBufs) IN NetWrite(Take(s, b, h), b)

\* mon_ip_in(): every packet is freed, a block of the boot file first acknowledged.
IpIn(s, b, h) == LET r == SendAck(s, h)
                 IN  {Put(s, b), IF r.stuck = "no" THEN Put(r, b) ELSE r}

\* mon_ni_in(): a frame received from host h.
NiIn(s, b, h) == {ArpIn(s, b, h, forMe, request) : forMe, request \in BOOLEAN}
                 \cup IpIn(s, b, h) \cup {Put(s, b)}
-----------------------------------------------------------------------------
(* Interrupts                                                              *)

\* rcv_frame(): without a buffer the frame is dropped.
RcvFrame(s, h) == IF ~Has(s, MonBufs) THEN {s}
                  ELSE LET b == Next1(s, MonBufs) IN NiIn(Take(s, b, NoHop), b, h)

EepReceive(h) == card = "eepro" /\ st' \in RcvFrame(st, h)

\* One frame of mon_3c905_ethdemux(); its descriptor gets another buffer.
Refill(s) == IF ~Has(s, NetBufs) THEN Stuck(s, "net")
             ELSE LET b == Next1(s, NetBufs)
                  IN  [Take(s, b, NoHop) EXCEPT
                         !.rx[s.rxb] = [buf |-> b, full |-> FALSE], !.rxb = (@ + 1) % RXRING]

Receive905(h) == /\ card = "3c905" /\ st.rx[st.rxb].full
                 /\ \E s \in NiIn(st, st.rx[st.rxb].buf, h) :
                       st' = IF s.stuck = "no" THEN Refill(s) ELSE s

TxInterrupt == /\ st' = IF card = "eepro" THEN EepXintr(st) ELSE Xintr905(st)
               /\ st' # st

\* mon_timer() repeats an acknowledgement.
Timer(h) == st' = SendAck(st, h)

\* A run is followed until a getbuf() waits for ever or a ring is spoilt.
Going == st.stuck = "no" /\ ~st.tight /\ ~st.raced

Handler == /\ Going
           /\ TxInterrupt \/ \E h \in Hosts : EepReceive(h) \/ Receive905(h) \/ Timer(h)
           /\ UNCHANGED <<card, main>>
-----------------------------------------------------------------------------
(* The boot loop sends: mon_bootp_request() and mon_tftp_req(), then       *)
(* mon_netwrite() and ni_write.  Handlers come between these steps.        *)

MainAt(at) == Going /\ main.at = at /\ UNCHANGED card

GetBuf(hop) == /\ MainAt("idle") /\ Has(st, MonBufs)
               /\ LET b == Next1(st, MonBufs)
                  IN  st' = Take(st, b, hop) /\ main' = [Idle EXCEPT !.at = "lookup", !.buf = b]

MainLookup == /\ MainAt("lookup")
              /\ LET l == Lookup(st, main.buf)
                 IN  st' = l.s /\ main' = IF l.write THEN [main EXCEPT !.at = "write"] ELSE Idle

\* mon_ethwrite(): the test of mon_enq(), the rest of it, mon_ethwstrt().
EnqTest == /\ MainAt("write") /\ card = "eepro"
           /\ IF Full(st) THEN st' = Put(st, main.buf) /\ main' = [Idle EXCEPT !.at = "start"]
                          ELSE main' = [main EXCEPT !.at = "enq"] /\ UNCHANGED st

EnqRest == /\ MainAt("enq")
           /\ st' = Enq(st, main.buf) /\ main' = [Idle EXCEPT !.at = "start"]

StartOutput == MainAt("start") /\ st' = Wstrt(st) /\ main' = Idle

\* mon_3c905_ethwrite(): only the descriptor is reserved with interrupts disabled.
ReserveSlot == /\ MainAt("write") /\ card = "3c905"
               /\ IF RingFull(st) THEN st' = Put(st, main.buf) /\ main' = Idle
                  ELSE /\ st' = Reserve(st)
                       /\ main' = [main EXCEPT !.at = "describe", !.prev = st.txe, !.slot = st'.txe]

DescribeSlot == /\ MainAt("describe") /\ st' = Describe(st, main.slot, main.buf)
                /\ main' = [main EXCEPT !.at = "link", !.buf = 0]

LinkSlot == MainAt("link") /\ st' = Link(st, main.prev, main.slot) /\ main' = Idle

Main == \/ \E hop \in Hops : GetBuf(hop)
        \/ MainLookup \/ EnqTest \/ EnqRest \/ StartOutput
        \/ ReserveSlot \/ DescribeSlot \/ LinkSlot
-----------------------------------------------------------------------------
(* The cards send and receive at any time.                                 *)

EepSends == /\ card = "eepro" /\ st.sent < Len(st.blocks)
            /\ st' = [st EXCEPT !.sent = @ + 1]

Sends905 == /\ st.dn # NoSlot /\ st.slots[st.dn].status = "ready"
            /\ st' = [st EXCEPT !.slots[st.dn].status = "done", !.dn = st.slots[st.dn].next]

Receives905 == /\ card = "3c905" /\ ~st.rx[st.up].full
               /\ st' = [st EXCEPT !.rx[st.up].full = TRUE, !.up = (@ + 1) % RXRING]

Card == Going /\ (EepSends \/ Sends905 \/ Receives905) /\ UNCHANGED <<card, main>>

Next == Handler \/ Main \/ Card

Spec == Init /\ [][Next]_vars
-----------------------------------------------------------------------------
Slots == 0..(TXRING - 1)

Pending == {st.arp[i].pep : i \in 1..TSIZE} \ {0}
Queued == {st.outq[i] : i \in DOMAIN st.outq}
InTx == {st.slots[i].buf : i \in {j \in Slots : st.slots[j].status # "idle"}}
InRx == {st.rx[i].buf : i \in DOMAIN st.rx}
InHand == {main.buf} \ {0}

\* Every buffer is in one place and no buffer disappears but for a packet to a
\* multicast address or one that waits in an ARP entry which is given up.  So there
\* are always enough: a handler never waits for a buffer for what a 3c905 receives.
BufsOnce ==
  LET places == <<st.free, Pending, Queued, InTx, InRx, InHand, st.lost>>
  IN  /\ st.stuck # "net"
      /\ st.stuck = "no" =>
        /\ \A b \in Bufs : Cardinality({i \in DOMAIN places : b \in places[i]}) = 1
        /\ Cardinality(Queued) = Len(st.outq)

\* A frame on its way to a host has that host's address, and there are no two
\* entries for a host.
Addressed ==
  /\ ~st.astray
  /\ \A h \in Hosts : Cardinality(ArpFound(st.arp, h)) <= 1

\* The blocks in the memory of the EtherExpress do not overlap, and start and
\* end enclose them, until one is put into the last TxHeader bytes of the room.
Apart ==
  ~st.tight =>
    /\ st.blocks = <<>> <=> st.start = st.end
    /\ st.blocks # <<>> => /\ Head(st.blocks).at = st.start
                           /\ st.blocks[Len(st.blocks)].next = st.end
    /\ \A i, j \in DOMAIN st.blocks :
          i < j => Cells(st.blocks[i].at, st.blocks[i].len) \cap
                   Cells(st.blocks[j].at, st.blocks[j].len) = {}

\* Every descriptor that is ready will be reached by the 3c905, unless a handler
\* has written between the steps of the boot loop's own write.
Chained ==
  ~st.raced =>
    LET Behind[n \in 0..TXRING, i \in Slots \cup {NoSlot}] ==
          IF i = NoSlot \/ n = 0 THEN {} ELSE {i} \cup Behind[n - 1, st.slots[i].next]
        ready == {i \in Slots : st.slots[i].status = "ready"}
    IN  /\ ready \subseteq Behind[TXRING, st.dn] \cup {main.slot}
        /\ main.at # "link" => ready \subseteq Behind[TXRING, st.dn]
=============================================================================
