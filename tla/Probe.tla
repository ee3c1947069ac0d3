------------------------------- MODULE Probe -------------------------------
(***************************************************************************)
(* The search for an EtherExpress PRO/10 and its set-up (mon/ethinit.c,    *)
(* ethrom.c, ethcmd.c).  The card is external: an ID register that counts  *)
(* its reads, registers in three banks, a serial EEPROM, memory of 32K or  *)
(* 64K behind a window, and commands that it completes or does not.        *)
(***************************************************************************)
EXTENDS Integers, SequencesExt

CONSTANTS
  Cards,               \* cards: port, rom, ram, and what other ports answer as bus
  ADDRBITS, WORDBITS,  \* of the EEPROM: 6 and 16 in the code
  INTEL,               \* the first half of an Intel address
  PATTERN,             \* words of the memory test: 16 in the code
  POLLS                \* how often mon_ethcmd() looks: 100 in the code

ASSUME ProbeAssumption ==
  ADDRBITS \in Nat \ {0} /\ WORDBITS \in Nat /\ PATTERN \in Nat \ {0} /\ POLLS \in Nat \ {0}

VARIABLES
  card,    \* the card, or where none is
  count,   \* the counter in its ID register
  bank,    \* the bank of registers that is selected
  regs,    \* regs[b][r]: register r of bank b
  ram,     \* ram[half][k]: word k from address 0 or 0x8000 on; one half is all there is of 32K
  rom,     \* the EEPROM: the bits shifted in, and those still to be shifted out
  ed,      \* mon_eth[0]: ed_iobase, ed_paddr, ed_irq, ed_mem_size, ed_txbuf_size
  probe    \* where the program is, and its local variables

probeVars == <<card, count, bank, regs, ram, rom, ed, probe>>

NoRom == [in |-> <<>>, out |-> <<>>]
ProbeInit ==
  /\ card \in Cards /\ count \in 0 .. 3 /\ bank = 0
  /\ regs = [b \in 0 .. 2 |-> [r \in 0 .. 15 |-> 0]]
  /\ ram = [h \in {"low", "high"} |-> [k \in 1 .. PATTERN |-> 0]]
  /\ rom = NoRom /\ probe = [at |-> "idle"]
  /\ ed = [iobase |-> 0, paddr |-> <<>>, irq |-> 0, mem |-> 0, tx |-> 0]

\* search_eepro(): the port that was given, 0, and two rows of eight.
LastPort == 17
Port(n) == IF n = 1 THEN 0 ELSE IF n <= 9 THEN 512 + 16 * (n - 2) ELSE 768 + 16 * (n - 10)

\* The ID register of a card; other devices answer always the same.
SIG == 36
IdRead(io) == IF io = card.port THEN SIG + 64 * count ELSE card.bus
IdCount(io) == count' = IF io = card.port THEN (count + 1) % 4 ELSE count

Board(at, n, i) == [at |-> at, n |-> n, i |-> i]
ProbeStart ==
  /\ probe.at = "idle" /\ probe' = Board("sync", 1, 1)
  /\ UNCHANGED <<card, count, bank, regs, ram, rom, ed>>

\* check_board(): until the counter is 0, four times at most.  Mutant: three times.
ThreeTries == 3
Tries      == 4
Sync ==
  /\ probe.at = "sync" /\ IdCount(Port(probe.n))
  /\ probe' = IF IdRead(Port(probe.n)) = SIG \/ probe.i = Tries THEN Board("verify", probe.n, 1)
              ELSE [probe EXCEPT !.i = @ + 1]
  /\ UNCHANGED <<card, bank, regs, ram, rom, ed>>

ReadWord(word) == [at |-> "command", word |-> word, i |-> ADDRBITS + 2, retval |-> 0]
Failed == [at |-> "SYSERR"]

\* The counter must go on by one with each of three reads.  The port 0 stands for no
\* card.  Mutant: a constant is as good.
SameAgain(k) == SIG
Expected(k)  == SIG + 64 * k
Verify ==
  LET io == Port(probe.n) IN
  /\ probe.at = "verify" /\ IdCount(io)
  /\ IF IdRead(io) # Expected(probe.i)
     THEN /\ probe' = IF probe.n = LastPort THEN Failed ELSE Board("sync", probe.n + 1, 1)
          /\ UNCHANGED <<bank, ed>>
     ELSE IF probe.i < 3 THEN probe' = [probe EXCEPT !.i = @ + 1] /\ UNCHANGED <<bank, ed>>
     ELSE /\ probe' = IF io = 0 THEN Failed ELSE ReadWord(4)
          /\ bank' = 2 /\ ed' = [ed EXCEPT !.iobase = io]
  /\ UNCHANGED <<card, regs, ram, rom>>

\* mon_ethromread(): EEPROM_READ_CMD and the offset, the highest bit first.
Bit(n, i) == (n \div 2 ^ i) % 2
ReadCmd(from) == from + 6 * 2 ^ ADDRBITS

\* A tick of the clock while the card listens: it shifts a bit in, and has the word
\* ready after the last.
RomShiftIn(b) ==
  LET in   == Append(rom.in, b)
      from == FoldLeft(LAMBDA v, x : 2 * v + x, 0, SubSeq(in, 4, Len(in)))
  IN  rom' = IF bank # 2 THEN rom
             ELSE [in |-> in, out |-> IF Len(in) # ADDRBITS + 3 \/ SubSeq(in, 1, 3) # <<1, 1, 0>> THEN <<>>
                                       ELSE [k \in 1 .. WORDBITS |-> Bit(card.rom[from], WORDBITS - k)]]
RomShiftOut == IF bank # 2 \/ rom.out = <<>> THEN 0 ELSE Head(rom.out)

RomCommand ==
  /\ probe.at = "command" /\ RomShiftIn(Bit(ReadCmd(probe.word), probe.i))
  /\ probe' = IF probe.i > 0 THEN [probe EXCEPT !.i = @ - 1]
              ELSE [probe EXCEPT !.at = "data", !.i = WORDBITS]
  /\ UNCHANGED <<card, count, bank, regs, ram, ed>>

\* Mutant: the lowest bit comes first.
LowFirst(retval, b) == retval \div 2 + b * 2 ^ (WORDBITS - 1)
Shifted(retval, b)  == ((retval * 2) % 2 ^ WORDBITS) + b

RomData ==
  /\ probe.at = "data" /\ probe.i > 0
  /\ probe' = [probe EXCEPT !.i = @ - 1, !.retval = Shifted(@, RomShiftOut)]
  /\ rom' = [rom EXCEPT !.out = IF @ = <<>> THEN @ ELSE Tail(@)]
  /\ UNCHANGED <<card, count, bank, regs, ram, ed>>

HALF == 2 ^ (WORDBITS \div 2)
IrqOf == <<9, 3, 5, 10, 11>>

\* eep_probe() with a word that has been read, and the next one.
RomTaken ==
  LET w == probe.retval
      paddr == ed.paddr \o <<w \div HALF, w % HALF>>
  IN
  /\ probe.at = "data" /\ probe.i = 0 /\ rom' = NoRom
  /\ IF probe.word > 1
     THEN /\ ed' = [ed EXCEPT !.paddr = paddr]
          /\ probe' = IF probe.word = 2 /\ SubSeq(paddr, 1, 3) # INTEL THEN Failed
                      ELSE ReadWord(probe.word - 1)
     ELSE IF w % 8 < Len(IrqOf)
          THEN ed' = [ed EXCEPT !.irq = IrqOf[(w % 8) + 1]] /\ probe' = [at |-> "memory"]
          ELSE probe' = Failed /\ UNCHANGED ed
  /\ bank' = IF probe'.at = "command" THEN 2 ELSE 0
  /\ UNCHANGED <<card, count, regs, ram>>

\* check_mem_size(): words written through the window, and what is read there then.
RamWith(half, words) ==
  [h \in {"low", "high"} |-> IF h = half \/ card.ram = "32" THEN words ELSE ram[h]]
RamRead(half, k) == IF card.ram = "bad" /\ k = PATTERN THEN 0 ELSE ram[half][k]

\* What is written low, high, and low again.
PatternLow  == [k \in 1 .. PATTERN |-> 3 * k]
PatternHigh == [k \in 1 .. PATTERN |-> 3 * k + 6]
PatternZero == [k \in 1 .. PATTERN |-> 0]

MemLow ==
  /\ probe.at = "memory" /\ ram' = RamWith("low", PatternLow)
  /\ probe' = [at |-> "compare"] /\ UNCHANGED <<card, count, bank, regs, rom, ed>>
MemHigh ==
  /\ probe.at = "compare"
  /\ IF \E k \in 1 .. PATTERN : RamRead("low", k) # PatternLow[k] THEN probe' = Failed /\ UNCHANGED ram
     ELSE probe' = [at |-> "zero"] /\ ram' = RamWith("high", PatternHigh)
  /\ UNCHANGED <<card, count, bank, regs, rom, ed>>

\* Mutant: what was written high is not disturbed.
NotZeroed == ram
Zeroed    == RamWith("low", PatternZero)
MemZero ==
  /\ probe.at = "zero" /\ ram' = Zeroed
  /\ probe' = [at |-> "size"] /\ UNCHANGED <<card, count, bank, regs, rom, ed>>
MemSize ==
  LET wrapped == \E k \in 1 .. PATTERN : RamRead("high", k) # PatternHigh[k] IN
  /\ probe.at = "size"
  /\ ed' = IF wrapped THEN [ed EXCEPT !.mem = 32768, !.tx = 6144] ELSE [ed EXCEPT !.mem = 65536, !.tx = 12288]
  /\ probe' = [at |-> "reset", polls |-> 0] /\ UNCHANGED <<card, count, bank, regs, ram, rom>>

ProbeNext ==
  \/ ProbeStart \/ Sync \/ Verify \/ RomCommand \/ RomData \/ RomTaken
  \/ MemLow \/ MemHigh \/ MemZero \/ MemSize
-----------------------------------------------------------------------------
(* Properties. *)

\* A card is found wherever it is among the ports and whatever its counter is, and
\* nothing else is taken for one (ethinit.c:216-279).
CardFound ==
  /\ probe.at # "idle" /\ ed.iobase # 0 => ed.iobase = card.port
  /\ probe.at = "SYSERR" /\ ed.iobase = 0 => ~\E n \in 2 .. LastPort : Port(n) = card.port

\* A word read from the EEPROM is the word there (ethrom.c:24-54): the bits out and in,
\* the bank in which the register is, and the address before the data.
RomRead ==
  probe.at = "data" /\ probe.i = 0 => probe.retval = card.rom[probe.word]

\* The memory found is the memory there; a card that does not keep what is written is
\* refused (ethinit.c:299-347).
MemoryRight ==
  /\ ed.mem # 0 => ed.mem = IF card.ram = "64" THEN 65536 ELSE 32768
  /\ ed.mem # 0 => card.ram # "bad"
=============================================================================
