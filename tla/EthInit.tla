------------------------------ MODULE EthInit ------------------------------
(***************************************************************************)
(* mon_ethinit() (mon/ethinit.c, mon3com.c): a 3C905 if the PCI BIOS has   *)
(* one, else an EtherExpress, which is then set up register by register.   *)
(***************************************************************************)
EXTENDS Pci, Probe

CONSTANTS
  KIND3C905, KINDPRO100    \* vendor and device of the two PCI cards

ASSUME EthInitAssumption == KIND3C905 # KINDPRO100

VARIABLES
  dev,     \* mon_dev_eth: pcidev, iobase, irq
  config_space,  \* config_space[where]: the I/O base, interrupt line and command of a PCI device
  nif,     \* mon_nif[0].ni_write
  init     \* where mon_ethinit() is, and its result

ethInitVars == <<pciVars, probeVars, dev, config_space, nif, init>>

EthInitInit ==
  /\ PciInit /\ ProbeInit
  /\ config_space = [w \in {machine.devices[k].where : k \in DOMAIN machine.devices} |->
                       [iobase |-> 256 * w + 1, irq |-> 8 + w, command |-> 1]]
  /\ dev = [pcidev |-> 0, iobase |-> 0, irq |-> 0] /\ nif = "none" /\ init = "pci"

\* The monitor has its own copy of pci_init(): it keeps what Pci's variables hold in
\* variables of its own and does the same with them.
MonPcibiosInit    == Search
MonBios32Service  == Service
MonCheckPcibios   == Present
MonPciInit        == MonPcibiosInit \/ MonBios32Service \/ MonCheckPcibios

PciPart ==
  /\ init = "pci" /\ MonPciInit
  /\ UNCHANGED <<probeVars, dev, config_space, nif, init>>

FindPci(kind) == FindCode(kind[1], kind[2], 0) = "SUCCESSFUL"
Found(kind)   == Matching(kind[1], kind[2])[1].where

\* mon_find_pci_device() keeps what it has found, whoever asked.
FindCard ==
  /\ init = "pci" /\ pci.at \in {"ok", "failed"}
  /\ IF pci.at = "ok" /\ FindPci(KIND3C905)
     THEN init' = "3c905" /\ dev' = [dev EXCEPT !.pcidev = Found(KIND3C905)]
     ELSE /\ init' = "eep"
          /\ dev' = IF pci.at = "ok" /\ FindPci(KINDPRO100) THEN [dev EXCEPT !.pcidev = Found(KINDPRO100)] ELSE dev
  /\ UNCHANGED <<pciVars, probeVars, config_space, nif>>

Or(b, bit)      == IF (b \div bit) % 2 = 1 THEN b ELSE b + bit
Without(b, bit) == IF (b \div bit) % 2 = 1 THEN b - bit ELSE b

\* mon_pci_bios_read_config_byte(), _word() and _dword(), mon_pci_bios_write_config_word():
\* the configuration of the card that was found.
ReadConfig(field)         == config_space[dev.pcidev][field]
WriteConfig(field, value) == config_space' = [config_space EXCEPT ![dev.pcidev][field] = value]

\* mon_3c905_ethinit(): the low bit of the base only says that it is one; the card is
\* made a bus master.  Mutant: the base as it is.
AsRead(base) == base
IoBase(base) == Without(base, 1)
Init905 ==
  /\ init = "3c905"
  /\ dev' = [dev EXCEPT !.iobase = IoBase(ReadConfig("iobase")), !.irq = ReadConfig("irq")]
  /\ WriteConfig("command", Or(ReadConfig("command"), 4))
  /\ nif' = "mon_3c905_ethwrite" /\ init' = "OK"
  /\ UNCHANGED <<pciVars, probeVars>>

ProbePart ==
  /\ init = "eep" /\ ProbeNext
  /\ init' = IF probe'.at = "SYSERR" THEN "SYSERR" ELSE init
  /\ UNCHANGED <<pciVars, dev, config_space, nif>>

\* outb() and outw() to registers of the card in turn.  Register 0 selects a bank with
\* its two highest bits in every bank, and the rest is a command.
Outs(writes) ==
  LET s == FoldLeft(LAMBDA t, w :
                IF w[1] = 0 THEN [t EXCEPT !.bank = w[2] \div 64, !.regs[0][0] = w[2] % 64]
                ELSE [t EXCEPT !.regs[t.bank][w[1]] = w[2]],
              [bank |-> bank, regs |-> regs], writes)
  IN  bank' = s.bank /\ regs' = s.regs

\* mon_ethcmd(): a command, and looks at the status until it is completed as expected.
\* If it never is, i82595_init() gives up and mon_ethinit() takes no notice.
NextAfter(cmd) == IF cmd = 14 THEN "bank1" ELSE "enable"
Complete(cmd) ==
  /\ probe' = [at |-> NextAfter(cmd)] /\ Outs(<<<<1, 8>>, <<0, cmd>>>>) /\ UNCHANGED init
GiveUp(cmd) ==
  /\ probe' = [at |-> "given up"] /\ init' = "OK"
  /\ Outs(<<<<1, 8>>, <<0, cmd>>, <<1, 8>>>>)
Ethcmd(at, cmd) ==
  /\ init = "eep" /\ probe.at = at
  /\ IF probe.polls = POLLS THEN GiveUp(cmd) /\ nif' = "mon_ethwrite"
     ELSE /\ UNCHANGED nif
          /\ \/ card.obeys /\ Complete(cmd)
             \/ probe' = [probe EXCEPT !.polls = @ + 1] /\ UNCHANGED <<bank, regs, init>>
  /\ UNCHANGED <<pciVars, card, count, ram, rom, ed, dev, config_space>>

Setup(from, to, writes) ==
  /\ init = "eep" /\ probe.at = from
  /\ probe' = IF to = "diagnose" THEN [at |-> to, polls |-> 0] ELSE [at |-> to]
  /\ Outs(writes)
  /\ UNCHANGED <<pciVars, card, count, ram, rom, ed, dev, config_space>>

\* Mutant: the table begins one entry too late; what is not in it is -1.
RmapShifted(irq) == CASE irq = 9 -> 3 [] irq = 10 -> 4 [] OTHER -> 7
irqrmap(irq)     == CASE irq \in {2, 9} -> 0 [] irq = 3 -> 1 [] irq = 5 -> 2 [] irq = 10 -> 3 [] irq = 11 -> 4

Bank1 ==
  LET r1 == Or(regs[1][1], 128)
      sel == (regs[1][2] - (regs[1][2] % 8)) + irqrmap(ed.irq) IN
  /\ Setup("bank1", "bank2",
       <<<<0, 64>>, <<1, r1>>, <<2, sel>>, <<1, r1>>, <<10, 0>>, <<11, ed.tx \div 256 - 1>>,
         <<8, ed.tx \div 256>>, <<9, ed.mem \div 256 - 1>>>>)
  /\ UNCHANGED <<nif, init>>
Bank2 ==
  /\ Setup("bank2", "bank0",
       <<<<0, 128>>, <<1, Or(Or(regs[2][1], 32), 128)>>, <<2, 4 + 16>>,
         <<3, Without(Without(Without(regs[2][3], 16), 64), 128)>>>>)
  /\ UNCHANGED <<nif, init>>
\* config_593(): the words of the command go through the port at 14 to the address 0
\* of the card's memory; then it is run.
Config593 ==
  <<<<10, 0>>, <<12, 0>>>> \o [k \in 1 .. 9 |-> <<14, <<2, 0, 0, 10, 46, 96, 2290, 16384, 182>>[k]>>]
  \o <<<<0, 2>>, <<10, 0>>, <<12, 0>>, <<1, 8>>>>
Bank0 ==
  /\ Setup("bank0", "diagnose",
       <<<<0, 0>>, <<0, 30>>, <<10, 0>>, <<4, ed.tx>>, <<6, ed.mem - 1>>>> \o Config593)
  /\ UNCHANGED <<nif, init>>

\* Mutant: the bank with the address stays selected.
StillBank2 == 128
BackToBank0 == 0
Enable ==
  /\ Setup("enable", "enabled",
       <<<<0, 128>>>> \o [k \in 1 .. 6 |-> <<3 + k, ed.paddr[k]>>] \o
       <<<<0, BackToBank0>>, <<3, 15 - (2 + 4)>>, <<1, 15>>, <<0, 8>>>>)
  /\ init' = "OK" /\ nif' = "mon_ethwrite"

EthInitNext ==
  \/ PciPart \/ FindCard \/ Init905 \/ ProbePart
  \/ Ethcmd("reset", 14) \/ Ethcmd("diagnose", 7)
  \/ Bank1 \/ Bank2 \/ Bank0 \/ Enable
  \/ /\ init = "OK" /\ pci.at \in {"ok", "scan"} /\ (ScanStart \/ ScanCall)
     /\ UNCHANGED <<probeVars, dev, config_space, nif, init>>
-----------------------------------------------------------------------------
(* Properties. *)

\* What frames are handed to is the card that is there: a 3C905 at the base that its
\* configuration names, made bus master, or the EtherExpress with its own address
\* (ethinit.c:54-85, mon3com.c:62-75).
WriterFits ==
  init = "OK" =>
    /\ nif = "mon_3c905_ethwrite" =>
         /\ \E k \in DOMAIN machine.devices :
              LET d == machine.devices[k] IN
              /\ d.where = dev.pcidev /\ <<d.vendor, d.device>> = KIND3C905
         /\ dev.iobase = 256 * dev.pcidev /\ (config_space[dev.pcidev].command \div 4) % 2 = 1
    /\ nif = "mon_ethwrite" =>
         /\ ed.iobase = card.port /\ SubSeq(ed.paddr, 1, 3) = INTEL
         /\ \A k \in 1 .. 6 :
              ed.paddr[k] = LET w == card.rom[4 - (k - 1) \div 2] IN IF k % 2 = 1 THEN w \div HALF ELSE w % HALF
    /\ nif # "none"

\* An EtherExpress that obeys is set up in the banks where its registers are: the
\* interrupt line of its EEPROM, transmit memory from 0 to where receive memory begins
\* and that to the end, its address, and commands accepted (ethinit.c:370-470).
Programmed ==
  probe.at = "enabled" =>
    /\ bank = 0 /\ regs[0][0] = 8 /\ regs[0][3] = 9
    /\ regs[1][2] % 8 = card.rom[1] % 8
    /\ regs[1][10] = 0 /\ regs[1][11] + 1 = regs[1][8] /\ regs[0][4] = 256 * regs[1][8]
    /\ regs[0][6] + 1 = 256 * (regs[1][9] + 1) /\ regs[0][6] + 1 = IF card.ram = "64" THEN 65536 ELSE 32768
    /\ \A k \in 1 .. 6 : regs[2][3 + k] = ed.paddr[k]

\* The card that is there is found, read, set up and used, however the machine is
\* made up (pci.c, monpci.c, ethinit.c, ethrom.c, mon3com.c).
CardReady ==
  /\ EntryRight /\ ScanComplete
  /\ CardFound /\ RomRead /\ MemoryRight
  /\ WriterFits /\ Programmed
=============================================================================
