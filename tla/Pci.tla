-------------------------------- MODULE Pci --------------------------------
(***************************************************************************)
(* The PCI BIOS (sys/pci.c; mon/monpci.c is the monitor's copy): the       *)
(* search for the BIOS32 service directory, the entry of the PCI service,  *)
(* and the calls that look for devices.  The BIOS itself is external.      *)
(***************************************************************************)
EXTENDS Integers, SequencesExt

CONSTANTS
  Machines,      \* machines: the paragraphs of the BIOS area, and the devices in their slots
  VTable,        \* vendors that scan_pci_bios() asks for
  MAX_DEVICE, MAX_INDEX    \* PCIBIOS_MAX_DEVICE and PCIBIOS_MAX_INDEX

ASSUME PciAssumption == MAX_DEVICE \in Nat \ {0} /\ MAX_INDEX \in Nat \ {0} /\ VTable # <<>>

VARIABLES
  machine,    \* the machine
  directory,  \* the paragraph bios32_entry was taken from; 0 for none
  entry,      \* pcibios_entry
  indirect,   \* pci_indirect.address, where PCI calls go
  pci,        \* where pci_init() or scan_pci_bios() is: the paragraph; vendor, device, index
  listed      \* what scan_pci_bios() has shown

pciVars == <<machine, directory, entry, indirect, pci, listed>>

PciInit ==
  /\ machine \in Machines /\ directory = 0 /\ entry = 0 /\ indirect = 0
  /\ pci = [at |-> "search", i |-> 1] /\ listed = <<>>

\* A directory counts if its bytes add up to 0 and its revision is 0.
Valid(p) == p.sig /\ p.sum = 0 /\ p.revision = 0

\* pcibios_init(): the next paragraph.
Search ==
  /\ pci.at = "search" /\ UNCHANGED <<machine, entry, indirect, listed>>
  /\ IF pci.i > Len(machine.area) THEN pci' = [at |-> "failed"] /\ UNCHANGED directory
     ELSE IF Valid(machine.area[pci.i]) THEN pci' = [at |-> "service"] /\ directory' = pci.i
     ELSE pci' = [pci EXCEPT !.i = @ + 1] /\ UNCHANGED directory

Bios == machine.area[directory].bios

\* bios32_service() for "$PCI": the base of the service and the offset of its entry.
\* Mutant: the base alone.
BaseOnly == IF Bios.code = 0 THEN Bios.base ELSE 0
Entry    == IF Bios.code = 0 THEN Bios.base + Bios.offset ELSE 0

Service ==
  /\ pci.at = "service" /\ entry' = Entry
  /\ IF Entry = 0 THEN pci' = [at |-> "failed"] /\ UNCHANGED indirect
     ELSE pci' = [at |-> "present"] /\ indirect' = Entry
  /\ UNCHANGED <<machine, directory, listed>>

\* check_pcibios(): the call itself decides by its signature; its status only gives rise
\* to a warning.  What was found first decides: no other directory is tried.
Present ==
  /\ pci.at = "present" /\ UNCHANGED <<machine, directory, indirect, listed>>
  /\ IF Bios.signature THEN pci' = [at |-> "ok"] /\ UNCHANGED entry
     ELSE pci' = [at |-> "failed"] /\ entry' = 0

PciInitStep == Search \/ Service \/ Present

\* FIND_PCI_DEVICE: the devices of that kind, counted from 0.  The answer is in AH.
Matching(vendor, device) ==
  SelectSeq(machine.devices, LAMBDA d : d.vendor = vendor /\ d.device = device)
FindCode(vendor, device, index) ==
  IF ~Bios.finds THEN "FUNC_NOT_SUPPORTED"
  ELSE IF index < Len(Matching(vendor, device)) THEN "SUCCESSFUL" ELSE "DEVICE_NOT_FOUND"

\* scan_pci_bios(): every index of every device number of every vendor, until there is
\* no more.
ScanStart ==
  /\ pci.at = "ok" /\ pci' = [at |-> "scan", v |-> 1, device |-> 0, index |-> 0]
  /\ UNCHANGED <<machine, directory, entry, indirect, listed>>

\* Mutant: the second device of a kind is not asked for.
FirstOnly(found) == FALSE
Another(found)   == found /\ pci.index + 1 < MAX_INDEX

ScanNext(found) ==
  pci' = IF Another(found) THEN [pci EXCEPT !.index = @ + 1]
         ELSE IF pci.device + 1 < MAX_DEVICE THEN [pci EXCEPT !.index = 0, !.device = @ + 1]
         ELSE IF pci.v < Len(VTable) THEN [pci EXCEPT !.index = 0, !.device = 0, !.v = @ + 1]
         ELSE [at |-> "scanned"]

ScanCall ==
  LET vendor == VTable[pci.v]
      code   == FindCode(vendor, pci.device, pci.index)
      where  == Matching(vendor, pci.device)[pci.index + 1].where
  IN
  /\ pci.at = "scan" /\ UNCHANGED <<machine, directory, entry, indirect>>
  /\ CASE code = "SUCCESSFUL" -> listed' = Append(listed, where) /\ ScanNext(TRUE)
       [] code = "DEVICE_NOT_FOUND" -> ScanNext(FALSE) /\ UNCHANGED listed
       [] OTHER -> pci' = [at |-> "panic"] /\ UNCHANGED listed

PciNext == PciInitStep \/ ScanStart \/ ScanCall
-----------------------------------------------------------------------------
(* Properties. *)

\* Calls go to the PCI service of the first valid directory, and pci_init() says OK
\* only if that service has answered with its signature (pci.c:76-116, 137-174).
EntryRight ==
  /\ pci.at \in {"ok", "scan", "scanned"} =>
       \E i \in DOMAIN machine.area :
         LET p == machine.area[i] IN
         /\ p.sig /\ p.sum = 0 /\ p.revision = 0 /\ p.bios.code = 0 /\ p.bios.signature
         /\ \A j \in 1 .. i - 1 : ~Valid(machine.area[j])
         /\ entry = p.bios.base + p.bios.offset /\ indirect = entry
  /\ pci.at = "failed" => entry = 0

\* A scan shows each device of the vendors it asks for once, and no other
\* (pci.c:366-399): of a kind MAX_INDEX at most, and none with the last number.
Asked(d) == d.vendor \in Range(VTable) /\ d.device < MAX_DEVICE
ScanComplete ==
  /\ IsInjective(listed)
  /\ \A k \in DOMAIN listed : \E d \in Range(machine.devices) : Asked(d) /\ d.where = listed[k]
  /\ pci.at = "scanned" =>
       \A k \in DOMAIN machine.devices :
         LET d == machine.devices[k]
             before == {j \in 1 .. k - 1 : machine.devices[j].vendor = d.vendor
                                           /\ machine.devices[j].device = d.device}
         IN Asked(d) /\ Cardinality(before) < MAX_INDEX => d.where \in Range(listed)
=============================================================================
