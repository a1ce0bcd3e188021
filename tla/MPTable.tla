------------------------------ MODULE MPTable -------------------------------
(* MPConfigruationTable.c: what the kernel takes from the table in which the
   firmware lists the processors, the busses, the I/O APICs and the lines that
   lead to them.  A table is a sequence of entries, records with a field
   "type"; the operators here read it and change nothing.                  *)
EXTENDS Integers, Sequences, SequencesExt, FiniteSets

NULL == 0   \* an address that is not known

BYTE == 0..255

\* The entries of a table; the address of an I/O APIC has 32 bits.
Entry ==
    [type : {"processor"}, id : BYTE, enabled : BOOLEAN]
    \cup [type : {"bus"}, id : BYTE, bus : STRING]
    \cup [type : {"ioapic"}, id : BYTE, base : Nat]
    \cup [type : {"line"}, kind : STRING, bus : BYTE, irq : BYTE, ioapic : BYTE, pin : BYTE]
    \cup [type : {"local"}]

ValuesOf(table) == {table[i] : i \in DOMAIN table}

Entries(table, type) == SelectSeq(table, LAMBDA entry : entry.type = type)

(* kFindMPFloatingPointerAddress looks for the signature in the extended BIOS
   data area, then in the last Kbyte of the base memory, then in the ROM:
   areas is a sequence of these three, each with the tables found there.   *)
kFindMPFloatingPointerAddress(areas) == areas[1] \o areas[2] \o areas[3]

\* The ID of the last bus of this kind, or 0xFF.
LastBus(table, kind) ==
    LET busses == SelectSeq(Entries(table, "bus"), LAMBDA entry : entry.bus = kind)
    IN  IF busses = <<>> THEN 255 ELSE Last(busses).id

\* The manager before the table was looked for.
NoConfiguration == [found |-> FALSE, table |-> <<>>, processors |-> 0,
                    picMode |-> FALSE, isa |-> 0, pci |-> 0]

(* kAnalysisMPConfigurationTable fills the configuration manager: the number of
   processors that the firmware has enabled and the IDs of the two busses. *)
kAnalysisMPConfigurationTable(areas, picMode) ==
    LET found == kFindMPFloatingPointerAddress(areas)
    IN  IF found = <<>>
        THEN [NoConfiguration EXCEPT !.isa = 255, !.pci = 255]
        ELSE [found |-> TRUE, table |-> found[1], picMode |-> picMode,
              processors |-> Cardinality({i \in DOMAIN found[1] :
                                 found[1][i].type = "processor" /\ found[1][i].enabled}),
              isa |-> LastBus(found[1], "ISA"), pci |-> LastBus(found[1], "PCI")]

kGetProcessorCount(mp) == IF mp.processors = 0 THEN 1 ELSE mp.processors

\* The lines of a bus, of every interrupt type.
LinesOf(mp, bus) == SelectSeq(Entries(mp.table, "line"), LAMBDA entry : entry.bus = bus)

\* The lines of both busses, whose interrupts can be routed.
RoutedLines(mp) ==
    SelectSeq(Entries(mp.table, "line"), LAMBDA entry : entry.bus \in {mp.isa, mp.pci})

(* The address of the I/O APIC to which the first line of the bus leads, or
   NULL: kFindIOAPICEntryForISA and kFindIOAPICEntryForPCI.                *)
IOAPICOf(mp, bus) ==
    LET lines   == LinesOf(mp, bus)
        ioapics == SelectSeq(Entries(mp.table, "ioapic"),
                             LAMBDA entry : entry.id = lines[1].ioapic)
    IN  IF lines = <<>> \/ ioapics = <<>> THEN NULL ELSE ioapics[1].base

kFindIOAPICEntryForISA(mp) == IOAPICOf(mp, mp.isa)
kFindIOAPICEntryForPCI(mp) == IOAPICOf(mp, mp.pci)

=============================================================================
