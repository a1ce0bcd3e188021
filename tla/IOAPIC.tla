------------------------------- MODULE IOAPIC -------------------------------
(* IOAPIC.c: the I/O APICs and their redirection tables.  An I/O APIC shows one
   register at a time through a window: each access first selects the register.
   The bootstrap processor programs the tables in one go, with interrupts off
   and nobody else routing; afterwards every core that balances an IRQ rewrites
   entries access by access, and nothing keeps two of them apart.          *)
EXTENDS Kernel32, MPTable

CONSTANTS
    PINS,   \* IOAPIC_MAXIOREDIRECTIONTABLECOUNT: 24 in the code
    IRQS    \* IOAPIC_MAXIRQTOINTINMAPCOUNT: 24 in the code

ASSUME IOAPICAssumption == PINS \in Nat \ {0} /\ IRQS \in Nat \ {0}

\* A table is a sequence of entries.
ASSUME TableAssumption ==
    \A m \in Machines : \A i \in 1..3 : m.areas[i] \in Seq(Seq(Entry))

VARIABLES
    mp,          \* the MP configuration manager
    ioapic,      \* the I/O APIC manager: two addresses and the map of the IRQs
    redirection, \* address |-> pin |-> entry: the hardware
    selector,    \* address |-> the register that the window shows
    route,       \* core |-> its call of kRoutingIRQToAPICID, or NotRouting
    overlap      \* history: two cores have been routing at once

ioapicVars == <<mp, ioapic, redirection, selector, route, overlap>>

NoPin     == 255
AllCores  == 255   \* a destination that every local APIC accepts
NotRouting == [step |-> 0, irq |-> 0, dest |-> 0, line |-> 0, low |-> <<>>]

\* The two halves of an entry: the destination, and vector (a byte), trigger and
\* mask.
kSetIOAPICRedirectionEntry(dest, mask, level, vector) ==
    [dest |-> dest, low |-> [vector |-> vector % 256, level |-> level, mask |-> mask]]

Reset  == kSetIOAPICRedirectionEntry(0, TRUE, FALSE, 0)
Masked(entry) == [entry EXCEPT !.low.mask = TRUE]

\* The other half, when a core reads or writes through a window that another
\* core has moved: no bit of it means what it should.
WrongHalf == [vector |-> 0, level |-> FALSE, mask |-> FALSE]

IOAPICInit ==
    /\ mp = NoConfiguration
    /\ ioapic = [isa |-> NULL, pci |-> NULL, map |-> [irq \in 0..(IRQS - 1) |-> 0]]
    /\ LET bases == {entry.base : entry \in
                       {e \in UNION {ValuesOf(t) : t \in ValuesOf(
                                       kFindMPFloatingPointerAddress(machine.areas))} :
                          e.type = "ioapic"}}
       IN  /\ redirection = [base \in bases |-> [pin \in 0..(PINS - 1) |-> Reset]]
           /\ selector = [base \in bases |-> <<"low", 0>>]
    /\ route = [c \in Cores |-> NotRouting]
    /\ overlap = FALSE

(***************************************************************************)
(* Programming                                                             *)
(***************************************************************************)

\* A register of a pin beyond the table, or of no I/O APIC, keeps nothing.
Exists(base, pin) == base \in DOMAIN redirection /\ pin < PINS

kWriteIOAPICRedirectionTable(registers, base, pin, entry) ==
    IF Exists(base, pin) THEN [registers EXCEPT ![base][pin] = entry] ELSE registers

kMaskAllInterruptInIOAPIC(registers, base) ==
    IF base \in DOMAIN registers
    THEN [registers EXCEPT ![base] = [pin \in DOMAIN @ |-> Masked(@[pin])]]
    ELSE registers

\* IRQ 0 of the ISA bus, the timer, goes to every core; the rest to core 0.
ISAEntry(line) ==
    kSetIOAPICRedirectionEntry(IF line.irq = 0 THEN AllCores ELSE 0, FALSE, FALSE, 32 + line.irq)

PCIEntry(line) == kSetIOAPICRedirectionEntry(0, FALSE, TRUE, 48 + (line.irq % 4))

(* One line of the MP table: its pin is programmed and entered in the map.  The
   code does not compare the source IRQ, any byte, with the size of the map,
   and that of a PCI device is mostly beyond it.  In the kernel that the
   repository holds (Kernel64.elf) such a store hits the 24 bytes of padding
   behind the manager or, from IRQ 48 on, gs_vstTask, which only a function
   that nothing calls uses: it changes nothing that is read.               *)
Program(manager, line) ==
    LET enter(base, entry) ==
            [manager EXCEPT
               !.registers = kWriteIOAPICRedirectionTable(@, base, line.pin, entry),
               !.map = [irq \in DOMAIN @ |-> IF irq = line.irq THEN line.pin ELSE @[irq]]]
    IN  CASE line.bus = mp.isa /\ line.kind = "INT" -> enter(manager.isa, ISAEntry(line))
          [] line.bus # mp.isa /\ line.bus = mp.pci /\ line.kind = "INT"
                                                    -> enter(manager.pci, PCIEntry(line))
          [] OTHER                                  -> manager

kGetIOAPICBaseAddressOfISA == kFindIOAPICEntryForISA(mp)
kGetIOAPICBaseAddressOfPCI == kFindIOAPICEntryForPCI(mp)

\* What the manager and the registers are after the first n entries of the table:
\* at first all pins are masked and no IRQ has one.
ProgrammedBy[n \in 0..Len(mp.table)] ==
    IF n = 0
    THEN LET isa == kGetIOAPICBaseAddressOfISA
             pci == kGetIOAPICBaseAddressOfPCI
         IN  [isa |-> isa, pci |-> pci, map |-> [irq \in 0..(IRQS - 1) |-> NoPin],
              registers |-> kMaskAllInterruptInIOAPIC(
                              kMaskAllInterruptInIOAPIC(redirection, isa), pci)]
    ELSE IF mp.table[n].type = "line"
         THEN Program(ProgrammedBy[n - 1], mp.table[n]) ELSE ProgrammedBy[n - 1]

Programmed == ProgrammedBy[Len(mp.table)]

kInitializeIORedirectionTable ==
    /\ ioapic' = [isa |-> Programmed.isa, pci |-> Programmed.pci, map |-> Programmed.map]
    /\ redirection' = Programmed.registers
    /\ UNCHANGED <<mp, selector, route, overlap>>

(***************************************************************************)
(* Routing                                                                 *)
(***************************************************************************)

(* kRoutingIRQToAPICID: the range of the IRQ is checked, then for every line of
   the ISA or the PCI bus the entry of the pin of the IRQ is read, given the
   new destination and written.                                            *)
kRoutingIRQToAPICID(c, irq, dest) ==
    IF irq > IRQS \/ RoutedLines(mp) = <<>>
    THEN UNCHANGED ioapicVars
    ELSE /\ route' = [route EXCEPT ![c] =
                        [step |-> 1, irq |-> irq, dest |-> dest, line |-> 1, low |-> <<>>]]
         /\ overlap' = (overlap \/ \E other \in Cores : route[other] # NotRouting)
         /\ UNCHANGED <<mp, ioapic, redirection, selector>>

\* The I/O APIC that core c addresses for its line, and the pin.
BaseOf(c) == IF RoutedLines(mp)[route[c].line].bus = mp.isa THEN ioapic.isa ELSE ioapic.pci
PinOf(c)  == ioapic.map[route[c].irq]

\* The core selects one half of the entry.
Select(c, half) ==
    selector' = IF BaseOf(c) \in DOMAIN selector
                THEN [selector EXCEPT ![BaseOf(c)] = <<half, PinOf(c)>>]
                ELSE selector

\* The half that the window of the I/O APIC shows, and the store to it.
Shown(c) == selector[BaseOf(c)]

LowThroughWindow(c) ==
    IF BaseOf(c) \notin DOMAIN selector THEN WrongHalf
    ELSE IF Shown(c)[2] >= PINS \/ Shown(c)[1] = "high" THEN WrongHalf
    ELSE redirection[BaseOf(c)][Shown(c)[2]].low

StoreThroughWindow(c, dest, low) ==
    redirection' =
        IF BaseOf(c) \notin DOMAIN selector THEN redirection
        ELSE IF Shown(c)[2] >= PINS THEN redirection
        ELSE IF Shown(c)[1] = "high"
             THEN [redirection EXCEPT ![BaseOf(c)][Shown(c)[2]].dest = dest]
             ELSE [redirection EXCEPT ![BaseOf(c)][Shown(c)[2]].low = low]

\* After the last store the next line follows, or the call is over.
NextLine(c) ==
    route' = [route EXCEPT ![c] = IF route[c].line < Len(RoutedLines(mp))
                                  THEN [route[c] EXCEPT !.step = 1, !.line = @ + 1]
                                  ELSE NotRouting]

NextStep(c) == route' = [route EXCEPT ![c].step = @ + 1]

\* Mutant: the lower half is stored without being selected.
RouteStepUnselected(c) ==
    /\ route[c] # NotRouting
    /\ CASE route[c].step \in {1, 4} -> Select(c, "high") /\ NextStep(c) /\ UNCHANGED redirection
         [] route[c].step = 2 -> Select(c, "low") /\ NextStep(c) /\ UNCHANGED redirection
         [] route[c].step = 3 ->
              /\ route' = [route EXCEPT ![c].step = 4, ![c].low = LowThroughWindow(c)]
              /\ UNCHANGED <<selector, redirection>>
         [] route[c].step = 5 ->
              /\ StoreThroughWindow(c, route[c].dest, WrongHalf)
              /\ NextStep(c) /\ UNCHANGED selector
         [] route[c].step = 6 -> NextStep(c) /\ UNCHANGED <<selector, redirection>>
         [] route[c].step = 7 ->
              /\ StoreThroughWindow(c, 0, route[c].low)
              /\ NextLine(c) /\ UNCHANGED selector
    /\ UNCHANGED <<mp, ioapic, overlap>>

(* kReadIOAPICRedirectionTable is the steps 1 to 3, kWriteIOAPICRedirectionTable
   the steps 4 to 7.  The upper half is selected but the value read is left
   out: only its destination can be written, and the caller has replaced it. *)
RouteStep(c) ==
    /\ route[c] # NotRouting
    /\ CASE route[c].step \in {1, 4} -> Select(c, "high") /\ NextStep(c) /\ UNCHANGED redirection
         [] route[c].step \in {2, 6} -> Select(c, "low") /\ NextStep(c) /\ UNCHANGED redirection
         [] route[c].step = 3 ->
              /\ route' = [route EXCEPT ![c].step = 4, ![c].low = LowThroughWindow(c)]
              /\ UNCHANGED <<selector, redirection>>
         [] route[c].step = 5 ->
              /\ StoreThroughWindow(c, route[c].dest, WrongHalf)
              /\ NextStep(c) /\ UNCHANGED selector
         [] route[c].step = 7 ->
              /\ StoreThroughWindow(c, 0, route[c].low)
              /\ NextLine(c) /\ UNCHANGED selector
    /\ UNCHANGED <<mp, ioapic, overlap>>

=============================================================================
