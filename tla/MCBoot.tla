------------------------------- MODULE MCBoot -------------------------------
(* A small instance of the boot: sectors of 16 bytes, 44 of them below the
   video memory, page tables of 4 entries and 32-bit addresses that end at
   8 Mbyte.                                                                *)
EXTENDS MultiCore

CPU(id, enabled) == [type |-> "processor", id |-> id, enabled |-> enabled]
Bus(id, kind) == [type |-> "bus", id |-> id, bus |-> kind]
Chip(id, base) == [type |-> "ioapic", id |-> id, base |-> base]
Line(kind, bus, irq, chip, pin) ==
    [type |-> "line", kind |-> kind, bus |-> bus, irq |-> irq, ioapic |-> chip, pin |-> pin]
LocalLine == [type |-> "local"]

\* The keyboard on the ISA bus and a PCI device.
TwoProcessors == <<CPU(0, TRUE), CPU(1, TRUE), Bus(0, "PCI"), Bus(1, "ISA"), Chip(4, 100),
                   Line("INT", 1, 1, 4, 1), LocalLine, Line("INT", 0, 17, 4, 3)>>

Usual == [kernel32 |-> 75, kernel64 |-> 16, diskFails |-> FALSE, ram |-> 8, bad |-> {},
          longMode |-> TRUE, keyboard |-> TRUE, areas |-> <<<<>>, <<>>, <<TwoProcessors>>>>,
          picMode |-> FALSE, responding |-> {1}, ipiPends |-> FALSE]

\* Two processors and no lines.
Plain == [Usual EXCEPT !.areas[3][1] = <<CPU(0, TRUE), CPU(1, TRUE)>>]

\* Three processors; the lines of the busses lead to two I/O APICs.
ThreeProcessors == <<CPU(0, TRUE), CPU(1, TRUE), CPU(2, TRUE), Bus(1, "ISA"), Bus(2, "PCI"),
                     Chip(4, 100), Chip(5, 200),
                     Line("INT", 1, 1, 4, 1), Line("ExtINT", 2, 5, 5, 1)>>

OneProcessor == <<CPU(0, TRUE), Bus(7, "ISA"), Bus(9, "other"), Chip(1, 100),
                  Line("ExtINT", 7, 0, 1, 0), Line("INT", 7, 1, 1, 1)>>

\* A timer; the device has a line that takes the place of the keyboard's in the map.
Collision == [TwoProcessors EXCEPT ![7] = Line("INT", 1, 0, 4, 2), ![8] = Line("INT", 0, 1, 4, 3)]

\* The second processor is disabled, so that the IDs in use are 0 and 2.
Gap == <<CPU(0, TRUE), CPU(1, FALSE), CPU(2, TRUE), Bus(1, "ISA"), Chip(4, 100)>>

MCMachines ==
    { Usual,
      [Plain EXCEPT !.kernel64 = 600],
      [Usual EXCEPT !.areas = <<<<>>, <<ThreeProcessors>>, <<>>>>, !.responding = {1, 2}],
      \* files of whole sectors; a table in the BIOS data area goes first
      [Usual EXCEPT !.kernel32 = 64, !.kernel64 = 640, !.responding = {},
                    !.areas[1] = <<OneProcessor>>],
      [Usual EXCEPT !.areas[3] = <<Append(Gap, Line("INT", 1, 1, 4, 1))>>, !.responding = {2}],
      [Usual EXCEPT !.areas[3] = <<Gap>>, !.responding = {1, 2}],
      [Usual EXCEPT !.areas[3] = <<Collision>>, !.picMode = TRUE],
      \* no table; a processor that does not answer; messages that stay pending
      [Usual EXCEPT !.areas[3] = <<>>],
      [Plain EXCEPT !.responding = {}],
      [Plain EXCEPT !.ipiPends = TRUE],
      \* a disk that fails, too large an image
      [Plain EXCEPT !.diskFails = TRUE],
      [Plain EXCEPT !.kernel64 = 648],
      \* too little memory, a bad word in the kernel's area, no 64-bit mode, no keyboard
      [Plain EXCEPT !.ram = 7],
      [Plain EXCEPT !.bad = {<<3, "zero">>}],
      [Plain EXCEPT !.longMode = FALSE],
      [Plain EXCEPT !.keyboard = FALSE] }

=============================================================================
