----------------------------- MODULE BootLoader -----------------------------
(* The way of the kernel from its files to memory: the image maker of
   04.Utility lays the boot loader, the 32-bit and the 64-bit kernel out on a
   disk, each file filled up to whole sectors, and writes the two sector counts
   into the boot sector; the boot loader reads sector after sector through the
   BIOS to 0x10000, counting sector, head and track of a floppy disk, and jumps
   there.  A byte is named by its file and offset, memory is kept sector by
   sector as the disk sector that was read to it.                          *)
EXTENDS Integers, Sequences, FiniteSets

CONSTANTS
    Machines,        \* the machines and kernels of an instance
    Cores,           \* the local APIC IDs of their processors; 0 bootstraps
    BYTESOFSECTOR,   \* 512 in the code
    LOAD_SEGMENT,    \* 0x1000 in the code: the image goes to 0x10000
    VIDEO_SEGMENT    \* 0xA000: no RAM from here on

ASSUME LayoutAssumption ==
    /\ BYTESOFSECTOR \in Nat \ {0} /\ BYTESOFSECTOR % 16 = 0
    /\ LOAD_SEGMENT \in Nat /\ VIDEO_SEGMENT \in Nat
    /\ LOAD_SEGMENT < VIDEO_SEGMENT /\ VIDEO_SEGMENT < 65536
    /\ 0 \in Cores /\ Cores \subseteq 0..15
    \* the loader's track number, a byte of 2 heads' 18 sectors each, does not wrap
    /\ (VIDEO_SEGMENT - LOAD_SEGMENT) \div (BYTESOFSECTOR \div 16) < 256 * 2 * 18 - 1

\* The sizes of the kernels' files, in bytes.
ASSUME FileAssumption == \A m \in Machines : m.kernel32 \in Nat /\ m.kernel64 \in Nat

VARIABLES
    machine,   \* the machine that boots; never changes
    pc,        \* where each core is
    flag,      \* BOOTSTRAPPROCESSOR, the byte at 0x7C09
    disk,      \* the loader's registers and variables
    memory     \* segment |-> the disk sector read to it

loaderVars == <<machine, flag, disk, memory>>

Zero == <<"zero", 0>>   \* a byte of padding
Lost == -1              \* a sector that no RAM holds

(***************************************************************************)
(* ImageMaker                                                              *)
(***************************************************************************)

\* The zero bytes that fill a file of this size up to a whole sector.
AdjustInSectorSize(size) ==
    IF size % BYTESOFSECTOR # 0 THEN BYTESOFSECTOR - (size % BYTESOFSECTOR) ELSE 0

SectorCount(size) == (size + AdjustInSectorSize(size)) \div BYTESOFSECTOR

CopyFile(file, size) == [i \in 1..size |-> <<file, i - 1>>]

Padding(size) == [i \in 1..AdjustInSectorSize(size) |-> Zero]

DiskImage(m) ==
    CopyFile("boot", BYTESOFSECTOR) \o Padding(BYTESOFSECTOR)
    \o CopyFile("kernel32", m.kernel32) \o Padding(m.kernel32)
    \o CopyFile("kernel64", m.kernel64) \o Padding(m.kernel64)

\* The two words written at offset 5 of the image are unsigned short.
WriteKernelInformation(m) ==
    [total    |-> (SectorCount(m.kernel32) + SectorCount(m.kernel64)) % 65536,
     kernel32 |-> SectorCount(m.kernel32) % 65536]

\* What the machine is made of is right for this kernel and its loader.
Fits(m) == SectorCount(m.kernel32) + SectorCount(m.kernel64)
             <= (VIDEO_SEGMENT - LOAD_SEGMENT) \div (BYTESOFSECTOR \div 16)

(***************************************************************************)
(* The boot loader                                                         *)
(***************************************************************************)

Goto(c, label) == pc' = [pc EXCEPT ![c] = label]

LoaderInit ==
    /\ machine \in Machines
    /\ pc = [c \in Cores |-> IF c = 0 THEN "reset" ELSE "off"]
    /\ flag = 1
    /\ disk = [left |-> 0, segment |-> 0, track |-> 0, head |-> 0, sector |-> 2]
    /\ memory = <<>>

\* HANDLEDISKERROR prints and hangs.
HandleDiskError ==
    /\ machine.diskFails
    /\ Goto(0, "halt")
    /\ UNCHANGED loaderVars

ResetDisk ==
    /\ pc[0] = "reset"
    /\ \/ HandleDiskError
       \/ /\ disk' = [disk EXCEPT !.left = WriteKernelInformation(machine).total,
                                  !.segment = LOAD_SEGMENT]
          /\ Goto(0, "read")
          /\ UNCHANGED <<machine, flag, memory>>

\* The sector that the BIOS finds at a position of a floppy with 18 sectors a
\* track; the first sector of a track is number 1.
SectorAt(d) == (d.track * 2 + d.head) * 18 + d.sector - 1

\* The position after this one: the head changes after 18 sectors, the track
\* after both heads.
NextPosition(d) ==
    LET turned == IF d.head = 0 THEN 1 ELSE 0
    IN  IF d.sector + 1 < 19
        THEN [d EXCEPT !.sector = @ + 1]
        ELSE [d EXCEPT !.sector = 1, !.head = turned,
                       !.track = IF turned # 0 THEN @ ELSE (@ + 1) % 256]

ReadData ==
    /\ pc[0] = "read"
    /\ disk.left # 0
    /\ \/ HandleDiskError
       \/ /\ memory' = IF disk.segment < VIDEO_SEGMENT
                       THEN [segment \in DOMAIN memory \cup {disk.segment} |->
                               IF segment = disk.segment THEN SectorAt(disk) ELSE memory[segment]]
                       ELSE memory
          /\ disk' = [NextPosition(disk) EXCEPT
                        !.left = disk.left - 1,
                        !.segment = (disk.segment + BYTESOFSECTOR \div 16) % 65536]
          /\ UNCHANGED <<machine, pc, flag>>

ReadEnd ==
    /\ pc[0] = "read"
    /\ disk.left = 0
    /\ Goto(0, "entry16")
    /\ UNCHANGED loaderVars

LoaderNext == ResetDisk \/ ReadData \/ ReadEnd

\* The disk sector that memory holds at a segment.
SectorIn(segment) ==
    IF segment \in DOMAIN memory THEN memory[segment] ELSE Lost

=============================================================================
