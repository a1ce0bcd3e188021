------------------------------ MODULE Kernel32 ------------------------------
(* The 32-bit kernel at 0x10000.  The bootstrap processor checks the memory,
   clears the area of the 64-bit kernel, builds the page tables of IA-32e mode
   at 0x400000, copies the 64-bit kernel to 0x200000 and switches the mode.  An
   application processor starts in the same code: the flag at 0x7C09, cleared
   by then, sends it straight to the switch.                               *)
EXTENDS BootLoader

CONSTANTS
    MINIMUM_MB,          \* 64: the memory that the kernel asks for
    PAGE_MAXENTRYCOUNT,  \* 512 entries of a table
    DIRECTORIES,         \* 64 page directories
    PAGE_MB,             \* 2: the size of a page in Mbyte
    DWORD_MB,            \* 4096: what 32 bits can address, in Mbyte
    DYNAMICMEMORY_MB     \* 18: pages from here on belong to user level

ASSUME PagingAssumption ==
    /\ {MINIMUM_MB, PAGE_MAXENTRYCOUNT, DIRECTORIES, PAGE_MB, DWORD_MB} \subseteq Nat \ {0}
    /\ DYNAMICMEMORY_MB \in Nat
    /\ MINIMUM_MB >= 6 /\ DIRECTORIES <= PAGE_MAXENTRYCOUNT
    /\ DWORD_MB % PAGE_MB = 0 /\ DYNAMICMEMORY_MB % PAGE_MB = 0
    /\ DIRECTORIES * PAGE_MAXENTRYCOUNT * PAGE_MB <= 256 * DWORD_MB   \* 40 bits of address

VARIABLES
    mbyte,     \* Mbyte |-> what the first words of it hold
    tables,    \* frame |-> slot |-> entry: the page tables, or nothing
    kernel64,  \* the disk sectors that lie from 0x200000 on
    cr0        \* core |-> the bits set in its CR0

kernel32Vars == <<mbyte, tables, kernel64, cr0>>

(***************************************************************************)
(* The page tables                                                         *)
(***************************************************************************)

\* kSetPageEntryData: the upper half keeps 8 bits of the address.
PageEntry(upper, lower, flags) == [upper |-> upper % 256, lower |-> lower, flags |-> flags]

Blank == PageEntry(0, 0, {})
Slots == 0..(PAGE_MAXENTRYCOUNT - 1)

\* Frames of 4 Kbyte.
PML4 == 1024
PDPT == 1025
PD   == 1026

\* Mutant: the address bits above the 32nd are left out.
PDEntryOf32Bits(i) ==
    PageEntry(0, (i * PAGE_MB) % DWORD_MB,
              IF i < DYNAMICMEMORY_MB \div PAGE_MB
              THEN {"P", "RW", "PS"} ELSE {"P", "RW", "PS", "US"})

\* Entry i of the page directories that lie one after the other: 32 bits of
\* the address, which wrap around, and the bits above them counted in Mbyte.
PDEntry(i) ==
    PageEntry((i * PAGE_MB) \div DWORD_MB, (i * PAGE_MB) % DWORD_MB,
              IF i < DYNAMICMEMORY_MB \div PAGE_MB
              THEN {"P", "RW", "PS"} ELSE {"P", "RW", "PS", "US"})

PageTables ==
    [frame \in PML4..(PD + DIRECTORIES - 1) |-> [slot \in Slots |->
        CASE frame = PML4 -> IF slot = 0 THEN PageEntry(0, PDPT, {"P", "RW", "US"}) ELSE Blank
          [] frame = PDPT -> IF slot < DIRECTORIES
                             THEN PageEntry(0, PD + slot, {"P", "RW", "US"}) ELSE Blank
          [] OTHER        -> PDEntry((frame - PD) * PAGE_MAXENTRYCOUNT + slot)]]

\* The three entries with which the processor translates a page.
Path(page) ==
    LET directory == page \div PAGE_MAXENTRYCOUNT
        first     == tables[PML4][directory \div PAGE_MAXENTRYCOUNT]
        second    == tables[first.lower][directory % PAGE_MAXENTRYCOUNT]
    IN  <<first, second, tables[second.lower][page % PAGE_MAXENTRYCOUNT]>>

(***************************************************************************)
(* The steps                                                               *)
(***************************************************************************)

Kernel32Init ==
    /\ mbyte = [mb \in 1..(MINIMUM_MB - 1) |-> "junk"]
    /\ tables = <<>>
    /\ kernel64 = <<>>
    /\ cr0 = [c \in Cores |-> {}]

\* EntryPoint.s: the core enters protected mode at CR0 = 0x4000003B.
ProtectedMode == {"PE", "MP", "TS", "ET", "NE", "CD"}

EntryPoint(c) ==
    /\ pc[c] = "entry16"
    /\ cr0' = [cr0 EXCEPT ![c] = ProtectedMode]
    /\ Goto(c, "main32")
    /\ UNCHANGED <<loaderVars, mbyte, tables, kernel64>>

\* Main tells the bootstrap processor by the flag.
Main(c) ==
    /\ pc[c] = "main32"
    /\ Goto(c, IF flag = 0 THEN "switch" ELSE "memory")
    /\ UNCHANGED <<loaderVars, kernel32Vars>>

\* Whether a word of this Mbyte keeps the value.
Keeps(mb, value) == mb < machine.ram /\ <<mb, value>> \notin machine.bad

kIsMemoryEnough ==
    LET failing == {mb \in 1..(MINIMUM_MB - 1) : ~Keeps(mb, "pattern")}
    IN  /\ pc[0] = "memory"
        /\ mbyte' = [mb \in DOMAIN mbyte |->
                       IF \E bad \in failing : bad <= mb THEN mbyte[mb] ELSE "pattern"]
        /\ Goto(0, IF failing = {} THEN "area" ELSE "halt")
        /\ UNCHANGED <<loaderVars, tables, kernel64, cr0>>

\* 1 to 6 Mbyte are cleared, where the page tables and the kernel will lie.
kInitializeKernel64Area ==
    LET failing == {mb \in 1..5 : ~Keeps(mb, "zero")}
    IN  /\ pc[0] = "area"
        /\ mbyte' = [mb \in DOMAIN mbyte |->
                       IF mb > 5 \/ \E bad \in failing : bad <= mb THEN mbyte[mb] ELSE "zero"]
        /\ tables' = <<>>
        /\ Goto(0, IF failing = {} THEN "tables" ELSE "halt")
        /\ UNCHANGED <<loaderVars, kernel64, cr0>>

kInitializePageTables ==
    /\ pc[0] = "tables"
    /\ tables' = PageTables
    /\ Goto(0, "cpuid")
    /\ UNCHANGED <<loaderVars, mbyte, kernel64, cr0>>

\* The bit of CPUID for the 64-bit mode.
kReadCPUID ==
    /\ pc[0] = "cpuid"
    /\ Goto(0, IF machine.longMode THEN "copy" ELSE "halt")
    /\ UNCHANGED <<loaderVars, kernel32Vars>>

\* The sectors that follow those of the 32-bit kernel.
kCopyKernel64ImageTo2Mbyte ==
    LET info  == WriteKernelInformation(machine)
        count == info.total - info.kernel32
        from  == LOAD_SEGMENT + info.kernel32 * (BYTESOFSECTOR \div 16)
    IN  /\ pc[0] = "copy"
        /\ kernel64' = [i \in 1..count |->
                          SectorIn(from + (i - 1) * (BYTESOFSECTOR \div 16))]
        /\ Goto(0, "switch")
        /\ UNCHANGED <<loaderVars, mbyte, tables, cr0>>

\* ModeSwitch.asm: or 0xE000000E, then xor 0x60000004; the 64-bit kernel runs
\* if it is there and mapped.
Toggle(bits, mask) == (bits \ mask) \cup (mask \ bits)

kSwitchAndExecute64bitKernel(c) ==
    /\ pc[c] = "switch"
    /\ cr0' = [cr0 EXCEPT ![c] = Toggle(@ \cup {"PG", "CD", "NW", "TS", "EM", "MP"},
                                        {"NW", "CD", "EM"})]
    /\ Goto(c, IF Lost \in {kernel64[i] : i \in DOMAIN kernel64} THEN "halt" ELSE "entry64")
    /\ UNCHANGED <<loaderVars, mbyte, tables, kernel64>>

\* What every core goes through, and what the bootstrap processor does alone.
SharedKernel32Next(c) == EntryPoint(c) \/ Main(c) \/ kSwitchAndExecute64bitKernel(c)

BootstrapKernel32Next ==
    \/ kIsMemoryEnough \/ kInitializeKernel64Area \/ kInitializePageTables
    \/ kReadCPUID \/ kCopyKernel64ImageTo2Mbyte

=============================================================================
