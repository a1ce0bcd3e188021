-------------------------------- MODULE Keyboard --------------------------------
(***************************************************************************)
(* The keyboard driver (02.Kernel64/Source/Keyboard.c), its interrupt      *)
(* handler with the balancing of interrupts over the cores                 *)
(* (InterruptHandler.c), and the shell that reads the key queue.           *)
(*                                                                         *)
(* A byte of the keyboard can be read by two: the interrupt handler and    *)
(* the loop that waits for the keyboard's answer to a command, which       *)
(* converts every other byte it reads.  A lock key makes the conversion    *)
(* send a command, so that conversions and commands nest: each core has a  *)
(* stack of the calls it is in, the innermost first.                       *)
(***************************************************************************)
EXTENDS Queue, Sequences, SequencesExt

CONSTANTS
    Core,            \* local APIC IDs, 0 .. n
    Script,          \* the sequences of scan codes a user may type
    Byte,            \* the bytes in them, ACK, RESEND and what the port holds at first
    MaxBytes,        \* 100: how many bytes a wait for an ACK reads
    KEY_MAXQUEUECOUNT,
    Divisor          \* INTERRUPT_LOADBALANCINGDIVIDOR

ACK == 250           \* 0xFA
RESEND == 254        \* 0xFE: the keyboard's answer to what is no command

\* A wait reads more bytes than the keyboard can have in its buffer.
ASSUME MaxBytesAssumption == \A s \in Script : Len(s) < MaxBytes
ASSUME BootCore == 0 \in Core /\ Core \subseteq Nat
ASSUME ByteAssumption == {0, ACK, RESEND} \subseteq Byte /\ Byte \subseteq 0 .. 255
\* No key has the scan code of an ACK.
ASSUME ScriptAssumption == Script \subseteq Seq(Byte \ {ACK})
ASSUME CountAssumption == MaxBytes \in Nat /\ KEY_MAXQUEUECOUNT \in Nat \ {0}

VARIABLES
    gs_stKeyboardManager,  \* the combination keys and what E0 and E1 announced
    gs_stKeyQueue,
    stack,         \* stack[c]: the driver's calls on core c, innermost first
    boot,          \* how far Main_64 is
    routed,        \* the core IRQ 1 is routed to
    irr,           \* irr[c]: IRQ 1 is pending in the local APIC of c
    count,         \* vvqwCoreInterruptCount of IRQ 1
    typed,         \* what the user types (chosen at the start)
    sent,          \* how much of it the keyboard has sent
    replies,       \* the answers the keyboard has still to send
    option,        \* does the keyboard expect the byte with the LEDs?
    leds,          \* the LEDs
    port,          \* the byte in port 0x60
    outputFull,    \* bit 0 of port 0x64: port holds a byte not yet read
    produced,      \* every key given to kPutQueue (for properties)
    nested,        \* was a lock key read during a wait? (for properties)
    overlap,       \* did a core enter the handler during another's? (")
    missed         \* did a byte arrive before interrupts did? (")

device == <<typed, sent, replies, option, leds, port, outputFull>>
driver == <<gs_stKeyboardManager, gs_stKeyQueue>>
interrupts == <<routed, irr, count>>
ghosts == <<produced, nested, overlap, missed>>
vars == <<driver, stack, boot, interrupts, device, ghosts>>

(***************************************************************************)
(* Keys                                                                    *)
(***************************************************************************)
LED == [caps : BOOLEAN, num : BOOLEAN, scroll : BOOLEAN]
LEDsOff == [caps |-> FALSE, num |-> FALSE, scroll |-> FALSE]

KEYBOARDMANAGER ==
    [bShiftDown : BOOLEAN, bCapsLockOn : BOOLEAN, bNumLockOn : BOOLEAN,
     bScrollLockOn : BOOLEAN, bExtendedCodeIn : BOOLEAN, iSkipCountForPause : 0 .. 2]

NothingHeld ==
    [bShiftDown |-> FALSE, bCapsLockOn |-> FALSE, bNumLockOn |-> FALSE,
     bScrollLockOn |-> FALSE, bExtendedCodeIn |-> FALSE, iSkipCountForPause |-> 0]

\* KEYDATA.  The ASCII code is given by the scan code and the column of the
\* mapping table; KEY_PAUSE is the only key with scan code 0xE1.
KeyData == [scan : Byte, combined : BOOLEAN, extended : BOOLEAN, down : BOOLEAN]
NoKey == [scan |-> 0, combined |-> FALSE, extended |-> FALSE, down |-> FALSE]

Up(code) == code >= 128
Code(code) == code % 128           \* bScanCode & 0x7F

kIsAlphabetScanCode(code) == code \in 16 .. 25 \cup 30 .. 38 \cup 44 .. 50
kIsNumberOrSymbolScanCode(code) == code \in 2 .. 53 /\ ~kIsAlphabetScanCode(code)
kIsNumberPadScanCode(code) == code \in 71 .. 83

\* The keys whose two columns of the mapping table agree, or that have none.
OneColumn == {0, 1, 14, 15, 28, 29, 42, 74, 78} \cup 54 .. 70 \cup 84 .. 127

Shift(code) == Code(code) \in {42, 54}
LockKey(code) == code \in {58, 69, 70}      \* pressed, not released

\* The values kIsUseCombinedCode may return: the variable that holds its result
\* is not set for a key of the extended number pad.
kIsUseCombinedCode(m, code) ==
    IF code \in OneColumn THEN {FALSE}
    ELSE IF kIsAlphabetScanCode(code) THEN {m.bShiftDown # m.bCapsLockOn}
    ELSE IF kIsNumberOrSymbolScanCode(code) THEN {m.bShiftDown}
    ELSE IF kIsNumberPadScanCode(code) /\ ~m.bExtendedCodeIn THEN {m.bNumLockOn}
    ELSE BOOLEAN

\* UpdateCombinationKeyStatusAndLED up to its call of kChangeKeyboardLED
UpdateCombinationKeyStatus(m, code) ==
    CASE Shift(code) -> [m EXCEPT !.bShiftDown = ~Up(code)]
      [] code = 58 -> [m EXCEPT !.bCapsLockOn = ~@]
      [] code = 69 -> [m EXCEPT !.bNumLockOn = ~@]
      [] code = 70 -> [m EXCEPT !.bScrollLockOn = ~@]
      [] OTHER -> m

Locks(m) == [caps |-> m.bCapsLockOn, num |-> m.bNumLockOn, scroll |-> m.bScrollLockOn]

\* What kConvertScanCodeToASCIICode may do with a byte: the manager it leaves,
\* the key it makes, if any, and whether it goes on to kChangeKeyboardLED.
Nothing(m) == [manager |-> m, keys |-> <<>>, led |-> FALSE]
PauseKey == [NoKey EXCEPT !.scan = 225, !.down = TRUE]
kConvertScanCodeToASCIICode(m, code) ==
    IF m.iSkipCountForPause > 0
    THEN {Nothing([m EXCEPT !.iSkipCountForPause = @ - 1])}
    ELSE IF code = 225
    THEN {[manager |-> [m EXCEPT !.iSkipCountForPause = 2], keys |-> <<PauseKey>>,
           led |-> FALSE]}
    ELSE IF code = 224
    THEN {Nothing([m EXCEPT !.bExtendedCodeIn = TRUE])}
    ELSE {[manager |-> UpdateCombinationKeyStatus([m EXCEPT !.bExtendedCodeIn = FALSE], code),
           keys |-> <<[scan |-> code, combined |-> combined,
                       extended |-> m.bExtendedCodeIn, down |-> ~Up(code)]>>,
           led |-> LockKey(code)] : combined \in kIsUseCombinedCode(m, Code(code))}

(***************************************************************************)
(* The calls on a core's stack                                             *)
(***************************************************************************)
Call(pc) == [pc |-> pc, key |-> NoKey, leds |-> LEDsOff, j |-> 0]
\* Mutant of kChangeKeyboardLED: two of its arguments are swapped.
SwapLEDs(l) == [Call("command") EXCEPT !.leds = [l EXCEPT !.num = l.scroll, !.scroll = l.num]]
kChangeKeyboardLED(l) == [Call("command") EXCEPT !.leds = l]
PutKey(k) == [Call("put") EXCEPT !.key = k]

\* kConvertScanCodeAndPutQueue: first the LEDs, then the key goes to the queue.
Convert(result) ==
    (IF result.led THEN <<kChangeKeyboardLED(Locks(result.manager))>> ELSE <<>>)
    \o [i \in DOMAIN result.keys |-> PutKey(result.keys[i])]

Waiting == {"ackActivate", "ackCommand", "ackData"}
PC == {"status", "scan", "end", "put", "command"} \cup Waiting

Frame == [pc : PC, key : KeyData, leds : LED, j : 0 .. MaxBytes]

InHandler(c) == stack[c] # <<>>
At(c, pc) == stack[c] # <<>> /\ Head(stack[c]).pc = pc
Replace(c, calls) == stack' = [stack EXCEPT ![c] = calls \o Tail(@)]
Goto(c, pc) == Replace(c, <<[Head(stack[c]) EXCEPT !.pc = pc]>>)

TypeOK ==
    /\ gs_stKeyboardManager \in KEYBOARDMANAGER
    /\ \A i \in 1 .. Count(gs_stKeyQueue) : Contents(gs_stKeyQueue)[i] \in KeyData
    /\ stack \in [Core -> Seq(Frame)]
    /\ boot \in {"activate", "leds", "on", "failed"}
    /\ routed \in Core /\ irr \in [Core -> BOOLEAN] /\ count \in [Core -> Nat]
    /\ typed \in Script /\ sent \in 0 .. Len(typed)
    /\ replies \in Seq({ACK, RESEND}) /\ option \in BOOLEAN /\ leds \in LED
    /\ port \in Byte /\ outputFull \in BOOLEAN
    /\ produced \in Seq(KeyData)
    /\ nested \in BOOLEAN /\ overlap \in BOOLEAN /\ missed \in BOOLEAN

\* kInitializeKeyboard up to the wait in kActivateKeyboard, with interrupts off.
\* The keyboard was enabled by the firmware: keys may come before the ACK.
Init ==
    /\ gs_stKeyboardManager = NothingHeld
    /\ gs_stKeyQueue = kInitializeQueue(KEY_MAXQUEUECOUNT, NoKey)
    /\ stack = [c \in Core |-> IF c = 0 THEN <<Call("ackActivate")>> ELSE <<>>]
    /\ boot = "activate"
    /\ routed = 0
    /\ irr = [c \in Core |-> FALSE] /\ count = [c \in Core |-> 0]
    /\ typed \in Script /\ sent = 0
    /\ replies = <<ACK>> /\ option = FALSE /\ leds = LEDsOff
    /\ port = 0 /\ outputFull = FALSE
    /\ produced = <<>> /\ nested = FALSE /\ overlap = FALSE /\ missed = FALSE

(***************************************************************************)
(* The keyboard and its controller (external)                              *)
(***************************************************************************)
\* A byte goes to port 0x60 and raises IRQ 1, which is lost before Main_64 and
\* kChangeToMultiCoreMode have set up the interrupt controllers.
Emit(b) ==
    /\ ~outputFull
    /\ outputFull' = TRUE /\ port' = b
    /\ irr' = IF boot = "on" THEN [irr EXCEPT ![routed] = TRUE] ELSE irr
    /\ UNCHANGED <<driver, stack, boot, routed, count, typed, option, leds, ghosts>>

Type ==
    /\ sent < Len(typed) /\ Emit(typed[sent + 1])
    /\ sent' = sent + 1 /\ UNCHANGED replies
Answer ==
    /\ replies # <<>> /\ Emit(Head(replies))
    /\ replies' = Tail(replies) /\ UNCHANGED sent

\* What the keyboard makes of a byte written to port 0x60.
TakeCommand ==
    /\ replies' = Append(replies, ACK) /\ option' = TRUE /\ UNCHANGED leds
TakeLEDs(l) ==
    /\ replies' = Append(replies, IF option THEN ACK ELSE RESEND)
    /\ leds' = IF option THEN l ELSE leds
    /\ option' = FALSE

(***************************************************************************)
(* Commands to the keyboard                                                *)
(***************************************************************************)
\* A byte is read from port 0x60 and not interpreted: what was there stays.
ReadPort == outputFull' = FALSE /\ UNCHANGED <<typed, sent, port>>

\* kChangeKeyboardLED sends 0xED.
SendCommand(c) ==
    /\ At(c, "command") /\ Goto(c, "ackCommand")
    /\ TakeCommand
    /\ UNCHANGED <<driver, boot, interrupts, typed, sent, port, outputFull, ghosts>>

\* Mutant of Turn: the number of bytes is not bounded.
TurnOnce(c) ==
    /\ stack[c] # <<>> /\ Head(stack[c]).pc \in Waiting
    /\ outputFull \/ replies = <<>>
    /\ ReadPort

\* One turn of kWaitForACKAndPutOtherScanCode.  It ends without a byte only
\* when the keyboard owes none, 0xFFFF polls being enough for any answer; then
\* the byte read is the one that was read before.
Turn(c) ==
    /\ stack[c] # <<>> /\ Head(stack[c]).pc \in Waiting /\ Head(stack[c]).j < MaxBytes
    /\ outputFull \/ replies = <<>>
    /\ ReadPort

\* The ACK: after the command the LEDs are sent, and then waited for again;
\* kActivateKeyboard returns TRUE, and Main_64 clears the LEDs.
WaitForACK(c) ==
    /\ Turn(c) /\ port = ACK
    /\ LET call == Head(stack[c]) IN
         CASE call.pc = "ackCommand" ->
                /\ TakeLEDs(call.leds)
                /\ Replace(c, <<[call EXCEPT !.pc = "ackData", !.j = 0]>>)
                /\ UNCHANGED boot
           [] call.pc = "ackData" ->
                Replace(c, <<>>) /\ UNCHANGED <<boot, replies, option, leds>>
           [] call.pc = "ackActivate" ->
                /\ boot' = "leds" /\ Replace(c, <<kChangeKeyboardLED(LEDsOff)>>)
                /\ UNCHANGED <<replies, option, leds>>
    /\ UNCHANGED <<driver, interrupts, ghosts>>

\* Mutant of PutOtherScanCode: a byte that is no ACK is dropped.
DropOtherScanCode(c) ==
    /\ Turn(c) /\ port # ACK
    /\ Replace(c, <<[Head(stack[c]) EXCEPT !.j = @ + 1]>>)
    /\ UNCHANGED <<driver, boot, interrupts, replies, option, leds, ghosts>>

\* Another byte is converted as if the handler had read it.
PutOtherScanCode(c) ==
    /\ Turn(c) /\ port # ACK
    /\ \E result \in kConvertScanCodeToASCIICode(gs_stKeyboardManager, port) :
         /\ gs_stKeyboardManager' = result.manager
         /\ Replace(c, Convert(result) \o <<[Head(stack[c]) EXCEPT !.j = @ + 1]>>)
         /\ nested' = (nested \/ result.led)
    /\ UNCHANGED <<gs_stKeyQueue, boot, interrupts, replies, option, leds,
                   produced, overlap, missed>>

\* Mutant of GiveUp: the wait begins anew.
WaitAgain(c) ==
    /\ stack[c] # <<>> /\ Head(stack[c]).pc \in Waiting /\ Head(stack[c]).j = MaxBytes
    /\ Replace(c, <<[Head(stack[c]) EXCEPT !.j = 0]>>)
    /\ UNCHANGED <<driver, boot, interrupts, device, ghosts>>

\* MaxBytes bytes and no ACK: FALSE.  Main_64 stops when kActivateKeyboard fails.
GiveUp(c) ==
    /\ stack[c] # <<>> /\ Head(stack[c]).pc \in Waiting /\ Head(stack[c]).j = MaxBytes
    /\ boot' = IF At(c, "ackActivate") THEN "failed" ELSE boot
    /\ Replace(c, <<>>)
    /\ UNCHANGED <<driver, interrupts, device, ghosts>>

\* The rest of kConvertScanCodeAndPutQueue, under the spin lock.
Put(c) ==
    /\ At(c, "put")
    /\ gs_stKeyQueue' = kPutQueue(gs_stKeyQueue, Head(stack[c]).key)
    /\ produced' = Append(produced, Head(stack[c]).key)
    /\ Replace(c, <<>>)
    /\ UNCHANGED <<gs_stKeyboardManager, boot, interrupts, device,
                   nested, overlap, missed>>

(***************************************************************************)
(* The interrupt handler                                                   *)
(***************************************************************************)
\* kInitializePIC and kChangeToMultiCoreMode set up the interrupt controllers;
\* the edge of a byte that is already in the port is not seen.
EnableInterrupt ==
    /\ boot = "leds" /\ stack[0] = <<>>
    /\ boot' = "on" /\ missed' = outputFull
    /\ UNCHANGED <<driver, stack, interrupts, device, produced, nested, overlap>>

kKeyboardHandler(c) ==
    /\ irr[c] /\ stack[c] = <<>> /\ boot = "on"
    /\ irr' = [irr EXCEPT ![c] = FALSE]
    /\ stack' = [stack EXCEPT ![c] = <<Call("status")>>]
    /\ overlap' = (overlap \/ \E d \in Core \ {c} : InHandler(d))
    /\ UNCHANGED <<driver, boot, routed, count, device, produced, nested, missed>>

kIsOutputBufferFull(c) ==
    /\ At(c, "status") /\ Goto(c, IF outputFull THEN "scan" ELSE "end")
    /\ UNCHANGED <<driver, boot, interrupts, device, ghosts>>

\* It spins until there is a byte.
kGetKeyboardScanCode(c) ==
    /\ At(c, "scan") /\ outputFull
    /\ ReadPort
    /\ \E result \in kConvertScanCodeToASCIICode(gs_stKeyboardManager, port) :
         /\ gs_stKeyboardManager' = result.manager
         /\ Replace(c, Convert(result) \o <<Call("end")>>)
    /\ UNCHANGED <<gs_stKeyQueue, boot, interrupts, replies, option, leds, ghosts>>

\* kProcessLoadBalancing: after every Divisor interrupts of a core IRQ 1 goes to
\* the core that had the fewest, the first of them when there are several.
Fewest(n) == {c \in Core : \A d \in Core : n[c] <= n[d]}
kProcessLoadBalancing(c, n) ==
    routed' = IF n[c] % Divisor # 0 THEN routed
              ELSE CHOOSE d \in Fewest(n) : \A e \in Fewest(n) : d <= e

\* kSendEOI, kIncreaseInterruptCount, kProcessLoadBalancing and the return
EndOfHandler(c) ==
    /\ At(c, "end")
    /\ count' = [count EXCEPT ![c] = @ + 1]
    /\ kProcessLoadBalancing(c, count')
    /\ Replace(c, <<>>)
    /\ UNCHANGED <<driver, boot, irr, device, ghosts>>

(***************************************************************************)
(* The shell                                                               *)
(***************************************************************************)
\* kGetKeyFromKeyQueue, which kGetCh calls on core 0 until there is a key
kGetCh ==
    /\ boot = "on" /\ stack[0] = <<>>
    /\ ~kIsQueueEmpty(gs_stKeyQueue)
    /\ gs_stKeyQueue' = kGetQueue(gs_stKeyQueue)
    /\ UNCHANGED <<gs_stKeyboardManager, stack, boot, interrupts, device, ghosts>>

Driver(c) ==
    \/ SendCommand(c) \/ WaitForACK(c) \/ PutOtherScanCode(c) \/ GiveUp(c) \/ Put(c)
    \/ kKeyboardHandler(c) \/ kIsOutputBufferFull(c) \/ kGetKeyboardScanCode(c)
    \/ EndOfHandler(c)

Next == Type \/ Answer \/ EnableInterrupt \/ kGetCh \/ \E c \in Core : Driver(c)

Spec == Init /\ [][Next]_vars

\* A core that can go on does, and the keyboard answers.
Fairness ==
    /\ \A c \in Core : WF_vars(Driver(c))
    /\ WF_vars(Answer) /\ WF_vars(EnableInterrupt)
FairSpec == Spec /\ Fairness

(***************************************************************************)
(* Properties                                                              *)
(***************************************************************************)
\* No lock key was read while a command waited for its ACK, and no core took
\* the interrupt while another was in the handler.
Undisturbed == ~nested /\ ~overlap

\* What is left to do when nothing new is typed.
Quiet == boot = "on" /\ \A c \in Core : stack[c] = <<>> /\ ~irr[c]

\* The manager and the keys after each number of bytes, when a byte is handled
\* before the next comes; and the keys that are no lock keys.
\* The column of the key is dropped where kIsUseCombinedCode leaves it open.
Blur(k) == IF k.extended THEN [k EXCEPT !.combined = FALSE] ELSE k
OneByOne(bytes) ==
    LET after[n \in 0 .. Len(bytes)] ==
          IF n = 0 THEN [manager |-> NothingHeld, keys |-> <<>>]
          ELSE LET result == CHOOSE r \in kConvertScanCodeToASCIICode(after[n - 1].manager,
                                                                     bytes[n]) : TRUE
               IN  [manager |-> result.manager, keys |-> after[n - 1].keys \o result.keys]
    IN  after
Characters(keys) ==
    LET among[n \in 0 .. Len(keys)] ==
          IF n = 0 THEN <<>>
          ELSE IF LockKey(keys[n].scan) THEN among[n - 1]
          ELSE Append(among[n - 1], Blur(keys[n]))
    IN  among[Len(keys)]

\* Whichever loop reads a byte, and whatever command is under way, the keys are
\* those the user typed, once each, in order, with the Shift, the lock keys and
\* the prefix that were in force.  A lock key itself is queued after its
\* command, behind the keys that were read during it.
KeysAreTypedKeys ==
    Undisturbed =>
        LET expected == OneByOne(typed)[sent].keys IN
        /\ IsPrefix(Characters(produced), Characters(expected))
        /\ Quiet /\ ~outputFull => /\ Len(produced) = Len(expected)
                                   /\ Characters(produced) = Characters(expected)

\* The LEDs show the lock keys whenever no command is under way
\* (UpdateCombinationKeyStatusAndLED: LEDs are kept in step with the state).
LEDsFollowLocks ==
    Undisturbed /\ Quiet => leds = Locks(gs_stKeyboardManager)

\* The key queue is a FIFO that refuses a key only when it is full, whichever
\* cores put the keys and however the conversions nest.
FIFO == INSTANCE BoundedFIFO WITH
          Data <- KeyData, Capacity <- KEY_MAXQUEUECOUNT,
          fifo <- Contents(gs_stKeyQueue), offered <- produced
ImplementsFIFO == FIFO!Spec

\* A handler returns, and so does every wait in it, unless another core has
\* taken the byte that it spins for in kGetKeyboardScanCode.
HandlerReturns == \A c \in Core : InHandler(c) ~> stack[c] = <<>> \/ overlap

\* A byte in the port is read, except one that came before the interrupts were
\* set up: it raises none, and nothing else reads the port.  (Main_64 has stopped
\* for good when the keyboard could not be activated.)
ByteIsRead == outputFull ~> ~outputFull \/ missed \/ boot = "failed"

\* So the keyboard never falls silent: handlers come to their end and bytes are read.
InputIsServed == HandlerReturns /\ ByteIsRead
===============================================================================
